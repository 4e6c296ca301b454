----------------------------- MODULE ControlPlane -----------------------------
(***************************************************************************)
(* The governed credential control plane: operators issue, reuse, rotate   *)
(* and revoke the credentials of agent sessions with                       *)
(* scripts/issue_agent_session.py and scripts/manage_agent_registry.py.    *)
(*                                                                         *)
(* One command spans a backend reset, the files of a session directory,    *)
(* the registry and the audit log, and no transaction ties them together.  *)
(* Each of the three directories is written under a reservation of the     *)
(* storage ledger (StorageQuota): a lock that is refused, not waited for,  *)
(* and that a death frees.                                                 *)
(*                                                                         *)
(* A job has one session directory and asks for one episode, and the three *)
(* share a name here.  The tokens written for a job are numbered; its      *)
(* directory holds the first.                                              *)
(***************************************************************************)
EXTENDS Naturals, Sequences, FiniteSets

CONSTANTS
  Processes,     \* runs of the two scripts, at any time
  Jobs,          \* job files, each with its session directory and episode
  Subjects, SubjectOf, \* for whom a job's session is issued
  MaxActive,     \* policy: max_active_sessions_per_subject
  PolicyExpires, \* policy: expires_at; it is valid from 0
  TTL,           \* ttl_seconds of every command
  MaxTime, MaxOperations, MaxTokens, \* bounds of the model
  None

ASSUME ControlAssumption ==
  /\ SubjectOf \in [Jobs -> Subjects]
  /\ MaxActive \in Nat /\ PolicyExpires \in Nat /\ TTL \in Nat \ {0}
  /\ MaxTime \in Nat /\ MaxOperations \in Nat /\ MaxTokens \in Nat \ {0}
  /\ IsFiniteSet(Jobs) /\ Jobs \cap {"registry", "audit"} = {}
  /\ None \notin Jobs /\ None \notin Processes

VARIABLES
  registry,   \* the credential registry: the session of each episode
  audit,      \* the audit log
  torn,       \* the audit log ends in a partial line
  directory,  \* the files of each session directory
  tokens,     \* how many tokens have been written for each job
  resets,     \* how often the backend has been reset for each job
  lock,       \* who has reserved the registry, the audit log, a directory
  cli,        \* what each run of a script does
  operations, \* operations begun, which numbers them
  now         \* the clock

vars == <<registry, audit, torn, directory, tokens, resets, lock, cli,
          operations, now>>

Kinds == {"issuance", "reuse", "rotation", "revocation"}

Phases == {"idle", "announce", "announcing", "prepare", "reset", "bind", "load",
           "token", "store", "read", "complete", "completing"}

Resources == {"registry", "audit"} \cup Jobs

\* valid_lifecycle: an active credential has no revocation time, a revoked
\* one has.
Sessions ==
       [token : 1 .. MaxTokens, status : {"active"}, revoked_at : {None},
        expires_at : Nat, generation : Nat \ {0}]
  \cup [token : 1 .. MaxTokens, status : {"revoked"}, revoked_at : Nat,
        expires_at : Nat, generation : Nat \ {0}]

ASSUME NoneIsNoSession == None \notin Sessions

\* "about" is no field of a started event: it is the job of its operation.
Events == [kind : Kinds, phase : {"started", "completed"},
           operation : 1 .. MaxOperations, about : Jobs, generation : Nat]

Runs == [phase : Phases, kind : Kinds, job : Jobs \cup {None},
         operation : 0 .. MaxOperations, generation : Nat, token : 0 .. MaxTokens,
         snapshot : [Jobs -> Sessions \cup {None}]]

Idle == [phase |-> "idle", kind |-> "issuance", job |-> None, operation |-> 0,
         generation |-> 0, token |-> 0, snapshot |-> [o \in Jobs |-> None]]

Init ==
  /\ registry = [o \in Jobs |-> None]
  /\ audit = << >>
  /\ torn = FALSE
  /\ directory = [o \in Jobs |-> "absent"]
  /\ tokens = [o \in Jobs |-> 0]
  /\ resets = [o \in Jobs |-> 0]
  /\ lock = [r \in Resources |-> None]
  /\ cli = [w \in Processes |-> Idle]
  /\ operations = 0
  /\ now = 0

-------------------------------------------------------------------------------
(* The policy *)

\* Sessions of a subject that resolve at a time.
Active(sessions, subject, t) ==
  {o \in Jobs : /\ SubjectOf[o] = subject /\ sessions[o] # None
                /\ sessions[o].status = "active" /\ sessions[o].expires_at > t}

\* authorize_issuance, for a session that is not counted itself.
Authorized(sessions, o) ==
  /\ now < PolicyExpires
  /\ Cardinality(Active(sessions, SubjectOf[o], now) \ {o}) < MaxActive

-------------------------------------------------------------------------------
(* Reservations and steps of a run *)

\* Mutant: the registry is read and replaced without a reservation.
NeverReserved(r) == r = "registry" \/ lock[r] = None

Free(r) == lock[r] = None

At(w, phase) == cli[w].phase = phase

Goto(w, phase) == cli' = [cli EXCEPT ![w].phase = phase]

Begin(w, kind, o, phase, generation, snapshot) ==
  /\ At(w, "idle") /\ operations < MaxOperations
  /\ operations' = operations + 1
  /\ cli' = [cli EXCEPT ![w] =
       [phase |-> phase, kind |-> kind, job |-> o, operation |-> operations + 1,
        generation |-> generation, token |-> 0, snapshot |-> snapshot]]

\* An issuance: the directory does not exist and the policy allows it so far.
BeginIssue(w, o) ==
  /\ directory[o] = "absent" /\ Authorized(registry, o)
  /\ Begin(w, "issuance", o, "announce", 0, Idle.snapshot)
  /\ UNCHANGED <<registry, audit, torn, directory, tokens, resets, lock, now>>

\* The same command again: the directory holds a token and its binding.
BeginReuse(w, o) ==
  /\ directory[o] = "bound" /\ Authorized(registry, o)
  /\ Begin(w, "reuse", o, "load", 0, Idle.snapshot)
  /\ UNCHANGED <<registry, audit, torn, directory, tokens, resets, lock, now>>

First(kind) == "announce"

\* Management reserves the registry and loads it before anything else; a
\* revoked session is not revoked again, and the limit is not looked at.
BeginManage(w, o, kind) ==
  /\ Free("registry") /\ registry[o] # None
  /\ kind = "revocation" => registry[o].status = "active"
  /\ kind = "rotation" => now < PolicyExpires /\ tokens[o] < MaxTokens
  /\ Begin(w, kind, o, First(kind), registry[o].generation, registry)
  /\ lock' = [lock EXCEPT !["registry"] = w]
  /\ UNCHANGED <<registry, audit, torn, directory, tokens, resets, now>>

\* The script dies, or gives up: refused by a lock, the policy, a full or a
\* torn log.
Stop(w) ==
  /\ ~At(w, "idle")
  /\ cli' = [cli EXCEPT ![w] = Idle]
  /\ lock' = [r \in Resources |-> IF lock[r] = w THEN None ELSE lock[r]]
  /\ UNCHANGED <<registry, audit, torn, directory, tokens, resets, operations, now>>

-------------------------------------------------------------------------------
(* The audit log *)

Whole == ~torn

\* append_control_event verifies the chain and begins to write a line.
Append1(w) ==
  /\ At(w, "announce") \/ At(w, "complete")
  /\ Free("audit") /\ Whole
  /\ lock' = [lock EXCEPT !["audit"] = w]
  /\ torn' = TRUE
  /\ Goto(w, IF At(w, "announce") THEN "announcing" ELSE "completing")
  /\ UNCHANGED <<registry, audit, directory, tokens, resets, operations, now>>

Event(run, phase) ==
  [kind |-> run.kind, phase |-> phase, operation |-> run.operation,
   about |-> run.job,
   generation |-> IF phase = "started" THEN 0 ELSE run.generation]

\* Mutant: a revocation is reported before it is made.
ReportedFirst(kind) ==
  CASE kind = "issuance" -> "prepare"
    [] kind = "rotation" -> "token"
    [] OTHER -> "complete"

\* Mutant: the new token is not written before the registry names it.
StoredFirst(kind) == IF kind = "issuance" THEN "prepare" ELSE "store"

\* A directory is made, a token written or a session revoked.
AfterStart(kind) ==
  CASE kind = "issuance" -> "prepare"
    [] kind = "rotation" -> "token"
    [] OTHER -> "store"

\* The line of a started event is on disk; a rotation draws its token.
Announced(w) ==
  /\ At(w, "announcing")
  /\ audit' = Append(audit, Event(cli[w], "started"))
  /\ torn' = FALSE
  /\ lock' = [lock EXCEPT !["audit"] = None]
  /\ cli' = [cli EXCEPT ![w].phase = AfterStart(cli[w].kind),
                        ![w].token = IF cli[w].kind = "rotation"
                                     THEN tokens[cli[w].job] + 1 ELSE 1]
  /\ UNCHANGED <<registry, directory, tokens, resets, operations, now>>

\* The line of a completed event is on disk and the command ends.
Completed(w) ==
  /\ At(w, "completing")
  /\ audit' = Append(audit, Event(cli[w], "completed"))
  /\ torn' = FALSE
  /\ lock' = [r \in Resources |-> IF lock[r] = w THEN None ELSE lock[r]]
  /\ cli' = [cli EXCEPT ![w] = Idle]
  /\ UNCHANGED <<registry, directory, tokens, resets, operations, now>>

-------------------------------------------------------------------------------
(* The session directory *)

\* Mutant: an existing directory is taken over.
Creatable(o) == directory[o] # "bound"

Missing(o) == directory[o] = "absent"

\* mkdir, the first token and the receipt of the pending reset.
Prepare(w) ==
  LET o == cli[w].job IN
  /\ At(w, "prepare") /\ Free(o) /\ Missing(o)
  /\ lock' = [lock EXCEPT ![o] = w]
  /\ directory' = [directory EXCEPT ![o] = "pending"]
  /\ tokens' = [tokens EXCEPT ![o] = 1]
  /\ Goto(w, "reset")
  /\ UNCHANGED <<registry, audit, torn, resets, operations, now>>

\* POST /v2/reset; the answer may be lost with the script.
Reset(w) ==
  /\ At(w, "reset")
  /\ resets' = [resets EXCEPT ![cli[w].job] = @ + 1]
  /\ Goto(w, "bind")
  /\ UNCHANGED <<registry, audit, torn, directory, tokens, lock, operations, now>>

Bind(w) ==
  /\ At(w, "bind")
  /\ directory' = [directory EXCEPT ![cli[w].job] = "bound"]
  /\ Goto(w, "load")
  /\ UNCHANGED <<registry, audit, torn, tokens, resets, lock, operations, now>>

\* write_new_token, of a rotation.
WriteToken(w) ==
  /\ At(w, "token")
  /\ tokens' = [tokens EXCEPT ![cli[w].job] = cli[w].token]
  /\ Goto(w, "store")
  /\ UNCHANGED <<registry, audit, torn, directory, resets, lock, operations, now>>

-------------------------------------------------------------------------------
(* The registry *)

\* Mutant: the limit was checked when the command began.
CheckedBefore(o) == now < PolicyExpires

Publishable(o) == Authorized(registry, o)

Unpublished(o) == registry[o] = None

\* publish_binding reserves the registry and loads it: a session to publish
\* has to be within the limit.
LoadToPublish(w) ==
  LET o == cli[w].job IN
  /\ At(w, "load") /\ Free("registry")
  /\ Unpublished(o) /\ Publishable(o)
  /\ lock' = [lock EXCEPT !["registry"] = w]
  /\ cli' = [cli EXCEPT ![w].phase = "store", ![w].snapshot = registry]
  /\ UNCHANGED <<registry, audit, torn, directory, tokens, resets, operations, now>>

\* A session that is published already is left alone; one whose token was
\* rotated stops the script.
LoadPublished(w) ==
  LET o == cli[w].job IN
  /\ At(w, "load") /\ Free("registry")
  /\ ~Unpublished(o) /\ registry[o].token = 1
  /\ cli' = [cli EXCEPT ![w].phase = IF cli[w].kind = "reuse" THEN "read"
                                                              ELSE "complete",
                        ![w].generation = 1]
  /\ UNCHANGED <<registry, audit, torn, directory, tokens, resets, lock, operations, now>>

New == [token |-> 1, status |-> "active", revoked_at |-> None,
        expires_at |-> now + TTL, generation |-> 1]

Revoked(session) == [session EXCEPT !.status = "revoked", !.revoked_at = now]

Rotated(session, token) ==
  [token |-> token, status |-> "active", revoked_at |-> None,
   expires_at |-> now + TTL, generation |-> session.generation + 1]

Replacement(run) ==
  CASE run.kind \in {"issuance", "reuse"} -> New
    [] run.kind = "revocation" -> Revoked(run.snapshot[run.job])
    [] OTHER -> Rotated(run.snapshot[run.job], run.token)

\* replace_private: the whole file is renamed over the registry, and the
\* reservation ends.
Store(w) ==
  LET o == cli[w].job  session == Replacement(cli[w]) IN
  /\ At(w, "store")
  /\ registry' = [cli[w].snapshot EXCEPT ![o] = session]
  /\ lock' = [lock EXCEPT !["registry"] = None]
  /\ cli' = [cli EXCEPT ![w].phase = IF cli[w].kind = "reuse" THEN "read"
                                                              ELSE "complete",
                        ![w].generation = session.generation,
                        ![w].snapshot = Idle.snapshot]
  /\ UNCHANGED <<audit, torn, directory, tokens, resets, operations, now>>

\* A reuse reads the generation it reports once more, without a reservation.
Read(w) ==
  /\ At(w, "read")
  /\ cli' = [cli EXCEPT ![w].phase = "complete",
                        ![w].generation = registry[cli[w].job].generation]
  /\ UNCHANGED <<registry, audit, torn, directory, tokens, resets, lock, operations, now>>

Tick ==
  /\ now < MaxTime
  /\ now' = now + 1
  /\ UNCHANGED <<registry, audit, torn, directory, tokens, resets, lock, cli, operations>>

Next ==
  \/ \E w \in Processes :
       \/ \E o \in Jobs : \/ BeginIssue(w, o) \/ BeginReuse(w, o)
                          \/ \E kind \in {"rotation", "revocation"} : BeginManage(w, o, kind)
       \/ Append1(w) \/ Announced(w) \/ Completed(w)
       \/ Prepare(w) \/ Reset(w) \/ Bind(w) \/ WriteToken(w)
       \/ LoadToPublish(w) \/ LoadPublished(w) \/ Store(w) \/ Read(w) \/ Stop(w)
  \/ Tick

Spec == Init /\ [][Next]_vars

-------------------------------------------------------------------------------
(* Properties *)

\* The registry and the log pass the validators that read them, and a run's
\* reservations and files are of their types.
TypeOK ==
  /\ registry \in [Jobs -> Sessions \cup {None}]
  /\ audit \in Seq(Events) /\ torn \in BOOLEAN
  /\ directory \in [Jobs -> {"absent", "pending", "bound"}]
  /\ tokens \in [Jobs -> 0 .. MaxTokens] /\ resets \in [Jobs -> Nat]
  /\ lock \in [Resources -> Processes \cup {None}]
  /\ cli \in [Processes -> Runs]
  /\ operations \in 0 .. MaxOperations /\ now \in 0 .. MaxTime

\* "A locked second check makes the session limit effective across concurrent
\* issuers": when a session is added, its subject has no more than the policy
\* allows, however stale the first check is.
IssuedWithinLimit ==
  [][\A o \in Jobs : registry[o] = None /\ registry'[o] # None =>
       Cardinality(Active(registry', SubjectOf[o], now')) <= MaxActive]_vars

\* "The old token stops resolving", for good: a session never leaves the
\* registry, its generation never falls, a new generation is the next one and
\* has a token that was never used, and of one generation only the status
\* changes, to revoked.  No concurrent command undoes another's rotation or
\* revocation.
CredentialsMoveOn ==
  [][\A o \in Jobs : registry[o] # None /\ registry'[o] # registry[o] =>
       /\ registry'[o] # None
       /\ \/ /\ registry'[o].generation = registry[o].generation + 1
             /\ registry'[o].token > registry[o].token
          \/ /\ registry[o].status = "active" /\ registry'[o].status = "revoked"
             /\ registry'[o].generation = registry[o].generation
             /\ registry'[o].token = registry[o].token]_vars

\* "Never repeat an ambiguous backend reset": whatever dies or is repeated, a
\* session directory stands for one reset.
OneReset == \A o \in Jobs : resets[o] <= 1

\* The plaintext of every token the registry knows is in a file: a death
\* never leaves a session that nobody can use.
TokensKept == \A o \in Jobs : registry[o] # None => registry[o].token <= tokens[o]

About(o, kind, phase) ==
  {i \in 1 .. Len(audit) : /\ audit[i].about = o /\ audit[i].kind = kind
                           /\ audit[i].phase = phase}

\* What the registry holds was announced in the log before: an unmatched
\* start is how a death is found, so no change may have none.
ChangesAnnounced ==
  \A o \in Jobs : registry[o] # None =>
    /\ About(o, "issuance", "started") # {}
    /\ Cardinality(About(o, "rotation", "started")) >= registry[o].generation - 1
    /\ registry[o].status = "revoked" => About(o, "revocation", "started") # {}

\* What the log says was done was done: the generation of a completed event
\* was in the registry, and a revoked one is revoked or replaced.
CompletionsTrue ==
  \A i \in 1 .. Len(audit) :
    LET e == audit[i] IN
    e.phase = "completed" =>
      /\ registry[e.about] # None /\ registry[e.about].generation >= e.generation
      /\ e.kind = "revocation" =>
           \/ registry[e.about].generation > e.generation
           \/ registry[e.about].status = "revoked"

\* The log and the registry never contradict each other, wherever a command
\* dies or has its completed event refused.
AuditAgrees == ChangesAnnounced /\ CompletionsTrue
===============================================================================
