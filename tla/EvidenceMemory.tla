---------------------------- MODULE EvidenceMemory ----------------------------
(***************************************************************************)
(* The cross-task evidence memory of one scope: an append-only log that    *)
(* operators write with scripts/manage_evidence_memory.py and that the API *)
(* searches for pinned tasks (harness_api/app/core/evidence_memory.py).    *)
(*                                                                         *)
(* publish and invalidate look at a snapshot in one connection and append  *)
(* in another: nothing in the store ties the two together.  What does is   *)
(* the writer lock of the storage ledger (StorageQuota), which the script  *)
(* holds around the whole command and which the death of the script frees. *)
(*                                                                         *)
(* A memory id is the hash of its record, so a record is its id.  The      *)
(* chain of event hashes makes the head hash of a snapshot stand for the   *)
(* log up to there, and this is how a head is represented.                 *)
(***************************************************************************)
EXTENDS Naturals, Sequences, FiniteSets

CONSTANTS
  Operators,     \* runs of the script, at any time
  Records,       \* records that may be built from evaluated episodes
  AvailableAt, ExpiresAt, \* validity window of each record
  Commands,      \* what the operators may ask for
  PolicyExpires, \* end of the policy's window; it begins at 0
  MaxActive,     \* policy: max_active_records
  MaxEvents,     \* MAX_EVENTS, which stands for the store's byte limit too
  MaxTime,       \* bounds the clock
  MaxPins,       \* bounds the tasks prepared on a snapshot
  None

\* Why a record is invalidated, and by whom.
Reasons == {"stale", "wrong"}

ASSUME MemoryAssumption ==
  /\ AvailableAt \in [Records -> Nat] /\ ExpiresAt \in [Records -> Nat]
  /\ Commands \subseteq
            [op : {"publish"}, record : Records]
       \cup [op : {"invalidate"}, record : Records, reason : Reasons,
             replacement : Records \cup {None}]
  /\ PolicyExpires \in Nat /\ MaxActive \in Nat /\ MaxEvents \in Nat
  /\ MaxTime \in Nat /\ MaxPins \in Nat
  /\ None \notin Records /\ None \notin Operators

VARIABLES
  log,     \* the evidence_memory_events rows of the scope, by sequence
  holder,  \* who has the writer lock of the store's directory
  cli,     \* what each run of the script does
  now,     \* the clock
  pins,    \* bindings frozen into task manifests
  seen,    \* bindings searched and what was answered, for the properties
  reply    \* the answer given in this step, for the properties

vars == <<log, holder, cli, now, pins, seen, reply>>

Events ==
       [op : {"publish"}, record : Records, at : Nat]
  \cup [op : {"invalidate"}, record : Records, at : Nat, reason : Reasons,
        replacement : Records \cup {None}]

Runs == [pc : {"idle", "checking", "appending", "appended"},
         command : Commands \cup {None}, timestamp : Nat]

Idle == [pc |-> "idle", command |-> None, timestamp |-> 0]

Init ==
  /\ log = << >>
  /\ holder = None
  /\ cli = [w \in Operators |-> Idle]
  /\ now = 0
  /\ pins = {}
  /\ seen = {}
  /\ reply = None

-------------------------------------------------------------------------------
(* Snapshots *)

\* The first n events of the log: a snapshot is known by its sequence.
Published(n, r) == \E i \in 1 .. n : log[i].op = "publish" /\ log[i].record = r

Invalidated(n, r) == \E i \in 1 .. n : log[i].op = "invalidate" /\ log[i].record = r

Active(n) == {r \in Records : Published(n, r) /\ ~Invalidated(n, r)}

\* The fold over a snapshot raises nothing.
Readable(n) ==
  \A i \in 1 .. n :
    LET e == log[i] IN
    \/ e.op = "publish" /\ ~Published(i - 1, e.record)
    \/ /\ e.op = "invalidate"
       /\ Published(i - 1, e.record) /\ ~Invalidated(i - 1, e.record)
       /\ e.replacement # None => Published(i - 1, e.replacement)

Latest == Len(log)

-------------------------------------------------------------------------------
(* The script *)

\* Mutant: the script does not hold the storage reservation.
NoLock == TRUE

LockFree == holder = None

Start(w, command) ==
  /\ cli[w].pc = "idle"
  /\ LockFree
  /\ holder' = w
  /\ cli' = [cli EXCEPT ![w] = [pc |-> "checking", command |-> command,
                                timestamp |-> now]]
  /\ reply' = None
  /\ UNCHANGED <<log, now, pins, seen>>

\* Mutant: one record more than the policy allows.
RoomForOneMore == Cardinality(Active(Latest)) <= MaxActive

Room == Cardinality(Active(Latest)) < MaxActive

\* The events of one invalidation, whose content a retry must repeat.
SameInvalidation(c) ==
  \E i \in 1 .. Latest : /\ log[i].op = "invalidate" /\ log[i].record = c.record
                        /\ log[i].reason = c.reason
                        /\ log[i].replacement = c.replacement

\* Mutant: a replacement must exist, not be active.
ReplacementExists(c) ==
  c.replacement = None \/ Published(Latest, c.replacement)

ReplacementActive(c) ==
  c.replacement = None \/ c.replacement \in Active(Latest)

Valid(r, t) == AvailableAt[r] <= t /\ t < ExpiresAt[r]

InWindow(c, t) ==
  /\ t < PolicyExpires
  /\ c.op = "publish" => /\ Valid(c.record, t)
                         /\ ExpiresAt[c.record] <= PolicyExpires

\* Mutant: the limit is looked at before an earlier publication.
Refillable(r) == ~Room

OverLimit(r) == ~Published(Latest, r) /\ ~Room

\* What publish or invalidate makes of its snapshot: an answer, or an event
\* to append.  The record, its window and the policy come first.
Verdict(c, t) ==
  IF ~InWindow(c, t) THEN "refused"
  ELSE IF c.op = "publish"
  THEN CASE OverLimit(c.record) -> "limit_reached"
         [] ~OverLimit(c.record) /\ Published(Latest, c.record) -> "published"
         [] OTHER -> "append"
  ELSE CASE Invalidated(Latest, c.record) ->
              IF SameInvalidation(c) THEN "invalidated" ELSE "refused"
         [] Published(Latest, c.record) /\ ~Invalidated(Latest, c.record)
            /\ c.record # c.replacement /\ ReplacementActive(c) -> "append"
         [] OTHER -> "refused"

\* The snapshot is read; what is answered from it ends the command.
Check(w) ==
  LET c == cli[w].command  verdict == Verdict(c, cli[w].timestamp) IN
  /\ cli[w].pc = "checking"
  /\ Readable(Latest)
  /\ IF verdict = "append"
     THEN /\ cli' = [cli EXCEPT ![w].pc = "appending"]
          /\ reply' = None
          /\ UNCHANGED holder
     ELSE /\ cli' = [cli EXCEPT ![w] = Idle]
          /\ reply' = [command |-> c, code |-> verdict]
          /\ holder' = None
  /\ UNCHANGED <<log, now, pins, seen>>

Event(c, t) ==
  IF c.op = "publish"
  THEN [op |-> "publish", record |-> c.record, at |-> t]
  ELSE [op |-> "invalidate", record |-> c.record, at |-> t,
        reason |-> c.reason, replacement |-> c.replacement]

RoomInStore == Latest < MaxEvents

\* BEGIN IMMEDIATE ... COMMIT: the chain is verified, the checks of the
\* snapshot are not repeated.
AppendEvent(w) ==
  /\ cli[w].pc = "appending"
  /\ RoomInStore
  /\ log' = Append(log, Event(cli[w].command, cli[w].timestamp))
  /\ cli' = [cli EXCEPT ![w].pc = "appended"]
  /\ reply' = None
  /\ UNCHANGED <<holder, now, pins, seen>>

\* The snapshot after the append, the report, and the end of the reservation.
Report(w) ==
  /\ cli[w].pc = "appended"
  /\ Readable(Latest)
  /\ cli' = [cli EXCEPT ![w] = Idle]
  /\ holder' = None
  /\ reply' = [command |-> cli[w].command,
               code |-> IF cli[w].command.op = "publish" THEN "published"
                                                         ELSE "invalidated"]
  /\ UNCHANGED <<log, now, pins, seen>>

\* The script dies, or raises: a full store, a log that cannot be folded.
Stop(w) ==
  /\ cli[w].pc # "idle"
  /\ cli' = [cli EXCEPT ![w] = Idle]
  /\ holder' = None
  /\ reply' = None
  /\ UNCHANGED <<log, now, pins, seen>>

-------------------------------------------------------------------------------
(* Readers *)

\* Mutant: a search folds the log of today.
Today(pin) == Latest

Selected(pin) == pin.sequence

\* The answer of memory.search, before its spatial and temporal filters.
Result(pin) ==
  LET n == Selected(pin) IN
  IF n <= Latest /\ Readable(n) /\ SubSeq(log, 1, n) = pin.head
  THEN [denied |-> FALSE, records |-> {r \in Active(n) : Valid(r, pin.as_of)}]
  ELSE [denied |-> TRUE, records |-> {}]

\* A task is prepared on the latest snapshot, while operators write; its
\* query must find a record there.
Pin(as_of) ==
  LET pin == [sequence |-> Latest, head |-> log, as_of |-> as_of] IN
  /\ Cardinality(pins) < MaxPins
  /\ Latest > 0 /\ Readable(Latest)
  /\ as_of < PolicyExpires
  /\ \E r \in Active(Latest) : Valid(r, as_of)
  /\ pins' = pins \cup {pin}
  /\ reply' = None
  /\ UNCHANGED <<log, holder, cli, now, seen>>

Search(pin) ==
  /\ seen' = seen \cup {<<pin, Result(pin)>>}
  /\ reply' = None
  /\ UNCHANGED <<log, holder, cli, now, pins>>

Tick ==
  /\ now < MaxTime
  /\ now' = now + 1
  /\ reply' = None
  /\ UNCHANGED <<log, holder, cli, pins, seen>>

Next ==
  \/ \E w \in Operators :
       \/ \E c \in Commands : Start(w, c)
       \/ Check(w) \/ AppendEvent(w) \/ Report(w) \/ Stop(w)
  \/ \E as_of \in 0 .. MaxTime : Pin(as_of)
  \/ \E pin \in pins : Search(pin)
  \/ Tick

Spec == Init /\ [][Next]_vars

-------------------------------------------------------------------------------
(* Properties *)

\* The log, the script's runs and the bindings are of their types.
TypeOK ==
  /\ log \in Seq(Events) /\ Latest <= MaxEvents
  /\ \A i \in 1 .. Latest : log[i].at <= now
  /\ holder \in Operators \cup {None}
  /\ cli \in [Operators -> Runs]
  /\ \A w \in Operators : /\ cli[w].pc # "idle" => cli[w].command \in Commands
                          /\ cli[w].timestamp <= now
  /\ now \in 0 .. MaxTime
  /\ \A pin \in pins : pin.sequence = Len(pin.head) /\ pin.as_of \in 0 .. MaxTime

\* The log can always be folded: no record is published twice, none is
\* invalidated before its publication or twice.  Otherwise every search and
\* every later command of the scope fails for good, and the checks that
\* prevent it are made on a snapshot of another transaction.
LogReadable == Readable(Latest)

\* The policy's limit on active records holds over racing, dying and retried
\* commands.
ActiveWithinLimit == Cardinality(Active(Latest)) <= MaxActive

\* The replacement of an invalidated record was active when it became one,
\* so following replacements never comes back.
ReplacementWasActive ==
  \A i \in 1 .. Latest :
    log[i].op = "invalidate" /\ log[i].replacement # None
      => log[i].replacement \in Active(i - 1) \ {log[i].record}

\* "An old task can replay its pinned snapshot": two searches of one binding
\* agree, whatever was published or invalidated between them, and a binding
\* made from the log is never denied.
SearchesAgree ==
  \A x, y \in seen : /\ x[1] = y[1] => x[2] = y[2]
                     /\ ~x[2].denied

\* A command retried after its event is in the log, because its first run
\* died, is confirmed: a publication is not refused for the limit it fills
\* itself.
RetriesConfirmed ==
  reply # None /\ reply.code = "limit_reached" => ~Published(Latest, reply.command.record)
===============================================================================
