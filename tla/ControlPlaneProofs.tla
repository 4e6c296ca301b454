--------------------------- MODULE ControlPlaneProofs --------------------------
(***************************************************************************)
(* Proofs about the control plane, for any runs, jobs, policies and        *)
(* bounds.                                                                 *)
(*                                                                         *)
(* What a command writes is worked out from what it read before.  The      *)
(* inductive invariant says why it is still true when it is written: who   *)
(* is about to store the registry has it reserved, so the snapshot it      *)
(* loaded is the registry; who has made a session directory has it         *)
(* reserved, so nobody else resets the backend for it; and what the two    *)
(* say of each other is only ever added to.                                *)
(***************************************************************************)
EXTENDS ControlPlane, FiniteSetTheorems, SequenceTheorems, TLAPS

(* What a run is in the middle of. *)
Managing(run) == /\ run.kind \in {"rotation", "revocation"}
                 /\ run.phase \in {"announce", "announcing", "token", "store"}

Publishing(run) == run.phase = "store" /\ run.kind \in {"issuance", "reuse"}

HasDirectory(run) ==
  /\ run.kind = "issuance"
  /\ run.phase \in {"reset", "bind", "load", "store", "complete", "completing"}

\* The kinds of command that come to a phase.
KindsAt(phase) ==
  CASE phase \in {"announce", "announcing"} -> {"issuance", "rotation", "revocation"}
    [] phase \in {"prepare", "reset", "bind"} -> {"issuance"}
    [] phase = "load" -> {"issuance", "reuse"}
    [] phase = "token" -> {"rotation"}
    [] phase = "read" -> {"reuse"}
    [] OTHER -> Kinds

Fits(w) ==
  cli[w].phase # "idle" => /\ cli[w].job \in Jobs /\ cli[w].operation # 0
                           /\ cli[w].kind \in KindsAt(cli[w].phase)

\* The registry is what its holder has loaded, and it is loaded to change a
\* session that is there or to add one that is not.
HoldsRegistry(w) ==
  LET run == cli[w] IN
  /\ Managing(run) \/ Publishing(run) =>
       lock["registry"] = w /\ run.snapshot = registry
  /\ Publishing(run) => registry[run.job] = None
  /\ run.phase = "read" => registry[run.job] # None
  /\ Managing(run) =>
       /\ registry[run.job] # None
       /\ run.kind = "revocation" => registry[run.job].status = "active"

\* A line of the log is written by one run.
HoldsLog(w) ==
  cli[w].phase \in {"announcing", "completing"} => lock["audit"] = w

\* A session directory is its maker's until the command ends.
HoldsDirectory(w) ==
  LET run == cli[w] IN
  /\ HasDirectory(run) => lock[run.job] = w
  /\ run.phase = "reset" => resets[run.job] = 0
  /\ run.phase \in {"reset", "bind"} => directory[run.job] = "pending"
  /\ run.phase = "load" \/ Publishing(run) => directory[run.job] = "bound"

\* A rotation draws a number that no token of its job has, and writes the
\* token before the registry names it.
DrawsToken(w) ==
  LET run == cli[w] IN
  Managing(run) /\ run.kind = "rotation" =>
    /\ run.phase \in {"announce", "announcing"} => tokens[run.job] < MaxTokens
    /\ run.phase = "token" => /\ run.token = tokens[run.job] + 1
                              /\ run.token <= MaxTokens
    /\ run.phase = "store" => /\ run.token <= tokens[run.job]
                              /\ registry[run.job].token < run.token

RunHeld(w) == /\ Fits(w) /\ HoldsRegistry(w) /\ HoldsLog(w) /\ HoldsDirectory(w)
              /\ DrawsToken(w)

RunsHeld == \A w \in Processes : RunHeld(w)

\* What the files, the backend and the registry say of each other.
FilesAgree ==
  \A o \in Jobs :
    /\ directory[o] = "absent" => resets[o] = 0
    /\ directory[o] # "absent" => tokens[o] >= 1
    /\ registry[o] # None => directory[o] = "bound"

Held == TypeOK /\ RunsHeld /\ FilesAgree /\ OneReset /\ TokensKept

\* Whoever is about to publish a session leaves room for it.
RoomToPublish ==
  \A w \in Processes :
    LET o == cli[w].job IN
    Publishing(cli[w]) =>
      Cardinality(Active(registry, SubjectOf[o], now) \ {o}) < MaxActive

\* What a run is about to do was announced.
Started(w) ==
  LET run == cli[w] IN
  /\ run.phase = "prepare" => About(run.job, "issuance", "started") # {}
  /\ run.kind = "rotation" /\ run.phase \in {"token", "store"} =>
       Cardinality(About(run.job, "rotation", "started")) >= registry[run.job].generation
  /\ run.kind = "revocation" /\ run.phase = "store" =>
       About(run.job, "revocation", "started") # {}

\* So was what a directory stands for.
DirectoriesAnnounced ==
  \A o \in Jobs : directory[o] # "absent" => About(o, "issuance", "started") # {}

\* The registry has what a command reports: a generation reached, and for a
\* revocation that generation's end.
Reached(o, kind, generation) ==
  /\ registry[o] # None /\ registry[o].generation >= generation
  /\ kind = "revocation" => \/ registry[o].generation > generation
                            \/ registry[o].status = "revoked"

Reports(w) ==
  cli[w].phase \in {"complete", "completing"} =>
    Reached(cli[w].job, cli[w].kind, cli[w].generation)

Accounted == /\ \A w \in Processes : Started(w) /\ Reports(w)
             /\ DirectoriesAnnounced /\ AuditAgrees

-------------------------------------------------------------------------------
(* Types of what the actions write. *)

\* The parts of a run.
LEMMA RunType ==
  ASSUME TypeOK, NEW w \in Processes
  PROVE  /\ cli[w] \in Runs /\ cli[w].phase \in Phases /\ cli[w].kind \in Kinds
         /\ cli[w].job \in Jobs \cup {None} /\ cli[w].operation \in 0 .. MaxOperations
         /\ cli[w].generation \in Nat /\ cli[w].token \in 0 .. MaxTokens
         /\ cli[w].snapshot \in [Jobs -> Sessions \cup {None}]
  BY DEF TypeOK, Runs

\* Idle is a run.
LEMMA IdleType ==
  /\ Idle \in Runs /\ Idle.phase = "idle" /\ Idle.job = None
  /\ Idle.snapshot \in [Jobs -> Sessions \cup {None}]
  BY ControlAssumption DEF Idle, Runs, Phases, Kinds

\* A session is not None, has one of two states, and so has what comes of it.
LEMMA SessionType ==
  ASSUME NEW s \in Sessions
  PROVE  /\ s # None /\ s.status \in {"active", "revoked"}
         /\ s.token \in 1 .. MaxTokens /\ s.generation \in Nat \ {0}
         /\ s.expires_at \in Nat
  BY NoneIsNoSession DEF Sessions

\* A new session.
LEMMA NewType ==
  ASSUME now \in Nat
  PROVE  New \in Sessions /\ New.generation = 1 /\ New.token = 1
  BY ControlAssumption DEF New, Sessions

\* What a revocation makes of a session.
LEMMA RevokedType ==
  ASSUME NEW s \in Sessions, now \in Nat
  PROVE  /\ Revoked(s) \in Sessions /\ Revoked(s).status = "revoked"
         /\ Revoked(s).generation = s.generation /\ Revoked(s).token = s.token
  BY DEF Revoked, Sessions

\* What a rotation makes of a session.
LEMMA RotatedType ==
  ASSUME NEW s \in Sessions, NEW token \in 1 .. MaxTokens, now \in Nat
  PROVE  /\ Rotated(s, token) \in Sessions
         /\ Rotated(s, token).generation = s.generation + 1
         /\ Rotated(s, token).token = token /\ Rotated(s, token).status = "active"
  BY ControlAssumption, SessionType DEF Rotated, Sessions

-------------------------------------------------------------------------------
(* Every step keeps what is reserved. *)

\* Initially nothing is reserved.
LEMMA InitHeld == ASSUME Init PROVE Held
<1>1. TypeOK
  <2>1. audit \in Seq(Events)
    BY EmptySeq DEF Init
  <2>2. cli \in [Processes -> Runs]
    BY IdleType DEF Init
  <2>3. lock \in [Resources -> Processes \cup {None}]
    BY DEF Init
  <2>4. operations \in 0 .. MaxOperations /\ now \in 0 .. MaxTime
        /\ tokens \in [Jobs -> 0 .. MaxTokens]
    BY ControlAssumption DEF Init
  <2> QED BY <2>1, <2>2, <2>3, <2>4 DEF Init, TypeOK
<1>2. RunsHeld
  BY IdleType DEF Init, RunsHeld, RunHeld, Fits, HoldsRegistry, HoldsLog, HoldsDirectory,
                  DrawsToken, Managing, Publishing, HasDirectory
<1>3. FilesAgree /\ OneReset /\ TokensKept
  BY DEF Init, FilesAgree, OneReset, TokensKept
<1> QED BY <1>1, <1>2, <1>3 DEF Held

\* A run that does nothing keeps what holds for it, if the others keep off
\* what it has reserved.
LEMMA OthersKeep ==
  ASSUME Held, NEW x \in Processes, cli'[x] = cli[x],
         \A r \in Resources : lock[r] = x => lock'[r] = x,
         lock["registry"] = x => registry' = registry,
         \A o \in Jobs :
           /\ registry[o] # None => registry'[o] # None
           /\ lock[o] = x => directory'[o] = directory[o] /\ resets'[o] = resets[o]
           /\ directory[o] = "bound" => directory'[o] = "bound"
           /\ lock["registry"] = x /\ registry[o] # None => tokens'[o] = tokens[o]
  PROVE  RunHeld(x)'
<1>1. RunHeld(x) /\ cli[x].phase \in Phases
  BY RunType DEF Held, RunsHeld
<1>2. Fits(x)'
  BY <1>1 DEF RunHeld, Fits
<1>3. Managing(cli[x]) \/ Publishing(cli[x]) =>
        /\ cli[x].job \in Jobs /\ lock["registry"] = x /\ lock'["registry"] = x
        /\ registry' = registry
  BY <1>1 DEF RunHeld, Fits, HoldsRegistry, Managing, Publishing, Resources
<1>4. HoldsRegistry(x)' /\ HoldsLog(x)'
  BY <1>1, <1>3 DEF RunHeld, Fits, HoldsRegistry, HoldsLog, Managing, Publishing,
                    Resources
<1>5. HoldsDirectory(x)'
  BY <1>1 DEF RunHeld, Fits, KindsAt, HoldsDirectory, HasDirectory, Publishing,
              Resources
<1>6. DrawsToken(x)'
  BY <1>1, <1>3 DEF RunHeld, HoldsRegistry, DrawsToken, Managing
<1> QED BY <1>2, <1>4, <1>5, <1>6 DEF RunHeld

\* The job of a run that is not idle.
LEMMA RunsJob ==
  ASSUME Held, NEW w \in Processes, cli[w].phase # "idle"
  PROVE  /\ cli[w].job \in Jobs /\ cli[w].operation \in 1 .. MaxOperations
         /\ cli[w].kind \in KindsAt(cli[w].phase) /\ RunHeld(w)
  BY RunType, ControlAssumption DEF Held, RunsHeld, RunHeld, Fits

\* A command begins.
LEMMA BeginType ==
  ASSUME Held, NEW w \in Processes, NEW kind \in Kinds, NEW o \in Jobs,
         NEW phase \in Phases, NEW generation \in Nat,
         NEW snapshot \in [Jobs -> Sessions \cup {None}],
         Begin(w, kind, o, phase, generation, snapshot)
  PROVE  /\ cli' \in [Processes -> Runs] /\ operations' \in 0 .. MaxOperations
         /\ \A x \in Processes \ {w} : cli'[x] = cli[x]
         /\ cli'[w].phase = phase /\ cli'[w].kind = kind /\ cli'[w].job = o
         /\ cli'[w].operation # 0 /\ cli'[w].snapshot = snapshot
<1> DEFINE run == [phase |-> phase, kind |-> kind, job |-> o,
                   operation |-> operations + 1, generation |-> generation,
                   token |-> 0, snapshot |-> snapshot]
<1>1. operations \in 0 .. MaxOperations /\ operations < MaxOperations
  BY DEF Held, TypeOK, Begin
<1>2. operations + 1 \in 0 .. MaxOperations /\ operations + 1 # 0
  BY <1>1, ControlAssumption
<1>3. run \in Runs
  BY <1>2, ControlAssumption DEF Runs
<1>4. cli' = [cli EXCEPT ![w] = run] /\ cli \in [Processes -> Runs]
  BY DEF Held, TypeOK, Begin
<1>5. operations' = operations + 1
  BY DEF Begin
<1>6. run.phase = phase /\ run.kind = kind /\ run.job = o
      /\ run.operation = operations + 1 /\ run.snapshot = snapshot
  OBVIOUS
<1> HIDE DEF run
<1> QED BY <1>2, <1>3, <1>4, <1>5, <1>6

\* An issuance begins with nothing reserved.
LEMMA BeginIssueHeld ==
  ASSUME Held, NEW w \in Processes, NEW o \in Jobs, BeginIssue(w, o)
  PROVE  Held'
<1>1. Begin(w, "issuance", o, "announce", 0, Idle.snapshot)
      /\ UNCHANGED <<registry, audit, torn, directory, tokens, resets, lock, now>>
  BY DEF BeginIssue
<1>2. /\ cli' \in [Processes -> Runs] /\ operations' \in 0 .. MaxOperations
      /\ \A x \in Processes \ {w} : cli'[x] = cli[x]
      /\ cli'[w].phase = "announce" /\ cli'[w].kind = "issuance" /\ cli'[w].job = o
      /\ cli'[w].operation # 0
  BY <1>1, BeginType, IdleType DEF Kinds, Phases
<1>3. TypeOK'
  BY <1>1, <1>2 DEF Held, TypeOK
<1>4. \A x \in Processes \ {w} : RunHeld(x)'
  BY <1>1, <1>2, OthersKeep
<1>5. RunHeld(w)'
  BY <1>2 DEF RunHeld, Fits, KindsAt, HoldsRegistry, HoldsLog, HoldsDirectory, DrawsToken,
              Managing, Publishing, HasDirectory
<1>6. FilesAgree' /\ OneReset' /\ TokensKept'
  BY <1>1 DEF Held, FilesAgree, OneReset, TokensKept
<1> QED BY <1>3, <1>4, <1>5, <1>6 DEF Held, RunsHeld

\* A reuse begins on a directory that has its binding.
LEMMA BeginReuseHeld ==
  ASSUME Held, NEW w \in Processes, NEW o \in Jobs, BeginReuse(w, o)
  PROVE  Held'
<1>1. Begin(w, "reuse", o, "load", 0, Idle.snapshot)
      /\ UNCHANGED <<registry, audit, torn, directory, tokens, resets, lock, now>>
      /\ directory[o] = "bound"
  BY DEF BeginReuse
<1>2. /\ cli' \in [Processes -> Runs] /\ operations' \in 0 .. MaxOperations
      /\ \A x \in Processes \ {w} : cli'[x] = cli[x]
      /\ cli'[w].phase = "load" /\ cli'[w].kind = "reuse" /\ cli'[w].job = o
      /\ cli'[w].operation # 0
  BY <1>1, BeginType, IdleType DEF Kinds, Phases
<1>3. TypeOK'
  BY <1>1, <1>2 DEF Held, TypeOK
<1>4. \A x \in Processes \ {w} : RunHeld(x)'
  BY <1>1, <1>2, OthersKeep
<1>5. RunHeld(w)'
  BY <1>1, <1>2 DEF RunHeld, Fits, KindsAt, HoldsRegistry, HoldsLog, HoldsDirectory,
                    DrawsToken, Managing, Publishing, HasDirectory
<1>6. FilesAgree' /\ OneReset' /\ TokensKept'
  BY <1>1 DEF Held, FilesAgree, OneReset, TokensKept
<1> QED BY <1>3, <1>4, <1>5, <1>6 DEF Held, RunsHeld

\* Management begins with the registry reserved and loaded.
LEMMA BeginManageHeld ==
  ASSUME Held, NEW w \in Processes, NEW o \in Jobs,
         NEW kind \in {"rotation", "revocation"}, BeginManage(w, o, kind)
  PROVE  Held'
<1>1. /\ Begin(w, kind, o, "announce", registry[o].generation, registry)
      /\ UNCHANGED <<registry, audit, torn, directory, tokens, resets, now>>
      /\ lock["registry"] = None /\ lock' = [lock EXCEPT !["registry"] = w]
      /\ registry[o] # None
      /\ kind = "revocation" => registry[o].status = "active"
      /\ kind = "rotation" => tokens[o] < MaxTokens
  BY DEF BeginManage, First, Free
<1>2. registry \in [Jobs -> Sessions \cup {None}] /\ registry[o].generation \in Nat
  BY <1>1, SessionType DEF Held, TypeOK
<1>3. /\ cli' \in [Processes -> Runs] /\ operations' \in 0 .. MaxOperations
      /\ \A x \in Processes \ {w} : cli'[x] = cli[x]
      /\ cli'[w].phase = "announce" /\ cli'[w].kind = kind /\ cli'[w].job = o
      /\ cli'[w].operation # 0 /\ cli'[w].snapshot = registry
  BY <1>1, <1>2, BeginType DEF Kinds, Phases
<1>4. /\ lock' \in [Resources -> Processes \cup {None}] /\ lock'["registry"] = w
      /\ \A x \in Processes, r \in Resources : lock[r] = x => lock'[r] = x
  BY <1>1, ControlAssumption DEF Held, TypeOK, Resources
<1>5. TypeOK'
  BY <1>1, <1>3, <1>4 DEF Held, TypeOK
<1>6. \A x \in Processes \ {w} : RunHeld(x)'
  BY <1>1, <1>3, <1>4, OthersKeep
<1>7. RunHeld(w)'
  BY <1>1, <1>3, <1>4 DEF RunHeld, Fits, KindsAt, HoldsRegistry, HoldsLog, HoldsDirectory,
                          DrawsToken, Managing, Publishing, HasDirectory
<1>8. FilesAgree' /\ OneReset' /\ TokensKept'
  BY <1>1 DEF Held, FilesAgree, OneReset, TokensKept
<1> QED BY <1>5, <1>6, <1>7, <1>8 DEF Held, RunsHeld

\* Releasing what a run has reserved leaves the rest as it is.
LEMMA Release ==
  ASSUME Held, NEW w \in Processes,
         lock' = [r \in Resources |-> IF lock[r] = w THEN None ELSE lock[r]]
  PROVE  /\ lock' \in [Resources -> Processes \cup {None}]
         /\ \A x \in Processes \ {w}, r \in Resources : lock[r] = x => lock'[r] = x
  BY DEF Held, TypeOK

\* A run ends.
LEMMA EndRun ==
  ASSUME Held, NEW w \in Processes, cli' = [cli EXCEPT ![w] = Idle]
  PROVE  /\ cli' \in [Processes -> Runs] /\ RunHeld(w)'
         /\ \A x \in Processes \ {w} : cli'[x] = cli[x]
<1>1. /\ cli' \in [Processes -> Runs] /\ cli'[w].phase = "idle"
      /\ \A x \in Processes \ {w} : cli'[x] = cli[x]
  BY IdleType DEF Held, TypeOK
<1>2. RunHeld(w)'
  BY <1>1 DEF RunHeld, Fits, HoldsRegistry, HoldsLog, HoldsDirectory, DrawsToken, Managing,
              Publishing, HasDirectory
<1> QED BY <1>1, <1>2

\* A script dies and what it had reserved is free.
LEMMA StopHeld ==
  ASSUME Held, NEW w \in Processes, Stop(w)
  PROVE  Held'
<1>1. /\ UNCHANGED <<registry, audit, torn, directory, tokens, resets, operations, now>>
      /\ lock' = [r \in Resources |-> IF lock[r] = w THEN None ELSE lock[r]]
      /\ cli' = [cli EXCEPT ![w] = Idle]
  BY DEF Stop
<1>2. lock' \in [Resources -> Processes \cup {None}]
      /\ \A x \in Processes \ {w}, r \in Resources : lock[r] = x => lock'[r] = x
  BY <1>1, Release
<1>3. /\ cli' \in [Processes -> Runs] /\ RunHeld(w)'
      /\ \A x \in Processes \ {w} : cli'[x] = cli[x]
  BY <1>1, EndRun
<1>4. TypeOK'
  BY <1>1, <1>2, <1>3 DEF Held, TypeOK
<1>5. \A x \in Processes \ {w} : RunHeld(x)'
  BY <1>1, <1>2, <1>3, OthersKeep
<1>6. FilesAgree' /\ OneReset' /\ TokensKept'
  BY <1>1 DEF Held, FilesAgree, OneReset, TokensKept
<1> QED BY <1>3, <1>4, <1>5, <1>6 DEF Held, RunsHeld

\* A run goes to another phase.
LEMMA GotoType ==
  ASSUME Held, NEW w \in Processes, NEW phase \in Phases, Goto(w, phase)
  PROVE  /\ cli' \in [Processes -> Runs]
         /\ \A x \in Processes \ {w} : cli'[x] = cli[x]
         /\ cli'[w].phase = phase /\ cli'[w].kind = cli[w].kind
         /\ cli'[w].job = cli[w].job /\ cli'[w].operation = cli[w].operation
         /\ cli'[w].generation = cli[w].generation /\ cli'[w].token = cli[w].token
         /\ cli'[w].snapshot = cli[w].snapshot
  BY DEF Held, TypeOK, Goto, Runs

\* The log is reserved for a line.
LEMMA AppendHeld ==
  ASSUME Held, NEW w \in Processes, Append1(w)
  PROVE  Held'
<1> DEFINE next == IF At(w, "announce") THEN "announcing" ELSE "completing"
<1>1. /\ UNCHANGED <<registry, audit, directory, tokens, resets, operations, now>>
      /\ cli[w].phase \in {"announce", "complete"} /\ torn' = TRUE
      /\ lock["audit"] = None /\ lock' = [lock EXCEPT !["audit"] = w]
      /\ Goto(w, next)
  BY DEF Append1, At, Free
<1>2. next = IF cli[w].phase = "announce" THEN "announcing" ELSE "completing"
  BY DEF At
<1>3. /\ cli' \in [Processes -> Runs] /\ \A x \in Processes \ {w} : cli'[x] = cli[x]
      /\ cli'[w].phase = next /\ cli'[w].kind = cli[w].kind
      /\ cli'[w].job = cli[w].job /\ cli'[w].operation = cli[w].operation
      /\ cli'[w].token = cli[w].token /\ cli'[w].snapshot = cli[w].snapshot
  BY <1>1, <1>2, GotoType DEF Phases
<1>4. /\ lock' \in [Resources -> Processes \cup {None}]
      /\ \A x \in Processes, r \in Resources : lock[r] = x => lock'[r] = x
  BY <1>1, ControlAssumption DEF Held, TypeOK, Resources
<1>5. TypeOK'
  BY <1>1, <1>3, <1>4 DEF Held, TypeOK
<1>6. \A x \in Processes \ {w} : RunHeld(x)'
  BY <1>1, <1>3, <1>4, OthersKeep
<1>7. RunHeld(w)'
  BY <1>1, <1>2, <1>3, <1>4, RunsJob
    DEF RunHeld, Fits, KindsAt, HoldsRegistry, HoldsLog, HoldsDirectory, DrawsToken, Managing,
        Publishing, HasDirectory, Resources
<1>8. FilesAgree' /\ OneReset' /\ TokensKept'
  BY <1>1 DEF Held, FilesAgree, OneReset, TokensKept
<1> QED BY <1>5, <1>6, <1>7, <1>8 DEF Held, RunsHeld

\* What an event of a run looks like.
LEMMA EventType ==
  ASSUME Held, NEW w \in Processes, cli[w].phase # "idle",
         NEW phase \in {"started", "completed"}
  PROVE  /\ Event(cli[w], phase) \in Events
         /\ Append(audit, Event(cli[w], phase)) \in Seq(Events)
<1>1. /\ cli[w].kind \in Kinds /\ cli[w].operation \in 1 .. MaxOperations
      /\ cli[w].job \in Jobs /\ cli[w].generation \in Nat
  BY RunsJob, RunType DEF Held
<1>2. (IF phase = "started" THEN 0 ELSE cli[w].generation) \in Nat
  BY <1>1
<1>3. Event(cli[w], phase) \in Events
  BY <1>1, <1>2 DEF Event, Events
<1> QED BY <1>3 DEF Held, TypeOK

\* A started event is on disk.
LEMMA AnnouncedHeld ==
  ASSUME Held, NEW w \in Processes, Announced(w)
  PROVE  Held'
<1> DEFINE run == cli[w]
           token == IF run.kind = "rotation" THEN tokens[run.job] + 1 ELSE 1
<1>1. /\ UNCHANGED <<registry, directory, tokens, resets, operations, now>>
      /\ run.phase = "announcing" /\ torn' = FALSE
      /\ audit' = Append(audit, Event(run, "started"))
      /\ lock' = [lock EXCEPT !["audit"] = None]
      /\ cli' = [cli EXCEPT ![w].phase = AfterStart(run.kind), ![w].token = token]
  BY DEF Announced, At
<1>2. /\ run.job \in Jobs /\ run.kind \in {"issuance", "rotation", "revocation"}
      /\ RunHeld(w) /\ run.operation # 0
  BY <1>1, RunsJob DEF KindsAt
<1>3. token \in 0 .. MaxTokens
  <2>1. CASE run.kind = "rotation"
    <3>1. tokens[run.job] < MaxTokens
      BY <1>1, <1>2, <2>1 DEF RunHeld, DrawsToken, Managing
    <3> QED BY <1>2, <2>1, <3>1, ControlAssumption DEF Held, TypeOK
  <2>2. CASE run.kind # "rotation"
    BY <2>2, ControlAssumption
  <2> QED BY <2>1, <2>2
<1>4. AfterStart(run.kind) \in Phases
  BY <1>2 DEF AfterStart, Phases
<1>5. /\ cli' \in [Processes -> Runs] /\ \A x \in Processes \ {w} : cli'[x] = cli[x]
      /\ cli'[w].phase = AfterStart(run.kind) /\ cli'[w].kind = run.kind
      /\ cli'[w].job = run.job /\ cli'[w].operation = run.operation
      /\ cli'[w].token = token /\ cli'[w].snapshot = run.snapshot
  <2> HIDE DEF token
  <2> QED BY <1>1, <1>3, <1>4 DEF Held, TypeOK, Runs
<1>6. /\ lock' \in [Resources -> Processes \cup {None}]
      /\ \A r \in Resources : r # "audit" => lock'[r] = lock[r]
  BY <1>1 DEF Held, TypeOK
<1>7. TypeOK'
  <2>1. audit' \in Seq(Events)
    BY <1>1, EventType
  <2> QED BY <1>1, <1>5, <1>6, <2>1 DEF Held, TypeOK
<1>8. \A x \in Processes \ {w} : RunHeld(x)'
  <2>1. lock["audit"] = w
    BY <1>1, <1>2 DEF RunHeld, HoldsLog
  <2>2. \A x \in Processes \ {w}, r \in Resources : lock[r] = x => lock'[r] = x
    BY <1>6, <2>1
  <2> QED BY <1>1, <1>5, <2>2, OthersKeep
<1>9. RunHeld(w)'
  <2>1. lock'["registry"] = lock["registry"]
    BY <1>6 DEF Resources
  <2>2. Fits(w)' /\ HoldsLog(w)' /\ HoldsDirectory(w)'
    BY <1>2, <1>5 DEF Fits, KindsAt, Kinds, AfterStart, HoldsLog, HoldsDirectory,
                      Publishing, HasDirectory
  <2>3. CASE run.kind = "issuance"
    BY <1>5, <2>2, <2>3 DEF AfterStart, RunHeld, HoldsRegistry, DrawsToken,
                            Managing, Publishing
  <2>4. CASE run.kind \in {"rotation", "revocation"}
    <3>1. /\ lock["registry"] = w /\ run.snapshot = registry
          /\ registry[run.job] # None
          /\ run.kind = "revocation" => registry[run.job].status = "active"
          /\ run.kind = "rotation" => tokens[run.job] < MaxTokens
      BY <1>1, <1>2, <2>4 DEF RunHeld, HoldsRegistry, DrawsToken, Managing
    <3>2. HoldsRegistry(w)'
      BY <1>1, <1>5, <2>1, <2>4, <3>1 DEF HoldsRegistry, Publishing
    <3>3. DrawsToken(w)'
      BY <1>1, <1>2, <1>3, <1>5, <3>1 DEF AfterStart, DrawsToken
    <3> QED BY <2>2, <3>2, <3>3 DEF RunHeld
  <2> QED BY <1>2, <2>3, <2>4
<1>10. FilesAgree' /\ OneReset' /\ TokensKept'
  BY <1>1 DEF Held, FilesAgree, OneReset, TokensKept
<1> QED BY <1>7, <1>8, <1>9, <1>10 DEF Held, RunsHeld

\* A completed event is on disk.
LEMMA CompletedHeld ==
  ASSUME Held, NEW w \in Processes, Completed(w)
  PROVE  Held'
<1>1. /\ UNCHANGED <<registry, directory, tokens, resets, operations, now>>
      /\ cli[w].phase = "completing" /\ torn' = FALSE
      /\ audit' = Append(audit, Event(cli[w], "completed"))
      /\ lock' = [r \in Resources |-> IF lock[r] = w THEN None ELSE lock[r]]
      /\ cli' = [cli EXCEPT ![w] = Idle]
  BY DEF Completed, At
<1>2. lock' \in [Resources -> Processes \cup {None}]
      /\ \A x \in Processes \ {w}, r \in Resources : lock[r] = x => lock'[r] = x
  BY <1>1, Release
<1>3. /\ cli' \in [Processes -> Runs] /\ RunHeld(w)'
      /\ \A x \in Processes \ {w} : cli'[x] = cli[x]
  BY <1>1, EndRun
<1>4. TypeOK'
  <2>1. audit' \in Seq(Events)
    BY <1>1, EventType
  <2> QED BY <1>1, <1>2, <1>3, <2>1 DEF Held, TypeOK
<1>5. \A x \in Processes \ {w} : RunHeld(x)'
  BY <1>1, <1>2, <1>3, OthersKeep
<1>6. FilesAgree' /\ OneReset' /\ TokensKept'
  BY <1>1 DEF Held, FilesAgree, OneReset, TokensKept
<1> QED BY <1>3, <1>4, <1>5, <1>6 DEF Held, RunsHeld

\* A session directory is made, with the first token of its job.
LEMMA PrepareHeld ==
  ASSUME Held, NEW w \in Processes, Prepare(w)
  PROVE  Held'
<1> DEFINE o == cli[w].job
<1>1. /\ UNCHANGED <<registry, audit, torn, resets, operations, now>>
      /\ cli[w].phase = "prepare" /\ Goto(w, "reset")
      /\ lock[o] = None /\ lock' = [lock EXCEPT ![o] = w]
      /\ directory[o] = "absent" /\ directory' = [directory EXCEPT ![o] = "pending"]
      /\ tokens' = [tokens EXCEPT ![o] = 1]
  BY DEF Prepare, At, Free, Missing
<1>2. o \in Jobs /\ o \in Resources /\ cli[w].kind = "issuance" /\ RunHeld(w)
      /\ cli[w].operation # 0
  BY <1>1, RunsJob DEF KindsAt, Resources
<1>3. /\ cli' \in [Processes -> Runs] /\ \A x \in Processes \ {w} : cli'[x] = cli[x]
      /\ cli'[w].phase = "reset" /\ cli'[w].kind = "issuance"
      /\ cli'[w].job = o /\ cli'[w].operation = cli[w].operation
  BY <1>1, <1>2, GotoType DEF Phases
<1>4. /\ lock' \in [Resources -> Processes \cup {None}] /\ lock'[o] = w
      /\ \A x \in Processes, r \in Resources : lock[r] = x => lock'[r] = x
  BY <1>1, <1>2, ControlAssumption DEF Held, TypeOK
<1>5. /\ directory' \in [Jobs -> {"absent", "pending", "bound"}]
      /\ tokens' \in [Jobs -> 0 .. MaxTokens] /\ directory'[o] = "pending"
      /\ tokens'[o] = 1 /\ \A p \in Jobs \ {o} : /\ directory'[p] = directory[p]
                                                 /\ tokens'[p] = tokens[p]
  BY <1>1, <1>2, ControlAssumption DEF Held, TypeOK
<1>6. registry[o] = None /\ resets[o] = 0
  BY <1>1, <1>2 DEF Held, FilesAgree
<1>7. TypeOK'
  BY <1>1, <1>3, <1>4, <1>5 DEF Held, TypeOK
<1>8. \A x \in Processes \ {w} : RunHeld(x)'
  <2>1. ASSUME NEW x \in Processes, NEW p \in Jobs
        PROVE  /\ lock[p] = x => directory'[p] = directory[p] /\ resets'[p] = resets[p]
               /\ directory[p] = "bound" => directory'[p] = "bound"
               /\ registry[p] # None => tokens'[p] = tokens[p]
    BY <1>1, <1>5, <1>6, ControlAssumption
  <2> QED BY <1>1, <1>3, <1>4, <2>1, OthersKeep
<1>9. RunHeld(w)'
  BY <1>1, <1>2, <1>3, <1>4, <1>5, <1>6
    DEF RunHeld, Fits, KindsAt, HoldsRegistry, HoldsLog, HoldsDirectory, DrawsToken,
        Managing, Publishing, HasDirectory
<1>10. FilesAgree' /\ OneReset' /\ TokensKept'
  BY <1>1, <1>5, <1>6 DEF Held, FilesAgree, OneReset, TokensKept
<1> QED BY <1>7, <1>8, <1>9, <1>10 DEF Held, RunsHeld

\* The backend is reset, for a directory that stands for no reset so far.
LEMMA ResetHeld ==
  ASSUME Held, NEW w \in Processes, Reset(w)
  PROVE  Held'
<1> DEFINE o == cli[w].job
<1>1. /\ UNCHANGED <<registry, audit, torn, directory, tokens, lock, operations, now>>
      /\ cli[w].phase = "reset" /\ Goto(w, "bind")
      /\ resets' = [resets EXCEPT ![o] = @ + 1]
  BY DEF Reset, At
<1>2. o \in Jobs /\ o \in Resources /\ cli[w].kind = "issuance" /\ RunHeld(w)
      /\ cli[w].operation # 0
  BY <1>1, RunsJob DEF KindsAt, Resources
<1>3. /\ cli' \in [Processes -> Runs] /\ \A x \in Processes \ {w} : cli'[x] = cli[x]
      /\ cli'[w].phase = "bind" /\ cli'[w].kind = "issuance"
      /\ cli'[w].job = o /\ cli'[w].operation = cli[w].operation
  BY <1>1, <1>2, GotoType DEF Phases
<1>4. lock[o] = w /\ resets[o] = 0 /\ directory[o] = "pending"
  BY <1>1, <1>2 DEF RunHeld, HoldsDirectory, HasDirectory
<1>5. /\ resets' \in [Jobs -> Nat] /\ resets'[o] = 1
      /\ \A p \in Jobs \ {o} : resets'[p] = resets[p]
  BY <1>1, <1>2, <1>4 DEF Held, TypeOK
<1>6. TypeOK'
  BY <1>1, <1>3, <1>5 DEF Held, TypeOK
<1>7. \A x \in Processes \ {w} : RunHeld(x)'
  <2>1. \A x \in Processes \ {w}, p \in Jobs : lock[p] = x => resets'[p] = resets[p]
    BY <1>4, <1>5
  <2> QED BY <1>1, <1>3, <2>1, OthersKeep
<1>8. RunHeld(w)'
  BY <1>1, <1>2, <1>3, <1>4
    DEF RunHeld, Fits, KindsAt, HoldsRegistry, HoldsLog, HoldsDirectory, DrawsToken,
        Managing, Publishing, HasDirectory
<1>9. FilesAgree' /\ OneReset' /\ TokensKept'
  BY <1>1, <1>4, <1>5 DEF Held, FilesAgree, OneReset, TokensKept
<1> QED BY <1>6, <1>7, <1>8, <1>9 DEF Held, RunsHeld

\* The binding is written.
LEMMA BindHeld ==
  ASSUME Held, NEW w \in Processes, Bind(w)
  PROVE  Held'
<1> DEFINE o == cli[w].job
<1>1. /\ UNCHANGED <<registry, audit, torn, tokens, resets, lock, operations, now>>
      /\ cli[w].phase = "bind" /\ Goto(w, "load")
      /\ directory' = [directory EXCEPT ![o] = "bound"]
  BY DEF Bind, At
<1>2. o \in Jobs /\ o \in Resources /\ cli[w].kind = "issuance" /\ RunHeld(w)
      /\ cli[w].operation # 0
  BY <1>1, RunsJob DEF KindsAt, Resources
<1>3. /\ cli' \in [Processes -> Runs] /\ \A x \in Processes \ {w} : cli'[x] = cli[x]
      /\ cli'[w].phase = "load" /\ cli'[w].kind = "issuance"
      /\ cli'[w].job = o /\ cli'[w].operation = cli[w].operation
  BY <1>1, <1>2, GotoType DEF Phases
<1>4. lock[o] = w /\ directory[o] = "pending"
  BY <1>1, <1>2 DEF RunHeld, HoldsDirectory, HasDirectory
<1>5. /\ directory' \in [Jobs -> {"absent", "pending", "bound"}]
      /\ directory'[o] = "bound" /\ \A p \in Jobs \ {o} : directory'[p] = directory[p]
  BY <1>1, <1>2 DEF Held, TypeOK
<1>6. TypeOK'
  BY <1>1, <1>3, <1>5 DEF Held, TypeOK
<1>7. \A x \in Processes \ {w} : RunHeld(x)'
  <2>1. \A x \in Processes \ {w}, p \in Jobs :
          /\ lock[p] = x => directory'[p] = directory[p]
          /\ directory[p] = "bound" => directory'[p] = "bound"
    BY <1>4, <1>5
  <2> QED BY <1>1, <1>3, <2>1, OthersKeep
<1>8. RunHeld(w)'
  BY <1>1, <1>2, <1>3, <1>4, <1>5
    DEF RunHeld, Fits, KindsAt, HoldsRegistry, HoldsLog, HoldsDirectory, DrawsToken,
        Managing, Publishing, HasDirectory
<1>9. FilesAgree' /\ OneReset' /\ TokensKept'
  BY <1>1, <1>4, <1>5 DEF Held, FilesAgree, OneReset, TokensKept
<1> QED BY <1>6, <1>7, <1>8, <1>9 DEF Held, RunsHeld

\* A rotation writes its token before the registry names it.
LEMMA WriteTokenHeld ==
  ASSUME Held, NEW w \in Processes, WriteToken(w)
  PROVE  Held'
<1> DEFINE o == cli[w].job
<1>1. /\ UNCHANGED <<registry, audit, torn, directory, resets, lock, operations, now>>
      /\ cli[w].phase = "token" /\ Goto(w, "store")
      /\ tokens' = [tokens EXCEPT ![o] = cli[w].token]
  BY DEF WriteToken, At
<1>2. o \in Jobs /\ cli[w].kind = "rotation" /\ RunHeld(w) /\ cli[w].operation # 0
  BY <1>1, RunsJob DEF KindsAt
<1>3. /\ cli' \in [Processes -> Runs] /\ \A x \in Processes \ {w} : cli'[x] = cli[x]
      /\ cli'[w].phase = "store" /\ cli'[w].kind = "rotation"
      /\ cli'[w].job = o /\ cli'[w].operation = cli[w].operation
      /\ cli'[w].token = cli[w].token /\ cli'[w].snapshot = cli[w].snapshot
  BY <1>1, <1>2, GotoType DEF Phases
<1>4. /\ lock["registry"] = w /\ cli[w].snapshot = registry /\ registry[o] # None
      /\ cli[w].token = tokens[o] + 1 /\ cli[w].token <= MaxTokens
  BY <1>1, <1>2 DEF RunHeld, HoldsRegistry, DrawsToken, Managing
<1>5. tokens[o] \in 0 .. MaxTokens /\ registry[o] \in Sessions
      /\ registry[o].token <= tokens[o]
  BY <1>2, <1>4 DEF Held, TypeOK, TokensKept
<1>6. /\ tokens' \in [Jobs -> 0 .. MaxTokens] /\ tokens'[o] = cli[w].token
      /\ \A p \in Jobs \ {o} : tokens'[p] = tokens[p]
  BY <1>1, <1>2, <1>4, <1>5, RunType DEF Held, TypeOK
<1>7. TypeOK'
  BY <1>1, <1>3, <1>6 DEF Held, TypeOK
<1>8. \A x \in Processes \ {w} : RunHeld(x)'
  BY <1>1, <1>3, <1>4, OthersKeep
<1>9. registry[o].token < cli[w].token /\ tokens[o] <= cli[w].token
  BY <1>4, <1>5, SessionType
<1>10. RunHeld(w)'
  BY <1>1, <1>2, <1>3, <1>4, <1>6, <1>9, RunType DEF Held,
         RunHeld, Fits, KindsAt, HoldsRegistry, HoldsLog, HoldsDirectory, DrawsToken,
         Managing, Publishing, HasDirectory
<1>11. FilesAgree' /\ OneReset' /\ TokensKept'
  <2>1. \A p \in Jobs : tokens'[p] \in Nat /\ tokens[p] \in Nat /\ tokens[p] <= tokens'[p]
    BY <1>6, <1>9, ControlAssumption DEF Held, TypeOK
  <2>2. \A p \in Jobs : registry[p] # None => registry[p].token \in Nat
    BY SessionType DEF Held, TypeOK
  <2> QED BY <1>1, <2>1, <2>2 DEF Held, FilesAgree, OneReset, TokensKept
<1> QED BY <1>7, <1>8, <1>10, <1>11 DEF Held, RunsHeld

\* The registry is reserved and loaded for a session that is within the limit.
LEMMA LoadToPublishHeld ==
  ASSUME Held, NEW w \in Processes, LoadToPublish(w)
  PROVE  Held'
<1> DEFINE o == cli[w].job
<1>1. /\ UNCHANGED <<registry, audit, torn, directory, tokens, resets, operations, now>>
      /\ cli[w].phase = "load" /\ lock["registry"] = None /\ registry[o] = None
      /\ lock' = [lock EXCEPT !["registry"] = w]
      /\ cli' = [cli EXCEPT ![w].phase = "store", ![w].snapshot = registry]
  BY DEF LoadToPublish, At, Free, Unpublished
<1>2. o \in Jobs /\ cli[w].kind \in {"issuance", "reuse"} /\ RunHeld(w)
      /\ cli[w].operation # 0
  BY <1>1, RunsJob DEF KindsAt
<1>3. /\ cli' \in [Processes -> Runs] /\ \A x \in Processes \ {w} : cli'[x] = cli[x]
      /\ cli'[w].phase = "store" /\ cli'[w].kind = cli[w].kind
      /\ cli'[w].job = o /\ cli'[w].operation = cli[w].operation
      /\ cli'[w].snapshot = registry
  <2>1. "store" \in Phases
    BY DEF Phases
  <2> QED BY <1>1, <2>1 DEF Held, TypeOK, Runs
<1>4. /\ lock' \in [Resources -> Processes \cup {None}] /\ lock'["registry"] = w
      /\ \A x \in Processes, r \in Resources : lock[r] = x => lock'[r] = x
  BY <1>1, ControlAssumption DEF Held, TypeOK, Resources
<1>5. TypeOK'
  BY <1>1, <1>3, <1>4 DEF Held, TypeOK
<1>6. \A x \in Processes \ {w} : RunHeld(x)'
  BY <1>1, <1>3, <1>4, OthersKeep
<1>7. RunHeld(w)'
  <2>1. directory[o] = "bound" /\ (cli[w].kind = "issuance" => lock[o] = w)
    BY <1>1, <1>2 DEF RunHeld, HoldsDirectory, HasDirectory
  <2>2. o \in Resources
    BY <1>2 DEF Resources
  <2> QED BY <1>1, <1>2, <1>3, <1>4, <2>1, <2>2
      DEF RunHeld, Fits, KindsAt, Kinds, HoldsRegistry, HoldsLog, HoldsDirectory,
          DrawsToken, Managing, Publishing, HasDirectory
<1>8. FilesAgree' /\ OneReset' /\ TokensKept'
  BY <1>1 DEF Held, FilesAgree, OneReset, TokensKept
<1> QED BY <1>5, <1>6, <1>7, <1>8 DEF Held, RunsHeld

\* A run goes to another phase and notes a generation.
LEMMA NoteType ==
  ASSUME Held, NEW w \in Processes, NEW phase \in Phases, NEW generation \in Nat,
         cli' = [cli EXCEPT ![w].phase = phase, ![w].generation = generation]
  PROVE  /\ cli' \in [Processes -> Runs] /\ \A x \in Processes \ {w} : cli'[x] = cli[x]
         /\ cli'[w].phase = phase /\ cli'[w].kind = cli[w].kind
         /\ cli'[w].job = cli[w].job /\ cli'[w].operation = cli[w].operation
         /\ cli'[w].generation = generation
<1>1. cli[w] \in Runs /\ cli \in [Processes -> Runs]
  BY DEF Held, TypeOK
<1>2. [cli[w] EXCEPT !.phase = phase, !.generation = generation] \in Runs
  BY <1>1 DEF Runs
<1>3. cli' = [cli EXCEPT ![w] = [cli[w] EXCEPT !.phase = phase,
                                               !.generation = generation]]
  BY <1>1
<1> QED BY <1>1, <1>2, <1>3 DEF Runs

\* A session that is published already is left alone.
LEMMA LoadPublishedHeld ==
  ASSUME Held, NEW w \in Processes, LoadPublished(w)
  PROVE  Held'
<1> DEFINE next == IF cli[w].kind = "reuse" THEN "read" ELSE "complete"
<1>1. /\ UNCHANGED <<registry, audit, torn, directory, tokens, resets, lock,
                     operations, now>>
      /\ cli[w].phase = "load" /\ registry[cli[w].job] # None
      /\ cli' = [cli EXCEPT ![w].phase = next, ![w].generation = 1]
  BY DEF LoadPublished, At, Unpublished
<1>2. /\ cli[w].job \in Jobs /\ cli[w].kind \in {"issuance", "reuse"} /\ RunHeld(w)
      /\ cli[w].operation # 0
  BY <1>1, RunsJob DEF KindsAt
<1>3. /\ cli' \in [Processes -> Runs] /\ \A x \in Processes \ {w} : cli'[x] = cli[x]
      /\ cli'[w].phase = next /\ cli'[w].kind = cli[w].kind
      /\ cli'[w].job = cli[w].job /\ cli'[w].operation = cli[w].operation
  <2>1. next \in Phases /\ 1 \in Nat
    BY DEF Phases
  <2> HIDE DEF next
  <2> QED BY <1>1, <2>1, NoteType
<1>4. TypeOK'
  BY <1>1, <1>3 DEF Held, TypeOK
<1>5. \A x \in Processes \ {w} : RunHeld(x)'
  BY <1>1, <1>3, OthersKeep
<1>6. RunHeld(w)'
  BY <1>1, <1>2, <1>3
    DEF RunHeld, Fits, KindsAt, Kinds, HoldsRegistry, HoldsLog, HoldsDirectory,
        DrawsToken, Managing, Publishing, HasDirectory
<1>7. FilesAgree' /\ OneReset' /\ TokensKept'
  BY <1>1 DEF Held, FilesAgree, OneReset, TokensKept
<1> QED BY <1>4, <1>5, <1>6, <1>7 DEF Held, RunsHeld

\* The registry after a store is the registry before with one session changed:
\* added where there was none, revoked where it was active, or rotated to a
\* token that no generation had before.
Changes(w) ==
  LET o == cli[w].job IN
  /\ o \in Jobs /\ lock["registry"] = w
  /\ registry' \in [Jobs -> Sessions \cup {None}] /\ registry'[o] # None
  /\ \A p \in Jobs \ {o} : registry'[p] = registry[p]
  /\ registry'[o].token <= tokens[o] /\ directory[o] = "bound"
  /\ \/ /\ cli[w].kind \in {"issuance", "reuse"}
        /\ registry[o] = None /\ registry'[o] = New
     \/ /\ cli[w].kind = "revocation"
        /\ registry[o] # None /\ registry[o].status = "active"
        /\ registry'[o].status = "revoked"
        /\ registry'[o].generation = registry[o].generation
        /\ registry'[o].token = registry[o].token
     \/ /\ cli[w].kind = "rotation"
        /\ registry[o] # None /\ registry'[o].status = "active"
        /\ registry'[o].generation = registry[o].generation + 1
        /\ registry'[o].token > registry[o].token

\* A store is one of these changes.
LEMMA StoreChanges ==
  ASSUME Held, NEW w \in Processes, Store(w)
  PROVE  Changes(w) /\ registry'[cli[w].job] = Replacement(cli[w])
                    /\ Replacement(cli[w]) \in Sessions
<1> DEFINE run == cli[w]
           o == run.job
<1>1. /\ run.phase = "store" /\ UNCHANGED tokens
      /\ registry' = [run.snapshot EXCEPT ![o] = Replacement(run)]
  BY DEF Store, At
<1>2. o \in Jobs /\ run.kind \in Kinds /\ RunHeld(w) /\ now \in Nat
  BY <1>1, RunsJob, RunType, ControlAssumption DEF Held, TypeOK
<1>3. lock["registry"] = w /\ run.snapshot = registry
  BY <1>1, <1>2 DEF RunHeld, HoldsRegistry, Managing, Publishing, Kinds
<1>4. registry \in [Jobs -> Sessions \cup {None}] /\ tokens[o] \in 0 .. MaxTokens
  BY <1>2 DEF Held, TypeOK
<1>5. ASSUME Replacement(run) \in Sessions
      PROVE  /\ registry' \in [Jobs -> Sessions \cup {None}] /\ registry'[o] # None
             /\ registry'[o] = Replacement(run)
             /\ \A p \in Jobs \ {o} : registry'[p] = registry[p]
  BY <1>1, <1>2, <1>3, <1>4, <1>5, SessionType
<1>6. CASE run.kind \in {"issuance", "reuse"}
  <2>1. Publishing(run)
    BY <1>1, <1>6 DEF Publishing
  <2>2. registry[o] = None /\ directory[o] = "bound"
    BY <1>2, <2>1 DEF RunHeld, HoldsRegistry, HoldsDirectory
  <2>3. Replacement(run) = New
    BY <1>6 DEF Replacement
  <2>4. tokens[o] >= 1
    BY <1>2, <2>2 DEF Held, FilesAgree
  <2> QED BY <1>2, <1>3, <1>5, <1>6, <2>2, <2>3, <2>4, NewType DEF Changes
<1>7. CASE run.kind = "revocation"
  <2>1. registry[o] \in Sessions /\ registry[o].status = "active"
    BY <1>1, <1>2, <1>4, <1>7 DEF RunHeld, HoldsRegistry, Managing
  <2>2. Replacement(run) = Revoked(registry[o])
    BY <1>3, <1>7 DEF Replacement
  <2>3. directory[o] = "bound" /\ registry[o].token <= tokens[o]
    BY <1>2, <2>1, SessionType DEF Held, FilesAgree, TokensKept
  <2> QED BY <1>2, <1>3, <1>5, <1>7, <2>1, <2>2, <2>3, RevokedType, SessionType
          DEF Changes
<1>8. CASE run.kind = "rotation"
  <2>1. /\ registry[o] \in Sessions /\ run.token <= tokens[o]
        /\ registry[o].token < run.token
    BY <1>1, <1>2, <1>4, <1>8 DEF RunHeld, HoldsRegistry, DrawsToken, Managing
  <2>2. Replacement(run) = Rotated(registry[o], run.token)
    BY <1>3, <1>8 DEF Replacement
  <2>3. directory[o] = "bound"
    BY <1>2, <2>1, SessionType DEF Held, FilesAgree
  <2>4. run.token \in 1 .. MaxTokens
    <3>1. registry[o].token \in 1 .. MaxTokens /\ run.token \in 0 .. MaxTokens
      BY <2>1, SessionType, RunType DEF Held
    <3>2. registry[o].token < run.token
      BY <2>1
    <3> HIDE DEF run, o
    <3> QED BY <3>1, <3>2, ControlAssumption
  <2>5. /\ Rotated(registry[o], run.token) \in Sessions
        /\ Rotated(registry[o], run.token).generation = registry[o].generation + 1
        /\ Rotated(registry[o], run.token).token = run.token
        /\ Rotated(registry[o], run.token).status = "active"
    BY <1>2, <2>1, <2>4, RotatedType
  <2>6. registry[o] # None /\ registry'[o] = Rotated(registry[o], run.token)
    BY <1>5, <2>1, <2>2, <2>5, SessionType
  <2>7. registry[o].token \in Nat /\ run.token \in Nat
    BY <2>1, <2>4, SessionType, ControlAssumption
  <2> HIDE DEF run, o
  <2> QED BY <1>2, <1>3, <1>5, <1>8, <2>1, <2>2, <2>3, <2>5, <2>6, <2>7
          DEF Changes, run, o
<1> QED BY <1>2, <1>6, <1>7, <1>8 DEF Kinds

\* The registry is replaced and free again.
LEMMA StoreHeld ==
  ASSUME Held, NEW w \in Processes, Store(w)
  PROVE  Held'
<1> DEFINE o == cli[w].job
           next == IF cli[w].kind = "reuse" THEN "read" ELSE "complete"
           session == Replacement(cli[w])
<1>1. /\ UNCHANGED <<audit, torn, directory, tokens, resets, operations, now>>
      /\ cli[w].phase = "store" /\ lock' = [lock EXCEPT !["registry"] = None]
      /\ cli' = [cli EXCEPT ![w].phase = next, ![w].generation = session.generation,
                            ![w].snapshot = Idle.snapshot]
  BY DEF Store, At
<1>2. Changes(w) /\ session \in Sessions
  BY StoreChanges
<1>3. o \in Jobs /\ cli[w].kind \in Kinds /\ RunHeld(w) /\ cli[w].operation # 0
  BY <1>1, RunsJob, RunType DEF Held
<1>4. session.generation \in Nat
  BY <1>2, SessionType
<1>5. /\ cli' \in [Processes -> Runs] /\ \A x \in Processes \ {w} : cli'[x] = cli[x]
      /\ cli'[w].phase = next /\ cli'[w].kind = cli[w].kind
      /\ cli'[w].job = cli[w].job /\ cli'[w].operation = cli[w].operation
  <2> HIDE DEF session
  <2>1. next \in Phases
    BY DEF Phases
  <2> HIDE DEF next
  <2> QED BY <1>1, <1>4, <2>1, IdleType DEF Held, TypeOK, Runs
<1>6. /\ lock' \in [Resources -> Processes \cup {None}]
      /\ \A r \in Resources \ {"registry"} : lock'[r] = lock[r]
  BY <1>1 DEF Held, TypeOK
<1>7. TypeOK'
  BY <1>1, <1>2, <1>5, <1>6 DEF Held, TypeOK, Changes
<1>8. \A x \in Processes \ {w} : RunHeld(x)'
  <2>1. \A x \in Processes \ {w} :
          /\ lock["registry"] # x
          /\ \A r \in Resources : lock[r] = x => lock'[r] = x
    BY <1>2, <1>6 DEF Changes
  <2>2. \A p \in Jobs : registry[p] # None => registry'[p] # None
    BY <1>2 DEF Changes
  <2> QED BY <1>1, <1>5, <2>1, <2>2, OthersKeep
<1>9. RunHeld(w)'
  <2>1. cli[w].kind = "issuance" => lock'[o] = w
    <3>1. cli[w].kind = "issuance" => lock[o] = w
      BY <1>1, <1>3 DEF RunHeld, HoldsDirectory, HasDirectory
    <3>2. o \in Resources \ {"registry"}
      BY <1>3, ControlAssumption DEF Resources
    <3> QED BY <1>6, <3>1, <3>2
  <2>2. registry'[o] # None
    BY <1>2 DEF Changes
  <2> QED BY <1>1, <1>3, <1>5, <2>1, <2>2
      DEF RunHeld, Fits, KindsAt, Kinds, HoldsRegistry, HoldsLog, HoldsDirectory,
          DrawsToken, Managing, Publishing, HasDirectory
<1>10. FilesAgree' /\ OneReset' /\ TokensKept'
  BY <1>1, <1>2 DEF Held, FilesAgree, OneReset, TokensKept, Changes
<1> QED BY <1>7, <1>8, <1>9, <1>10 DEF Held, RunsHeld

\* A reuse reads the generation once more.
LEMMA ReadHeld ==
  ASSUME Held, NEW w \in Processes, Read(w)
  PROVE  Held'
<1>1. /\ UNCHANGED <<registry, audit, torn, directory, tokens, resets, lock,
                     operations, now>>
      /\ cli[w].phase = "read"
      /\ cli' = [cli EXCEPT ![w].phase = "complete",
                            ![w].generation = registry[cli[w].job].generation]
  BY DEF Read, At
<1>2. /\ cli[w].job \in Jobs /\ cli[w].kind = "reuse" /\ RunHeld(w)
      /\ cli[w].operation # 0
  BY <1>1, RunsJob DEF KindsAt
<1>3. registry[cli[w].job].generation \in Nat
  BY <1>1, <1>2, SessionType DEF Held, TypeOK, RunHeld, HoldsRegistry
<1>4. /\ cli' \in [Processes -> Runs] /\ \A x \in Processes \ {w} : cli'[x] = cli[x]
      /\ cli'[w].phase = "complete" /\ cli'[w].kind = cli[w].kind
      /\ cli'[w].job = cli[w].job /\ cli'[w].operation = cli[w].operation
  <2>1. "complete" \in Phases
    BY DEF Phases
  <2> QED BY <1>1, <1>3, <2>1, NoteType
<1>5. TypeOK'
  BY <1>1, <1>4 DEF Held, TypeOK
<1>6. \A x \in Processes \ {w} : RunHeld(x)'
  BY <1>1, <1>4, OthersKeep
<1>7. RunHeld(w)'
  BY <1>1, <1>2, <1>4
    DEF RunHeld, Fits, KindsAt, Kinds, HoldsRegistry, HoldsLog, HoldsDirectory,
        DrawsToken, Managing, Publishing, HasDirectory
<1>8. FilesAgree' /\ OneReset' /\ TokensKept'
  BY <1>1 DEF Held, FilesAgree, OneReset, TokensKept
<1> QED BY <1>5, <1>6, <1>7, <1>8 DEF Held, RunsHeld

\* Time passes.
LEMMA TickHeld ==
  ASSUME Held, Tick
  PROVE  Held'
<1>1. UNCHANGED <<registry, audit, torn, directory, tokens, resets, lock, cli, operations>>
      /\ now < MaxTime /\ now' = now + 1
  BY DEF Tick
<1>2. now' \in 0 .. MaxTime
  BY <1>1, ControlAssumption DEF Held, TypeOK
<1>3. TypeOK'
  BY <1>1, <1>2 DEF Held, TypeOK
<1>4. \A x \in Processes : RunHeld(x)'
  BY <1>1, OthersKeep
<1>5. FilesAgree' /\ OneReset' /\ TokensKept'
  BY <1>1 DEF Held, FilesAgree, OneReset, TokensKept
<1> QED BY <1>3, <1>4, <1>5 DEF Held, RunsHeld

\* Every step keeps what is reserved.
LEMMA HeldStep == Held /\ [Next]_vars => Held'
<1> SUFFICES ASSUME Held, [Next]_vars PROVE Held'
  OBVIOUS
<1>1. CASE UNCHANGED vars
  <2>1. TypeOK' /\ FilesAgree' /\ OneReset' /\ TokensKept'
    BY <1>1 DEF vars, Held, TypeOK, FilesAgree, OneReset, TokensKept
  <2>2. \A x \in Processes : RunHeld(x)'
    BY <1>1, OthersKeep DEF vars
  <2> QED BY <2>1, <2>2 DEF Held, RunsHeld
<1>2. CASE Tick
  BY <1>2, TickHeld
<1>3. ASSUME NEW w \in Processes, NEW o \in Jobs,
             \/ BeginIssue(w, o) \/ BeginReuse(w, o)
             \/ \E kind \in {"rotation", "revocation"} : BeginManage(w, o, kind)
      PROVE  Held'
  BY <1>3, BeginIssueHeld, BeginReuseHeld, BeginManageHeld
<1>4. ASSUME NEW w \in Processes,
             \/ Append1(w) \/ Announced(w) \/ Completed(w)
             \/ Prepare(w) \/ Reset(w) \/ Bind(w) \/ WriteToken(w)
      PROVE  Held'
  BY <1>4, AppendHeld, AnnouncedHeld, CompletedHeld, PrepareHeld, ResetHeld,
     BindHeld, WriteTokenHeld
<1>5. ASSUME NEW w \in Processes,
             \/ LoadToPublish(w) \/ LoadPublished(w) \/ Store(w) \/ Read(w) \/ Stop(w)
      PROVE  Held'
  BY <1>5, LoadToPublishHeld, LoadPublishedHeld, StoreHeld, ReadHeld, StopHeld
<1> QED BY <1>1, <1>2, <1>3, <1>4, <1>5 DEF Next

\* Whoever writes the registry, the log or a session directory has it to
\* himself, and what he read before he began is still there
\* (AgentControlStore.publish_binding, rotate, revoke; prepare_session).
THEOREM ReservationsHold == Spec => []Held
<1>1. Init => Held
  BY InitHeld
<1> QED BY <1>1, HeldStep, PTL DEF Spec

\* The registry, the log and the runs of the scripts keep their types: the
\* registry passes its validators after every replacement.
THEOREM ControlTypes == Spec => []TypeOK
<1>1. Held => TypeOK
  BY DEF Held
<1> QED BY <1>1, ReservationsHold, PTL

\* Whatever dies or is repeated, a session directory stands for one reset of
\* the backend (issue_agent_session: prepare, reset, bind).
THEOREM ResetOnce == Spec => []OneReset
<1>1. Held => OneReset
  BY DEF Held
<1> QED BY <1>1, ReservationsHold, PTL

\* Every token the registry names was written to a file before.
THEOREM TokensInFiles == Spec => []TokensKept
<1>1. Held => TokensKept
  BY DEF Held
<1> QED BY <1>1, ReservationsHold, PTL

\* Only a store changes the registry.
LEMMA OnlyStoreChanges ==
  ASSUME Held, [Next]_vars, registry' # registry
  PROVE  \E w \in Processes : Store(w) /\ Changes(w)
<1>1. \E w \in Processes : Store(w)
  BY DEF Next, vars, Tick, BeginIssue, BeginReuse, BeginManage, Append1, Announced,
         Completed, Prepare, Reset, Bind, WriteToken, LoadToPublish, LoadPublished,
         Read, Stop
<1> QED BY <1>1, StoreChanges

\* A replaced registry keeps every session of the old one, and what is changed
\* of one goes on: no concurrent command undoes another's rotation or
\* revocation (replace_private after a load under the same reservation).
THEOREM NoneUndone == Spec => CredentialsMoveOn
<1> DEFINE Moves(o) ==
      /\ registry'[o] # None
      /\ \/ /\ registry'[o].generation = registry[o].generation + 1
            /\ registry'[o].token > registry[o].token
         \/ /\ registry[o].status = "active" /\ registry'[o].status = "revoked"
            /\ registry'[o].generation = registry[o].generation
            /\ registry'[o].token = registry[o].token
<1>1. ASSUME Held, [Next]_vars, NEW o \in Jobs, registry[o] # None,
             registry'[o] # registry[o]
      PROVE  Moves(o)
  <2>1. PICK w \in Processes : Changes(w)
    BY <1>1, OnlyStoreChanges
  <2>2. o = cli[w].job
    BY <1>1, <2>1 DEF Changes
  <2> QED BY <1>1, <2>1, <2>2 DEF Changes
<1>2. Held /\ [Next]_vars
        => [\A o \in Jobs : registry[o] # None /\ registry'[o] # registry[o] =>
                Moves(o)]_vars
  BY <1>1
<1> QED BY <1>2, ReservationsHold, PTL DEF Spec, CredentialsMoveOn

-------------------------------------------------------------------------------
(* The session limit. *)

\* A step of one run of a script.
StepOf(w) ==
  \/ \E o \in Jobs : \/ BeginIssue(w, o) \/ BeginReuse(w, o)
                     \/ \E kind \in {"rotation", "revocation"} : BeginManage(w, o, kind)
  \/ Append1(w) \/ Announced(w) \/ Completed(w)
  \/ Prepare(w) \/ Reset(w) \/ Bind(w) \/ WriteToken(w)
  \/ LoadToPublish(w) \/ LoadPublished(w) \/ Store(w) \/ Read(w) \/ Stop(w)

\* Every step is one of a run, of the clock, or none.
LEMMA StepKinds ==
  ASSUME [Next]_vars
  PROVE  \/ UNCHANGED vars \/ Tick
         \/ \E w \in Processes : StepOf(w)
  BY DEF Next, StepOf

\* A step of a run is no step of another and takes no time.
LEMMA OthersStill ==
  ASSUME Held, NEW w \in Processes, StepOf(w)
  PROVE  /\ now' = now
         /\ \A x \in Processes \ {w} : cli'[x] = cli[x]
<1>1. cli \in [Processes -> Runs]
  BY DEF Held, TypeOK
<1>2. CASE \E o \in Jobs :
             \/ BeginIssue(w, o) \/ BeginReuse(w, o)
             \/ \E kind \in {"rotation", "revocation"} : BeginManage(w, o, kind)
  BY <1>1, <1>2 DEF BeginIssue, BeginReuse, BeginManage, Begin
<1>3. CASE Append1(w) \/ Announced(w) \/ Completed(w)
  BY <1>1, <1>3 DEF Append1, Announced, Completed, Goto
<1>4. CASE Prepare(w) \/ Reset(w) \/ Bind(w) \/ WriteToken(w)
  BY <1>1, <1>4 DEF Prepare, Reset, Bind, WriteToken, Goto
<1>5. CASE LoadToPublish(w) \/ LoadPublished(w) \/ Store(w) \/ Read(w) \/ Stop(w)
  BY <1>1, <1>5 DEF LoadToPublish, LoadPublished, Store, Read, Stop
<1> QED BY <1>2, <1>3, <1>4, <1>5 DEF StepOf

\* A run that is about to publish a session after a step of its own has just
\* loaded the registry.
LEMMA PublishesAfterLoad ==
  ASSUME Held, NEW w \in Processes, StepOf(w), Publishing(cli[w])'
  PROVE  LoadToPublish(w)
<1>1. cli \in [Processes -> Runs] /\ cli'[w].phase = "store"
      /\ cli'[w].kind \in {"issuance", "reuse"}
  BY DEF Held, TypeOK, Publishing
<1>2. CASE \E o \in Jobs :
             \/ BeginIssue(w, o) \/ BeginReuse(w, o)
             \/ \E kind \in {"rotation", "revocation"} : BeginManage(w, o, kind)
  BY <1>1, <1>2 DEF BeginIssue, BeginReuse, BeginManage, Begin, First
<1>3. CASE Append1(w) \/ Announced(w) \/ Completed(w)
  <2>1. CASE Announced(w)
    <3>1. cli[w].kind \in {"issuance", "rotation", "revocation"}
      BY <2>1, RunsJob DEF Announced, At, KindsAt
    <3>2. cli'[w].kind = cli[w].kind /\ cli'[w].phase = AfterStart(cli[w].kind)
      BY <1>1, <2>1 DEF Announced, Held, TypeOK, Runs
    <3> QED BY <1>1, <3>1, <3>2 DEF AfterStart
  <2>2. CASE Append1(w) \/ Completed(w)
    BY <1>1, <2>2, IdleType DEF Append1, Completed, Goto, Runs
  <2> QED BY <1>3, <2>1, <2>2
<1>4. CASE Prepare(w) \/ Reset(w) \/ Bind(w) \/ WriteToken(w)
  <2>1. CASE WriteToken(w)
    BY <1>1, <2>1, RunsJob DEF WriteToken, At, Goto, KindsAt, Runs
  <2>2. CASE Prepare(w) \/ Reset(w) \/ Bind(w)
    BY <1>1, <2>2 DEF Prepare, Reset, Bind, Goto, Runs
  <2> QED BY <1>4, <2>1, <2>2
<1>5. CASE LoadPublished(w) \/ Store(w) \/ Read(w) \/ Stop(w)
  BY <1>1, <1>5, IdleType DEF LoadPublished, Store, Read, Stop, Runs
<1> QED BY <1>2, <1>3, <1>4, <1>5 DEF StepOf

\* There are finitely many active sessions, and time ends some of them.
LEMMA ActiveShrinks ==
  ASSUME NEW sessions \in [Jobs -> Sessions \cup {None}], NEW subject, NEW o,
         NEW t \in Nat, NEW u \in Nat, t <= u
  PROVE  /\ IsFiniteSet(Active(sessions, subject, t) \ {o})
         /\ Cardinality(Active(sessions, subject, t) \ {o}) \in Nat
         /\ Cardinality(Active(sessions, subject, u) \ {o})
              <= Cardinality(Active(sessions, subject, t) \ {o})
<1>1. Active(sessions, subject, t) \ {o} \subseteq Jobs
  BY DEF Active
<1>2. IsFiniteSet(Active(sessions, subject, t) \ {o})
  BY <1>1, FS_Subset, ControlAssumption
<1>3. Active(sessions, subject, u) \ {o} \subseteq Active(sessions, subject, t) \ {o}
  BY SessionType DEF Active
<1> QED BY <1>2, <1>3, FS_Subset, FS_CardinalityType

\* What was room when the registry was loaded is room when it is stored.
LEMMA RoomStep == Held /\ RoomToPublish /\ [Next]_vars => RoomToPublish'
<1> SUFFICES ASSUME Held, RoomToPublish, [Next]_vars,
                    NEW x \in Processes, Publishing(cli[x])'
             PROVE  Cardinality(Active(registry', SubjectOf[cli'[x].job], now')
                                  \ {cli'[x].job}) < MaxActive
  BY DEF RoomToPublish, Publishing
<1>1. registry \in [Jobs -> Sessions \cup {None}] /\ now \in Nat
  BY ControlAssumption DEF Held, TypeOK
<1>2. ASSUME cli'[x] = cli[x], registry' = registry, now' \in Nat, now <= now'
      PROVE  Cardinality(Active(registry', SubjectOf[cli'[x].job], now')
                           \ {cli'[x].job}) < MaxActive
  <2> DEFINE o == cli[x].job
             Others(t) == Active(registry, SubjectOf[o], t) \ {o}
  <2>1. Cardinality(Others(now)) < MaxActive
    BY <1>2 DEF RoomToPublish, Publishing
  <2>2. Cardinality(Others(now')) <= Cardinality(Others(now))
        /\ Cardinality(Others(now)) \in Nat
    BY <1>1, <1>2, ActiveShrinks
  <2>3. IsFiniteSet(Others(now')) /\ Cardinality(Others(now')) \in Nat
    <3>1. now' <= now'
      BY <1>2
    <3> QED BY <1>1, <1>2, <3>1, ActiveShrinks
  <2>4. Cardinality(Others(now')) < MaxActive
    <3> HIDE DEF Others
    <3> QED BY <2>1, <2>2, <2>3, ControlAssumption
  <2> QED BY <1>2, <2>4
<1>3. CASE UNCHANGED vars
  BY <1>1, <1>2, <1>3 DEF vars
<1>4. CASE Tick
  BY <1>1, <1>2, <1>4 DEF Tick
<1>5. ASSUME NEW w \in Processes, StepOf(w)
      PROVE  Cardinality(Active(registry', SubjectOf[cli'[x].job], now')
                           \ {cli'[x].job}) < MaxActive
  <2>1. CASE w = x
    <3>1. LoadToPublish(x)
      BY <1>5, <2>1, PublishesAfterLoad
    <3>2. cli'[x].job = cli[x].job
      BY <3>1 DEF LoadToPublish, Held, TypeOK, Runs
    <3> QED BY <3>1, <3>2 DEF LoadToPublish, Publishable, Authorized
  <2>2. CASE w # x
    <3>1. cli'[x] = cli[x] /\ now' = now
      BY <1>5, <2>2, OthersStill
    <3>2. lock["registry"] = x
      BY <3>1, RunsJob DEF Publishing, RunHeld, HoldsRegistry
    <3>3. registry' = registry
      <4> SUFFICES ASSUME registry' # registry PROVE FALSE
        OBVIOUS
      <4>1. PICK v \in Processes : Store(v) /\ Changes(v)
        BY OnlyStoreChanges
      <4>2. v = x
        BY <3>2, <4>1 DEF Changes
      <4>3. cli'[x].phase # "store"
        BY <4>1, <4>2 DEF Store, Held, TypeOK, Runs
      <4> QED BY <4>3 DEF Publishing
    <3> QED BY <1>1, <1>2, <3>1, <3>3
  <2> QED BY <2>1, <2>2
<1> QED BY <1>3, <1>4, <1>5, StepKinds

\* Initially nobody publishes.
LEMMA InitRoom == Init => RoomToPublish
  BY IdleType DEF Init, RoomToPublish, Publishing

\* The limit that authorize_issuance checked under the reservation still holds
\* when publish_binding writes.
THEOREM RoomKept == Spec => []RoomToPublish
<1> QED BY InitRoom, RoomStep, ReservationsHold, PTL DEF Spec

\* A session is added only within the limit of its subject, however stale the
\* check is that the command began with (publish_binding: "a locked second
\* check").
THEOREM IssuesWithinLimit == Spec => IssuedWithinLimit
<1>1. ASSUME Held, RoomToPublish, [Next]_vars, NEW o \in Jobs,
             registry[o] = None, registry'[o] # None
      PROVE  Cardinality(Active(registry', SubjectOf[o], now')) <= MaxActive
  <2>1. PICK w \in Processes : Store(w) /\ Changes(w)
    BY <1>1, OnlyStoreChanges
  <2>2. /\ o = cli[w].job /\ cli[w].phase = "store" /\ now' = now
        /\ cli[w].kind \in {"issuance", "reuse"}
    BY <1>1, <2>1 DEF Changes, Store, At
  <2> DEFINE Old == Active(registry, SubjectOf[o], now) \ {o}
             Now == Active(registry', SubjectOf[o], now')
  <2>3. Cardinality(Old) < MaxActive
    BY <1>1, <2>2 DEF RoomToPublish, Publishing
  <2>4. IsFiniteSet(Old) /\ Cardinality(Old) \in Nat
    <3>1. /\ registry \in [Jobs -> Sessions \cup {None}]
          /\ now \in Nat /\ now <= now
      BY <1>1, ControlAssumption DEF Held, TypeOK
    <3> QED BY <3>1, ActiveShrinks
  <2>5. Now \subseteq Old \cup {o}
    BY <2>1, <2>2 DEF Active, Changes
  <2>6. /\ IsFiniteSet(Old \cup {o})
        /\ Cardinality(Old \cup {o}) <= Cardinality(Old) + 1
        /\ Cardinality(Old \cup {o}) \in Nat
    <3> HIDE DEF Old
    <3>1. /\ IsFiniteSet(Old \cup {o})
          /\ Cardinality(Old \cup {o})
               = IF o \in Old THEN Cardinality(Old) ELSE Cardinality(Old) + 1
      BY <2>4, FS_AddElement
    <3> QED BY <2>4, <3>1
  <2>7. Cardinality(Now) <= Cardinality(Old \cup {o}) /\ Cardinality(Now) \in Nat
    BY <2>5, <2>6, FS_Subset, FS_CardinalityType
  <2> HIDE DEF Old, Now
  <2>8. Cardinality(Now) <= MaxActive
    BY <2>3, <2>4, <2>6, <2>7, ControlAssumption
  <2> QED BY <2>8 DEF Now
<1>2. Held /\ RoomToPublish /\ [Next]_vars
        => [\A o \in Jobs : registry[o] = None /\ registry'[o] # None =>
              Cardinality(Active(registry', SubjectOf[o], now')) <= MaxActive]_vars
  BY <1>1
<1> QED BY <1>2, ReservationsHold, RoomKept, PTL DEF Spec, IssuedWithinLimit

-------------------------------------------------------------------------------
(* The registry and the log. *)

\* Entries of a log about a job are finitely many.
LEMMA AboutFinite ==
  ASSUME Held, NEW o, NEW kind, NEW phase
  PROVE  /\ IsFiniteSet(About(o, kind, phase))
         /\ Cardinality(About(o, kind, phase)) \in Nat
<1>1. Len(audit) \in Nat
  BY LenProperties DEF Held, TypeOK
<1>2. IsFiniteSet(1 .. Len(audit))
  BY <1>1, FS_Interval
<1>3. About(o, kind, phase) \subseteq 1 .. Len(audit)
  BY DEF About
<1> QED BY <1>2, <1>3, FS_Subset, FS_CardinalityType

\* A line adds an entry to those it is one of, and takes none away.
LEMMA AboutGrows ==
  ASSUME Held, NEW e \in Events, audit' = Append(audit, e),
         NEW o, NEW kind, NEW phase
  PROVE  /\ About(o, kind, phase) \subseteq About(o, kind, phase)'
         /\ Cardinality(About(o, kind, phase)') >= Cardinality(About(o, kind, phase))
         /\ Cardinality(About(o, kind, phase)') \in Nat
         /\ e.about = o /\ e.kind = kind /\ e.phase = phase =>
              /\ About(o, kind, phase)' # {}
              /\ Cardinality(About(o, kind, phase)')
                   = Cardinality(About(o, kind, phase)) + 1
<1> DEFINE L == Len(audit)
           Old == About(o, kind, phase)
           New_ == About(o, kind, phase)'
<1>1. /\ L \in Nat /\ Len(audit') = L + 1 /\ audit'[L + 1] = e
      /\ \A i \in 1 .. L : audit'[i] = audit[i]
  BY DEF Held, TypeOK
<1>2. New_ = IF e.about = o /\ e.kind = kind /\ e.phase = phase
             THEN Old \cup {L + 1} ELSE Old
  BY <1>1 DEF About
<1>3. IsFiniteSet(Old) /\ Cardinality(Old) \in Nat
  BY AboutFinite
<1>4. L + 1 \notin Old
  BY <1>1 DEF About
<1>5. IsFiniteSet(Old \cup {L + 1}) /\ Cardinality(Old \cup {L + 1}) = Cardinality(Old) + 1
  <2> HIDE DEF Old
  <2> QED BY <1>3, <1>4, FS_AddElement
<1> HIDE DEF Old, New_
<1>6. Old \subseteq New_ /\ Cardinality(New_) >= Cardinality(Old)
      /\ Cardinality(New_) \in Nat
  BY <1>2, <1>3, <1>5
<1>7. e.about = o /\ e.kind = kind /\ e.phase = phase =>
        New_ # {} /\ Cardinality(New_) = Cardinality(Old) + 1
  BY <1>2, <1>5
<1> QED BY <1>6, <1>7 DEF Old, New_

\* What the registry has reached it does not go back on.
LEMMA ReachedStays ==
  ASSUME Held, [Next]_vars, NEW o \in Jobs, NEW kind, NEW generation \in Nat,
         Reached(o, kind, generation)
  PROVE  Reached(o, kind, generation)'
<1>1. registry[o] \in Sessions /\ registry[o].generation \in Nat
      /\ registry[o].status \in {"active", "revoked"}
  BY SessionType DEF Held, TypeOK, Reached
<1>2. CASE registry' = registry
  BY <1>2 DEF Reached
<1>3. CASE registry' # registry
  <2>1. PICK w \in Processes : Changes(w)
    BY <1>3, OnlyStoreChanges
  <2>2. CASE o # cli[w].job
    BY <2>1, <2>2 DEF Changes, Reached
  <2>3. CASE o = cli[w].job
    BY <1>1, <2>1, <2>3 DEF Changes, Reached
  <2> QED BY <2>2, <2>3
<1> QED BY <1>2, <1>3

\* The log only grows, by an event of one run.
LEMMA LogSteps ==
  ASSUME Held, [Next]_vars
  PROVE  \/ audit' = audit
         \/ \E w \in Processes :
              /\ UNCHANGED <<registry, directory>>
              /\ \/ /\ Announced(w)
                    /\ audit' = Append(audit, Event(cli[w], "started"))
                    /\ Event(cli[w], "started") \in Events
                 \/ /\ Completed(w)
                    /\ audit' = Append(audit, Event(cli[w], "completed"))
                    /\ Event(cli[w], "completed") \in Events
<1>1. \/ audit' = audit \/ \E w \in Processes : Announced(w) \/ Completed(w)
  BY DEF Next, vars, Tick, BeginIssue, BeginReuse, BeginManage, Append1,
         Prepare, Reset, Bind, WriteToken, LoadToPublish, LoadPublished, Store,
         Read, Stop
<1> QED BY <1>1, EventType DEF Announced, Completed, At

\* Entries of the log stay, whatever the step.
LEMMA AboutStays ==
  ASSUME Held, [Next]_vars, NEW o, NEW kind, NEW phase
  PROVE  /\ About(o, kind, phase) \subseteq About(o, kind, phase)'
         /\ Cardinality(About(o, kind, phase)') >= Cardinality(About(o, kind, phase))
         /\ Cardinality(About(o, kind, phase)') \in Nat
<1>1. CASE audit' = audit
  <2> DEFINE n == Cardinality(About(o, kind, phase))
  <2>1. About(o, kind, phase)' = About(o, kind, phase)
    BY <1>1 DEF About
  <2>2. n \in Nat
    BY AboutFinite
  <2>3. n >= n
    <3> HIDE DEF n
    <3> QED BY <2>2
  <2> QED BY <2>1, <2>2, <2>3
<1>2. CASE \E e \in Events : audit' = Append(audit, e)
  BY <1>2, AboutGrows
<1> QED BY <1>1, <1>2, LogSteps

\* What is announced for a run stays announced while it does nothing.
LEMMA StartedStays ==
  ASSUME Held, Held', [Next]_vars, NEW x \in Processes, Started(x), cli'[x] = cli[x]
  PROVE  Started(x)'
<1> DEFINE o == cli[x].job
<1>1. cli[x].kind = "rotation" /\ cli[x].phase \in {"token", "store"} =>
        o \in Jobs /\ registry[o] # None /\ registry' = registry
  <2> SUFFICES ASSUME cli[x].kind = "rotation", cli[x].phase \in {"token", "store"}
               PROVE  o \in Jobs /\ registry[o] # None /\ registry' = registry
    OBVIOUS
  <2>1. o \in Jobs /\ lock["registry"] = x /\ registry[o] # None
    BY RunsJob DEF RunHeld, HoldsRegistry, Managing
  <2>2. Managing(cli'[x])
    BY DEF Managing
  <2>3. cli'[x].snapshot = registry' /\ cli[x].snapshot = registry
    BY <2>2 DEF Held, RunsHeld, RunHeld, HoldsRegistry, Managing
  <2> QED BY <2>1, <2>3
<1>2. cli[x].kind = "rotation" /\ cli[x].phase \in {"token", "store"} =>
        Cardinality(About(o, "rotation", "started")') >= registry'[o].generation
  <2> SUFFICES ASSUME cli[x].kind = "rotation", cli[x].phase \in {"token", "store"}
               PROVE  Cardinality(About(o, "rotation", "started")')
                        >= registry'[o].generation
    OBVIOUS
  <2> DEFINE a == Cardinality(About(o, "rotation", "started"))
             b == Cardinality(About(o, "rotation", "started")')
             g == registry[o].generation
  <2>1. a >= g /\ b >= a /\ registry'[o].generation = g
    BY <1>1, AboutStays DEF Started
  <2>2. a \in Nat /\ b \in Nat /\ g \in Nat
    BY <1>1, AboutFinite, AboutStays, SessionType DEF Held, TypeOK
  <2> HIDE DEF a, b, g
  <2>3. b >= g
    BY <2>1, <2>2
  <2> QED BY <2>1, <2>3 DEF b
<1>3. /\ About(o, "issuance", "started") \subseteq About(o, "issuance", "started")'
      /\ About(o, "revocation", "started") \subseteq About(o, "revocation", "started")'
  BY AboutStays
<1> QED BY <1>2, <1>3 DEF Started

\* What a run has just announced, or goes on with.
LEMMA StartedStep ==
  ASSUME Held, Held', [Next]_vars, Accounted, NEW w \in Processes, StepOf(w)
  PROVE  Started(w)'
<1>1. cli \in [Processes -> Runs] /\ Started(w)
  BY DEF Held, TypeOK, Accounted
<1>2. CASE \E o \in Jobs :
             \/ BeginIssue(w, o) \/ BeginReuse(w, o)
             \/ \E kind \in {"rotation", "revocation"} : BeginManage(w, o, kind)
  BY <1>1, <1>2 DEF BeginIssue, BeginReuse, BeginManage, Begin, First, Started
<1>3. CASE Announced(w)
  <2>0. PICK o, kind : o = cli[w].job /\ kind = cli[w].kind
    OBVIOUS
  <2> DEFINE n == Cardinality(About(o, "rotation", "started"))
  <2>1. /\ cli[w].phase = "announcing" /\ registry' = registry /\ o \in Jobs
        /\ kind \in {"issuance", "rotation", "revocation"} /\ RunHeld(w)
    BY <1>3, <2>0, RunsJob DEF Announced, At, KindsAt
  <2>2. /\ cli'[w].phase = AfterStart(kind) /\ cli'[w].kind = kind /\ cli'[w].job = o
    BY <1>1, <1>3, <2>0 DEF Announced, Runs
  <2> DEFINE e == Event(cli[w], "started")
  <2>3. /\ e \in Events /\ audit' = Append(audit, e)
        /\ e.about = o /\ e.kind = kind /\ e.phase = "started"
    BY <1>3, <2>0, <2>1, EventType DEF Announced, Event
  <2>4. /\ About(o, kind, "started")' # {}
        /\ Cardinality(About(o, kind, "started")')
             = Cardinality(About(o, kind, "started")) + 1
    <3> HIDE DEF e
    <3> QED BY <2>3, AboutGrows
  <2>5. kind = "rotation" =>
          Cardinality(About(o, "rotation", "started")') >= registry'[o].generation
    <3> SUFFICES ASSUME kind = "rotation"
                 PROVE  Cardinality(About(o, "rotation", "started")')
                          >= registry'[o].generation
      OBVIOUS
    <3> DEFINE g == registry[o].generation
    <3>1. registry[o] \in Sessions
      BY <2>0, <2>1 DEF RunHeld, HoldsRegistry, Managing, Held, TypeOK
    <3>2. n >= g - 1
      BY <2>1, <3>1, SessionType DEF Accounted, AuditAgrees, ChangesAnnounced
    <3>3. n \in Nat /\ g \in Nat
      BY <3>1, AboutFinite, SessionType
    <3>4. n + 1 >= g
      <4> HIDE DEF n, g
      <4> QED BY <3>2, <3>3
    <3> QED BY <2>1, <2>4, <3>4
  <2> QED BY <2>1, <2>2, <2>4, <2>5 DEF Started, AfterStart
<1>4. CASE WriteToken(w)
  <2>0. PICK o : o = cli[w].job
    OBVIOUS
  <2> DEFINE a == Cardinality(About(o, "rotation", "started"))
  <2>1. /\ cli[w].phase = "token" /\ registry' = registry /\ cli[w].kind = "rotation"
    BY <1>4, RunsJob DEF WriteToken, At, KindsAt
  <2>2. /\ cli'[w].phase = "store" /\ cli'[w].kind = "rotation" /\ cli'[w].job = o
    BY <1>1, <1>4, <2>0, <2>1 DEF WriteToken, Goto, Runs
  <2>3. a >= registry[o].generation /\ audit' = audit
    BY <1>1, <1>4, <2>0, <2>1 DEF Started, WriteToken
  <2>4. About(o, "rotation", "started")' = About(o, "rotation", "started")
    BY <2>3 DEF About
  <2> QED BY <2>1, <2>2, <2>3, <2>4 DEF Started
<1>5. CASE Append1(w) \/ Completed(w) \/ Prepare(w) \/ Reset(w) \/ Bind(w)
  BY <1>1, <1>5, IdleType
    DEF Append1, Completed, Prepare, Reset, Bind, Goto, Started, Runs
<1>6. CASE LoadToPublish(w)
  <2>1. cli[w].kind \in {"issuance", "reuse"}
    BY <1>6, RunsJob DEF LoadToPublish, At, KindsAt
  <2> QED BY <1>1, <1>6, <2>1 DEF LoadToPublish, Started, Runs
<1>7. CASE LoadPublished(w) \/ Store(w) \/ Read(w) \/ Stop(w)
  BY <1>1, <1>7, IdleType DEF LoadPublished, Store, Read, Stop, Started, Runs
<1> QED BY <1>2, <1>3, <1>4, <1>5, <1>6, <1>7 DEF StepOf

\* What a run is going to report was done.
LEMMA ReportsStep ==
  ASSUME Held, Held', [Next]_vars, Accounted, NEW w \in Processes, StepOf(w)
  PROVE  Reports(w)'
<1>1. cli \in [Processes -> Runs] /\ Reports(w)
  BY DEF Held, TypeOK, Accounted
<1>2. CASE \E o \in Jobs :
             \/ BeginIssue(w, o) \/ BeginReuse(w, o)
             \/ \E kind \in {"rotation", "revocation"} : BeginManage(w, o, kind)
  BY <1>1, <1>2 DEF BeginIssue, BeginReuse, BeginManage, Begin, First, Reports
<1>3. CASE Append1(w)
  BY <1>1, <1>3 DEF Append1, At, Goto, Reports, Reached, Runs
<1>4. CASE Announced(w)
  <2>1. cli[w].kind \in {"issuance", "rotation", "revocation"}
    BY <1>4, RunsJob DEF Announced, At, KindsAt
  <2> QED BY <1>1, <1>4, <2>1 DEF Announced, AfterStart, Reports, Runs
<1>5. CASE Completed(w) \/ Prepare(w) \/ Reset(w) \/ Bind(w) \/ WriteToken(w) \/ Stop(w)
  BY <1>1, <1>5, IdleType
    DEF Completed, Prepare, Reset, Bind, WriteToken, Stop, Goto, Reports, Runs
<1>6. CASE LoadToPublish(w)
  BY <1>1, <1>6 DEF LoadToPublish, Reports, Runs
<1>7. CASE LoadPublished(w)
  <2> DEFINE o == cli[w].job
  <2>1. /\ o \in Jobs /\ cli[w].kind \in {"issuance", "reuse"} /\ registry' = registry
        /\ registry[o] # None
    BY <1>7, RunsJob DEF LoadPublished, At, Unpublished, KindsAt
  <2>2. registry[o].generation \in Nat \ {0}
    BY <2>1, SessionType DEF Held, TypeOK
  <2>3. cli'[w].generation = 1 /\ cli'[w].kind = cli[w].kind /\ cli'[w].job = o
    BY <1>1, <1>7 DEF LoadPublished, Runs
  <2> QED BY <2>1, <2>2, <2>3 DEF Reports, Reached
<1>8. CASE Store(w)
  <2> DEFINE o == cli[w].job
  <2>1. /\ Changes(w) /\ Replacement(cli[w]) \in Sessions
        /\ registry'[o] = Replacement(cli[w])
    BY <1>8, StoreChanges
  <2>2. /\ cli'[w].generation = registry'[o].generation
        /\ cli'[w].kind = cli[w].kind /\ cli'[w].job = o
    BY <1>1, <1>8, <2>1 DEF Store, Runs
  <2>3. registry'[o].generation \in Nat /\ registry'[o] # None
    BY <2>1, SessionType
  <2>4. cli[w].kind = "revocation" => registry'[o].status = "revoked"
    BY <2>1 DEF Changes
  <2> QED BY <2>2, <2>3, <2>4 DEF Reports, Reached
<1>9. CASE Read(w)
  <2> DEFINE o == cli[w].job
  <2>1. /\ o \in Jobs /\ cli[w].kind = "reuse" /\ registry' = registry
        /\ registry[o] # None
    BY <1>9, RunsJob DEF Read, At, KindsAt, RunHeld, HoldsRegistry
  <2>2. registry[o].generation \in Nat
    BY <2>1, SessionType DEF Held, TypeOK
  <2>3. /\ cli'[w].generation = registry[o].generation /\ cli'[w].kind = "reuse"
        /\ cli'[w].job = o
    BY <1>1, <1>9, <2>1 DEF Read, Runs
  <2> QED BY <2>1, <2>2, <2>3 DEF Reports, Reached
<1> QED BY <1>2, <1>3, <1>4, <1>5, <1>6, <1>7, <1>8, <1>9 DEF StepOf

\* What a run reports stays true while it does nothing.
LEMMA ReportsStays ==
  ASSUME Held, [Next]_vars, NEW x \in Processes, Reports(x), cli'[x] = cli[x]
  PROVE  Reports(x)'
<1> SUFFICES ASSUME cli[x].phase \in {"complete", "completing"}
             PROVE  Reached(cli[x].job, cli[x].kind, cli[x].generation)'
  BY DEF Reports
<1>1. cli[x].job \in Jobs /\ cli[x].generation \in Nat
  BY RunsJob, RunType DEF Held
<1> QED BY <1>1, ReachedStays DEF Reports

\* Every run still has what it does announced, and reports what is true.
LEMMA RunsAccounted ==
  ASSUME Held, Held', [Next]_vars, Accounted
  PROVE  \A x \in Processes : Started(x)' /\ Reports(x)'
<1> SUFFICES ASSUME NEW x \in Processes PROVE Started(x)' /\ Reports(x)'
  OBVIOUS
<1>1. Started(x) /\ Reports(x)
  BY DEF Accounted
<1>2. CASE cli'[x] = cli[x]
  BY <1>1, <1>2, StartedStays, ReportsStays
<1>3. ASSUME NEW w \in Processes, StepOf(w), w # x PROVE cli'[x] = cli[x]
  BY <1>3, OthersStill
<1>4. CASE StepOf(x)
  BY <1>4, StartedStep, ReportsStep
<1>5. CASE UNCHANGED vars \/ Tick
  BY <1>2, <1>5 DEF vars, Tick
<1> QED BY <1>2, <1>3, <1>4, <1>5, StepKinds

\* A directory is made by a run that has announced it.
LEMMA DirectoriesStep ==
  ASSUME Held, [Next]_vars, Accounted
  PROVE  DirectoriesAnnounced'
<1> SUFFICES ASSUME NEW o \in Jobs, directory'[o] # "absent"
             PROVE  About(o, "issuance", "started")' # {}
  BY DEF DirectoriesAnnounced
<1>1. About(o, "issuance", "started") \subseteq About(o, "issuance", "started")'
  BY AboutStays
<1>2. CASE directory[o] # "absent"
  BY <1>1, <1>2 DEF Accounted, DirectoriesAnnounced
<1>3. CASE directory[o] = "absent"
  <2>1. PICK w \in Processes : Prepare(w) \/ Bind(w)
    BY <1>3 DEF Next, vars, Tick, BeginIssue, BeginReuse, BeginManage, Append1,
        Announced, Completed, Reset, WriteToken, LoadToPublish, LoadPublished,
        Store, Read, Stop
  <2>2. directory \in [Jobs -> {"absent", "pending", "bound"}] /\ o = cli[w].job
    BY <1>3, <2>1 DEF Held, TypeOK, Prepare, Bind
  <2>3. CASE Prepare(w)
    BY <1>1, <2>2, <2>3 DEF Prepare, At, Accounted, Started
  <2>4. CASE Bind(w)
    BY <1>3, <2>2, <2>4, RunsJob DEF Bind, At, RunHeld, HoldsDirectory
  <2> QED BY <2>1, <2>3, <2>4
<1> QED BY <1>2, <1>3

\* What the registry holds after a step was announced before it.
LEMMA ChangesAnnouncedStep ==
  ASSUME Held, Held', [Next]_vars, Accounted
  PROVE  ChangesAnnounced'
<1> SUFFICES ASSUME NEW o \in Jobs, registry'[o] # None
             PROVE  /\ About(o, "issuance", "started")' # {}
                    /\ Cardinality(About(o, "rotation", "started")')
                         >= registry'[o].generation - 1
                    /\ registry'[o].status = "revoked" =>
                         About(o, "revocation", "started")' # {}
  BY DEF ChangesAnnounced
<1> DEFINE a == Cardinality(About(o, "rotation", "started"))
           b == Cardinality(About(o, "rotation", "started")')
<1>1. /\ About(o, "issuance", "started") \subseteq About(o, "issuance", "started")'
      /\ About(o, "revocation", "started") \subseteq About(o, "revocation", "started")'
      /\ b >= a /\ b \in Nat /\ a \in Nat
  BY AboutStays, AboutFinite
<1>2. registry'[o] \in Sessions /\ registry'[o].generation \in Nat
  BY SessionType DEF Held, TypeOK
<1> HIDE DEF a, b
<1>3. CASE registry'[o] = registry[o]
  <2>1. /\ About(o, "issuance", "started") # {}
        /\ a >= registry[o].generation - 1
        /\ registry[o].status = "revoked" => About(o, "revocation", "started") # {}
    BY <1>3 DEF Accounted, AuditAgrees, ChangesAnnounced, a
  <2>2. b >= registry'[o].generation - 1
    BY <1>1, <1>2, <1>3, <2>1
  <2> QED BY <1>1, <1>3, <2>1, <2>2 DEF b
<1>4. CASE registry'[o] # registry[o]
  <2>1. PICK w \in Processes : Store(w) /\ Changes(w)
    BY <1>4, OnlyStoreChanges
  <2>2. o = cli[w].job /\ directory[o] = "bound" /\ cli[w].phase = "store" /\ Started(w)
    BY <1>4, <2>1 DEF Changes, Store, At, Accounted
  <2>3. About(o, "issuance", "started") # {}
    BY <2>2 DEF Accounted, DirectoriesAnnounced
  <2>4. b >= registry'[o].generation - 1
    <3>1. CASE cli[w].kind \in {"issuance", "reuse"}
      <4>1. registry'[o].generation = 1
        BY <2>1, <2>2, <3>1, NewType DEF Changes, New
      <4> QED BY <1>1, <4>1
    <3>2. CASE cli[w].kind = "revocation"
      <4>1. registry[o] # None /\ registry'[o].generation = registry[o].generation
        BY <2>1, <2>2, <3>2 DEF Changes
      <4>2. a >= registry[o].generation - 1
        BY <4>1 DEF Accounted, AuditAgrees, ChangesAnnounced, a
      <4> QED BY <1>1, <1>2, <4>1, <4>2
    <3>3. CASE cli[w].kind = "rotation"
      <4>1. registry[o] # None /\ registry'[o].generation = registry[o].generation + 1
        BY <2>1, <2>2, <3>3 DEF Changes
      <4>2. a >= registry[o].generation
        BY <2>2, <3>3 DEF Started, a
      <4>3. registry[o].generation \in Nat
        BY <4>1, SessionType DEF Held, TypeOK
      <4> QED BY <1>1, <1>2, <4>1, <4>2, <4>3
    <3> QED BY <2>1, <3>1, <3>2, <3>3 DEF Changes
  <2>5. registry'[o].status = "revoked" => cli[w].kind = "revocation"
    BY <2>1, <2>2 DEF Changes, New
  <2>6. registry'[o].status = "revoked" => About(o, "revocation", "started") # {}
    BY <2>2, <2>5 DEF Started
  <2> QED BY <1>1, <2>3, <2>4, <2>6 DEF b
<1> QED BY <1>3, <1>4

\* What the log says was done was done and stays done.
LEMMA CompletionsStep ==
  ASSUME Held, [Next]_vars, Accounted
  PROVE  CompletionsTrue'
<1> SUFFICES ASSUME NEW i \in 1 .. Len(audit'), NEW e, e = audit'[i],
                    e.phase = "completed"
             PROVE  Reached(e.about, e.kind, e.generation)'
  BY DEF CompletionsTrue, Reached
<1>1. audit \in Seq(Events) /\ Len(audit) \in Nat
  BY LenProperties DEF Held, TypeOK
<1>2. CASE i \in 1 .. Len(audit) /\ audit'[i] = audit[i]
  <2>1. e \in Events
    BY <1>1, <1>2, ElementOfSeq
  <2>2. Reached(e.about, e.kind, e.generation)
    BY <1>2 DEF Accounted, AuditAgrees, CompletionsTrue, Reached
  <2> QED BY <2>1, <2>2, ReachedStays DEF Events
<1>3. CASE audit' = audit
  BY <1>2, <1>3
<1>4. ASSUME NEW w \in Processes, NEW event \in Events,
             UNCHANGED registry, audit' = Append(audit, event),
             \/ Announced(w) /\ event = Event(cli[w], "started")
             \/ Completed(w) /\ event = Event(cli[w], "completed")
      PROVE  Reached(e.about, e.kind, e.generation)'
  <2>1. \/ i \in 1 .. Len(audit) /\ audit'[i] = audit[i]
        \/ e = event
    BY <1>1, <1>4
  <2>2. CASE e = event
    <3>1. Completed(w) /\ event = Event(cli[w], "completed")
      BY <1>4, <2>2 DEF Event
    <3>2. Reached(cli[w].job, cli[w].kind, cli[w].generation)
      BY <3>1 DEF Completed, At, Accounted, Reports
    <3>3. /\ e.about = cli[w].job /\ e.kind = cli[w].kind
          /\ e.generation = cli[w].generation
      BY <2>2, <3>1 DEF Event
    <3> QED BY <1>4, <3>2, <3>3 DEF Reached
  <2> QED BY <1>2, <2>1, <2>2
<1> QED BY <1>3, <1>4, LogSteps

\* Every step keeps the log and the registry in agreement.
LEMMA AccountedStep == Held /\ Held' /\ Accounted /\ [Next]_vars => Accounted'
<1> SUFFICES ASSUME Held, Held', Accounted, [Next]_vars PROVE Accounted'
  OBVIOUS
<1>1. \A x \in Processes : Started(x)' /\ Reports(x)'
  BY RunsAccounted
<1>2. DirectoriesAnnounced' /\ ChangesAnnounced' /\ CompletionsTrue'
  BY DirectoriesStep, ChangesAnnouncedStep, CompletionsStep
<1> QED BY <1>1, <1>2 DEF Accounted, AuditAgrees

\* Initially there is nothing to account for.
LEMMA InitAccounted == Init => Accounted
  BY IdleType DEF Init, Accounted, Started, Reports, DirectoriesAnnounced, AuditAgrees,
                  ChangesAnnounced, CompletionsTrue

\* The log and the registry never contradict each other, wherever a command
\* dies: no session changes without a started event before, and what a
\* completed event says was done (append_control_event around
\* replace_private).
THEOREM LogAgrees == Spec => []AuditAgrees
<1>1. Spec => []Accounted
  BY InitAccounted, AccountedStep, ReservationsHold, PTL DEF Spec
<1>2. Accounted => AuditAgrees
  BY DEF Accounted
<1> QED BY <1>1, <1>2, PTL
===============================================================================
