----------------------------- MODULE AgentRunner -----------------------------
(***************************************************************************)
(* The model runner (scripts/run_qwen_agent.py) behind the agent gateway   *)
(* (harness_api/app/agent_gateway.py), against the promise an episode      *)
(* makes to its clients (AtomicEpisode, which EpisodeStore implements).    *)
(*                                                                         *)
(* The runner asks the model for tool calls, turns each into an action     *)
(* with an id of its own, writes the action to its checkpoint, posts it    *)
(* and writes what came of it. It may die anywhere; the next run resumes   *)
(* from the checkpoint. A posted request outlives its client: it waits for *)
(* a slot of the gateway, reads the state, is forwarded, and the backend   *)
(* goes on with it after the gateway has given it up.                      *)
(***************************************************************************)
EXTENDS Integers, Sequences, FiniteSets

CONSTANTS
  None,        \* no checkpoint, no pending action
  Slots,       \* requests the gateway serves at once (4 in the code)
  MaxCalls,    \* tool calls of one model response
  MaxTurns,    \* max_turns of one run
  MaxModel,    \* bound: calls the model makes over all runs
  MaxFaults    \* bound: deaths, deadlines and failed checks over all runs

ASSUME SlotsAssumption == Slots \in Nat \ {0}
ASSUME BoundsAssumption == {MaxCalls, MaxTurns, MaxModel, MaxFaults} \subseteq Nat

VARIABLES
  pc,          \* "down", "turn", "acting", "sending", "waiting", "saving"
  mem,         \* what the running process knows
  disk,        \* its checkpoint file
  report,      \* the status of the last report written
  requests,    \* requests inside the gateway
  handlers,    \* requests the backend is working on
  version, status, inflight, decided,  \* the episode
  asked, faults,  \* how much of each bound is used
  parallel     \* whether a response has carried several calls

runner == <<pc, mem, disk, report>>
episode == <<version, status, inflight, decided>>
counters == <<asked, faults, parallel>>
vars == <<runner, requests, handlers, episode, counters>>

Kinds == {"tool", "evidence", "answer"}
Calls == [n : Nat, kind : Kinds]
Bodies == [client_action_id : Nat, expected_state_version : Nat, action : Calls]
Actions == [body : Bodies, calls_remaining : Nat]
Results == [call : Calls, result_of : Calls]
Checkpoints ==
  [version : Nat, terminated : BOOLEAN, tool_calls : Nat,
   pending : Actions \cup {None}, followups : Seq(Calls),
   answered : SUBSET Results, active : Seq(Calls), turn : Nat,
   resume : BOOLEAN, resume_pending : BOOLEAN]

ASSUME NoneIsNoCheckpoint == None \notin Actions \cup Checkpoints

Errors == {"refused", "tool_failed"}

Backend == INSTANCE AtomicEpisode
             WITH Requests <- Bodies, Codes <- Errors \cup {"success"}

(***************************************************************************)
(* The runner's memory and its checkpoint. A checkpoint holds the memory   *)
(* without what belongs to one turn of one run.                            *)
(***************************************************************************)
Fresh ==
  [version |-> version, terminated |-> FALSE, tool_calls |-> 0,
   pending |-> None, followups |-> <<>>, answered |-> {},
   active |-> <<>>, turn |-> 0, resume |-> FALSE, resume_pending |-> FALSE]

Pending(m, call, remaining) ==
  [body |-> [client_action_id |-> m.tool_calls,
             expected_state_version |-> m.version, action |-> call],
   calls_remaining |-> remaining]

Restored(m) ==
  [m EXCEPT !.active = <<>>, !.turn = 0, !.resume = TRUE,
            !.resume_pending = (m.pending # None)]

\* The checkpoint written before a request names the action and the calls
\* that follow it; the one written after an answer names neither.
BeforeRequest(m) == m

AfterAnswer(m) == [m EXCEPT !.pending = None, !.followups = <<>>]

Init ==
  /\ Backend!AtomicInit
  /\ pc = "down"
  /\ mem = Fresh
  /\ disk = None
  /\ report = "none"
  /\ requests = {}
  /\ handlers = {}
  /\ asked = 0 /\ faults = 0 /\ parallel = FALSE

\* The process ends, with a report or without; the file stays as it is.
Ends(status_) ==
  /\ pc' = "down"
  /\ report' = status_
  /\ UNCHANGED <<mem, disk>>

Fault ==
  /\ faults < MaxFaults
  /\ faults' = faults + 1
  /\ UNCHANGED <<asked, parallel>>

(***************************************************************************)
(* One run.                                                                *)
(***************************************************************************)
\* Without a checkpoint the session is read; with one, its artifacts are
\* fetched again, and a terminated state is reported without any call.
Start ==
  /\ pc = "down"
  /\ report # "passed"
  /\ mem' = IF disk = None THEN Fresh ELSE Restored(disk)
  /\ IF disk # None /\ disk.terminated
     THEN pc' = "down" /\ report' = "passed"
     ELSE pc' = "turn" /\ report' = "none"
  /\ UNCHANGED <<disk, requests, handlers, episode, counters>>

\* An action left pending is sent again before the model is asked.
ResumePending ==
  /\ pc = "turn"
  /\ mem.turn < MaxTurns
  /\ mem.resume_pending
  /\ mem' = [mem EXCEPT !.active = <<mem.pending.body.action>>,
                        !.resume_pending = FALSE]
  /\ pc' = "acting"
  /\ UNCHANGED <<disk, report, requests, handlers, episode, counters>>

\* The model answers with calls. When an action is pending its calls are
\* dropped and the pending action takes their place; with no call at all the
\* run has failed.
AskModel ==
  /\ pc = "turn"
  /\ mem.turn < MaxTurns
  /\ ~mem.resume_pending
  /\ \E k \in 0..MaxCalls :
       /\ asked + k =< MaxModel
       /\ asked' = asked + k
       /\ parallel' = (parallel \/ k > 1)
       /\ IF k = 0
          THEN Ends("failed")
          ELSE \E kinds \in [1..k -> Kinds] :
                 LET calls == [i \in 1..k |-> [n |-> asked + i, kind |-> kinds[i]]]
                 IN /\ mem' = [mem EXCEPT !.active =
                                 IF mem.pending = None THEN calls
                                 ELSE <<mem.pending.body.action>>]
                    /\ pc' = "acting"
                    /\ UNCHANGED <<disk, report>>
  /\ UNCHANGED <<requests, handlers, episode, faults>>

OutOfTurns ==
  /\ pc = "turn"
  /\ mem.turn >= MaxTurns
  /\ Ends("failed")
  /\ UNCHANGED <<requests, handlers, episode, counters>>

\* The next call becomes the pending action and is saved; a pending action is
\* sent as it is. Arguments that make no action end the run, and so does a
\* queue of calls that the client's classes cannot write as JSON.
Prepare ==
  /\ pc = "acting"
  /\ IF mem.pending # None
     THEN pc' = "sending" /\ UNCHANGED <<mem, disk, report, counters>>
     ELSE \/ /\ mem' = [mem EXCEPT
                  !.pending = Pending(mem, Head(mem.active), Len(mem.active) - 1),
                  !.followups = Tail(mem.active)]
             /\ disk' = BeforeRequest(mem')
             /\ pc' = "sending"
             /\ UNCHANGED <<report, counters>>
          \/ Ends("failed") /\ Fault
  /\ UNCHANGED <<requests, handlers, episode>>

Post ==
  /\ pc = "sending"
  /\ requests' = requests \cup
       {[body |-> mem.pending.body, stage |-> "waiting", awaited |-> TRUE]}
  /\ pc' = "waiting"
  /\ UNCHANGED <<mem, disk, report, handlers, episode, counters>>

\* The pending action after an answer: one of several calls keeps the action
\* in place until its count is used up, and then the first of the calls that
\* follow it takes its place, answered with the result at hand.
Renamed(m, ans) ==  \* mutant
  LET left == IF m.pending.calls_remaining > 0
              THEN m.pending.calls_remaining - 1 ELSE 0
      moved == [m EXCEPT !.version = ans.state_version,
                         !.terminated = ans.terminated,
                         !.tool_calls = @ + 1]
  IN [moved EXCEPT !.pending = IF left = 0 THEN None
                               ELSE Pending(moved, m.pending.body.action, left)]

Advanced(m, ans) ==
  LET left == IF m.pending.calls_remaining > 0
              THEN m.pending.calls_remaining - 1 ELSE 0
      moved == [m EXCEPT !.version = ans.state_version,
                         !.terminated = ans.terminated,
                         !.tool_calls = @ + 1]
      next == left = 0 /\ m.followups # <<>>
  IN [moved EXCEPT
        !.pending = CASE left > 0 -> [m.pending EXCEPT !.calls_remaining = left]
                      [] next -> Pending(moved, Head(m.followups), 0)
                      [] OTHER -> None,
        !.followups = IF next THEN Tail(@) ELSE @,
        !.answered = @ \cup
          {[call |-> IF next THEN Head(m.followups) ELSE m.pending.body.action,
            result_of |-> m.pending.body.action]}]

\* The result is taken in; an error response ends the run.
Receive(ans) ==
  IF ans.code = "success"
  THEN /\ mem' = Advanced(mem, ans)
       /\ pc' = "saving"
       /\ UNCHANGED <<disk, report>>
  ELSE Ends(ans.code)

\* New artifacts are fetched and checked, and the checkpoint is written; a
\* terminated episode ends the run, as does an artifact that fails its check.
Save ==
  /\ pc = "saving"
  /\ \/ Ends("failed") /\ Fault
     \/ /\ disk' = AfterAnswer(mem)
        /\ mem' = [mem EXCEPT !.active = Tail(@),
                              !.turn = IF Len(mem.active) = 1 THEN @ + 1 ELSE @]
        /\ pc' = IF mem.terminated THEN "down"
                 ELSE IF Len(mem.active) = 1 THEN "turn" ELSE "acting"
        /\ report' = IF mem.terminated THEN "passed" ELSE report
        /\ UNCHANGED counters
  /\ UNCHANGED <<requests, handlers, episode>>

\* The process dies, or gives its request up after 45 s.
Dies ==
  /\ pc # "down"
  /\ Ends("none")
  /\ Fault
  /\ requests' = {[r EXCEPT !.awaited = FALSE] : r \in requests}
  /\ UNCHANGED <<handlers, episode>>

(***************************************************************************)
(* The gateway. A request holds a slot from before it reads the state until *)
(* its last byte, whether or not its client still waits.                   *)
(***************************************************************************)
Holding == {r \in requests : r.stage # "waiting"}

Moves(r, stage) == (requests \ {r}) \cup {[r EXCEPT !.stage = stage]}

TakeSlot(r) ==
  /\ r.stage = "waiting"
  /\ Cardinality(Holding) < Slots
  /\ requests' = Moves(r, "reading")
  /\ UNCHANGED <<runner, handlers, episode, counters>>

\* The state is read and checked first; then the body goes to the backend.
Forward(r) ==
  /\ r.stage = "reading"
  /\ requests' = Moves(r, "posted")
  /\ handlers' = handlers \cup {r.body}
  /\ UNCHANGED <<runner, episode, counters>>

\* An answer reaches the process that waits for it, if one still does.
Leave(leaving, ans) ==
  /\ requests' = requests \ leaving
  /\ IF \E r \in leaving : r.awaited THEN Receive(ans) ELSE UNCHANGED runner

\* The deadline of 50 s, counted from the wait for a slot, or the 40 s for the
\* backend: the slot is free, the client has an error, the backend goes on.
SlotKept(r) ==  \* mutant
  /\ r.awaited
  /\ requests' = (requests \ {r}) \cup {[r EXCEPT !.stage = "kept", !.awaited = FALSE]}
  /\ Receive([code |-> "gateway_timeout"])
  /\ Fault
  /\ UNCHANGED <<handlers, episode>>

Deadline(r) ==
  /\ Leave({r}, [code |-> "gateway_timeout"])
  /\ Fault
  /\ UNCHANGED <<handlers, episode>>

(***************************************************************************)
(* The backend decides an id once and answers every repetition of its body *)
(* with that decision. A tool call is taken up first and decided later.    *)
(***************************************************************************)
DecidedFor(b) == {d \in decided : d.request.client_action_id = b.client_action_id}

\* What a body gets that decides nothing: its stored answer, a conflict.
Stored(b) ==
  LET d == CHOOSE x \in DecidedFor(b) : TRUE
  IN CASE DecidedFor(b) # {} /\ d.request = b ->
            [code |-> d.code, state_version |-> d.state_version,
             terminated |-> status = "terminated" /\ d.state_version = version]
       [] DecidedFor(b) # {} /\ d.request # b -> [code |-> "idempotency_conflict"]
       [] DecidedFor(b) = {} /\ inflight # {} -> [code |-> "tool_in_progress"]
       [] OTHER -> [code |-> "state_version_conflict"]

Awaiting(b, stage) == {r \in requests : r.stage = stage /\ r.body = b}

\* While its own request is in flight a body is refused and the work goes on.
Repeat(b) ==
  /\ \/ DecidedFor(b) # {}
     \/ inflight = {b} /\ Awaiting(b, "posted") # {}
     \/ inflight \notin {{}, {b}}
     \/ b.expected_state_version # version
  /\ handlers' = handlers \ ({b} \ inflight)
  /\ Leave(Awaiting(b, "posted"), Stored(b))
  /\ UNCHANGED <<episode, counters>>

TakeUp(b) ==
  /\ b.action.kind = "tool"
  /\ Backend!Reserve(b)
  /\ requests' \in IF Awaiting(b, "posted") = {} THEN {requests}
                   ELSE {Moves(r, "working") : r \in Awaiting(b, "posted")}
  /\ UNCHANGED <<runner, handlers, counters>>

\* The request that was worked on has its answer; a repetition that has come
\* in meanwhile is still to be handled.
Reply(b, ans) ==
  LET leaving == Awaiting(b, IF inflight = {b} THEN "working" ELSE "posted")
  IN /\ handlers' = IF Awaiting(b, "posted") \subseteq leaving
                    THEN handlers \ {b} ELSE handlers
     /\ Leave(leaving, ans)
     /\ UNCHANGED counters

\* An action moves the episode, which it may end; an answer always ends it. A
\* failed tool moves it too. A refusal leaves it where it is and decides the
\* id, except that of a tool: the same request may be taken up later.
Decide(b) ==
  \/ /\ inflight = IF b.action.kind = "tool" THEN {b} ELSE {}
     /\ \E code \in {"success", "tool_failed"} :
          /\ code = "tool_failed" => b.action.kind = "tool"
          /\ Backend!Advance(b, code)
          /\ status' \in IF b.action.kind = "answer" THEN {"terminated"}
                         ELSE {"active", "truncated"}
          /\ Reply(b, [code |-> code, state_version |-> version + 1,
                       terminated |-> status' = "terminated"])
  \/ /\ IF b.action.kind = "tool"
        THEN inflight = {} /\ DecidedFor(b) = {} /\ UNCHANGED episode
        ELSE Backend!Reject(b, "refused")
     /\ b.expected_state_version = version
     /\ Reply(b, [code |-> "refused"])

Handle(b) == Repeat(b) \/ TakeUp(b) \/ Decide(b)

(***************************************************************************)
(* Specification. A run that failed is started again and ends its turns;   *)
(* the gateway and the backend finish what they hold.                      *)
(***************************************************************************)
RunStep ==
  Start \/ ResumePending \/ AskModel \/ OutOfTurns \/ Prepare \/ Post \/ Save

Serve ==
  \/ \E r \in requests : TakeSlot(r) \/ Forward(r)
  \/ \E b \in handlers : Handle(b)

Next ==
  \/ RunStep
  \/ Dies
  \/ Serve
  \/ \E r \in requests : Deadline(r)

Spec == Init /\ [][Next]_vars

FairSpec ==
  /\ Spec
  /\ WF_vars(RunStep)
  /\ WF_vars(\E r \in requests : TakeSlot(r) \/ Forward(r))
  /\ WF_vars(\E b \in handlers : Repeat(b))
  /\ WF_vars(\E b \in handlers : TakeUp(b) \/ Decide(b))

(***************************************************************************)
(* Properties.                                                             *)
(***************************************************************************)
\* The runner, its checkpoint, the requests of the gateway and of the backend
\* and the episode are of their types.
TypeOK ==
  /\ pc \in {"down", "turn", "acting", "sending", "waiting", "saving"}
  /\ mem \in Checkpoints
  /\ disk \in Checkpoints \cup {None}
  /\ requests \subseteq [body : Bodies, awaited : BOOLEAN,
                        stage : {"waiting", "reading", "posted", "working"}]
  /\ handlers \subseteq Bodies /\ inflight \subseteq Bodies
  /\ version \in Nat
  /\ decided \subseteq [request : Bodies, code : Errors \cup {"success"},
                       state_version : Nat]
  /\ asked \in Nat /\ faults \in Nat /\ parallel \in BOOLEAN

\* However often a run dies, is given up or sends an action again, one call of
\* the model is applied to the episode under one action id only.
CallsAppliedOnce ==
  \A d, e \in decided :
    d.code = "success" /\ e.code = "success"
      /\ d.request.action = e.request.action => d = e

\* As long as the model makes one call at a time, an id that was decided for
\* one body is never sent with another: no later run is locked out by the
\* action an earlier one has left behind.
IdsNameOneAction ==
  ~parallel => \A b \in handlers, d \in decided :
    d.request.client_action_id = b.client_action_id => d.request = b

\* When the model is asked again, the run has seen everything the episode has
\* done in its name, whatever was lost on the way: it knows the version, and
\* the result of every call that was applied.
NothingLost ==
  ~parallel /\ pc = "turn" /\ mem.pending = None =>
    /\ mem.version = version
    /\ \A d \in decided : d.code = "success" =>
         [call |-> d.request.action, result_of |-> d.request.action] \in mem.answered

\* A call of the model happens once and its result arrives, whatever dies, is
\* given up or repeated between runner, gateway and episode.
ExactlyOnce == CallsAppliedOnce /\ IdsNameOneAction /\ NothingLost

\* A saved pending action is decided in the end, or its refusal reported, if
\* failed runs are started again: late answers, a slot that others hold and
\* deaths only delay it.
PendingSettles ==
  \A i \in 0..MaxModel :
    /\ ~parallel /\ disk # None
    /\ disk.pending # None /\ disk.pending.body.client_action_id = i
    ~> (parallel \/ report = "refused" \/ \E d \in decided : d.request.client_action_id = i)

\* What docs/remote-sensing-challenges-and-roadmap.md says of every gateway
\* action: the checkpoint names it before it is sent.
PendingBeforeSend ==
  pc = "waiting" =>
    disk # None /\ disk.pending # None /\ disk.pending.body = mem.pending.body
=============================================================================
