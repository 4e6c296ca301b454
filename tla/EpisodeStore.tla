----------------------------- MODULE EpisodeStore -----------------------------
(***************************************************************************)
(* One V2 episode and the request threads that step it                     *)
(* (harness_api/app/core/store.py, core/tool_execution.py and the reducer  *)
(* apply_action of core/domain.py).                                        *)
(*                                                                         *)
(* Rows of different episodes never meet: every table of the store is      *)
(* keyed by the episode.  A SQLite transaction (BEGIN IMMEDIATE ... COMMIT)*)
(* is one action, and everything between two transactions of a request is  *)
(* a place where other threads run, the lease of a tool run expires or the *)
(* thread disappears.                                                      *)
(*                                                                         *)
(* Time is abstracted.  Wall time is a counter that saturates at the       *)
(* episode's limit; a 90 s lease expires at any moment after the           *)
(* reservation, because nothing ties it to how long a tool takes.          *)
(***************************************************************************)
EXTENDS Budgets, FiniteSets, Sequences

CONSTANTS
  Workers,         \* API request threads, of one process or of several
  RunIds,          \* the uuid space of tool run ids; bounds the runs made
  ClientActionIds, \* ids the clients put on their actions
  Requests,        \* the step requests clients may send, each at any time
  Tools, ToolPlan, \* tool ids, and what prepare_tool plans for each
  ToolOutputs,     \* what an invoked tool may return
  Views,           \* map states a map action can reach
  InitialView,
  Contents,        \* artifact contents, known by their SHA-256
  CaptureOf,       \* the bytes the deterministic renderer draws for a view
  ContentSize,     \* size in bytes of a content
  EvidenceIds,
  RendersMap,      \* manifest: observation_profile rendered-worldcover-v1
  EvaluatesAnswer, \* manifest: answers are evaluated semantically
  EvidenceRequired,\* manifest: scenario.evidence_required
  DerivationIdentity, \* manifest: artifact_identity derivation-sha256-v1
  ToolsConfigured, \* the store was built with a tool executor
  None             \* no request, no run, no artifact, no answer

AnswerTypes == {"answer.submit", "answer.abstain", "answer.request_human_review"}

\* Every map action sets a map state: map.set_view stands for all of them.
Actions ==
       [type : {"map.set_view"}, view : Views]
  \cup [type : {"memory.save_evidence"}, evidence_id : EvidenceIds]
  \cup [type : AnswerTypes, evidence_ids : SUBSET EvidenceIds]
  \cup [type : {"tool.invoke"}, tool_id : Tools]
  \cup [type : {"inadmissible"}]   \* any action the manifest's policy, the
                                   \* map or a check of its payload rules out;
                                   \* its error goes by "policy_rejected"

Renderer == "renderer.terriamap.capture"

\* Who made an artifact and from what; a capture's input is the semantic
\* hash of its state, which no two state versions share.
Lineages == [tool_id : Tools \cup {Renderer}, input : Nat]

\* The content alone names an artifact, or the content and its lineage.
ArtifactIds == Contents \cup (Contents \X Lineages)

Artifacts == [artifact_id : ArtifactIds, content : Contents,
              lineage : Lineages]

\* Outputs carry the content-only identity put_bytes gives them.
ContentArtifacts ==
  [artifact_id : Contents, content : Contents, lineage : Lineages,
   uri_matches : BOOLEAN]

ASSUME StoreAssumption ==
  /\ Requests \subseteq [client_action_id : ClientActionIds,
                         expected_state_version : Nat,
                         action : Actions]
  /\ ToolPlan \in [Tools -> [input_bytes : Nat, max_output_bytes : Nat,
                             metadata_only : BOOLEAN]]
  /\ ToolOutputs \subseteq [input_bytes : Int,
                            artifact : ContentArtifacts \cup {None}]
  /\ InitialView \in Views
  /\ CaptureOf \in [Views -> Contents]
  /\ ContentSize \in [Contents -> Nat]
  /\ RendersMap \in BOOLEAN /\ EvaluatesAnswer \in BOOLEAN
  /\ RendersMap => EvaluatesAnswer
  /\ EvidenceRequired \in BOOLEAN /\ DerivationIdentity \in BOOLEAN
  /\ ToolsConfigured \in BOOLEAN
  /\ None \notin Requests /\ None \notin RunIds
  /\ None \notin ClientActionIds /\ None \notin ContentArtifacts

VARIABLES
  episode,   \* the v2_episodes row: its state_json and mirrored columns
  events,    \* the v2_events rows, by sequence
  results,   \* the v2_action_results rows
  runs,      \* the v2_tool_runs rows, by tool_run_id
  artifacts, \* the v2_artifacts rows
  elapsed,   \* wall time since created_at, saturated at its limit
  pc,        \* where each request thread is, between two transactions
  request,   \* the request it serves
  pending,   \* expired runs its recover_tool_runs read and has not settled
  held,      \* the run it reserved and is invoking
  reply,     \* the answer sent in this step, for the properties
  spent      \* what was really consumed, for the properties

store   == <<episode, events, results, runs, artifacts>>
threads == <<pc, request, pending, held>>
vars    == <<store, elapsed, threads, reply, spent>>

Statuses == {"active", "terminated", "truncated"}

Init ==
  /\ episode = [status |-> "active", state_version |-> 0, step_count |-> 0,
                budget |-> InitialBudget, view |-> InitialView,
                evidence |-> {}, final_answer |-> None,
                evaluation |-> "none"]
  /\ events = << [type |-> "episode.created", state_version |-> 0,
                  client_action_id |-> None],
                 [type |-> "observation.emitted", state_version |-> 0,
                  client_action_id |-> None] >>
  /\ results = {}
  /\ runs = [i \in RunIds |-> [status |-> "absent"]]
  /\ artifacts = {}
  /\ elapsed = 0
  /\ pc = [w \in Workers |-> "idle"]
  /\ request = [w \in Workers |-> None]
  /\ pending = [w \in Workers |-> {}]
  /\ held = [w \in Workers |-> None]
  /\ reply = None
  /\ spent = [k \in BudgetKeys |-> 0]

-------------------------------------------------------------------------------
(* Rows and events *)

Event(type) ==
  [type |-> type, state_version |-> episode'.state_version,
   client_action_id |-> None]

\* Written before the action is applied: carries the version it was sent for.
Accepted(r) ==
  [type |-> "action.accepted", state_version |-> episode.state_version,
   client_action_id |-> r.client_action_id]

\* Mutant: only terminated episodes get their closing event.
ClosingTerminated ==
  IF episode'.status = "terminated" THEN << Event("episode.terminated") >>
  ELSE << >>

\* The event that closes a trace, when this step closed the episode.
Closing ==
  IF episode'.status = "active" THEN << >>
  ELSE << Event(IF episode'.status = "terminated" THEN "episode.terminated"
                                                  ELSE "episode.truncated") >>

Row(r, code, version) ==
  [request |-> r, code |-> code, state_version |-> version]

Recorded(id) == {row \in results : row.request.client_action_id = id}

RunningRuns == {i \in RunIds : runs[i].status = "running"}

\* Mutant: the lease is compared the other way round.
UnexpiredRuns == {i \in RunningRuns : ~runs[i].lease_expired}

ExpiredRuns == {i \in RunningRuns : runs[i].lease_expired}

Settled(status) == status \in {"completed", "failed"}

\* Mutant: a closed episode is only one that was answered.
Answered == episode.status = "terminated"

Closed == episode.status # "active"

\* Mutant: only the bytes are compared, not the metadata.
ConflictsByContent(artifact) ==
  \E other \in artifacts : /\ other.artifact_id = artifact.artifact_id
                           /\ other.content # artifact.content

\* Another row holds the artifact's id with other metadata.
Conflicts(artifact) ==
  \E other \in artifacts :
    other.artifact_id = artifact.artifact_id /\ other # artifact

Size(artifact) == ContentSize[artifact.content]

\* One transaction consumes the charge; history keeps it unclamped.
Consume(charge) == spent' = [k \in BudgetKeys |-> spent[k] + charge[k]]

StepCharge == [NoCharge EXCEPT !["steps"] = 1]

\* Mutant: the budget check overrides a terminal answer.
AdvancedTruncating(e, charge) ==
  LET budget == UpdateBudget(episode.budget, elapsed, charge)
  IN  [e EXCEPT !.state_version = @ + 1,
                !.step_count = @ + 1,
                !.budget = budget,
                !.status = IF Exhausted(budget) THEN "truncated" ELSE @]

\* The state after an action that changed it to e: versions and counters
\* advance, and an active episode with no step or no time left is truncated.
Advanced(e, charge) ==
  LET budget == UpdateBudget(episode.budget, elapsed, charge)
  IN  [e EXCEPT !.state_version = @ + 1,
                !.step_count = @ + 1,
                !.budget = budget,
                !.status = IF @ = "active" /\ Exhausted(budget)
                           THEN "truncated" ELSE @]

-------------------------------------------------------------------------------
(* Threads *)

\* The thread answers and is done; the answer repeats a settled row, or is an
\* error that no row keeps.
Finish(w) ==
  /\ pc' = [pc EXCEPT ![w] = "idle"]
  /\ request' = [request EXCEPT ![w] = None]
  /\ pending' = [pending EXCEPT ![w] = {}]
  /\ held' = [held EXCEPT ![w] = None]

Answer(w, r, code, version) ==
  /\ Finish(w)
  /\ reply' = Row(r, code, version)

\* An error raised before anything was written: the transaction rolls back.
Refuse(w, code) ==
  /\ Answer(w, request[w], code, episode.state_version)
  /\ UNCHANGED <<store, elapsed, spent>>

\* step() begins: recover_tool_runs reads the running runs of the episode and
\* keeps those whose lease is over.
StartStep(w, r) ==
  /\ pc[w] = "idle"
  /\ pc' = [pc EXCEPT ![w] = IF ExpiredRuns = {} THEN "step" ELSE "recover"]
  /\ request' = [request EXCEPT ![w] = r]
  /\ pending' = [pending EXCEPT ![w] = ExpiredRuns]
  /\ reply' = None
  /\ UNCHANGED <<store, elapsed, held, spent>>

\* The thread is gone: a crash or restart of its process, or a transaction
\* that could not take the write lock in 30 s.  SQLite rolls back.
Abandon(w) ==
  /\ pc[w] # "idle"
  /\ Finish(w)
  /\ reply' = None
  /\ UNCHANGED <<store, elapsed, spent>>

-------------------------------------------------------------------------------
(* _finalize_tool *)

\* The artifact under the identity scheme of the manifest.
Identified(a) ==
  [artifact_id |-> IF DerivationIdentity THEN <<a.content, a.lineage>>
                                         ELSE a.artifact_id,
   content |-> a.content, lineage |-> a.lineage]

\* Mutant: a negative input count passes.
OutputErrorUnsigned(run, out) ==
  IF \/ out.input_bytes > run.input_bytes_reserved
     \/ (out.artifact = None) # run.metadata_only
    THEN "invalid_tool_output"
  ELSE IF out.artifact # None /\ Conflicts(Identified(out.artifact))
    THEN "artifact_metadata_conflict"
  ELSE "none"

\* The checks of a returned output against its reservation, in order.
OutputError(run, out) ==
  IF \/ out.input_bytes < 0
     \/ out.input_bytes > run.input_bytes_reserved
     \/ (out.artifact = None) # run.metadata_only
    THEN "invalid_tool_output"
  ELSE IF out.artifact = None
    THEN "none"
  ELSE IF Size(out.artifact) > run.output_bytes_reserved
    THEN "tool_output_too_large"
  ELSE IF DerivationIdentity /\ ~out.artifact.uri_matches
    THEN "invalid_tool_output"
  ELSE IF Conflicts(Identified(out.artifact))
    THEN "artifact_metadata_conflict"
  ELSE "none"

ToolCharge(out, code) ==
  [StepCharge EXCEPT
     !["tool_calls"] = 1,
     !["input_bytes"] = IF code = "none" THEN out.input_bytes ELSE 0,
     !["artifact_bytes"] = IF code = "none" /\ out.artifact # None
                           THEN Size(out.artifact) ELSE 0]

RunStatus(code) == IF code = "none" THEN "completed" ELSE "failed"

\* The transaction that settles running run i with code "none" and output
\* out, or with an error and no output.
SettleRun(i, out, code) ==
  LET run    == runs[i]
      charge == ToolCharge(out, code)
      made   == IF code = "none" /\ out.artifact # None
                THEN {Identified(out.artifact)} ELSE {}
      row    == IF code = "none" THEN "success" ELSE code
  IN  /\ episode' = Advanced(episode, charge)
      /\ Consume(charge)
      /\ artifacts' = artifacts \cup made
      /\ events' = events
           \o << Event(IF code = "none" THEN "action.completed"
                                        ELSE "action.failed") >>
           \o (IF made = {} THEN << >> ELSE << Event("artifact.created") >>)
           \o << Event("observation.emitted") >>
           \o Closing
      /\ results' = results
           \cup {Row(run.request, row, episode'.state_version)}
      /\ runs' = [runs EXCEPT ![i].status = RunStatus(code)]
      /\ UNCHANGED elapsed

\* The episode moved under a running run: _finalize_tool raises RuntimeError,
\* nothing is written and the thread is gone, as in Abandon.
EpisodeMoved(i) == episode.state_version # runs[i].expected_state_version

\* recover_tool_runs settles one of the runs it found expired, unless another
\* thread did so in between.
Recover(w) ==
  /\ pc[w] = "recover"
  /\ \E i \in pending[w] :
       \/ /\ runs[i].status = "running" /\ ~EpisodeMoved(i)
          /\ SettleRun(i, None, "tool_interrupted")
          /\ pending' = [pending EXCEPT ![w] = @ \ {i}]
          /\ pc' = [pc EXCEPT ![w] =
                      IF pending[w] = {i} THEN "step" ELSE @]
          /\ reply' = None
          /\ UNCHANGED <<request, held>>
       \/ /\ runs[i].status # "running"
          /\ pending' = [pending EXCEPT ![w] = @ \ {i}]
          /\ pc' = [pc EXCEPT ![w] =
                      IF pending[w] = {i} THEN "step" ELSE @]
          /\ reply' = None
          /\ UNCHANGED <<store, elapsed, request, held, spent>>

\* The invoked tool returned out or raised code, and its thread settles the
\* run it holds.
FinalizeTool(w, out, code) ==
  LET i == held[w] IN
  /\ pc[w] = "invoke"
  /\ runs[i].status = "running" /\ ~EpisodeMoved(i)
  /\ LET verdict == IF code # "none" THEN code ELSE OutputError(runs[i], out)
     IN  /\ SettleRun(i, out, verdict)
         /\ Answer(w, runs[i].request,
                   IF verdict = "none" THEN "success" ELSE verdict,
                   episode'.state_version)

\* Mutant: the late thread answers what its own tool returned.
LateFinalizeOwn(w) ==
  /\ pc[w] = "invoke"
  /\ runs[held[w]].status # "running"
  /\ Answer(w, runs[held[w]].request, "success", episode.state_version)
  /\ UNCHANGED <<store, elapsed, spent>>

\* A late answer: the run was settled as interrupted meanwhile.  The output is
\* dropped and the recorded row is the answer.
LateFinalize(w) ==
  LET i == held[w] IN
  /\ pc[w] = "invoke"
  /\ runs[i].status # "running"
  /\ \E row \in Recorded(runs[i].request.client_action_id) :
       Answer(w, row.request, row.code, row.state_version)
  /\ UNCHANGED <<store, elapsed, spent>>

-------------------------------------------------------------------------------
(* step() and _tool_step() *)

IsToolCall(r) == r.action.type = "tool.invoke" /\ ToolsConfigured

\* A settled action id: the same request gets the recorded row again, another
\* request is refused.
Retry(w) ==
  LET r == request[w] IN
  /\ pc[w] = "step"
  /\ \E row \in Recorded(r.client_action_id) :
       /\ row.request = r
       /\ Answer(w, r, row.code, row.state_version)
  /\ UNCHANGED <<store, elapsed, spent>>

ReusedId(w) ==
  /\ pc[w] = "step"
  /\ \E row \in Recorded(request[w].client_action_id) :
       row.request # request[w]
  /\ Refuse(w, "idempotency_conflict")

\* While a run is in flight nothing else may step the episode; only a tool
\* call is told that its own id is the one in flight with other arguments.
Busy(w) ==
  LET r == request[w] IN
  /\ pc[w] = "step"
  /\ Recorded(r.client_action_id) = {}
  /\ \E i \in RunningRuns :
       Refuse(w, IF /\ IsToolCall(r)
                    /\ runs[i].request.client_action_id = r.client_action_id
                    /\ runs[i].request # r
                 THEN "idempotency_conflict" ELSE "tool_in_progress")

\* Mutant: idempotency by request instead of by action id.
FreshRequest(w) ==
  /\ pc[w] = "step"
  /\ \A row \in results : row.request # request[w]
  /\ RunningRuns = {}

\* Mutant: nothing looks for a run in flight.
FreshDespiteRun(w) ==
  /\ pc[w] = "step"
  /\ Recorded(request[w].client_action_id) = {}

\* Past the first checks of both transactions.
Fresh(w) ==
  /\ pc[w] = "step"
  /\ Recorded(request[w].client_action_id) = {}
  /\ RunningRuns = {}

StaleVersion(w) ==
  /\ Fresh(w)
  /\ request[w].expected_state_version # episode.state_version
  /\ Refuse(w, "state_version_conflict")

\* Mutant: the version is not compared.
CurrentAnyVersion(w) == Fresh(w)

Current(w) ==
  /\ Fresh(w)
  /\ request[w].expected_state_version = episode.state_version

-------------------------------------------------------------------------------
(* Tool calls: nothing is recorded before the reservation *)

WithinReservation(plan) ==
  /\ Remaining(episode.budget, "steps") >= 1
  /\ Remaining(episode.budget, "tool_calls") >= 1
  /\ elapsed < Limit["wall_time_ms"]
  /\ plan.input_bytes <= Remaining(episode.budget, "input_bytes")
  /\ plan.max_output_bytes <= Remaining(episode.budget, "artifact_bytes")

\* The episode is closed, or the manifest or prepare_tool turns the call down
\* (its verdict depends on arguments and assets this model does not hold), or
\* the budget cannot cover what the plan reserves.
ToolRejected(w) ==
  LET plan == ToolPlan[request[w].action.tool_id] IN
  /\ Current(w) /\ IsToolCall(request[w])
  /\ \/ Closed /\ Refuse(w, "episode_closed")
     \/ ~Closed /\ Refuse(w, "policy_rejected")
     \/ /\ ~Closed /\ ~WithinReservation(plan)
        /\ Refuse(w, "tool_budget_exceeded")

\* The reservation transaction; the thread then invokes the tool unlocked.
ReserveTool(w) ==
  LET r    == request[w]
      plan == ToolPlan[r.action.tool_id]
      free == {i \in RunIds : runs[i].status = "absent"}
      i    == CHOOSE j \in free : TRUE
  IN
  /\ Current(w) /\ IsToolCall(r)
  /\ ~Closed
  /\ WithinReservation(plan)
  /\ free # {}
  /\ runs' = [runs EXCEPT ![i] =
                [status |-> "running", request |-> r,
                 lease_expired |-> FALSE,
                 input_bytes_reserved |-> plan.input_bytes,
                 output_bytes_reserved |-> plan.max_output_bytes,
                 metadata_only |-> plan.metadata_only,
                 expected_state_version |-> r.expected_state_version]]
  /\ events' = Append(events, Accepted(r))
  /\ pc' = [pc EXCEPT ![w] = "invoke"]
  /\ held' = [held EXCEPT ![w] = i]
  /\ reply' = None
  /\ UNCHANGED <<episode, results, artifacts, elapsed, request, pending, spent>>

-------------------------------------------------------------------------------
(* Every other action: apply_action and its commit *)

\* The error apply_action raises, if any, in the order of its checks.
DomainError(action) ==
  IF Closed
    THEN "episode_closed"
  ELSE IF action.type \in {"inadmissible", "tool.invoke"}
    THEN "policy_rejected"
  ELSE IF /\ action.type = "memory.save_evidence"
          /\ action.evidence_id \in episode.evidence
    THEN "evidence_conflict"
  ELSE IF /\ action.type = "answer.submit"
          /\ EvidenceRequired /\ action.evidence_ids = {}
    THEN "evidence_required"
  ELSE IF /\ action.type \in AnswerTypes
          /\ ~(action.evidence_ids \subseteq episode.evidence)
    THEN "unknown_evidence"
  ELSE "none"

\* What the action changes in the state besides versions and budget.
Applied(r) ==
  CASE r.action.type = "map.set_view" ->
         [episode EXCEPT !.view = r.action.view]
    [] r.action.type = "memory.save_evidence" ->
         [episode EXCEPT !.evidence = @ \cup {r.action.evidence_id}]
    [] r.action.type \in AnswerTypes ->
         [episode EXCEPT !.final_answer = r.client_action_id,
                         !.status = "terminated"]

Renders(r) == RendersMap /\ r.action.type = "map.set_view"

\* The capture of the next state: same view, same bytes; lineage of its own.
Capture(r) ==
  [artifact_id |-> CaptureOf[r.action.view],
   content     |-> CaptureOf[r.action.view],
   lineage     |-> [tool_id |-> Renderer,
                    input |-> episode.state_version + 1]]

\* Mutant: the capture is compared with the limit, not with what remains.
FitsArtifactLimit(artifact) == Size(artifact) <= Limit["artifact_bytes"]

FitsArtifactBudget(artifact) ==
  Size(artifact) <= Remaining(episode.budget, "artifact_bytes")

\* A domain error inside the transaction is recorded: the id now answers with
\* this error for good, and the state did not change.
RecordFailure(w, code) ==
  LET r == request[w] IN
  /\ UNCHANGED <<episode, runs, artifacts, elapsed, spent>>
  /\ events' = events \o << Accepted(r), Event("action.failed") >>
  /\ results' = results \cup {Row(r, code, episode.state_version)}
  /\ Answer(w, r, code, episode.state_version)

\* apply_action refused, the renderer is missing or failed, or its capture
\* does not fit the artifact budget.
RejectStep(w) ==
  LET r == request[w] IN
  /\ Current(w) /\ ~IsToolCall(r)
  /\ \/ /\ DomainError(r.action) # "none"
        /\ RecordFailure(w, DomainError(r.action))
     \/ /\ DomainError(r.action) = "none" /\ Renders(r)
        /\ RecordFailure(w, "renderer_unavailable")
     \/ /\ DomainError(r.action) = "none" /\ Renders(r)
        /\ ~FitsArtifactBudget(Capture(r))
        /\ RecordFailure(w, "artifact_budget_exceeded")

\* _register_artifact refuses the capture after the errors of the action were
\* caught: the transaction rolls back and the answer is recorded nowhere.
CaptureConflict(w) ==
  LET r == request[w] IN
  /\ Current(w) /\ ~IsToolCall(r)
  /\ DomainError(r.action) = "none" /\ Renders(r)
  /\ FitsArtifactBudget(Capture(r))
  /\ Conflicts(Capture(r))
  /\ Refuse(w, "artifact_metadata_conflict")

\* The verdict of the evaluator on an answer, when the task has one.
Verdicts(r) ==
  IF EvaluatesAnswer /\ r.action.type \in AnswerTypes
  THEN {"completed", "failed"} ELSE {"none"}

CompleteStep(w) ==
  LET r      == request[w]
      made   == IF Renders(r) THEN {Capture(r)} ELSE {}
      charge == [StepCharge EXCEPT !["artifact_bytes"] =
                   IF Renders(r) THEN Size(Capture(r)) ELSE 0]
  IN
  /\ Current(w) /\ ~IsToolCall(r)
  /\ DomainError(r.action) = "none"
  /\ Renders(r) => FitsArtifactBudget(Capture(r)) /\ ~Conflicts(Capture(r))
  /\ \E verdict \in Verdicts(r) :
       /\ episode' = [Advanced(Applied(r), charge) EXCEPT !.evaluation = verdict]
       /\ events' = events
            \o << Accepted(r), Event("action.completed") >>
            \o (IF Renders(r) THEN << Event("artifact.created") >> ELSE << >>)
            \o (IF r.action.type = "memory.save_evidence"
                THEN << Event("evidence.saved") >> ELSE << >>)
            \o << Event("observation.emitted") >>
            \o (IF verdict = "none" THEN << >>
                ELSE << Event(IF verdict = "completed"
                              THEN "evaluation.completed"
                              ELSE "evaluation.failed") >>)
            \o Closing
  /\ artifacts' = artifacts \cup made
  /\ results' = results \cup {Row(r, "success", episode'.state_version)}
  /\ Consume(charge)
  /\ Answer(w, r, "success", episode'.state_version)
  /\ UNCHANGED <<runs, elapsed>>

-------------------------------------------------------------------------------
(* Time *)

\* Wall time runs on up to the limit of the episode.
PassTime ==
  /\ elapsed < Limit["wall_time_ms"]
  /\ elapsed' = elapsed + 1
  /\ reply' = None
  /\ UNCHANGED <<store, threads, spent>>

\* LEASE_SECONDS went by since run i was reserved.
ExpireLease(i) ==
  /\ runs[i].status = "running" /\ ~runs[i].lease_expired
  /\ runs' = [runs EXCEPT ![i].lease_expired = TRUE]
  /\ reply' = None
  /\ UNCHANGED <<episode, events, results, artifacts, elapsed, threads, spent>>

-------------------------------------------------------------------------------
StepTransaction(w) ==
  \/ Retry(w) \/ ReusedId(w) \/ Busy(w) \/ StaleVersion(w)
  \/ ToolRejected(w) \/ ReserveTool(w)
  \/ RejectStep(w) \/ CaptureConflict(w) \/ CompleteStep(w)

ReturnTool(w) ==
  \/ \E out \in ToolOutputs : FinalizeTool(w, out, "none")
  \/ FinalizeTool(w, None, "tool_failed")
  \/ LateFinalize(w)

Next ==
  \/ \E w \in Workers, r \in Requests : StartStep(w, r)
  \/ \E w \in Workers : \/ Recover(w) \/ StepTransaction(w) \/ ReturnTool(w)
                        \/ Abandon(w)
  \/ PassTime
  \/ \E i \in RunIds : ExpireLease(i)

Spec == Init /\ [][Next]_vars

\* Time passes, clients keep stepping the episode, a thread that was not
\* abandoned answers, and recoveries are not all abandoned forever.  Nothing
\* else settles an abandoned run: the store has no background job.
Fairness ==
  /\ \A i \in RunIds : WF_vars(ExpireLease(i))
  /\ WF_vars(\E w \in Workers, r \in Requests : StartStep(w, r))
  /\ \A w \in Workers :
       /\ SF_vars(Recover(w))
       /\ WF_vars(StepTransaction(w))
       /\ WF_vars(ReturnTool(w))

FairSpec == Spec /\ Fairness
=============================================================================
