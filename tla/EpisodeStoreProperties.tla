------------------------ MODULE EpisodeStoreProperties ------------------------
(***************************************************************************)
(* What EpisodeStore must guarantee.                                       *)
(***************************************************************************)
EXTENDS EpisodeStore

Codes ==
  {"success", "episode_closed", "policy_rejected", "evidence_conflict",
   "evidence_required", "unknown_evidence", "renderer_unavailable",
   "artifact_budget_exceeded", "tool_failed", "tool_interrupted",
   "invalid_tool_output", "tool_output_too_large",
   "artifact_metadata_conflict"}

Episodes ==
  [status : Statuses, state_version : Nat, step_count : Nat,
   budget : Budget, view : Views, evidence : SUBSET EvidenceIds,
   final_answer : ClientActionIds \cup {None},
   evaluation : {"none", "completed", "failed"}]

EventTypes ==
  {"episode.created", "action.accepted", "action.completed", "action.failed",
   "artifact.created", "evidence.saved", "observation.emitted",
   "evaluation.completed", "evaluation.failed", "episode.terminated",
   "episode.truncated"}

Events ==
  [type : EventTypes, state_version : Nat,
   client_action_id : ClientActionIds \cup {None}]

Rows == [request : Requests, code : Codes, state_version : Nat]

Runs ==
  [status : {"running", "completed", "failed"}, request : Requests,
   lease_expired : BOOLEAN, input_bytes_reserved : Nat,
   output_bytes_reserved : Nat, metadata_only : BOOLEAN,
   expected_state_version : Nat]

NoRun == [status |-> "absent"]

\* Errors told to a client that no row keeps.
TransientCodes ==
  {"idempotency_conflict", "tool_in_progress", "state_version_conflict",
   "episode_closed", "policy_rejected", "tool_budget_exceeded",
   "artifact_metadata_conflict"}

\* Every table and every thread holds rows of its type, and the events of the
\* trace have the form create_event gives them (core/schemas.py).
TypeOK ==
  /\ episode \in Episodes
  /\ events \in Seq(Events)
  /\ results \in SUBSET Rows
  /\ runs \in [RunIds -> Runs \cup {NoRun}]
  /\ artifacts \in SUBSET Artifacts
  /\ elapsed \in 0 .. Limit["wall_time_ms"]
  /\ pc \in [Workers -> {"idle", "recover", "step", "invoke"}]
  /\ request \in [Workers -> Requests \cup {None}]
  /\ pending \in [Workers -> SUBSET RunIds]
  /\ held \in [Workers -> RunIds \cup {None}]
  /\ spent \in [BudgetKeys -> Nat]

-------------------------------------------------------------------------------
(* Reservations *)

\* A thread invokes a tool without any lock.  Until its run is settled no
\* other step may move the episode, take a second reservation or consume the
\* budget the run reserved: the version check of _finalize_tool never fails
\* and a late output that fits its reservation fits the budget.
ReservationHolds ==
  \A i \in RunningRuns :
    /\ RunningRuns = {i}
    /\ episode.status = "active"
    /\ episode.state_version = runs[i].expected_state_version
    /\ Remaining(episode.budget, "steps") >= 1
    /\ Remaining(episode.budget, "tool_calls") >= 1
    /\ runs[i].input_bytes_reserved
         <= Remaining(episode.budget, "input_bytes")
    /\ runs[i].output_bytes_reserved
         <= Remaining(episode.budget, "artifact_bytes")

\* An action id has at most one result row and at most one tool run, whatever
\* retries, reuses and recoveries cross; a settled run has its row and a
\* running one has none.  The primary key of v2_action_results never fires
\* and a tool never runs twice for one action.
DecidedOnce ==
  /\ \A a, b \in results :
       a.request.client_action_id = b.request.client_action_id => a = b
  /\ \A i, j \in RunIds :
       /\ runs[i].status # "absent" /\ runs[j].status # "absent"
       /\ runs[i].request.client_action_id = runs[j].request.client_action_id
       => i = j
  /\ \A i \in RunIds :
       LET rows == Recorded(runs[i].request.client_action_id) IN
       /\ runs[i].status = "running" => rows = {}
       /\ Settled(runs[i].status) =>
            \E row \in rows : /\ row.request = runs[i].request
                              /\ (row.code = "success")
                                   = (runs[i].status = "completed")

\* The stored budget is what the episode really consumed: the clamp of
\* budgets._counter never cuts a charge, so no step is free.
BudgetExact ==
  \A k \in BudgetKeys \ {"wall_time_ms"} : episode.budget[k] = spent[k]

-------------------------------------------------------------------------------
(* The trace *)

AcceptedAt == {n \in 1 .. Len(events) : events[n].type = "action.accepted"}

ClosingAt == {n \in 1 .. Len(events) :
                events[n].type \in {"episode.terminated", "episode.truncated"}}

\* The trace reads as one action at a time: an accepted action is followed by
\* its own completion or failure and by nothing else, except the last one
\* while its tool runs; versions never go back (structural_replay) and the
\* episode is closed by exactly one event.
TraceOrdered ==
  /\ \A n \in AcceptedAt :
       IF n = Len(events)
       THEN \E i \in RunningRuns :
              runs[i].request.client_action_id = events[n].client_action_id
       ELSE events[n + 1].type \in {"action.completed", "action.failed"}
  /\ \A n \in 1 .. Len(events) - 1 :
       events[n].state_version <= events[n + 1].state_version
  /\ Cardinality(ClosingAt) = (IF episode.status = "active" THEN 0 ELSE 1)

\* A closed episode passes the coverage checks of the execution replay
\* (validate_snapshot): no run is left, accepted events and result rows name
\* the same ids once each, and the runs are those of the recorded tool calls,
\* with the same outcome.
ReplayCovers ==
  episode.status # "active" =>
    /\ RunningRuns = {}
    /\ \A m, n \in AcceptedAt :
         events[m].client_action_id = events[n].client_action_id => m = n
    /\ {events[n].client_action_id : n \in AcceptedAt}
         = {row.request.client_action_id : row \in results}
    /\ ToolsConfigured =>
         \A row \in results : row.request.action.type = "tool.invoke" =>
           \E i \in RunIds :
             /\ runs[i].status = IF row.code = "success" THEN "completed"
                                                         ELSE "failed"
             /\ runs[i].request = row.request

\* Both: what the structural and the execution replay demand of a trace.
TraceReplays == TraceOrdered /\ ReplayCovers

-------------------------------------------------------------------------------
(* What clients are told *)

\* An answer that is not transient repeats a durable row, also when the tool
\* of a client came back after its lease: no client hears two outcomes.
AnswersAreDurable ==
  reply # None => \/ reply \in results
                  \/ reply.code \in TransientCodes

\* Decisions are never taken back: rows, settled runs and artifacts stay as
\* they were written, and a closed episode does not change any more.
DecisionsStand ==
  [][/\ results \subseteq results'
     /\ artifacts \subseteq artifacts'
     /\ \A i \in RunIds : Settled(runs[i].status) => runs'[i] = runs[i]
     /\ episode.status # "active" => episode' = episode]_store

\* An artifact id names one content with one provenance for good.
ProvenanceUnique ==
  \A a, b \in artifacts : a.artifact_id = b.artifact_id => a = b

\* An episode is evaluated when and only when its one answer is accepted, and
\* that answer's row says so.
EvaluationFollowsAnswer ==
  /\ (episode.final_answer # None) <=> (episode.status = "terminated")
  /\ (episode.evaluation # "none")
       <=> (EvaluatesAnswer /\ episode.final_answer # None)
  /\ episode.final_answer # None =>
       \E row \in Recorded(episode.final_answer) :
         /\ row.code = "success"
         /\ row.state_version = episode.state_version

\* docs/harness-api-v2.md:133, "Policy and domain failures append one
\* action.accepted and one action.failed event; retrying the same request
\* does not append duplicates": an answered action.failed code has its row and
\* its two events.  Not so for a capture whose bytes an earlier capture had.
FailuresRecorded ==
  reply # None /\ reply.code = "artifact_metadata_conflict" =>
    /\ reply \in results
    /\ \E n \in 1 .. Len(events) - 1 :
         /\ events[n].type = "action.accepted"
         /\ events[n].client_action_id = reply.request.client_action_id
         /\ events[n + 1].type = "action.failed"

-------------------------------------------------------------------------------
(* Progress *)

\* No reservation blocks an episode for ever: a running run is settled by the
\* thread that holds it or, when that thread is gone, by the recovery of a
\* later request once its lease is over.
ReservationSettles ==
  \A i \in RunIds :
    (runs[i].status = "running") ~> Settled(runs[i].status)

-------------------------------------------------------------------------------
(* Refinement *)

Atomic == INSTANCE AtomicEpisode WITH
  version  <- episode.state_version,
  status   <- episode.status,
  inflight <- {runs[i].request : i \in RunningRuns},
  decided  <- results

\* The threads, leases and recoveries implement the atomic episode.
AtomicEpisodeSpec == Atomic!AtomicSpec
=============================================================================
