-------------------------- MODULE EpisodeStoreProofs --------------------------
(***************************************************************************)
(* Type correctness of EpisodeStore for every number of threads, runs,     *)
(* requests, tools and contents, and every limit; then: reservations hold, *)
(* actions are decided once, the budget is exact, and EpisodeStore         *)
(* implements AtomicEpisode.  For these one lemma sorts the steps of Next  *)
(* into five kinds; each part of the invariant is then shown kind by kind. *)
(*                                                                         *)
(* Last: the trace replays, answers are durable, and an episode is         *)
(* evaluated when it is answered.  A step adds to the trace an accepted    *)
(* action, or what became of the one that was accepted last, or both.  So  *)
(* what has to be known of the trace is whether its last event is an       *)
(* accepted action: it is while a tool runs, and no other action is        *)
(* accepted then.                                                          *)
(***************************************************************************)
EXTENDS EpisodeStoreProperties, SequenceTheorems, FiniteSetTheorems, TLAPS

\* What a thread relies on between two transactions.
ThreadsOK ==
  \A w \in Workers :
    /\ pc[w] \in {"step", "recover"} => request[w] \in Requests
    /\ pc[w] = "invoke" => /\ held[w] \in RunIds
                           /\ runs[held[w]].status # "absent"

TypeInv == TypeOK /\ ThreadsOK

FailureCodes == Codes \ {"success"}

-------------------------------------------------------------------------------
(* Budgets *)

\* A charge is a natural number for every counter.
LEMMA ClampType ==
  ASSUME NEW limit \in Nat, NEW used \in Int
  PROVE  /\ Clamp(limit, used) \in 0 .. limit
         /\ used \in 0 .. limit => Clamp(limit, used) = used
BY DEF Clamp

LEMMA UpdateBudgetType ==
  ASSUME NEW budget \in Budget, NEW e \in Int, NEW charge \in Budget
  PROVE  UpdateBudget(budget, e, charge) \in Budget
<1>1. ASSUME NEW k \in BudgetKeys
      PROVE  Clamp(Limit[k], IF k = "wall_time_ms" THEN e
                             ELSE budget[k] + charge[k]) \in Nat
  <2> DEFINE used == IF k = "wall_time_ms" THEN e ELSE budget[k] + charge[k]
  <2>1. Limit[k] \in Nat /\ used \in Int
    BY LimitAssumption DEF Budget
  <2> QED
    BY <2>1, ClampType
<1> QED
  BY <1>1 DEF UpdateBudget, Budget

LEMMA ChargeTypes ==
  /\ NoCharge \in Budget
  /\ StepCharge \in Budget
  /\ InitialBudget \in Budget
BY DEF NoCharge, StepCharge, InitialBudget, Budget, BudgetKeys

\* Advancing an episode keeps its type.
LEMMA AdvancedType ==
  ASSUME TypeOK, NEW e \in Episodes, NEW charge \in Budget
  PROVE  Advanced(e, charge) \in Episodes
<1> DEFINE budget == UpdateBudget(episode.budget, elapsed, charge)
           status == IF e.status = "active" /\ Exhausted(budget)
                     THEN "truncated" ELSE e.status
<1>1. budget \in Budget
  BY UpdateBudgetType, LimitAssumption DEF TypeOK, Episodes, BudgetKeys
<1>2. status \in Statuses
  BY DEF Episodes, Statuses
<1>3. e.state_version + 1 \in Nat /\ e.step_count + 1 \in Nat
  BY DEF Episodes
<1>4. Advanced(e, charge) =
        [e EXCEPT !.state_version = @ + 1, !.step_count = @ + 1,
                  !.budget = budget, !.status = status]
  BY DEF Advanced
<1> HIDE DEF budget, status
<1> QED
  BY <1>1, <1>2, <1>3, <1>4, Zenon DEF Episodes

-------------------------------------------------------------------------------
(* Events and rows *)

LEMMA EventType ==
  ASSUME episode' \in Episodes, NEW type \in EventTypes
  PROVE  << Event(type) >> \in Seq(Events)
<1>1. Event(type) \in Events
  BY DEF Event, Events, Episodes
<1> QED
  BY <1>1

LEMMA ClosingType ==
  ASSUME episode' \in Episodes
  PROVE  Closing \in Seq(Events)
<1>1. << Event("episode.terminated") >> \in Seq(Events)
  BY EventType DEF EventTypes
<1>2. << Event("episode.truncated") >> \in Seq(Events)
  BY EventType DEF EventTypes
<1> QED
  BY <1>1, <1>2 DEF Closing

LEMMA AcceptedType ==
  ASSUME TypeOK, NEW r \in Requests
  PROVE  Accepted(r) \in Events
BY StoreAssumption DEF TypeOK, Accepted, Events, EventTypes, Episodes

LEMMA RowType ==
  ASSUME NEW r \in Requests, NEW code \in Codes, NEW version \in Nat
  PROVE  Row(r, code, version) \in Rows
BY DEF Row, Rows

\* What a tool may return, and the artifact it becomes.
LEMMA OutputType ==
  ASSUME NEW out \in ToolOutputs
  PROVE  /\ out.input_bytes \in Int
         /\ out.artifact \in ContentArtifacts \cup {None}
BY StoreAssumption

LEMMA IdentifiedType ==
  ASSUME NEW a \in ContentArtifacts
  PROVE  Identified(a) \in Artifacts
<1>1. a.content \in Contents /\ a.lineage \in Lineages /\ a.artifact_id \in Contents
  BY DEF ContentArtifacts
<1>2. (IF DerivationIdentity THEN <<a.content, a.lineage>> ELSE a.artifact_id)
        \in ArtifactIds
  BY <1>1 DEF ArtifactIds
<1> QED
  BY <1>1, <1>2 DEF Identified, Artifacts

LEMMA SizeType ==
  ASSUME NEW a \in ContentArtifacts \cup Artifacts
  PROVE  Size(a) \in Nat
BY StoreAssumption DEF Size, ContentArtifacts, Artifacts

\* An output without an error is within its reservation.
LEMMA GoodOutput ==
  ASSUME NEW run \in Runs, NEW out \in ToolOutputs,
         OutputError(run, out) = "none"
  PROVE  /\ out.input_bytes \in Nat
         /\ out.input_bytes <= run.input_bytes_reserved
         /\ out.artifact # None => Size(out.artifact) <= run.output_bytes_reserved
         /\ out.artifact # None => ~Conflicts(Identified(out.artifact))
<1>1. /\ out.input_bytes \in Int
      /\ run.input_bytes_reserved \in Nat
      /\ run.output_bytes_reserved \in Nat
      /\ out.artifact # None => Size(out.artifact) \in Nat
  BY OutputType, SizeType DEF Runs
<1> QED
  BY <1>1 DEF OutputError

LEMMA ToolChargeType ==
  ASSUME NEW out \in ToolOutputs \cup {None}, NEW code,
         code = "none" => out \in ToolOutputs /\ out.input_bytes \in Nat
  PROVE  ToolCharge(out, code) \in Budget
<1> DEFINE input == IF code = "none" THEN out.input_bytes ELSE 0
           output == IF code = "none" /\ out.artifact # None
                     THEN Size(out.artifact) ELSE 0
<1>1. input \in Nat /\ output \in Nat /\ 1 \in Nat
  BY OutputType, SizeType
<1>2. ToolCharge(out, code) =
        [StepCharge EXCEPT !["tool_calls"] = 1, !["input_bytes"] = input,
                           !["artifact_bytes"] = output]
  BY DEF ToolCharge
<1> HIDE DEF input, output
<1> QED
  BY <1>1, <1>2, ChargeTypes, Zenon DEF Budget, BudgetKeys

-------------------------------------------------------------------------------
(* Type correctness *)

LEMMA ConsumeType ==
  ASSUME TypeOK, NEW charge \in Budget, Consume(charge)
  PROVE  spent' \in [BudgetKeys -> Nat]
<1>1. ASSUME NEW k \in BudgetKeys PROVE spent[k] + charge[k] \in Nat
  BY DEF TypeOK, Budget
<1> QED
  BY <1>1 DEF Consume

StoreTyped ==
  /\ episode \in Episodes
  /\ events \in Seq(Events)
  /\ results \in SUBSET Rows
  /\ runs \in [RunIds -> Runs \cup {NoRun}]
  /\ artifacts \in SUBSET Artifacts
  /\ elapsed \in 0 .. Limit["wall_time_ms"]
  /\ spent \in [BudgetKeys -> Nat]

ThreadsTyped ==
  /\ pc \in [Workers -> {"idle", "recover", "step", "invoke"}]
  /\ request \in [Workers -> Requests \cup {None}]
  /\ pending \in [Workers -> SUBSET RunIds]
  /\ held \in [Workers -> RunIds \cup {None}]

LEMMA TypeParts == TypeOK <=> StoreTyped /\ ThreadsTyped
BY DEF TypeOK, StoreTyped, ThreadsTyped

\* A run that is not absent is a row of the table.
LEMMA RunType ==
  ASSUME TypeOK, NEW i \in RunIds, runs[i].status # "absent"
  PROVE  runs[i] \in Runs
BY DEF TypeOK, NoRun

\* What a settling transaction is called with: an output that passed the
\* checks, or an error.
Settlement(i, out, code) ==
  /\ code \in FailureCodes \cup {"none"}
  /\ out \in ToolOutputs \cup {None}
  /\ code = "none" => /\ out \in ToolOutputs
                      /\ OutputError(runs[i], out) = "none"

LEMMA SettleRunType ==
  ASSUME TypeOK, NEW i \in RunIds, runs[i].status = "running",
         NEW out, NEW code, Settlement(i, out, code), SettleRun(i, out, code)
  PROVE  StoreTyped'
<1> DEFINE run == runs[i]
           made == IF code = "none" /\ out.artifact # None
                   THEN {Identified(out.artifact)} ELSE {}
           row == IF code = "none" THEN "success" ELSE code
<1>1. run \in Runs
  BY RunType
<1>2. ToolCharge(out, code) \in Budget
  BY <1>1, GoodOutput, ToolChargeType DEF Settlement
<1>3. episode' \in Episodes
  BY <1>2, AdvancedType DEF SettleRun, TypeOK
<1>4. spent' \in [BudgetKeys -> Nat]
  BY <1>2, ConsumeType DEF SettleRun
<1>5. made \in SUBSET Artifacts
  BY OutputType, IdentifiedType DEF Settlement
<1>6. artifacts' \in SUBSET Artifacts
  BY <1>5 DEF SettleRun, TypeOK
<1>7. results' \in SUBSET Rows
  <2>1. row \in Codes
    BY DEF Settlement, FailureCodes, Codes
  <2>2. run.request \in Requests /\ episode'.state_version \in Nat
    BY <1>1, <1>3 DEF Runs, Episodes
  <2>3. Row(run.request, row, episode'.state_version) \in Rows
    BY <2>1, <2>2, RowType
  <2> QED
    BY <2>3 DEF SettleRun, TypeOK
<1>8. runs' \in [RunIds -> Runs \cup {NoRun}]
  <2>1. [run EXCEPT !.status = RunStatus(code)] \in Runs
    BY <1>1 DEF Runs, RunStatus
  <2>2. runs' = [runs EXCEPT ![i] = [run EXCEPT !.status = RunStatus(code)]]
    BY DEF SettleRun
  <2> QED
    BY <2>1, <2>2 DEF TypeOK
<1>9. events' \in Seq(Events)
  <2>1. << Event(IF code = "none" THEN "action.completed" ELSE "action.failed") >>
          \in Seq(Events)
    BY <1>3, EventType DEF EventTypes
  <2>2. (IF made = {} THEN << >> ELSE << Event("artifact.created") >>)
          \in Seq(Events)
    BY <1>3, EventType DEF EventTypes
  <2>3. << Event("observation.emitted") >> \in Seq(Events)
    BY <1>3, EventType DEF EventTypes
  <2>4. Closing \in Seq(Events)
    BY <1>3, ClosingType
  <2> HIDE DEF made
  <2>5. events' = events
           \o << Event(IF code = "none" THEN "action.completed"
                                        ELSE "action.failed") >>
           \o (IF made = {} THEN << >> ELSE << Event("artifact.created") >>)
           \o << Event("observation.emitted") >>
           \o Closing
    BY DEF SettleRun, made
  <2> QED
    BY <2>1, <2>2, <2>3, <2>4, <2>5, ConcatProperties DEF TypeOK
<1>10. elapsed' \in 0 .. Limit["wall_time_ms"]
  BY DEF SettleRun, TypeOK
<1> QED
  BY <1>3, <1>4, <1>6, <1>7, <1>8, <1>9, <1>10 DEF StoreTyped

LEMMA FinishType ==
  ASSUME TypeOK, NEW w \in Workers, Finish(w)
  PROVE  /\ ThreadsTyped'
         /\ \A v \in Workers : pc'[v] # "idle" =>
              /\ v # w
              /\ pc'[v] = pc[v] /\ request'[v] = request[v]
              /\ held'[v] = held[v]
BY DEF TypeOK, Finish, ThreadsTyped

\* A thread that answers leaves the others as they were; their runs stay.
LEMMA FinishInv ==
  ASSUME TypeInv, NEW w \in Workers, Finish(w), StoreTyped',
         \A i \in RunIds : runs[i].status # "absent" => runs'[i].status # "absent"
  PROVE  TypeInv'
<1>1. ThreadsTyped'
  BY FinishType DEF TypeInv
<1>2. ThreadsOK'
  BY FinishType DEF TypeInv, ThreadsOK
<1> QED
  BY <1>1, <1>2 DEF TypeInv, TypeOK, StoreTyped, ThreadsTyped

LEMMA RefuseInv ==
  ASSUME TypeInv, NEW w \in Workers, NEW code, Refuse(w, code)
  PROVE  TypeInv'
<1>1. UNCHANGED <<episode, events, results, runs, artifacts, elapsed, spent>>
  BY DEF Refuse, store
<1>2. StoreTyped'
  BY <1>1 DEF TypeInv, TypeOK, StoreTyped
<1> QED
  BY <1>1, <1>2, FinishInv DEF Refuse, Answer

\* A settled run is still a row.
LEMMA SettledRunsStay ==
  ASSUME TypeOK, NEW i \in RunIds, NEW out, NEW code, SettleRun(i, out, code)
  PROVE  \A j \in RunIds : runs[j].status # "absent" => runs'[j].status # "absent"
<1>1. runs' = [runs EXCEPT ![i] = [runs[i] EXCEPT !.status = RunStatus(code)]]
  BY DEF SettleRun
<1>2. RunStatus(code) # "absent"
  BY DEF RunStatus
<1>3. ASSUME NEW j \in RunIds, runs[j].status # "absent"
      PROVE  runs'[j].status # "absent"
  <2>1. runs[j] \in Runs
    BY <1>3, RunType
  <2>2. CASE j = i
    BY <1>1, <1>2, <2>1, <2>2 DEF TypeOK, Runs
  <2>3. CASE j # i
    BY <1>1, <1>3, <2>3 DEF TypeOK
  <2> QED
    BY <2>2, <2>3
<1> QED
  BY <1>3

LEMMA StartStepInv ==
  ASSUME TypeInv, NEW w \in Workers, NEW r \in Requests, StartStep(w, r)
  PROVE  TypeInv'
BY DEF TypeInv, TypeOK, ThreadsOK, StartStep, store, ExpiredRuns, RunningRuns

LEMMA AbandonInv ==
  ASSUME TypeInv, NEW w \in Workers, Abandon(w)
  PROVE  TypeInv'
<1>1. UNCHANGED <<episode, events, results, runs, artifacts, elapsed, spent>>
  BY DEF Abandon, store
<1>2. StoreTyped'
  BY <1>1 DEF TypeInv, TypeOK, StoreTyped
<1> QED
  BY <1>1, <1>2, FinishInv DEF Abandon

LEMMA RecoverInv ==
  ASSUME TypeInv, NEW w \in Workers, Recover(w)
  PROVE  TypeInv'
<1>1. PICK i \in pending[w] :
        /\ pc[w] = "recover"
        /\ \/ /\ runs[i].status = "running" /\ ~EpisodeMoved(i)
              /\ SettleRun(i, None, "tool_interrupted")
           \/ UNCHANGED <<store, elapsed, spent>>
        /\ pending' = [pending EXCEPT ![w] = @ \ {i}]
        /\ pc' = [pc EXCEPT ![w] = IF pending[w] = {i} THEN "step" ELSE @]
        /\ UNCHANGED <<request, held>>
  BY DEF Recover
<1>2. i \in RunIds
  BY DEF TypeInv, TypeOK
<1>3. ThreadsTyped'
  BY <1>1 DEF TypeInv, TypeOK, ThreadsTyped
<1>4. /\ StoreTyped'
      /\ \A j \in RunIds : runs[j].status # "absent" => runs'[j].status # "absent"
  <2>1. CASE /\ runs[i].status = "running"
             /\ SettleRun(i, None, "tool_interrupted")
    <3>1. Settlement(i, None, "tool_interrupted")
      BY DEF Settlement, FailureCodes, Codes
    <3> QED
      BY <1>2, <2>1, <3>1, SettleRunType, SettledRunsStay DEF TypeInv
  <2>2. CASE UNCHANGED <<store, elapsed, spent>>
    BY <2>2 DEF store, StoreTyped, TypeInv, TypeOK
  <2> QED
    BY <1>1, <2>1, <2>2
<1>5. ThreadsOK'
  BY <1>1, <1>4 DEF TypeInv, TypeOK, ThreadsOK
<1> QED
  BY <1>3, <1>4, <1>5, TypeParts DEF TypeInv, TypeOK, StoreTyped, ThreadsTyped

LEMMA FinalizeToolInv ==
  ASSUME TypeInv, NEW w \in Workers,
         NEW out \in ToolOutputs \cup {None}, NEW code,
         \/ out \in ToolOutputs /\ code = "none"
         \/ code = "tool_failed",
         FinalizeTool(w, out, code)
  PROVE  /\ held[w] \in RunIds /\ runs[held[w]].status = "running"
         /\ \E verdict : /\ Settlement(held[w], out, verdict)
                         /\ SettleRun(held[w], out, verdict)
         /\ TypeInv'
<1> DEFINE i == held[w]
           verdict == IF code # "none" THEN code ELSE OutputError(runs[i], out)
<1>1. i \in RunIds /\ runs[i].status = "running"
  BY DEF FinalizeTool, TypeInv, ThreadsOK
<1>2. SettleRun(i, out, verdict) /\ Finish(w)
  BY DEF FinalizeTool, Answer
<1>3. Settlement(i, out, verdict)
  BY DEF Settlement, OutputError, FailureCodes, Codes
<1>4. TypeInv'
  BY <1>1, <1>2, <1>3, SettleRunType, SettledRunsStay, FinishInv DEF TypeInv
<1> QED
  BY <1>1, <1>2, <1>3, <1>4

\* A thread that only answers.
LEMMA AnswerInv ==
  ASSUME TypeInv, NEW w \in Workers, NEW r, NEW code, NEW version,
         Answer(w, r, code, version), UNCHANGED <<store, elapsed, spent>>
  PROVE  TypeInv'
<1>1. UNCHANGED <<episode, events, results, runs, artifacts, elapsed, spent>>
  BY DEF store
<1>2. StoreTyped'
  BY <1>1 DEF TypeInv, TypeOK, StoreTyped
<1> QED
  BY <1>1, <1>2, FinishInv DEF Answer

LEMMA ReserveToolInv ==
  ASSUME TypeInv, NEW w \in Workers, ReserveTool(w)
  PROVE  \E i \in RunIds :
           /\ runs[i].status = "absent"
           /\ held' = [held EXCEPT ![w] = i]
           /\ runs' = [runs EXCEPT ![i] =
                [status |-> "running", request |-> request[w],
                 lease_expired |-> FALSE,
                 input_bytes_reserved |->
                   ToolPlan[request[w].action.tool_id].input_bytes,
                 output_bytes_reserved |->
                   ToolPlan[request[w].action.tool_id].max_output_bytes,
                 metadata_only |->
                   ToolPlan[request[w].action.tool_id].metadata_only,
                 expected_state_version |-> request[w].expected_state_version]]
           /\ runs'[i] \in Runs
           /\ TypeInv'
<1> DEFINE r == request[w]
           plan == ToolPlan[r.action.tool_id]
           free == {i \in RunIds : runs[i].status = "absent"}
           i == CHOOSE j \in free : TRUE
           run == [status |-> "running", request |-> r, lease_expired |-> FALSE,
                   input_bytes_reserved |-> plan.input_bytes,
                   output_bytes_reserved |-> plan.max_output_bytes,
                   metadata_only |-> plan.metadata_only,
                   expected_state_version |-> r.expected_state_version]
<1>1. i \in RunIds /\ runs[i].status = "absent"
  <2>1. i \in free
    BY DEF ReserveTool
  <2> QED
    BY <2>1
<1>2. r \in Requests /\ IsToolCall(r)
  BY DEF ReserveTool, Current, Fresh, TypeInv, ThreadsOK
<1>3. r.action \in Actions /\ r.expected_state_version \in Nat
  BY <1>2, StoreAssumption
<1>4. r.action.tool_id \in Tools
  BY <1>2, <1>3 DEF IsToolCall, Actions, AnswerTypes
<1>5. plan.input_bytes \in Nat /\ plan.max_output_bytes \in Nat
      /\ plan.metadata_only \in BOOLEAN
  BY <1>4, StoreAssumption
<1>6. run \in Runs
  BY <1>2, <1>3, <1>5 DEF Runs
<1>7. /\ runs' = [runs EXCEPT ![i] = run]
      /\ events' = Append(events, Accepted(r))
      /\ pc' = [pc EXCEPT ![w] = "invoke"]
      /\ held' = [held EXCEPT ![w] = i]
      /\ UNCHANGED <<episode, results, artifacts, elapsed, request, pending, spent>>
  BY DEF ReserveTool
<1> HIDE DEF run, i
<1>8. runs'[i] = run /\ runs' \in [RunIds -> Runs \cup {NoRun}]
  BY <1>1, <1>6, <1>7 DEF TypeInv, TypeOK
<1>9. events' \in Seq(Events)
  BY <1>2, <1>7, AcceptedType, AppendProperties DEF TypeInv, TypeOK
<1>10. TypeOK'
  BY <1>1, <1>7, <1>8, <1>9 DEF TypeInv, TypeOK
<1>11. ThreadsOK'
  <2>1. ASSUME NEW j \in RunIds, runs[j].status # "absent"
        PROVE  runs'[j].status # "absent"
    BY <1>1, <1>7, <2>1 DEF TypeInv, TypeOK
  <2>2. runs'[i].status # "absent"
    BY <1>8 DEF run
  <2> QED
    BY <1>1, <1>7, <2>1, <2>2 DEF TypeInv, TypeOK, ThreadsOK
<1> QED
  BY <1>1, <1>6, <1>7, <1>8, <1>10, <1>11 DEF TypeInv, run

LEMMA RecordFailureInv ==
  ASSUME TypeInv, NEW w \in Workers, NEW code \in Codes,
         request[w] \in Requests, RecordFailure(w, code)
  PROVE  TypeInv'
<1> DEFINE r == request[w]
<1>1. UNCHANGED <<episode, runs, artifacts, elapsed, spent>>
  BY DEF RecordFailure
<1>2. episode' \in Episodes
  BY <1>1 DEF TypeInv, TypeOK
<1>3. << Accepted(r), Event("action.failed") >> \in Seq(Events)
  <2>1. Event("action.failed") \in Events
    BY <1>2 DEF Event, Events, EventTypes, Episodes
  <2> QED
    BY <2>1, AcceptedType DEF TypeInv
<1>4. events' \in Seq(Events)
  BY <1>3, ConcatProperties DEF RecordFailure, TypeInv, TypeOK
<1>5. results' \in SUBSET Rows
  BY RowType DEF RecordFailure, TypeInv, TypeOK, Episodes
<1>6. StoreTyped'
  BY <1>1, <1>2, <1>4, <1>5 DEF TypeInv, TypeOK, StoreTyped
<1> QED
  BY <1>1, <1>6, FinishInv DEF RecordFailure, Answer

LEMMA CaptureType ==
  ASSUME TypeOK, NEW r \in Requests, Renders(r)
  PROVE  Capture(r) \in Artifacts /\ Size(Capture(r)) \in Nat
<1>1. r.action \in Actions /\ r.action.type = "map.set_view"
  BY StoreAssumption DEF Renders
<1>2. r.action.view \in Views
  BY <1>1 DEF Actions, AnswerTypes
<1>3. CaptureOf[r.action.view] \in Contents
  BY <1>2, StoreAssumption
<1>4. episode.state_version + 1 \in Nat
  BY DEF TypeOK, Episodes
<1>5. Capture(r) \in Artifacts
  BY <1>3, <1>4 DEF Capture, Artifacts, ArtifactIds, Lineages
<1> QED
  BY <1>5, SizeType

\* An action apply_action accepts yields a state.
LEMMA AppliedType ==
  ASSUME TypeOK, NEW r \in Requests, ~IsToolCall(r),
         DomainError(r.action) = "none"
  PROVE  Applied(r) \in Episodes
<1>1. /\ r.action \in Actions
      /\ r.client_action_id \in ClientActionIds
  BY StoreAssumption
<1>2. r.action.type \notin {"inadmissible", "tool.invoke"}
  BY DEF DomainError
<1>3. CASE r.action.type = "map.set_view"
  <2>1. r.action.view \in Views
    BY <1>1, <1>3 DEF Actions, AnswerTypes
  <2>2. Applied(r) = [episode EXCEPT !.view = r.action.view]
    BY <1>3 DEF Applied, AnswerTypes
  <2> QED
    BY <2>1, <2>2 DEF TypeOK, Episodes
<1>4. CASE r.action.type = "memory.save_evidence"
  <2>1. r.action.evidence_id \in EvidenceIds
    BY <1>1, <1>4 DEF Actions, AnswerTypes
  <2>2. Applied(r) = [episode EXCEPT !.evidence = @ \cup {r.action.evidence_id}]
    BY <1>4 DEF Applied, AnswerTypes
  <2>3. episode.evidence \cup {r.action.evidence_id} \in SUBSET EvidenceIds
    BY <2>1 DEF TypeOK, Episodes
  <2> QED
    BY <2>2, <2>3 DEF TypeOK, Episodes
<1>5. CASE r.action.type \in AnswerTypes
  <2>1. Applied(r) = [episode EXCEPT !.final_answer = r.client_action_id,
                                     !.status = "terminated"]
    BY <1>5 DEF Applied, AnswerTypes
  <2>2. "terminated" \in Statuses
    BY DEF Statuses
  <2> QED
    BY <1>1, <2>1, <2>2, Zenon DEF TypeOK, Episodes
<1> QED
  BY <1>1, <1>2, <1>3, <1>4, <1>5 DEF Actions, AnswerTypes

\* The charge of a step that is no tool call.
LocalCharge(r) ==
  [StepCharge EXCEPT !["artifact_bytes"] =
     IF Renders(r) THEN Size(Capture(r)) ELSE 0]

LEMMA LocalChargeType ==
  ASSUME TypeOK, NEW r \in Requests
  PROVE  LocalCharge(r) \in Budget
<1>1. (IF Renders(r) THEN Size(Capture(r)) ELSE 0) \in Nat
  BY CaptureType
<1> QED
  BY <1>1, ChargeTypes DEF LocalCharge, Budget

LEMMA CompleteStepInv ==
  ASSUME TypeInv, NEW w \in Workers, CompleteStep(w)
  PROVE  TypeInv'
<1> DEFINE r == request[w]
           made == IF Renders(r) THEN {Capture(r)} ELSE {}
<1>1. /\ r \in Requests
      /\ ~IsToolCall(r) /\ DomainError(r.action) = "none"
  BY DEF CompleteStep, Current, Fresh, TypeInv, ThreadsOK
<1>2. PICK verdict \in Verdicts(r) :
        /\ episode' = [Advanced(Applied(r), LocalCharge(r))
                          EXCEPT !.evaluation = verdict]
        /\ events' = events
             \o << Accepted(r), Event("action.completed") >>
             \o (IF Renders(r) THEN << Event("artifact.created") >> ELSE << >>)
             \o (IF r.action.type = "memory.save_evidence"
                 THEN << Event("evidence.saved") >> ELSE << >>)
             \o << Event("observation.emitted") >>
             \o (IF verdict = "none" THEN << >>
                 ELSE << Event(IF verdict = "completed"
                               THEN "evaluation.completed"
                               ELSE "evaluation.failed") >>)
             \o Closing
  BY DEF CompleteStep, LocalCharge
<1>3. episode' \in Episodes
  <2>1. Advanced(Applied(r), LocalCharge(r)) \in Episodes
    BY <1>1, AppliedType, LocalChargeType, AdvancedType DEF TypeInv
  <2>2. verdict \in {"none", "completed", "failed"}
    BY DEF Verdicts
  <2> QED
    BY <1>2, <2>1, <2>2, Zenon DEF Episodes
<1>4. events' \in Seq(Events)
  <2> DEFINE e1 == << Accepted(r), Event("action.completed") >>
             e2 == IF Renders(r) THEN << Event("artifact.created") >> ELSE << >>
             e3 == IF r.action.type = "memory.save_evidence"
                   THEN << Event("evidence.saved") >> ELSE << >>
             e4 == << Event("observation.emitted") >>
             e5 == IF verdict = "none" THEN << >>
                   ELSE << Event(IF verdict = "completed"
                                 THEN "evaluation.completed"
                                 ELSE "evaluation.failed") >>
  <2>1. e1 \in Seq(Events)
    <3>1. Event("action.completed") \in Events
      BY <1>3 DEF Event, Events, EventTypes, Episodes
    <3> QED
      BY <1>1, <3>1, AcceptedType DEF TypeInv
  <2>2. e2 \in Seq(Events) /\ e3 \in Seq(Events) /\ e4 \in Seq(Events)
    BY <1>3, EventType DEF EventTypes
  <2>3. e5 \in Seq(Events)
    BY <1>3, EventType DEF EventTypes
  <2>4. Closing \in Seq(Events)
    BY <1>3, ClosingType
  <2>5. events' = events \o e1 \o e2 \o e3 \o e4 \o e5 \o Closing
    BY <1>2
  <2> HIDE DEF e1, e2, e3, e4, e5
  <2>6. events \o e1 \o e2 \o e3 \in Seq(Events)
    BY <2>1, <2>2, ConcatProperties DEF TypeInv, TypeOK
  <2> QED
    BY <2>2, <2>3, <2>4, <2>5, <2>6, ConcatProperties
<1>5. artifacts' \in SUBSET Artifacts
  <2>1. artifacts' = artifacts \cup made
    BY DEF CompleteStep
  <2>2. made \in SUBSET Artifacts
    BY <1>1, CaptureType DEF TypeInv
  <2> QED
    BY <2>1, <2>2 DEF TypeInv, TypeOK
<1>6. results' \in SUBSET Rows
  <2>1. results' = results \cup {Row(r, "success", episode'.state_version)}
    BY DEF CompleteStep
  <2>2. Row(r, "success", episode'.state_version) \in Rows
    BY <1>1, <1>3, RowType DEF Codes, Episodes
  <2> QED
    BY <2>1, <2>2 DEF TypeInv, TypeOK
<1>7. spent' \in [BudgetKeys -> Nat]
  BY <1>1, LocalChargeType, ConsumeType DEF CompleteStep, LocalCharge, TypeInv
<1>8. UNCHANGED <<runs, elapsed>> /\ Finish(w)
  BY DEF CompleteStep, Answer
<1>9. StoreTyped'
  BY <1>3, <1>4, <1>5, <1>6, <1>7, <1>8 DEF TypeInv, TypeOK, StoreTyped
<1> QED
  BY <1>8, <1>9, FinishInv

LEMMA RejectStepInv ==
  ASSUME TypeInv, NEW w \in Workers, RejectStep(w)
  PROVE  TypeInv'
<1>1. request[w] \in Requests
  BY DEF RejectStep, Current, Fresh, TypeInv, ThreadsOK
<1>2. PICK code \in Codes : RecordFailure(w, code)
  BY DEF RejectStep, DomainError, Codes
<1> QED
  BY <1>1, <1>2, RecordFailureInv

LEMMA InitTypeInv == Init => TypeInv
<1> SUFFICES ASSUME Init PROVE TypeInv
  OBVIOUS
<1>1. episode \in Episodes
  BY StoreAssumption, ChargeTypes DEF Init, Episodes, Statuses
<1>2. events \in Seq(Events)
  <2>1. [type |-> "episode.created", state_version |-> 0,
         client_action_id |-> None] \in Events
    BY DEF Events, EventTypes
  <2>2. [type |-> "observation.emitted", state_version |-> 0,
         client_action_id |-> None] \in Events
    BY DEF Events, EventTypes
  <2> QED
    BY <2>1, <2>2 DEF Init
<1>3. runs \in [RunIds -> Runs \cup {NoRun}]
  BY DEF Init, NoRun
<1>4. elapsed \in 0 .. Limit["wall_time_ms"]
  BY LimitAssumption DEF Init, BudgetKeys
<1> QED
  BY <1>1, <1>2, <1>3, <1>4 DEF Init, TypeInv, TypeOK, ThreadsOK

LEMMA NextTypeInv == TypeInv /\ [Next]_vars => TypeInv'
<1> SUFFICES ASSUME TypeInv, [Next]_vars PROVE TypeInv'
  OBVIOUS
<1>1. ASSUME NEW w \in Workers, NEW r \in Requests, StartStep(w, r)
      PROVE  TypeInv'
  BY <1>1, StartStepInv
<1>2. ASSUME NEW w \in Workers, Recover(w) PROVE TypeInv'
  BY <1>2, RecoverInv
<1>3. ASSUME NEW w \in Workers, StepTransaction(w) PROVE TypeInv'
  <2>1. CASE Retry(w)
    BY <2>1, AnswerInv DEF Retry
  <2>2. CASE ReusedId(w) \/ Busy(w) \/ StaleVersion(w) \/ ToolRejected(w)
             \/ CaptureConflict(w)
    BY <2>2, RefuseInv DEF ReusedId, Busy, StaleVersion, ToolRejected,
                           CaptureConflict
  <2>3. CASE ReserveTool(w)
    BY <2>3, ReserveToolInv
  <2>4. CASE RejectStep(w)
    BY <2>4, RejectStepInv
  <2>5. CASE CompleteStep(w)
    BY <2>5, CompleteStepInv
  <2> QED
    BY <1>3, <2>1, <2>2, <2>3, <2>4, <2>5 DEF StepTransaction
<1>4. ASSUME NEW w \in Workers, ReturnTool(w) PROVE TypeInv'
  <2>1. CASE LateFinalize(w)
    BY <2>1, AnswerInv DEF LateFinalize
  <2>2. ASSUME NEW out \in ToolOutputs, FinalizeTool(w, out, "none")
        PROVE  TypeInv'
    BY <2>2, FinalizeToolInv
  <2>3. CASE FinalizeTool(w, None, "tool_failed")
    BY <2>3, FinalizeToolInv
  <2> QED
    BY <1>4, <2>1, <2>2, <2>3 DEF ReturnTool
<1>5. ASSUME NEW w \in Workers, Abandon(w) PROVE TypeInv'
  BY <1>5, AbandonInv
<1>6. CASE PassTime
  BY <1>6, LimitAssumption
     DEF PassTime, store, threads, TypeInv, TypeOK, ThreadsOK, BudgetKeys
<1>7. ASSUME NEW i \in RunIds, ExpireLease(i) PROVE TypeInv'
  <2>1. runs[i] \in Runs
    BY <1>7, RunType DEF ExpireLease, TypeInv
  <2>2. [runs[i] EXCEPT !.lease_expired = TRUE] \in Runs
    BY <2>1 DEF Runs
  <2>3. [runs[i] EXCEPT !.lease_expired = TRUE].status # "absent"
    BY <2>1 DEF Runs
  <2>4. runs' = [runs EXCEPT ![i] = [runs[i] EXCEPT !.lease_expired = TRUE]]
    BY <1>7 DEF ExpireLease
  <2> QED
    BY <1>7, <2>2, <2>3, <2>4
       DEF ExpireLease, threads, TypeInv, TypeOK, ThreadsOK
<1>8. CASE UNCHANGED vars
  BY <1>8 DEF vars, store, threads, TypeInv, TypeOK, ThreadsOK
<1> QED
  BY <1>1, <1>2, <1>3, <1>4, <1>5, <1>6, <1>7, <1>8 DEF Next

\* Every table and thread keeps its type for any number of threads and runs
\* and any set of requests, tools and limits.
THEOREM TypeCorrect == Spec => []TypeOK
<1>1. TypeInv => TypeOK
  BY DEF TypeInv
<1> QED
  BY <1>1, InitTypeInv, NextTypeInv, PTL DEF Spec

-------------------------------------------------------------------------------
(* The five kinds of steps *)

\* Rows stay as they are; at most a lease runs out.
Quiet ==
  /\ UNCHANGED <<episode, events, results, artifacts, spent>>
  /\ \A i \in RunIds :
       \/ runs'[i] = runs[i]
       \/ /\ runs[i].status = "running"
          /\ runs'[i] = [runs[i] EXCEPT !.lease_expired = TRUE]

\* What every transaction that decides something has checked.
Checked(r) ==
  /\ r \in Requests
  /\ Recorded(r.client_action_id) = {}
  /\ RunningRuns = {}
  /\ r.expected_state_version = episode.state_version

Reserves(r, i) ==
  LET plan == ToolPlan[r.action.tool_id] IN
  /\ Checked(r)
  /\ episode.status = "active"
  /\ i \in RunIds /\ runs[i].status = "absent"
  /\ WithinReservation(plan)
  /\ runs' = [runs EXCEPT ![i] =
                [status |-> "running", request |-> r,
                 lease_expired |-> FALSE,
                 input_bytes_reserved |-> plan.input_bytes,
                 output_bytes_reserved |-> plan.max_output_bytes,
                 metadata_only |-> plan.metadata_only,
                 expected_state_version |-> r.expected_state_version]]
  /\ runs'[i] \in Runs
  /\ events' = Append(events, Accepted(r))
  /\ UNCHANGED <<episode, results, artifacts, spent>>

Settles(i, out, code) ==
  /\ i \in RunIds /\ runs[i].status = "running"
  /\ Settlement(i, out, code)
  /\ SettleRun(i, out, code)

Rejects(r, code) ==
  /\ Checked(r)
  /\ ~IsToolCall(r) /\ code \in FailureCodes
  /\ events' = events \o << Accepted(r), Event("action.failed") >>
  /\ results' = results \cup {Row(r, code, episode.state_version)}
  /\ UNCHANGED <<episode, runs, artifacts, spent>>

\* The events of a completed action.
Told(r, verdict) ==
  events \o << Accepted(r), Event("action.completed") >>
    \o (IF Renders(r) THEN << Event("artifact.created") >> ELSE << >>)
    \o (IF r.action.type = "memory.save_evidence"
        THEN << Event("evidence.saved") >> ELSE << >>)
    \o << Event("observation.emitted") >>
    \o (IF verdict = "none" THEN << >>
        ELSE << Event(IF verdict = "completed" THEN "evaluation.completed"
                                               ELSE "evaluation.failed") >>)
    \o Closing

Completes(r) ==
  /\ Checked(r)
  /\ ~IsToolCall(r) /\ DomainError(r.action) = "none"
  /\ Renders(r) => FitsArtifactBudget(Capture(r)) /\ ~Conflicts(Capture(r))
  /\ \E verdict \in Verdicts(r) :
       /\ episode' = [Advanced(Applied(r), LocalCharge(r))
                        EXCEPT !.evaluation = verdict]
       /\ events' = Told(r, verdict)
  /\ results' = results \cup {Row(r, "success", episode'.state_version)}
  /\ artifacts' = artifacts
       \cup (IF Renders(r) THEN {Capture(r)} ELSE {})
  /\ Consume(LocalCharge(r))
  /\ UNCHANGED runs

LEMMA QuietThreads ==
  ASSUME UNCHANGED store, UNCHANGED spent
  PROVE  Quiet
BY DEF store, Quiet

LEMMA StepKinds ==
  ASSUME TypeInv, [Next]_vars
  PROVE  \/ Quiet
         \/ \E r \in Requests, i \in RunIds : Reserves(r, i)
         \/ \E i \in RunIds, out \in ToolOutputs \cup {None},
               code \in FailureCodes \cup {"none"} : Settles(i, out, code)
         \/ \E r \in Requests, code \in FailureCodes : Rejects(r, code)
         \/ \E r \in Requests : Completes(r)
<1> DEFINE Kinds ==
         \/ Quiet
         \/ \E r \in Requests, i \in RunIds : Reserves(r, i)
         \/ \E i \in RunIds, out \in ToolOutputs \cup {None},
               code \in FailureCodes \cup {"none"} : Settles(i, out, code)
         \/ \E r \in Requests, code \in FailureCodes : Rejects(r, code)
         \/ \E r \in Requests : Completes(r)
<1> SUFFICES Kinds
  OBVIOUS
<1>1. ASSUME NEW w \in Workers, NEW r \in Requests, StartStep(w, r)
      PROVE  Quiet
  BY <1>1, QuietThreads DEF StartStep
<1>2. ASSUME NEW w \in Workers, Recover(w) PROVE Kinds
  <2>1. PICK i \in pending[w] :
          \/ /\ runs[i].status = "running"
             /\ SettleRun(i, None, "tool_interrupted")
          \/ UNCHANGED <<store, spent>>
    BY <1>2 DEF Recover
  <2>2. i \in RunIds
    BY <1>2 DEF TypeInv, TypeOK
  <2>3. Settlement(i, None, "tool_interrupted")
    BY DEF Settlement, FailureCodes, Codes
  <2>4. "tool_interrupted" \in FailureCodes \cup {"none"}
    BY DEF FailureCodes, Codes
  <2> QED
    BY <2>1, <2>2, <2>3, <2>4, QuietThreads DEF Settles
<1>3. ASSUME NEW w \in Workers, StepTransaction(w) PROVE Kinds
  <2> DEFINE r == request[w]
  <2>1. CASE Retry(w)
    BY <2>1, QuietThreads DEF Retry
  <2>2. CASE ReusedId(w) \/ Busy(w) \/ StaleVersion(w) \/ ToolRejected(w)
             \/ CaptureConflict(w)
    BY <2>2, QuietThreads DEF ReusedId, Busy, StaleVersion, ToolRejected,
                              CaptureConflict, Refuse
  <2>3. CASE ReserveTool(w)
    <3>1. Checked(r) /\ episode.status = "active"
          /\ WithinReservation(ToolPlan[r.action.tool_id])
      BY <2>3 DEF ReserveTool, Current, Fresh, Checked, Closed,
                  TypeInv, ThreadsOK
    <3>2. /\ UNCHANGED <<episode, results, artifacts, spent>>
          /\ events' = Append(events, Accepted(r))
      BY <2>3 DEF ReserveTool
    <3>3. PICK i \in RunIds :
            /\ runs[i].status = "absent"
            /\ runs' = [runs EXCEPT ![i] =
                 [status |-> "running", request |-> request[w],
                  lease_expired |-> FALSE,
                  input_bytes_reserved |->
                    ToolPlan[request[w].action.tool_id].input_bytes,
                  output_bytes_reserved |->
                    ToolPlan[request[w].action.tool_id].max_output_bytes,
                  metadata_only |->
                    ToolPlan[request[w].action.tool_id].metadata_only,
                  expected_state_version |-> request[w].expected_state_version]]
            /\ runs'[i] \in Runs
      BY <2>3, ReserveToolInv
    <3>4. Reserves(r, i)
      BY <3>1, <3>2, <3>3 DEF Reserves
    <3> QED
      BY <3>1, <3>4 DEF Checked
  <2>4. CASE RejectStep(w)
    <3>1. Checked(r)
      BY <2>4 DEF RejectStep, Current, Fresh, Checked, TypeInv, ThreadsOK
    <3>2. PICK code \in FailureCodes : RecordFailure(w, code)
      BY <2>4 DEF RejectStep, DomainError, FailureCodes, Codes
    <3>3. Rejects(r, code)
      BY <2>4, <3>1, <3>2 DEF RejectStep, RecordFailure, Rejects
    <3> QED
      BY <3>1, <3>3 DEF Checked
  <2>5. CASE CompleteStep(w)
    <3>1. Checked(r)
      BY <2>5 DEF CompleteStep, Current, Fresh, Checked, TypeInv, ThreadsOK
    <3>2. Completes(r)
      BY <2>5, <3>1 DEF CompleteStep, Completes, LocalCharge, Told
    <3> QED
      BY <3>1, <3>2 DEF Checked
  <2> QED
    BY <1>3, <2>1, <2>2, <2>3, <2>4, <2>5 DEF StepTransaction
<1>4. ASSUME NEW w \in Workers, ReturnTool(w) PROVE Kinds
  <2>1. CASE LateFinalize(w)
    BY <2>1, QuietThreads DEF LateFinalize
  <2>2. ASSUME NEW out \in ToolOutputs \cup {None}, NEW code,
               \/ out \in ToolOutputs /\ code = "none"
               \/ code = "tool_failed",
               FinalizeTool(w, out, code)
        PROVE  Kinds
    <3>1. PICK verdict : /\ held[w] \in RunIds /\ runs[held[w]].status = "running"
                         /\ Settlement(held[w], out, verdict)
                         /\ SettleRun(held[w], out, verdict)
      BY <2>2, FinalizeToolInv
    <3> QED
      BY <3>1 DEF Settles, Settlement
  <2> QED
    BY <1>4, <2>1, <2>2 DEF ReturnTool
<1>5. ASSUME NEW w \in Workers, Abandon(w) PROVE Quiet
  BY <1>5, QuietThreads DEF Abandon
<1>6. CASE PassTime
  BY <1>6, QuietThreads DEF PassTime
<1>7. ASSUME NEW i \in RunIds, ExpireLease(i) PROVE Quiet
  BY <1>7 DEF ExpireLease, Quiet, TypeInv, TypeOK
<1>8. CASE UNCHANGED vars
  BY <1>8, QuietThreads DEF vars
<1> QED
  BY <1>1, <1>2, <1>3, <1>4, <1>5, <1>6, <1>7, <1>8 DEF Next

-------------------------------------------------------------------------------
(* What each kind does to the runs *)

\* A lease that runs out changes nothing a property reads.
LEMMA QuietRuns ==
  ASSUME TypeInv, Quiet, NEW i \in RunIds
  PROVE  /\ runs'[i].status = runs[i].status
         /\ runs[i].status # "absent" =>
              /\ runs'[i].request = runs[i].request
              /\ runs'[i].expected_state_version
                   = runs[i].expected_state_version
              /\ runs'[i].input_bytes_reserved = runs[i].input_bytes_reserved
              /\ runs'[i].output_bytes_reserved
                   = runs[i].output_bytes_reserved
<1>1. CASE runs'[i] = runs[i]
  BY <1>1
<1>2. CASE /\ runs[i].status = "running"
           /\ runs'[i] = [runs[i] EXCEPT !.lease_expired = TRUE]
  <2>1. runs[i] \in Runs
    BY <1>2, RunType DEF TypeInv
  <2> QED
    BY <1>2, <2>1 DEF Runs
<1> QED
  BY <1>1, <1>2 DEF Quiet

LEMMA ReservesRuns ==
  ASSUME TypeInv, NEW r \in Requests, NEW i \in RunIds, Reserves(r, i)
  PROVE  /\ \A j \in RunIds \ {i} : runs'[j] = runs[j]
         /\ runs'[i].status = "running"
         /\ runs'[i].request = r
         /\ runs'[i].expected_state_version = r.expected_state_version
         /\ runs'[i].input_bytes_reserved
              = ToolPlan[r.action.tool_id].input_bytes
         /\ runs'[i].output_bytes_reserved
              = ToolPlan[r.action.tool_id].max_output_bytes
BY DEF Reserves, TypeInv, TypeOK

LEMMA SettlesRuns ==
  ASSUME TypeInv, NEW i, NEW out, NEW code, Settles(i, out, code)
  PROVE  /\ i \in RunIds
         /\ \A j \in RunIds \ {i} : runs'[j] = runs[j]
         /\ runs'[i].status = RunStatus(code)
         /\ runs'[i].request = runs[i].request
         /\ runs'[i].expected_state_version = runs[i].expected_state_version
         /\ Settled(RunStatus(code))
         /\ RunStatus(code) # "running" /\ RunStatus(code) # "absent"
<1>1. runs[i] \in Runs /\ i \in RunIds
  BY RunType DEF Settles, TypeInv
<1>2. runs' = [runs EXCEPT ![i] = [runs[i] EXCEPT !.status = RunStatus(code)]]
  BY DEF Settles, SettleRun
<1>3. RunStatus(code) \in {"completed", "failed"}
  BY DEF RunStatus
<1> QED
  BY <1>1, <1>2, <1>3 DEF Runs, TypeInv, TypeOK, Settled

\* How an episode moves.
LEMMA AdvancedFields ==
  ASSUME NEW e \in Episodes, NEW charge
  PROVE  /\ Advanced(e, charge).state_version = e.state_version + 1
         /\ Advanced(e, charge).budget
              = UpdateBudget(episode.budget, elapsed, charge)
         /\ Advanced(e, charge).status
              = IF e.status = "active"
                   /\ Exhausted(UpdateBudget(episode.budget, elapsed, charge))
                THEN "truncated" ELSE e.status
         /\ Advanced(e, charge).evidence = e.evidence
         /\ Advanced(e, charge).final_answer = e.final_answer
BY DEF Advanced, Episodes

LEMMA AppliedFields ==
  ASSUME TypeInv, NEW r \in Requests, Completes(r)
  PROVE  /\ Applied(r) \in Episodes
         /\ Applied(r).state_version = episode.state_version
         /\ episode.status = "active"
         /\ Applied(r).status \in {"active", "terminated"}
<1>1. r.action \in Actions /\ ~IsToolCall(r) /\ DomainError(r.action) = "none"
  BY StoreAssumption DEF Completes
<1>2. r.action.type \notin {"inadmissible", "tool.invoke"}
      /\ episode.status = "active"
  BY <1>1 DEF DomainError, Closed
<1>3. r.action.type \in {"map.set_view", "memory.save_evidence"} \cup AnswerTypes
  BY <1>1, <1>2 DEF Actions, AnswerTypes
<1>4. Applied(r) \in Episodes
  BY <1>1, AppliedType DEF TypeInv
<1>5. Applied(r).state_version = episode.state_version
      /\ Applied(r).status \in {"active", "terminated"}
  BY <1>2, <1>3 DEF Applied, AnswerTypes, TypeInv, TypeOK, Episodes
<1> QED
  BY <1>2, <1>4, <1>5

LEMMA CompletesEpisode ==
  ASSUME TypeInv, NEW r \in Requests, Completes(r)
  PROVE  /\ episode'.state_version = episode.state_version + 1
         /\ episode'.budget
              = UpdateBudget(episode.budget, elapsed, LocalCharge(r))
         /\ episode'.status \in Statuses
         /\ episode'.status = "active" => ~Exhausted(episode'.budget)
<1> DEFINE e == Advanced(Applied(r), LocalCharge(r))
<1>1. PICK verdict \in Verdicts(r) : episode' = [e EXCEPT !.evaluation = verdict]
  BY DEF Completes
<1>2. Applied(r) \in Episodes /\ e \in Episodes
  BY AppliedFields, LocalChargeType, AdvancedType DEF TypeInv
<1>3. /\ episode'.state_version = e.state_version
      /\ episode'.budget = e.budget
      /\ episode'.status = e.status
  <2> HIDE DEF e
  <2> QED
    BY <1>1, <1>2 DEF Episodes
<1> QED
  BY <1>2, <1>3, AppliedFields, AdvancedFields DEF Episodes, Statuses

LEMMA SettlesEpisode ==
  ASSUME TypeInv, NEW i, NEW out, NEW code, Settles(i, out, code)
  PROVE  /\ episode'.state_version = episode.state_version + 1
         /\ episode'.budget
              = UpdateBudget(episode.budget, elapsed, ToolCharge(out, code))
         /\ episode'.status \in Statuses
         /\ episode'.status = "active" => ~Exhausted(episode'.budget)
         /\ ToolCharge(out, code) \in Budget
<1>1. episode' = Advanced(episode, ToolCharge(out, code))
  BY DEF Settles, SettleRun
<1>2. episode \in Episodes
  BY DEF TypeInv, TypeOK
<1>3. ToolCharge(out, code) \in Budget
  BY RunType, GoodOutput, ToolChargeType DEF Settles, Settlement, TypeInv
<1> QED
  BY <1>1, <1>2, <1>3, AdvancedFields DEF Episodes, Statuses

-------------------------------------------------------------------------------
(* The inductive invariant *)

\* An active episode can pay for one more step, so a step is never clamped.
Solvent == episode.status = "active" => ~Exhausted(episode.budget)

WithinLimits == \A k \in BudgetKeys : episode.budget[k] <= Limit[k]

\* A run was reserved for the version its request was sent for.
RunVersions ==
  \A i \in RunIds : runs[i].status # "absent" =>
    runs[i].expected_state_version = runs[i].request.expected_state_version

SafeInv ==
  /\ TypeInv
  /\ DecidedOnce
  /\ ReservationHolds
  /\ BudgetExact
  /\ Solvent
  /\ WithinLimits
  /\ RunVersions

LEMMA InitSafeInv == Init => SafeInv
<1> SUFFICES ASSUME Init PROVE SafeInv
  OBVIOUS
<1>1. TypeInv
  BY InitTypeInv
<1>2. \A i \in RunIds : runs[i].status = "absent"
  BY DEF Init
<1>3. results = {} /\ RunningRuns = {}
  BY <1>2 DEF Init, RunningRuns
<1>4. DecidedOnce /\ ReservationHolds /\ RunVersions
  BY <1>2, <1>3 DEF DecidedOnce, ReservationHolds, RunVersions, Settled
<1>5. BudgetExact /\ Solvent /\ WithinLimits
  BY LimitAssumption DEF Init, BudgetExact, Solvent, WithinLimits, Exhausted,
                         Remaining, InitialBudget, BudgetKeys
<1> QED
  BY <1>1, <1>4, <1>5 DEF SafeInv

LEMMA RunVersionsStep ==
  ASSUME SafeInv, [Next]_vars
  PROVE  RunVersions'
<1>1. CASE Quiet
  BY <1>1, QuietRuns DEF SafeInv, RunVersions
<1>2. ASSUME NEW r \in Requests, NEW i \in RunIds, Reserves(r, i)
      PROVE  RunVersions'
  BY <1>2, ReservesRuns DEF SafeInv, RunVersions
<1>3. ASSUME NEW i, NEW out, NEW code, Settles(i, out, code)
      PROVE  RunVersions'
  BY <1>3, SettlesRuns DEF SafeInv, RunVersions, Settles
<1>4. CASE UNCHANGED runs
  BY <1>4 DEF SafeInv, RunVersions
<1> QED
  BY <1>1, <1>2, <1>3, <1>4, StepKinds DEF Rejects, Completes, SafeInv

\* An id that is decided now was not decided before, and no run other than the
\* one that settles has it.
LEMMA DecidedOnceStep ==
  ASSUME SafeInv, [Next]_vars
  PROVE  DecidedOnce'
<1>1. CASE Quiet
  <2>1. results' = results
    BY <1>1 DEF Quiet
  <2> QED
    BY <1>1, <2>1, QuietRuns DEF SafeInv, DecidedOnce, Recorded, Settled
<1>2. ASSUME NEW r \in Requests, NEW i \in RunIds, Reserves(r, i)
      PROVE  DecidedOnce'
  <2>1. /\ results' = results
        /\ \A row \in results : row.request.client_action_id # r.client_action_id
        /\ RunningRuns = {}
    BY <1>2 DEF Reserves, Checked, Recorded
  <2>2. ASSUME NEW j \in RunIds, runs[j].status # "absent"
        PROVE  /\ j # i
               /\ runs[j].request.client_action_id # r.client_action_id
    <3>1. Settled(runs[j].status)
      <4>1. runs[j] \in Runs
        BY <2>2, RunType DEF SafeInv, TypeInv
      <4> QED
        BY <2>1, <4>1 DEF RunningRuns, Runs, Settled
    <3>2. PICK row \in Recorded(runs[j].request.client_action_id) :
            row.request = runs[j].request
      BY <3>1 DEF SafeInv, DecidedOnce
    <3> QED
      BY <1>2, <2>1, <2>2, <3>2 DEF Recorded, Reserves
  <2>3. \A j \in RunIds \ {i} : runs'[j] = runs[j]
    BY <1>2, ReservesRuns DEF SafeInv
  <2>4. runs'[i].status = "running" /\ runs'[i].request = r
    BY <1>2, ReservesRuns DEF SafeInv
  <2> QED
    BY <2>1, <2>2, <2>3, <2>4 DEF SafeInv, DecidedOnce, Recorded, Settled
<1>3. ASSUME NEW i, NEW out, NEW code, Settles(i, out, code)
      PROVE  DecidedOnce'
  <2> DEFINE row == Row(runs[i].request, IF code = "none" THEN "success" ELSE code,
                        episode'.state_version)
  <2>1. results' = results \cup {row}
    BY <1>3 DEF Settles, SettleRun
  <2>2. /\ row.request = runs[i].request
        /\ (row.code = "success") = (RunStatus(code) = "completed")
    BY <1>3 DEF Row, RunStatus, Settles, Settlement, FailureCodes
  <2>3. /\ i \in RunIds
        /\ \A j \in RunIds \ {i} : runs'[j] = runs[j]
        /\ runs'[i].status = RunStatus(code)
        /\ runs'[i].request = runs[i].request
        /\ RunStatus(code) # "running" /\ RunStatus(code) # "absent"
    BY <1>3, SettlesRuns DEF SafeInv
  <2>4. \A old \in results :
          old.request.client_action_id # runs[i].request.client_action_id
    BY <1>3 DEF SafeInv, DecidedOnce, Recorded, Settles
  <2>5. RunningRuns = {i}
    BY <1>3, <2>3 DEF SafeInv, ReservationHolds, RunningRuns, Settles
  <2>6. runs[i].status = "running"
    BY <1>3 DEF Settles
  <2> HIDE DEF row
  <2>7. \A a, b \in results' :
          a.request.client_action_id = b.request.client_action_id => a = b
    BY <2>1, <2>2, <2>4 DEF SafeInv, DecidedOnce
  <2>8. \A j, k \in RunIds :
          /\ runs'[j].status # "absent" /\ runs'[k].status # "absent"
          /\ runs'[j].request.client_action_id = runs'[k].request.client_action_id
          => j = k
    <3>1. \A j \in RunIds :
            /\ runs'[j].request = runs[j].request
            /\ runs'[j].status # "absent" => runs[j].status # "absent"
      BY <2>3, <2>6
    <3> QED
      BY <3>1 DEF SafeInv, DecidedOnce
  <2>9. ASSUME NEW j \in RunIds
        PROVE  LET rows == {x \in results' : x.request.client_action_id
                               = runs'[j].request.client_action_id} IN
               /\ runs'[j].status = "running" => rows = {}
               /\ Settled(runs'[j].status) =>
                    \E x \in rows : /\ x.request = runs'[j].request
                                    /\ (x.code = "success")
                                         = (runs'[j].status = "completed")
    <3>1. CASE j = i
      BY <2>1, <2>2, <2>3, <3>1
    <3>2. CASE j # i
      <4>1. runs'[j] = runs[j] /\ runs[j].status # "running"
        BY <2>3, <2>5, <3>2 DEF RunningRuns
      <4>2. Settled(runs[j].status) =>
              \E x \in results :
                /\ x.request.client_action_id = runs[j].request.client_action_id
                /\ x.request = runs[j].request
                /\ (x.code = "success") = (runs[j].status = "completed")
        BY DEF SafeInv, DecidedOnce, Recorded
      <4> QED
        BY <2>1, <4>1, <4>2
    <3> QED
      BY <3>1, <3>2
  <2> QED
    BY <2>7, <2>8, <2>9 DEF DecidedOnce, Recorded, Settled
<1>4. ASSUME NEW r \in Requests, NEW code, NEW version,
             Checked(r), results' = results \cup {Row(r, code, version)},
             UNCHANGED runs
      PROVE  DecidedOnce'
  <2>1. \A old \in results : old.request.client_action_id # r.client_action_id
    BY <1>4 DEF Checked, Recorded
  <2>2. \A i \in RunIds : runs[i].status # "running"
    BY <1>4 DEF Checked, RunningRuns
  <2>3. Row(r, code, version).request = r
    BY DEF Row
  <2>4. \A a, b \in results' :
          a.request.client_action_id = b.request.client_action_id => a = b
    BY <1>4, <2>1, <2>3 DEF SafeInv, DecidedOnce
  <2>5. results \subseteq results'
    BY <1>4
  <2> QED
    BY <1>4, <2>2, <2>4, <2>5 DEF SafeInv, DecidedOnce, Recorded, Settled
<1> QED
  BY <1>1, <1>2, <1>3, <1>4, StepKinds DEF Rejects, Completes, SafeInv

\* Only a reservation makes a run running, and it checks what the run may use.
LEMMA ReservationHoldsStep ==
  ASSUME SafeInv, [Next]_vars
  PROVE  ReservationHolds'
<1>1. CASE Quiet
  <2>1. \A i \in RunIds :
          /\ runs'[i].status = runs[i].status
          /\ runs[i].status # "absent" =>
               /\ runs'[i].expected_state_version
                    = runs[i].expected_state_version
               /\ runs'[i].input_bytes_reserved = runs[i].input_bytes_reserved
               /\ runs'[i].output_bytes_reserved
                    = runs[i].output_bytes_reserved
    BY <1>1, QuietRuns DEF SafeInv
  <2>2. RunningRuns' = RunningRuns
    BY <2>1 DEF RunningRuns
  <2>3. episode' = episode
    BY <1>1 DEF Quiet
  <2> QED
    BY <2>1, <2>2, <2>3 DEF SafeInv, ReservationHolds, RunningRuns
<1>2. ASSUME NEW r \in Requests, NEW i \in RunIds, Reserves(r, i)
      PROVE  ReservationHolds'
  <2>1. RunningRuns' = {i}
    <3>1. /\ \A j \in RunIds \ {i} : runs'[j] = runs[j]
          /\ runs'[i].status = "running"
      BY <1>2, ReservesRuns DEF SafeInv
    <3>2. \A j \in RunIds : runs[j].status # "running"
      BY <1>2 DEF Reserves, Checked, RunningRuns
    <3> QED
      BY <3>1, <3>2 DEF RunningRuns
  <2>2. /\ runs'[i].expected_state_version = episode.state_version
        /\ runs'[i].input_bytes_reserved
             <= Remaining(episode.budget, "input_bytes")
        /\ runs'[i].output_bytes_reserved
             <= Remaining(episode.budget, "artifact_bytes")
        /\ Remaining(episode.budget, "steps") >= 1
        /\ Remaining(episode.budget, "tool_calls") >= 1
        /\ episode.status = "active"
        /\ episode' = episode
    BY <1>2, ReservesRuns DEF SafeInv, Reserves, Checked, WithinReservation
  <2> QED
    BY <2>1, <2>2 DEF ReservationHolds
<1>3. ASSUME NEW i, NEW out, NEW code, Settles(i, out, code)
      PROVE  ReservationHolds'
  <2>1. RunningRuns = {i} /\ i \in RunIds
    BY <1>3 DEF SafeInv, ReservationHolds, RunningRuns, Settles
  <2>2. RunningRuns' = {}
    BY <1>3, <2>1, SettlesRuns DEF SafeInv, RunningRuns
  <2> QED
    BY <2>2 DEF ReservationHolds
<1>4. CASE RunningRuns = {} /\ UNCHANGED runs
  BY <1>4 DEF ReservationHolds, RunningRuns
<1> QED
  BY <1>1, <1>2, <1>3, <1>4, StepKinds DEF Rejects, Completes, Checked, SafeInv

\* A charge that fits what remains is not clamped.
LEMMA UnclampedCharge ==
  ASSUME NEW budget \in Budget, NEW charge \in Budget, NEW k \in BudgetKeys,
         k # "wall_time_ms", charge[k] <= Remaining(budget, k)
  PROVE  UpdateBudget(budget, elapsed, charge)[k] = budget[k] + charge[k]
<1>1. /\ Limit[k] \in Nat /\ budget[k] \in Nat /\ charge[k] \in Nat
      /\ budget[k] + charge[k] <= Limit[k]
  BY LimitAssumption DEF Budget, Remaining
<1>2. UpdateBudget(budget, elapsed, charge)[k]
        = Clamp(Limit[k], budget[k] + charge[k])
  BY DEF UpdateBudget
<1> QED
  BY <1>1, <1>2 DEF Clamp

\* A decision that charges what fits keeps the stored budget exact.
LEMMA ExactCharge ==
  ASSUME SafeInv, NEW charge \in Budget,
         episode'.budget = UpdateBudget(episode.budget, elapsed, charge),
         Consume(charge),
         \A k \in BudgetKeys \ {"wall_time_ms"} :
           charge[k] <= Remaining(episode.budget, k)
  PROVE  BudgetExact'
<1>1. episode.budget \in Budget
  BY DEF SafeInv, TypeInv, TypeOK, Episodes
<1>2. ASSUME NEW k \in BudgetKeys \ {"wall_time_ms"}
      PROVE  episode'.budget[k] = spent'[k]
  <2>1. episode'.budget[k] = episode.budget[k] + charge[k]
    BY <1>1, UnclampedCharge
  <2>2. spent'[k] = spent[k] + charge[k]
    BY DEF Consume
  <2> QED
    BY <2>1, <2>2 DEF SafeInv, BudgetExact
<1> QED
  BY <1>2 DEF BudgetExact

LEMMA SettlesFits ==
  ASSUME SafeInv, NEW i, NEW out, NEW code, Settles(i, out, code),
         NEW k \in BudgetKeys \ {"wall_time_ms"}
  PROVE  ToolCharge(out, code)[k] <= Remaining(episode.budget, k)
<1>1. runs[i] \in Runs /\ i \in RunningRuns
  BY RunType DEF SafeInv, TypeInv, Settles, RunningRuns
<1>2. /\ Remaining(episode.budget, "steps") >= 1
      /\ Remaining(episode.budget, "tool_calls") >= 1
      /\ runs[i].input_bytes_reserved
           <= Remaining(episode.budget, "input_bytes")
      /\ runs[i].output_bytes_reserved
           <= Remaining(episode.budget, "artifact_bytes")
      /\ runs[i].input_bytes_reserved \in Nat
      /\ runs[i].output_bytes_reserved \in Nat
  BY <1>1 DEF SafeInv, ReservationHolds, Runs
<1>3. \A key \in BudgetKeys : Remaining(episode.budget, key) \in Int
  BY LimitAssumption
     DEF SafeInv, TypeInv, TypeOK, Episodes, Budget, Remaining
<1> DEFINE input == IF code = "none" THEN out.input_bytes ELSE 0
           output == IF code = "none" /\ out.artifact # None
                     THEN Size(out.artifact) ELSE 0
<1>4. input \in Nat /\ input <= runs[i].input_bytes_reserved
  BY <1>1, <1>2, GoodOutput DEF Settles, Settlement
<1>5. output \in Nat /\ output <= runs[i].output_bytes_reserved
  BY <1>1, <1>2, GoodOutput, OutputType, SizeType DEF Settles, Settlement
<1>6. /\ ToolCharge(out, code)["steps"] = 1
      /\ ToolCharge(out, code)["tool_calls"] = 1
      /\ ToolCharge(out, code)["input_bytes"] = input
      /\ ToolCharge(out, code)["artifact_bytes"] = output
  BY DEF ToolCharge, StepCharge, NoCharge, BudgetKeys
<1> HIDE DEF input, output
<1>7. "input_bytes" \in BudgetKeys /\ "artifact_bytes" \in BudgetKeys
  BY DEF BudgetKeys
<1>8. /\ input <= Remaining(episode.budget, "input_bytes")
      /\ output <= Remaining(episode.budget, "artifact_bytes")
  BY <1>2, <1>3, <1>4, <1>5, <1>7
<1>9. k \in {"steps", "tool_calls", "input_bytes", "artifact_bytes"}
  BY DEF BudgetKeys
<1> QED
  BY <1>2, <1>6, <1>8, <1>9

LEMMA CompletesFits ==
  ASSUME SafeInv, NEW r \in Requests, Completes(r),
         NEW k \in BudgetKeys \ {"wall_time_ms"}
  PROVE  LocalCharge(r)[k] <= Remaining(episode.budget, k)
<1>1. \A key \in BudgetKeys : /\ Remaining(episode.budget, key) \in Int
                              /\ Remaining(episode.budget, key) >= 0
  BY LimitAssumption DEF SafeInv, WithinLimits, TypeInv, TypeOK, Episodes,
                         Budget, Remaining
<1>2. Remaining(episode.budget, "steps") >= 1
  <2>1. Remaining(episode.budget, "steps") # 0
    BY AppliedFields DEF SafeInv, Solvent, Exhausted
  <2> QED
    BY <1>1, <2>1 DEF BudgetKeys
<1> DEFINE output == IF Renders(r) THEN Size(Capture(r)) ELSE 0
<1>3. output <= Remaining(episode.budget, "artifact_bytes")
  <2>1. CASE Renders(r)
    BY <2>1 DEF Completes, FitsArtifactBudget
  <2>2. CASE ~Renders(r)
    BY <1>1, <2>2 DEF BudgetKeys
  <2> QED
    BY <2>1, <2>2
<1> HIDE DEF output
<1>4. LocalCharge(r) = [StepCharge EXCEPT !["artifact_bytes"] = output]
  BY DEF LocalCharge, output
<1>5. /\ LocalCharge(r)["steps"] = 1
      /\ LocalCharge(r)["tool_calls"] = 0
      /\ LocalCharge(r)["input_bytes"] = 0
      /\ LocalCharge(r)["artifact_bytes"] = output
  BY <1>4 DEF StepCharge, NoCharge, BudgetKeys
<1>6. k \in {"steps", "tool_calls", "input_bytes", "artifact_bytes"}
  BY DEF BudgetKeys
<1> QED
  BY <1>1, <1>2, <1>3, <1>5, <1>6

\* A step keeps the budget exact and within its limits, and an episode left
\* active can pay for another step.
LEMMA BudgetStep ==
  ASSUME SafeInv, [Next]_vars
  PROVE  BudgetExact' /\ Solvent' /\ WithinLimits'
<1>1. CASE UNCHANGED <<episode, spent>>
  BY <1>1 DEF SafeInv, BudgetExact, Solvent, WithinLimits
<1>2. ASSUME NEW charge \in Budget,
             episode'.budget = UpdateBudget(episode.budget, elapsed, charge)
      PROVE  WithinLimits'
  <2>1. ASSUME NEW k \in BudgetKeys PROVE episode'.budget[k] <= Limit[k]
    <3> DEFINE used == IF k = "wall_time_ms" THEN elapsed
                                             ELSE episode.budget[k] + charge[k]
    <3>1. Limit[k] \in Nat /\ used \in Int
      <4>1. elapsed \in Int
        BY LimitAssumption DEF SafeInv, TypeInv, TypeOK, BudgetKeys
      <4>2. episode.budget \in [BudgetKeys -> Nat]
        BY DEF SafeInv, TypeInv, TypeOK, Episodes, Budget
      <4> QED
        BY <4>1, <4>2, LimitAssumption DEF Budget
    <3>2. episode'.budget[k] = Clamp(Limit[k], used)
      BY <1>2 DEF UpdateBudget
    <3> HIDE DEF used
    <3> QED
      BY <3>1, <3>2, ClampType
  <2> QED
    BY <2>1 DEF WithinLimits
<1>3. ASSUME NEW i, NEW out, NEW code, Settles(i, out, code)
      PROVE  BudgetExact' /\ Solvent' /\ WithinLimits'
  <2>1. Consume(ToolCharge(out, code))
    BY <1>3 DEF Settles, SettleRun
  <2> QED
    BY <1>2, <1>3, <2>1, SettlesEpisode, SettlesFits, ExactCharge
       DEF SafeInv, Solvent
<1>4. ASSUME NEW r \in Requests, Completes(r)
      PROVE  BudgetExact' /\ Solvent' /\ WithinLimits'
  <2>1. Consume(LocalCharge(r)) /\ LocalCharge(r) \in Budget
    BY <1>4, LocalChargeType DEF Completes, SafeInv, TypeInv
  <2> QED
    BY <1>2, <1>4, <2>1, CompletesEpisode, CompletesFits, ExactCharge
       DEF SafeInv, Solvent
<1> QED
  BY <1>1, <1>3, <1>4, StepKinds DEF Quiet, Reserves, Rejects, SafeInv

LEMMA NextSafeInv == SafeInv /\ [Next]_vars => SafeInv'
BY NextTypeInv, DecidedOnceStep, ReservationHoldsStep, BudgetStep,
   RunVersionsStep DEF SafeInv

THEOREM Invariance == Spec => []SafeInv
BY InitSafeInv, NextSafeInv, PTL DEF Spec

\* While a tool runs without any lock, nothing else moves its episode: the
\* version check of _finalize_tool never fails, and what the run reserved
\* stays available.
THEOREM ReservationsHold == Spec => []ReservationHolds
<1>1. SafeInv => ReservationHolds
  BY DEF SafeInv
<1> QED
  BY <1>1, Invariance, PTL

\* An action id is decided once, and run by at most one tool run, however its
\* retries, reuses and recoveries interleave.
THEOREM ActionsDecidedOnce == Spec => []DecidedOnce
<1>1. SafeInv => DecidedOnce
  BY DEF SafeInv
<1> QED
  BY <1>1, Invariance, PTL

\* No charge is ever cut by the clamp of budgets._counter.
THEOREM BudgetsExact == Spec => []BudgetExact
<1>1. SafeInv => BudgetExact
  BY DEF SafeInv
<1> QED
  BY <1>1, Invariance, PTL

-------------------------------------------------------------------------------
(* Refinement of AtomicEpisode *)

InFlight == {runs[i].request : i \in RunningRuns}

LEMMA InitRefines == Init => Atomic!AtomicInit
BY DEF Init, Atomic!AtomicInit, RunningRuns

\* Reservations map to Reserve, settled runs to Advance, rejected actions to
\* Reject and completed ones to Advance; everything else is a stutter.
LEMMA NextRefines ==
  ASSUME SafeInv, [Next]_vars
  PROVE  [Atomic!AtomicNext]_(Atomic!avars)
<1>1. CASE Quiet
  <2>1. RunningRuns' = RunningRuns
    BY <1>1, QuietRuns DEF SafeInv, RunningRuns
  <2>2. \A i \in RunningRuns : runs'[i].request = runs[i].request
    BY <1>1, QuietRuns DEF SafeInv, RunningRuns
  <2>3. InFlight' = InFlight
    BY <2>1, <2>2 DEF InFlight
  <2> QED
    BY <1>1, <2>3 DEF Quiet, Atomic!avars, InFlight
<1>2. ASSUME NEW r \in Requests, NEW i \in RunIds, Reserves(r, i)
      PROVE  Atomic!Reserve(r)
  <2>1. RunningRuns = {} /\ InFlight = {}
    BY <1>2 DEF Reserves, Checked, InFlight
  <2>2. /\ \A j \in RunIds \ {i} : runs'[j] = runs[j]
        /\ runs'[i].status = "running" /\ runs'[i].request = r
    BY <1>2, ReservesRuns DEF SafeInv
  <2>3. RunningRuns' = {i}
    BY <2>1, <2>2 DEF RunningRuns
  <2>4. InFlight' = {r}
    BY <2>2, <2>3 DEF InFlight
  <2> QED
    BY <1>2, <2>1, <2>4 DEF Reserves, Checked, Recorded, InFlight,
                            Atomic!Reserve, Atomic!Undecided
<1>3. ASSUME NEW i, NEW out, NEW code \in FailureCodes \cup {"none"},
             Settles(i, out, code)
      PROVE  Atomic!AtomicNext
  <2> DEFINE r == runs[i].request
             row == IF code = "none" THEN "success" ELSE code
  <2>1. i \in RunIds /\ runs[i] \in Runs /\ RunningRuns = {i}
    BY <1>3, RunType
       DEF Settles, SafeInv, TypeInv, ReservationHolds, RunningRuns
  <2>2. r \in Requests /\ row \in Codes
    BY <2>1 DEF Runs, FailureCodes, Codes
  <2>3. /\ episode.status = "active"
        /\ r.expected_state_version = episode.state_version
    BY <1>3, <2>1 DEF Settles, SafeInv, ReservationHolds, RunVersions
  <2>4. Atomic!Undecided(r)
    BY <1>3, <2>1 DEF Settles, SafeInv, DecidedOnce, Recorded, Atomic!Undecided
  <2>5. /\ episode'.state_version = episode.state_version + 1
        /\ episode'.status \in {"active", "terminated", "truncated"}
    BY <1>3, SettlesEpisode DEF SafeInv, Statuses
  <2>6. results' = results
          \cup {Atomic!Decision(r, row, episode.state_version + 1)}
    BY <1>3, <2>5 DEF Settles, SettleRun, Row, Atomic!Decision
  <2>7. InFlight = {r}
    BY <2>1 DEF InFlight
  <2>8. RunningRuns' = {}
    BY <1>3, <2>1, SettlesRuns DEF SafeInv, RunningRuns
  <2>9. InFlight' = {}
    BY <2>8 DEF InFlight
  <2>10. Atomic!Advance(r, row)
    BY <2>3, <2>4, <2>5, <2>6, <2>7, <2>9 DEF Atomic!Advance, InFlight
  <2> QED
    BY <2>2, <2>10 DEF Atomic!AtomicNext
<1>4. ASSUME NEW r \in Requests, NEW code \in FailureCodes, Rejects(r, code)
      PROVE  Atomic!AtomicNext
  <2>1. InFlight = {} /\ InFlight' = {}
    BY <1>4 DEF Rejects, Checked, InFlight, RunningRuns
  <2>2. Atomic!Reject(r, code)
    BY <1>4, <2>1 DEF Rejects, Checked, Recorded, Row, FailureCodes, InFlight,
                      Atomic!Reject, Atomic!Undecided, Atomic!Decision
  <2> QED
    BY <2>2 DEF Atomic!AtomicNext, FailureCodes
<1>5. ASSUME NEW r \in Requests, Completes(r)
      PROVE  Atomic!AtomicNext
  <2>1. InFlight = {} /\ InFlight' = {}
    BY <1>5 DEF Completes, Checked, InFlight, RunningRuns
  <2>2. /\ episode'.state_version = episode.state_version + 1
        /\ episode'.status \in {"active", "terminated", "truncated"}
        /\ episode.status = "active"
    BY <1>5, CompletesEpisode, AppliedFields DEF SafeInv, Statuses
  <2>3. Atomic!Advance(r, "success")
    BY <1>5, <2>1, <2>2
       DEF Completes, Checked, Recorded, Row, InFlight,
           Atomic!Advance, Atomic!Undecided, Atomic!Decision
  <2> QED
    BY <2>3 DEF Atomic!AtomicNext, Codes
<1>6. (\E r \in Requests : Atomic!Reserve(r)) => Atomic!AtomicNext
  BY DEF Atomic!AtomicNext
<1> QED
  BY <1>1, <1>2, <1>3, <1>4, <1>5, <1>6, StepKinds DEF SafeInv

\* Threads, leases, recoveries, crashes and retries implement the episode that
\* decides each action in one step.
THEOREM ImplementsAtomicEpisode == Spec => AtomicEpisodeSpec
<1>1. SafeInv /\ [Next]_vars => [Atomic!AtomicNext]_(Atomic!avars)
  BY NextRefines
<1> QED
  BY <1>1, Invariance, InitRefines, PTL
     DEF Spec, AtomicEpisodeSpec, Atomic!AtomicSpec

-------------------------------------------------------------------------------
(* Decisions stand *)

LEMMA NextStands ==
  ASSUME SafeInv, [Next]_vars
  PROVE  /\ results \subseteq results'
         /\ artifacts \subseteq artifacts'
         /\ \A i \in RunIds : Settled(runs[i].status) => runs'[i] = runs[i]
         /\ episode.status # "active" => episode' = episode
<1> DEFINE Stands ==
         /\ results \subseteq results'
         /\ artifacts \subseteq artifacts'
         /\ \A i \in RunIds : Settled(runs[i].status) => runs'[i] = runs[i]
         /\ episode.status # "active" => episode' = episode
<1>1. CASE Quiet
  BY <1>1 DEF Quiet, Settled
<1>2. ASSUME NEW r \in Requests, NEW i \in RunIds, Reserves(r, i)
      PROVE  Stands
  <2>1. runs[i].status = "absent" /\ \A j \in RunIds \ {i} : runs'[j] = runs[j]
    BY <1>2, ReservesRuns DEF Reserves, SafeInv
  <2> QED
    BY <1>2, <2>1 DEF Reserves, Settled
<1>3. ASSUME NEW i, NEW out, NEW code, Settles(i, out, code)
      PROVE  Stands
  <2>1. /\ runs[i].status = "running"
        /\ \A j \in RunIds \ {i} : runs'[j] = runs[j]
    BY <1>3, SettlesRuns DEF Settles, SafeInv
  <2>2. results \subseteq results' /\ artifacts \subseteq artifacts'
    BY <1>3 DEF Settles, SettleRun
  <2>3. episode.status = "active"
    BY <1>3, <2>1 DEF Settles, SafeInv, ReservationHolds, RunningRuns
  <2> QED
    BY <2>1, <2>2, <2>3 DEF Settled
<1>4. ASSUME NEW r \in Requests, NEW code, Rejects(r, code)
      PROVE  Stands
  BY <1>4 DEF Rejects
<1>5. ASSUME NEW r \in Requests, Completes(r)
      PROVE  Stands
  <2>1. episode.status = "active"
    BY <1>5, AppliedFields DEF SafeInv
  <2> QED
    BY <1>5, <2>1 DEF Completes
<1> QED
  BY <1>1, <1>2, <1>3, <1>4, <1>5, StepKinds DEF SafeInv

\* Rows, settled runs and artifacts stay as they were written, and a closed
\* episode does not change any more.
THEOREM DecisionsAreFinal == Spec => DecisionsStand
<1>1. SafeInv /\ [Next]_vars =>
        [/\ results \subseteq results'
         /\ artifacts \subseteq artifacts'
         /\ \A i \in RunIds : Settled(runs[i].status) => runs'[i] = runs[i]
         /\ episode.status # "active" => episode' = episode]_store
  BY NextStands
<1> QED
  BY <1>1, Invariance, PTL DEF Spec, DecisionsStand

-------------------------------------------------------------------------------
(* Provenance *)

LEMMA ProvenanceStep ==
  ASSUME SafeInv, ProvenanceUnique, [Next]_vars
  PROVE  ProvenanceUnique'
<1>1. ASSUME NEW artifact, ~Conflicts(artifact),
             artifacts' \in {artifacts, artifacts \cup {artifact}}
      PROVE  ProvenanceUnique'
  BY <1>1 DEF ProvenanceUnique, Conflicts
<1>2. CASE artifacts' = artifacts
  BY <1>2 DEF ProvenanceUnique
<1>3. ASSUME NEW i, NEW out, NEW code, Settles(i, out, code)
      PROVE  ProvenanceUnique'
  <2>1. CASE code = "none" /\ out.artifact # None
    <3>1. ~Conflicts(Identified(out.artifact))
      BY <1>3, <2>1, RunType, GoodOutput DEF Settles, Settlement, SafeInv, TypeInv
    <3>2. artifacts' = artifacts \cup {Identified(out.artifact)}
      BY <1>3, <2>1 DEF Settles, SettleRun
    <3> QED
      BY <1>1, <3>1, <3>2
  <2>2. CASE ~(code = "none" /\ out.artifact # None)
    BY <1>2, <1>3, <2>2 DEF Settles, SettleRun
  <2> QED
    BY <2>1, <2>2
<1>4. ASSUME NEW r \in Requests, Completes(r)
      PROVE  ProvenanceUnique'
  BY <1>1, <1>2, <1>4 DEF Completes
<1> QED
  BY <1>2, <1>3, <1>4, StepKinds DEF Quiet, Reserves, Rejects, SafeInv

\* An artifact id never names two contents or two provenances.
THEOREM ProvenanceIsUnique == Spec => []ProvenanceUnique
<1>1. Init => ProvenanceUnique
  BY DEF Init, ProvenanceUnique
<1>2. SafeInv /\ ProvenanceUnique /\ [Next]_vars => ProvenanceUnique'
  BY ProvenanceStep
<1> QED
  BY <1>1, <1>2, Invariance, PTL DEF Spec


-------------------------------------------------------------------------------
(* Answers *)

\* Every answer is a row that is in the table now, or a transient error.
LEMMA AnswersStep ==
  ASSUME TypeInv, AnswersAreDurable, [Next]_vars
  PROVE  AnswersAreDurable'
<1>1. reply' = None => AnswersAreDurable'
  BY DEF AnswersAreDurable
<1>2. ASSUME NEW r, NEW code, NEW version, reply' = Row(r, code, version),
             Row(r, code, version) \in results' \/ code \in TransientCodes
      PROVE  AnswersAreDurable'
  BY <1>2 DEF AnswersAreDurable, Row
<1>3. ASSUME NEW row \in results
      PROVE  Row(row.request, row.code, row.state_version) = row
  BY <1>3 DEF Row, TypeInv, TypeOK, Rows
<1>4. ASSUME NEW w \in Workers, StepTransaction(w) PROVE AnswersAreDurable'
  <2>1. CASE Retry(w)
    <3>1. PICK row \in results :
            /\ row.request = request[w] /\ results' = results
            /\ reply' = Row(request[w], row.code, row.state_version)
      BY <2>1 DEF Retry, Answer, Recorded, store
    <3> QED BY <1>2, <1>3, <3>1
  <2>2. CASE ReusedId(w) \/ Busy(w) \/ StaleVersion(w) \/ ToolRejected(w)
             \/ CaptureConflict(w)
    BY <1>2, <2>2 DEF ReusedId, Busy, StaleVersion, ToolRejected, CaptureConflict,
                      Refuse, Answer, TransientCodes
  <2>3. CASE ReserveTool(w)
    BY <1>1, <2>3 DEF ReserveTool
  <2>4. CASE RejectStep(w)
    <3>1. PICK code : RecordFailure(w, code)
      BY <2>4 DEF RejectStep
    <3> QED BY <1>2, <3>1 DEF RecordFailure, Answer
  <2>5. CASE CompleteStep(w)
    BY <1>2, <2>5 DEF CompleteStep, Answer
  <2> QED BY <1>4, <2>1, <2>2, <2>3, <2>4, <2>5 DEF StepTransaction
<1>5. ASSUME NEW w \in Workers, ReturnTool(w) PROVE AnswersAreDurable'
  <2>1. CASE LateFinalize(w)
    <3>1. PICK row \in results :
            /\ reply' = Row(row.request, row.code, row.state_version) /\ results' = results
      BY <2>1 DEF LateFinalize, Answer, Recorded, store
    <3> QED BY <1>2, <1>3, <3>1
  <2>2. ASSUME NEW out, NEW code, FinalizeTool(w, out, code) PROVE AnswersAreDurable'
    <3>1. PICK verdict :
            /\ SettleRun(held[w], out, verdict)
            /\ reply' = Row(runs[held[w]].request,
                            IF verdict = "none" THEN "success" ELSE verdict,
                            episode'.state_version)
      BY <2>2 DEF FinalizeTool, Answer
    <3> QED BY <1>2, <3>1 DEF SettleRun
  <2> QED BY <1>5, <2>1, <2>2 DEF ReturnTool
<1>6. ASSUME NEW w \in Workers,
             Recover(w) \/ Abandon(w) \/ \E r \in Requests : StartStep(w, r)
      PROVE  AnswersAreDurable'
  BY <1>1, <1>6 DEF Recover, Abandon, StartStep
<1>7. CASE PassTime \/ \E i \in RunIds : ExpireLease(i)
  BY <1>1, <1>7 DEF PassTime, ExpireLease
<1>8. CASE UNCHANGED vars
  BY <1>8 DEF vars, store, AnswersAreDurable
<1> QED BY <1>4, <1>5, <1>6, <1>7, <1>8 DEF Next

\* A client that is told an outcome finds it in a row, whichever of its threads
\* settled the run; only errors that say so are told without one.
THEOREM AnswersInRows == Spec => []AnswersAreDurable
<1>1. Init => AnswersAreDurable
  BY DEF Init, AnswersAreDurable
<1>2. SafeInv => TypeInv
  BY DEF SafeInv
<1> QED BY <1>1, <1>2, AnswersStep, Invariance, PTL DEF Spec

-------------------------------------------------------------------------------
(* Evaluation *)

\* What became of the answer of an episode.
LEMMA EvaluationStep ==
  ASSUME SafeInv, EvaluationFollowsAnswer, [Next]_vars
  PROVE  EvaluationFollowsAnswer'
<1>1. ASSUME episode' = episode, results \subseteq results' PROVE EvaluationFollowsAnswer'
  BY <1>1 DEF EvaluationFollowsAnswer, Recorded
<1>2. ASSUME NEW i, NEW out, NEW code, Settles(i, out, code)
      PROVE  EvaluationFollowsAnswer'
  <2>1. episode.status = "active"
    BY <1>2 DEF Settles, SafeInv, ReservationHolds, RunningRuns
  <2>2. episode.final_answer = None /\ episode.evaluation = "none"
    BY <2>1 DEF EvaluationFollowsAnswer
  <2>3. /\ episode'.final_answer = None /\ episode'.evaluation = "none"
        /\ episode'.status # "terminated"
    <3>1. episode' = Advanced(episode, ToolCharge(out, code)) /\ episode \in Episodes
      BY <1>2 DEF Settles, SettleRun, SafeInv, TypeInv, TypeOK
    <3> QED BY <2>1, <2>2, <3>1 DEF Advanced, Episodes
  <2> QED BY <2>3 DEF EvaluationFollowsAnswer
<1>3. ASSUME NEW r \in Requests, Completes(r) PROVE EvaluationFollowsAnswer'
  <2> DEFINE e == Applied(r)
             a == Advanced(e, LocalCharge(r))
  <2>1. /\ episode \in Episodes /\ e \in Episodes /\ a \in Episodes
        /\ episode.status = "active" /\ e.status \in {"active", "terminated"}
    BY <1>3, AppliedFields, LocalChargeType, AdvancedType DEF SafeInv, TypeInv, TypeOK
  <2>2. PICK verdict \in Verdicts(r) : episode' = [a EXCEPT !.evaluation = verdict]
    BY <1>3 DEF Completes
  <2>3. /\ a.final_answer = e.final_answer
        /\ a.status = "terminated" <=> e.status = "terminated"
    BY <2>1, AdvancedFields
  <2>4. /\ episode'.final_answer = e.final_answer /\ episode'.evaluation = verdict
        /\ episode'.status = "terminated" <=> e.status = "terminated"
    <3> HIDE DEF a, e
    <3> QED BY <2>1, <2>2, <2>3 DEF Episodes
  <2>5. episode.final_answer = None
    BY <2>1 DEF EvaluationFollowsAnswer
  <2>6. r.client_action_id \in ClientActionIds /\ r.action \in Actions
    BY StoreAssumption
  <2>7. CASE r.action.type \in AnswerTypes
    <3>1. e.final_answer = r.client_action_id /\ e.status = "terminated"
      BY <2>1, <2>7 DEF Applied, AnswerTypes, Episodes
    <3>2. verdict # "none" <=> EvaluatesAnswer
      BY <2>2, <2>7 DEF Verdicts
    <3>3. Row(r, "success", episode'.state_version) \in results'
      BY <1>3 DEF Completes
    <3>4. r.client_action_id # None
      BY <2>6, StoreAssumption
    <3> HIDE DEF a, e
    <3> QED BY <2>4, <3>1, <3>2, <3>3, <3>4 DEF EvaluationFollowsAnswer, Recorded, Row
  <2>8. CASE r.action.type \notin AnswerTypes
    <3>1. r.action.type \in {"map.set_view", "memory.save_evidence"}
      BY <1>3, <2>1, <2>6, <2>8 DEF Completes, DomainError, Closed, Actions, AnswerTypes
    <3>2. e.final_answer = None /\ e.status = "active"
      BY <2>1, <2>5, <2>8, <3>1 DEF Applied, AnswerTypes, Episodes
    <3>3. verdict = "none"
      BY <2>2, <2>8 DEF Verdicts
    <3> HIDE DEF a, e
    <3> QED BY <2>4, <3>2, <3>3 DEF EvaluationFollowsAnswer
  <2> QED BY <2>7, <2>8
<1> QED BY <1>1, <1>2, <1>3, StepKinds DEF SafeInv, Quiet, Reserves, Rejects

\* An episode is evaluated when and only when its one answer is accepted, in
\* the transaction that accepts it.
THEOREM AnswersAreEvaluated == Spec => []EvaluationFollowsAnswer
<1>1. Init => EvaluationFollowsAnswer
  BY DEF Init, EvaluationFollowsAnswer
<1> QED BY <1>1, EvaluationStep, Invariance, PTL DEF Spec

-------------------------------------------------------------------------------
(* Sequences of events *)

AcceptedIn(s) == {n \in 1 .. Len(s) : s[n].type = "action.accepted"}

ClosingTypes == {"episode.terminated", "episode.truncated"}

ClosingIn(s) == {n \in 1 .. Len(s) : s[n].type \in ClosingTypes}

Outcomes == {"action.completed", "action.failed"}

\* The last action has been accepted and nothing has become of it yet.
Pending(s) == s # << >> /\ s[Len(s)].type = "action.accepted"

\* A trace up to version v: versions in order, outcomes behind their actions.
Reads(s, v) ==
  \A n \in 1 .. Len(s) :
    /\ s[n].state_version <= v
    /\ n # Len(s) => /\ s[n].state_version <= s[n + 1].state_version
                     /\ s[n].type = "action.accepted" => s[n + 1].type \in Outcomes

\* What a transaction tells of version v, besides the action it has accepted.
Plain(t, v) ==
  \A n \in 1 .. Len(t) : t[n].state_version = v /\ t[n].type # "action.accepted"

\* An action is accepted after a trace in which none is pending.
LEMMA Accepts ==
  ASSUME NEW s \in Seq(Events), NEW v \in Nat, NEW a \in Events, Reads(s, v), ~Pending(s),
         a.type = "action.accepted", a.state_version = v
  PROVE  /\ Append(s, a) \in Seq(Events) /\ Reads(Append(s, a), v)
         /\ AcceptedIn(Append(s, a)) = AcceptedIn(s) \cup {Len(s) + 1}
         /\ ClosingIn(Append(s, a)) = ClosingIn(s)
         /\ Len(Append(s, a)) = Len(s) + 1 /\ Append(s, a)[Len(s) + 1] = a
         /\ \A n \in 1 .. Len(s) : Append(s, a)[n] = s[n]
<1> DEFINE t == Append(s, a)
<1>1. /\ t \in Seq(Events) /\ Len(t) = Len(s) + 1 /\ t[Len(s) + 1] = a /\ Len(s) \in Nat
      /\ \A n \in 1 .. Len(s) : t[n] = s[n]
  OBVIOUS
<1>2. s # << >> => s[Len(s)].state_version <= v /\ s[Len(s)].type # "action.accepted"
  BY DEF Reads, Pending
<1> HIDE DEF t
<1>3. ASSUME NEW n \in 1 .. Len(t)
      PROVE  /\ t[n].state_version <= v
             /\ n # Len(t) => /\ t[n].state_version <= t[n + 1].state_version
                              /\ t[n].type = "action.accepted" => t[n + 1].type \in Outcomes
  <2>1. CASE n = Len(s) + 1
    BY <1>1, <2>1
  <2>2. CASE n = Len(s)
    <3>1. s # << >>
      BY <2>2
    <3> QED BY <1>1, <1>2, <2>2, <3>1
  <2>3. CASE n < Len(s)
    <3>1. n \in 1 .. Len(s) /\ n + 1 \in 1 .. Len(s)
      BY <1>1, <2>3
    <3> QED BY <1>1, <2>3, <3>1 DEF Reads
  <2> QED BY <1>1, <2>1, <2>2, <2>3
<1>4. Reads(t, v)
  BY <1>3 DEF Reads
<1>5. AcceptedIn(t) = AcceptedIn(s) \cup {Len(s) + 1} /\ ClosingIn(t) = ClosingIn(s)
  BY <1>1 DEF AcceptedIn, ClosingIn, ClosingTypes
<1> QED BY <1>1, <1>4, <1>5 DEF t

\* A transaction tells more, first the outcome if an action is pending.
LEMMA GoesOn ==
  ASSUME NEW s \in Seq(Events), NEW t \in Seq(Events), NEW v \in Nat, NEW w \in Nat, v <= w,
         Reads(s, v), Plain(t, w), ~Pending(s) \/ (t # << >> /\ t[1].type \in Outcomes)
  PROVE  /\ s \o t \in Seq(Events) /\ Reads(s \o t, w) /\ ~Pending(s \o t)
         /\ AcceptedIn(s \o t) = AcceptedIn(s)
         /\ \A n \in 1 .. Len(s) : (s \o t)[n] = s[n]
         /\ ClosingIn(s \o t) = ClosingIn(s) \cup {Len(s) + n : n \in ClosingIn(t)}
<1> DEFINE u == s \o t
<1>1. /\ u \in Seq(Events) /\ Len(u) = Len(s) + Len(t) /\ Len(s) \in Nat /\ Len(t) \in Nat
      /\ \A n \in 1 .. Len(u) : u[n] = IF n <= Len(s) THEN s[n] ELSE t[n - Len(s)]
  BY ConcatProperties
<1>13. \A n \in 1 .. Len(s) : s[n].state_version \in Nat
  <2>1. \A n \in 1 .. Len(s) : s[n] \in Events
    BY ElementOfSeq
  <2> QED BY <2>1 DEF Events
<1>2. s = << >> <=> Len(s) = 0
  BY EmptySeq
<1>3. t = << >> <=> Len(t) = 0
  BY EmptySeq
<1>4. u = << >> <=> Len(u) = 0
  BY <1>1, EmptySeq
<1> HIDE DEF u
<1>5. \A n \in 1 .. Len(s) : u[n] = s[n] /\ n \in 1 .. Len(u)
  BY <1>1
<1>6. \A n \in 1 .. Len(t) : u[Len(s) + n] = t[n] /\ Len(s) + n \in 1 .. Len(u)
  <2> TAKE n \in 1 .. Len(t)
  <2>1. Len(s) + n \in 1 .. Len(u) /\ ~(Len(s) + n <= Len(s)) /\ (Len(s) + n) - Len(s) = n
    BY <1>1
  <2> QED BY <1>1, <2>1
<1>7. \A n \in 1 .. Len(u) : n \in 1 .. Len(s) \/ \E m \in 1 .. Len(t) : n = Len(s) + m
  <2> TAKE n \in 1 .. Len(u)
  <2>1. CASE n <= Len(s)
    BY <2>1
  <2>2. CASE n > Len(s)
    <3>1. n - Len(s) \in 1 .. Len(t) /\ n = Len(s) + (n - Len(s))
      BY <1>1, <2>2
    <3> QED BY <3>1
  <2> QED BY <1>1, <2>1, <2>2
<1>8. ASSUME NEW n \in 1 .. Len(u)
      PROVE  /\ u[n].state_version <= w
             /\ n # Len(u) => /\ u[n].state_version <= u[n + 1].state_version
                              /\ u[n].type = "action.accepted" => u[n + 1].type \in Outcomes
  <2>1. CASE n < Len(s)
    <3>1. n \in 1 .. Len(s) /\ n + 1 \in 1 .. Len(s) /\ n # Len(s)
      BY <1>1, <2>1
    <3>2. /\ s[n].state_version <= v /\ s[n].state_version <= s[n + 1].state_version
          /\ s[n].type = "action.accepted" => s[n + 1].type \in Outcomes
      BY <3>1 DEF Reads
    <3>3. s[n].state_version \in Nat
      BY <1>13, <3>1
    <3> QED BY <1>5, <3>1, <3>2, <3>3
  <2>2. CASE n = Len(s)
    <3>1. n \in 1 .. Len(s) /\ s # << >>
      BY <1>2, <2>2
    <3>2. s[n].state_version <= v /\ s[n].state_version \in Nat
      BY <1>13, <3>1 DEF Reads
    <3>3. CASE Len(t) = 0
      BY <1>1, <1>5, <2>2, <3>1, <3>2, <3>3
    <3>4. CASE Len(t) # 0
      <4>1. 1 \in 1 .. Len(t)
        BY <1>1, <3>4
      <4>2. u[n + 1] = t[1] /\ t[1].state_version = w
        BY <1>6, <2>2, <4>1 DEF Plain
      <4>3. s[n].type = "action.accepted" => t[1].type \in Outcomes
        BY <2>2, <3>1 DEF Pending
      <4> QED BY <1>5, <3>1, <3>2, <4>2, <4>3
    <3> QED BY <3>3, <3>4
  <2>3. CASE n > Len(s)
    <3>1. PICK m \in 1 .. Len(t) : n = Len(s) + m
      BY <1>7, <2>3
    <3>2. t[m].state_version = w /\ t[m].type # "action.accepted"
      BY DEF Plain
    <3>3. n # Len(u) => m + 1 \in 1 .. Len(t) /\ n + 1 = Len(s) + (m + 1)
      <4>1. m \in Nat /\ m >= 1 /\ m <= Len(t)
        BY <1>1
      <4>2. n # Len(u) => m # Len(t)
        BY <1>1, <3>1
      <4>3. n + 1 = Len(s) + (m + 1)
        BY <1>1, <3>1, <4>1
      <4> QED BY <1>1, <4>1, <4>2, <4>3
    <3>4. n # Len(u) => u[n + 1].state_version = w
      BY <1>6, <3>3 DEF Plain
    <3>5. u[n] = t[m]
      BY <1>6, <3>1
    <3> QED BY <3>2, <3>4, <3>5
  <2> QED BY <1>1, <2>1, <2>2, <2>3
<1>9. Reads(u, w)
  BY <1>8 DEF Reads
<1>10. ~Pending(u)
  <2>1. CASE Len(t) = 0
    <3>1. ~Pending(s) /\ Len(u) = Len(s)
      BY <1>1, <1>3, <2>1
    <3>2. CASE Len(s) = 0
      BY <1>4, <3>1, <3>2 DEF Pending
    <3>3. CASE Len(s) # 0
      <4>1. Len(s) \in 1 .. Len(s)
        BY <1>1, <3>3
      <4> QED BY <1>2, <1>5, <3>1, <3>3, <4>1 DEF Pending
    <3> QED BY <3>2, <3>3
  <2>2. CASE Len(t) # 0
    <3>1. Len(t) \in 1 .. Len(t) /\ Len(u) = Len(s) + Len(t)
      BY <1>1, <2>2
    <3> QED BY <1>6, <3>1 DEF Pending, Plain
  <2> QED BY <2>1, <2>2
<1>11. AcceptedIn(u) = AcceptedIn(s)
  <2>1. AcceptedIn(s) \subseteq AcceptedIn(u)
    BY <1>5 DEF AcceptedIn
  <2>2. ASSUME NEW n \in AcceptedIn(u) PROVE n \in AcceptedIn(s)
    <3>1. n \in 1 .. Len(u) /\ u[n].type = "action.accepted"
      BY <2>2 DEF AcceptedIn
    <3>2. ASSUME NEW m \in 1 .. Len(t), n = Len(s) + m PROVE FALSE
      BY <1>6, <3>1, <3>2 DEF Plain
    <3>3. n \in 1 .. Len(s)
      BY <1>7, <3>1, <3>2
    <3> QED BY <1>5, <3>1, <3>3 DEF AcceptedIn
  <2> QED BY <2>1, <2>2
<1>12. ClosingIn(u) = ClosingIn(s) \cup {Len(s) + n : n \in ClosingIn(t)}
  BY <1>5, <1>6, <1>7 DEF ClosingIn
<1> QED BY <1>1, <1>5, <1>9, <1>10, <1>11, <1>12 DEF u

LEMMA TwoMore ==
  ASSUME NEW s \in Seq(Events), NEW a \in Events, NEW b \in Events
  PROVE  s \o << a, b >> = Append(s, a) \o << b >>
<1>1. /\ << a, b >> \in Seq(Events) /\ << b >> \in Seq(Events) /\ Append(s, a) \in Seq(Events)
      /\ s \o << a, b >> \in Seq(Events) /\ Append(s, a) \o << b >> \in Seq(Events)
  OBVIOUS
<1>2. Len(s \o << a, b >>) = Len(s) + 2 /\ Len(Append(s, a) \o << b >>) = Len(s) + 2
  OBVIOUS
<1>3. \A n \in 1 .. Len(s) + 2 : (s \o << a, b >>)[n] = (Append(s, a) \o << b >>)[n]
  OBVIOUS
<1> QED BY <1>1, <1>2, <1>3, SeqEqual

\* An event by itself.
LEMMA OneEvent ==
  ASSUME episode'.state_version \in Nat, NEW type \in EventTypes \ {"action.accepted"}
  PROVE  /\ << Event(type) >> \in Seq(Events)
         /\ Plain(<< Event(type) >>, episode'.state_version)
         /\ << Event(type) >> # << >> /\ << Event(type) >>[1].type = type
         /\ ClosingIn(<< Event(type) >>) = IF type \in ClosingTypes THEN {1} ELSE {}
  BY DEF Event, Events, EventTypes, Plain, ClosingIn, ClosingTypes

LEMMA NoEvent ==
  /\ << >> \in Seq(Events) /\ \A v : Plain(<< >>, v)
  /\ ClosingIn(<< >>) = {}
  BY DEF Plain, ClosingIn

\* What a transaction makes of a trace before it closes the episode, if it
\* does.
Grown(s, u, v) ==
  /\ u \in Seq(Events) /\ Reads(u, v) /\ ~Pending(u)
  /\ AcceptedIn(u) = AcceptedIn(s) /\ \A n \in AcceptedIn(s) : u[n] = s[n]
  /\ ClosingIn(u) = ClosingIn(s)

\* It begins with the outcome of the pending action,
LEMMA GrowsFirst ==
  ASSUME NEW s \in Seq(Events), NEW v \in Nat, Reads(s, v), episode'.state_version \in Nat,
         v <= episode'.state_version, NEW type \in Outcomes
  PROVE  Grown(s, s \o << Event(type) >>, episode'.state_version)
<1>1. type \in EventTypes \ {"action.accepted"} /\ type \notin ClosingTypes
  BY DEF Outcomes, EventTypes, ClosingTypes
<1>2. /\ << Event(type) >> \in Seq(Events)
      /\ Plain(<< Event(type) >>, episode'.state_version)
      /\ << Event(type) >> # << >> /\ << Event(type) >>[1].type \in Outcomes
      /\ ClosingIn(<< Event(type) >>) = {}
  BY <1>1, OneEvent
<1>3. AcceptedIn(s) \subseteq 1 .. Len(s)
  BY DEF AcceptedIn
<1> DEFINE t == << Event(type) >>
           u == s \o t
<1> HIDE DEF t
<1>4. /\ u \in Seq(Events) /\ Reads(u, episode'.state_version) /\ ~Pending(u)
      /\ AcceptedIn(u) = AcceptedIn(s) /\ \A n \in 1 .. Len(s) : u[n] = s[n]
      /\ ClosingIn(u) = ClosingIn(s) \cup {Len(s) + n : n \in ClosingIn(t)}
  BY <1>2, GoesOn DEF t
<1> HIDE DEF u
<1>5. ClosingIn(u) = ClosingIn(s)
  BY <1>2, <1>4 DEF t
<1> QED BY <1>3, <1>4, <1>5 DEF Grown, t, u

\* and goes on with anything that is no action and no end.
LEMMA GrowsOn ==
  ASSUME NEW s \in Seq(Events), NEW u, NEW v \in Nat, Grown(s, u, v),
         NEW t \in Seq(Events), Plain(t, v), ClosingIn(t) = {}
  PROVE  Grown(s, u \o t, v)
<1>1. AcceptedIn(u) \subseteq 1 .. Len(u)
  BY DEF AcceptedIn
<1>2. /\ u \in Seq(Events) /\ Reads(u, v) /\ ~Pending(u)
      /\ AcceptedIn(u) = AcceptedIn(s) /\ \A n \in AcceptedIn(s) : u[n] = s[n]
      /\ ClosingIn(u) = ClosingIn(s)
  BY DEF Grown
<1> DEFINE x == u \o t
<1>3. /\ x \in Seq(Events) /\ Reads(x, v) /\ ~Pending(x)
      /\ AcceptedIn(x) = AcceptedIn(u) /\ \A n \in 1 .. Len(u) : x[n] = u[n]
      /\ ClosingIn(x) = ClosingIn(u) \cup {Len(u) + n : n \in ClosingIn(t)}
  BY <1>2, GoesOn
<1> HIDE DEF x
<1>4. ClosingIn(x) = ClosingIn(u)
  BY <1>3
<1> QED BY <1>1, <1>2, <1>3, <1>4 DEF Grown, x

\* It ends with the event that closes the episode.
LEMMA GrowsLast ==
  ASSUME NEW s \in Seq(Events), NEW u, Grown(s, u, episode'.state_version),
         episode' \in Episodes
  PROVE  /\ u \o Closing \in Seq(Events) /\ Reads(u \o Closing, episode'.state_version)
         /\ ~Pending(u \o Closing) /\ AcceptedIn(u \o Closing) = AcceptedIn(s)
         /\ \A n \in AcceptedIn(s) : (u \o Closing)[n] = s[n]
         /\ IF episode'.status = "active"
            THEN ClosingIn(u \o Closing) = ClosingIn(s)
            ELSE \E n : ClosingIn(u \o Closing) = ClosingIn(s) \cup {n}
<1>1. episode'.state_version \in Nat /\ u \in Seq(Events)
  BY DEF Episodes, Grown
<1>2. /\ Closing \in Seq(Events) /\ Plain(Closing, episode'.state_version)
      /\ ClosingIn(Closing) = IF episode'.status = "active" THEN {} ELSE {1}
  BY <1>1, OneEvent, NoEvent DEF Closing, EventTypes, ClosingTypes
<1>3. AcceptedIn(u) \subseteq 1 .. Len(u)
  BY DEF AcceptedIn
<1>4. /\ u \o Closing \in Seq(Events) /\ Reads(u \o Closing, episode'.state_version)
      /\ ~Pending(u \o Closing) /\ AcceptedIn(u \o Closing) = AcceptedIn(u)
      /\ \A n \in 1 .. Len(u) : (u \o Closing)[n] = u[n]
      /\ ClosingIn(u \o Closing) = ClosingIn(u) \cup {Len(u) + n : n \in ClosingIn(Closing)}
  BY <1>1, <1>2, GoesOn DEF Grown
<1> DEFINE x == u \o Closing
<1> HIDE DEF x
<1>5. IF episode'.status = "active"
      THEN ClosingIn(x) = ClosingIn(s)
      ELSE ClosingIn(x) = ClosingIn(s) \cup {Len(u) + 1}
  BY <1>2, <1>4 DEF Grown, x
<1>6. \A n \in AcceptedIn(s) : x[n] = s[n]
  BY <1>3, <1>4 DEF Grown, x
<1> QED BY <1>4, <1>5, <1>6 DEF Grown, x

-------------------------------------------------------------------------------
(* What a trace tells of its episode *)

\* A pending action is that of the tool that runs.
PendingRuns ==
  Pending(events) =>
    \E i \in RunningRuns :
      runs[i].request.client_action_id = events[Len(events)].client_action_id

ClosesOnce ==
  IF episode.status = "active" THEN ClosingIn(events) = {}
                               ELSE \E n : ClosingIn(events) = {n}

\* An id is accepted once, and then decided or under way.
AcceptedOnce ==
  \A m, n \in AcceptedIn(events) :
    events[m].client_action_id = events[n].client_action_id => m = n

AcceptedIds == {events[n].client_action_id : n \in AcceptedIn(events)}

AcceptedAreKnown ==
  AcceptedIds = {row.request.client_action_id : row \in results}
                  \cup {runs[i].request.client_action_id : i \in RunningRuns}

\* A recorded tool call was run, to the same end.
CallsRan ==
  ToolsConfigured =>
    \A row \in results : row.request.action.type = "tool.invoke" =>
      \E i \in RunIds :
        /\ runs[i].status = IF row.code = "success" THEN "completed" ELSE "failed"
        /\ runs[i].request = row.request

TraceInv ==
  /\ Reads(events, episode.state_version)
  /\ PendingRuns /\ ClosesOnce /\ AcceptedOnce /\ AcceptedAreKnown /\ CallsRan

\* Nothing is pending while no tool runs.
LEMMA NonePending ==
  ASSUME TraceInv, RunningRuns = {}
  PROVE  ~Pending(events)
  BY DEF TraceInv, PendingRuns

\* An action that has passed the checks is accepted.
LEMMA AcceptsAction ==
  ASSUME SafeInv, TraceInv, NEW r \in Requests, Checked(r)
  PROVE  LET s == Append(events, Accepted(r)) IN
         /\ s \in Seq(Events) /\ Reads(s, episode.state_version)
         /\ Len(s) = Len(events) + 1 /\ Len(s) \in Nat
         /\ s[Len(s)].type = "action.accepted"
         /\ s[Len(s)].client_action_id = r.client_action_id
         /\ ClosingIn(s) = ClosingIn(events)
         /\ \A m, n \in AcceptedIn(s) : s[m].client_action_id = s[n].client_action_id => m = n
         /\ {s[n].client_action_id : n \in AcceptedIn(s)} = AcceptedIds \cup {r.client_action_id}
         /\ RunningRuns = {}
<1> DEFINE s == Append(events, Accepted(r))
           L == Len(events)
<1>1. /\ events \in Seq(Events) /\ episode.state_version \in Nat /\ Accepted(r) \in Events
      /\ L \in Nat
  BY AcceptedType DEF SafeInv, TypeInv, TypeOK, Episodes
<1>2. /\ Accepted(r).type = "action.accepted"
      /\ Accepted(r).state_version = episode.state_version
      /\ Accepted(r).client_action_id = r.client_action_id
  BY DEF Accepted
<1>3. RunningRuns = {} /\ ~Pending(events) /\ Reads(events, episode.state_version)
  BY NonePending DEF Checked, TraceInv
<1>4. /\ s \in Seq(Events) /\ Reads(s, episode.state_version)
      /\ AcceptedIn(s) = AcceptedIn(events) \cup {L + 1}
      /\ ClosingIn(s) = ClosingIn(events)
      /\ Len(s) = L + 1 /\ s[L + 1] = Accepted(r)
      /\ \A n \in 1 .. L : s[n] = events[n]
  BY <1>1, <1>2, <1>3, Accepts
<1>5. r.client_action_id \notin AcceptedIds
  BY <1>3 DEF TraceInv, AcceptedAreKnown, Checked, Recorded
<1>6. \A n \in AcceptedIn(events) : n \in 1 .. L
  BY DEF AcceptedIn
<1>7. /\ \A n \in AcceptedIn(events) : s[n] = events[n]
      /\ \A n \in AcceptedIn(events) : events[n].client_action_id # r.client_action_id
  BY <1>4, <1>5, <1>6 DEF AcceptedIds
<1> HIDE DEF s, L
<1>8. \A m, n \in AcceptedIn(s) : s[m].client_action_id = s[n].client_action_id => m = n
  BY <1>2, <1>4, <1>7 DEF TraceInv, AcceptedOnce
<1>9. {s[n].client_action_id : n \in AcceptedIn(s)} = AcceptedIds \cup {r.client_action_id}
  BY <1>2, <1>4, <1>7 DEF AcceptedIds
<1>10. /\ s[Len(s)].type = "action.accepted" /\ Len(s) \in Nat
       /\ s[Len(s)].client_action_id = r.client_action_id
  BY <1>1, <1>2, <1>4
<1>11. Len(s) = Len(events) + 1
  BY <1>4 DEF L
<1> QED BY <1>3, <1>4, <1>8, <1>9, <1>10, <1>11, Zenon DEF s

\* The trace after a step that tells of a decided action: what was accepted
\* before it, then the outcome and the rest.
LEMMA DecidesAction ==
  ASSUME SafeInv, TypeInv', NEW s \in Seq(Events), NEW A,
         AcceptedIn(events') = AcceptedIn(s), \A n \in AcceptedIn(s) : events'[n] = s[n],
         Reads(events, episode.state_version)', ~Pending(events'),
         \A m, n \in AcceptedIn(s) : s[m].client_action_id = s[n].client_action_id => m = n,
         {s[n].client_action_id : n \in AcceptedIn(s)} = A,
         RunningRuns' = {}, {row.request.client_action_id : row \in results'} = A,
         IF episode'.status = "active" THEN ClosingIn(events') = {}
                                       ELSE \E n : ClosingIn(events') = {n},
         CallsRan'
  PROVE  TraceInv'
<1>1. AcceptedIds' = A
  BY DEF AcceptedIds
<1>2. AcceptedAreKnown'
  BY <1>1 DEF AcceptedAreKnown
<1>3. AcceptedOnce'
  BY DEF AcceptedOnce
<1>4. PendingRuns' /\ ClosesOnce'
  BY DEF PendingRuns, ClosesOnce
<1> QED BY <1>2, <1>3, <1>4 DEF TraceInv

\* Recorded tool calls were run, and stay so.
LEMMA CallsRanStep ==
  ASSUME SafeInv, CallsRan, [Next]_vars
  PROVE  CallsRan'
<1> SUFFICES ASSUME ToolsConfigured, NEW row \in results',
                    row.request.action.type = "tool.invoke"
             PROVE  \E i \in RunIds :
                      /\ runs'[i].status = IF row.code = "success" THEN "completed"
                                                                   ELSE "failed"
                      /\ runs'[i].request = row.request
  BY DEF CallsRan
<1>1. CASE row \in results
  <2>1. PICK i \in RunIds :
          /\ runs[i].status = IF row.code = "success" THEN "completed" ELSE "failed"
          /\ runs[i].request = row.request
    BY <1>1 DEF CallsRan
  <2>2. runs'[i] = runs[i]
    BY <2>1, NextStands DEF Settled
  <2> QED BY <2>1, <2>2
<1>2. CASE row \notin results
  <2>1. ASSUME NEW r \in Requests, ~IsToolCall(r), NEW code, NEW version,
               row = Row(r, code, version)
        PROVE  FALSE
    BY <2>1 DEF IsToolCall, Row
  <2>2. ASSUME NEW i, NEW out, NEW code \in FailureCodes \cup {"none"}, Settles(i, out, code)
        PROVE  /\ i \in RunIds /\ runs'[i].request = row.request
               /\ runs'[i].status = IF row.code = "success" THEN "completed" ELSE "failed"
    <3>1. row = Row(runs[i].request, IF code = "none" THEN "success" ELSE code,
                    episode'.state_version)
      BY <1>2, <2>2 DEF Settles, SettleRun
    <3>2. /\ i \in RunIds /\ runs'[i].request = runs[i].request
          /\ runs'[i].status = RunStatus(code)
      BY <2>2, SettlesRuns DEF SafeInv
    <3> QED BY <3>1, <3>2 DEF Row, RunStatus, FailureCodes
  <2>3. ~Quiet /\ \A r \in Requests, i \in RunIds : ~Reserves(r, i)
    BY <1>2 DEF Quiet, Reserves
  <2>4. \A r \in Requests, code \in FailureCodes : ~Rejects(r, code)
    BY <1>2, <2>1 DEF Rejects
  <2>5. \A r \in Requests : ~Completes(r)
    BY <1>2, <2>1 DEF Completes
  <2> QED BY <2>2, <2>3, <2>4, <2>5, StepKinds DEF SafeInv
<1> QED BY <1>1, <1>2

LEMMA QuietTrace ==
  ASSUME SafeInv, TraceInv, CallsRan', Quiet
  PROVE  TraceInv'
<1>1. UNCHANGED <<episode, events, results>>
  BY DEF Quiet
<1>2. /\ RunningRuns' = RunningRuns
      /\ \A i \in RunningRuns : runs'[i].request = runs[i].request
  BY QuietRuns DEF SafeInv, RunningRuns
<1>3. PendingRuns'
  BY <1>1, <1>2 DEF TraceInv, PendingRuns
<1>4. AcceptedIds' = AcceptedIds
  BY <1>1 DEF AcceptedIds
<1>5. AcceptedAreKnown'
  BY <1>1, <1>2, <1>4 DEF TraceInv, AcceptedAreKnown
<1> QED BY <1>1, <1>3, <1>5 DEF TraceInv, ClosesOnce, AcceptedOnce

\* The reservation leaves its action pending.
LEMMA ReservesTrace ==
  ASSUME SafeInv, TraceInv, CallsRan', NEW r \in Requests, NEW i \in RunIds, Reserves(r, i)
  PROVE  TraceInv'
<1> DEFINE s == Append(events, Accepted(r))
<1>1. Checked(r) /\ events' = s /\ UNCHANGED <<episode, results>>
  BY DEF Reserves
<1>2. /\ Reads(s, episode.state_version)
      /\ s[Len(s)].client_action_id = r.client_action_id
      /\ ClosingIn(s) = ClosingIn(events)
      /\ \A m, n \in AcceptedIn(s) : s[m].client_action_id = s[n].client_action_id => m = n
      /\ {s[n].client_action_id : n \in AcceptedIn(s)} = AcceptedIds \cup {r.client_action_id}
      /\ RunningRuns = {}
  BY <1>1, AcceptsAction
<1> HIDE DEF s
<1>3. RunningRuns' = {i} /\ runs'[i].request = r
  BY <1>2, ReservesRuns DEF SafeInv, RunningRuns
<1>4. PendingRuns'
  BY <1>1, <1>2, <1>3 DEF PendingRuns
<1>5. ClosesOnce' /\ AcceptedOnce'
  BY <1>1, <1>2 DEF TraceInv, ClosesOnce, AcceptedOnce
<1>6. AcceptedIds' = AcceptedIds \cup {r.client_action_id}
  BY <1>1, <1>2 DEF AcceptedIds
<1>7. AcceptedAreKnown'
  BY <1>1, <1>2, <1>3, <1>6 DEF TraceInv, AcceptedAreKnown
<1>8. Reads(events, episode.state_version)'
  BY <1>1, <1>2
<1> QED BY <1>4, <1>5, <1>7, <1>8 DEF TraceInv

\* The settlement tells what became of the pending action.
LEMMA SettlesTrace ==
  ASSUME SafeInv, TypeInv', TraceInv, CallsRan',
         NEW i, NEW out, NEW code, Settles(i, out, code)
  PROVE  TraceInv'
<1> DEFINE type == IF code = "none" THEN "action.completed" ELSE "action.failed"
           made == IF code = "none" /\ out.artifact # None
                   THEN {Identified(out.artifact)} ELSE {}
           some == IF made = {} THEN << >> ELSE << Event("artifact.created") >>
           last == << Event("observation.emitted") >>
           w == episode'.state_version
           s1 == events \o << Event(type) >>
           s2 == s1 \o some
           s3 == s2 \o last
<1>1. /\ events' = s3 \o Closing
      /\ results' = results \cup {Row(runs[i].request, IF code = "none" THEN "success" ELSE code,
                                      episode'.state_version)}
  BY DEF Settles, SettleRun
<1>2. /\ events \in Seq(Events) /\ episode.state_version \in Nat
      /\ episode' \in Episodes /\ w \in Nat /\ w = episode.state_version + 1
  BY SettlesEpisode DEF SafeInv, TypeInv, TypeOK, Episodes
<1>3. /\ last \in Seq(Events) /\ Plain(last, w) /\ ClosingIn(last) = {}
      /\ some \in Seq(Events) /\ Plain(some, w) /\ ClosingIn(some) = {}
  BY <1>2, OneEvent, NoEvent DEF EventTypes, ClosingTypes
<1> HIDE DEF last, some, made
<1>4. Grown(events, s1, w)
  BY <1>2, GrowsFirst DEF TraceInv, Outcomes
<1> HIDE DEF s1, type
<1>5. Grown(events, s2, w)
  BY <1>2, <1>3, <1>4, GrowsOn
<1> HIDE DEF s2
<1>6. Grown(events, s3, w)
  BY <1>2, <1>3, <1>5, GrowsOn
<1> HIDE DEF s3
<1>7. episode.status = "active" /\ RunningRuns = {i} /\ i \in RunIds
  BY DEF Settles, SafeInv, ReservationHolds, RunningRuns
<1>8. RunningRuns' = {} /\ AcceptedIds = {row.request.client_action_id : row \in results}
                                           \cup {runs[i].request.client_action_id}
  BY <1>7, SettlesRuns DEF SafeInv, RunningRuns, TraceInv, AcceptedAreKnown
<1>9. {row.request.client_action_id : row \in results'} = AcceptedIds
  <2> DEFINE new == Row(runs[i].request, IF code = "none" THEN "success" ELSE code,
                        episode'.state_version)
  <2>1. new.request = runs[i].request
    BY DEF Row
  <2> HIDE DEF new
  <2>2. results' = results \cup {new}
    BY <1>1 DEF new
  <2> QED BY <1>8, <2>1, <2>2
<1>10. /\ Reads(events, episode.state_version)' /\ ~Pending(events')
       /\ AcceptedIn(events') = AcceptedIn(events)
       /\ \A n \in AcceptedIn(events) : events'[n] = events[n]
       /\ IF episode'.status = "active"
          THEN ClosingIn(events') = ClosingIn(events)
          ELSE \E n : ClosingIn(events') = ClosingIn(events) \cup {n}
  <2>1. /\ Reads(s3 \o Closing, w) /\ ~Pending(s3 \o Closing)
        /\ AcceptedIn(s3 \o Closing) = AcceptedIn(events)
        /\ \A n \in AcceptedIn(events) : (s3 \o Closing)[n] = events[n]
        /\ IF episode'.status = "active"
           THEN ClosingIn(s3 \o Closing) = ClosingIn(events)
           ELSE \E n : ClosingIn(s3 \o Closing) = ClosingIn(events) \cup {n}
    BY <1>2, <1>6, GrowsLast
  <2> QED BY <1>1, <2>1
<1>11. IF episode'.status = "active" THEN ClosingIn(events') = {}
                                     ELSE \E n : ClosingIn(events') = {n}
  BY <1>7, <1>10 DEF TraceInv, ClosesOnce
<1>12. \A m, n \in AcceptedIn(events) :
         events[m].client_action_id = events[n].client_action_id => m = n
  BY DEF TraceInv, AcceptedOnce
<1>13. {events[n].client_action_id : n \in AcceptedIn(events)} = AcceptedIds
  BY DEF AcceptedIds
<1> QED BY <1>2, <1>8, <1>9, <1>10, <1>11, <1>12, <1>13, DecidesAction

\* A rejection tells both at once and moves nothing.
LEMMA RejectsTrace ==
  ASSUME SafeInv, TypeInv', TraceInv, CallsRan',
         NEW r \in Requests, NEW code, Rejects(r, code)
  PROVE  TraceInv'
<1> DEFINE s == Append(events, Accepted(r))
           done == << Event("action.failed") >>
           w == episode'.state_version
           new == Row(r, code, episode.state_version)
<1>1. /\ Checked(r) /\ UNCHANGED <<episode, runs>>
      /\ events' = events \o << Accepted(r), Event("action.failed") >>
      /\ results' = results \cup {new}
  BY DEF Rejects
<1>2. /\ events \in Seq(Events) /\ episode.state_version \in Nat /\ w = episode.state_version
      /\ Accepted(r) \in Events /\ Event("action.failed") \in Events
  BY <1>1, AcceptedType DEF SafeInv, TypeInv, TypeOK, Episodes, Event, Events, EventTypes
<1>3. events' = s \o done
  BY <1>1, <1>2, TwoMore
<1>4. /\ s \in Seq(Events) /\ Reads(s, episode.state_version)
      /\ ClosingIn(s) = ClosingIn(events)
      /\ \A m, n \in AcceptedIn(s) : s[m].client_action_id = s[n].client_action_id => m = n
      /\ {s[n].client_action_id : n \in AcceptedIn(s)} = AcceptedIds \cup {r.client_action_id}
      /\ RunningRuns = {}
  BY <1>1, AcceptsAction
<1> HIDE DEF s
<1>5. Grown(s, s \o done, w)
  BY <1>2, <1>4, GrowsFirst DEF Outcomes
<1> HIDE DEF done
<1>6. /\ Reads(events, episode.state_version)' /\ ~Pending(events')
      /\ AcceptedIn(events') = AcceptedIn(s)
      /\ \A n \in AcceptedIn(s) : events'[n] = s[n]
      /\ ClosingIn(events') = ClosingIn(events)
  BY <1>3, <1>4, <1>5 DEF Grown
<1>7. RunningRuns' = {}
  BY <1>1, <1>4 DEF RunningRuns
<1>8. {row.request.client_action_id : row \in results'} = AcceptedIds \cup {r.client_action_id}
  <2>1. new.request = r
    BY DEF Row
  <2> HIDE DEF new
  <2> QED BY <1>1, <1>4, <2>1 DEF TraceInv, AcceptedAreKnown
<1>9. IF episode'.status = "active" THEN ClosingIn(events') = {}
                                    ELSE \E n : ClosingIn(events') = {n}
  BY <1>1, <1>6 DEF TraceInv, ClosesOnce
<1> HIDE DEF new
<1> QED BY <1>4, <1>6, <1>7, <1>8, <1>9, DecidesAction

\* A completed action may close the episode, and its trace with it.
LEMMA CompletesTrace ==
  ASSUME SafeInv, TypeInv', TraceInv, CallsRan', NEW r \in Requests, Completes(r)
  PROVE  TraceInv'
<1>1. PICK verdict \in Verdicts(r) : events' = Told(r, verdict)
  BY DEF Completes
<1> DEFINE s == Append(events, Accepted(r))
           done == << Event("action.completed") >>
           drawn == IF Renders(r) THEN << Event("artifact.created") >> ELSE << >>
           saved == IF r.action.type = "memory.save_evidence"
                    THEN << Event("evidence.saved") >> ELSE << >>
           last == << Event("observation.emitted") >>
           judged == IF verdict = "none" THEN << >>
                     ELSE << Event(IF verdict = "completed" THEN "evaluation.completed"
                                                            ELSE "evaluation.failed") >>
           w == episode'.state_version
           new == Row(r, "success", w)
           s1 == s \o done
           s2 == s1 \o drawn
           s3 == s2 \o saved
           s4 == s3 \o last
           s5 == s4 \o judged
<1>2. /\ Checked(r) /\ UNCHANGED runs /\ results' = results \cup {new}
      /\ events' = events \o << Accepted(r), Event("action.completed") >>
                     \o drawn \o saved \o last \o judged \o Closing
  BY <1>1 DEF Completes, Told
<1>3. /\ events \in Seq(Events) /\ episode.state_version \in Nat
      /\ episode' \in Episodes /\ w \in Nat /\ w = episode.state_version + 1
      /\ episode.status = "active" /\ Accepted(r) \in Events
  BY CompletesEpisode, AppliedFields, AcceptedType DEF SafeInv, TypeInv, TypeOK, Episodes
<1>4. Event("action.completed") \in Events
  BY <1>3 DEF Event, Events, EventTypes
<1>5. /\ drawn \in Seq(Events) /\ Plain(drawn, w) /\ ClosingIn(drawn) = {}
      /\ saved \in Seq(Events) /\ Plain(saved, w) /\ ClosingIn(saved) = {}
      /\ last \in Seq(Events) /\ Plain(last, w) /\ ClosingIn(last) = {}
      /\ judged \in Seq(Events) /\ Plain(judged, w) /\ ClosingIn(judged) = {}
  BY <1>3, OneEvent, NoEvent DEF EventTypes, ClosingTypes
<1> HIDE DEF drawn, saved, last, judged
<1>6. events' = s5 \o Closing
  <2>1. events \o << Accepted(r), Event("action.completed") >> = s1
    BY <1>3, <1>4, TwoMore
  <2> QED BY <1>2, <2>1
<1>7. /\ s \in Seq(Events) /\ Reads(s, episode.state_version)
      /\ ClosingIn(s) = ClosingIn(events)
      /\ \A m, n \in AcceptedIn(s) : s[m].client_action_id = s[n].client_action_id => m = n
      /\ {s[n].client_action_id : n \in AcceptedIn(s)} = AcceptedIds \cup {r.client_action_id}
      /\ RunningRuns = {}
  BY <1>2, AcceptsAction
<1> HIDE DEF s
<1>8. Grown(s, s1, w)
  BY <1>3, <1>7, GrowsFirst DEF Outcomes
<1> HIDE DEF s1, done
<1>9. Grown(s, s2, w)
  BY <1>3, <1>5, <1>7, <1>8, GrowsOn
<1> HIDE DEF s2
<1>10. Grown(s, s3, w)
  BY <1>3, <1>5, <1>7, <1>9, GrowsOn
<1> HIDE DEF s3
<1>11. Grown(s, s4, w)
  BY <1>3, <1>5, <1>7, <1>10, GrowsOn
<1> HIDE DEF s4
<1>12. Grown(s, s5, w)
  BY <1>3, <1>5, <1>7, <1>11, GrowsOn
<1> HIDE DEF s5
<1>13. /\ Reads(events, episode.state_version)' /\ ~Pending(events')
       /\ AcceptedIn(events') = AcceptedIn(s)
       /\ \A n \in AcceptedIn(s) : events'[n] = s[n]
       /\ IF episode'.status = "active"
          THEN ClosingIn(events') = ClosingIn(s)
          ELSE \E n : ClosingIn(events') = ClosingIn(s) \cup {n}
  <2>1. /\ Reads(s5 \o Closing, w) /\ ~Pending(s5 \o Closing)
        /\ AcceptedIn(s5 \o Closing) = AcceptedIn(s)
        /\ \A n \in AcceptedIn(s) : (s5 \o Closing)[n] = s[n]
        /\ IF episode'.status = "active"
           THEN ClosingIn(s5 \o Closing) = ClosingIn(s)
           ELSE \E n : ClosingIn(s5 \o Closing) = ClosingIn(s) \cup {n}
    BY <1>3, <1>7, <1>12, GrowsLast
  <2> QED BY <1>6, <2>1
<1>14. IF episode'.status = "active" THEN ClosingIn(events') = {}
                                     ELSE \E n : ClosingIn(events') = {n}
  BY <1>3, <1>7, <1>13 DEF TraceInv, ClosesOnce
<1>15. RunningRuns' = {}
  BY <1>2, <1>7 DEF RunningRuns
<1>16. {row.request.client_action_id : row \in results'} = AcceptedIds \cup {r.client_action_id}
  <2>1. new.request = r
    BY DEF Row
  <2> HIDE DEF new
  <2> QED BY <1>2, <1>7, <2>1 DEF TraceInv, AcceptedAreKnown
<1> HIDE DEF new
<1> QED BY <1>7, <1>13, <1>14, <1>15, <1>16, DecidesAction

LEMMA InitTraceInv == Init => TraceInv
<1> SUFFICES ASSUME Init PROVE TraceInv
  OBVIOUS
<1>1. /\ Len(events) = 2 /\ events[1].type = "episode.created"
      /\ events[2].type = "observation.emitted" /\ events[1].state_version = 0
      /\ events[2].state_version = 0 /\ episode.state_version = 0
      /\ episode.status = "active" /\ results = {}
  BY DEF Init
<1>2. RunningRuns = {}
  BY DEF Init, RunningRuns
<1>3. Reads(events, episode.state_version)
  BY <1>1 DEF Reads
<1>4. AcceptedIn(events) = {} /\ ClosingIn(events) = {} /\ ~Pending(events)
  BY <1>1 DEF AcceptedIn, ClosingIn, ClosingTypes, Pending
<1> QED BY <1>1, <1>2, <1>3, <1>4
        DEF TraceInv, PendingRuns, ClosesOnce, AcceptedOnce, AcceptedAreKnown, AcceptedIds, CallsRan

LEMMA NextTraceInv == SafeInv /\ TraceInv /\ [Next]_vars => TraceInv'
<1> SUFFICES ASSUME SafeInv, TraceInv, [Next]_vars PROVE TraceInv'
  OBVIOUS
<1>1. CallsRan'
  BY CallsRanStep DEF TraceInv
<1>2. TypeInv'
  BY NextTypeInv DEF SafeInv
<1> QED BY <1>1, <1>2, StepKinds, QuietTrace, ReservesTrace, SettlesTrace, RejectsTrace,
           CompletesTrace DEF SafeInv

\* The invariant gives what the replays demand.
LEMMA TraceFollows == SafeInv /\ TraceInv => TraceReplays
<1> SUFFICES ASSUME SafeInv, TraceInv PROVE TraceReplays
  OBVIOUS
<1>1. AcceptedAt = AcceptedIn(events) /\ ClosingAt = ClosingIn(events)
  BY DEF AcceptedAt, AcceptedIn, ClosingAt, ClosingIn, ClosingTypes
<1>2. events \in Seq(Events) /\ Len(events) \in Nat
  BY DEF SafeInv, TypeInv, TypeOK
<1>3. ASSUME NEW n \in AcceptedAt
      PROVE  IF n = Len(events)
             THEN \E i \in RunningRuns :
                    runs[i].request.client_action_id = events[n].client_action_id
             ELSE events[n + 1].type \in {"action.completed", "action.failed"}
  <2>1. n \in 1 .. Len(events) /\ events[n].type = "action.accepted"
    BY <1>3 DEF AcceptedAt
  <2>2. CASE n = Len(events)
    <3>1. Pending(events)
      BY <1>2, <2>1, <2>2 DEF Pending
    <3> QED BY <2>2, <3>1 DEF TraceInv, PendingRuns
  <2>3. CASE n # Len(events)
    BY <2>1, <2>3 DEF TraceInv, Reads, Outcomes
  <2> QED BY <2>2, <2>3
<1>4. \A n \in 1 .. Len(events) - 1 : events[n].state_version <= events[n + 1].state_version
  <2> TAKE n \in 1 .. Len(events) - 1
  <2>1. n \in 1 .. Len(events) /\ n # Len(events)
    BY <1>2
  <2> QED BY <2>1 DEF TraceInv, Reads
<1>5. Cardinality(ClosingAt) = IF episode.status = "active" THEN 0 ELSE 1
  BY <1>1, FS_EmptySet, FS_Singleton DEF TraceInv, ClosesOnce
<1>6. TraceOrdered
  BY <1>3, <1>4, <1>5 DEF TraceOrdered
<1>7. ASSUME episode.status # "active"
      PROVE  /\ RunningRuns = {}
             /\ {events[n].client_action_id : n \in AcceptedAt}
                  = {row.request.client_action_id : row \in results}
  <2>1. RunningRuns = {}
    BY <1>7 DEF SafeInv, ReservationHolds
  <2> QED BY <1>1, <2>1 DEF TraceInv, AcceptedAreKnown, AcceptedIds
<1>8. ReplayCovers
  BY <1>1, <1>7 DEF ReplayCovers, TraceInv, AcceptedOnce, CallsRan
<1> QED BY <1>6, <1>8 DEF TraceReplays

\* At every moment the trace passes the structural replay, and that of a closed
\* episode covers its rows and its runs as the execution replay demands.
THEOREM TracesReplay == Spec => []TraceReplays
<1>1. SafeInv /\ TraceInv => TraceReplays
  BY TraceFollows
<1> QED BY <1>1, InitTraceInv, NextTraceInv, Invariance, PTL DEF Spec
===============================================================================
