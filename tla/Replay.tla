-------------------------------- MODULE Replay --------------------------------
(***************************************************************************)
(* Execution replay (core/execution_replay.py): the recorded requests of a *)
(* finished episode run again in a fresh store, and what they give is held *)
(* against the record. An episode's rows are a record of sequences; Step   *)
(* stands for V2EpisodeStore.step. A world is what the store depends on:   *)
(* the registered manifest, the tool, the renderer, the evaluator. What    *)
(* only the recorded run met, time and faults, is a call's circumstance.   *)
(***************************************************************************)
EXTENDS Integers, Sequences, SequencesExt, FiniteSets

CONSTANT None

WallLimit == 2        \* the wall time budget
SupportedVersions == {1}
MaxActions == 3       \* of a record: MAX_ACTIONS

(***************************************************************************)
(* The episode store, as far as a record shows it. Instance ids are        *)
(* counted from the episode's number.                                      *)
(***************************************************************************)
Event(db, n, type, key, what) ==
  [event_id |-> db.episode + Len(db.events) + n, sequence |-> Len(db.events) + n, type |-> type,
   version |-> db.state.version, key |-> key, what |-> what]

CreateEpisode(task, number) ==
  LET state == [episode_id |-> number, status |-> "active", version |-> 0, saved |-> 0,
                answer |-> None, wall_time_ms |-> 0, evaluation |-> None]
      db == [episode |-> number, task |-> task, initial |-> state, state |-> state,
             results |-> <<>>, events |-> <<>>, runs |-> <<>>, artifacts |-> {},
             observations |-> <<[observation_id |-> number, inline |-> None]>>]
  IN [db EXCEPT !.events = <<Event(db, 0, "episode.created", None,
                                   [manifest |-> task.manifest])>>]

Refusal(db, action, fault, world) ==
  IF db.state.status # "active" THEN "episode_closed"
  ELSE IF action.type = "memory" /\ action.evidence \notin db.artifacts THEN "unknown_artifact"
  ELSE IF action.type = "map" /\ db.task.rendered /\ (world.image = None \/ fault) THEN
         "renderer_unavailable"
  ELSE IF action.type = "tool.invoke" /\ fault THEN "tool_failed"
  ELSE None

Produced(db, action, world) ==
  CASE action.type = "tool.invoke" -> {world.product}
    [] action.type = "map" /\ db.task.rendered -> {world.image}
    [] OTHER -> {}

Evaluation(db, state, wall, world) ==
  [evaluation_id |-> db.episode, right |-> state.answer.choice = world.truth,
   quick |-> wall = 0, evaluator |-> db.task.evaluator]

NextState(db, action, wall, accounted, world) ==
  LET s == [db.state EXCEPT !.version = @ + 1, !.wall_time_ms = wall]
      answered == [s EXCEPT !.answer = action.answer, !.status = "terminated"]
      full == IF wall >= WallLimit \/ s.version >= db.task.max_steps THEN "truncated" ELSE "active"
  IN IF action.type = "memory" THEN [s EXCEPT !.saved = @ + 1, !.status = full]
     ELSE IF action.type # "answer" THEN [s EXCEPT !.status = full]
     ELSE IF db.task.evaluator = None THEN answered
     ELSE [answered EXCEPT !.evaluation = Evaluation(db, answered, accounted, world)]

Result(request, outcome, code, state, observation) ==
  [id |-> request.id, request |-> [expected |-> request.expected, action |-> request.action],
   outcome |-> outcome, code |-> code, state |-> state, observation |-> observation]

\* A recorded call, in which the clock read wall and the renderer or the tool may
\* have failed; the evaluator is told the time "accounted".
Step(db, request, wall, accounted, fault, world) ==
  LET action == request.action
      error == Refusal(db, action, fault, world)
      state == NextState(db, action, wall, accounted, world)
      made == Produced(db, action, world)
      observation == [observation_id |-> db.episode + Len(db.observations),
                      inline |-> IF action.type = "tool.invoke"
                                 THEN [version |-> world.version, of |-> made] ELSE None]
      run(status) == [id |-> request.id, expected |-> request.expected, status |-> status,
                      version |-> world.version]
      ran(status) == IF action.type = "tool.invoke" THEN Append(db.runs, run(status)) ELSE db.runs
      accepted == Event(db, 0, "action.accepted", request.id,
                        [expected |-> request.expected, action |-> action])
      after == [db EXCEPT !.state = state]
      completed == Event(after, 1, "action.completed", None,
                         [observation_id |-> observation.observation_id, of |-> made])
      closing == IF state.status = "active" THEN <<>>
                 ELSE <<Event(after, 2, "episode." \o state.status, None,
                              [answer |-> state.answer, evaluation |-> state.evaluation])>>
  IN IF action.type = "tool.invoke" /\ error = "episode_closed" THEN db
     ELSE IF error # None
       THEN [db EXCEPT !.runs = ran("failed"),
               !.events = @ \o <<accepted, Event(db, 1, "action.failed", None, [code |-> error])>>,
               !.results = Append(@, Result(request, "error", error, None, None))]
     ELSE [db EXCEPT !.state = state, !.runs = ran("completed"), !.artifacts = @ \cup made,
             !.observations = Append(@, observation),
             !.events = @ \o <<accepted, completed>> \o closing,
             !.results = Append(@, Result(request, "success", None, state, observation))]

(***************************************************************************)
(* What is compared.                                                       *)
(***************************************************************************)
Regenerated == {"episode_id", "observation_id", "event_id", "evaluation_id", "wall_time_ms"}

Kept(value) == [k \in DOMAIN value \ Regenerated |-> value[k]]

KeptOf(value) == IF value = None THEN None ELSE Kept(value)

EverywhereKept(state) ==  \* mutant
  IF state = None THEN None
  ELSE [Kept(state) EXCEPT !.evaluation = KeptOf(@), !.answer = KeptOf(@)]

\* Below "answer", and the like, everything is the caller's.
SemanticState(state) ==
  IF state = None THEN None ELSE [Kept(state) EXCEPT !.evaluation = KeptOf(@)]

SemanticResult(result) ==
  [result EXCEPT !.state = SemanticState(@), !.observation = KeptOf(@)]

SemanticEvent(event) ==
  LET kept == [Kept(event) EXCEPT !.what = Kept(@)]
  IN IF "evaluation" \in DOMAIN kept.what
     THEN [kept EXCEPT !.what.evaluation = KeptOf(@)] ELSE kept

SemanticTrace(events) == [i \in DOMAIN events |-> SemanticEvent(events[i])]

(***************************************************************************)
(* validate_snapshot: the first objection to a record, or None.            *)
(***************************************************************************)
WithinLimits(db) ==
  /\ Len(db.results) =< MaxActions /\ Len(db.runs) =< MaxActions
  /\ Len(db.observations) =< MaxActions + 1 /\ Cardinality(db.artifacts) =< MaxActions

TraceValid(db) ==
  /\ db.events # <<>>
  /\ \A i \in DOMAIN db.events : db.events[i].sequence = i - 1
  /\ IsInjective([i \in DOMAIN db.events |-> db.events[i].event_id])
  /\ \A i, j \in DOMAIN db.events : i < j => db.events[i].version =< db.events[j].version
  /\ "manifest" \in DOMAIN db.events[1].what
  /\ db.events[1].what.manifest = db.task.manifest

Accepted(db) == SelectSeq(db.events, LAMBDA e : e.type = "action.accepted")

RowsOf(rows, id) == SelectSeq(rows, LAMBDA r : r.id = id)

\* The results in the order in which the trace accepted them.
Ordered(db) == [i \in DOMAIN Accepted(db) |-> RowsOf(db.results, Accepted(db)[i].key)[1]]

ActionsCovered(db) ==
  /\ Accepted(db) # <<>>
  /\ IsInjective([i \in DOMAIN Accepted(db) |-> Accepted(db)[i].key])
  /\ \A e \in ToSet(Accepted(db)) : RowsOf(db.results, e.key) # <<>>
  /\ \A r \in ToSet(db.results) : \E e \in ToSet(Accepted(db)) : e.key = r.id

RequestsMatch(db) ==
  \A i \in DOMAIN Ordered(db) : Ordered(db)[i].request = Accepted(db)[i].what

ResultFits(db, result) ==
  result.outcome = "error" \/ result.observation \in ToSet(db.observations)

ToolReason(db, result) ==
  LET runs == RowsOf(db.runs, result.id)
      run == runs[1]
  IN IF runs = <<>> THEN "missing_tool_run"
     ELSE IF run.expected # result.request.expected THEN "tool_record_mismatch"
     ELSE IF run.version \notin SupportedVersions THEN "tool_version_not_supported"
     ELSE IF run.status # (IF result.outcome = "success" THEN "completed" ELSE "failed") THEN
            "tool_outcome_mismatch"
     ELSE IF result.outcome = "error" THEN "historical_tool_failure_not_reproduced"
     ELSE IF result.observation.inline = None THEN "tool_version_record_mismatch"
     ELSE IF result.observation.inline.version # run.version THEN "tool_version_record_mismatch"
     ELSE None

RowReasons(db) ==
  LET of(result) ==
        IF ~ResultFits(db, result) THEN "observation_record_mismatch"
        ELSE IF result.request.action.type = "tool.invoke" THEN ToolReason(db, result)
        ELSE None
  IN SelectSeq([i \in DOMAIN Ordered(db) |-> of(Ordered(db)[i])], LAMBDA r : r # None)

Reason(db, world) ==
  IF ~WithinLimits(db) THEN "snapshot_limit_exceeded"
  ELSE IF db.state.episode_id # db.episode \/ db.initial.episode_id # db.episode THEN
         "episode_record_mismatch"
  ELSE IF db.state.status = "active" THEN "episode_not_terminal"
  ELSE IF \E r \in ToSet(db.runs) : r.status = "running" THEN "episode_not_terminal"
  ELSE IF db.task.manifest # world.manifest THEN "task_manifest_mismatch"
  ELSE IF db.task.rendered /\ world.image = None THEN "renderer_execution_not_supported"
  ELSE IF db.state.evaluation # None /\ world.truth = None THEN
         "semantic_evaluator_execution_not_supported"
  ELSE IF db.state.evaluation # None /\ db.state.evaluation.evaluator # db.task.evaluator THEN
         "evaluation_record_mismatch"
  ELSE IF ~TraceValid(db) THEN "invalid_trace_structure"
  ELSE IF ~ActionsCovered(db) THEN "action_coverage_mismatch"
  ELSE IF ~RequestsMatch(db) THEN "request_trace_mismatch"
  ELSE IF ~IsInjective([i \in DOMAIN db.runs |-> db.runs[i].id]) THEN "duplicate_tool_run"
  ELSE IF RowReasons(db) # <<>> THEN Head(RowReasons(db))
  ELSE IF \E r \in ToSet(db.runs) : RowsOf(db.results, r.id) = <<>> THEN "tool_coverage_mismatch"
  ELSE None

(***************************************************************************)
(* replay_episode.                                                         *)
(***************************************************************************)
\* RecordedAccountingEvaluator: the time the evaluator is told.
AccountedTime(db) == db.state.wall_time_ms

\* The recorded requests, in order, in a new episode.
Executed(db, world) ==
  FoldLeft(LAMBDA new, r : Step(new, [id |-> r.id] @@ r.request, 0, AccountedTime(db),
                                FALSE, world),
           CreateEpisode(db.task, db.episode + 100), Ordered(db))

ActionsMatch(db, new) ==
  LET results == Ordered(db)
  IN /\ Len(new.results) = Len(results)
     /\ \A i \in DOMAIN results : SemanticResult(results[i]) = SemanticResult(new.results[i])

Replayed(db, world) ==
  LET new == Executed(db, world)
      report(status, reason) == [status |-> status, reason |-> reason]
  IN IF Reason(db, world) # None THEN report("incomplete", Reason(db, world))
     ELSE IF SemanticState(db.initial) # SemanticState(new.initial) THEN
            report("failed", "initial_state_mismatch")
     ELSE IF ~ActionsMatch(db, new) THEN report("failed", "action_execution_mismatch")
     ELSE IF SemanticState(db.state) # SemanticState(new.state) \/ db.artifacts # new.artifacts THEN
            report("failed", "final_state_or_artifact_mismatch")
     ELSE IF SemanticTrace(db.events) # SemanticTrace(new.events) THEN
            report("failed", "trace_execution_mismatch")
     ELSE report("passed", None)
===============================================================================
