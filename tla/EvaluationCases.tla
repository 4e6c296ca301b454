--------------------------- MODULE EvaluationCases ---------------------------
(***************************************************************************)
(* Small tasks, answers and episodes for the evaluators, and what must     *)
(* hold of every verdict on them.                                          *)
(***************************************************************************)
EXTENDS Evaluation

Weights(names) == [n \in names |-> IF n = "accuracy" THEN 3 ELSE IF n = "spare" THEN None ELSE 1]

Ideal == [steps |-> 3, renderer_calls |-> 1, wall_time_ms |-> 2, tool_calls |-> 1]

\* Renderer calls are artifacts, and every artifact was one step.
Efforts(artifacts) ==
  {[steps |-> e[1], failed_actions |-> e[2], wall_time_ms |-> e[3],
    renderer_calls |-> Cardinality(DOMAIN artifacts)] :
     e \in {<<2, 0, 2>>, <<3, 1, 2>>, <<3, 0, 3>>}}

Item(id, source, sha, selector) ==
  [evidence_id |-> id, source_ref |-> source, sha256 |-> sha, selector |-> selector]

Answer(outcome, ids, value) ==
  [outcome |-> outcome, evidence_ids |-> ids,
   value |-> IF outcome = "submitted" THEN value ELSE <<>>]

\* Every order of up to two of the items, some of them cited.
States(items, values) ==
  UNION {{[evidence_refs |-> refs, answer |-> Answer(outcome, ids, value)] :
            refs \in SetToSeqs(saved), ids \in SUBSET {e.evidence_id : e \in saved},
            outcome \in {"submitted", "abstained", "human_review_requested"},
            value \in values} : saved \in {i \in SUBSET items : Cardinality(i) =< 2}}

Case(task, state, artifacts, effort, tool_results) ==
  [of |-> "evaluation", task |-> task, state |-> state, artifacts |-> artifacts,
   effort |-> effort, tool_results |-> tool_results]

(***************************************************************************)
(* WorldCover.                                                             *)
(***************************************************************************)
Gold == [evaluator_only |-> TRUE, dataset_uri |-> TRUE, inside_root |-> TRUE,
         present |-> TRUE, size_matches |-> TRUE, sha256_matches |-> TRUE,
         crs_matches |-> TRUE, bounds |-> <<0, 0, 3, 3>>,
         distribution |-> (10 :> 2 @@ 20 :> 1)]

WorldCoverTask ==
  [evaluator_id |-> "worldcover-grounded-v1", aoi |-> <<0, 0, 2, 2>>, gold |-> Gold,
   expected_pixels |-> 3, expected_distribution |-> <<>>, assets |-> {"source"},
   labels |-> (10 :> "tree" @@ 20 :> "crop"), minimum_dominant |-> <<1, 2>>,
   ideal |-> Ideal, metric_names |-> {"accuracy", "faithfulness", "efficiency"},
   weights |-> Weights({"accuracy", "faithfulness", "efficiency", "spare"})]

WorldCoverTasks ==
  {WorldCoverTask,
   [WorldCoverTask EXCEPT !.gold.distribution = 10 :> 1 @@ 20 :> 1, !.expected_pixels = 0,
                          !.minimum_dominant = <<2, 3>>],
   [WorldCoverTask EXCEPT !.gold.distribution = 10 :> 2 @@ 30 :> 3, !.expected_pixels = 5],
   [WorldCoverTask EXCEPT !.gold.sha256_matches = FALSE],
   [WorldCoverTask EXCEPT !.metric_names = {"accuracy", "spare"}]}

Rendering(bbox, stored) ==
  [form |-> "rendering", bbox |-> bbox, sha256 |-> "shown", stored |-> stored]

WorldCoverViews ==
  {"view" :> Rendering(<<0, 0, 2, 2>>, TRUE), "view" :> Rendering(<<0, 0, 2, 2>>, FALSE),
   "view" :> Rendering(<<1, 0, 3, 3>>, TRUE)}

WorldCoverStates ==
  LET box == [bbox |-> <<0, 0, 2, 2>>]
  IN States({Item(1, "source", "source", box), Item(2, "view", "shown", box),
             Item(3, "view", "shown", [bbox |-> <<0, 0, 1, 1>>])},
            {[label |-> "tree"], [label |-> "crop"]})

WorldCoverCases ==
  UNION {{Case(t, s, a, e, <<>>) :
            t \in WorldCoverTasks, e \in Efforts(a), s \in WorldCoverStates} :
         a \in WorldCoverViews}

(***************************************************************************)
(* XLRS grounding: one or two crops, one of which holds the box.           *)
(***************************************************************************)
GroundingTask ==
  [evaluator_id |-> "xlrs-visual-grounding-v1", evaluator_version |-> "1.0.0",
   input |-> "image", input_registered |-> TRUE, expected_box |-> <<1, 1, 2, 2>>,
   minimum_iou |-> <<1, 2>>, expected_outcome |-> "submitted", ideal |-> Ideal,
   metric_names |-> {"accuracy", "abstention_correctness", "faithfulness", "efficiency"},
   weights |-> Weights({"accuracy", "abstention_correctness", "faithfulness", "efficiency"})]

Crop(id, area) ==
  [tool_id |-> "crop", status |-> "completed", artifact_id |-> id, aoi |-> area,
   tool_version |-> "1.0.0"]

GroundingCrops ==
  LET crop == [form |-> "crop", input_refs |-> <<"image">>, sha256 |-> "pixels",
               stored |-> TRUE, shape |-> <<2, 2>>]
  IN "near" :> crop @@ "far" :> crop

GroundingStates ==
  LET window == [pixel_window |-> <<2, 2>>]
      items == {Item(1, "near", "pixels", window), Item(2, "far", "pixels", window),
                Item(3, "near", "pixels", [pixel_window |-> None])}
      boxes == {<<1, 1, 2, 2>>, <<0, 1, 2, 2>>, <<0, 0, 3, 3>>, <<2, 1, 1, 2>>}
  IN States(items, {[bbox |-> b] : b \in boxes})

GroundingTasks == {GroundingTask, [GroundingTask EXCEPT !.evaluator_version = "2.0.0"]}

GroundingRuns ==
  LET near == Crop("near", <<0, 0, 2, 2>>)
      far == Crop("far", <<2, 2, 3, 3>>)
  IN {<<near, far>>, <<near, near, far>>}

GroundingCases ==
  {Case(t, s, GroundingCrops, e, r) :
     t \in GroundingTasks, s \in GroundingStates, e \in Efforts(GroundingCrops),
     r \in GroundingRuns}

(***************************************************************************)
(* Evidence memory, with and without a search.                             *)
(***************************************************************************)
MemoryTask ==
  [evaluator_id |-> "evidence-memory-v1", evaluator_version |-> "1.0.0",
   treatment |-> "with_memory", snapshot |-> "pinned", memory_id |-> "m1",
   label |-> "tree", expected_outcome |-> "submitted", ideal |-> Ideal,
   metric_names |-> {"accuracy", "memory_faithfulness", "efficiency"},
   weights |-> Weights({"accuracy", "memory_faithfulness", "efficiency"})]

Search(snapshot, records) ==
  [tool_id |-> "memory", status |-> "completed", tool_version |-> "1.0.0",
   snapshot |-> snapshot, records |-> records]

MemoryTasks ==
  {MemoryTask, [MemoryTask EXCEPT !.treatment = "without_memory"],
   [MemoryTask EXCEPT !.expected_outcome = "abstained"]}

MemoryCases ==
  {Case(t, s, <<>>, e, r) :
     t \in MemoryTasks,
     s \in States({}, {[label |-> "tree", memory_ids |-> <<"m1">>],
                       [label |-> "tree", memory_ids |-> <<"m1", "m2">>],
                       [label |-> "crop"]}),
     e \in Efforts(<<>>),
     r \in {<<>>, <<Search("pinned", {"m1", "m2"})>>, <<Search("pinned", {})>>,
            <<Search("pinned", {"m2"})>>,
            <<Search("pinned", {"m1"}), [Search("pinned", {}) EXCEPT !.status = "failed"]>>}}

(***************************************************************************)
(* WHU change: masks of three pixels, and whole-image crops as evidence.   *)
(***************************************************************************)
Three == 1..3
Masks == [Three -> {0, 255}]

Image(id, from, coverage) ==
  [id |-> id, roles |-> {"input_image", IF from = 1 THEN "temporal_before" ELSE "temporal_after"},
   temporal |-> <<from, from>>, coverage |-> coverage]

Label(id, from, values) ==
  [id |-> id, temporal |-> <<from, from>>, values |-> values, file |-> Gold, bands |-> 1,
   roles |-> {"evaluator", "building_label",
              IF from = 1 THEN "temporal_before" ELSE "temporal_after"},
   georeferenced |-> FALSE, uint8 |-> TRUE]

ChangeNames == {"change_class", "direction", "changed_fraction", "faithfulness",
                "abstention_correctness", "efficiency"}

\* The configured counts are those the task was admitted with.
ChangeTask(before, after, coverage, outcome) ==
  LET task == [evaluator_id |-> "whu-building-change-v1", evaluator_version |-> "1.0.0",
        before_input |-> Image("i1", 1, <<1, 1>>), after_input |-> Image("i2", 2, coverage),
        before_label |-> Label("l1", 1, before), after_label |-> Label("l2", 2, after),
        inputs |-> {"i1", "i2"}, shape |-> Three, minor_limit |-> <<1, 3>>,
        dominance |-> <<3, 2>>, minimum_coverage |-> <<1, 2>>, tolerance |-> <<1, 3>>,
        expected_outcome |-> outcome, expected_counts |-> <<0, 0, 0>>, ideal |-> Ideal,
        metric_names |-> ChangeNames, weights |-> Weights(ChangeNames)]
  IN [task EXCEPT !.expected_counts = ChangeTruth(task).counts]

ChangeAnswers ==
  {[change_class |-> class, change_direction |-> direction, changed_fraction |-> fraction] :
     class \in {"no_change", "major_change"}, direction \in {"expansion", "mixed"},
     fraction \in {<<0, 1>>, <<1, 2>>}}

SomeMask == CHOOSE m \in Masks : m[1] = 255 /\ m[2] = 0

ChangeTasks ==
  LET unlabelled == ChangeTask(SomeMask, SomeMask, <<1, 1>>, "submitted")
  IN {unlabelled, ChangeTask(SomeMask, SomeMask, <<1, 3>>, "abstained"),
      [unlabelled EXCEPT !.before_label.values[1] = 7],
      [unlabelled EXCEPT !.inputs = {"i1", "i2", "l1"}],
      [unlabelled EXCEPT !.after_input.temporal = <<1, 2>>]}

ChangeCrops ==
  LET crop == [form |-> "crop", input_refs |-> <<"i1">>, sha256 |-> "pixels",
               stored |-> TRUE, shape |-> Three]
  IN "c1" :> crop @@ "c2" :> [crop EXCEPT !.input_refs = <<"i2">>]

ChangeStates ==
  LET whole == [pixel_window |-> Three]
      items == {Item(1, "c1", "pixels", whole), Item(2, "c2", "pixels", whole),
                Item(3, "c2", "pixels", [pixel_window |-> {1}])}
  IN States(items, {CHOOSE v \in ChangeAnswers : TRUE})

\* Of all masks, and of one pair of them with evidence.
ChangeCases ==
  {Case(ChangeTask(b, a, v, "submitted"), s, <<>>, CHOOSE e \in Efforts(<<>>) : TRUE, <<>>) :
     b \in Masks, a \in Masks, v \in {<<1, 1>>, <<1, 3>>}, s \in States({}, ChangeAnswers)} \cup
  {Case(t, s, ChangeCrops, e, <<>>) :
     t \in ChangeTasks, s \in ChangeStates, e \in Efforts(ChangeCrops)}

(***************************************************************************)
(* Temporal selection: up to two calls; a selected pair leaves its stack.  *)
(***************************************************************************)
SelectionTask ==
  [evaluator_id |-> "temporal-selection-v1", evaluator_version |-> "1.0.0",
   expected_status |-> "selected", expected_reason |-> "selected", expected_pair |-> "A",
   expected_coverage |-> "pass", minimum_aligned |-> <<1, 2>>, ideal |-> Ideal,
   metric_names |-> {"validity", "coverage", "abstention_correctness", "faithfulness",
                     "efficiency"},
   weights |-> Weights({"validity", "coverage", "abstention_correctness", "faithfulness",
                        "efficiency"})]

Selection(reason, pair, aligned) ==
  [tool_id |-> "temporal", status |-> "completed", tool_version |-> "1.0.0",
   reason |-> reason, pair |-> pair, description |-> pair, aligned |-> aligned]

SelectionRuns ==
  {Selection("selected", "A", <<1, 1>>), Selection("selected", "B", <<1, 3>>),
   Selection("cloudy", None, None), [Selection("cloudy", None, None) EXCEPT !.status = "failed"]}

StacksOf(tool_results) ==
  LET pairs == {tool_results[i].pair : i \in DOMAIN tool_results} \ {None}
  IN [pair \in pairs |-> [form |-> "stack", pair |-> pair, description |-> pair,
                          stored |-> TRUE, sha256 |-> pair, bbox |-> "extent"]]

SelectionTasks ==
  {SelectionTask,
   [SelectionTask EXCEPT !.expected_status = "rejected", !.expected_pair = None,
                         !.expected_reason = "cloudy"]}

SelectionStates(artifacts) ==
  States({Item(1, p, p, [bbox |-> "extent"]) : p \in DOMAIN artifacts} \cup
         {Item(2, p, p, [bbox |-> "part"]) : p \in DOMAIN artifacts}, {<<>>})

SelectionCases ==
  UNION {{Case(t, s, StacksOf(r), e, r) :
            t \in SelectionTasks, s \in SelectionStates(StacksOf(r)), e \in Efforts(StacksOf(r))} :
         r \in BoundedSeq(SelectionRuns, 2)}

(***************************************************************************)
(* What holds of a verdict.                                                *)
(***************************************************************************)
VerdictOf(c) == Evaluated(c.task, c.state, c.artifacts, c.effort, c.tool_results)

Weighted(scores, weights) == [metrics |-> scores, reward |-> Aggregate(scores, weights)]

\* The scores, those of a temporal selection too, which do not reach its verdict.
Judgement(c) ==
  IF c.task.evaluator_id = "temporal-selection-v1"
  THEN Weighted(SelectionScores(c.task, c.state, c.artifacts, c.effort, c.tool_results),
                c.task.weights)
  ELSE VerdictOf(c)

Same(a, b) == a.metrics = b.metrics /\ a.reward = b.reward

OnlyCitedCounts(c) ==
  LET cited == SelectSeq(c.state.evidence_refs,
                         LAMBDA e : e.evidence_id \in c.state.answer.evidence_ids)
  IN Same(Judgement(c), Judgement([c EXCEPT !.state.evidence_refs = Reverse(cited)]))

Silent == [answer |-> Answer("abstained", {}, <<>>), evidence_refs |-> <<>>]

FailureIsTheTasks(c) ==
  VerdictOf(c).status = VerdictOf([c EXCEPT !.state = Silent]).status

Harder(effort) ==
  {[effort EXCEPT !.steps = @ + 1], [effort EXCEPT !.failed_actions = @ + 1],
   [effort EXCEPT !.wall_time_ms = @ + 1]}

NoHigher(harder, reward) == IF reward = None THEN harder = None ELSE Leq(harder, reward)

EffortPaysNothing(c) ==
  \A effort \in Harder(c.effort) :
    NoHigher(Judgement([c EXCEPT !.effort = effort]).reward, Judgement(c).reward)

Right(evaluator_id, scores) ==
  LET is(name) == name \in DOMAIN scores /\ scores[name] = One
  IN /\ (is("faithfulness") /\ evaluator_id = "worldcover-grounded-v1") \/ is("memory_faithfulness")
          => is("accuracy")
     /\ is("faithfulness") /\ evaluator_id = "temporal-selection-v1"
          => is("validity") /\ is("abstention_correctness")

FaithfulIsRight(c) == Right(c.task.evaluator_id, Judgement(c).metrics)

Reversed(task) ==
  [task EXCEPT !.before_label.values = task.after_label.values,
               !.after_label.values = task.before_label.values]

Opposite(direction) ==
  CASE direction = "expansion" -> "reduction"
    [] direction = "reduction" -> "expansion"
    [] OTHER -> direction

TimeReverses(c) ==
  c.task.evaluator_id = "whu-building-change-v1" =>
    LET there == ChangeTruth(c.task)
        back == ChangeTruth(Reversed(c.task))
    IN /\ back.class = there.class /\ back.fraction = there.fraction
       /\ back.direction = Opposite(there.direction)

SelectionScored(c) ==
  /\ c.task.evaluator_id = "temporal-selection-v1"
  /\ TemporalConfigValid(c.task)
  => VerdictOf(c).status = "completed"
=============================================================================
