------------------------------ MODULE Evaluation ------------------------------
(***************************************************************************)
(* The evaluators (core/evaluation.py): pure functions from a task, the    *)
(* state an answer leaves behind, its artifacts and tool results to a      *)
(* verdict. A score is an exact fraction <<n, d>>; the code's rounding to  *)
(* six digits is left out. A bounding box is <<west, south, east, north>>. *)
(***************************************************************************)
EXTENDS Fractions, Sequences, FiniteSets, SequencesExt, Functions

CONSTANT Grid   \* steps of a normalised image axis

(***************************************************************************)
(* Fractions and verdicts.                                                 *)
(***************************************************************************)
Truth(b) == IF b THEN One ELSE Zero
AtMostOne(n, d) == IF n < d THEN <<n, d>> ELSE One
AtLeastOne(n) == IF n < 1 THEN 1 ELSE n

\* The weighted mean of the metrics that have a weight.
Aggregate(values, weights) ==
  LET weighted == {name \in DOMAIN values : weights[name] # None}
      total == FoldSet(LAMBDA name, sum : sum + weights[name], 0, weighted)
      sum == FoldSet(LAMBDA name, acc : Plus(acc, Times(values[name], <<weights[name], 1>>)),
                     Zero, weighted)
  IN IF total = 0 THEN None ELSE <<sum[1], sum[2] * total>>

Failed(code) == [status |-> "failed", code |-> code, metrics |-> <<>>, reward |-> None]

Completed(task, values) ==
  LET metrics == Restrict(values, task.metric_names)
  IN [status |-> "completed", code |-> None, metrics |-> metrics,
      reward |-> Aggregate(metrics, task.weights)]

\* The first check that fails, in the order of the code.
FirstFailure(checks) ==
  LET failing == {i \in DOMAIN checks : ~checks[i][1]}
  IN IF failing = {} THEN None
     ELSE checks[CHOOSE i \in failing : \A j \in failing : i =< j][2]

\* A verdict: the first failed check, or scores under names it knows.
Verdict(task, checks, values, unknown_metric) ==
  LET failure == FirstFailure(checks)
  IN CASE failure # None -> Failed(failure)
       [] failure = None /\ ~(task.metric_names \subseteq DOMAIN values) ->
            Failed(unknown_metric)
       [] OTHER -> Completed(task, values)

Supported(task) ==
  <<task.evaluator_version = "1.0.0", "evaluator_version_not_supported">>

(***************************************************************************)
(* What every evaluator reads: the answer, the evidence it cites, effort.  *)
(***************************************************************************)
Outcome(state) == IF state.answer = None THEN None ELSE state.answer.outcome

Submitted(state) == Outcome(state) = "submitted"

AllEvidence(state) == state.evidence_refs  \* mutant

Cited(state) ==
  SelectSeq(state.evidence_refs,
            LAMBDA e : state.answer # None /\ e.evidence_id \in state.answer.evidence_ids)

\* A field of a submitted answer.
Answered(state, field) ==
  IF Submitted(state) /\ field \in DOMAIN state.answer.value
  THEN state.answer.value[field] ELSE None

\* The code's _contains: the outer box reaches as far on every side.
Within(outer, inner) ==
  /\ outer[1] =< inner[1] /\ outer[2] =< inner[2]
  /\ outer[3] >= inner[3] /\ outer[4] >= inner[4]

StepScore(ideal, effort) == AtMostOne(ideal, AtLeastOne(effort.steps))

WallScore(limit, effort) == AtMostOne(limit, AtLeastOne(effort.wall_time_ms))
FailureScore(effort) == <<1, 1 + effort.failed_actions>>

Product(scores) == FoldLeft(Times, One, scores)

Efficiency(ideal, effort) ==
  Product(<<StepScore(ideal.steps, effort),
            IF effort.renderer_calls > 0
            THEN AtMostOne(ideal.renderer_calls, effort.renderer_calls) ELSE Zero,
            WallScore(ideal.wall_time_ms, effort), FailureScore(effort)>>)

(***************************************************************************)
(* WorldCover: the dominant class of a pinned raster.                      *)
(***************************************************************************)
\* Resolving a gold asset: its URI, its place, its bytes.
GoldChecks(gold) ==
  <<<<gold.evaluator_only, "canonical_asset_not_registered">>,
    <<gold.dataset_uri, "unsupported_gold_uri">>,
    <<gold.inside_root, "invalid_gold_uri">>,
    <<gold.present, "gold_asset_missing">>,
    <<gold.size_matches, "gold_asset_size_mismatch">>,
    <<gold.sha256_matches, "gold_asset_checksum_mismatch">>>>

Pixels(distribution) ==
  FoldSet(LAMBDA class, sum : sum + distribution[class], 0, DOMAIN distribution)

DistributionChecks(task, gold) ==
  <<<<gold.crs_matches, "gold_asset_crs_mismatch">>,
    <<Within(gold.bounds, task.aoi), "evaluation_aoi_outside_gold">>,
    <<task.expected_pixels \in {0, Pixels(gold.distribution)}, "gold_pixel_count_mismatch">>,
    <<task.expected_distribution \in {<<>>, gold.distribution}, "gold_distribution_mismatch">>,
    <<Pixels(gold.distribution) > 0, "gold_aoi_empty">>>>

\* The most frequent class; of two that are equally frequent, the lower.
DominantClass(distribution) ==
  CHOOSE class \in DOMAIN distribution : \A other \in DOMAIN distribution :
    \/ distribution[class] > distribution[other]
    \/ distribution[class] = distribution[other] /\ class =< other

\* One cited item shows the source over the area of interest, another a
\* rendering of it that the artifact store still holds.
Faithful(task, state, artifacts, label, dominant) ==
  LET cited == {e \in ToSet(Cited(state)) : e.selector.bbox = task.aoi}
      source == \E e \in cited : e.source_ref \in task.assets /\ e.sha256 = e.source_ref
      rendered == \E e \in cited :
        /\ ~(e.source_ref \in task.assets /\ e.sha256 = e.source_ref)
        /\ e.source_ref \in DOMAIN artifacts
        /\ LET a == artifacts[e.source_ref]
           IN /\ a.form = "rendering" /\ Within(a.bbox, task.aoi)
              /\ e.sha256 = a.sha256 /\ a.stored
      supported == /\ label = dominant.label
                   /\ Leq(task.minimum_dominant, dominant.fraction)
  IN source /\ rendered /\ supported

WorldCoverVerdict(task, state, artifacts, effort) ==
  LET gold == task.gold
      checks == GoldChecks(gold) \o DistributionChecks(task, gold)
      class == DominantClass(gold.distribution)
      label == Answered(state, "label")
      dominant == [label |-> task.labels[class],
                   fraction |-> <<gold.distribution[class], Pixels(gold.distribution)>>]
  IN CASE FirstFailure(checks) # None -> Failed(FirstFailure(checks))
       [] FirstFailure(checks) = None /\ class \notin DOMAIN task.labels ->
            Failed("gold_class_unknown")
       [] OTHER -> Verdict(task, <<>>,
            [accuracy |-> Truth(Submitted(state) /\ label = dominant.label),
             faithfulness |-> Truth(Faithful(task, state, artifacts, label, dominant)),
             efficiency |-> Efficiency(task.ideal, effort)], "evaluator_internal_error")

(***************************************************************************)
(* WHU building change: two label masks, two public images.                *)
(***************************************************************************)
\* A pair of roles for each of the four assets; labels are never task inputs.
ChangeRoles ==
  [before_input |-> {"input_image", "temporal_before"},
   after_input |-> {"input_image", "temporal_after"},
   before_label |-> {"evaluator", "building_label", "temporal_before"},
   after_label |-> {"evaluator", "building_label", "temporal_after"}]

ChangeAssetChecks(task, key) ==
  <<<<task[key] # None, "change_asset_not_registered">>,
    <<task[key] = None \/ ChangeRoles[key] \subseteq task[key].roles,
      "change_asset_role_mismatch">>,
    <<task[key] = None \/ (task[key].id \in task.inputs <=> "input_image" \in ChangeRoles[key]),
      "change_asset_visibility_mismatch">>>>

ChangeAssetsChecks(task) ==
  LET assets == {task.before_input, task.after_input, task.before_label, task.after_label}
      registered == None \notin assets
      dated == registered /\ \A a \in assets : a.temporal # None
  IN FoldLeft(\o, <<>>, <<ChangeAssetChecks(task, "before_input"),
                          ChangeAssetChecks(task, "after_input"),
                          ChangeAssetChecks(task, "before_label"),
                          ChangeAssetChecks(task, "after_label")>>) \o
     <<<<dated, "temporal_extent_missing">>,
       <<dated => task.before_input.temporal[2] < task.after_input.temporal[1],
         "temporal_order_mismatch">>,
       <<dated => /\ task.before_label.temporal = task.before_input.temporal
                  /\ task.after_label.temporal = task.after_input.temporal,
         "gold_temporal_mismatch">>>>

\* A label is one band of bytes of the declared shape that are 0 or 255.
LabelChecks(task, label) ==
  GoldChecks(label.file) \o
  <<<<label.bands = 1, "gold_label_band_mismatch">>,
    <<~label.georeferenced, "gold_label_crs_mismatch">>,
    <<label.uint8, "gold_label_dtype_mismatch">>,
    <<DOMAIN label.values = task.shape, "gold_label_shape_mismatch">>,
    <<Range(label.values) \subseteq {0, 255}, "gold_label_value_domain_mismatch">>>>

Changed(before, after, from, to) ==
  Cardinality({p \in DOMAIN before : before[p] = from /\ after[p] = to})

Direction(new, demolished, dominance) ==
  CASE new = 0 /\ demolished = 0 -> "no_change"
    [] new * dominance[2] > demolished * dominance[1] -> "expansion"
    [] demolished * dominance[2] > new * dominance[1] -> "reduction"
    [] OTHER -> "mixed"

ChangeTruth(task) ==
  LET before == task.before_label.values
      after == task.after_label.values
      new == Changed(before, after, 0, 255)
      demolished == Changed(before, after, 255, 0)
      fraction == <<new + demolished, Cardinality(DOMAIN before)>>
  IN [class |-> CASE new + demolished = 0 -> "no_change"
                  [] new + demolished > 0 /\ Leq(fraction, task.minor_limit) -> "minor_change"
                  [] OTHER -> "major_change",
      direction |-> Direction(new, demolished, task.dominance),
      fraction |-> fraction, counts |-> <<new + demolished, new, demolished>>]

\* Cited crops of the whole image, one for each of the two inputs.
ChangeFaithful(task, state, artifacts) ==
  \A input \in {task.before_input, task.after_input} :
    \E e \in ToSet(Cited(state)) :
      /\ e.source_ref \in DOMAIN artifacts
      /\ LET a == artifacts[e.source_ref]
         IN /\ a.form = "crop" /\ e.sha256 = a.sha256 /\ a.stored
            /\ a.input_refs = <<input.id>>
            /\ a.shape = task.shape
            /\ e.selector.pixel_window = a.shape

Insufficient(task) ==
  {a \in {task.before_input, task.after_input} : ~Leq(task.minimum_coverage, a.coverage)}

OutcomeChecks(task) ==
  <<<<task.expected_outcome = "abstained" => Insufficient(task) # {},
      "expected_abstention_unsupported">>,
    <<task.expected_outcome = "submitted" => Insufficient(task) = {},
      "expected_submission_unsupported">>>>

\* The score falls from one to zero as the error grows to the tolerance.
FractionScore(answered, truth, tolerance) ==
  LET n == answered[1] * truth[2] - truth[1] * answered[2]
      error == <<IF n < 0 THEN -n ELSE n, answered[2] * truth[2]>>
  IN IF Leq(error, tolerance)
     THEN <<error[2] * tolerance[1] - error[1] * tolerance[2], error[2] * tolerance[1]>>
     ELSE Zero

ChangeVerdict(task, state, artifacts, effort) ==
  LET assets == <<Supported(task)>> \o ChangeAssetsChecks(task)
      labels == LabelChecks(task, task.before_label) \o LabelChecks(task, task.after_label)
      truth == ChangeTruth(task)
      checks == labels \o
        <<<<truth.counts = task.expected_counts, "gold_change_truth_mismatch">>>> \o
        OutcomeChecks(task)
      fraction == Answered(state, "changed_fraction")
  IN IF FirstFailure(assets) # None THEN Failed(FirstFailure(assets))
     ELSE IF FirstFailure(labels) # None THEN Failed(FirstFailure(labels))
     ELSE Verdict(task, checks,
       [change_class |-> Truth(Answered(state, "change_class") = truth.class),
        direction |-> Truth(Answered(state, "change_direction") = truth.direction),
        changed_fraction |-> IF fraction = None THEN Zero
                             ELSE FractionScore(fraction, truth.fraction, task.tolerance),
        faithfulness |-> Truth(ChangeFaithful(task, state, artifacts)),
        abstention_correctness |-> Truth(Outcome(state) = task.expected_outcome),
        efficiency |-> Efficiency(task.ideal, effort)], "evaluator_metric_not_supported")

(***************************************************************************)
(* Evidence memory: one search of a pinned snapshot, or none at all.       *)
(***************************************************************************)
CompletedRuns(tool_results, tool) ==
  SelectSeq(tool_results, LAMBDA r : r.tool_id = tool /\ r.status = "completed")

Calls(tool_results, tool) ==
  Len(SelectSeq(tool_results, LAMBDA r : r.tool_id = tool))

MemoryVerdict(task, state, effort, tool_results) ==
  LET searches == CompletedRuns(tool_results, "memory")
      calls == Calls(tool_results, "memory")
      checks == <<Supported(task),
        <<\A i \in DOMAIN searches : searches[i].tool_version = "1.0.0",
          "memory_tool_version_mismatch">>>>
      abstain == task.expected_outcome = "abstained"
      result == IF Len(searches) = 1 THEN searches[1] ELSE None
      retrieval == /\ task.treatment = "with_memory"
                   /\ calls = 1 /\ result # None
                   /\ result.snapshot = task.snapshot
                   /\ IF abstain THEN result.records = {}
                      ELSE task.memory_id \in result.records
      protocol == IF task.treatment = "with_memory" THEN retrieval ELSE calls = 0
      cited == IF Answered(state, "memory_ids") = None THEN <<>>
               ELSE Answered(state, "memory_ids")
      accurate == IF abstain
                  THEN Outcome(state) = "abstained" /\ result # None /\ result.records = {}
                  ELSE Submitted(state) /\ Answered(state, "label") = task.label
      faithful == /\ accurate /\ retrieval
                  /\ IF abstain THEN cited = <<>> /\ state.answer.evidence_ids = {}
                     ELSE cited = <<task.memory_id>>
  IN Verdict(task, checks,
       [accuracy |-> Truth(accurate),
        memory_faithfulness |-> Truth(faithful),
        efficiency |-> Product(<<Truth(protocol), StepScore(task.ideal.steps, effort),
                                 WallScore(task.ideal.wall_time_ms, effort),
                                 FailureScore(effort), Truth(effort.renderer_calls = 0)>>)],
       "evaluator_metric_not_supported")

(***************************************************************************)
(* XLRS visual grounding: a box on a normalised image, of Grid steps.      *)
(***************************************************************************)
NormalizedBox(value) ==
  IF /\ value # None /\ Len(value) = 4
     /\ 0 =< value[1] /\ value[1] < value[3] /\ value[3] =< Grid
     /\ 0 =< value[2] /\ value[2] < value[4] /\ value[4] =< Grid
  THEN value ELSE None

Higher(a, b) == IF a >= b THEN a ELSE b
Lower(a, b) == IF a =< b THEN a ELSE b
Overlap(a, b, low, high) == Higher(0, Lower(a[high], b[high]) - Higher(a[low], b[low]))
Area(box) == (box[3] - box[1]) * (box[4] - box[2])

IoU(expected, actual) ==
  LET shared == Overlap(expected, actual, 1, 3) * Overlap(expected, actual, 2, 4)
  IN <<shared, Area(expected) + Area(actual) - shared>>

\* The area a crop shows, if exactly one completed call returned it.
CropArea(artifact_id, tool_results) ==
  LET matches == SelectSeq(CompletedRuns(tool_results, "crop"),
                           LAMBDA r : r.artifact_id = artifact_id)
  IN IF Len(matches) = 1 THEN NormalizedBox(matches[1].aoi) ELSE None

\* The cited items are looked at in their order until one crop holds the box.
Judged(task, artifacts, tool_results, found, e) ==
  LET a == artifacts[e.source_ref]
      area == CropArea(e.source_ref, tool_results)
  IN IF \/ found.contains
        \/ e.selector.pixel_window = None
        \/ e.source_ref \notin DOMAIN artifacts
     THEN found
     ELSE IF a.form = "crop" /\ a.input_refs = <<task.input>> /\ e.sha256 = a.sha256 /\ a.stored
     THEN [artifact |-> TRUE, area |-> area # None,
           contains |-> area # None /\ Within(area, task.expected_box)]
     ELSE found

GroundingEvidence(task, state, artifacts, tool_results) ==
  LET found == FoldLeft(LAMBDA f, e : Judged(task, artifacts, tool_results, f, e),
                        [artifact |-> FALSE, area |-> FALSE, contains |-> FALSE],
                        Cited(state))
  IN found.artifact /\ found.area /\ found.contains

GroundingVerdict(task, state, artifacts, effort, tool_results) ==
  LET box == NormalizedBox(Answered(state, "bbox"))
      grounded == GroundingEvidence(task, state, artifacts, tool_results)
      faithful == Submitted(state) /\ box # None /\ grounded
      checks == <<Supported(task),
        <<task.input_registered /\ NormalizedBox(task.expected_box) # None,
          "evaluator_config_invalid">>>>
  IN Verdict(task, checks,
       [accuracy |-> Truth(box # None /\ Leq(task.minimum_iou, IoU(task.expected_box, box))),
        abstention_correctness |-> Zero,
        faithfulness |-> Truth(faithful),
        efficiency |-> Product(<<Truth(faithful), StepScore(task.ideal.steps, effort),
                                 WallScore(task.ideal.wall_time_ms, effort),
                                 FailureScore(effort), Truth(effort.renderer_calls = 0)>>)],
       "evaluator_metric_not_supported")

(***************************************************************************)
(* Temporal selection: the pair a search of two dates selects, its stack,  *)
(* or the reason it is rejected.                                           *)
(***************************************************************************)
Reasons == {"selected", "wrong_date", "insufficient_coverage", "cloudy", "sensor_mismatch"}

TemporalConfigValid(task) ==
  /\ task.expected_reason \in Reasons
  /\ task.expected_status = "selected" <=> task.expected_reason = "selected"
  /\ task.expected_status = "selected" <=> task.expected_pair # None

\* The last completed call counts.
TemporalResult(tool_results) ==
  LET completed == CompletedRuns(tool_results, "temporal")
  IN IF completed = <<>> THEN None ELSE completed[Len(completed)]

CoverageDecision(result) ==
  IF result = None THEN "not_evaluated"
  ELSE CASE result.reason = "wrong_date" -> "not_evaluated"
         [] result.reason = "insufficient_coverage" -> "fail"
         [] OTHER -> "pass"

Stacks(artifacts) == {id \in DOMAIN artifacts : artifacts[id].form = "stack"}

\* The stack is the only one, stored, and describes the pair of the result.
StackMatches(task, result, artifacts) ==
  \E id \in Stacks(artifacts) :
    LET a == artifacts[id]
    IN /\ Stacks(artifacts) = {id}
       /\ result # None /\ result.pair # None
       /\ a.stored /\ a.pair = task.expected_pair
       /\ a.description = result.description

SelectionScores(task, state, artifacts, effort, tool_results) ==
  LET result == TemporalResult(tool_results)
      selected == task.expected_status = "selected"
      status == result # None /\ result.reason = task.expected_reason
      pair == IF selected THEN result # None /\ result.pair = task.expected_pair ELSE TRUE
      artifact == IF selected THEN StackMatches(task, result, artifacts)
                  ELSE Stacks(artifacts) = {}
      coverage == /\ CoverageDecision(result) = task.expected_coverage
                  /\ result # None /\ result.reason = "selected" =>
                       Leq(task.minimum_aligned, result.aligned)
      shows_stack == {i \in DOMAIN Cited(state) :
        LET e == Cited(state)[i]
        IN /\ e.source_ref \in Stacks(artifacts)
           /\ e.sha256 = artifacts[e.source_ref].sha256
           /\ e.selector.bbox = artifacts[e.source_ref].bbox}
      faithful ==
        IF selected /\ Cardinality(Stacks(artifacts)) = 1
        THEN Submitted(state) /\ artifact /\ Cardinality(shows_stack) = 1
        ELSE /\ Outcome(state) = "abstained" /\ status
             /\ state.answer.evidence_ids = {} /\ Stacks(artifacts) = {}
      calls == Calls(tool_results, "temporal")
      surplus == effort.renderer_calls - task.ideal.renderer_calls
  IN [validity |-> Truth(status /\ pair /\ artifact),
      coverage |-> Truth(coverage),
      abstention_correctness |->
        Truth(Outcome(state) = IF selected THEN "submitted" ELSE "abstained"),
      faithfulness |-> Truth(faithful),
      efficiency |-> Product(<<StepScore(task.ideal.steps, effort),
        IF calls > 0 THEN AtMostOne(task.ideal.tool_calls, calls) ELSE Zero,
        <<1, 1 + IF surplus < 0 THEN -surplus ELSE surplus>>,
        WallScore(task.ideal.wall_time_ms, effort), FailureScore(effort)>>)]

\* The scores never reach a verdict: the diagnostics of the third one name two
\* variables of the WHU evaluator that this function does not have.
TemporalVerdict(task, tool_results) ==
  LET result == TemporalResult(tool_results)
      checks == <<Supported(task),
        <<TemporalConfigValid(task), "evaluator_config_invalid">>,
        <<result # None => result.tool_version = "1.0.0", "temporal_tool_version_mismatch">>,
        <<FALSE, "evaluator_internal_error">>>>
  IN Failed(FirstFailure(checks))

(***************************************************************************)
(* The registry: an error of any kind is a failed verdict.                 *)
(***************************************************************************)
Evaluated(task, state, artifacts, effort, tool_results) ==
  CASE task.evaluator_id = "worldcover-grounded-v1" ->
         WorldCoverVerdict(task, state, artifacts, effort)
    [] task.evaluator_id = "whu-building-change-v1" ->
         ChangeVerdict(task, state, artifacts, effort)
    [] task.evaluator_id = "temporal-selection-v1" ->
         TemporalVerdict(task, tool_results)
    [] task.evaluator_id = "evidence-memory-v1" ->
         MemoryVerdict(task, state, effort, tool_results)
    [] task.evaluator_id = "xlrs-visual-grounding-v1" ->
         GroundingVerdict(task, state, artifacts, effort, tool_results)
    [] OTHER -> Failed("evaluator_not_supported")
=============================================================================
