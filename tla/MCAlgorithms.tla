----------------------------- MODULE MCAlgorithms -----------------------------
(***************************************************************************)
(* The pure parts of the system on bounded inputs: a behaviour takes one   *)
(* case, and the properties compare what the code computes for it with a   *)
(* reference, or with what it computes for a related case.                 *)
(***************************************************************************)
EXTENDS RasterCases, StoreCases, DataCases

CONSTANT Grid

VARIABLE current

Evaluations == INSTANCE EvaluationCases

Evaluators == {"worldcover", "change", "memory", "grounding", "selection"}

Kernels == {"resample", "ratio", "stack", "episode", "select"}

Records == {"migration", "trace", "first", "replay"}

Datasets == {"zone", "range", "reads", "windows"}

Init == current \in {[of |-> "input", kind |-> k] : k \in Evaluators \cup Kernels \cup Records \cup Datasets}

Take(kind, cases) ==
  /\ current = [of |-> "input", kind |-> kind]
  /\ current' \in cases

Next ==
  \/ Take("worldcover", Evaluations!WorldCoverCases)
  \/ Take("change", Evaluations!ChangeCases)
  \/ Take("memory", Evaluations!MemoryCases)
  \/ Take("grounding", Evaluations!GroundingCases)
  \/ Take("selection", Evaluations!SelectionCases)
  \/ Take("resample", ResampleCases)
  \/ Take("ratio", RatioCases)
  \/ Take("stack", StackCases)
  \/ Take("episode", EpisodeCases)
  \/ Take("select", SelectCases)
  \/ Take("migration", MigrationCases)
  \/ Take("trace", TraceCases)
  \/ Take("first", FirstCases)
  \/ Take("replay", ReplayCases)
  \/ Take("zone", ZoneCases)
  \/ Take("range", RangeCases)
  \/ Take("reads", ReadCases)
  \/ Take("windows", WindowCases)

Spec == Init /\ [][Next]_current

\* Evidence that the answer does not cite, and the order in which evidence was
\* saved, change no score (core/evaluation.py).
OnlyCitedEvidenceCounts ==
  current.of = "evaluation" => Evaluations!OnlyCitedCounts(current)

\* Whether an evaluation completes is a matter of its task and its tools: no
\* answer and no evidence an agent may give makes an evaluator fail.
FailureIsTheTasks ==
  current.of = "evaluation" => Evaluations!FailureIsTheTasks(current)

\* A step, a failed action or a millisecond more never raises the reward.
EffortPaysNothing ==
  current.of = "evaluation" => Evaluations!EffortPaysNothing(current)

\* A faithful answer is also a right one, where the evaluator says so: its
\* claim is supported, its selection valid.
FaithfulIsRight ==
  current.of = "evaluation" => Evaluations!FaithfulIsRight(current)

\* What was built between two dates was demolished between them backwards.
TimeReverses ==
  current.of = "evaluation" => Evaluations!TimeReverses(current)

\* All five: the agent alone decides its verdict, and only by what it cites.
VerdictsAreFair ==
  /\ OnlyCitedEvidenceCounts /\ FailureIsTheTasks
  /\ EffortPaysNothing /\ FaithfulIsRight /\ TimeReverses

\* What lies under a mask changes no product of a raster kernel
\* (core/raster_math.py, raster_grid.py, temporal.py).
HiddenPixelsDoNotMatter ==
  current.of = "kernel" => HiddenPixelsDoNotMatterIn(current)

\* Datasets that agree with their profiles have a product, and the validators that
\* provider and caller hold it against accept it; but a stack whose red value in a
\* pixel that both dates see is 65535, its own fill value, is refused, and no other
\* (NativeBand admits the value, validate_temporal_stack does not).
AdmittedInputsAnswered ==
  current.of = "kernel" => AdmittedInputsAnsweredIn(current)

\* Resampling is interpolation: wherever the result has a value, a linear band
\* has the value of the line (compute_continuous_grid).
RampsStayRamps ==
  current.of = "kernel" => RampsStayRampsIn(current)

\* All three: a kernel's product is there when its inputs allow it, and tells
\* of what can be seen.
RastersAreHonest ==
  HiddenPixelsDoNotMatter /\ AdmittedInputsAnswered /\ RampsStayRamps

\* Whatever calls an episode makes and whatever the provider answers, an
\* artifact holds what its lineage says, of accessible assets of one scene and
\* of the bands of its formula (core/tools/raster*.py).
LineageExplains ==
  current.of = "episode" => LineageExplainsIn(current)

\* An aligned band, a mask or an index that one raster tool derived is accepted
\* by the tool it is meant for, which rebuilds its lineage on its own.
ProductsAreAccepted ==
  current.of = "episode" => ProductsAreAcceptedIn(current)

\* Both: chains of derivations hold together, from either end.
DerivationsAreSound == LineageExplains /\ ProductsAreAccepted

\* The best pair of dates is independent of the order of the candidates and of
\* those that are not chosen; laxer limits never lose it (select_temporal_pair).
SelectionIsStable ==
  current.of = "selection" => SelectionIsStableIn(current)

\* A migration changes nothing that an episode may read: neither its artifacts
\* nor what its observations show (core/store.py).
MigrationKeepsRows ==
  current.of = "migration" => MigrationKeepsRowsIn(current)

\* A reader that follows the cursors of a growing trace gets every event once, in
\* order; and a log that lost, exchanged or repeated a row does not pass the
\* structural replay, unless it only lost its end (core/store.py).
TracesAreWhole ==
  current.of \in {"pages", "log"} => TracesAreWholeIn(current)

\* The first API: each id acts once and its answer stands, whatever came since;
\* the transitions lead to the state; the view never leaves the map, nor changes
\* its size in a pan (store.py, domain.py).
FirstApiRepeats ==
  current.of = "first" => FirstApiRepeatsIn(current)

\* A replay passes exactly if the record is untouched, time and faults had no
\* part in it, and the world it used is unchanged (core/execution_replay.py).
ReplayIsExact ==
  current.of = "replay" => ReplayIsExactIn(current)

\* Both: what an episode wrote down can be read in pieces, checked and run again.
RecordsReplay == TracesAreWhole /\ ReplayIsExact

\* An admitted zone is a simple polygon, and it has the pixels that its area and
\* its border say (Pick); what is said of them is consistent (raster_zonal.py).
ZonesCountPixels ==
  current.of = "zone" => ZonesCountPixelsIn(current)

\* A Range header gets the bytes it asks for, or 416; a missing or damaged file
\* gets 503, whatever is asked (core/artifacts.py, core/api.py).
ServedRangesAreExact ==
  current.of = "range" => ServedRangesAreExactIn(current)

\* What is read of a remote object is the object that was pinned, whatever its
\* server does meanwhile, within the budget (core/data/http_range.py).
PinnedReadsAreExact ==
  current.of = "reads" => PinnedReadsAreExactIn(current)

\* Both ends of a byte range: served to an agent, and read from a publisher.
RangesAreExact == ServedRangesAreExact /\ PinnedReadsAreExact

\* Windows tile each image, sources take turns, every row is accounted for; and
\* what was extracted passes the verifier exactly as long as nobody touches it or
\* its sources (core/data/raster_windows.py).
WindowsVerify ==
  current.of = "windows" => WindowsVerifyIn(current)

\* docs/temporal-benchmark-v1.md: temporal-selection-v1 scores five metrics.
SelectionScored ==
  current.of = "evaluation" => Evaluations!SelectionScored(current)
===============================================================================
