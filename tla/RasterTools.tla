------------------------------ MODULE RasterTools ------------------------------
(***************************************************************************)
(* The raster tools of an episode (core/tools/raster.py, raster_grid.py,   *)
(* raster_zonal.py, temporal.py) and the provider behind them              *)
(* (raster_bridge.py): what a call may read, what it derives, and what it  *)
(* refuses. Assets and artifacts are numbers; artifact i is the i-th one   *)
(* the episode holds. A parameters hash is the tuple of what it digests.   *)
(***************************************************************************)
EXTENDS Raster, Temporal, SequencesExt

\* A cloud fraction is counted in these units.
CloudUnits == 12

(***************************************************************************)
(* Tasks.                                                                  *)
(***************************************************************************)
\* A public image asset of the task is what its reviewed profile says.
AssetFits(task, profile, role) ==
  LET asset == task.assets[profile.asset]
  IN /\ asset.public /\ asset.role = role /\ asset.band = profile.band
     /\ asset.sha256 = profile.sha256 /\ asset.acquired = profile.acquired

Allowed(task) == task.inputs \cap task.accessible

Refused(code) == [code |-> code, artifact |-> None, answer |-> None]

(***************************************************************************)
(* Artifacts: what a tool derived, from what, under which policy.          *)
(***************************************************************************)
Artifact(tool, version, inputs, hash, grid, acquired, content) ==
  [tool |-> tool, version |-> version, inputs |-> inputs, hash |-> hash,
   width |-> grid.width, gsd |-> grid.step,
   extent |-> <<grid.left, grid.left + grid.step * grid.width>>,
   acquired |-> acquired, content |-> content]

GridHash(method, source, reference) == <<method, source, reference>>

NdmiHash(nir, swir, grid_hash) == <<"ndmi", nir, swir, grid_hash>>

\* Shape, resolution and date of an artifact are those of a profile.
OnGridOf(artifact, profile) ==
  /\ artifact.width = profile.grid.width /\ artifact.gsd = profile.grid.step
  /\ artifact.acquired = profile.acquired

(***************************************************************************)
(* The provider answers the request, or an earlier one, or not at all; it  *)
(* refuses what its kernel refuses. The caller holds the answer against    *)
(* what it asked for.                                                      *)
(***************************************************************************)
AnyInputs(reply, expected) ==  \* mutant
  reply.result.operation = expected.operation /\ reply.result.parent = expected.parent

\* The result names the assets, digests, date and grid of the request; no grid is
\* held against the two-date stack.
Expected(reply, expected) ==
  /\ reply.result.inputs = [i \in DOMAIN expected.profiles |-> expected.profiles[i].asset]
  /\ reply.result.sha256 = [i \in DOMAIN expected.profiles |-> expected.profiles[i].sha256]
  /\ reply.result.acquired = expected.profiles[1].acquired
  /\ expected.grid \in {None, reply.result.grid}
  /\ reply.result.operation = expected.operation /\ reply.result.parent = expected.parent

Request(operation, profiles, parent, grid) ==
  [operation |-> operation, profiles |-> profiles, parent |-> parent, grid |-> grid]

Received(call, outcome, previous, expected) ==
  LET reply == IF call.provider = "stale" THEN previous ELSE outcome
  IN IF call.provider = "timeout" THEN Refused("tool_timeout")
     ELSE IF call.provider = "down" \/ reply = None THEN Refused("tool_unavailable")
     ELSE IF call.provider = "garbled" \/ ~Expected(reply, expected)
       THEN Refused("invalid_tool_output")
     ELSE [code |-> None, artifact |-> None, answer |-> reply]

Derived(received, artifact) ==
  IF received.code # None THEN received
  ELSE [received EXCEPT !.artifact = [artifact EXCEPT !.content = received.answer.content]]

(***************************************************************************)
(* raster.resample.                                                        *)
(***************************************************************************)
Resample(task, files, call, previous) ==
  LET ids == {call.source, call.reference}
      source == task.grid_inputs[call.source]
      reference == task.grid_inputs[call.reference]
      nearest == call.method = "nearest"
      reviewed == /\ ids \subseteq DOMAIN task.grid_inputs
                  /\ IF nearest
                     THEN /\ CheckedGrids(source, reference)
                          /\ AssetFits(task, source, "scene_classification")
                     ELSE /\ CheckedContinuousGrids(source, reference)
                          /\ AssetFits(task, source, "reflectance")
                  /\ AssetFits(task, reference, "reflectance")
      outcome == IF nearest
        THEN ComputeGrid(files[call.source], files[call.reference], source, reference)
        ELSE ComputeContinuousGrid(files[call.source], files[call.reference], source, reference)
  IN IF "raster.resample" \notin task.tools THEN Refused("policy_rejected")
     ELSE IF call.source = call.reference THEN Refused("invalid_tool_arguments")
     ELSE IF ~(ids \subseteq Allowed(task)) THEN Refused("policy_rejected")
     ELSE IF ~reviewed THEN Refused("invalid_tool_arguments")
     ELSE Derived(Received(call, outcome, previous,
                           Request(call.method, <<source, reference>>, None, reference.grid)),
                  Artifact(call.tool, IF nearest THEN "1.0.0" ELSE "1.1.0",
                           <<call.source, call.reference>>,
                           GridHash(call.method, source, reference),
                           reference.grid, source.acquired, None))

\* An artifact is a task band aligned by the tool under the reviewed policy.
AlignedBand(task, artifact) ==
  LET source == task.grid_inputs[artifact.inputs[1]]
      reference == task.grid_inputs[artifact.inputs[2]]
  IN /\ artifact.tool = "raster.resample" /\ artifact.version = "1.1.0"
     /\ Range(artifact.inputs) \subseteq Allowed(task)
     /\ CheckedContinuousGrids(source, reference)
     /\ artifact.hash = GridHash("bilinear", source, reference)
     /\ OnGridOf(artifact, reference)

(***************************************************************************)
(* raster.band_math: NDVI, with or without a cloud mask, and NDMI.         *)
(***************************************************************************)
ArgumentsFit(call) ==
  IF call.operation = "ndvi"
  THEN /\ call.red # None /\ call.red # call.nir /\ call.swir = None
       /\ (call.mask = None <=> call.policy = None)
  ELSE call.red = None /\ call.swir # None /\ call.mask = None /\ call.policy = None

\* A mask derived in this episode from the classification of the same scene.
MaskFits(task, mask, red, nir) ==
  LET source == task.grid_inputs[mask.inputs[1]]
      reference == task.grid_inputs[mask.inputs[2]]
  IN /\ mask.tool = "raster.resample" /\ mask.version = "1.0.0"
     /\ mask.acquired = red.acquired /\ mask.width = red.grid.width
     /\ mask.inputs[2] \in {red.asset, nir.asset}
     /\ NativeSCL(source) /\ NativeBand(reference)
     /\ source.item = red.item /\ source.acquired = red.acquired
     /\ reference \in {red, nir}
     /\ mask.hash = GridHash("nearest", source, reference)

Ndvi(task, files, artifacts, call, previous) ==
  LET red == task.raster_inputs[call.red]
      nir == task.raster_inputs[call.nir]
      mask == artifacts[call.mask]
      masked == call.mask # None
      outcome == IF masked
        THEN ComputeMaskedNDVI(files[call.red], files[call.nir], mask.content, red, nir)
        ELSE ComputeNDVI(files[call.red], files[call.nir], red, nir)
  IN IF ~({call.red, call.nir} \subseteq Allowed(task)) THEN Refused("policy_rejected")
     ELSE IF ~(/\ {call.red, call.nir} \subseteq DOMAIN task.raster_inputs
               /\ NativeBand(red) /\ NativeBand(nir) /\ CheckedPair(red, nir)
               /\ AssetFits(task, red, "reflectance") /\ AssetFits(task, nir, "reflectance"))
       THEN Refused("invalid_tool_arguments")
     ELSE IF masked /\ ~(task.derivation /\ task.cloud_policy)
       THEN Refused("invalid_tool_arguments")
     ELSE IF masked /\ call.mask \notin DOMAIN artifacts THEN Refused("policy_rejected")
     ELSE IF masked /\ ~MaskFits(task, mask, red, nir) THEN Refused("invalid_tool_arguments")
     ELSE IF masked /\ ReadCloudMask(mask.content, red) = None
       THEN Refused("invalid_tool_output")
     ELSE Derived(Received(call, outcome, previous,
                           IF masked THEN Request("masked_ndvi", <<red, nir>>, mask.content, red.grid)
                           ELSE Request("ndvi", <<red, nir>>, None, red.grid)),
                  Artifact(call.tool, IF masked THEN "1.1.0" ELSE "1.0.0",
                           <<call.red, call.nir>> \o (IF masked THEN <<call.mask>> ELSE <<>>),
                           <<"ndvi", red, nir, IF masked THEN mask.hash ELSE <<>>>>,
                           red.grid, red.acquired, None))

FixedBands(source, nir) == source.band = "swir16" /\ nir.band = "nir"

\* The aligned band an NDMI may use: B11 on the grid of the B08 it is asked for.
SwirFits(task, artifact, nir_id) ==
  /\ AlignedBand(task, artifact) /\ artifact.inputs[2] = nir_id
  /\ FixedBands(task.grid_inputs[artifact.inputs[1]], task.grid_inputs[nir_id])
  /\ AssetFits(task, task.grid_inputs[nir_id], "reflectance")

Ndmi(task, files, artifacts, call, previous) ==
  LET swir == artifacts[call.swir]
      nir == task.grid_inputs[call.nir]
      computed == ComputeNDMI(files[call.nir], nir, swir.content)
  IN IF ~(task.derivation /\ task.formula) THEN Refused("invalid_tool_arguments")
     ELSE IF call.swir \notin DOMAIN artifacts THEN Refused("policy_rejected")
     ELSE IF ~SwirFits(task, swir, call.nir) THEN Refused("invalid_tool_arguments")
     ELSE Derived(Received(call, computed, previous,
                           Request("ndmi", <<nir>>, swir.content, nir.grid)),
                  Artifact(call.tool, "1.2.0", <<call.nir, call.swir>>,
                           NdmiHash(nir, call.swir, swir.hash), nir.grid, nir.acquired, None))

BandMath(task, files, artifacts, call, previous) ==
  IF "raster.band_math" \notin task.tools THEN Refused("policy_rejected")
  ELSE IF ~ArgumentsFit(call) THEN Refused("invalid_tool_arguments")
  ELSE IF call.operation = "ndmi" THEN Ndmi(task, files, artifacts, call, previous)
  ELSE Ndvi(task, files, artifacts, call, previous)

(***************************************************************************)
(* raster.zonal_stats: over an aligned band, or over an NDMI of one.       *)
(***************************************************************************)
\* The profiles an artifact's lineage leads to, None when it is not reviewed.
ZonalSource(task, artifacts, artifact) ==
  LET nir == artifact.inputs[1]
      parent == artifacts[artifact.inputs[2]]
  IN IF artifact.tool = "raster.resample" /\ artifact.version = "1.1.0"
     THEN IF AlignedBand(task, artifact)
          THEN [source |-> task.grid_inputs[artifact.inputs[1]],
                reference |-> task.grid_inputs[artifact.inputs[2]]]
          ELSE None
     ELSE IF /\ artifact.tool = "raster.band_math" /\ artifact.version = "1.2.0"
             /\ task.formula /\ artifact.inputs[2] \in DOMAIN artifacts
             /\ SwirFits(task, parent, nir)
             /\ artifact.hash = NdmiHash(task.grid_inputs[nir], artifact.inputs[2], parent.hash)
          THEN [source |-> task.grid_inputs[parent.inputs[1]],
                reference |-> task.grid_inputs[nir]]
          ELSE None

\* The zone lies on the grid of the raster, in its reference system.
ZoneFits(zone, artifact, grid) ==
  /\ zone.crs = grid.crs
  /\ artifact.extent[1] =< zone.extent[1] /\ zone.extent[2] =< artifact.extent[2]
  /\ zone.extent[1] < zone.extent[2]

\* compute_zonal_stats over the centres a zone contains.
ZonalStatistics(content, centres) ==
  IF centres = {} THEN None
  ELSE LET valid == centres \cap content.valid
       IN [zone_pixels |-> Cardinality(centres), valid_pixels |-> Cardinality(valid),
           invalid_pixels |-> Cardinality(centres) - Cardinality(valid),
           statistics |-> Statistics(content.values, valid)]

CentresIn(zone, grid) ==
  {p \in Pixels(grid) : 2 * zone.extent[1] =< Centre(grid, p) /\ Centre(grid, p) =< 2 * zone.extent[2]}

Zonal(task, artifacts, call, previous) ==
  LET artifact == artifacts[call.raster]
      profiles == ZonalSource(task, artifacts, artifact)
      zone == task.zones[call.zone]
      result == ZonalStatistics(artifact.content, CentresIn(zone, profiles.reference.grid))
      answer == [raster |-> call.raster, zone |-> call.zone, result |-> result]
      reply == IF call.provider = "stale" THEN previous ELSE answer
  IN IF "raster.zonal_stats" \notin task.tools THEN Refused("policy_rejected")
     ELSE IF ~task.derivation \/ call.zone \notin DOMAIN task.zones
       THEN Refused("invalid_tool_arguments")
     ELSE IF call.raster \notin DOMAIN artifacts THEN Refused("policy_rejected")
     ELSE IF /\ artifact.tool = "raster.band_math" /\ artifact.version = "1.2.0"
             /\ artifact.inputs[2] \notin DOMAIN artifacts
       THEN Refused("policy_rejected")
     ELSE IF \/ profiles = None
             \/ ~OnGridOf(artifact, profiles.reference)
             \/ ~ZoneFits(zone, artifact, profiles.reference.grid)
       THEN Refused("invalid_tool_arguments")
     ELSE IF call.provider = "timeout" THEN Refused("tool_timeout")
     ELSE IF call.provider = "down" \/ reply = None \/ reply.result = None
       THEN Refused("tool_unavailable")
     ELSE IF call.provider = "garbled" \/ reply.raster # call.raster \/ reply.zone # call.zone
       THEN Refused("invalid_tool_output")
     ELSE [code |-> None, artifact |-> None, answer |-> reply]

(***************************************************************************)
(* temporal.select_align.                                                  *)
(***************************************************************************)
\* The candidates of a task are its public red and classification assets.
CandidateFits(task, candidate) ==
  LET fits(profile, role) ==
        /\ profile.asset \in Allowed(task) /\ AssetFits(task, profile, role)
        /\ task.assets[profile.asset].platform = candidate.platform
        /\ task.assets[profile.asset].bbox = candidate.bbox
  IN /\ fits(candidate.red, "reflectance") /\ fits(candidate.scl, "scene_classification")
     /\ task.assets[candidate.scl.asset].cloud = candidate.cloud

\* The stack a selection leads to satisfies what the selection promised.
StackMeets(result, arguments, before, after) ==
  LET total == result.grid.width
      cloud(fraction, candidate) ==
        /\ Equal(fraction, <<candidate.cloud, CloudUnits>>)
        /\ Leq(fraction, <<arguments.maximum_cloud, CloudUnits>>)
  IN /\ Leq(arguments.minimum_coverage, <<result.summary.before, total>>)
     /\ Leq(arguments.minimum_coverage, <<result.summary.after, total>>)
     /\ cloud(result.summary.before_cloud, before) /\ cloud(result.summary.after_cloud, after)

CandidateOf(task, item) == CHOOSE c \in ToSet(task.temporal_inputs) : c.item = item

Stacked(call, before, after, received) ==
  IF received.code = None /\ ~StackMeets(received.answer.result, call.arguments, before, after)
  THEN Refused("invalid_tool_output")
  ELSE Derived(received,
               Artifact(call.tool, "1.0.0",
                        <<before.red.asset, before.scl.asset, after.red.asset, after.scl.asset>>,
                        <<"stack", call.arguments, before, after>>, before.red.grid,
                        <<before.acquired, after.acquired>>, None))

Align(files, call, previous, before, after) ==
  LET profiles == <<before.red, before.scl, after.red, after.scl>>
      outcome == ComputeStack([i \in 1..4 |-> files[profiles[i].asset]], profiles)
  IN Stacked(call, before, after,
             Received(call, outcome, previous, Request("stack", profiles, None, None)))

\* What becomes of a selection.
Followed(task, files, call, previous, selection) ==
  CASE selection = None -> Refused("invalid_tool_arguments")
    [] selection # None /\ selection.status = "rejected" ->
         [code |-> None, artifact |-> None, answer |-> selection]
    [] OTHER -> Align(files, call, previous, CandidateOf(task, selection.before.item),
                      CandidateOf(task, selection.after.item))

SelectAlign(task, files, call, previous) ==
  IF "temporal.select_align" \notin task.tools THEN Refused("policy_rejected")
  ELSE IF \/ ~ArgumentsValid(call.arguments) \/ ~task.derivation \/ ~task.cloud_policy
          \/ \E c \in ToSet(task.temporal_inputs) : ~CandidateFits(task, c)
    THEN Refused("invalid_tool_arguments")
  ELSE Followed(task, files, call, previous, SelectPair(call.arguments, task.temporal_inputs))

(***************************************************************************)
(* The router, and an episode of calls.                                    *)
(***************************************************************************)
Answer(task, files, episode, call) ==
  LET previous == episode.previous[call.tool]
  IN CASE call.tool = "raster.resample" -> Resample(task, files, call, previous)
       [] call.tool = "raster.band_math" ->
            BandMath(task, files, episode.artifacts, call, previous)
       [] call.tool = "raster.zonal_stats" -> Zonal(task, episode.artifacts, call, previous)
       [] call.tool = "temporal.select_align" -> SelectAlign(task, files, call, previous)
       [] OTHER -> Refused("policy_rejected")

\* Deriving the same again yields the same artifact.
WithAnswer(episode, tool, answer) ==
  LET made == answer.artifact
      same(artifact) == /\ artifact.tool = made.tool /\ artifact.version = made.version
                        /\ artifact = made
      fresh == made # None /\ \A i \in DOMAIN episode.artifacts : ~same(episode.artifacts[i])
  IN [artifacts |-> IF fresh THEN Append(episode.artifacts, made)
                    ELSE episode.artifacts,
      previous |-> IF made # None \/ (tool = "raster.zonal_stats" /\ answer.answer # None)
                   THEN [episode.previous EXCEPT ![tool] = answer.answer]
                   ELSE episode.previous,
      answers |-> Append(episode.answers, answer)]

Called(task, files, episode, call) ==
  WithAnswer(episode, call.tool, Answer(task, files, episode, call))

ToolIds == {"raster.resample", "raster.band_math", "raster.zonal_stats", "temporal.select_align"}

Episode(task, files, calls) ==
  FoldLeft(LAMBDA episode, call : Called(task, files, episode, call),
           [artifacts |-> <<>>, previous |-> [tool \in ToolIds |-> None], answers |-> <<>>],
           calls)
===============================================================================
