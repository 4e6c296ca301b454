------------------------------ MODULE RasterCases ------------------------------
(***************************************************************************)
(* Small rasters, tasks and episodes for the raster kernels and tools, and *)
(* what must hold of what they derive.                                     *)
(***************************************************************************)
EXTENDS RasterTools

Utm(left, step, width) == [crs |-> "utm", left |-> left, step |-> step, width |-> width]

Profile(asset, item, band, acquired, grid) ==
  [asset |-> asset, sha256 |-> asset, item |-> item, band |-> band, acquired |-> acquired,
   grid |-> grid, dtype |-> IF band = "scl" THEN "uint8" ELSE "uint16",
   scale |-> IF band = "scl" THEN 1 ELSE 2, offset |-> IF band = "scl" THEN 0 ELSE -1,
   nodata |-> IF band = "scl" THEN 0 ELSE None]

File(profile, values, mask) ==
  [regular |-> TRUE, sha256 |-> profile.sha256, header |-> Header(profile),
   values |-> values, mask |-> mask]

Rows(width, values) == [0..(width - 1) -> values]

(***************************************************************************)
(* Kernels on every small raster.                                          *)
(***************************************************************************)
KernelCase(operation, profiles, files) ==
  [of |-> "kernel", operation |-> operation, profiles |-> profiles, files |-> files]

ResampleCases ==
  LET reference == Profile(2, 1, "red", 1, Utm(0, 1, 4))
      seen == File(reference, [p \in 0..3 |-> 1], [p \in 0..3 |-> TRUE])
  IN UNION {{LET source == Profile(1, 1, band, 1, Utm(left, 2, 3))
             IN KernelCase(IF band = "scl" THEN "nearest" ELSE "bilinear",
                           <<source, reference>>, <<File(source, v, m), seen>>) :
               left \in {-2, -1, 0, 1}, m \in Rows(3, BOOLEAN), v \in Rows(3, {0, 1, 2})} :
            band \in {"scl", "nir"}}

RatioCases ==
  LET grid == Utm(0, 1, 2)
      red == Profile(1, 1, "red", 1, grid)
      nir == Profile(2, 1, "nir", 1, grid)
  IN {KernelCase("ndvi", <<red, nir>>, <<File(red, v[1], m[1]), File(nir, v[2], m[2])>>) :
        v \in Rows(2, {0, 1, 2}) \X Rows(2, {0, 1, 2}),
        m \in Rows(2, BOOLEAN) \X Rows(2, BOOLEAN)}

StackProfiles ==
  LET grid == Utm(0, 1, 2)
  IN <<Profile(1, 1, "red", 1, grid), Profile(2, 1, "scl", 1, grid),
       Profile(3, 2, "red", 2, grid), Profile(4, 2, "scl", 2, grid)>>

\* A red pixel may hold the number the stack fills its gaps with.
StackFiles(red, scl, m) ==
  LET values == <<[p \in 0..1 |-> red[1][p + 1]], scl[1],
                  [p \in 0..1 |-> red[2][p + 1]], scl[2]>>
  IN [i \in 1..4 |-> File(StackProfiles[i], values[i], m[i])]

StackCases ==
  {KernelCase("stack", StackProfiles, StackFiles(red, scl, m)) :
     red \in {<<5, 6>>, <<StackNodata, 6>>} \X {<<7, 8>>, <<7, StackNodata>>},
     scl \in Rows(2, {0, 4, 9}) \X Rows(2, {4, 9}), m \in [1..4 -> Rows(2, BOOLEAN)]}

Computed(c) ==
  LET p == c.profiles
      f == c.files
  IN CASE c.operation = "nearest" -> ComputeGrid(f[1], f[2], p[1], p[2])
       [] c.operation = "bilinear" -> ComputeContinuousGrid(f[1], f[2], p[1], p[2])
       [] c.operation = "ndvi" -> ComputeNDVI(f[1], f[2], p[1], p[2])
       [] c.operation = "stack" -> ComputeStack(f, p)

\* Classes are 0 to 11, also under a mask; other bands have 16 bits.
Numbers(file) == IF file.header.dtype = "uint8" THEN 12 ELSE 65536

\* The same raster with other numbers under its mask.
Tampered(file) ==
  [file EXCEPT !.values = [p \in DOMAIN @ |->
     IF file.mask[p] THEN @[p] ELSE (@[p] + 2) % Numbers(file)]]

HiddenPixelsDoNotMatterIn(c) ==
  Computed(c) = Computed([c EXCEPT !.files = [i \in DOMAIN @ |-> Tampered(@[i])]])

\* A pixel that both dates see and classify has the red value of a gap.
HoldsFill(c) ==
  /\ c.operation = "stack"
  /\ \E p \in 0..1 :
       /\ \A i \in 1..4 : c.files[i].mask[p] /\ (i \in {2, 4} => c.files[i].values[p] # 0)
       /\ \E i \in {1, 3} : c.files[i].values[p] = StackNodata

AdmittedInputsAnsweredIn(c) == Computed(c) = None <=> HoldsFill(c)

\* A band that is linear in position stays so between the outermost centres.
OnTheLine(source, values, content) ==
  LET slope == (values[1] - values[0]) * source.scale
      first == Centre(source.grid, 0)
      x(p) == Centre(content.grid, p)
      line(p) == <<(values[0] * source.scale + source.offset) * 2 * source.grid.step
                     + slope * (x(p) - first), 2 * source.grid.step>>
  IN values[2] - values[1] = values[1] - values[0] =>
       \A p \in content.valid :
         first =< x(p) /\ x(p) =< Centre(source.grid, 2) => Equal(content.values[p], line(p))

RampsStayRampsIn(c) ==
  c.operation = "bilinear" => OnTheLine(c.profiles[1], c.files[1].values, Computed(c).content)

(***************************************************************************)
(* Episodes: two scenes, the first with four bands.                        *)
(***************************************************************************)
Fine == Utm(0, 1, 2)
Coarse == Utm(0, 2, 1)

Profiles ==
  [a \in {11, 12, 13, 14, 21, 23} |->
     CASE a = 11 -> Profile(11, 1, "red", 1, Fine) [] a = 12 -> Profile(12, 1, "nir", 1, Fine)
       [] a = 13 -> Profile(13, 1, "scl", 1, Coarse) [] a = 14 -> Profile(14, 1, "swir16", 1, Coarse)
       [] a = 21 -> Profile(21, 2, "red", 2, Fine) [] a = 23 -> Profile(23, 2, "scl", 2, Coarse)]

Files ==
  [a \in DOMAIN Profiles |->
     File(Profiles[a], [p \in Pixels(Profiles[a].grid) |-> 4 + (a % 10) + p],
          [p \in Pixels(Profiles[a].grid) |-> p = 0 \/ a # 12])]

World == <<0, 0, 3, 3>>

Asset(a) ==
  [public |-> TRUE, band |-> Profiles[a].band, sha256 |-> a, acquired |-> Profiles[a].acquired,
   role |-> IF Profiles[a].band = "scl" THEN "scene_classification" ELSE "reflectance",
   platform |-> "s2", bbox |-> World, cloud |-> 0]

Candidate(red, scl) ==
  [item |-> Profiles[red].item, acquired |-> Profiles[red].acquired, platform |-> "s2",
   instrument |-> "msi", red |-> Profiles[red], scl |-> Profiles[scl], bbox |-> World,
   cloud |-> 0]

Task ==
  [tools |-> ToolIds, derivation |-> TRUE, cloud_policy |-> TRUE, formula |-> TRUE,
   inputs |-> DOMAIN Profiles, accessible |-> DOMAIN Profiles,
   raster_inputs |-> Restrict(Profiles, {11, 12, 21}), grid_inputs |-> Profiles,
   temporal_inputs |-> <<Candidate(11, 13), Candidate(21, 23)>>,
   assets |-> [a \in DOMAIN Profiles |-> Asset(a)],
   zones |-> [z \in {"whole", "first"} |->
                [crs |-> "utm", extent |-> IF z = "whole" THEN <<0, 2>> ELSE <<0, 1>>]]]

Tasks ==
  {Task, [Task EXCEPT !.accessible = @ \ {12}], [Task EXCEPT !.formula = FALSE],
   [Task EXCEPT !.assets[14].sha256 = 0]}

Resampling(source, reference, method) ==
  [tool |-> "raster.resample", source |-> source, reference |-> reference, method |-> method,
   provider |-> "ok"]

NdviOf(red, nir, mask) ==
  [tool |-> "raster.band_math", operation |-> "ndvi", red |-> red, nir |-> nir, mask |-> mask,
   swir |-> None, policy |-> IF mask = None THEN None ELSE "scl", provider |-> "ok"]

NdmiOf(nir, swir) ==
  [NdviOf(None, nir, None) EXCEPT !.operation = "ndmi", !.swir = swir]

ZonalOf(raster, zone) ==
  [tool |-> "raster.zonal_stats", raster |-> raster, zone |-> zone, provider |-> "ok"]

Aligning ==
  [tool |-> "temporal.select_align", provider |-> "ok",
   arguments |-> [before |-> <<1, 1>>, after |-> <<2, 2>>, aoi |-> World,
                  minimum_coverage |-> <<1, 2>>, maximum_cloud |-> 6]]

Good ==
  {Resampling(14, 12, "bilinear"), Resampling(11, 12, "bilinear"), Resampling(13, 11, "nearest"),
   NdviOf(11, 12, None), NdviOf(11, 12, 1), NdviOf(21, 12, None), NdmiOf(12, 1), NdmiOf(12, 2),
   ZonalOf(1, "whole"), ZonalOf(2, "whole"), Aligning}

Answers == {[call EXCEPT !.provider = "stale"] : call \in Good} \cup
           {[ZonalOf(2, "first") EXCEPT !.provider = p] : p \in {"timeout", "down", "garbled"}}

EpisodeCase(task, calls) == [of |-> "episode", task |-> task, calls |-> calls]

EpisodeCases ==
  {EpisodeCase(t, <<a, b>>) : t \in Tasks, a \in Good, b \in Good \cup Answers} \cup
  {EpisodeCase(Task, <<a, b, c>>) : a \in Good, b \in Good, c \in Good \cup Answers}

(***************************************************************************)
(* What the lineage of an artifact says is what the artifact holds.        *)
(***************************************************************************)
Rederived(artifacts, i) ==
  LET a == artifacts[i]
      in(k) == a.inputs[k]
      profile(k) == Profiles[in(k)]
  IN CASE a.tool = "raster.resample" /\ a.hash[1] = "nearest" ->
            ComputeGrid(Files[in(1)], Files[in(2)], profile(1), profile(2))
       [] a.tool = "raster.resample" /\ a.hash[1] = "bilinear" ->
            ComputeContinuousGrid(Files[in(1)], Files[in(2)], profile(1), profile(2))
       [] a.tool = "raster.band_math" /\ a.version = "1.0.0" ->
            ComputeNDVI(Files[in(1)], Files[in(2)], profile(1), profile(2))
       [] a.tool = "raster.band_math" /\ a.version = "1.1.0" ->
            ComputeMaskedNDVI(Files[in(1)], Files[in(2)], artifacts[in(3)].content,
                              profile(1), profile(2))
       [] a.tool = "raster.band_math" /\ a.version = "1.2.0" ->
            ComputeNDMI(Files[in(1)], profile(1), artifacts[in(2)].content)
       [] a.tool = "temporal.select_align" ->
            ComputeStack([k \in 1..4 |-> Files[in(k)]], [k \in 1..4 |-> profile(k)])

\* The assets an artifact was made from, through the artifacts between.
Leaves(artifacts, i) ==
  UNION {IF id > 10 THEN {id} ELSE Range(artifacts[id].inputs) :
           id \in Range(artifacts[i].inputs)}

IndexBands(artifacts, i) ==
  CASE artifacts[i].version = "1.2.0" -> {"nir", "swir16"}
    [] artifacts[i].version = "1.1.0" /\ artifacts[i].tool = "raster.band_math" ->
         {"red", "nir", "scl"}
    [] artifacts[i].version = "1.0.0" /\ artifacts[i].tool = "raster.band_math" -> {"red", "nir"}
    [] OTHER -> {Profiles[a].band : a \in Leaves(artifacts, i)}

Explained(task, artifacts) ==
  \A i \in DOMAIN artifacts :
    /\ Rederived(artifacts, i).content = artifacts[i].content
    /\ Leaves(artifacts, i) \subseteq task.accessible
    /\ {Profiles[a].band : a \in Leaves(artifacts, i)} = IndexBands(artifacts, i)
    /\ artifacts[i].tool # "temporal.select_align" =>
         Cardinality({Profiles[a].item : a \in Leaves(artifacts, i)}) = 1

LineageExplainsIn(c) == Explained(c.task, Episode(c.task, Files, c.calls).artifacts)

\* The calls that artifact i is meant for.
Uses(artifact, i) ==
  (IF <<artifact.tool, artifact.version>>
        \in {<<"raster.resample", "1.1.0">>, <<"raster.band_math", "1.2.0">>}
   THEN {ZonalOf(i, "whole")} ELSE {}) \cup
  (IF artifact.inputs = <<13, 11>> THEN {NdviOf(11, 12, i)} ELSE {}) \cup
  (IF artifact.inputs = <<14, 12>> THEN {NdmiOf(12, i)} ELSE {})

AllUsable(task, episode) ==
  \A i \in DOMAIN episode.artifacts : \A call \in Uses(episode.artifacts[i], i) :
    Answer(task, Files, episode, call).code = None

\* A tool accepts what another tool derived for it.
ProductsAreAcceptedIn(c) == c.task = Task => AllUsable(Task, Episode(Task, Files, c.calls))

(***************************************************************************)
(* Selections: two or three candidates and every date, cloud and sensor.   *)
(***************************************************************************)
Proposal(item, acquired, platform, box, cloud) ==
  LET profile(band) == [asset |-> <<item, band>>, item |-> item, acquired |-> acquired,
                        band |-> band]
  IN [item |-> item, acquired |-> acquired, platform |-> platform, instrument |-> "msi",
      red |-> profile("red"), scl |-> profile("scl"), bbox |-> box, cloud |-> cloud]

Wanted ==
  [before |-> <<1, 2>>, after |-> <<3, 4>>, aoi |-> <<0, 0, 2, 2>>,
   minimum_coverage |-> <<1, 2>>, maximum_cloud |-> 1]

SelectCase(arguments, candidates) ==
  [of |-> "selection", arguments |-> arguments, candidates |-> candidates]

SelectCases ==
  LET boxes == {<<0, 0, 3, 3>>, <<0, 0, 1, 2>>, <<0, 0, 2, 1>>, <<2, 0, 3, 3>>}
      first == {Proposal(1, 1, "a", b, k) : b \in boxes, k \in {0, 2}}
      second == {Proposal(i, 2, p, b, k) : i \in {1, 2}, p \in {"a", "b"},
                                           b \in boxes, k \in {0, 1}}
      third == {Proposal(3, d, p, <<0, 0, 3, 3>>, k) : d \in {3, 4, 5}, p \in {"a", "b"},
                                                       k \in {0, 1, 2}}
      fourth == {Proposal(4, 3, "a", <<0, 0, 3, 3>>, 1), Proposal(4, 4, "b", <<0, 0, 3, 3>>, 0)}
  IN {SelectCase(Wanted, <<a, b, c, d>>) : a \in first, b \in second, c \in third, d \in fourth}

Pair(selection) == <<selection.before, selection.after>>

Laxer(arguments) ==
  {[arguments EXCEPT !.minimum_coverage = <<1, 4>>], [arguments EXCEPT !.maximum_cloud = 2],
   [arguments EXCEPT !.after[2] = 5]}

\* The selection depends neither on the order of the candidates nor on those
\* it does not choose, and asking for less never loses a pair.
StandsAgainst(selection, laxer) ==
  /\ laxer.status = "selected"
  /\ laxer.before.cloud + laxer.after.cloud =< selection.before.cloud + selection.after.cloud

Stable(c, selection) ==
  /\ SelectPair(c.arguments, Reverse(c.candidates)) = selection
  /\ selection # None /\ selection.status = "selected" =>
       /\ \A i \in DOMAIN c.candidates :
            c.candidates[i].item \notin {selection.before.item, selection.after.item} =>
              Pair(SelectPair(c.arguments, RemoveAt(c.candidates, i))) = Pair(selection)
       /\ \A arguments \in Laxer(c.arguments) :
            StandsAgainst(selection, SelectPair(arguments, c.candidates))

SelectionIsStableIn(c) == Stable(c, SelectPair(c.arguments, c.candidates))
===============================================================================
