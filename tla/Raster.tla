-------------------------------- MODULE Raster --------------------------------
(***************************************************************************)
(* The raster kernels (core/raster_math.py, raster_grid.py, temporal.py):  *)
(* band ratios, resampling to a reference grid, cloud masking, two-date    *)
(* stacks and statistics. A grid is a row of pixels <<left edge, step>>;   *)
(* digital numbers and physical values are integers, results fractions.    *)
(* A file is what a path leads to; a kernel returns None where the code    *)
(* raises ValueError.                                                      *)
(***************************************************************************)
EXTENDS Fractions, Sequences, FiniteSets, Functions

CategoricalNodata == 255
StackNodata == 65535

\* SCL classes that the cloud policy excludes, and those it knows.
CloudExcluded == {1, 3, 8, 9, 10, 11}
Classes == 1..11

(***************************************************************************)
(* Profiles, and the files that must agree with them.                      *)
(***************************************************************************)
GridValid(grid) == grid.step > 0 /\ grid.width > 0

BandProfile(p, bands) == p.band \in bands /\ p.dtype = "uint16" /\ GridValid(p.grid)
NativeBand(p) == BandProfile(p, {"red", "nir"})
ContinuousBand(p) == BandProfile(p, {"red", "nir", "swir16"})

NativeSCL(p) ==
  /\ p.band = "scl" /\ p.dtype = "uint8" /\ GridValid(p.grid)
  /\ p.scale = 1 /\ p.offset = 0 /\ p.nodata = 0

\* One scene; the grids may differ.
SameScene(source, reference) ==
  /\ source.asset # reference.asset
  /\ source.item = reference.item /\ source.acquired = reference.acquired

CheckedGrids(source, reference) ==
  NativeSCL(source) /\ NativeBand(reference) /\ SameScene(source, reference)

CheckedContinuousGrids(source, reference) ==
  ContinuousBand(source) /\ ContinuousBand(reference) /\ SameScene(source, reference)

\* One scene on one grid: nothing is aligned implicitly.
CheckedPair(red, nir) ==
  /\ red.band = "red" /\ nir.band = "nir"
  /\ SameScene(red, nir) /\ red.grid = nir.grid

Header(profile) ==
  [grid |-> profile.grid, dtype |-> profile.dtype, nodata |-> profile.nodata,
   scale |-> profile.scale, offset |-> profile.offset]

Reads(file, profile) ==
  file.regular /\ file.sha256 = profile.sha256 /\ file.header = Header(profile)

Physical(file, profile) ==
  [p \in DOMAIN file.values |-> file.values[p] * profile.scale + profile.offset]

(***************************************************************************)
(* Moving between grids; positions are doubled so that centres are whole.  *)
(***************************************************************************)
Pixels(grid) == 0..(grid.width - 1)
Centre(grid, p) == 2 * grid.left + grid.step * (2 * p + 1)
Beyond(grid, x) == x < 2 * grid.left \/ x >= 2 * (grid.left + grid.step * grid.width)

\* reproject with Resampling.nearest.
Nearest(values, source, target, nodata) ==
  [p \in Pixels(target) |->
     IF Beyond(source, Centre(target, p)) THEN nodata
     ELSE values[(Centre(target, p) - 2 * source.left) \div (2 * source.step)]]

\* The source pixels a position lies between, with their weights; at the edge
\* of the image the neighbour that is missing counts for nothing.
Neighbours(source, x) ==
  LET offset == x - Centre(source, 0)
      low == offset \div (2 * source.step)
      high_weight == offset % (2 * source.step)
      weight == [i \in {low, low + 1} |->
                   IF i = low THEN 2 * source.step - high_weight ELSE high_weight]
  IN Restrict(weight, {i \in DOMAIN weight : weight[i] > 0 /\ i \in Pixels(source)})

\* reproject with Resampling.bilinear.
Bilinear(values, source, target) ==
  [p \in Pixels(target) |->
     LET near == Neighbours(source, Centre(target, p))
         total == SumFunction(near)
     IN IF Beyond(source, Centre(target, p)) THEN Zero
        ELSE <<SumFunction([i \in DOMAIN near |-> near[i] * values[i]]), total>>]

(***************************************************************************)
(* What a result says of its pixels.                                       *)
(***************************************************************************)
Lowest(values, valid) == values[CHOOSE p \in valid : \A q \in valid : Leq(values[p], values[q])]
Highest(values, valid) == values[CHOOSE p \in valid : \A q \in valid : Leq(values[q], values[p])]

Statistics(values, valid) ==
  [pixels |-> Cardinality(valid),
   minimum |-> IF valid = {} THEN None ELSE Lowest(values, valid),
   maximum |-> IF valid = {} THEN None ELSE Highest(values, valid),
   mean |-> IF valid = {} THEN None
            ELSE Over(SumOver(valid, LAMBDA p : values[p]), <<Cardinality(valid), 1>>)]

ClassSummary(values, valid) ==
  [pixels |-> Cardinality(valid),
   counts |-> [k \in 0..11 |-> Cardinality({p \in valid : values[p] = k})]]

\* The file a kernel writes: nodata outside the mask.
Written(grid, values, valid, nodata) ==
  [grid |-> grid, valid |-> valid,
   values |-> [p \in Pixels(grid) |-> IF p \in valid THEN values[p] ELSE nodata]]

\* The parent is the content of the artifact a kernel also read: its digest.
Outcome(operation, profiles, parent, content, summary) ==
  [content |-> content,
   result |-> [operation |-> operation, parent |-> parent, acquired |-> profiles[1].acquired,
               inputs |-> [i \in DOMAIN profiles |-> profiles[i].asset],
               sha256 |-> [i \in DOMAIN profiles |-> profiles[i].sha256],
               grid |-> content.grid, summary |-> summary]]

(***************************************************************************)
(* The validators: the provider and the caller both decode the output and  *)
(* hold it against the result.                                             *)
(***************************************************************************)
GridValidated(content, result) ==
  /\ content.grid = result.grid
  /\ \A p \in DOMAIN content.values :
       IF p \in content.valid THEN content.values[p] \in Classes
       ELSE content.values[p] = CategoricalNodata
  /\ result.summary = ClassSummary(content.values, content.valid)

ContinuousValidated(content, result) ==
  /\ content.grid = result.grid
  /\ \A p \in DOMAIN content.values : p \notin content.valid => content.values[p] = None
  /\ result.summary = Statistics(content.values, content.valid)

IndexValidated(content, result) ==
  /\ ContinuousValidated(content, result)
  /\ \A p \in content.valid :
       Leq(<<-1, 1>>, content.values[p]) /\ Leq(content.values[p], One)

StackValidated(content, result) ==
  /\ content.grid = result.grid
  /\ \A band \in DOMAIN content.values : \A p \in Pixels(content.grid) :
       IF p \in content.valid
       THEN /\ content.values[band][p] # StackNodata
            /\ band \in {2, 4} => content.values[band][p] \in Classes
       ELSE content.values[band][p] = StackNodata
  /\ Cardinality(content.valid) = result.summary.aligned

Validated(outcome, check(_, _)) ==
  IF check(outcome.content, outcome.result) THEN outcome ELSE None

(***************************************************************************)
(* Resampling a classification, or one band.                               *)
(***************************************************************************)
\* The classification on a target grid, 255 where there is none.
AlignedClasses(file, source, target) ==
  Nearest([p \in Pixels(source.grid) |->
             IF file.mask[p] /\ file.values[p] # 0 THEN file.values[p] ELSE CategoricalNodata],
          source.grid, target, CategoricalNodata)

ClassesKnown(file) == \A p \in DOMAIN file.values : file.values[p] =< 11

ComputeGrid(source_file, reference_file, source, reference) ==
  LET classes == AlignedClasses(source_file, source, reference.grid)
      valid == {p \in Pixels(reference.grid) : classes[p] # CategoricalNodata}
      content == Written(reference.grid, classes, valid, CategoricalNodata)
  IN IF /\ CheckedGrids(source, reference)
        /\ Reads(source_file, source) /\ Reads(reference_file, reference)
        /\ ClassesKnown(source_file)
     THEN Validated(Outcome("nearest", <<source, reference>>, None, content,
                            ClassSummary(classes, valid)), GridValidated)
     ELSE None

\* A position counts when every source pixel it is interpolated from is valid:
\* the warped mask keeps its full weight.
FullyCovered(weights) == {p \in DOMAIN weights : weights[p][1] >= weights[p][2]}

ComputeContinuousGrid(source_file, reference_file, source, reference) ==
  LET physical == Physical(source_file, source)
      sound(p) == source_file.mask[p] /\ source_file.values[p] # source.nodata
      weighted == [p \in Pixels(source.grid) |-> IF sound(p) THEN physical[p] ELSE 0]
      weights == Bilinear([p \in Pixels(source.grid) |-> IF sound(p) THEN 1 ELSE 0],
                          source.grid, reference.grid)
      valid == FullyCovered(weights)
      warped == Bilinear(weighted, source.grid, reference.grid)
      content == Written(reference.grid, [p \in valid |-> Over(warped[p], weights[p])],
                         valid, None)
  IN IF /\ CheckedContinuousGrids(source, reference)
        /\ Reads(source_file, source) /\ Reads(reference_file, reference)
     THEN Validated(Outcome("bilinear", <<source, reference>>, None, content,
                            Statistics(content.values, valid)), ContinuousValidated)
     ELSE None

(***************************************************************************)
(* Ratios of two bands: (b - a) / (b + a) where both are reflectances.     *)
(***************************************************************************)
Ratioable(a, b) == Leq(Zero, a) /\ Leq(Zero, b) /\ ~Leq(Plus(a, b), Zero)

Ratio(a, b) == Over(Minus(b, a), Plus(b, a))

\* A ratio raster over the pixels of a mask.
Index(grid, a, b, mask) ==
  LET valid == {p \in mask : Ratioable(a[p], b[p])}
  IN Written(grid, [p \in valid |-> Ratio(a[p], b[p])], valid, None)

Whole(file, profile) == [p \in DOMAIN file.values |-> <<Physical(file, profile)[p], 1>>]
Seen(file) == {p \in DOMAIN file.values : file.mask[p]}

ComputeNDVI(red_file, nir_file, red, nir) ==
  LET content == Index(red.grid, Whole(red_file, red), Whole(nir_file, nir),
                       Seen(red_file) \cap Seen(nir_file))
  IN IF CheckedPair(red, nir) /\ Reads(red_file, red) /\ Reads(nir_file, nir)
     THEN Validated(Outcome("ndvi", <<red, nir>>, None, content,
                            Statistics(content.values, content.valid)), IndexValidated)
     ELSE None

\* The clear pixels of a mask artifact, None when it is not one for this grid.
ReadCloudMask(mask, reference) ==
  LET excluded == {p \in mask.valid : mask.values[p] \in CloudExcluded}
  IN IF /\ mask.grid = reference.grid
        /\ \A p \in DOMAIN mask.values :
             IF p \in mask.valid THEN mask.values[p] \in Classes
             ELSE mask.values[p] = CategoricalNodata
     THEN [clear |-> mask.valid \ excluded, mask_valid |-> Cardinality(mask.valid),
           excluded |-> Cardinality(excluded)]
     ELSE None

ComputeMaskedNDVI(red_file, nir_file, mask, red, nir) ==
  LET read == ReadCloudMask(mask, red)
      content == Index(red.grid, Whole(red_file, red), Whole(nir_file, nir),
                       Seen(red_file) \cap Seen(nir_file) \cap read.clear)
      summary == Statistics(content.values, content.valid)
  IN IF /\ CheckedPair(red, nir) /\ Reads(red_file, red) /\ Reads(nir_file, nir)
        /\ read # None
     THEN Validated(Outcome("masked_ndvi", <<red, nir>>, mask, content, summary), IndexValidated)
     ELSE None

\* The near infrared against an aligned band artifact on its grid.
ComputeNDMI(nir_file, nir, swir) ==
  LET content == Index(nir.grid, swir.values, Whole(nir_file, nir),
                       Seen(nir_file) \cap swir.valid)
  IN IF NativeBand(nir) /\ nir.band = "nir" /\ Reads(nir_file, nir) /\ swir.grid = nir.grid
     THEN Validated(Outcome("ndmi", <<nir>>, swir, content,
                            Statistics(content.values, content.valid)), IndexValidated)
     ELSE None

(***************************************************************************)
(* Two dates on one grid.                                                  *)
(***************************************************************************)
CheckedTemporalInputs(before_red, before_scl, after_red, after_scl) ==
  /\ CheckedGrids(before_scl, before_red) /\ CheckedGrids(after_scl, after_red)
  /\ before_red.grid = after_red.grid /\ before_red.acquired < after_red.acquired

EitherDate(before, after) == before \cup after  \* mutant

\* A pixel that one date lacks is missing from the whole stack.
BothDates(before, after) == before \cap after

CloudFraction(classes, valid) ==
  IF valid = {} THEN Zero
  ELSE <<Cardinality({p \in valid : classes[p] \in CloudExcluded}), Cardinality(valid)>>

ComputeStack(files, profiles) ==
  LET grid == profiles[1].grid
      bands == <<files[1].values, AlignedClasses(files[2], profiles[2], grid),
                 files[3].values, AlignedClasses(files[4], profiles[4], grid)>>
      classed(i) == {p \in Pixels(grid) : bands[i][p] # CategoricalNodata}
      before == Seen(files[1]) \cap classed(2)
      after == Seen(files[3]) \cap classed(4)
      aligned == BothDates(before, after)
      values == [i \in 1..4 |-> Written(grid, bands[i], aligned, StackNodata).values]
  IN IF /\ CheckedTemporalInputs(profiles[1], profiles[2], profiles[3], profiles[4])
        /\ \A i \in 1..4 : Reads(files[i], profiles[i])
        /\ ClassesKnown(files[2]) /\ ClassesKnown(files[4])
     THEN Validated(
            Outcome("stack", profiles, None, [grid |-> grid, values |-> values, valid |-> aligned],
                    [before |-> Cardinality(before), after |-> Cardinality(after),
                     aligned |-> Cardinality(aligned),
                     before_cloud |-> CloudFraction(bands[2], classed(2)),
                     after_cloud |-> CloudFraction(bands[4], classed(4))]), StackValidated)
     ELSE None
===============================================================================
