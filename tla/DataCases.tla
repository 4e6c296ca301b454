------------------------------ MODULE DataCases ------------------------------
(***************************************************************************)
(* Bounded inputs of zones, byte ranges and raster windows, and what must  *)
(* be true of the results.                                                 *)
(***************************************************************************)
EXTENDS Absence, Integers, Sequences, SequencesExt, FiniteSets, FiniteSetsExt, TLC

CONSTANTS BlockSize, MaxRange, CacheBlocks

Zone == INSTANCE Zones
Http == INSTANCE HttpRanges
Large == INSTANCE Windows

(***************************************************************************)
(* Zones: closed polygons of three to five vertices on the pixels' centres *)
(* of a grid of three by three pixels of two units.                        *)
(***************************************************************************)
Source ==
  [artifact_id |-> 1, sha256 |-> 8, crs |-> 32, left |-> 0, top |-> 6, across |-> 2, down |-> -2,
   width |-> 3, height |-> 3]

Vertices == {1, 3, 5} \X {1, 3, 5}

Polygons ==
  {Append(p, p[1]) : p \in [1..3 -> Vertices] \cup [1..4 -> Vertices]} \cup
  {Append(p, p[1]) : p \in {q \in [1..5 -> Vertices] : q[1] = <<1, 1>> /\ q[2] \in {<<5, 1>>, <<5, 5>>}}}

ZoneOf(points) ==
  LET xs == {p[1] : p \in ToSet(points)}
      ys == {p[2] : p \in ToSet(points)}
  IN [crs |-> 32, coordinates |-> points,
      bbox_wgs84 |-> Zone!Geographic(32, <<Min(xs), Min(ys), Max(xs), Max(ys)>>)]

ZoneCases == {[of |-> "zone", points |-> p, seen |-> n] : p \in Polygons, n \in {0, 4, 9}}

\* The first "seen" pixels are valid, in row-major order.
ZoneFile(case) ==
  LET at(p) == 3 * p.row + p.column
  IN [sha256 |-> 8, profile |-> [Source EXCEPT !.artifact_id = None, !.sha256 = None],
      mask |-> [p \in Zone!Pixels(Source) |-> at(p) < case.seen],
      values |-> [p \in Zone!Pixels(Source) |-> IF at(p) = 2 THEN None ELSE ((5 * at(p)) % 7) - 3]]

Steps(a, b) ==
  LET dx == (b[1] - a[1]) \div 2
      dy == (b[2] - a[2]) \div 2
  IN Max({n \in 1..2 : dx % n = 0 /\ dy % n = 0})

\* Pick's theorem: the points inside and on a simple lattice polygon.
LatticePoints(points) ==
  LET area == Zone!TwiceArea(points) \div 4
      edge == FoldLeft(LAMBDA sum, i : sum + Steps(points[i], points[i + 1]), 0,
                       [i \in 1..(Len(points) - 1) |-> i])
  IN (Max({area, -area}) + edge + 2) \div 2

ZonesCountPixelsIn(case) ==
  LET request == [raster_artifact_id |-> 1, zone_id |-> 7, source |-> Source,
                  zone |-> [zone_id |-> 7] @@ ZoneOf(case.points)]
      result == Zone!ComputeZonalStats(ZoneFile(case), request)
  IN Zone!ZoneValid(request.zone) /\ Zone!RequestConsistent(request) =>
       /\ result # None
       /\ Zone!ResultValid(result)
       /\ result.zone_pixels = LatticePoints(case.points)

(***************************************************************************)
(* Ranges of an artifact.                                                  *)
(***************************************************************************)
Bytes(n, of) == [i \in 1..n |-> 10 * of + i]

Headers == {None} \cup [first : {None} \cup 0..5, last : {None} \cup 0..5]

RangeCases ==
  {[of |-> "range", length |-> n, header |-> h, stored |-> s] :
     n \in 0..4, h \in Headers, s \in {"whole", "missing", "corrupt"}}

\* The bytes that a header asks for, by RFC 9110.
Asked(header, n) ==
  {i \in 1..n :
     IF header.first = None THEN header.last # None /\ i > n - header.last
     ELSE i > header.first /\ (header.last = None \/ i =< header.last + 1)}

ServedExactly(case, artifact, asked, response) ==
  /\ case.stored # "whole" => response.status = 503
  /\ (case.stored = "whole" /\ case.header = None) =>
       response.status = 200 /\ response.content = artifact
  /\ (case.stored = "whole" /\ case.header # None /\ asked = {}) => response.status = 416
  /\ (case.stored = "whole" /\ asked # {}) =>
       /\ response.status = 206
       /\ response.content = [i \in 1..Cardinality(asked) |-> artifact[Min(asked) + i - 1]]
       /\ response.range = <<Min(asked) - 1, Max(asked) - 1, case.length>>

Stored(case, artifact) ==
  CASE case.stored = "whole" -> artifact
    [] case.stored = "missing" -> None
    [] OTHER -> Append(artifact, 0)

ServedRangesAreExactIn(case) ==
  LET artifact == Bytes(case.length, 1)
      asked == IF case.header = None THEN {} ELSE Asked(case.header, case.length)
  IN ServedExactly(case, artifact, asked,
                   Http!Response(artifact, Stored(case, artifact), case.header))

(***************************************************************************)
(* Reads of a pinned object, whose server may from some request on have    *)
(* another object, cut a reply short, ignore the range or send too much.   *)
(***************************************************************************)
Manners == {"honest", "changed", "short", "whole", "long"}

ReadOps == [offset : {0, 1, 3}, size : {2, 3, None}]

\* Enough for two reads of single bytes, each from a block that is not kept.
Ample == 2 * MaxRange * BlockSize

ReadCases ==
  {[of |-> "reads", length |-> n, manner |-> m, since |-> k, ops |-> ops, max_bytes |-> b] :
     n \in {1, 4, 5}, m \in Manners, k \in 1..3, ops \in [1..2 -> ReadOps], b \in {5, Ample}}

\* The reply to a range, after so many requests.
Reply(case, range, requests) ==
  LET object == Bytes(case.length, IF case.manner = "changed" /\ requests >= case.since THEN 2 ELSE 1)
      part == SubSeq(object, range[1] + 1, range[2] + 1)
      sent == IF requests < case.since THEN part
              ELSE CASE case.manner = "short" -> Front(part)
                     [] case.manner = "long" -> Append(part, 0)
                     [] case.manner = "whole" -> object
                     [] OTHER -> part
      ignored == case.manner = "whole" /\ requests >= case.since
  IN [status |-> IF ignored THEN 200 ELSE 206, range |-> IF ignored THEN None ELSE range,
      etag |-> object[1], content |-> sent, announced |-> 0]

Pinned(case) ==
  Http!Opened([bytes |-> 0, requests |-> 0, late |-> FALSE, max_bytes |-> case.max_bytes,
               max_requests |-> IF case.max_bytes = 5 THEN 3 ELSE 1 + 2 * MaxRange],
              [status |-> 200, range |-> None, etag |-> 11, content |-> <<>>,
               announced |-> case.length])

ServerOf(case) ==
  [asked \in (Nat \X Nat \X Nat) \X Nat |-> Reply(case, asked[1], asked[2])]

\* The readers before each read, and what it gave.
Lengthened(session, got) ==
  [readers |-> Append(session.readers, got.reader), gots |-> Append(session.gots, got)]

Session(case) ==
  FoldLeft(LAMBDA s, op :
             Lengthened(s, Http!Read(Http!Seek(Last(s.readers), op.offset, 0), op.size,
                                     ServerOf(case))),
           [readers |-> <<Pinned(case)>>, gots |-> <<>>], case.ops)

\* What a read of the pinned object is for.
Part(case, op) ==
  SubSeq(Bytes(case.length, 1), op.offset + 1,
         IF op.size = None THEN case.length ELSE Min({case.length, op.offset + op.size}))

ReadExactly(case, got, reader, part) ==
  /\ ~got.failed => got.content = part
  /\ IsPrefix(got.content, part)
  /\ Len(reader.cache) =< CacheBlocks
  /\ reader.http.requests =< reader.http.max_requests
  /\ case.manner \in {"honest", "changed"} => reader.http.bytes =< case.max_bytes
  /\ (case.manner = "honest" /\ case.max_bytes = Ample) =>
       (got.failed <=> Len(part) > MaxRange)

AllExact(case, session) ==
  \A i \in DOMAIN case.ops :
    ReadExactly(case, session.gots[i], session.readers[i + 1], Part(case, case.ops[i]))

PinnedReadsAreExactIn(case) == AllExact(case, Session(case))

(***************************************************************************)
(* Windows: tables of images, and an output that somebody edits before it  *)
(* is verified.                                                            *)
(***************************************************************************)
Image(digest, width, height) ==
  [digest |-> digest, width |-> width, height |-> height, decodes |-> TRUE, changes |-> None,
   lossy |-> {}]

Wide == Image(1, 5, 3)
Tall == Image(2, 2, 5)

\* "copy" has the content of "wide".
Libraries ==
  LET images == [wide |-> Wide, copy |-> Wide, tall |-> Tall, small |-> Image(3, 2, 2)]
  IN {images,
      [images EXCEPT !.tall.lossy = {Large!WindowAt(Tall, 1)}],
      [images EXCEPT !.tall.decodes = FALSE],
      [images EXCEPT !.wide.changes = "hash"], [images EXCEPT !.tall.changes = "read"],
      [images EXCEPT !.tall.changes = "publish"]}

Tables ==
  {<<"wide", "copy", "tall">>, <<"tall", "small", "wide">>, <<"small", "tall">>, <<"elsewhere">>,
   <<"elsewhere", "copy", "wide">>}

OutputEdits ==
  {[how |-> "none", at |-> 1]} \cup
  [how : {"pixels", "rewritten", "drop_sample", "repeat_sample", "other_window", "other_source",
          "image_changed"}, at : 1..2]

WindowCases ==
  {[of |-> "windows", images |-> l, rows |-> t, sample_count |-> n, max_rows |-> m,
    max_output_bytes |-> b, edit |-> e] :
     l \in Libraries, t \in Tables, n \in {1, 3, 8}, m \in 2..3, b \in {3, 9, 40},
     e \in OutputEdits}

WindowSpec(case) ==
  [parquet |-> 9, rows |-> case.rows, images |-> case.images, sample_count |-> case.sample_count,
   max_rows |-> case.max_rows, max_output_bytes |-> case.max_output_bytes,
   allowed |-> {"wide", "copy", "tall", "small"}]

\* "rewritten": other pixels, and the published checksum of these.
EditedOutput(output, edit) ==
  LET at == edit.at
      pixels == <<7, output.staged[at][2]>>
  IN IF at \notin DOMAIN output.samples THEN output
     ELSE IF edit.how = "pixels" THEN [output EXCEPT !.staged[at] = pixels]
     ELSE IF edit.how = "rewritten" THEN
            [output EXCEPT !.staged[at] = pixels, !.samples[at].content = pixels]
     ELSE IF edit.how = "drop_sample" THEN [output EXCEPT !.samples = RemoveAt(@, at)]
     ELSE IF edit.how = "repeat_sample" THEN [output EXCEPT !.samples[at] = output.samples[1]]
     ELSE IF edit.how = "other_window" THEN
            [output EXCEPT !.receipt[at].derivation.window.column = @ + 1]
     ELSE IF edit.how = "other_source" THEN [output EXCEPT !.receipt[at].source = 7]
     ELSE output

EditedImages(case) ==
  IF case.edit.how = "image_changed" THEN [case.images EXCEPT !.wide.digest = 6] ELSE case.images

Cells(window) ==
  (window.column .. (window.column + window.width - 1)) \X
  (window.row .. (window.row + window.height - 1))

\* The grid's windows share no pixel and leave none out, and are found by index.
Tiled(image) ==
  LET grid == Large!GridWindows(image)
  IN /\ UNION {Cells(w) : w \in ToSet(grid)} = (0..(image.width - 1)) \X (0..(image.height - 1))
     /\ \A i, j \in DOMAIN grid : i # j => Cells(grid[i]) \cap Cells(grid[j]) = {}
     /\ Len(grid) = Large!TileCount(image)
     /\ \A i \in DOMAIN grid : grid[i] = Large!WindowAt(image, i - 1)

\* A sample is the window of a source with a number.
TakenAt(sample, source, n) ==
  source.digest = sample.source /\ Large!WindowAt(source, n) = sample.derivation.window

\* Nobody's second window comes before another's first, and so on.
InTurn(run) ==
  LET sources == ToSet(run.sources)
      places(s) == 0..(Large!TileCount(s) - 1)
  IN /\ \A x \in ToSet(run.samples) : \E s \in sources : \E n \in places(s) : TakenAt(x, s, n)
     /\ \A i, j \in DOMAIN run.samples : i < j =>
          \A s, t \in sources : \A m \in places(s), n \in places(t) :
            TakenAt(run.samples[i], s, m) /\ TakenAt(run.samples[j], t, n) => m =< n

RowCodes == {"image_path_prefix_forbidden", "image_path_invalid", "image_decode_failed"}

\* Every row that was looked at is a failure, too small, a duplicate or a source.
RowsAccounted(run) ==
  LET rows == {i \in DOMAIN run.failures : run.failures[i].code \in RowCodes}
      found == {run.sources[i].digest : i \in DOMAIN run.sources}
  IN run.inspected = Cardinality(rows) + run.ineligible + run.duplicates + Cardinality(found)

VerifiedIfUntouched(case, run) ==
  LET output == Large!Output(run)
      edited == EditedOutput(output, case.edit)
      images == EditedImages(case)
  IN (Large!Verified(edited, images) = None) <=>
       /\ run.samples # <<>> /\ edited = output
       /\ \A s \in output.sources : images[s.name].digest = s.digest

WellExtracted(case, run) ==
  /\ \A s \in ToSet(run.sources) : Tiled(s)
  /\ InTurn(run)
  /\ IsInjective([i \in DOMAIN run.samples |-> run.samples[i].derivation])
  /\ Len(run.samples) =< case.sample_count
  /\ run.used =< case.max_output_bytes
  /\ RowsAccounted(run)
  /\ VerifiedIfUntouched(case, run)

WindowsVerifyIn(case) ==
  LET run == Large!Extracted(WindowSpec(case))
  IN run.error = None => WellExtracted(case, run)
===============================================================================
