------------------------------- MODULE Windows -------------------------------
(***************************************************************************)
(* Window admission of large rasters (core/data/raster_windows.py): rows of *)
(* a table name local images, distinct ones that are too large to be taken *)
(* whole give windows in turn, and a verifier reads them all again. An     *)
(* image is a record of its content's digest, its size and what its bands' *)
(* masks allow; a window's pixels are named by digest and window.          *)
(***************************************************************************)
EXTENDS Integers, Sequences, SequencesExt, FiniteSets, FiniteSetsExt

CONSTANT None

TileSize == 2
MaxImagePixels == 4      \* MAX_IMAGE_PIXELS
MaxWindows == 100        \* of an output

(***************************************************************************)
(* Windows: the grid in row-major order, clipped to the image.             *)
(***************************************************************************)
Tiles(length) == (length + TileSize - 1) \div TileSize

TileCount(image) == Tiles(image.width) * Tiles(image.height)

Window(image, column, row) ==
  [column |-> column * TileSize, row |-> row * TileSize,
   width |-> Min({TileSize, image.width - column * TileSize}),
   height |-> Min({TileSize, image.height - row * TileSize})]

GridWindows(image) ==
  FlattenSeq([r \in 1..Tiles(image.height) |->
                [c \in 1..Tiles(image.width) |-> Window(image, c - 1, r - 1)]])

ByHeight(image, index) ==  \* mutant
  Window(image, index % Tiles(image.height), index \div Tiles(image.height))

WindowAt(image, index) ==
  Window(image, index % Tiles(image.width), index \div Tiles(image.width))

Area(window) == window.width * window.height

Derivation(spec, source, window) ==
  [parquet |-> spec.parquet, source |-> source.digest, width |-> source.width,
   height |-> source.height, window |-> window]

(***************************************************************************)
(* extract_raster_windows. A run has found sources, failures and counts;   *)
(* an error ends it without a report.                                      *)
(***************************************************************************)
Started ==
  [error |-> None, sources |-> <<>>, duplicates |-> 0, ineligible |-> 0, inspected |-> 0,
   failures |-> <<>>, samples |-> <<>>, used |-> 0]

Failure(at, code) == [at |-> at, code |-> code]

\* What a row comes to, in the order of the checks: a code, or None.
RowCode(spec, name) ==
  IF name \notin spec.allowed THEN "image_path_prefix_forbidden"
  ELSE IF name \notin DOMAIN spec.images THEN "image_path_invalid"
  ELSE IF ~spec.images[name].decodes THEN "image_decode_failed"
  ELSE None

SourceOf(image, name) ==
  [name |-> name, digest |-> image.digest, width |-> image.width, height |-> image.height,
   changes |-> image.changes, lossy |-> image.lossy]

Inspect(run, spec, row) ==
  LET name == spec.rows[row]
      image == spec.images[name]
      seen == [run EXCEPT !.inspected = @ + 1]
      same == {i \in DOMAIN run.sources : run.sources[i].digest = image.digest}
  IN IF run.error # None \/ Len(run.sources) >= spec.sample_count \/ row > spec.max_rows THEN run
     ELSE IF RowCode(spec, name) # None
       THEN [seen EXCEPT !.failures = Append(@, Failure(row, RowCode(spec, name)))]
     ELSE IF image.width * image.height =< MaxImagePixels
       THEN [seen EXCEPT !.ineligible = @ + 1]
     ELSE IF image.changes = "hash"
       THEN [seen EXCEPT !.error = "source_changed_during_hash"]
     ELSE IF same # {}
       THEN [seen EXCEPT !.duplicates = @ + 1]
     ELSE [seen EXCEPT !.sources = Append(@, SourceOf(image, name))]

\* The masks are compared before the file's state is: a lossy window leaves a
\* change to Publish.
WindowCode(run, spec, source, window) ==
  IF window \in source.lossy THEN "band_masks_not_losslessly_representable"
  ELSE IF source.changes = "read" THEN "source_changed_during_window_read"
  ELSE IF run.used + Area(window) > spec.max_output_bytes THEN "output_byte_limit"
  ELSE None

\* One window of one source, at its turn.
TakeWindow(run, spec, index, at) ==
  LET source == run.sources[at]
      window == WindowAt(source, index)
      code == WindowCode(run, spec, source, window)
      derivation == Derivation(spec, source, window)
  IN IF run.error # None \/ index >= TileCount(source) \/ Len(run.samples) >= spec.sample_count
       THEN run
     ELSE IF code = "source_changed_during_window_read" THEN [run EXCEPT !.error = code]
     ELSE IF code # None THEN [run EXCEPT !.failures = Append(@, Failure(<<at, index>>, code))]
     ELSE [run EXCEPT !.used = @ + Area(window),
             !.samples = Append(@, [derivation |-> derivation, source |-> source.digest,
                                    pixels |-> <<source.digest, window>>])]

Turns(run) ==
  LET rounds == Max({0} \cup {TileCount(s) : s \in ToSet(run.sources)})
      count == Len(run.sources)
  IN [i \in 1..(rounds * count) |-> [index |-> (i - 1) \div count, at |-> ((i - 1) % count) + 1]]

Publish(run) ==
  IF run.error = None /\ \E s \in ToSet(run.sources) : s.changes \in {"read", "publish"}
  THEN [run EXCEPT !.error = "source_changed_before_publish"] ELSE run

Extracted(spec) ==
  LET inspected == FoldLeft(LAMBDA run, row : Inspect(run, spec, row), Started,
                            [i \in DOMAIN spec.rows |-> i])
      taken == FoldLeft(LAMBDA run, turn : TakeWindow(run, spec, turn.index, turn.at),
                        inspected, Turns(inspected))
  IN Publish(taken)

\* The files it leaves: what is published about each window, what is kept
\* private, and the window itself.
Output(run) ==
  [receipt |-> [i \in DOMAIN run.samples |-> [asset |-> run.samples[i].derivation,
                                              derivation |-> run.samples[i].derivation,
                                              source |-> run.samples[i].source]],
   sources |-> {[digest |-> s.digest, name |-> s.name] : s \in ToSet(run.sources)},
   samples |-> [i \in DOMAIN run.samples |-> [asset |-> run.samples[i].derivation,
                                              content |-> run.samples[i].pixels]],
   staged |-> [i \in DOMAIN run.samples |-> run.samples[i].pixels]]

(***************************************************************************)
(* verify_raster_window_output: the first objection, or None.              *)
(***************************************************************************)
\* A source is where it was, with its digest; no two are the same one.
SourceFound(output, images, digest) ==
  \E s \in output.sources : s.digest = digest /\ images[s.name].digest = digest

Inside(image, window) ==
  /\ window.column >= 0 /\ window.row >= 0 /\ window.width > 0 /\ window.height > 0
  /\ window.column + window.width =< image.width
  /\ window.row + window.height =< image.height

Named(output, asset) == {j \in DOMAIN output.samples : output.samples[j].asset = asset}

WindowReason(output, images, i) ==
  LET private == output.receipt[i]
      window == private.derivation.window
      at == CHOOSE j \in Named(output, private.asset) : TRUE
      source == CHOOSE s \in output.sources : s.digest = private.source
      image == images[source.name]
  IN IF private.asset # private.derivation \/ Named(output, private.asset) = {}
          \/ private.derivation.source # private.source
          \/ ~SourceFound(output, images, private.source) THEN "derivation_identity_mismatch"
     ELSE IF output.staged[at] # output.samples[at].content THEN "staged_window_checksum_mismatch"
     ELSE IF ~Inside(image, window) THEN "window_outside_source"
     ELSE IF window \in image.lossy THEN "band_masks_not_losslessly_representable"
     ELSE IF output.staged[at] # <<image.digest, window>> THEN "admitted_window_reference_mismatch"
     ELSE None

\* The windows that are objected to; the first of them decides.
Objected(output, images) ==
  {i \in DOMAIN output.receipt : WindowReason(output, images, i) # None}

Verified(output, images) ==
  LET objected == Objected(output, images)
  IN IF Len(output.receipt) \notin 1..MaxWindows THEN "invalid_admission_metadata"
     ELSE IF Len(output.samples) # Len(output.receipt) THEN "admission_window_count_mismatch"
     ELSE IF ~IsInjective([i \in DOMAIN output.samples |-> output.samples[i].asset]) THEN
            "duplicate_admission_asset"
     ELSE IF \E s \in output.sources : images[s.name].digest # s.digest THEN "source_checksum_mismatch"
     ELSE IF objected # {} THEN WindowReason(output, images, Min(objected))
     ELSE None
===============================================================================
