------------------------------ MODULE HttpRanges ------------------------------
(***************************************************************************)
(* Byte ranges, served and used. The artifact store answers a Range header *)
(* (core/artifacts.py, core/api.py); a pinned remote object is read block  *)
(* by block through a budget of bytes and requests                         *)
(* (core/data/http_range.py). Content is a sequence of bytes; a header is  *)
(* None or the two numbers of bytes=first-last, None where missing; a      *)
(* malformed one has neither.                                              *)
(***************************************************************************)
EXTENDS Integers, Sequences, SequencesExt, FiniteSets, FiniteSetsExt

CONSTANTS None,
          BlockSize,      \* BLOCK_SIZE
          MaxRange,       \* MAX_RANGE
          CacheBlocks     \* the eight blocks of the cache

(***************************************************************************)
(* ArtifactStore: offsets count from 0, end is included.                   *)
(***************************************************************************)
Refused(code) == [error |-> code]

Bounds(start, end, partial) ==
  [error |-> None, start |-> start, end |-> end, partial |-> partial]

RangeBounds(header, total) ==
  IF header = None THEN Bounds(0, Max({total - 1, 0}), FALSE)
  ELSE IF header.first = None /\ header.last = None THEN Refused("invalid_range")
  ELSE IF total = 0 THEN Refused("range_not_satisfiable")
  ELSE IF header.first = None THEN
         IF header.last = 0 THEN Refused("range_not_satisfiable")
         ELSE Bounds(Max({total - header.last, 0}), total - 1, TRUE)
  ELSE LET end == IF header.last = None THEN total - 1 ELSE header.last
       IN IF header.first >= total \/ end < header.first THEN Refused("range_not_satisfiable")
          ELSE Bounds(header.first, Min({end, total - 1}), TRUE)

\* What the file holds now, None if it is missing, is checked first.
ReadContent(artifact, stored, header) ==
  IF stored = None THEN Refused("artifact_content_missing")
  ELSE IF stored # artifact THEN Refused("artifact_content_corrupt")
  ELSE IF RangeBounds(header, Len(artifact)).error # None THEN RangeBounds(header, Len(artifact))
  ELSE LET b == RangeBounds(header, Len(artifact))
       IN [error |-> None, content |-> SubSeq(stored, b.start + 1, Min({b.end + 1, Len(stored)})),
           start |-> b.start, end |-> b.end, partial |-> b.partial]

\* get_artifact_content.
Served(artifact, read) ==
  IF read.error \in {"invalid_range", "range_not_satisfiable"}
  THEN [status |-> 416, content |-> None, range |-> None]
  ELSE IF read.error # None THEN [status |-> 503, content |-> None, range |-> None]
  ELSE [status |-> IF read.partial THEN 206 ELSE 200, content |-> read.content,
        range |-> IF read.partial THEN <<read.start, read.end, Len(artifact)>> ELSE None]

Response(artifact, stored, header) == Served(artifact, ReadContent(artifact, stored, header))

(***************************************************************************)
(* BoundedHTTP: a reply is a record of status, range, etag and content; the *)
(* state counts bytes and requests. What arrives is counted before it is   *)
(* judged.                                                                 *)
(***************************************************************************)
Fetch(http, limit, reply, expected) ==
  LET counted == [http EXCEPT !.requests = @ + 1]
      received == [counted EXCEPT !.bytes = @ + Len(reply.content)]
      matches == /\ reply.status = expected.status
                 /\ expected.range # None => reply.range = expected.range
                 /\ expected.etag # None => reply.etag = expected.etag
  IN IF http.late \/ http.requests >= http.max_requests THEN [http |-> http, content |-> None]
     ELSE IF limit > MaxRange \/ limit > http.max_bytes - http.bytes THEN [http |-> http, content |-> None]
     ELSE IF ~matches THEN [http |-> counted, content |-> None]
     ELSE IF reply.announced > limit THEN [http |-> counted, content |-> None]
     ELSE IF Len(reply.content) > limit \/ received.bytes > http.max_bytes THEN
            [http |-> received, content |-> None]
     ELSE [http |-> received, content |-> reply.content]

(***************************************************************************)
(* RangeSource and RangeFile: a reader has the pinned size and etag, the   *)
(* blocks it kept, the least recently used first, its position and budget. *)
(***************************************************************************)
BlockRange(reader, index) ==
  <<index * BlockSize, Min({reader.size - 1, (index + 1) * BlockSize - 1}), reader.size>>

\* Where the block is among those kept; a block that is used again goes last.
Cached(reader, index) == {i \in DOMAIN reader.cache : reader.cache[i].index = index}

Used(cache, i) == Append(RemoveAt(cache, i), cache[i])

Kept(cache) == IF Len(cache) > CacheBlocks THEN Tail(cache) ELSE cache

AnyObject(reader, index) ==  \* mutant
  [status |-> 206, range |-> BlockRange(reader, index), etag |-> None]

Pinned(reader, index) ==
  [status |-> 206, range |-> BlockRange(reader, index), etag |-> reader.etag]

\* A fetched block is kept if it has its length; the request is paid for anyway.
Fetched(reader, index, length, fetch) ==
  LET paid == [reader EXCEPT !.http = fetch.http]
      whole == fetch.content # None /\ Len(fetch.content) = length
  IN [reader |-> IF ~whole THEN paid
                 ELSE [paid EXCEPT !.cache = Kept(Append(@, [index |-> index, content |-> fetch.content]))],
      content |-> IF whole THEN fetch.content ELSE None]

\* block: the reader after it, and the block or None. "server" gives the
\* reply to a range, after so many requests.
Block(reader, index, server) ==
  LET range == BlockRange(reader, index)
      length == range[2] - range[1] + 1
      kept == CHOOSE i \in Cached(reader, index) : TRUE
  IN IF Cached(reader, index) # {}
     THEN [reader |-> [reader EXCEPT !.cache = Used(@, kept)],
           content |-> reader.cache[kept].content]
     ELSE IF range[1] > range[2] THEN [reader |-> reader, content |-> <<>>]
     ELSE Fetched(reader, index, length,
                  Fetch(reader.http, length, server[<<range, reader.http.requests>>],
                        Pinned(reader, index)))

Advanced(got, length, offset, block) ==
  LET take == Min({length - Len(got.content), Len(block.content) - offset})
  IN IF block.content = None THEN [got EXCEPT !.reader = block.reader, !.failed = TRUE]
     ELSE IF take =< 0 THEN [got EXCEPT !.reader = block.reader, !.failed = TRUE]
     ELSE [got EXCEPT !.reader = [block.reader EXCEPT !.position = @ + take],
             !.content = @ \o SubSeq(block.content, offset + 1, offset + take)]

\* One turn of read's loop; a failed read keeps the position it got to.
ReadOn(got, length, server) ==
  LET position == got.reader.position
  IN IF got.failed \/ Len(got.content) >= length THEN got
     ELSE Advanced(got, length, position % BlockSize,
                   Block(got.reader, position \div BlockSize, server))

\* read(size), all that is left where size is None.
Read(reader, size, server) ==
  LET left == Max({0, reader.size - reader.position})
      length == IF size = None THEN left ELSE Min({size, left})
      start == [reader |-> reader, content |-> <<>>, failed |-> length > MaxRange]
  IN FoldLeft(LAMBDA got, i : ReadOn(got, length, server), start, [i \in 1..length |-> i])

\* seek from the start (0), from here (1) or from the end (2); None for a place
\* before the start.
Seek(reader, offset, whence) ==
  LET position == offset + <<0, reader.position, reader.size>>[whence + 1]
  IN IF position < 0 THEN None ELSE [reader EXCEPT !.position = position]

\* RangeSource: the HEAD request that pins the object, None if it is unfit.
Opened(http, reply) ==
  LET fetch == Fetch(http, 0, [reply EXCEPT !.content = <<>>, !.announced = 0],
                     [status |-> 200, range |-> None, etag |-> None])
  IN IF fetch.content = None \/ reply.announced = 0 \/ reply.etag = None THEN None
     ELSE [http |-> fetch.http, size |-> reply.announced, etag |-> reply.etag,
           cache |-> <<>>, position |-> 0]
===============================================================================
