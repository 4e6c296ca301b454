-------------------------------- MODULE Zones --------------------------------
(***************************************************************************)
(* Zonal statistics (core/raster_zonal.py): which polygons are zones, which *)
(* pixels lie in one, and what is said about them. Coordinates are integers, *)
(* a polygon is a closed sequence of points; a file is what it holds.       *)
(***************************************************************************)
EXTENDS Integers, Sequences, SequencesExt, FiniteSets, FiniteSetsExt

CONSTANT None

MaxZoneVertices == 5

X(p) == p[1]
Y(p) == p[2]

Orientation(a, b, c) == (X(b) - X(a)) * (Y(c) - Y(a)) - (Y(b) - Y(a)) * (X(c) - X(a))

Between(a, b, value) ==
  Min({a, b}) =< value /\ value =< Max({a, b})

OnSegment(p, a, b) ==
  /\ Orientation(a, b, p) = 0
  /\ Between(X(a), X(b), X(p)) /\ Between(Y(a), Y(b), Y(p))

Opposite(u, v) == (u < 0 /\ v > 0) \/ (u > 0 /\ v < 0)

Touching(a, b, c, d) ==  \* mutant
  OnSegment(c, a, b) \/ OnSegment(d, a, b) \/ OnSegment(a, c, d) \/ OnSegment(b, c, d)

SegmentsIntersect(a, b, c, d) ==
  \/ /\ Opposite(Orientation(a, b, c), Orientation(a, b, d))
     /\ Opposite(Orientation(c, d, a), Orientation(c, d, b))
  \/ OnSegment(c, a, b) \/ OnSegment(d, a, b) \/ OnSegment(a, c, d) \/ OnSegment(b, c, d)

EdgeCount(points) == Len(points) - 1

TwiceArea(points) ==
  FoldLeft(LAMBDA sum, i : sum + X(points[i]) * Y(points[i + 1]) - X(points[i + 1]) * Y(points[i]),
           0, [i \in 1..EdgeCount(points) |-> i])

\* Edges that share no vertex do not meet.
Simple(points) ==
  LET last == EdgeCount(points)
  IN \A i, j \in 1..last :
       i + 1 < j /\ ~(i = 1 /\ j = last) =>
         ~SegmentsIntersect(points[i], points[i + 1], points[j], points[j + 1])

ZoneValid(zone) ==
  LET points == zone.coordinates
  IN /\ zone.crs # None
     /\ Len(points) \in 4..(MaxZoneVertices + 1)
     /\ points[1] = Last(points)
     /\ Cardinality(ToSet(Tail(points))) >= 3
     /\ \A i \in 1..EdgeCount(points) : points[i] # points[i + 1]
     /\ TwiceArea(points) # 0
     /\ Simple(points)

\* Ground coordinates of a pixel's centre, for a north-up grid.
SourceValid(source) == source.crs # None /\ source.across > 0 /\ source.down < 0

Centre(source, p) ==
  <<source.left + source.across * p.column + source.across \div 2,
    source.top + source.down * p.row - (-source.down) \div 2>>

RequestConsistent(request) ==
  LET s == request.source
  IN /\ request.raster_artifact_id = s.artifact_id
     /\ request.zone_id = request.zone.zone_id
     /\ request.zone.crs = s.crs
     /\ \A p \in ToSet(request.zone.coordinates) :
          /\ s.left =< X(p) /\ X(p) =< s.left + s.across * s.width
          /\ s.top + s.down * s.height =< Y(p) /\ Y(p) =< s.top

\* The file is the one of the request: its digest, its grid, and for an index
\* the tags of its formula.
SourceMatches(file, source) ==
  /\ file.sha256 = source.sha256
  /\ file.profile = [source EXCEPT !.artifact_id = None, !.sha256 = None]

\* transform_bounds, as far as two boxes are compared.
Geographic(crs, box) == [crs |-> crs, box |-> box]

BoundsMatch(zone) ==
  LET xs == {X(p) : p \in ToSet(zone.coordinates)}
      ys == {Y(p) : p \in ToSet(zone.coordinates)}
  IN zone.bbox_wgs84 = Geographic(zone.crs, <<Min(xs), Min(ys), Max(xs), Max(ys)>>)

(***************************************************************************)
(* _inside_polygon: on an edge, or to the left of an odd number of them.   *)
(***************************************************************************)
Crosses(p, a, b) ==
  LET across == (X(p) - X(a)) * (Y(b) - Y(a))
      along == (Y(p) - Y(a)) * (X(b) - X(a))
  IN /\ (Y(a) > Y(p)) # (Y(b) > Y(p))
     /\ IF Y(b) > Y(a) THEN across < along ELSE across > along

InsidePolygon(p, points) ==
  LET edges == 1..EdgeCount(points)
  IN \/ \E i \in edges : OnSegment(p, points[i], points[i + 1])
     \/ Cardinality({i \in edges : Crosses(p, points[i], points[i + 1])}) % 2 = 1

(***************************************************************************)
(* compute_zonal_stats: None where it refuses.                             *)
(***************************************************************************)
Pixels(source) == [row : 0..(source.height - 1), column : 0..(source.width - 1)]

ZonePixels(request) ==
  {p \in Pixels(request.source) :
     InsidePolygon(Centre(request.source, p), request.zone.coordinates)}

ComputeZonalStats(file, request) ==
  LET zone == ZonePixels(request)
      valid == {p \in zone : file.mask[p] /\ file.values[p] # None}
      values == {file.values[p] : p \in valid}
      some(value) == IF valid = {} THEN None ELSE value
  IN IF ~SourceMatches(file, request.source) \/ ~BoundsMatch(request.zone) \/ zone = {} THEN None
     ELSE [zone_pixels |-> Cardinality(zone), valid_pixels |-> Cardinality(valid),
           invalid_pixels |-> Cardinality(zone \ valid),
           minimum |-> some(Min(values)), maximum |-> some(Max(values)),
           sum |-> some(MapThenSumSet(LAMBDA p : file.values[p], valid))]

\* ZonalResult; the mean is sum over valid_pixels.
ResultValid(r) ==
  /\ r.zone_pixels > 0
  /\ r.valid_pixels + r.invalid_pixels = r.zone_pixels
  /\ IF r.valid_pixels = 0 THEN {r.minimum, r.maximum, r.sum} = {None}
     ELSE /\ r.minimum * r.valid_pixels =< r.sum
          /\ r.sum =< r.maximum * r.valid_pixels
===============================================================================
