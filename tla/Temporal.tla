------------------------------- MODULE Temporal -------------------------------
(***************************************************************************)
(* Choosing two dates (core/temporal.py): the candidates of a task that    *)
(* lie in two windows, cover the area of interest, are clear and come from *)
(* one sensor, and the best pair of them. Identifiers and instants are     *)
(* numbers; a footprint is <<west, south, east, north>>.                   *)
(***************************************************************************)
EXTENDS Fractions, Sequences, FiniteSets, SequencesExt, Functions

CONSTANT MaxCandidates   \* MAX_CANDIDATES

\* The sine of a latitude: all the selection needs of it is that it grows.
Sine(latitude) == <<0, 3, 5, 6>>[latitude + 1]

WindowsOrdered(arguments) == arguments.before[2] < arguments.after[1]

ArgumentsValid(arguments) ==
  /\ WindowsOrdered(arguments)
  /\ ~Leq(arguments.minimum_coverage, Zero) /\ Leq(arguments.minimum_coverage, One)

\* A candidate and the two native profiles it names describe one acquisition.
CandidateConsistent(candidate) ==
  /\ candidate.bbox[1] < candidate.bbox[3] /\ candidate.bbox[2] < candidate.bbox[4]
  /\ \A profile \in {candidate.red, candidate.scl} :
       profile.item = candidate.item /\ profile.acquired = candidate.acquired
  /\ candidate.red.band = "red" /\ candidate.scl.band = "scl"

DuringWindow(instant, window) == window[1] =< instant /\ instant =< window[2]

Area(box) == (box[3] - box[1]) * (Sine(box[4]) - Sine(box[2]))

\* The part of the requested area that a footprint covers.
Coverage(box, requested) ==
  LET common == <<Max({box[1], requested[1]}), Max({box[2], requested[2]}),
                  Min({box[3], requested[3]}), Min({box[4], requested[4]})>>
  IN IF common[1] >= common[3] \/ common[2] >= common[4]
     THEN Zero ELSE <<Area(common), Area(requested)>>

(***************************************************************************)
(* The selection: four filters in order, then the best pair.               *)
(***************************************************************************)
Rejected(reason, considered) ==
  [status |-> "rejected", reason |-> reason, before |-> None, after |-> None,
   considered |-> considered]

\* The order of the code's key over pairs: clouds, coverage, dates, names.
Key(pair, requested) ==
  LET before == pair[1]
      after == pair[2]
      covered == Min({Coverage(before.bbox, requested)[1], Coverage(after.bbox, requested)[1]})
  IN <<before.cloud + after.cloud, 0 - covered, before.acquired, after.acquired,
       before.item, after.item>>

First(candidates, requested, pairs) ==  \* mutant
  CHOOSE p \in pairs : \A q \in pairs : \A i, j \in DOMAIN candidates :
    candidates[i] = p[1] /\ candidates[j] = q[1] => i =< j

Precedes(a, b) ==
  \E i \in DOMAIN a : a[i] < b[i] /\ \A j \in 1..(i - 1) : a[j] = b[j]

Best(candidates, requested, pairs) ==
  CHOOSE p \in pairs : \A q \in pairs \ {p} : Precedes(Key(p, requested), Key(q, requested))

CandidatesValid(candidates) ==
  LET assets == [i \in DOMAIN candidates |->
                   {candidates[i].red.asset, candidates[i].scl.asset}]
  IN /\ Len(candidates) \in 1..MaxCandidates
     /\ \A i \in DOMAIN candidates :
          CandidateConsistent(candidates[i]) /\ Cardinality(assets[i]) = 2
     /\ \A i, j \in DOMAIN candidates : i # j =>
          candidates[i].item # candidates[j].item /\ assets[i] \cap assets[j] = {}

\* What a side has left after each filter.
OnDate(candidates, window) ==
  {c \in ToSet(candidates) : DuringWindow(c.acquired, window)}

Covering(arguments, side) ==
  {c \in side : Leq(arguments.minimum_coverage, Coverage(c.bbox, arguments.aoi))}

Clear(arguments, side) == {c \in side : c.cloud =< arguments.maximum_cloud}

SameSensor(pair) ==
  pair[1].platform = pair[2].platform /\ pair[1].instrument = pair[2].instrument

Chosen(candidate, arguments) ==
  [item |-> candidate.item, acquired |-> candidate.acquired, red |-> candidate.red.asset,
   scl |-> candidate.scl.asset, cloud |-> candidate.cloud,
   coverage |-> Coverage(candidate.bbox, arguments.aoi)]

\* None when the candidates are ambiguous.
SelectPair(arguments, candidates) ==
  LET considered == {c.item : c \in ToSet(candidates)}
      before == OnDate(candidates, arguments.before)
      after == OnDate(candidates, arguments.after)
      before_clear == Clear(arguments, Covering(arguments, before))
      after_clear == Clear(arguments, Covering(arguments, after))
      pairs == {p \in before_clear \X after_clear : SameSensor(p)}
      best == Best(candidates, arguments.aoi, pairs)
  IN IF ~CandidatesValid(candidates) THEN None
     ELSE IF before = {} \/ after = {} THEN Rejected("wrong_date", considered)
     ELSE IF Covering(arguments, before) = {} \/ Covering(arguments, after) = {}
       THEN Rejected("insufficient_coverage", considered)
     ELSE IF before_clear = {} \/ after_clear = {} THEN Rejected("cloudy", considered)
     ELSE IF pairs = {} THEN Rejected("sensor_mismatch", considered)
     ELSE [status |-> "selected", reason |-> "selected",
           before |-> Chosen(best[1], arguments), after |-> Chosen(best[2], arguments),
           considered |-> considered]
===============================================================================
