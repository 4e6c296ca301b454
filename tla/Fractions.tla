------------------------------- MODULE Fractions -------------------------------
(***************************************************************************)
(* Exact fractions <<n, d>> with d > 0, for the ratios the code computes in *)
(* floating point.                                                         *)
(***************************************************************************)
EXTENDS Absence, Integers, FiniteSetsExt

Zero == <<0, 1>>
One == <<1, 1>>
Leq(p, q) == p[1] * q[2] =< q[1] * p[2]
Equal(p, q) == p[1] * q[2] = q[1] * p[2]
Times(p, q) == <<p[1] * q[1], p[2] * q[2]>>
Plus(p, q) == <<p[1] * q[2] + q[1] * p[2], p[2] * q[2]>>
Minus(p, q) == <<p[1] * q[2] - q[1] * p[2], p[2] * q[2]>>

\* p / q for a positive q.
Over(p, q) == <<p[1] * q[2], p[2] * q[1]>>

SumOver(index, Value(_)) == FoldSet(LAMBDA i, sum : Plus(sum, Value(i)), Zero, index)
===============================================================================
