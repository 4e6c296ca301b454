---------------------------- MODULE MCControlPlane ----------------------------
(***************************************************************************)
(* Two jobs of one subject that may have one active session, and two runs  *)
(* of the scripts at a time.  A session lasts for one tick of two, so that *)
(* it can expire while the policy is valid.                                *)
(***************************************************************************)
EXTENDS ControlPlane, TLC

CONSTANTS w1, w2, jobA, jobB, runner

MCSubjectOf == [o \in Jobs |-> runner]

Symmetry == Permutations({w1, w2}) \cup Permutations({jobA, jobB})
===============================================================================
