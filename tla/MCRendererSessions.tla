-------------------------- MODULE MCRendererSessions --------------------------
(***************************************************************************)
(* Two views, and room for the request that is waited for and two that     *)
(* were given up.                                                          *)
(***************************************************************************)
EXTENDS RendererSessions, TLC

CONSTANTS v1, v2, k1, k2, k3, c1, c2, c3

Symmetry == Permutations({v1, v2}) \cup Permutations({k1, k2, k3})
            \cup Permutations({c1, c2, c3})
===============================================================================
