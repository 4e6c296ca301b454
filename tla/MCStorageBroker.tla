---------------------------- MODULE MCStorageBroker ---------------------------
(***************************************************************************)
(* Two processes over a directory, its child and the scope of one object:   *)
(* parent, child and broker compete for the same bytes.                    *)
(***************************************************************************)
EXTENDS StorageBroker, TLC

MCScopes == {"parent", "child", "object"}

MCInside == {<<"child", "parent">>}

MCSymmetry == Permutations(Writers)

MCObjectSize == [d \in {"object"} |-> 2]
===============================================================================
