--------------------------- MODULE MCEvidenceMemory ---------------------------
(***************************************************************************)
(* Three records, two of them valid from the start and one that expires     *)
(* first, with room for two active ones; every record may be replaced.      *)
(***************************************************************************)
EXTENDS EvidenceMemory, TLC

CONSTANTS r1, r2, r3

MCRecords == {r1, r2, r3}

MCAvailableAt == r1 :> 0 @@ r2 :> 0 @@ r3 :> 1

MCExpiresAt == r1 :> 2 @@ r2 :> 3 @@ r3 :> 3

Publish(r) == [op |-> "publish", record |-> r]

Invalidate(r, reason, replacement) ==
  [op |-> "invalidate", record |-> r, reason |-> reason,
   replacement |-> replacement]

MCCommands ==
  {Publish(r) : r \in MCRecords}
  \cup {Invalidate(r1, "stale", r2), Invalidate(r2, "stale", r1),
        Invalidate(r1, "wrong", None), Invalidate(r2, "wrong", r3)}

MCSymmetry == Permutations(Operators)
===============================================================================
