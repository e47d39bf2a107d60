--------------------------- MODULE MCProjectStore ---------------------------
(* Small instances of ProjectStore. *)
EXTENDS ProjectStore, TLC

CONSTANTS p1, p2, k1, k2, b1, b2

Processes == Permutations({p1, p2})
=============================================================================
