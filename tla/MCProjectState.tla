--------------------------- MODULE MCProjectState ---------------------------
(***************************************************************************)
(* Instances of ProjectState for TLC.  Each configuration keeps one group  *)
(* of identifiers non-empty, so that the interleavings within the group    *)
(* are explored in full.                                                   *)
(***************************************************************************)
EXTENDS ProjectState, TLC

CONSTANTS mesh, report   \* artifact kinds

\* The contract of every instance asks for one artifact of each kind it names.
MCInputs == [c \in Contracts |-> [k \in Kinds |-> IF k = mesh THEN 1 ELSE 0]]
MCOutputs == [c \in Contracts |-> [k \in Kinds |-> IF k = report THEN 1 ELSE 0]]

\* Units and artifacts are interchangeable: nothing but their roles tells them apart.
MCSymmetry == Permutations(Units) \union Permutations(Artifacts)
=============================================================================
