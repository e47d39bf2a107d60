--------------------------- MODULE MCProjectKernel --------------------------
(* Small instances of ProjectKernel. *)
EXTENDS ProjectKernel

CONSTANTS mesh

MCInputs == [c \in Contracts |-> [k \in Kinds |-> 0]]
MCOutputs == [c \in Contracts |-> [k \in Kinds |-> 1]]
=============================================================================
