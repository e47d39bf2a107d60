--------------------------- MODULE MCSampleProject --------------------------
(* The instance of SampleProject: one input image, one or two responses. *)
EXTENDS SampleProject

CONSTANTS candidate1, candidate2

MCInputs ==
  [c \in Contracts |-> [k \in Kinds |-> IF k \in {DesignEvidence, HumanFeedback} THEN 1 ELSE 0]]
MCOutputs == [c \in Contracts |-> [k \in Kinds |-> IF k = CadModel THEN 1 ELSE 0]]
MCCandidates == <<candidate1, candidate2>>
=============================================================================
