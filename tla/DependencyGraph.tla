---------------------------- MODULE DependencyGraph ----------------------------
(***************************************************************************)
(* The features of a reconstruction IR and what each depends on, as         *)
(* validate_reconstruction_ir (evaluation/reconstruction_ir.py) reads them   *)
(* from a reply.                                                            *)
(***************************************************************************)
EXTENDS Naturals, FiniteSets

CONSTANT Features  \* identifiers a builder may give to features

\* A reply is a file.
ASSUME FeatureAssumption == IsFiniteSet(Features)

\* A feature may also depend on one that is not there.
Graphs == UNION {[named -> SUBSET Features] : named \in (SUBSET Features) \ {{}}}

\* What visit() looks for: a way from a feature through what each depends on back to it.
\* DependencySearch shows that the search finds one if there is any.
Cyclic(graph) ==
  \E last \in 1..Cardinality(DOMAIN graph) : \E circle \in [0..last -> DOMAIN graph] :
    /\ circle[0] = circle[last]
    /\ \A k \in 0..(last - 1) : circle[k + 1] \in graph[circle[k]]
=============================================================================
