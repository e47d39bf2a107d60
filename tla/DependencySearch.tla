--------------------------- MODULE DependencySearch ---------------------------
(***************************************************************************)
(* The depth-first search of validate_reconstruction_ir                    *)
(* (evaluation/reconstruction_ir.py) for a cycle of dependencies: visit(),   *)
(* which calls itself, and the loop around it.  What any() goes through is   *)
(* taken in any order; a call that returns at once is a step that changes    *)
(* nothing.                                                                *)
(***************************************************************************)
EXTENDS DependencyGraph, Sequences

VARIABLES
  graph,     \* of each feature: what it depends on
  calls,     \* the nodes of the calls of visit() under way, each made by the one before
  visiting,
  visited,
  verdict    \* none until the search is over

searchVars == <<graph, calls, visiting, visited, verdict>>

SearchInit ==
  /\ graph \in Graphs
  /\ calls = <<>> /\ visiting = {} /\ visited = {}
  /\ verdict = "none"

Caller == calls[Len(calls)]
Parents == graph[Caller] \intersect DOMAIN graph

\* visit(node) up to what it depends on.  If it returns true, so do all calls.
Visit(node) ==
  \/ /\ node \in visiting
     /\ verdict' = "cyclic"
     /\ UNCHANGED <<graph, calls, visiting, visited>>
  \/ /\ node \notin visiting /\ node \in visited
     /\ UNCHANGED searchVars
  \/ /\ node \notin visiting /\ node \notin visited
     /\ visiting' = visiting \union {node}
     /\ calls' = Append(calls, node)
     /\ UNCHANGED <<graph, visited, verdict>>

VisitRoot ==
  /\ verdict = "none" /\ calls = <<>>
  /\ \E node \in DOMAIN graph \ visited : Visit(node)

VisitParent ==
  /\ verdict = "none" /\ calls # <<>>
  /\ \E node \in Parents : Visit(node)

\* Mutant of LeaveNode: the node is still being visited.
LeaveVisiting ==
  /\ verdict = "none" /\ calls # <<>> /\ Parents \subseteq visited
  /\ visited' = visited \union {Caller}
  /\ calls' = SubSeq(calls, 1, Len(calls) - 1)
  /\ UNCHANGED <<graph, visiting, verdict>>

\* All it depends on was visited.
LeaveNode ==
  /\ verdict = "none" /\ calls # <<>> /\ Parents \subseteq visited
  /\ visiting' = visiting \ {Caller}
  /\ visited' = visited \union {Caller}
  /\ calls' = SubSeq(calls, 1, Len(calls) - 1)
  /\ UNCHANGED <<graph, verdict>>

EndSearch ==
  /\ verdict = "none" /\ calls = <<>> /\ DOMAIN graph \subseteq visited
  /\ verdict' = "acyclic"
  /\ UNCHANGED <<graph, calls, visiting, visited>>

SearchNext == VisitRoot \/ VisitParent \/ LeaveNode \/ EndSearch

SearchSpec == SearchInit /\ [][SearchNext]_searchVars

-----------------------------------------------------------------------------
(* Properties *)

\* The search of validate_reconstruction_ir rejects a graph exactly if it has a cycle,
\* though it goes on from a node only once: a feature that two others share is no cycle,
\* and a cycle is found from whichever node the search first comes to it.
SearchIsExact == verdict # "none" => (verdict = "cyclic" <=> Cyclic(graph))
=============================================================================
