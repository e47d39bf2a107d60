------------------------------ MODULE GoalGraph ------------------------------
(***************************************************************************)
(* What the project runtime promises of its GoalGraph, without attempts,   *)
(* contracts, receipts or the reasons for which work stops: a unit is      *)
(* executed only on top of finished dependencies, what is done stays done, *)
(* and the goal is achieved only when everything asked for is done.        *)
(***************************************************************************)
CONSTANT Units

VARIABLES
  goal,    \* "open", "achieved" or "abandoned"
  stage,   \* of each unit: "unknown", "open", "executing" or "done"
  needs    \* the units a unit depends on

goalGraphVars == <<goal, stage, needs>>

Known == {u \in Units : stage[u] # "unknown"}

Init ==
  /\ goal = "open"
  /\ stage = [u \in Units |-> "unknown"]
  /\ needs = [u \in Units |-> {}]

Ask(u, deps) ==
  /\ goal = "open"
  /\ u \notin Known
  /\ deps \subseteq Known
  /\ stage' = [stage EXCEPT ![u] = "open"]
  /\ needs' = [needs EXCEPT ![u] = deps]
  /\ UNCHANGED goal

Execute(u) ==
  /\ goal = "open"
  /\ stage[u] = "open"
  /\ \A d \in needs[u] : stage[d] = "done"
  /\ stage' = [stage EXCEPT ![u] = "executing"]
  /\ UNCHANGED <<goal, needs>>

\* An execution may still finish, or be given up, after the goal was abandoned.
Finish(u) ==
  /\ stage[u] = "executing"
  /\ stage' = [stage EXCEPT ![u] = "done"]
  /\ UNCHANGED <<goal, needs>>

Release(u) ==
  /\ stage[u] = "executing"
  /\ stage' = [stage EXCEPT ![u] = "open"]
  /\ UNCHANGED <<goal, needs>>

Achieve ==
  /\ goal = "open"
  /\ \A u \in Known : stage[u] = "done"
  /\ goal' = "achieved"
  /\ UNCHANGED <<stage, needs>>

Abandon ==
  /\ goal = "open"
  /\ goal' = "abandoned"
  /\ UNCHANGED <<stage, needs>>

Next ==
  \/ \E u \in Units :
       \/ \E deps \in SUBSET Units : Ask(u, deps)
       \/ Execute(u)
       \/ Finish(u)
       \/ Release(u)
  \/ Achieve
  \/ Abandon

Spec == Init /\ [][Next]_goalGraphVars

=============================================================================
