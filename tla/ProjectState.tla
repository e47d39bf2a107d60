---------------------------- MODULE ProjectState ----------------------------
(***************************************************************************)
(* The project-state reducer of the long-horizon agent kernel              *)
(* (src/src/cad_evoloop/agent/state.py).  A project is whatever            *)
(* apply_event makes of its event log, so the module has one action per    *)
(* event type: the guard is the conjunction of the checks that would       *)
(* otherwise raise ValueError, the primed variables are the fields the     *)
(* event assigns.  Texts, titles, summaries, digests and timestamps are    *)
(* left out; no check compares them.                                       *)
(***************************************************************************)
EXTENDS Naturals, FiniteSets, Sequences

CONSTANTS
  Units,                \* work-unit identifiers
  Contracts,            \* stage-contract identifiers
  Plans,                \* engineering-plan identifiers
  Artifacts,            \* artifact identifiers
  Kinds,                \* artifact kinds
  Operations,           \* identifiers of side-effecting operations
  None,                 \* Python's None
  InputRequirements,    \* input_requirements of each contract: kind -> min_count
  OutputRequirements,   \* output_requirements of each contract
  AttemptLimits,        \* the max_attempts a planner asks for
  AttemptCap,           \* bound: reopening never raises max_attempts above it
  OperationAttemptCap   \* bound: attempts of one operation

ASSUME NoneAssumption ==
  None \notin Units \union Contracts \union Plans \union Artifacts \union Kinds
                    \union Operations
ASSUME FiniteAssumption == IsFiniteSet(Artifacts)
ASSUME RequirementAssumption ==
  /\ InputRequirements \in [Contracts -> [Kinds -> Nat]]
  /\ OutputRequirements \in [Contracts -> [Kinds -> Nat]]
ASSUME LimitAssumption ==
  /\ AttemptLimits \subseteq Nat \ {0}
  /\ AttemptCap \in Nat
  /\ OperationAttemptCap \in Nat

VARIABLES
  projectStatus,  \* state["status"]
  plans,          \* keys of state["plans"]
  contracts,      \* keys of state["contracts"]
  artifacts,      \* state["artifacts"]
  workOrder,      \* state["work_order"]
  definition,     \* of each work unit: what work_unit.added fixed for good
  status,         \* of each work unit, "absent" before it is added
  attempts,       \* of each work unit
  maxAttempts,    \* of each work unit
  execution,      \* active_execution_id of each work unit
  gate,           \* of each work unit: its latest contract evaluation
  operations      \* state["operations"]

planVars == <<plans, contracts, artifacts, workOrder, definition>>
unitVars == <<status, attempts, maxAttempts, execution, gate>>
vars == <<projectStatus, planVars, unitVars, operations>>

TerminalProjectStatuses == {"completed", "failed", "cancelled"}
ProjectStatuses == {"none", "active", "paused"} \union TerminalProjectStatuses
WorkStatuses == {"pending", "running", "blocked", "succeeded", "failed", "cancelled"}
OperationStatuses == {"running", "uncertain", "retryable", "completed", "compensated"}

(***************************************************************************)
(* An execution identifier is a fresh uuid per start and is only ever      *)
(* compared with another identifier of the same unit; since attempts only  *)
(* grows, the attempt number names the execution; NoExecution is None.     *)
(* Of contract_evaluations only the entry latest_contract_evaluation_id    *)
(* points to is ever read again; it is the unit's gate.                    *)
(***************************************************************************)
NoExecution == 0
NoGate == [execution |-> NoExecution, passed |-> FALSE]
NoDefinition == [dependencies |-> {}, contract |-> None, plan |-> None, inputs |-> {}]
AbsentArtifact == [kind |-> None, producer |-> None, parents |-> {}]
AbsentOperation == [status |-> "absent", attempts |-> 0, unit |-> None, execution |-> NoExecution]

Definitions ==
  [dependencies : SUBSET Units, contract : Contracts \union {None},
   plan : Plans \union {None}, inputs : SUBSET Artifacts]
Gates == [execution : Nat, passed : BOOLEAN]
ArtifactRecords ==
  [kind : Kinds \union {None}, producer : Units \union {None}, parents : SUBSET Artifacts]
OperationRecords ==
  [status : OperationStatuses \union {"absent"}, attempts : Nat,
   unit : Units \union {None}, execution : Nat]

Added == {u \in Units : status[u] # "absent"}
Registered == {a \in Artifacts : artifacts[a].kind # None}
Active == projectStatus = "active"

-----------------------------------------------------------------------------
(* Derived views of the state *)

ArtifactsOf(u) == {a \in Registered : artifacts[a].producer = u}

UnitInputArtifacts(u) ==
  definition[u].inputs
    \union {a \in Registered : artifacts[a].producer \in definition[u].dependencies}

OfKind(ids, k) == {a \in ids : artifacts[a].kind = k}
RequirementsSatisfied(required, ids) ==
  \A k \in Kinds : Cardinality(OfKind(ids, k)) >= required[k]

InputsSatisfied(u) ==
  definition[u].contract # None =>
    RequirementsSatisfied(InputRequirements[definition[u].contract], UnitInputArtifacts(u))

OutputsSatisfied(u) ==
  definition[u].contract # None =>
    RequirementsSatisfied(OutputRequirements[definition[u].contract], ArtifactsOf(u))

DependenciesSucceeded(u) ==
  \A d \in definition[u].dependencies : status[d] = "succeeded"

\* Mutant of Ready: the scheduler looks at the inputs only.
ReadyIgnoringDependencies(u) ==
  /\ Active
  /\ status[u] = "pending"
  /\ InputsSatisfied(u)

Ready(u) ==
  /\ Active
  /\ status[u] = "pending"
  /\ DependenciesSucceeded(u)
  /\ InputsSatisfied(u)

\* Mutant of OwnsUnit: any execution may report while the unit runs.
OwnsUnitByStatus(u, e) == status[u] = "running"

\* Mutant of OwnsUnit: the latest execution may report whatever became of the unit.
OwnsUnitByAttempt(u, e) == e = attempts[u]

\* The execution that may still report on unit u.
OwnsUnit(u, e) ==
  /\ status[u] = "running"
  /\ e = execution[u]

Exhausted(u) == attempts[u] >= maxAttempts[u]

AllSucceeded == \A u \in Added : status[u] = "succeeded"

-----------------------------------------------------------------------------
(* Project events *)

ProjectCreated ==
  /\ projectStatus = "none"
  /\ projectStatus' = "active"
  /\ UNCHANGED <<planVars, unitVars, operations>>

ProjectPaused ==
  /\ Active
  /\ projectStatus' = "paused"
  /\ UNCHANGED <<planVars, unitVars, operations>>

ProjectResumed ==
  /\ projectStatus = "paused"
  /\ projectStatus' = "active"
  /\ UNCHANGED <<planVars, unitVars, operations>>

\* No check that the project was created, or that it is not paused.
ProjectCompleted ==
  /\ projectStatus \notin TerminalProjectStatuses
  /\ AllSucceeded
  /\ projectStatus' = "completed"
  /\ UNCHANGED <<planVars, unitVars, operations>>

ProjectAbandoned(target) ==
  /\ target \in {"failed", "cancelled"}
  /\ projectStatus \notin TerminalProjectStatuses
  /\ projectStatus' = target
  /\ UNCHANGED <<planVars, unitVars, operations>>

-----------------------------------------------------------------------------
(* Planning and evidence events *)

PlanRegistered(p, parent) ==
  /\ Active
  /\ p \notin plans
  /\ parent \in plans \union {None}
  /\ plans' = plans \union {p}
  /\ UNCHANGED <<projectStatus, contracts, artifacts, workOrder, definition, unitVars, operations>>

ContractRegistered(c) ==
  /\ Active
  /\ c \notin contracts
  /\ \E k \in Kinds : OutputRequirements[c][k] > 0
  /\ contracts' = contracts \union {c}
  /\ UNCHANGED <<projectStatus, plans, artifacts, workOrder, definition, unitVars, operations>>

\* Mutant of ArtifactRegistered: the parents are not looked up.
ArtifactRegisteredUnchecked(a, kind, producer, parents) ==
  /\ Active
  /\ a \notin Registered
  /\ producer \in Added \union {None}
  /\ artifacts' =
       [artifacts EXCEPT ![a] = [kind |-> kind, producer |-> producer, parents |-> parents]]
  /\ UNCHANGED <<projectStatus, plans, contracts, workOrder, definition, unitVars, operations>>

ArtifactRegistered(a, kind, producer, parents) ==
  /\ Active
  /\ a \notin Registered
  /\ producer \in Added \union {None}
  /\ parents \subseteq Registered
  /\ artifacts' =
       [artifacts EXCEPT ![a] = [kind |-> kind, producer |-> producer, parents |-> parents]]
  /\ UNCHANGED <<projectStatus, plans, contracts, workOrder, definition, unitVars, operations>>

\* What all forms of work_unit.added assign.
AddUnit(u, deps, contract, plan, inputs, limit) ==
  /\ definition' = [definition EXCEPT ![u] =
       [dependencies |-> deps, contract |-> contract, plan |-> plan, inputs |-> inputs]]
  /\ maxAttempts' = [maxAttempts EXCEPT ![u] = limit]
  /\ status' = [status EXCEPT ![u] = "pending"]
  /\ workOrder' = Append(workOrder, u)
  /\ UNCHANGED <<projectStatus, plans, contracts, artifacts, attempts, execution, gate, operations>>

\* Mutant of WorkUnitAdded: a project that has ended still takes units.
WorkUnitAddedAnytime(u, deps, contract, plan, inputs, limit) ==
  /\ projectStatus # "none"
  /\ u \notin Added
  /\ deps \subseteq Added
  /\ AddUnit(u, deps, contract, plan, inputs, limit)

\* Mutant of WorkUnitAdded: the unit is entered before its dependencies are looked up.
WorkUnitAddedFirst(u, deps, contract, plan, inputs, limit) ==
  /\ Active
  /\ u \notin Added
  /\ deps \subseteq Added \union {u}
  /\ AddUnit(u, deps, contract, plan, inputs, limit)

WorkUnitAdded(u, deps, contract, plan, inputs, limit) ==
  /\ Active
  /\ u \notin Added
  /\ deps \subseteq Added
  /\ contract \in contracts \union {None}
  /\ plan \in plans \union {None}
  /\ inputs \subseteq Registered
  /\ AddUnit(u, deps, contract, plan, inputs, limit)

-----------------------------------------------------------------------------
(* Work-unit life cycle *)

WorkUnitStarted(u) ==
  /\ Ready(u)
  /\ attempts[u] < maxAttempts[u]
  /\ status' = [status EXCEPT ![u] = "running"]
  /\ attempts' = [attempts EXCEPT ![u] = @ + 1]
  /\ execution' = [execution EXCEPT ![u] = attempts[u] + 1]
  /\ UNCHANGED <<projectStatus, planVars, maxAttempts, gate, operations>>

\* "verdict" stands for every declared verifier reporting "pass".
ContractEvaluated(u, e, verdict) ==
  /\ Active
  /\ OwnsUnit(u, e)
  /\ definition[u].contract # None
  /\ gate' = [gate EXCEPT ![u] =
       [execution |-> e,
        passed |-> InputsSatisfied(u) /\ OutputsSatisfied(u) /\ verdict]]
  /\ UNCHANGED <<projectStatus, planVars, status, attempts, maxAttempts, execution, operations>>

GatePassed(u, e) ==
  definition[u].contract # None =>
    gate[u].passed /\ gate[u].execution = e

Leave(u, outcome) ==
  /\ status' = [status EXCEPT ![u] = outcome]
  /\ execution' = [execution EXCEPT ![u] = NoExecution]
  /\ UNCHANGED <<projectStatus, planVars, attempts, maxAttempts, gate, operations>>

\* Mutant of WorkUnitSucceeded: the gate of an earlier execution is good enough.
WorkUnitSucceededOnOldGate(u, e) ==
  /\ OwnsUnit(u, e)
  /\ definition[u].contract # None => gate[u].passed
  /\ Leave(u, "succeeded")

\* The outcome events do not require an active project.
WorkUnitSucceeded(u, e) ==
  /\ OwnsUnit(u, e)
  /\ GatePassed(u, e)
  /\ Leave(u, "succeeded")

\* Mutant of WorkUnitReturned: the budget is left to work_unit.started.
WorkUnitReturnedAlways(u, e) == OwnsUnit(u, e) /\ Leave(u, "pending")

\* work_unit.retry_scheduled and work_unit.interrupted
WorkUnitReturned(u, e) ==
  /\ OwnsUnit(u, e)
  /\ Leave(u, IF Exhausted(u) THEN "failed" ELSE "pending")

\* work_unit.blocked, work_unit.failed and work_unit.cancelled
WorkUnitStopped(u, e, outcome) ==
  /\ outcome \in {"blocked", "failed", "cancelled"}
  /\ OwnsUnit(u, e)
  /\ Leave(u, outcome)

\* Mutant of WorkUnitReopened: a succeeded unit can be done again.
WorkUnitReopenedAnyStatus(u, additional) ==
  /\ Active
  /\ status[u] \in {"blocked", "failed", "cancelled", "succeeded"}
  /\ Exhausted(u) => additional >= 1 /\ maxAttempts[u] + additional <= AttemptCap
  /\ status' = [status EXCEPT ![u] = "pending"]
  /\ gate' = [gate EXCEPT ![u] = NoGate]
  /\ maxAttempts' = [maxAttempts EXCEPT ![u] = IF Exhausted(u) THEN @ + additional ELSE @]
  /\ UNCHANGED <<projectStatus, planVars, attempts, execution, operations>>

WorkUnitReopened(u, additional) ==
  /\ Active
  /\ status[u] \in {"blocked", "failed", "cancelled"}
  /\ Exhausted(u) => additional >= 1 /\ maxAttempts[u] + additional <= AttemptCap
  /\ status' = [status EXCEPT ![u] = "pending"]
  /\ gate' = [gate EXCEPT ![u] = NoGate]
  /\ maxAttempts' = [maxAttempts EXCEPT ![u] = IF Exhausted(u) THEN @ + additional ELSE @]
  /\ UNCHANGED <<projectStatus, planVars, attempts, execution, operations>>

-----------------------------------------------------------------------------
(* Operation receipts *)

OperationStarted(o, u, e) ==
  /\ Active
  /\ operations[o].status = "absent"
  /\ OwnsUnit(u, e)
  /\ operations' = [operations EXCEPT ![o] =
       [status |-> "running", attempts |-> 1, unit |-> u, execution |-> e]]
  /\ UNCHANGED <<projectStatus, planVars, unitVars>>

OperationRetryStarted(o, u, e) ==
  /\ Active
  /\ operations[o].status = "retryable"
  /\ OwnsUnit(u, e)
  /\ operations[o].attempts < OperationAttemptCap
  /\ operations' = [operations EXCEPT ![o] =
       [status |-> "running", attempts |-> operations[o].attempts + 1,
        unit |-> u, execution |-> e]]
  /\ UNCHANGED <<projectStatus, planVars, unitVars>>

\* Operation o with another status and everything else as it was.
Marked(o, outcome) ==
  [status |-> outcome, attempts |-> operations[o].attempts,
   unit |-> operations[o].unit, execution |-> operations[o].execution]

\* operation.completed and operation.uncertain name neither execution nor attempt.
OperationEnded(o, outcome) ==
  /\ outcome \in {"completed", "uncertain"}
  /\ Active
  /\ operations[o].status = "running"
  /\ operations' = [operations EXCEPT ![o] = Marked(o, outcome)]
  /\ UNCHANGED <<projectStatus, planVars, unitVars>>

ReconciledStatus(disposition) ==
  CASE disposition = "adopt" -> "completed"
    [] disposition = "compensate" -> "compensated"
    [] disposition = "retry" -> "retryable"

OperationReconciled(o, disposition) ==
  /\ Active
  /\ operations[o].status = "uncertain"
  /\ operations' = [operations EXCEPT ![o] = Marked(o, ReconciledStatus(disposition))]
  /\ UNCHANGED <<projectStatus, planVars, unitVars>>

-----------------------------------------------------------------------------
Init ==
  /\ projectStatus = "none"
  /\ plans = {}
  /\ contracts = {}
  /\ artifacts = [a \in Artifacts |-> AbsentArtifact]
  /\ workOrder = <<>>
  /\ definition = [u \in Units |-> NoDefinition]
  /\ status = [u \in Units |-> "absent"]
  /\ attempts = [u \in Units |-> 0]
  /\ maxAttempts = [u \in Units |-> 0]
  /\ execution = [u \in Units |-> NoExecution]
  /\ gate = [u \in Units |-> NoGate]
  /\ operations = [o \in Operations |-> AbsentOperation]

ProjectEvent ==
  \/ ProjectCreated
  \/ ProjectPaused
  \/ ProjectResumed
  \/ ProjectCompleted
  \/ \E target \in {"failed", "cancelled"} : ProjectAbandoned(target)

PlanningEvent ==
  \/ \E p \in Plans, parent \in Plans \union {None} : PlanRegistered(p, parent)
  \/ \E c \in Contracts : ContractRegistered(c)
  \/ \E a \in Artifacts, kind \in Kinds, producer \in Units \union {None},
        parents \in SUBSET Artifacts : ArtifactRegistered(a, kind, producer, parents)
  \/ \E u \in Units, deps \in SUBSET Units, contract \in Contracts \union {None},
        plan \in Plans \union {None}, inputs \in SUBSET Artifacts, limit \in AttemptLimits :
          WorkUnitAdded(u, deps, contract, plan, inputs, limit)

\* Any caller may submit a receipt for any execution the unit has ever had.
UnitEvent ==
  \E u \in Units :
    \/ WorkUnitStarted(u)
    \/ \E additional \in 0..AttemptCap : WorkUnitReopened(u, additional)
    \/ \E e \in 1..attempts[u] :
         \/ \E verdict \in BOOLEAN : ContractEvaluated(u, e, verdict)
         \/ WorkUnitSucceeded(u, e)
         \/ WorkUnitReturned(u, e)
         \/ \E outcome \in {"blocked", "failed", "cancelled"} :
              WorkUnitStopped(u, e, outcome)

OperationEvent ==
  \E o \in Operations :
    \/ \E u \in Units : \E e \in 1..attempts[u] :
         \/ OperationStarted(o, u, e)
         \/ OperationRetryStarted(o, u, e)
    \/ \E outcome \in {"completed", "uncertain"} : OperationEnded(o, outcome)
    \/ \E disposition \in {"adopt", "compensate", "retry"} :
         OperationReconciled(o, disposition)

Next == ProjectEvent \/ PlanningEvent \/ UnitEvent \/ OperationEvent

Spec == Init /\ [][Next]_vars

-----------------------------------------------------------------------------
(* Properties *)

TypeOK ==
  /\ projectStatus \in ProjectStatuses
  /\ plans \subseteq Plans
  /\ contracts \subseteq Contracts
  /\ artifacts \in [Artifacts -> ArtifactRecords]
  /\ workOrder \in Seq(Units)
  /\ definition \in [Units -> Definitions]
  /\ status \in [Units -> WorkStatuses \union {"absent"}]
  /\ attempts \in [Units -> Nat]
  /\ maxAttempts \in [Units -> Nat]
  /\ execution \in [Units -> Nat]
  /\ gate \in [Units -> Gates]
  /\ operations \in [Operations -> OperationRecords]

\* A completed project is complete: no unit that was ever added is anything but
\* succeeded, although receipts are accepted after the project has ended and
\* project.completed itself asks for no status but "not terminal".
CompletionIsSound == projectStatus = "completed" => AllSucceeded

\* Exactly the running units have an active execution, and it is that of their latest
\* start: the execution identifier binds a result to its start event.
ExecutionBinding ==
  \A u \in Units :
    execution[u] =
      IF status[u] = "running" THEN attempts[u] ELSE NoExecution

\* A unit that runs or has succeeded rests on dependencies that have all succeeded
\* and still count as succeeded: no late receipt, interruption or reopening of a
\* dependency can pull the ground from under its dependents.
DependenciesHonoured ==
  \A u \in Units : status[u] \in {"running", "succeeded"} => DependenciesSucceeded(u)

\* A contract-bound unit that succeeded did so in its latest execution, that execution
\* passed the gate, and the artifacts the gate relied on, its inputs and its outputs,
\* are still registered in the required numbers.
SuccessIsGated ==
  \A u \in Units : status[u] = "succeeded" =>
    /\ GatePassed(u, attempts[u])
    /\ InputsSatisfied(u)
    /\ OutputsSatisfied(u)

\* The strengthening that makes the four invariants above and the next one inductive:
\* a unit that was not added yet has no history, and a gate that ever passed keeps its
\* evidence, because artifacts are only ever added.
HistoryInv ==
  \A u \in Units :
    /\ status[u] = "absent" => attempts[u] = 0 /\ gate[u] = NoGate
    /\ gate[u].passed => InputsSatisfied(u) /\ OutputsSatisfied(u)

\* A pending unit can always be started once more: neither a retry, an interruption
\* nor a reopening puts a unit whose attempts are used up back in the queue, where
\* work_unit.started would reject it forever.
PendingHasBudget ==
  \A u \in Units :
    /\ attempts[u] <= maxAttempts[u]
    /\ status[u] = "pending" => ~Exhausted(u)

\* Every identifier the state holds resolves, so no later lookup in apply_event or
\* ready_work_units can fail: dependencies, contracts, plans, inputs, producers, parents,
\* and the unit and execution each operation receipt names.
ReferencesResolve ==
  /\ \A u \in Added :
       /\ definition[u].dependencies \subseteq Added \ {u}
       /\ definition[u].contract \in contracts \union {None}
       /\ definition[u].plan \in plans \union {None}
       /\ definition[u].inputs \subseteq Registered
  /\ \A a \in Registered :
       /\ artifacts[a].producer \in Added \union {None}
       /\ artifacts[a].parents \subseteq Registered \ {a}
  /\ \A o \in Operations : operations[o].status # "absent" =>
       /\ operations[o].unit \in Added
       /\ operations[o].execution \in 1..attempts[operations[o].unit]

\* The dependency graph never deadlocks by itself: while a unit is pending, some unit
\* is running, or stopped and waiting to be reopened, or pending with every dependency
\* succeeded.
NoDependencyDeadlock ==
  (\E u \in Units : status[u] = "pending") =>
    \E u \in Units :
      \/ status[u] \in {"running", "blocked", "failed", "cancelled"}
      \/ status[u] = "pending" /\ DependenciesSucceeded(u)

\* One receipt per execution: the active execution of a unit only ever ends, or is
\* replaced by one that never existed before; a receipt for an old one changes nothing.
ExecutionsNeverResume ==
  [][\A u \in Units :
       execution'[u] # execution[u] =>
         \/ execution'[u] = NoExecution
         \/ execution'[u] > attempts[u]]_vars

\* What succeeded stays succeeded, with the gate and the attempt that justified it.
SuccessIsFinal ==
  [][\A u \in Units :
       status[u] = "succeeded" =>
         status'[u] = "succeeded" /\ attempts'[u] = attempts[u] /\ gate'[u] = gate[u]]_vars

\* What is over stays over: no step revives an execution that has ended, or takes back a
\* success or what justified it.
WorkNeverRevives == ExecutionsNeverResume /\ SuccessIsFinal

\* The refinement mapping: an execution is the only thing that separates a unit's
\* "running" from its other unfinished statuses, and a paused project is still open.
AbstractGoal ==
  CASE projectStatus = "completed" -> "achieved"
    [] projectStatus \in {"failed", "cancelled"} -> "abandoned"
    [] OTHER -> "open"

StageOf(workStatus) ==
  CASE workStatus = "absent" -> "unknown"
    [] workStatus = "running" -> "executing"
    [] workStatus = "succeeded" -> "done"
    [] OTHER -> "open"

AbstractStage == [u \in Units |-> StageOf(status[u])]
AbstractNeeds == [u \in Units |-> definition[u].dependencies]

GoalGraph == INSTANCE GoalGraph
  WITH goal <- AbstractGoal, stage <- AbstractStage, needs <- AbstractNeeds

\* The reducer implements the GoalGraph.
ImplementsGoalGraph == GoalGraph!Spec

=============================================================================
