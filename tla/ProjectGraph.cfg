\* Three units, any dependency graph on them, no contracts and no operations.
SPECIFICATION Spec
CONSTANTS
  None = None
  mesh = mesh
  report = report
  Units = {u1, u2, u3}
  Contracts = {}
  Plans = {}
  Artifacts = {}
  Kinds = {mesh, report}
  Operations = {}
  InputRequirements <- MCInputs
  OutputRequirements <- MCOutputs
  AttemptLimits = {1, 2}
  AttemptCap = 2
  OperationAttemptCap = 0
INVARIANTS CompletionIsSound DependenciesHonoured PendingHasBudget NoDependencyDeadlock
PROPERTIES WorkNeverRevives ImplementsGoalGraph
CHECK_DEADLOCK FALSE
