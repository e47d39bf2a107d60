\* Two kernels that recover each other's live executions, a unit bound to a contract that
\* wants a mesh, a crash and an intervention of the operator.
CONSTANTS
  mesh = mesh
  Units = {u1}
  Contracts = {c1}
  Plans = {}
  Artifacts = {a1}
  Kinds = {mesh}
  Operations = {}
  None = None
  InputRequirements <- MCInputs
  OutputRequirements <- MCOutputs
  AttemptLimits = {2}
  AttemptCap = 3
  OperationAttemptCap = 0
  Kernels = {k1, k2}
  CrashCap = 1
  InterventionCap = 1
SPECIFICATION FairKernelSpec
INVARIANTS OneOwner SuccessWasDelivered
PROPERTY Settles
CHECK_DEADLOCK FALSE
