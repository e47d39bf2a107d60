\* One unit bound to a contract that needs a mesh and must produce a report, two
\* artifacts, an operation of its executions, and a plan with its revision.
SPECIFICATION Spec
CONSTANTS
  None = None
  mesh = mesh
  report = report
  Units = {u1}
  Contracts = {c1}
  Plans = {p1, p2}
  Artifacts = {a1, a2}
  Kinds = {mesh, report}
  Operations = {o1}
  InputRequirements <- MCInputs
  OutputRequirements <- MCOutputs
  AttemptLimits = {2}
  AttemptCap = 2
  OperationAttemptCap = 2
SYMMETRY MCSymmetry
INVARIANTS SuccessIsGated ReferencesResolve
CHECK_DEADLOCK FALSE
