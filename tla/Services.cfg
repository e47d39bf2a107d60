\* Two callers of one operation that may die at any step, an episode and its runner, the
\* drawing questions, the replay of two jobs, a job of two attempts with its clients, and
\* two registrars.
CONSTANTS
  None = None
  Units = {unit}
  Unit = unit
  Contracts = {}
  Plans = {}
  Artifacts = {}
  Kinds = {}
  Operations = {o1}
  InputRequirements <- MCRequirements
  OutputRequirements <- MCRequirements
  AttemptLimits = {2}
  AttemptCap = 2
  OperationAttemptCap = 3
  Callers = {c1, c2}
  EffectCap = 3
  ToolBudget = 2
  ServerStarts = 2
  TamperCap = 1
  Batches = 2
  Protocols = {"verbose", "boxed", "contextual"}
  ChangeCap = 1
  JobCount = 2
  ReplayStarts = 3
  MishapCap = 1
  DecisionTries = 2
  ClientCap = 4
  AttemptsOfJob = 2
  Registrars = {r1, r2}
  ArtifactIds = {a1, a2}
  Bodies = {first, second}
  RewriteCap = 1
SPECIFICATION ServicesSpec
INVARIANTS EffectsAreAccounted EpisodeIsHonest FixedThingsAreUsed TurnsAreOneConversation
PROPERTIES ServicesRecordsLast
CHECK_DEADLOCK FALSE
