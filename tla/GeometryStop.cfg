\* The instance of Geometry.cfg.
SPECIFICATION Spec
CONSTANTS
  MaxIterations = 2
  RetryLimit = 1
  TopScore = 2
  CrashCap = 2
  Verdicts <- MCVerdicts
  Unverified = Unverified
INVARIANT OnlyContinueSchedules
CHECK_DEADLOCK FALSE
