\* Two iterations, two turns for a decision, three scores, two deaths anywhere.
SPECIFICATION Spec
CONSTANTS
  MaxIterations = 2
  RetryLimit = 1
  TopScore = 2
  CrashCap = 2
  Verdicts <- MCVerdicts
  Unverified = Unverified
INVARIANTS LedgerAgrees BestIsHandedOut StopsAreHonoured
PROPERTIES WorkIsKept JobEnds
CHECK_DEADLOCK FALSE
