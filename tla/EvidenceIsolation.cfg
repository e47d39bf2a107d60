\* One action is enough.
SPECIFICATION EvidenceSpec
CONSTANTS
  Features = {"f1"}
  BuildAttempts = 1
  MaxActions = 1
  CallCap = 1
INVARIANT ExecutorSeesNoImage
CHECK_DEADLOCK FALSE
