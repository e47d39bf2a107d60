\* The AutoCAD jobs, the review workbench, a detached campaign, a job's conversations,
\* the search for a cycle.
SPECIFICATION WorkbenchSpec
CONSTANTS
  JobCap = 2
  MaxHistory = 1
  Settings <- MCSettings
  Presentations = 2
  ReviewCap = 2
  CampaignStarts = 2
  Samples = {s1, s2}
  Configs = {"c1", "c2"}
  Timeouts = {"t1", "t2"}
  Programs = {"p1", "p2"}
  FailureLimit = 2
  Features = {"f1", "f2"}
  BuildAttempts = 2
  MaxActions = 2
  CallCap = 3
SYMMETRY MCSymmetry
INVARIANTS CommandsAreContained LedgerIsEvidence  ModesAreKept
PROPERTIES WorkbenchRecordsLast
CHECK_DEADLOCK FALSE
