\* The batch campaign, the improvement manager, a BenchCAD record, a ledger run, a
\* paper run and a trial.
SPECIFICATION EvolutionSpec
CONSTANTS
  SessionFiles <- MCSessionFiles
  TestFiles = {"test_new.py"}
  Jobs = 1
  MaxAttempts = 2
  Stagnation = 2
  HarnessRetries = 1
  TopLevel = 1
  Proposals = {"p1", "p2"}
  Sources = {"modeling.md", "verify.py"}
  VerifierFiles = {"verify.py"}
  Scope <- MCScope
  EditCap = 2
  Supervisors = 2
  Launches = 2
  MaxIterations = 2
  CandidateCap = 2
  Processes = {"k1", "k2"}
  AuditEvents = {e1}
  Verdicts = {verdict}
  Unverified = Unverified
  None = None
  EventCap = 4
  AttemptCap = 2
  CrashCap = 1
  Runners = 3
  Launchers = {"l1", "l2"}
  Drawings = 2
CONSTRAINT BeforeOverlap
INVARIANTS BestIsKept WorkspaceIsAccounted ProductionIsAccounted ScoreIsHonest StoresAgree RunsAreAccounted
PROPERTIES RecordsLast ImplementsAttemptBook
CHECK_DEADLOCK FALSE
