---------------------------- MODULE MCEvolution ----------------------------
(***************************************************************************)
(* Instances of six modules that share no state, checked in one run: the   *)
(* batch campaign with its adaptive session, the improvement manager, a    *)
(* BenchCAD record, a run of the ledger, a paper run and a trial.  A        *)
(* behaviour is one of one module, which scenario names; the variables of   *)
(* the others keep their initial values.                                    *)
(***************************************************************************)
EXTENDS BatchJob, Improvement, BenchCad, RunLedger, PaperRun, TrialRun

VARIABLE scenario

MCSessionFiles ==
  [c \in {"prompt", "skill", "mcp", "verifier"} |->
     IF c = "verifier" THEN {"verify.py"} ELSE {}]

\* One proposal is about both sources, the other about one of them.
MCScope == [p \in Proposals |-> IF p = "p1" THEN Sources ELSE {"modeling.md"}]

\* The initial states of a module that does not run would only multiply those of the
\* one that does.
EvolutionInit ==
  /\ scenario \in {"batch", "improvement", "benchcad", "ledger", "paper", "trial"}
  /\ BatchInit /\ ImprovementInit /\ BenchInit /\ LedgerInit /\ PaperInit
  /\ TrialInit
  /\ scenario # "batch" => adaptive
  /\ scenario # "benchcad" => benchMode = "shared" /\ auditor = "present"
  /\ scenario # "paper" => script = "kimi"
  /\ scenario # "trial" => trialScript = "kimi"

EvolutionNext ==
  /\ UNCHANGED scenario
  /\ \/ /\ scenario = "batch" /\ BatchNext
        /\ UNCHANGED <<improvementVars, benchVars, ledgerVars, paperVars, trialVars>>
     \/ /\ scenario = "improvement" /\ ImprovementNext
        /\ UNCHANGED <<batchAll, benchVars, ledgerVars, paperVars, trialVars>>
     \/ /\ scenario = "benchcad" /\ BenchNext
        /\ UNCHANGED <<batchAll, improvementVars, ledgerVars, paperVars, trialVars>>
     \/ /\ scenario = "ledger" /\ LedgerNext
        /\ UNCHANGED <<batchAll, improvementVars, benchVars, paperVars, trialVars>>
     \/ /\ scenario = "paper" /\ PaperNext
        /\ UNCHANGED <<batchAll, improvementVars, benchVars, ledgerVars, trialVars>>
     \/ /\ scenario = "trial" /\ TrialNext
        /\ UNCHANGED <<batchAll, improvementVars, benchVars, ledgerVars, paperVars>>

EvolutionSpec ==
  EvolutionInit
    /\ [][EvolutionNext]_<<scenario, batchAll, improvementVars, benchVars, ledgerVars, paperVars, trialVars>>

\* Of a BenchCAD record on which two campaign processes have been at work nothing is
\* claimed, so what happens to it from there on is not explored.
BeforeOverlap == ~overlap

-----------------------------------------------------------------------------
(* Properties *)

\* What was recorded lasts: the rows of a batch campaign, and the events of a paper run.
RecordsLast == SettledRowsLast /\ EventsAreKept

\* What is on record of a paper run and of a registered trial is so, however often they
\* die and are started again: outputs, resumptions, and one verdict, on no image that was not registered.
RunsAreAccounted == PaperRunIsAccounted /\ TrialIsHonest
=============================================================================
