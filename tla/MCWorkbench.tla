---------------------------- MODULE MCWorkbench ----------------------------
(***************************************************************************)
(* Instances of five modules that share no state, checked in one run: the  *)
(* AutoCAD jobs, the review workbench, a detached campaign, the            *)
(* conversations of a job and the search for a cycle that its gate relies   *)
(* on.  A behaviour is one of one module, which scenario names; the         *)
(* variables of the others keep their initial values.                      *)
(***************************************************************************)
EXTENDS AutocadJobs, ReviewWorkbench, DetachedCampaign, EvidenceFlow, DependencySearch, TLC

VARIABLE scenario

Setting(withCatalog, reviewers, attempts, editions) ==
  [catalog |-> withCatalog, reviewers |-> reviewers, attempts |-> attempts,
   editions |-> editions]

\* Two reviewers of one attempt, or one reviewer whose evidence is rebuilt; the theorems
\* are about all settings.
MCSettings ==
  {Setting(TRUE, {"r1", "r2"}, {"a1"}, 1), Setting(TRUE, {"r1"}, {"a1", "a2"}, 2),
   Setting(FALSE, {"r1"}, {"a1"}, 2)}

\* Nothing but the detached campaign knows of them.
MCSymmetry == Permutations(Samples)

\* The initial states of a module that does not run would only multiply those of the
\* one that does.  Which configuration, timeout and program the first start has makes no
\* difference.  Starts of the agent's campaign, to whose manifest configuration, timeout
\* and program are one, differ in the program or not at all; those of the other differ in
\* their configuration, or in timeout and program, which its manifest leaves open.
WorkbenchInit ==
  /\ scenario \in {"autocad", "review", "campaign", "evidence", "search"}
  /\ AutocadInit /\ ReviewInit /\ CampaignInit /\ EvidenceInit /\ SearchInit
  /\ scenario # "review" => setting = Setting(TRUE, {"r1", "r2"}, {"a1"}, 1)
  /\ scenario # "campaign" =>
       driver = "agent" /\ \A s, t \in StartIds : argv[s] = argv[t]
  /\ argv[1] = Condition("c1", "t1", "p1")
  /\ \A s, t \in StartIds : s # t =>
       IF driver = "agent" THEN argv[s].config = argv[t].config /\ argv[s].timeout = argv[t].timeout
       ELSE /\ (argv[s].config = argv[t].config) # (argv[s].timeout = argv[t].timeout)
            /\ (argv[s].timeout = argv[t].timeout) = (argv[s].program = argv[t].program)
  /\ scenario # "evidence" =>
       condition = [mode |-> "baseline", feedback |-> FALSE, oracle |-> "none"]
  /\ scenario # "search" => graph = [f \in Features |-> {}]

WorkbenchNext ==
  /\ UNCHANGED scenario
  /\ \/ /\ scenario = "autocad" /\ AutocadNext
        /\ UNCHANGED <<reviewVars, campaignVars, evidenceVars, searchVars>>
     \/ /\ scenario = "review" /\ ReviewNext
        /\ UNCHANGED <<autocadVars, campaignVars, evidenceVars, searchVars>>
     \/ /\ scenario = "campaign" /\ CampaignNext
        /\ UNCHANGED <<autocadVars, reviewVars, evidenceVars, searchVars>>
     \/ /\ scenario = "evidence" /\ EvidenceNext
        /\ UNCHANGED <<autocadVars, reviewVars, campaignVars, searchVars>>
     \/ /\ scenario = "search" /\ SearchNext
        /\ UNCHANGED <<autocadVars, reviewVars, campaignVars, evidenceVars>>

WorkbenchVars == <<scenario, autocadVars, reviewVars, campaignVars, evidenceVars, searchVars>>

WorkbenchSpec == WorkbenchInit /\ [][WorkbenchNext]_WorkbenchVars

-----------------------------------------------------------------------------
(* Properties *)

\* Each reconstruction mode is what it says; and what its gate takes for an order in which
\* features can be made is one, and for a circle is a circle.
ModesAreKept == ModeIsHonoured /\ SearchIsExact

\* What was recorded lasts: the ends of AutoCAD jobs, the drafts of reviews and what a
\* campaign has written.
WorkbenchRecordsLast == EndsAreFinal /\ DraftsAreKept /\ CampaignRecordsLast
=============================================================================
