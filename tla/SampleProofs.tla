----------------------------- MODULE SampleProofs -----------------------------
(***************************************************************************)
(* Proofs about a sample of the geometry campaign, on top of those of the  *)
(* kernel that drives it: for any number of deaths and of responses, and   *)
(* whichever executor raises, no geometry is made before the human has     *)
(* answered, and the row of a sample is final.                             *)
(***************************************************************************)
EXTENDS SampleProject, ProjectKernelProofs

-----------------------------------------------------------------------------
(* The invariant *)

Phases == {"idle", "setup", "driving", "summarising", "failing", "recording", "broken"}

SampleTypes ==
  /\ phase \in Phases
  /\ known \subseteq Responses
  /\ human \in {"attaching", "attached"} => reply \in Responses
  /\ maxAttempts[Geometry] <= MaxAttempts
  /\ projectStatus \in {"none", "active", "completed", "failed"}
  /\ projectStatus = "none" => status[Geometry] = "absent"

\* The reconstruction waits for the gate, and the gate opens on a resolution that rests on
\* a response.
GateInv ==
  /\ Geometry \in Added => Gate \in definition[Geometry].dependencies
  /\ Resolved \in Registered => artifacts[Resolved].parents \intersect Responses # {}
  /\ status[Gate] = "succeeded" => Resolved \in Registered
  /\ pc[Campaign] = "reporting" /\ target[Campaign] = Gate /\ result[Campaign] = "succeeded" =>
       Resolved \in Registered

\* What is loaded is still so when it is recorded, and when the campaign is over.
OutcomeIs(outcome) ==
  /\ status[Geometry] = outcome
  /\ outcome = "failed" => projectStatus = "failed"
OutcomeInv ==
  /\ phase = "failing" => status[Geometry] = "failed" /\ (loaded \in Settling => loaded = "failed")
  /\ phase = "recording" /\ loaded \in Settling => OutcomeIs(loaded)
  /\ row \in Settling => phase = "idle" /\ OutcomeIs(row)

SampleInv == KernelInv /\ SampleTypes /\ GateInv /\ OutcomeInv

LEMMA SampleStarts == SampleInit => SampleInv
<1>1. SUFFICES ASSUME SampleInit PROVE SampleInv
  OBVIOUS
<1>2. KernelInv
  BY <1>1, KernelInvariantInit DEF SampleInit
<1>3. /\ maxAttempts[Geometry] = 0 /\ status[Gate] = "absent" /\ status[Geometry] = "absent"
      /\ artifacts[Resolved].kind = None /\ projectStatus = "none"
      /\ pc[Campaign] = "off"
  BY <1>1, SampleAssumption DEF SampleInit, Init, KernelInit, AbsentArtifact
<1>4. SampleTypes
  BY <1>1, <1>3 DEF SampleInit, SampleTypes, Phases, MaxAttempts
<1>5. GateInv
  BY <1>1, <1>3 DEF SampleInit, GateInv, Added, Registered
<1>6. OutcomeInv
  BY <1>1 DEF SampleInit, OutcomeInv, Settling
<1>7. QED
  BY <1>2, <1>4, <1>5, <1>6 DEF SampleInv

-----------------------------------------------------------------------------
(* The kernel's invariant in the composition *)

\* Steps beside the kernel that neither start a unit nor let one succeed.
LEMMA BesideKernel ==
  ASSUME KernelInv, [Next]_vars, UNCHANGED <<delivered, interrupted, interventions>>,
         UNCHANGED localVars \/ Exit(Campaign),
         crashes' = crashes \/ (crashes < CrashCap /\ crashes' = crashes + 1),
         \A u \in Units : status'[u] \in {"running", "succeeded"} =>
           status'[u] = status[u] /\ attempts'[u] = attempts[u]
  PROVE  KernelInv'
<1>1. IInv'
  BY InductiveStep DEF KernelInv
<1>2. crashes' \in 0..CrashCap
  BY KernelAssumption DEF KernelInv, KernelTypeOK
<1>3. Campaign \in Kernels
  BY SampleAssumption
<1>4. KernelTypeOK'
  <2>1. CASE UNCHANGED localVars
    BY <1>2, <2>1 DEF localVars, KernelInv, KernelTypeOK
  <2>2. CASE Exit(Campaign)
    BY <1>2, <1>3, <2>2 DEF Exit, Goto, Labels, KernelInv, KernelTypeOK, NoExecution
  <2>3. QED
    BY <2>1, <2>2
<1>5. \A k \in Kernels :
        \/ pc'[k] = "off"
        \/ pc'[k] = pc[k] /\ target'[k] = target[k] /\ run'[k] = run[k] /\ result'[k] = result[k]
  BY <1>3 DEF Exit, Goto, localVars, KernelInv, KernelTypeOK
<1>6. HistInv'
  <2>1. \A k \in Kernels : Executing(k)' =>
          Executing(k) /\ target'[k] = target[k] /\ run'[k] = run[k]
    BY <1>5 DEF Executing
  <2>2. \A k \in Kernels :
          /\ pc'[k] = "starting" => target'[k] \in Units
          /\ pc'[k] = "reporting" /\ result'[k] = "succeeded" =>
               <<target'[k], run'[k]>> \in delivered'
    BY <1>5 DEF KernelInv, HistInv, RunInv
  <2>3. QED
    BY <2>1, <2>2, NothingStartsOrSucceeds
<1>7. QED
  BY <1>1, <1>4, <1>6 DEF KernelInv

LEMMA SetUpIs ==
  ASSUME SampleInv, SetUp
  PROVE  Planner
<1>1. ProjectCreated \/ PlanningEvent
  <2>1. CASE stage = 0 /\ ProjectCreated
    BY <2>1
  <2>2. CASE \/ ArtifactRegistered(Evidence, DesignEvidence, None, {})
             \/ ArtifactRegistered(Feedback, HumanFeedback, None, {})
    BY <2>2, SampleAssumption DEF PlanningEvent, Inputs
  <2>3. CASE PlanRegistered(Plan, None) \/ ContractRegistered(Contract)
    BY <2>3, SampleAssumption DEF PlanningEvent
  <2>4. CASE \/ WorkUnitAdded(Gate, {}, None, Plan, Inputs, MaxAttempts)
             \/ WorkUnitAdded(Geometry, {Gate}, Contract, Plan, Inputs, MaxAttempts)
    <3>1. {} \in SUBSET Units /\ {Gate} \in SUBSET Units /\ Inputs \in SUBSET Artifacts
      BY SampleAssumption
    <3>2. Gate \in Units /\ Geometry \in Units /\ Plan \in Plans /\ Contract \in Contracts
          /\ MaxAttempts \in AttemptLimits
      BY SampleAssumption
    <3>3. QED
      BY <2>4, <3>1, <3>2 DEF PlanningEvent
  <2>5. QED
    BY <2>1, <2>2, <2>3, <2>4 DEF SetUp, SetupEvent
<1>2. QED
  BY <1>1 DEF SetUp, Planner

\* Steps the campaign takes as a kernel, or as the planner of its project.
LEMMA KernelStepsOfSample ==
  ASSUME SampleInv,
         \/ SetUp \/ Drive \/ Launch \/ EndRun
         \/ BlockGate \/ ResolveFeedback \/ OpenGate
         \/ RaiseFromExecutor \/ RegisterCandidate \/ EvaluateGate \/ ReturnVerdict
  PROVE  [Next]_vars /\ KernelInv'
<1>1. Campaign \in Kernels
  BY SampleAssumption
<1>2. KernelNext
  <2>1. CASE SetUp
    BY <2>1, SetUpIs DEF KernelNext
  <2>2. CASE Drive \/ Launch \/ EndRun
    BY <1>1, <2>2 DEF Drive, Launch, EndRun, KernelNext, KernelStep
  <2>3. CASE BlockGate \/ OpenGate \/ ReturnVerdict \/ RaiseFromExecutor
    <3>1. PICK outcome \in Outcomes : ReturnWith(Campaign, outcome)
      BY <2>3 DEF BlockGate, OpenGate, ReturnVerdict, RaiseFromExecutor, RaisedOutcome, Outcomes
    <3>2. QED
      BY <1>1, <3>1 DEF KernelNext, KernelStep, Execute
  <2>4. CASE ResolveFeedback
    <3>1. /\ ArtifactRegistered(Resolved, HumanFeedback, Gate, {Feedback} \union known)
          /\ UNCHANGED <<localVars, historyVars>>
      BY <2>4 DEF ResolveFeedback
    <3>2. /\ {Feedback} \union known \in SUBSET Artifacts /\ Resolved \in Artifacts
          /\ HumanFeedback \in Kinds /\ Gate \in Units
      BY SampleAssumption DEF SampleInv, SampleTypes, Inputs
    <3>3. QED
      BY <3>1, <3>2 DEF KernelNext, Planner, PlanningEvent
  <2>5. CASE RegisterCandidate
    <3>1. /\ ArtifactRegistered(Candidate, CadModel, Geometry, Inputs \union {Resolved})
          /\ UNCHANGED <<localVars, historyVars>> /\ In(Geometry)
      BY <2>5 DEF RegisterCandidate
    <3>2. run[Campaign] \in 1..MaxAttempts
      <4>1. /\ Executing(Campaign) /\ target[Campaign] = Geometry
        BY <3>1 DEF In, Executing
      <4>2. /\ run[Campaign] \in Nat \ {0} /\ run[Campaign] <= attempts[Geometry]
            /\ attempts[Geometry] \in Nat
        BY <1>1, <4>1, ExecutingFacts DEF SampleInv
      <4>3. attempts[Geometry] <= maxAttempts[Geometry] /\ maxAttempts[Geometry] \in Nat
        BY SampleAssumption DEF SampleInv, KernelInv, IInv, PendingHasBudget, TypeOK
      <4>4. maxAttempts[Geometry] <= MaxAttempts
        BY DEF SampleInv, SampleTypes
      <4>5. QED
        BY <4>2, <4>3, <4>4 DEF MaxAttempts
    <3>3. /\ Candidate \in Artifacts /\ Inputs \union {Resolved} \in SUBSET Artifacts
          /\ CadModel \in Kinds /\ Geometry \in Units
      BY <3>2, SampleAssumption DEF Candidate, Inputs
    <3>4. QED
      BY <3>1, <3>3 DEF KernelNext, Planner, PlanningEvent
  <2>6. CASE EvaluateGate
    <3>1. /\ pc[Campaign] = "executing" /\ target[Campaign] = Geometry
          /\ ContractEvaluated(Geometry, run[Campaign], job = "passed")
          /\ UNCHANGED <<localVars, historyVars>>
      BY <2>6 DEF EvaluateGate, In
    <3>2. (job = "passed") \in BOOLEAN
      OBVIOUS
    <3>3. QED
      BY <1>1, <3>1, <3>2 DEF KernelNext, Evaluate
  <2>7. QED
    BY <2>1, <2>2, <2>3, <2>4, <2>5, <2>6
<1>3. [KernelNext]_kernelVars /\ KernelInv
  BY <1>2 DEF SampleInv
<1>4. QED
  BY <1>3, KernelStepsAreEvents, KernelInvariantStep

\* Steps the kernel has no part in.
LEMMA StepsBesideKernel ==
  ASSUME SampleInv, FailProject \/ Attach \/ Reopen \/ CampaignDies \/ HumanDies
  PROVE  [Next]_vars /\ KernelInv'
<1>1. TypeOK /\ KernelInv
  BY DEF SampleInv, KernelInv, IInv
<1>2. CASE CampaignDies \/ HumanDies
  <2>1. /\ UNCHANGED projectVars /\ UNCHANGED <<delivered, interrupted, interventions>>
        /\ UNCHANGED localVars \/ Exit(Campaign)
        /\ crashes < CrashCap /\ crashes' = crashes + 1
    BY <1>2 DEF CampaignDies, HumanDies
  <2>2. [Next]_vars /\ UNCHANGED <<status, attempts>>
    BY <2>1 DEF projectVars, vars, unitVars
  <2>3. QED
    BY <1>1, <2>1, <2>2, BesideKernel
<1>3. ASSUME Next, UNCHANGED <<localVars, historyVars>>,
             \A u \in Units : status'[u] \in {"running", "succeeded"} =>
               status'[u] = status[u] /\ attempts'[u] = attempts[u]
      PROVE  [Next]_vars /\ KernelInv'
  BY <1>1, <1>3, BesideKernel DEF historyVars
<1>4. ASSUME UNCHANGED projectVars, UNCHANGED <<localVars, historyVars>>
      PROVE  [Next]_vars /\ KernelInv'
  BY <1>1, <1>4, KernelInvariantStep DEF kernelVars, projectVars, vars
<1>5. CASE FailProject
  <2>1. ProjectAbandoned("failed") /\ UNCHANGED <<localVars, historyVars>>
    BY <1>5 DEF FailProject
  <2>2. Next /\ UNCHANGED <<status, attempts>>
    BY <2>1 DEF Next, ProjectEvent, ProjectAbandoned, unitVars
  <2>3. QED
    BY <1>3, <2>1, <2>2
<1>6. CASE Attach
  <2>1. /\ \/ ArtifactRegistered(reply, ClarificationResponse, Gate, {Feedback})
           \/ UNCHANGED projectVars
        /\ UNCHANGED <<localVars, historyVars>> /\ reply \in Responses
    BY <1>6 DEF Attach, SampleInv, SampleTypes
  <2>2. /\ reply \in Artifacts /\ ClarificationResponse \in Kinds /\ Gate \in Units
        /\ {Feedback} \in SUBSET Artifacts
    BY <2>1, SampleAssumption DEF Inputs
  <2>3. CASE ArtifactRegistered(reply, ClarificationResponse, Gate, {Feedback})
    <3>1. Next /\ UNCHANGED <<status, attempts>>
      BY <2>2, <2>3 DEF Next, PlanningEvent, ArtifactRegistered, unitVars
    <3>2. QED
      BY <1>3, <2>1, <3>1
  <2>4. QED
    BY <1>4, <2>1, <2>3
<1>7. CASE Reopen
  <2>1. /\ WorkUnitReopened(Gate, 0) \/ UNCHANGED projectVars
        /\ UNCHANGED <<localVars, historyVars>>
    BY <1>7 DEF Reopen
  <2>2. CASE WorkUnitReopened(Gate, 0)
    <3>1. 0 \in 0..AttemptCap /\ Gate \in Units
      BY LimitAssumption, SampleAssumption
    <3>2. Next
      BY <2>2, <3>1 DEF Next, UnitEvent
    <3>3. \A u \in Units : status'[u] \in {"running", "succeeded"} =>
            status'[u] = status[u] /\ attempts'[u] = attempts[u]
      BY <1>1, <2>2 DEF WorkUnitReopened, TypeOK
    <3>4. QED
      BY <1>3, <2>1, <3>2, <3>3
  <2>3. QED
    BY <1>4, <2>1, <2>2
<1>8. QED
  BY <1>2, <1>5, <1>6, <1>7

\* The rest of a step concerns the campaign and the human alone.
OutsideProject ==
  \/ OpenSample \/ SkipKernel \/ RunJob \/ LoadOutcome \/ LoadFails \/ RecordRow \/ Rerun
  \/ Submit \/ ReopenRaises

LEMMA SampleIsProject ==
  ASSUME SampleInv, [SampleNext]_sampleVars
  PROVE  [Next]_vars /\ KernelInv'
<1>1. CASE OutsideProject \/ UNCHANGED sampleVars
  <2>1. UNCHANGED kernelVars
    BY <1>1 DEF OutsideProject, OpenSample, SkipKernel, RunJob, LoadOutcome, LoadFails, RecordRow,
      Rerun, Submit, ReopenRaises, sampleVars
  <2>2. KernelInv
    BY DEF SampleInv
  <2>3. QED
    BY <2>1, <2>2, KernelInvariantStep DEF kernelVars, projectVars, vars
<1>2. QED
  BY <1>1, KernelStepsOfSample, StepsBesideKernel
     DEF SampleNext, CampaignStep, HumanStep, OutsideProject

-----------------------------------------------------------------------------
(* What the steps of a sample do to its project *)

\* Who changes what.
LEMMA WhoChanges ==
  ASSUME SampleInv, [SampleNext]_sampleVars
  PROVE  /\ \/ UNCHANGED <<status, maxAttempts>>
            \/ SetUp
            \/ phase = "driving" /\ UNCHANGED maxAttempts
                 /\ (Interrupt(Campaign) \/ Report(Campaign) \/ Start(Campaign))
            \/ WorkUnitReopened(Gate, 0) /\ UNCHANGED <<localVars, phase>>
         /\ \/ UNCHANGED artifacts
            \/ SetUp
            \/ ResolveFeedback
            \/ \E a \in Artifacts \ {Resolved} : \E kind, producer, parents :
                 ArtifactRegistered(a, kind, producer, parents)
         /\ \/ UNCHANGED projectStatus
            \/ SetUp
            \/ phase = "driving" /\ projectStatus' = "completed" /\ UNCHANGED status
            \/ FailProject
<1>1. CASE SetUp
  BY <1>1
<1>2. CASE OutsideProject \/ UNCHANGED sampleVars
  BY <1>2 DEF OutsideProject, OpenSample, SkipKernel, RunJob, LoadOutcome, LoadFails, RecordRow,
      Rerun, Submit, ReopenRaises, sampleVars, kernelVars, projectVars, planVars, unitVars
<1>3. CASE Drive
  <2>1. \/ UNCHANGED projectVars
        \/ /\ Interrupt(Campaign) \/ Report(Campaign)
           /\ UNCHANGED <<maxAttempts, artifacts, projectStatus>>
    BY <1>3 DEF Drive, Boot, Recovered, Schedule, ScheduleCompletion, Interrupt, InterruptedEvent,
      WorkUnitReturned, Report, OutcomeEvent, WorkUnitSucceeded, WorkUnitStopped, Leave, planVars
  <2>2. QED
    BY <1>3, <2>1 DEF Drive, projectVars, planVars, unitVars
<1>4. CASE Launch
  BY <1>4 DEF Launch, Start, WorkUnitStarted, planVars
<1>5. CASE EndRun
  BY <1>5 DEF EndRun, Finish, Complete, ProjectCompleted, projectVars, planVars, unitVars
<1>6. CASE BlockGate \/ OpenGate \/ RaiseFromExecutor \/ ReturnVerdict
  BY <1>6 DEF BlockGate, OpenGate, RaiseFromExecutor, ReturnVerdict, ReturnWith, projectVars,
    planVars, unitVars
<1>7. CASE EvaluateGate
  BY <1>7 DEF EvaluateGate, ContractEvaluated, planVars
<1>8. CASE ResolveFeedback
  BY <1>8 DEF ResolveFeedback, ArtifactRegistered, unitVars
<1>9. ASSUME NEW a \in Artifacts \ {Resolved}, NEW kind, NEW producer, NEW parents,
             ArtifactRegistered(a, kind, producer, parents)
      PROVE  /\ UNCHANGED <<status, maxAttempts, projectStatus>>
             /\ \E b \in Artifacts \ {Resolved} : \E kind2, producer2, parents2 :
                  ArtifactRegistered(b, kind2, producer2, parents2)
  <2>1. UNCHANGED <<status, maxAttempts, projectStatus>>
    BY <1>9 DEF ArtifactRegistered, unitVars
  <2>2. QED
    BY <1>9, <2>1
<1>10. CASE RegisterCandidate
  <2>1. ArtifactRegistered(Candidate, CadModel, Geometry, Inputs \union {Resolved})
    BY <1>10 DEF RegisterCandidate
  <2>2. Candidate \in Artifacts \ {Resolved}
    <3>1. /\ Executing(Campaign) /\ target[Campaign] = Geometry /\ Campaign \in Kernels
      BY <1>10, SampleAssumption DEF RegisterCandidate, In, Executing
    <3>2. /\ run[Campaign] \in Nat \ {0} /\ run[Campaign] <= attempts[Geometry]
          /\ attempts[Geometry] \in Nat
      BY <3>1, ExecutingFacts DEF SampleInv
    <3>3. attempts[Geometry] <= maxAttempts[Geometry] /\ maxAttempts[Geometry] \in Nat
      BY SampleAssumption DEF SampleInv, KernelInv, IInv, PendingHasBudget, TypeOK
    <3>4. run[Campaign] \in 1..MaxAttempts
      BY <3>2, <3>3 DEF SampleInv, SampleTypes, MaxAttempts
    <3>5. QED
      BY <3>4, SampleAssumption DEF Candidate
  <2>3. QED
    BY <1>9, <2>1, <2>2
<1>11. CASE Attach
  <2>1. \/ ArtifactRegistered(reply, ClarificationResponse, Gate, {Feedback})
        \/ UNCHANGED projectVars
    BY <1>11 DEF Attach
  <2>2. reply \in Artifacts \ {Resolved}
    BY <1>11, SampleAssumption DEF Attach, SampleInv, SampleTypes
  <2>3. QED
    BY <1>9, <2>1, <2>2 DEF projectVars, planVars, unitVars
<1>12. CASE Reopen
  BY <1>12 DEF Reopen, WorkUnitReopened, projectVars, planVars, unitVars, campaignVars
<1>13. CASE FailProject
  BY <1>13 DEF FailProject, ProjectAbandoned, planVars, unitVars
<1>14. CASE CampaignDies \/ HumanDies
  BY <1>14 DEF CampaignDies, HumanDies, projectVars, planVars, unitVars
<1>15. QED
  BY <1>1, <1>2, <1>3, <1>4, <1>5, <1>6, <1>7, <1>8, <1>10, <1>11, <1>12, <1>13, <1>14
     DEF SampleNext, CampaignStep, HumanStep, OutsideProject

\* What setting up does.
LEMMA SetUpDoes ==
  ASSUME SampleInv, SetUp
  PROVE  /\ projectStatus' \in {projectStatus, "active"}
         /\ maxAttempts'[Geometry] \in {maxAttempts[Geometry], MaxAttempts}
         /\ artifacts'[Resolved] = artifacts[Resolved]
         /\ \A u \in Units : status'[u] = status[u] \/ (status[u] = "absent" /\ status'[u] = "pending")
         /\ UNCHANGED status \/ projectStatus' = "active"
         /\ status'[Geometry] # status[Geometry] => Gate \in definition'[Geometry].dependencies
         /\ phase = "setup" /\ phase' \in {"setup", "driving"}
         /\ UNCHANGED <<localVars, known, loaded, row, human, reply>>
<1>1. /\ phase = "setup" /\ phase' \in {"setup", "driving"} /\ SetupEvent
      /\ UNCHANGED <<localVars, known, loaded, row, human, reply>>
  BY DEF SetUp, humanVars
<1>2. TypeOK /\ Gate \in Units /\ Geometry \in Units /\ Gate # Geometry
  BY SampleAssumption DEF SampleInv, KernelInv, IInv
<1>3. CASE ProjectCreated
  BY <1>1, <1>3 DEF ProjectCreated, planVars, unitVars
<1>4. ASSUME NEW a \in Artifacts \ {Resolved}, NEW kind, ArtifactRegistered(a, kind, None, {})
      PROVE  /\ UNCHANGED <<projectStatus, maxAttempts, status>>
             /\ artifacts'[Resolved] = artifacts[Resolved]
  BY <1>2, <1>4, SampleAssumption DEF ArtifactRegistered, unitVars, TypeOK
<1>5. CASE \/ ArtifactRegistered(Evidence, DesignEvidence, None, {})
           \/ ArtifactRegistered(Feedback, HumanFeedback, None, {})
  <2>1. Evidence \in Artifacts \ {Resolved} /\ Feedback \in Artifacts \ {Resolved}
    BY SampleAssumption DEF Inputs
  <2>2. QED
    BY <1>1, <1>4, <1>5, <2>1
<1>6. CASE PlanRegistered(Plan, None) \/ ContractRegistered(Contract)
  BY <1>1, <1>6 DEF PlanRegistered, ContractRegistered, unitVars
<1>7. CASE WorkUnitAdded(Gate, {}, None, Plan, Inputs, MaxAttempts)
  BY <1>1, <1>2, <1>7 DEF WorkUnitAdded, AddUnit, TypeOK, Added, Active
<1>8. CASE WorkUnitAdded(Geometry, {Gate}, Contract, Plan, Inputs, MaxAttempts)
  BY <1>1, <1>2, <1>8 DEF WorkUnitAdded, AddUnit, TypeOK, Added, Active
<1>9. QED
  BY <1>1, <1>3, <1>5, <1>6, <1>7, <1>8 DEF SetupEvent

\* What the kernel's own steps do to a unit.
LEMMA KernelDoes ==
  ASSUME SampleInv, Interrupt(Campaign) \/ Report(Campaign) \/ Start(Campaign)
  PROVE  \A u \in Units :
           \/ status'[u] = status[u]
           \/ /\ status[u] \in {"pending", "running"}
              /\ status'[u] \in WorkStatuses
              /\ status'[u] = "succeeded" =>
                   Report(Campaign) /\ u = target[Campaign] /\ result[Campaign] = "succeeded"
<1>1. TypeOK /\ Campaign \in Kernels /\ KernelTypeOK
  BY SampleAssumption DEF SampleInv, KernelInv, IInv
<1>2. ASSUME NEW u \in Units, NEW e, NEW outcome \in WorkStatuses, OwnsUnit(u, e),
             Leave(u, outcome)
      PROVE  \A v \in Units :
               \/ status'[v] = status[v]
               \/ v = u /\ status[v] = "running" /\ status'[v] = outcome
  BY <1>1, <1>2 DEF Leave, OwnsUnit, TypeOK
<1>3. CASE Interrupt(Campaign)
  <2>1. CASE UNCHANGED projectVars
    BY <2>1 DEF projectVars, unitVars
  <2>2. PICK i \in NextRunning(Campaign) :
          \/ InterruptedEvent(rest[Campaign][i], view[Campaign][rest[Campaign][i]])
          \/ UNCHANGED projectVars
    BY <1>3 DEF Interrupt
  <2>3. CASE InterruptedEvent(rest[Campaign][i], view[Campaign][rest[Campaign][i]])
    <3>1. PICK u \in Units : u = rest[Campaign][i]
      BY <1>1 DEF NextRunning, KernelTypeOK
    <3>2. PICK outcome \in {"failed", "pending"} :
            OwnsUnit(u, view[Campaign][u]) /\ Leave(u, outcome)
      BY <2>3, <3>1 DEF InterruptedEvent, WorkUnitReturned
    <3>3. outcome \in WorkStatuses
      BY DEF WorkStatuses
    <3>4. QED
      BY <1>2, <3>2, <3>3 DEF WorkStatuses
  <2>4. QED
    BY <2>1, <2>2, <2>3
<1>4. CASE Report(Campaign)
  <2>1. PICK u \in Units : u = target[Campaign]
    BY <1>1, <1>4 DEF Report, SampleInv, KernelInv, HistInv, RunInv
  <2>2. PICK outcome \in WorkStatuses :
          /\ OwnsUnit(u, run[Campaign]) /\ Leave(u, outcome)
          /\ outcome = "succeeded" => result[Campaign] = "succeeded"
    BY <1>4, <2>1 DEF Report, OutcomeEvent, WorkUnitSucceeded, WorkUnitReturned, WorkUnitStopped,
      WorkStatuses
  <2>3. QED
    BY <1>2, <1>4, <2>1, <2>2
<1>5. CASE Start(Campaign)
  BY <1>1, <1>5 DEF Start, WorkUnitStarted, Ready, TypeOK, WorkStatuses
<1>6. QED
  BY <1>3, <1>4, <1>5

-----------------------------------------------------------------------------
(* The invariant is kept *)

LEMMA TypesKept ==
  ASSUME SampleInv, [SampleNext]_sampleVars
  PROVE  SampleTypes'
<1>1. TypeOK /\ Gate \in Units /\ Geometry \in Units /\ Gate # Geometry
  BY SampleAssumption DEF SampleInv, KernelInv, IInv
<1>2. SampleTypes
  BY DEF SampleInv
<1>3. maxAttempts'[Geometry] \in {maxAttempts[Geometry], MaxAttempts}
  BY <1>1, WhoChanges, SetUpDoes DEF WorkUnitReopened, TypeOK
<1>4. projectStatus' \in {projectStatus, "active", "completed", "failed"}
  BY WhoChanges, SetUpDoes DEF FailProject, ProjectAbandoned
<1>5. phase' \in Phases
  <2>1. CASE HumanStep \/ HumanDies \/ UNCHANGED sampleVars \/ CampaignDies
    BY <1>2, <2>1 DEF HumanStep, Submit, Attach, Reopen, ReopenRaises, HumanDies, CampaignDies,
      Stop, sampleVars, campaignVars, SampleTypes, Phases
  <2>2. CASE OpenSample \/ SetUp \/ SkipKernel \/ Drive \/ Launch \/ EndRun
    BY <1>2, <2>2 DEF OpenSample, SetUp, SkipKernel, Drive, Launch, EndRun, campaignVars,
      SampleTypes, Phases
  <2>3. CASE \/ BlockGate \/ ResolveFeedback \/ OpenGate
             \/ RunJob \/ RaiseFromExecutor \/ RegisterCandidate \/ EvaluateGate \/ ReturnVerdict
    BY <1>2, <2>3 DEF BlockGate, ResolveFeedback, OpenGate, RunJob, RaiseFromExecutor,
      RegisterCandidate, EvaluateGate, ReturnVerdict, campaignVars, SampleTypes
  <2>4. CASE LoadOutcome \/ LoadFails \/ FailProject \/ RecordRow \/ Rerun
    BY <2>4 DEF LoadOutcome, LoadFails, FailProject, RecordRow, Rerun, Stop, Phases
  <2>5. QED
    BY <2>1, <2>2, <2>3, <2>4 DEF SampleNext, CampaignStep
<1>6. known' \subseteq Responses
  <2>1. \/ known' \subseteq known \/ known' = {} \/ known' = Responses \intersect Registered
    <3>1. CASE HumanStep \/ HumanDies \/ UNCHANGED sampleVars \/ CampaignDies
      BY <3>1 DEF HumanStep, Submit, Attach, Reopen, ReopenRaises, HumanDies, CampaignDies,
        Stop, sampleVars, campaignVars
    <3>2. CASE OpenSample \/ SetUp \/ SkipKernel \/ Drive \/ Launch \/ EndRun
      <4>1. CASE Launch
        <5>1. known' = Responses \intersect Registered \/ known' = Responses \intersect Registered'
          BY <4>1 DEF Launch
        <5>2. UNCHANGED artifacts
          BY <4>1 DEF Launch, Start, WorkUnitStarted, planVars
        <5>3. QED
          BY <5>1, <5>2 DEF Registered
      <4>2. QED
        BY <3>2, <4>1 DEF OpenSample, SetUp, SkipKernel, Drive, EndRun, campaignVars
    <3>3. CASE \/ BlockGate \/ ResolveFeedback \/ OpenGate
               \/ RunJob \/ RaiseFromExecutor \/ RegisterCandidate \/ EvaluateGate \/ ReturnVerdict
      BY <3>3 DEF BlockGate, ResolveFeedback, OpenGate, RunJob, RaiseFromExecutor,
        RegisterCandidate, EvaluateGate, ReturnVerdict, campaignVars
    <3>4. CASE LoadOutcome \/ LoadFails \/ FailProject \/ RecordRow \/ Rerun
      BY <3>4 DEF LoadOutcome, LoadFails, FailProject, RecordRow, Rerun, Stop
    <3>5. QED
      BY <3>1, <3>2, <3>3, <3>4 DEF SampleNext, CampaignStep
  <2>2. QED
    BY <1>2, <2>1 DEF SampleTypes
<1>7. human' \in {"attaching", "attached"} => reply' \in Responses
  <2>1. CASE HumanStep \/ HumanDies
    BY <1>2, <2>1 DEF HumanStep, Submit, Attach, Reopen, ReopenRaises, HumanDies, SampleTypes
  <2>2. CASE CampaignDies \/ CampaignStep \/ UNCHANGED sampleVars
    <3>1. UNCHANGED <<human, reply>>
      BY <2>2 DEF CampaignDies, CampaignStep, OpenSample, SetUp, SkipKernel, Drive, Launch,
        EndRun, BlockGate, ResolveFeedback, OpenGate, RunJob, RaiseFromExecutor,
        RegisterCandidate, EvaluateGate, ReturnVerdict, LoadOutcome, LoadFails, FailProject,
        RecordRow, Rerun, humanVars, sampleVars
    <3>2. QED
      BY <1>2, <3>1 DEF SampleTypes
  <2>3. QED
    BY <2>1, <2>2 DEF SampleNext
<1>8. projectStatus' = "none" => status'[Geometry] = "absent"
  <2>1. ASSUME projectStatus' = "none"
        PROVE  projectStatus = "none" /\ ~FailProject
    BY <2>1, WhoChanges, SetUpDoes DEF FailProject, ProjectAbandoned
  <2>2. ASSUME projectStatus' = "none"
        PROVE  status'[Geometry] = status[Geometry]
    <3>1. status[Geometry] = "absent" /\ projectStatus = "none"
      BY <1>2, <2>1, <2>2 DEF SampleTypes
    <3>2. CASE SetUp
      BY <2>2, <3>2, SetUpDoes
    <3>3. CASE Interrupt(Campaign) \/ Report(Campaign) \/ Start(Campaign)
      BY <1>1, <3>1, <3>3, KernelDoes
    <3>4. CASE WorkUnitReopened(Gate, 0)
      BY <3>1, <3>4 DEF WorkUnitReopened, Active
    <3>5. QED
      BY <3>2, <3>3, <3>4, WhoChanges
  <2>3. QED
    BY <1>2, <2>1, <2>2 DEF SampleTypes
<1>9. QED
  BY <1>2, <1>3, <1>4, <1>5, <1>6, <1>7, <1>8 DEF SampleTypes, MaxAttempts

\* Somebody returns, or what the campaign reports is as it was.
LEMMA WhatIsReported ==
  ASSUME SampleInv, [SampleNext]_sampleVars,
         (pc[Campaign] = "reporting")', (target[Campaign] = Gate)',
         (result[Campaign] = "succeeded")'
  PROVE  \/ OpenGate
         \/ pc[Campaign] = "reporting" /\ target[Campaign] = Gate /\ result[Campaign] = "succeeded"
<1>1. Campaign \in Kernels /\ KernelTypeOK /\ Gate # Geometry
  BY SampleAssumption DEF SampleInv, KernelInv
<1>2. CASE UNCHANGED localVars
  BY <1>2 DEF localVars
<1>3. CASE Exit(Campaign)
  BY <1>1, <1>3 DEF Exit, Goto, KernelTypeOK
<1>4. CASE Drive
  BY <1>1, <1>3, <1>4 DEF Drive, Boot, Interrupt, Recovered, Schedule, ScheduleCompletion, Report,
    Goto, KernelTypeOK
<1>5. CASE Launch
  BY <1>1, <1>5 DEF Launch, Start, Goto, KernelTypeOK
<1>6. CASE BlockGate \/ RaiseFromExecutor \/ ReturnVerdict
  BY <1>1, <1>6 DEF BlockGate, RaiseFromExecutor, ReturnVerdict, ReturnWith, RaisedOutcome, In,
    KernelTypeOK
<1>7. CASE \/ SetUp \/ ResolveFeedback \/ RegisterCandidate \/ EvaluateGate \/ FailProject
           \/ Attach \/ Reopen \/ HumanDies
  BY <1>2, <1>7 DEF SetUp, ResolveFeedback, RegisterCandidate, EvaluateGate, FailProject, Attach,
    Reopen, HumanDies
<1>8. CASE OutsideProject \/ UNCHANGED sampleVars
  BY <1>2, <1>8 DEF OutsideProject, OpenSample, SkipKernel, RunJob, LoadOutcome, LoadFails, RecordRow,
      Rerun, Submit, ReopenRaises, sampleVars, kernelVars
<1>9. CASE EndRun \/ CampaignDies
  BY <1>3, <1>9 DEF EndRun, Finish, Complete, CampaignDies
<1>10. QED
  BY <1>4, <1>5, <1>6, <1>7, <1>8, <1>9
     DEF SampleNext, CampaignStep, HumanStep, OutsideProject

LEMMA GateKept ==
  ASSUME SampleInv, [SampleNext]_sampleVars
  PROVE  GateInv'
<1>1. /\ TypeOK /\ Gate \in Units /\ Geometry \in Units /\ Gate # Geometry
      /\ Resolved \in Artifacts /\ HumanFeedback # None /\ [Next]_vars /\ GateInv
  BY SampleAssumption, NoneAssumption, SampleIsProject DEF SampleInv, KernelInv, IInv
<1>2. (Geometry \in Added)' => Gate \in definition'[Geometry].dependencies
  <2>1. CASE Geometry \in Added
    BY <1>1, <2>1, DefinitionsNeverChange DEF GateInv
  <2>2. CASE Geometry \notin Added
    <3>1. status[Geometry] = "absent"
      BY <1>1, <2>2 DEF Added
    <3>2. status'[Geometry] = "absent" \/ Gate \in definition'[Geometry].dependencies
      BY <1>1, <3>1, WhoChanges, SetUpDoes, KernelDoes DEF WorkUnitReopened, TypeOK
    <3>3. QED
      BY <3>2 DEF Added
  <2>3. QED
    BY <2>1, <2>2
<1>3. Resolved \in Registered => Resolved \in Registered' /\ artifacts'[Resolved] = artifacts[Resolved]
  BY <1>1, ArtifactsOnlyAdded DEF Registered
<1>4. Resolved \in Registered' => artifacts'[Resolved].parents \intersect Responses # {}
  <2>1. CASE Resolved \in Registered
    BY <1>1, <1>3, <2>1 DEF GateInv
  <2>2. CASE ResolveFeedback
    <3>1. artifacts' = [artifacts EXCEPT ![Resolved] =
            [kind |-> HumanFeedback, producer |-> Gate, parents |-> {Feedback} \union known]]
      BY <2>2 DEF ResolveFeedback, ArtifactRegistered
    <3>2. artifacts'[Resolved].parents = {Feedback} \union known
      BY <1>1, <3>1 DEF TypeOK
    <3>3. known # {} /\ known \subseteq Responses
      BY <2>2 DEF ResolveFeedback, SampleInv, SampleTypes
    <3>4. QED
      BY <3>2, <3>3
  <2>3. CASE Resolved \notin Registered /\ ~ResolveFeedback
    <3>1. artifacts'[Resolved] = artifacts[Resolved]
      BY <1>1, <2>3, WhoChanges, SetUpDoes DEF ArtifactRegistered, TypeOK
    <3>2. QED
      BY <1>1, <2>3, <3>1 DEF Registered
  <2>4. QED
    BY <2>1, <2>2, <2>3
<1>5. status'[Gate] = "succeeded" => Resolved \in Registered'
  <2>1. CASE status[Gate] = "succeeded"
    BY <1>1, <1>3, <2>1 DEF GateInv
  <2>2. CASE status[Gate] # "succeeded" /\ status'[Gate] = "succeeded"
    <3>1. Interrupt(Campaign) \/ Report(Campaign) \/ Start(Campaign)
      BY <1>1, <2>2, WhoChanges, SetUpDoes DEF WorkUnitReopened, TypeOK
    <3>2. Report(Campaign) /\ Gate = target[Campaign] /\ result[Campaign] = "succeeded"
      BY <1>1, <2>2, <3>1, KernelDoes
    <3>3. pc[Campaign] = "reporting"
      BY <3>2 DEF Report
    <3>4. QED
      BY <1>1, <1>3, <3>2, <3>3 DEF GateInv
  <2>3. QED
    BY <2>1, <2>2
<1>6. ASSUME (pc[Campaign] = "reporting")', (target[Campaign] = Gate)',
             (result[Campaign] = "succeeded")'
      PROVE  Resolved \in Registered'
  <2>1. Resolved \in Registered
    BY <1>1, <1>6, WhatIsReported DEF OpenGate, GateInv
  <2>2. QED
    BY <1>3, <2>1
<1>7. QED
  BY <1>2, <1>4, <1>5, <1>6 DEF GateInv

\* Of the project only its status changes while no campaign drives it or sets it up, and
\* only to "failed".
LEMMA OutcomeStays ==
  ASSUME SampleInv, [SampleNext]_sampleVars, phase \notin {"setup", "driving"}
  PROVE  /\ status'[Geometry] = status[Geometry]
         /\ projectStatus' = projectStatus \/ FailProject
<1>1. TypeOK /\ Gate \in Units /\ Geometry \in Units /\ Gate # Geometry
  BY SampleAssumption DEF SampleInv, KernelInv, IInv
<1>2. QED
  BY <1>1, WhoChanges, SetUpDoes DEF WorkUnitReopened, TypeOK

LEMMA OutcomeKept ==
  ASSUME SampleInv, [SampleNext]_sampleVars
  PROVE  OutcomeInv'
<1>1. OutcomeInv /\ SampleTypes
  BY DEF SampleInv
<1>2. ASSUME UNCHANGED <<phase, loaded, row>>, ~FailProject,
             phase \notin {"setup", "driving"}
      PROVE  OutcomeInv'
  BY <1>1, <1>2, OutcomeStays DEF OutcomeInv, OutcomeIs
<1>3. ASSUME phase # "idle", row' = row, phase' \notin {"failing", "recording"}
      PROVE  OutcomeInv'
  BY <1>1, <1>3 DEF OutcomeInv
<1>4. CASE phase \in {"setup", "driving"}
  <2>1. row' = row /\ phase' \notin {"failing", "recording"}
    <3>1. CASE CampaignStep
      BY <1>4, <3>1 DEF CampaignStep, OpenSample, SetUp, SkipKernel, Drive, Launch,
        EndRun, BlockGate, ResolveFeedback, OpenGate, RunJob, RaiseFromExecutor,
        RegisterCandidate, EvaluateGate, ReturnVerdict, LoadOutcome, LoadFails, FailProject,
        RecordRow, Rerun, campaignVars
    <3>2. CASE HumanStep \/ HumanDies \/ CampaignDies \/ UNCHANGED sampleVars
      BY <1>4, <3>2 DEF HumanStep, Submit, Attach, Reopen, ReopenRaises, HumanDies, CampaignDies,
        Stop, campaignVars, sampleVars
    <3>3. QED
      BY <3>1, <3>2 DEF SampleNext
  <2>2. QED
    BY <1>3, <1>4, <2>1
<1>5. CASE phase \notin {"setup", "driving"}
  <2>1. CASE HumanStep \/ HumanDies \/ UNCHANGED sampleVars
    <3>1. UNCHANGED <<phase, loaded, row>>
      BY <2>1 DEF HumanStep, Submit, Attach, Reopen, ReopenRaises, HumanDies, campaignVars,
        sampleVars
    <3>2. CASE FailProject
      BY <3>1, <3>2 DEF FailProject
    <3>3. QED
      BY <1>2, <1>5, <3>1, <3>2
  <2>2. CASE CampaignDies
    BY <1>3, <2>2 DEF CampaignDies, Stop
  <2>3. CASE OpenSample \/ Rerun
    BY <1>1, <2>3 DEF OpenSample, Rerun, OutcomeInv
  <2>4. CASE LoadFails
    BY <1>3, <2>4 DEF LoadFails, Stop
  <2>5. CASE LoadOutcome
    <3>1. /\ phase = "summarising" /\ Geometry \in Added /\ UNCHANGED kernelVars /\ row' = row
          /\ loaded' = IF Gate \in Added /\ status[Gate] = "blocked"
                       THEN "blocked" ELSE status[Geometry]
          /\ phase' = IF status[Geometry] = "failed" /\ Active THEN "failing" ELSE "recording"
      BY <2>5 DEF LoadOutcome
    <3>2. UNCHANGED <<status, projectStatus>>
      BY <3>1 DEF kernelVars, projectVars, unitVars
    <3>3. loaded' \in Settling => loaded' = status[Geometry]
      BY <3>1 DEF Settling
    <3>4. status[Geometry] = "failed" => projectStatus \in {"active", "failed"}
      <4>1. CompletionIsSound /\ TypeOK /\ Geometry \in Added
        BY <3>1 DEF SampleInv, KernelInv, IInv
      <4>2. QED
        BY <1>1, <4>1 DEF CompletionIsSound, AllSucceeded, SampleTypes
    <3>5. QED
      BY <1>1, <3>1, <3>2, <3>3, <3>4 DEF OutcomeInv, OutcomeIs, Active
  <2>6. CASE FailProject
    <3>1. /\ phase = "failing" /\ phase' = "recording" /\ UNCHANGED <<loaded, row, status>>
          /\ projectStatus' = "failed"
      BY <2>6 DEF FailProject, ProjectAbandoned, unitVars
    <3>2. QED
      BY <1>1, <3>1 DEF OutcomeInv, OutcomeIs
  <2>7. CASE RecordRow
    <3>1. phase = "recording" /\ row' = loaded /\ phase' = "idle" /\ UNCHANGED <<status, projectStatus>>
      BY <2>7 DEF RecordRow, Stop, kernelVars, projectVars, unitVars
    <3>2. QED
      BY <1>1, <3>1 DEF OutcomeInv, OutcomeIs
  <2>8. QED
    BY <1>5, <2>1, <2>2, <2>3, <2>4, <2>5, <2>6, <2>7
       DEF SampleNext, CampaignStep, SetUp, SkipKernel, Drive, Launch, EndRun, BlockGate,
           ResolveFeedback, OpenGate, RunJob, RaiseFromExecutor, RegisterCandidate, EvaluateGate,
           ReturnVerdict, In
<1>6. QED
  BY <1>4, <1>5

-----------------------------------------------------------------------------
(* The theorems *)

\* Every state of a sample, whoever died or raised where, satisfies the inductive
\* invariant: that of the kernel, the order of the gate and the unit it guards, and what
\* the campaign has loaded and recorded.
THEOREM SampleInvariance == SampleSpec => []SampleInv
<1>1. SampleInv /\ [SampleNext]_sampleVars => SampleInv'
  BY SampleIsProject, TypesKept, GateKept, OutcomeKept DEF SampleInv
<1>2. QED
  BY <1>1, SampleStarts, PTL DEF SampleSpec

\* A sample changes its project by events of the project alone, so what is proved of
\* every step of a project holds of the campaign's and the human's.
THEOREM SampleRefinesProject == SampleSpec => [][Next]_vars
<1>1. SampleInv /\ [SampleNext]_sampleVars => [Next]_vars
  BY SampleIsProject
<1>2. QED
  BY <1>1, SampleInvariance, PTL DEF SampleSpec

\* No geometry is reconstructed before the human has answered: a unit that runs or has
\* succeeded rests on feedback resolved from at least one response.
THEOREM GeometryWaits == SampleSpec => []GeometryAwaitsHuman
<1>1. SampleInv => GeometryAwaitsHuman
  <2>1. SUFFICES ASSUME SampleInv, status[Geometry] \in {"running", "succeeded"}
                 PROVE  artifacts[Resolved].parents \intersect Responses # {}
    BY DEF GeometryAwaitsHuman
  <2>2. Geometry \in Units
    BY SampleAssumption
  <2>3. DependenciesHonoured /\ GateInv
    BY <2>1 DEF SampleInv, KernelInv, IInv
  <2>4. Gate \in definition[Geometry].dependencies
    BY <2>1, <2>2, <2>3 DEF GateInv, Added
  <2>5. status[Gate] = "succeeded"
    BY <2>1, <2>2, <2>3, <2>4 DEF DependenciesHonoured, DependenciesSucceeded
  <2>6. QED
    BY <2>3, <2>5 DEF GateInv
<1>2. QED
  BY <1>1, SampleInvariance, PTL

\* A row that settles a sample is the final status of its unit, and a failed row belongs
\* to a project that failed.
THEOREM RowsLast == SampleSpec => []RowsAreFinal
<1>1. SampleInv => RowsAreFinal
  BY DEF SampleInv, OutcomeInv, OutcomeIs, RowsAreFinal
<1>2. QED
  BY <1>1, SampleInvariance, PTL
=============================================================================
