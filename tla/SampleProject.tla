---------------------------- MODULE SampleProject ---------------------------
(***************************************************************************)
(* One sample of the agent geometry campaign                               *)
(* (src/src/cad_evoloop/evaluation/agent_geometry_campaign.py): the        *)
(* campaign process sets a project up, recovers it, runs its kernel and    *)
(* records a result row; a human answers the clarification gate            *)
(* (agent/executors/human_clarification.py, evaluation/review_feedback.py) *)
(* in a process of their own.  The sample carries human feedback routed to *)
(* human_clarification, the only route with two work units; the other      *)
(* routes leave out the gate.                                              *)
(***************************************************************************)
EXTENDS ProjectKernel

CONSTANTS
  Campaign,       \* the campaign process, the one kernel of the project
  Gate,           \* the work unit "human-clarification"
  Geometry,       \* the work unit "geometry-reconstruction"
  Contract, Plan, \* "geometry-strict-gate-v1" and the plan that names it
  Evidence,       \* the artifact "input-1"
  Feedback,       \* the artifact "human-feedback"
  Resolved,       \* the artifact "human-feedback-resolved"
  Responses,      \* the artifacts "human-clarification-response-..."
  Candidates,     \* the artifacts "geometry-reconstruction-<attempt>-candidate"
  DesignEvidence, HumanFeedback, ClarificationResponse, CadModel,  \* artifact kinds
  MayRaise        \* bound: the units whose executor may raise

MaxAttempts == 2    \* of both units
Inputs == {Evidence, Feedback}

ASSUME SampleAssumption ==
  /\ Kernels = {Campaign} /\ Units = {Gate, Geometry} /\ Gate # Geometry
  /\ Contracts = {Contract} /\ Plans = {Plan}
  /\ Candidates \in [1..MaxAttempts -> Artifacts]
  /\ MayRaise \subseteq Units
  /\ Inputs \union {Resolved} \union Responses \subseteq Artifacts
  /\ Resolved \notin Inputs \union Responses \union {Candidates[n] : n \in 1..MaxAttempts}
  /\ {DesignEvidence, HumanFeedback, ClarificationResponse, CadModel} \subseteq Kinds
  /\ MaxAttempts \in AttemptLimits

VARIABLES
  directory,   \* the project directory exists
  phase,       \* where the campaign process is
  stage,       \* how many of the set-up events it has appended
  known,       \* the responses its executor was shown
  job,         \* what run_geometry_job returned: "none", "passed" or "failed"
  loaded,      \* the status of the geometry unit it loaded after run()
  row,         \* work_unit_status of the sample in agent-results.json
  human,       \* where the human's submission is
  reply,       \* the response being submitted
  reopened     \* the idempotency keys of work_unit.reopened that are in the log

campaignVars == <<directory, phase, stage, known, job, loaded, row>>
humanVars == <<human, reply, reopened>>
sampleVars == <<kernelVars, campaignVars, humanVars>>

SampleInit ==
  /\ Init /\ KernelInit
  /\ directory = FALSE
  /\ phase = "idle"
  /\ stage = 0
  /\ known = {}
  /\ job = "none"
  /\ loaded = "none"
  /\ row = "none"
  /\ human = "idle"
  /\ reply = None
  /\ reopened = {}

Settling == {"succeeded", "failed"}

\* The campaign process stops; the directory and the row are what it leaves behind.
Stop(next) ==
  /\ phase' = next
  /\ stage' = 0
  /\ known' = {}
  /\ job' = "none"
  /\ loaded' = "none"
  /\ UNCHANGED directory

-----------------------------------------------------------------------------
(* _create_sample_project *)

\* A directory that exists is taken for a project that was set up.
OpenSample ==
  /\ phase = "idle"
  /\ row \notin Settling
  /\ directory' = TRUE
  /\ phase' = IF directory THEN "driving" ELSE "setup"
  /\ UNCHANGED <<kernelVars, stage, known, job, loaded, row, humanVars>>

SetupEvent ==
  \/ stage = 0 /\ ProjectCreated
  \/ stage = 1 /\ ArtifactRegistered(Evidence, DesignEvidence, None, {})
  \/ stage = 2 /\ ArtifactRegistered(Feedback, HumanFeedback, None, {})
  \/ stage = 3 /\ PlanRegistered(Plan, None)
  \/ stage = 4 /\ ContractRegistered(Contract)
  \/ stage = 5 /\ WorkUnitAdded(Gate, {}, None, Plan, Inputs, MaxAttempts)
  \/ stage = 6 /\ WorkUnitAdded(Geometry, {Gate}, Contract, Plan, Inputs, MaxAttempts)

SetUp ==
  /\ phase = "setup"
  /\ SetupEvent
  /\ stage' = stage + 1
  /\ phase' = IF stage = 6 THEN "driving" ELSE "setup"
  /\ UNCHANGED <<localVars, historyVars, directory, known, job, loaded, row, humanVars>>

-----------------------------------------------------------------------------
(* recover_interrupted and run *)

\* A project whose set-up died before its first event has nothing to recover or run; if
\* events.jsonl is missing too, the load raises already here.
SkipKernel ==
  /\ phase = "driving"
  /\ pc[Campaign] = "off"
  /\ projectStatus = "none"
  /\ phase' = "summarising"
  /\ UNCHANGED <<kernelVars, directory, stage, known, job, loaded, row, humanVars>>

Drive ==
  /\ phase = "driving"
  /\ \/ Boot(Campaign) \/ Interrupt(Campaign) \/ Recovered(Campaign)
     \/ Schedule(Campaign) \/ ScheduleCompletion(Campaign)
     \/ Report(Campaign)
  /\ UNCHANGED <<campaignVars, humanVars>>

\* The executor is handed the state that the start event returned.
Launch ==
  /\ phase = "driving"
  /\ Start(Campaign)
  /\ known' = Responses \intersect Registered
  /\ job' = "none"
  /\ UNCHANGED <<directory, phase, stage, loaded, row, humanVars>>

\* run() returns.  It does not raise: the campaign is the only one to report, and its
\* executors evaluate the gate before they return.
EndRun ==
  /\ phase = "driving"
  /\ Finish(Campaign) \/ Complete(Campaign)
  /\ phase' = "summarising"
  /\ UNCHANGED <<directory, stage, known, job, loaded, row, humanVars>>

-----------------------------------------------------------------------------
(* The executors *)

In(unit) ==
  /\ phase = "driving"
  /\ pc[Campaign] = "executing"
  /\ target[Campaign] = unit

\* HumanClarificationExecutor: without a response the gate blocks, ...
BlockGate ==
  /\ In(Gate)
  /\ known = {}
  /\ ReturnWith(Campaign, "blocked")
  /\ UNCHANGED <<campaignVars, humanVars>>

\* ... with one the resolved feedback is registered, unless it already was, ...
ResolveFeedback ==
  /\ In(Gate)
  /\ known # {}
  /\ ArtifactRegistered(Resolved, HumanFeedback, Gate, {Feedback} \union known)
  /\ UNCHANGED <<localVars, historyVars, campaignVars, humanVars>>

\* Mutant of OpenGate: the gate opens before the resolution is registered.
OpenGateEarly ==
  /\ In(Gate)
  /\ known # {}
  /\ ReturnWith(Campaign, "succeeded")
  /\ UNCHANGED <<campaignVars, humanVars>>

\* ... and the gate opens.
OpenGate ==
  /\ In(Gate)
  /\ known # {}
  /\ Resolved \in Registered
  /\ ReturnWith(Campaign, "succeeded")
  /\ UNCHANGED <<campaignVars, humanVars>>

\* GeometryCampaignExecutor: the reconstruction job returns, ...
RunJob ==
  /\ In(Geometry)
  /\ job = "none"
  /\ job' \in {"passed", "failed"}
  /\ UNCHANGED <<kernelVars, directory, phase, stage, known, loaded, row, humanVars>>

\* ... or it raises, like any other call an executor makes, ...
RaiseFromExecutor ==
  /\ \E unit \in MayRaise : In(unit)
  /\ ReturnWith(Campaign, RaisedOutcome(Campaign))
  /\ UNCHANGED <<campaignVars, humanVars>>

Candidate == Candidates[run[Campaign]]
Evaluated == gate[Geometry].execution = run[Campaign]

\* ... its files are registered under the attempt's name, a failed job's if they exist, ...
RegisterCandidate ==
  /\ In(Geometry)
  /\ job # "none" /\ ~Evaluated
  /\ ArtifactRegistered(Candidate, CadModel, Geometry, Inputs \union {Resolved})
  /\ UNCHANGED <<localVars, historyVars, campaignVars, humanVars>>

\* ... the gate is evaluated and the verdict reported.
EvaluateGate ==
  /\ In(Geometry)
  /\ job # "none" /\ ~Evaluated
  /\ job = "passed" => Candidate \in Registered
  /\ ContractEvaluated(Geometry, run[Campaign], job = "passed")
  /\ UNCHANGED <<localVars, historyVars, campaignVars, humanVars>>

ReturnVerdict ==
  /\ In(Geometry)
  /\ job # "none" /\ Evaluated
  /\ ReturnWith(Campaign, IF job = "passed" THEN "succeeded" ELSE "failed")
  /\ UNCHANGED <<campaignVars, humanVars>>

-----------------------------------------------------------------------------
(* The result row *)

\* Mutant of LoadOutcome: the project of a failed unit is left open.
LoadOutcomeOnly ==
  /\ phase = "summarising"
  /\ Geometry \in Added
  /\ loaded' = status[Geometry]
  /\ phase' = "recording"
  /\ UNCHANGED <<kernelVars, directory, stage, known, job, row, humanVars>>

LoadOutcome ==
  /\ phase = "summarising"
  /\ Geometry \in Added
  /\ loaded' = IF Gate \in Added /\ status[Gate] = "blocked"
               THEN "blocked" ELSE status[Geometry]
  /\ phase' = IF status[Geometry] = "failed" /\ Active THEN "failing" ELSE "recording"
  /\ UNCHANGED <<kernelVars, directory, stage, known, job, row, humanVars>>

\* state["work_units"]["geometry-reconstruction"] raises KeyError.
LoadFails ==
  /\ phase = "summarising"
  /\ Geometry \notin Added
  /\ Stop("broken")
  /\ UNCHANGED <<kernelVars, row, humanVars>>

FailProject ==
  /\ phase = "failing"
  /\ ProjectAbandoned("failed")
  /\ phase' = "recording"
  /\ UNCHANGED <<localVars, historyVars, directory, stage, known, job, loaded, row, humanVars>>

RecordRow ==
  /\ phase = "recording"
  /\ row' = loaded
  /\ Stop("idle")
  /\ UNCHANGED <<kernelVars, humanVars>>

\* The campaign is run again after it raised.
Rerun ==
  /\ phase = "broken"
  /\ phase' = "idle"
  /\ UNCHANGED <<kernelVars, directory, stage, known, job, loaded, row, humanVars>>

-----------------------------------------------------------------------------
(* submit_human_clarification *)

Submit ==
  /\ human \in {"idle", "refused"}
  /\ Gate \in Added /\ status[Gate] = "blocked"
  /\ \E response \in Responses : reply' = response
  /\ human' = "attaching"
  /\ UNCHANGED <<kernelVars, campaignVars, reopened>>

\* Attaching the same response again is answered from the log.
Attach ==
  /\ human = "attaching"
  /\ \/ ArtifactRegistered(reply, ClarificationResponse, Gate, {Feedback})
     \/ reply \in Registered /\ UNCHANGED projectVars
  /\ human' = "attached"
  /\ UNCHANGED <<localVars, historyVars, campaignVars, reply, reopened>>

\* Mutant of Reopen: the response is attached and the gate stays as it is.
ReopenNothing ==
  /\ human = "attached"
  /\ human' = "idle"
  /\ reply' = None
  /\ UNCHANGED <<kernelVars, campaignVars, reopened>>

\* The gate is reopened without additional attempts, once per response.
Reopen ==
  /\ human = "attached"
  /\ \/ /\ reply \notin reopened
        /\ WorkUnitReopened(Gate, 0)
        /\ reopened' = reopened \union {reply}
     \/ reply \in reopened /\ UNCHANGED <<projectVars, reopened>>
  /\ human' = "idle"
  /\ reply' = None
  /\ UNCHANGED <<localVars, historyVars, campaignVars>>

ReopenRaises ==
  /\ human = "attached"
  /\ reply \notin reopened
  /\ ~(Active /\ status[Gate] \in {"blocked", "failed", "cancelled"} /\ ~Exhausted(Gate))
  /\ human' = "refused"
  /\ reply' = None
  /\ UNCHANGED <<kernelVars, campaignVars, reopened>>

-----------------------------------------------------------------------------
(* Faults, and the whole *)

CampaignDies ==
  /\ phase \notin {"idle", "broken"}
  /\ crashes < CrashCap
  /\ crashes' = crashes + 1
  /\ Exit(Campaign)
  /\ Stop("idle")
  /\ UNCHANGED <<projectVars, interrupted, delivered, interventions, row, humanVars>>

HumanDies ==
  /\ human \in {"attaching", "attached"}
  /\ crashes < CrashCap
  /\ crashes' = crashes + 1
  /\ human' = "idle"
  /\ reply' = None
  /\ UNCHANGED <<projectVars, localVars, interrupted, delivered, interventions,
                 campaignVars, reopened>>

CampaignStep ==
  \/ OpenSample \/ SetUp
  \/ SkipKernel \/ Drive \/ Launch \/ EndRun
  \/ BlockGate \/ ResolveFeedback \/ OpenGate
  \/ RunJob \/ RaiseFromExecutor \/ RegisterCandidate \/ EvaluateGate \/ ReturnVerdict
  \/ LoadOutcome \/ LoadFails \/ FailProject \/ RecordRow \/ Rerun

HumanStep == Submit \/ Attach \/ Reopen \/ ReopenRaises

SampleNext == CampaignStep \/ HumanStep \/ CampaignDies \/ HumanDies

SampleSpec == SampleInit /\ [][SampleNext]_sampleVars

\* The campaign is run until the sample is settled, and the human answers in the end.
FairSampleSpec ==
  SampleSpec /\ WF_sampleVars(CampaignStep) /\ WF_sampleVars(HumanStep)

-----------------------------------------------------------------------------
(* Properties *)

\* No geometry is reconstructed before the human has answered: whoever died where, a unit
\* that runs or succeeded rests on feedback resolved from at least one response.
GeometryAwaitsHuman ==
  status[Geometry] \in {"running", "succeeded"} =>
    artifacts[Resolved].parents \intersect Responses # {}

\* A sample that is not scheduled any more is settled: its row is the final status of the
\* unit, and a failed row belongs to a failed project.
RowsAreFinal ==
  row \in Settling =>
    /\ status[Geometry] = row
    /\ row = "failed" => projectStatus = "failed"

\* Out of the campaign's reach: the set-up was cut short, or the gate used up its attempts.
NeedsOperator ==
  \/ phase = "broken"
  \/ status[Gate] \in {"blocked", "failed"} /\ Exhausted(Gate)

\* Whoever dies or raises, every sample is settled in the end unless it falls into one of
\* the two states that only an operator can mend.
SampleSettles == <>(row \in Settling \/ NeedsOperator)

\* docs: the project blocks until a response is attached, then resumes.
AttachedResponseResumes == human # "refused"
=============================================================================
