--------------------------- MODULE DetachedCampaign ---------------------------
(***************************************************************************)
(* One campaign directory: the starters and workers of                     *)
(* evaluation/detached_campaign.py with their shared runner-state.json and *)
(* command.json, and the campaign processes the workers run.  A campaign   *)
(* process is run_agent_geometry_campaign or run_geometry_campaign; both   *)
(* keep a manifest that may not change and a file of rows.  What happens    *)
(* within a sample is modelled by SampleProject and GeometryJob.           *)
(***************************************************************************)
EXTENDS Naturals, FiniteSets

CONSTANTS
  CampaignStarts,  \* bound: how often the campaign is started
  Samples,
  Configs,   \* what the arguments of a start say: model, budgets, mode, inputs; --max-jobs,
             \* --dry-run and the client's path, which no manifest names, are not among them
  Timeouts,  \* the --timeout of a start, for each call of the client
  Programs,  \* editions of the sources and of the environment a start runs in
  FailureLimit \* run_geometry_campaign gives up after so many: three in the code

ASSUME CampaignAssumption ==
  /\ CampaignStarts \in Nat /\ FailureLimit \in Nat
  /\ Configs \intersect {"absent", "torn"} = {}

VARIABLES
  driver,      \* "agent" or "geometry": the campaign that command.json starts
  runner,      \* runner-state.json
  commandFile, \* the runner_id in command.json
  starter,     \* of each start: how far start_detached_campaign is
  runnerWorker,      \* of each start: how far its run_worker is
  argv,        \* of each start: its arguments, and the program that it runs
  campaign,    \* of each start: its campaign process and what that knows
  manifest,    \* the campaign manifest on disk
  rowFile,     \* the rows on disk
  project,     \* of each sample: how its project (or job) stands
  alone        \* history: no two starts overlapped and no worker was killed alone

campaignVars ==
  <<driver, runner, commandFile, starter, runnerWorker, argv, campaign, manifest, rowFile,
    project, alone>>

StartIds == 1..CampaignStarts
NoRunner == [id |-> 0, status |-> "none", pid |-> FALSE]
Condition(config, timeout, program) ==
  [config |-> config, timeout |-> timeout, program |-> program]
NoFile == Condition("absent", "none", "none")
TornFile == Condition("torn", "none", "none")
NoRow == [status |-> "none", condition |-> NoFile]
NoRows == [s \in Samples |-> NoRow]
NoCampaign == [at |-> "none", rows |-> NoRows, failures |-> 0, code |-> 0, sample |-> "none"]

CampaignInit ==
  /\ driver \in {"agent", "geometry"}
  /\ runner = NoRunner /\ commandFile = 0
  /\ starter = [s \in StartIds |-> "idle"]
  /\ runnerWorker = [s \in StartIds |-> "none"]
  /\ argv \in [StartIds -> {Condition(k, t, p) : k \in Configs, t \in Timeouts, p \in Programs}]
  /\ campaign = [s \in StartIds |-> NoCampaign]
  /\ manifest = NoFile /\ rowFile = [torn |-> FALSE, rows |-> NoRows]
  /\ project = [s \in Samples |-> "open"]
  /\ alone = TRUE

-----------------------------------------------------------------------------
(* start_detached_campaign *)

WorkerAlive(w) == runnerWorker[w] \in {"waiting", "ready", "running", "finishing"}
Starting(s) == starter[s] \in {"checked", "commanded", "launched", "spawned"}

\* A runner is active if its state says so and the process of its pid exists.
RunnerActive ==
  runner.status \in {"launching", "running"} /\ runner.pid /\ WorkerAlive(runner.id)

MayStart(s) == starter[s] = "idle" /\ ~RunnerActive

\* Starts are numbered in the order in which they look.
CheckRunner(s) ==
  /\ starter[s] = "idle" /\ \A t \in 1..(s - 1) : starter[t] # "idle"
  /\ starter' = [starter EXCEPT ![s] = IF MayStart(s) THEN "checked" ELSE "raised"]
  /\ alone' = (alone /\ \A t \in StartIds : ~Starting(t))
  /\ UNCHANGED <<driver, runner, commandFile, runnerWorker, argv, campaign, manifest, rowFile, project>>

WriteCommand(s) ==
  /\ starter[s] = "checked"
  /\ commandFile' = s
  /\ starter' = [starter EXCEPT ![s] = "commanded"]
  /\ UNCHANGED <<driver, runner, runnerWorker, argv, campaign, manifest, rowFile, project, alone>>

WriteLaunching(s) ==
  /\ starter[s] = "commanded"
  /\ runner' = [id |-> s, status |-> "launching", pid |-> FALSE]
  /\ starter' = [starter EXCEPT ![s] = "launched"]
  /\ UNCHANGED <<driver, commandFile, runnerWorker, argv, campaign, manifest, rowFile, project, alone>>

SpawnWorker(s) ==
  /\ starter[s] = "launched"
  /\ runnerWorker' = [runnerWorker EXCEPT ![s] = "waiting"]
  /\ starter' = [starter EXCEPT ![s] = "spawned"]
  /\ UNCHANGED <<driver, runner, commandFile, argv, campaign, manifest, rowFile, project, alone>>

\* Whatever the file holds by now is overwritten.
WriteRunning(s) ==
  /\ starter[s] = "spawned"
  /\ runner' = [id |-> s, status |-> "running", pid |-> TRUE]
  /\ starter' = [starter EXCEPT ![s] = "done"]
  /\ UNCHANGED <<driver, commandFile, runnerWorker, argv, campaign, manifest, rowFile, project, alone>>

-----------------------------------------------------------------------------
(* run_worker *)

\* The starter wrote its last word.
IsMine(w) == runner.id = w /\ runner.pid

AwaitState(w) ==
  /\ runnerWorker[w] = "waiting" /\ IsMine(w)
  /\ runnerWorker' = [runnerWorker EXCEPT ![w] = IF commandFile = w THEN "ready" ELSE "exited"]
  /\ UNCHANGED <<driver, runner, commandFile, starter, argv, campaign, manifest, rowFile,
                 project, alone>>

\* A hundred looks were in vain.
AwaitFails(w) ==
  /\ runnerWorker[w] = "waiting"
  /\ runnerWorker' = [runnerWorker EXCEPT ![w] = "exited"]
  /\ UNCHANGED <<driver, runner, commandFile, starter, argv, campaign, manifest, rowFile,
                 project, alone>>

\* The state that is written is the one read before; the command starts.
RunCampaign(w) ==
  /\ runnerWorker[w] = "ready"
  /\ runner' = [id |-> w, status |-> "running", pid |-> TRUE]
  /\ runnerWorker' = [runnerWorker EXCEPT ![w] = "running"]
  /\ campaign' = [campaign EXCEPT ![w].at = "preflight"]
  /\ UNCHANGED <<driver, commandFile, starter, argv, manifest, rowFile, project, alone>>

\* The command returned; the state is read again.
CommandReturns(w) ==
  /\ runnerWorker[w] = "running" /\ campaign[w].at = "ended"
  /\ runnerWorker' = [runnerWorker EXCEPT ![w] = IF runner.id = w THEN "finishing" ELSE "exited"]
  /\ UNCHANGED <<driver, runner, commandFile, starter, argv, campaign, manifest, rowFile,
                 project, alone>>

WriteEnd(w) ==
  /\ runnerWorker[w] = "finishing"
  /\ runner' = [id |-> w, status |-> IF campaign[w].code = 0 THEN "completed" ELSE "failed",
                pid |-> TRUE]
  /\ runnerWorker' = [runnerWorker EXCEPT ![w] = "exited"]
  /\ UNCHANGED <<driver, commandFile, starter, argv, campaign, manifest, rowFile, project, alone>>

-----------------------------------------------------------------------------
(* The campaign process *)

EndWith(c, code) == campaign' = [campaign EXCEPT ![c].at = "ended", ![c].code = code]
Live(c) == campaign[c].at \notin {"none", "ended"}

\* Arguments, environment, selection, oracle or feedback do not do: nothing is written.
RefuseCampaign(c) ==
  /\ campaign[c].at = "preflight"
  /\ EndWith(c, 1)
  /\ UNCHANGED <<driver, runner, commandFile, starter, runnerWorker, argv, manifest, rowFile,
                 project, alone>>

\* Mutant of ManifestAgrees: an existing manifest is not compared.
ManifestIsThere(c) == manifest # TornFile

\* What a condition says of the program: the hashes of the sources, the packages, the
\* interpreter and the client.
ProgramOf(condition) == condition.program

\* Only the manifest of run_agent_geometry_campaign names the timeout and the program.
AgentManifest(condition) ==
  Condition(condition.config, condition.timeout, ProgramOf(condition))
GeometryManifest(condition) == Condition(condition.config, "any", "any")
Manifest(condition) ==
  IF driver = "agent" THEN AgentManifest(condition) ELSE GeometryManifest(condition)

ManifestAgrees(c) == manifest \in {NoFile, Manifest(argv[c])}

\* The manifest is made, or it must be the one on disk.
BindManifest(c) ==
  /\ campaign[c].at = "preflight"
  /\ IF ManifestAgrees(c)
       THEN /\ manifest' = IF manifest = NoFile THEN Manifest(argv[c]) ELSE manifest
            /\ campaign' = [campaign EXCEPT ![c].at = "planning"]
       ELSE EndWith(c, 1) /\ UNCHANGED manifest
  /\ UNCHANGED <<driver, runner, commandFile, starter, runnerWorker, argv, rowFile, project, alone>>

\* Mutant of ReadRows: a campaign begins with no rows.
ReadNoRows(c) == NoRows

\* The rows are read once, before the first sample.
ReadRows(c) == rowFile.rows

\* A dry run ends with the plan; a file of rows that was cut short raises.
LoadResults(c) ==
  /\ campaign[c].at = "planning"
  /\ \/ campaign' = [campaign EXCEPT ![c].at = IF rowFile.torn THEN "ended" ELSE "choosing",
                                     ![c].code = IF rowFile.torn THEN 1 ELSE 0,
                                     ![c].rows = ReadRows(c)]
     \/ EndWith(c, 0)
  /\ UNCHANGED <<driver, runner, commandFile, starter, runnerWorker, argv, manifest, rowFile,
                 project, alone>>

\* What the rows that were read say is done: any row, or only one that is terminal.
Done(c) ==
  {s \in Samples : campaign[c].rows[s].status \in
     (IF driver = "geometry" THEN {"succeeded", "failed", "no_agent"} ELSE {"succeeded", "failed"})}

\* The project of a sample runs until it rests; what is over stays as it is.  A job of
\* run_geometry_campaign is over when it returns.
RunSample(c, s) ==
  /\ campaign[c].at = "choosing" /\ s \notin Done(c)
  /\ \E end \in IF driver = "geometry" THEN {"succeeded", "failed", "no_agent"}
                ELSE {"succeeded", "failed", "blocked"} :
       /\ project[s] \notin {"open", "blocked"} => end = project[s]
       /\ project' = [project EXCEPT ![s] = end]
  /\ campaign' = [campaign EXCEPT ![c].at = "row", ![c].sample = s]
  /\ UNCHANGED <<driver, runner, commandFile, starter, runnerWorker, argv, manifest, rowFile, alone>>

\* The rows that were read, with the sample's replaced, become the file; too many failures
\* of the agent loop in a row end run_geometry_campaign.
RecordRow(c) ==
  /\ campaign[c].at = "row"
  /\ LET s == campaign[c].sample
         row == [status |-> project[s], condition |-> argv[c]]
         rows == [campaign[c].rows EXCEPT ![s] = row]
         failures == IF row.status = "no_agent" THEN campaign[c].failures + 1 ELSE 0
     IN  /\ rowFile' = [torn |-> FALSE, rows |-> rows]
         /\ campaign' = [campaign EXCEPT
              ![c].rows = rows, ![c].sample = "none", ![c].failures = failures,
              ![c].at = IF failures >= FailureLimit THEN "ended" ELSE "choosing",
              ![c].code = IF failures >= FailureLimit THEN 1 ELSE 0]
  /\ UNCHANGED <<driver, runner, commandFile, starter, runnerWorker, argv, manifest, project, alone>>

\* Every sample was scheduled, or max_jobs of them; the summary is written.
EndCampaignProcess(c) ==
  /\ campaign[c].at = "choosing"
  /\ EndWith(c, 0)
  /\ UNCHANGED <<driver, runner, commandFile, starter, runnerWorker, argv, manifest, rowFile,
                 project, alone>>

\* A sample raises: nothing is recorded.
SampleRaises(c) ==
  /\ campaign[c].at = "row"
  /\ EndWith(c, 1)
  /\ UNCHANGED <<driver, runner, commandFile, starter, runnerWorker, argv, manifest, rowFile,
                 project, alone>>

-----------------------------------------------------------------------------
(* Deaths *)

StarterDies(s) ==
  /\ Starting(s)
  /\ starter' = [starter EXCEPT ![s] = "dead"]
  /\ UNCHANGED <<driver, runner, commandFile, runnerWorker, argv, campaign, manifest, rowFile,
                 project, alone>>

\* Its campaign process goes on.
WorkerDies(w) ==
  /\ WorkerAlive(w)
  /\ runnerWorker' = [runnerWorker EXCEPT ![w] = "exited"]
  /\ alone' = (alone /\ ~Live(w))
  /\ UNCHANGED <<driver, runner, commandFile, starter, argv, campaign, manifest, rowFile, project>>

\* run_geometry_campaign writes its files in place.
CampaignDies(c) ==
  /\ Live(c)
  /\ EndWith(c, 1)
  /\ \/ UNCHANGED <<manifest, rowFile>>
     \/ /\ driver = "geometry" /\ campaign[c].at = "preflight" /\ manifest = NoFile
        /\ manifest' = TornFile /\ UNCHANGED rowFile
     \/ /\ driver = "geometry" /\ campaign[c].at = "row"
        /\ rowFile' = [rowFile EXCEPT !.torn = TRUE] /\ UNCHANGED manifest
  /\ UNCHANGED <<driver, runner, commandFile, starter, runnerWorker, argv, project, alone>>

HostRestarts ==
  /\ \E s \in StartIds : Starting(s) \/ WorkerAlive(s) \/ Live(s)
  /\ starter' = [s \in StartIds |-> IF Starting(s) THEN "dead" ELSE starter[s]]
  /\ runnerWorker' = [s \in StartIds |-> IF WorkerAlive(s) THEN "exited" ELSE runnerWorker[s]]
  /\ campaign' = [s \in StartIds |->
       IF Live(s) THEN [campaign[s] EXCEPT !.at = "ended", !.code = 1] ELSE campaign[s]]
  /\ UNCHANGED <<driver, runner, commandFile, argv, manifest, rowFile, project, alone>>

CampaignNext ==
  \/ \E s \in StartIds :
       \/ CheckRunner(s) \/ WriteCommand(s) \/ WriteLaunching(s) \/ SpawnWorker(s)
       \/ WriteRunning(s) \/ StarterDies(s)
       \/ AwaitState(s) \/ AwaitFails(s) \/ RunCampaign(s) \/ CommandReturns(s)
       \/ WriteEnd(s) \/ WorkerDies(s)
       \/ RefuseCampaign(s) \/ BindManifest(s) \/ LoadResults(s)
       \/ RecordRow(s) \/ EndCampaignProcess(s) \/ SampleRaises(s) \/ CampaignDies(s)
       \/ \E sample \in Samples : RunSample(s, sample)
  \/ HostRestarts

CampaignSpec == CampaignInit /\ [][CampaignNext]_campaignVars

-----------------------------------------------------------------------------
(* Properties *)

\* As long as starts do not overlap and no worker is killed without its campaign, only
\* one process at a time runs the campaign, whoever dies in between.
OneCampaignAtATime ==
  alone => Cardinality({c \in StartIds : Live(c)}) <= 1

\* The end a runner wrote is its last word: neither its starter nor anyone else of the
\* same start says afterwards that it runs, whatever overlaps.
RunnerEndIsFinal ==
  [][runner.status \in {"completed", "failed"} /\ runner'.id = runner.id =>
       runner' = runner]_campaignVars

\* All rows were made under the configuration of the manifest, those of the agent's campaign
\* also with its timeout and by its program.  As long as starts do not overlap; and rows of
\* run_geometry_campaign that were made with different timeouts do stand side by side.
RowsAreOfOneConfiguration ==
  alone => \A s \in Samples :
    rowFile.rows[s] # NoRow => Manifest(rowFile.rows[s].condition) = manifest

\* As long as starts do not overlap, one process at a time, under one configuration, makes
\* the rows of a campaign.
CampaignIsOne == OneCampaignAtATime /\ RowsAreOfOneConfiguration

\* A row is never lost, and one that says success or failure never changes, however
\* often the campaign dies and is started again.
RowsAreKept ==
  [][alone => \A s \in Samples :
       /\ rowFile.rows[s] # NoRow => rowFile'.rows[s] # NoRow
       /\ rowFile.rows[s].status \in {"succeeded", "failed"} =>
            rowFile'.rows[s] = rowFile.rows[s]]_campaignVars

\* What a campaign has recorded lasts: the end of a runner and the rows.
CampaignRecordsLast == RunnerEndIsFinal /\ RowsAreKept

=============================================================================
