------------------------------ MODULE PaperRun ------------------------------
(***************************************************************************)
(* A run folder of the paper experiments (evals/Paper_filmcooling): the     *)
(* scripts that start one autonomous agent in it, and the one that resumes  *)
(* an interrupted Kimi conversation in the same folder.  A runner is one    *)
(* process of a script; it may die anywhere, and the agent it has started   *)
(* then works on.  The scripts are started by hand: the model starts none   *)
(* while another or its agent is at work, which the code does not prevent.  *)
(***************************************************************************)
EXTENDS Naturals, Sequences, FiniteSets, SequencesExt

CONSTANT Runners      \* processes of the scripts: 1..Runners, in any order
ASSUME RunnersAssumption == Runners \in Nat \ {0}

\* "kimi", "cae": the Kimi scripts; "package", "minimal": the Codex script's prompt modes.
PaperScripts == {"kimi", "cae", "package", "minimal"}
KimiScripts == {"kimi", "cae"}

\* What a script looks for in the folder besides the final message: a drawing outside
\* mcp/jobs, a working drawing inside, a mesh, or the other files a package names.
OutputsOf(kind) ==
  CASE kind = "kimi" -> {"dwg"}
    [] kind = "cae" -> {"dwg", "mesh"}
    [] kind = "package" -> {"dwg", "report"}
    [] OTHER -> {"dwg", "jobDwg"}

VARIABLES
  script,       \* which script made the folder
  folder,       \* it exists
  runJson,      \* run.json: state and the numbers of its resumptions
  resultJson,   \* the status in result.json
  files,        \* what is there of the message and the outputs
  indexed,      \* session_index.jsonl names a conversation
  events,       \* who wrote the events file of the start (0) and of each resumption
  runner,       \* the processes and the agents they started
  stragglers,   \* parts of an agent's process tree outlived its timeout
  unreported      \* a runner died between run.json and result.json

paperVars == <<script, folder, runJson, resultJson, files, indexed, events, runner,
               stragglers, unreported>>

NoRunJson == [state |-> "none", resumptions |-> <<>>]
NoRunner == [at |-> "off", number |-> 0, record |-> NoRunJson, agent |-> "none",
             text |-> FALSE]

RunnerIds == 1..Runners
Numbers == 0..Runners
RunnerIsLive(h) == runner[h].at \notin {"off", "gone"}
Working(h) == RunnerIsLive(h) \/ runner[h].agent = "running"

PaperInit ==
  /\ script \in PaperScripts
  /\ folder = FALSE /\ runJson = NoRunJson /\ resultJson = "none" /\ files = {}
  /\ indexed = FALSE /\ events = [n \in Numbers |-> 0]
  /\ runner = [h \in RunnerIds |-> NoRunner]
  /\ stragglers = FALSE /\ unreported = FALSE

RunnerGoes(h, to) == runner' = [runner EXCEPT ![h].at = to]
\* Of a runner that is gone only the agent it has left matters.
RunnerLeaves(h) ==
  runner' = [runner EXCEPT ![h] =
    [NoRunner EXCEPT !.at = "gone",
                     !.agent = IF runner[h].agent = "running" THEN "running" ELSE "none"]]
NobodyWorks == \A h \in RunnerIds : ~Working(h)

-----------------------------------------------------------------------------
(* Starting and resuming *)

\* The folder is made, which fails if it exists, and filled.
MakeFolder(h) ==
  /\ runner[h].at = "off" /\ NobodyWorks /\ ~folder
  /\ folder' = TRUE
  /\ RunnerGoes(h, "staging")
  /\ UNCHANGED <<script, runJson, resultJson, files, indexed, events, stragglers,
                 unreported>>

\* run.json says that the run is under way.
WriteStart(h) ==
  /\ runner[h].at = "staging"
  /\ runJson' = [NoRunJson EXCEPT !.state = "running"]
  /\ runner' = [runner EXCEPT ![h].at = "launching", ![h].record = runJson']
  /\ UNCHANGED <<script, folder, resultJson, files, indexed, events, stragglers,
                 unreported>>

\* Mutant of NextResumeNumber: the highest number itself.
NextResumeNumberAgain == Max({1} \union {n \in Numbers \ {0} : events[n] # 0})

\* One more than the highest number an events file has.
NextResumeNumber == 1 + Max({0} \union {n \in Numbers \ {0} : events[n] # 0})

\* A resumption needs a conversation in the index of the run's Kimi home, which the Codex
\* script does not make; it asks nothing of the state of the run.
ChooseResumption(h) ==
  /\ runner[h].at = "off" /\ NobodyWorks /\ folder /\ indexed
  /\ NextResumeNumber \in Numbers
  /\ runner' = [runner EXCEPT ![h].at = "resuming", ![h].number = NextResumeNumber]
  /\ UNCHANGED <<script, folder, runJson, resultJson, files, indexed, events,
                 stragglers, unreported>>

\* Mutant of Resumed: the state is left to the end of the resumption.
ResumedSilently(record, number) ==
  [record EXCEPT !.resumptions = Append(@, number)]

\* run.json with one resumption more.
Resumed(record, number) ==
  [state |-> "running", resumptions |-> Append(record.resumptions, number)]

\* run.json is read, which raises if there is none, and written back.
WriteResumption(h) ==
  /\ runner[h].at = "resuming"
  /\ IF runJson.state = "none"
     THEN RunnerLeaves(h) /\ UNCHANGED runJson
     ELSE /\ runJson' = Resumed(runJson, runner[h].number)
          /\ runner' = [runner EXCEPT ![h].at = "launching", ![h].record = runJson']
  /\ UNCHANGED <<script, folder, resultJson, files, indexed, events, stragglers,
                 unreported>>

-----------------------------------------------------------------------------
(* The agent *)

\* The events file is opened, which empties it, and the agent is started or cannot be.
LaunchAgent(h) ==
  /\ runner[h].at = "launching"
  /\ events' = [events EXCEPT ![runner[h].number] = h]
  /\ \/ runner' = [runner EXCEPT ![h].at = "waiting", ![h].agent = "running"]
     \/ runner' = [runner EXCEPT ![h].at = "closing", ![h].record.state = "execution_error"]
  /\ UNCHANGED <<script, folder, runJson, resultJson, files, indexed, stragglers,
                 unreported>>

\* The agent opens its conversation, saves a file or removes one; the message is not its
\* to write.
AgentWorks(h) ==
  /\ runner[h].agent = "running"
  /\ \/ indexed' = (script \in KimiScripts) /\ UNCHANGED files
     \/ /\ \E f \in OutputsOf(script) :
             files' = IF f \in files THEN files \ {f} ELSE files \union {f}
        /\ UNCHANGED indexed
  /\ UNCHANGED <<script, folder, runJson, resultJson, events, runner, stragglers,
                 unreported>>

\* It ends by itself; Codex writes the final message on its own.
AgentEnds(h) ==
  /\ runner[h].agent = "running"
  /\ \E end \in {"ok", "failed"}, text \in BOOLEAN :
       /\ runner' = IF RunnerIsLive(h)
                    THEN [runner EXCEPT ![h].agent = end, ![h].text = text]
                    ELSE [runner EXCEPT ![h].agent = "none"]
       /\ files' = IF text /\ script \notin KimiScripts THEN files \union {"final"} ELSE files
  /\ UNCHANGED <<script, folder, runJson, resultJson, indexed, events, stragglers,
                 unreported>>

\* Its time is over.  The Codex runner ends the whole process tree, the Kimi scripts only
\* the process they have started.
AgentTimesOut(h) ==
  /\ runner[h].at = "waiting" /\ runner[h].agent = "running"
  /\ \E text \in BOOLEAN :
       runner' = [runner EXCEPT ![h].agent = "timed_out", ![h].text = text]
  /\ stragglers' \in {stragglers, (script \in KimiScripts)}
  /\ UNCHANGED <<script, folder, runJson, resultJson, files, indexed, events,
                 unreported>>

\* A console job of an agent that was ended is finished all the same.
StragglerSaves ==
  /\ stragglers /\ stragglers' = FALSE
  /\ files' = files \union {"dwg"}
  /\ UNCHANGED <<script, folder, runJson, resultJson, indexed, events, runner,
                 unreported>>

-----------------------------------------------------------------------------
(* The end *)

\* The events are read and the folder is looked through; any exception on the way makes
\* the run an error.
Closes(h, outputsAreThere) ==
  /\ runner[h].at = "waiting" /\ runner[h].agent # "running"
  /\ \E state \in {IF runner[h].agent = "ok" /\ outputsAreThere
                   THEN "completed" ELSE "incomplete", "execution_error"} :
       runner' = [runner EXCEPT ![h].at = "closing", ![h].record.state = state]
  /\ UNCHANGED <<script, folder, runJson, resultJson, indexed, events, stragglers,
                 unreported>>

\* The last message of the assistant is saved.
SaveFinal(h) == files' = IF runner[h].text THEN files \union {"final"} ELSE files

\* The first run of the Kimi script wants a message and a drawing.
CloseKimi(h) ==
  /\ script = "kimi" /\ runner[h].number = 0
  /\ Closes(h, runner[h].text /\ "dwg" \in files)
  /\ SaveFinal(h)

\* With Fluent it wants a mesh, too.
CloseCae(h) ==
  /\ script = "cae" /\ runner[h].number = 0
  /\ Closes(h, runner[h].text /\ {"dwg", "mesh"} \subseteq files)
  /\ SaveFinal(h)

\* A resumption asks for what the first Kimi script asks for, whichever made the folder.
CloseResumption(h) ==
  /\ runner[h].number > 0
  /\ Closes(h, runner[h].text /\ "dwg" \in files)
  /\ SaveFinal(h)

\* The Codex script wants every file of the package, or the message file and any drawing,
\* be it the working copy of a console job.
CloseCodex(h) ==
  /\ script \notin KimiScripts
  /\ Closes(h, IF script = "package" THEN {"dwg", "report"} \subseteq files
               ELSE "final" \in files /\ files \intersect {"dwg", "jobDwg"} # {})
  /\ UNCHANGED files

\* run.json is replaced by the runner's own copy.
WriteEndOfRun(h) ==
  /\ runner[h].at = "closing"
  /\ runJson' = runner[h].record
  /\ RunnerGoes(h, "reporting")
  /\ UNCHANGED <<script, folder, resultJson, files, indexed, events, stragglers,
                 unreported>>

\* result.json, with the inventory of the folder.
WriteResult(h) ==
  /\ runner[h].at = "reporting"
  /\ resultJson' = CASE runner[h].record.state = "completed" ->
                          "artifacts_ready_for_human_review"
                     [] OTHER -> runner[h].record.state
  /\ RunnerLeaves(h)
  /\ UNCHANGED <<script, folder, runJson, files, indexed, events, stragglers,
                 unreported>>

\* A runner dies, or raises where nothing catches it; its agent does not notice.
RunnerDies(h) ==
  /\ RunnerIsLive(h)
  /\ RunnerLeaves(h)
  /\ unreported' = (unreported \/ runner[h].at = "reporting")
  /\ UNCHANGED <<script, folder, runJson, resultJson, files, indexed, events,
                 stragglers>>

PaperNext ==
  \/ \E h \in RunnerIds :
       \/ MakeFolder(h) \/ WriteStart(h) \/ ChooseResumption(h) \/ WriteResumption(h)
       \/ LaunchAgent(h) \/ AgentWorks(h) \/ AgentEnds(h) \/ AgentTimesOut(h)
       \/ CloseKimi(h) \/ CloseCae(h) \/ CloseResumption(h) \/ CloseCodex(h)
       \/ WriteEndOfRun(h) \/ WriteResult(h) \/ RunnerDies(h)
  \/ StragglerSaves

PaperSpec == PaperInit /\ [][PaperNext]_paperVars

-----------------------------------------------------------------------------
(* Properties *)

\* A run that is recorded as completed has its message and its outputs, however often it
\* was resumed and whatever a resumption that never ended did to them.
CompletionIsBacked ==
  runJson.state = "completed" =>
    CASE script = "package" -> {"dwg", "report"} \subseteq files
      [] script = "minimal" -> "final" \in files /\ files \intersect {"dwg", "jobDwg"} # {}
      [] OTHER ->
           /\ {"final", "dwg"} \subseteq files
           /\ script = "cae" /\ runJson.resumptions = <<>> => "mesh" \in files

\* result.json says so too, unless its writer died before it.
ResultFollowsRun ==
  ~unreported /\ runJson.state = "completed" =>
    \/ resultJson = "artifacts_ready_for_human_review"
    \/ \E h \in RunnerIds : runner[h].at = "reporting"

\* Every resumption that has events is in run.json.
ResumptionsAreRecorded ==
  \A n \in Numbers \ {0} : events[n] # 0 => n \in Range(runJson.resumptions)

\* What run.json says of a run is so.
PaperRunIsAccounted == CompletionIsBacked /\ ResultFollowsRun /\ ResumptionsAreRecorded

\* The events of a conversation are evidence: a resumption never overwrites those of
\* another, whoever died before.
EventsAreKept ==
  [][\A n \in Numbers : events[n] # 0 => events'[n] = events[n]]_paperVars
=============================================================================
