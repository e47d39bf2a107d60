---------------------------- MODULE TaskEpisode ----------------------------
(***************************************************************************)
(* One post-training task, one episode of it and what is reported of it:   *)
(* bundle.py, environment.py, smoke_mcp.py, verifier.py, build.py,         *)
(* review.py and results.py (src/src/cad_evoloop/posttrain) and their      *)
(* runner (src/evals/posttrain/run_kimi_smoke.py).                         *)
(*                                                                         *)
(* A file's hash is its content here.  The tools are served by a process   *)
(* that the model's client starts and that outlives a client which leaves  *)
(* by itself; the action's container outlives both.  Every process may die *)
(* between two writes, and in the middle of a line of events.jsonl.        *)
(***************************************************************************)
EXTENDS Naturals, Sequences, SequencesExt, FiniteSets

CONSTANTS
  ToolBudget,   \* calls a process that serves the tools answers (40 in the code)
  ServerStarts, \* bound: such processes of an episode
  TamperCap     \* bound: files changed by hands other than the program's

ASSUME EpisodeAssumption ==
  ToolBudget \in Nat \ {0} /\ ServerStarts \in Nat \ {0} /\ TamperCap \in Nat

VARIABLES
  driver,      \* "client" (run_one) or "acceptance" (accept_task)
  bundle,      \* version of the task in manifest.json and in the assets, 0 if absent
  episode,     \* episode.json: status, version of the task, checkpoint submitted
  input,       \* version of the task in input/
  work,        \* work/answer.json
  snapshots,   \* receipts/: what each checkpoint holds
  events,      \* whole lines of events.jsonl
  torn,        \* whether a line of it was cut short
  server,      \* where the process that serves the tools is
  calls,       \* calls it has answered
  servers,     \* history: such processes so far
  container,   \* whether an action's container is running
  client,      \* "none", "running", "left" or "killed"
  runner,      \* where the runner is
  record,      \* run.json, or the acceptance record: its status and what passed
  grading,     \* private-verdict.json
  exported,    \* the run in review-data.json
  tampered     \* history: files changed so far

taskVars == <<driver, bundle, input, work, snapshots, events, torn, episode>>
serverVars == <<server, calls, servers, container>>
runnerVars == <<client, runner, record, grading>>
episodeVars == <<taskVars, serverVars, runnerVars, exported, tampered>>

Contents == {"first", "second", "unlisted"}
Drivers == {"client", "acceptance"}
NoEpisode == [status |-> "absent", task |-> 0, submission |-> 0]
NoFile == [status |-> "absent", passed |-> "open"]
NoExport == [status |-> "absent", passed |-> "open", answer |-> "none"]

EpisodeInit ==
  /\ driver \in Drivers
  /\ bundle = [manifest |-> 0, assets |-> 0]
  /\ episode = NoEpisode /\ input = 0 /\ work = "none"
  /\ snapshots = <<>> /\ events = <<>> /\ torn = FALSE
  /\ server = "off" /\ calls = 0 /\ servers = 0 /\ container = FALSE
  /\ client = "none" /\ runner = "start" /\ record = NoFile
  /\ grading = [passed |-> "none", of |-> 0, content |-> "none", task |-> 0]
  /\ exported = NoExport
  /\ tampered = 0
-----------------------------------------------------------------------------
(* The task *)

\* build_task: what the task is made of, then its seal.
WriteAssets ==
  /\ bundle.assets = 0
  /\ bundle' = [bundle EXCEPT !.assets = 1]
  /\ UNCHANGED <<driver, episode, input, work, snapshots, events, torn>>
  /\ UNCHANGED <<serverVars, runnerVars, exported, tampered>>

SealBundle ==
  /\ bundle = [manifest |-> 0, assets |-> 1]
  /\ bundle' = [bundle EXCEPT !.manifest = 1]
  /\ UNCHANGED <<driver, episode, input, work, snapshots, events, torn>>
  /\ UNCHANGED <<serverVars, runnerVars, exported, tampered>>

BundleIsValid == bundle.manifest # 0 /\ bundle.assets = bundle.manifest

\* check_answer and grade_files: what an answer is worth for a version of the task.  One
\* that no alias lists, or of a task without a label, is left to people.
Judged(version, content) ==
  CASE content = "unlisted" -> "open"
    [] content = <<"first", "second">>[version] -> "yes"
    [] OTHER -> "no"

-----------------------------------------------------------------------------
(* The episode's environment *)

EpisodeActive == episode.status = "active"
Recorded(type) == {n \in 1..Len(snapshots) + Len(events) : <<type, n>> \in Range(events)}
AppendEvent(type, n) == ~torn /\ events' = Append(events, <<type, n>>)

\* Episode.reset on a valid bundle and a new directory.
Reset ==
  /\ runner = "start"
  /\ BundleIsValid
  /\ episode' = [status |-> "active", task |-> bundle.manifest, submission |-> 0]
  /\ input' = bundle.assets
  /\ AppendEvent("reset", 0)
  /\ IF driver = "client"
     THEN runner' = "preparing" /\ UNCHANGED server
     ELSE runner' = "accepting" /\ server' = "idle"
  /\ UNCHANGED <<driver, bundle, work, snapshots, torn, calls, servers, container>>
  /\ UNCHANGED <<client, record, grading, exported, tampered>>

\* The reference run observes, concludes and submits the reference, in its own process.
MayCall(name) ==
  /\ server = "idle"
  /\ IF driver = "client"
     THEN calls < ToolBudget
     ELSE calls < 3 /\ name = <<"observe", "conclude", "submit">>[calls + 1]

Observe ==
  /\ MayCall("observe")
  /\ EpisodeActive
  /\ AppendEvent("observation", Cardinality(Recorded("observation")) + 1)
  /\ calls' = calls + 1
  /\ UNCHANGED <<driver, bundle, episode, input, work, snapshots, torn, server, servers>>
  /\ UNCHANGED <<container, runnerVars, exported, tampered>>

ConcludeCall ==
  /\ MayCall("conclude")
  /\ EpisodeActive
  /\ \E n \in Recorded("observation") : AppendEvent("conclusion", n)
  /\ calls' = calls + 1
  /\ UNCHANGED <<driver, bundle, episode, input, work, snapshots, torn, server, servers>>
  /\ UNCHANGED <<container, runnerVars, exported, tampered>>

\* A call that raises is answered with an error.
CallRaises ==
  /\ driver = "client"
  /\ MayCall("any")
  /\ ~EpisodeActive \/ torn
  /\ calls' = calls + 1
  /\ UNCHANGED <<taskVars, server, servers, container, runnerVars, exported, tampered>>

\* Episode.execute: the action works on work/ in a container of its own.  The lines of
\* actions are left out: nothing reads them.
BeginAction ==
  /\ driver = "client"
  /\ MayCall("execute")
  /\ EpisodeActive
  /\ ~torn
  /\ server' = "acting" /\ container' = TRUE /\ calls' = calls + 1
  /\ UNCHANGED <<driver, bundle, episode, input, work, snapshots, events, torn, servers>>
  /\ UNCHANGED <<runnerVars, exported, tampered>>

ActionWrites ==
  /\ container
  /\ work' = "unlisted"
  /\ UNCHANGED <<driver, bundle, episode, input, snapshots, events, torn>>
  /\ UNCHANGED <<serverVars, runnerVars, exported, tampered>>

\* It ends or its time is over: its container is removed either way.
ActionReturns ==
  /\ server = "acting"
  /\ server' = "idle" /\ container' = FALSE
  /\ UNCHANGED <<driver, bundle, episode, input, work, snapshots, events, torn, calls, servers>>
  /\ UNCHANGED <<runnerVars, exported, tampered>>

\* A container nobody waits for ends by itself.
ContainerEnds ==
  /\ container /\ server # "acting"
  /\ container' = FALSE
  /\ UNCHANGED <<taskVars, server, calls, servers, runnerVars, exported, tampered>>

-----------------------------------------------------------------------------
(* Submission *)

WriteAnswer ==
  /\ MayCall("submit")
  /\ EpisodeActive
  /\ IF driver = "client" THEN work' \in {"first", "second"} ELSE work' = "first"
  /\ server' = "answered" /\ calls' = calls + 1
  /\ UNCHANGED <<driver, bundle, episode, input, snapshots, events, torn, servers, container>>
  /\ UNCHANGED <<runnerVars, exported, tampered>>

\* A torn line is met when the checkpoint is recorded: its copies are left behind.
CopyCheckpoint ==
  /\ server = "answered"
  /\ snapshots' = Append(snapshots, work)
  /\ server' = IF torn THEN "idle" ELSE "copied"
  /\ UNCHANGED <<driver, bundle, episode, input, work, events, torn, calls, servers, container>>
  /\ UNCHANGED <<runnerVars, exported, tampered>>

RecordCheckpoint ==
  /\ server = "copied"
  /\ AppendEvent("checkpoint", Len(snapshots))
  /\ server' = "checkpointed"
  /\ UNCHANGED <<driver, bundle, episode, input, work, snapshots, torn, calls, servers, container>>
  /\ UNCHANGED <<runnerVars, exported, tampered>>

RecordSubmitted ==
  /\ server = "checkpointed"
  /\ AppendEvent("submitted", Len(snapshots))
  /\ server' = "submitted"
  /\ UNCHANGED <<driver, bundle, episode, input, work, snapshots, torn, calls, servers, container>>
  /\ UNCHANGED <<runnerVars, exported, tampered>>

WriteSubmission ==
  /\ server = "submitted"
  /\ episode' = [episode EXCEPT !.status = "submitted", !.submission = Len(snapshots)]
  /\ server' = "idle"
  /\ UNCHANGED <<driver, bundle, input, work, snapshots, events, torn, calls, servers, container>>
  /\ UNCHANGED <<runnerVars, exported, tampered>>

-----------------------------------------------------------------------------
(* The processes *)

\* serve(): the client starts a process for the tools, and another if it is gone.
StartServer ==
  /\ client = "running" /\ server = "off" /\ servers < ServerStarts
  /\ server' = "idle" /\ calls' = 0 /\ servers' = servers + 1
  /\ UNCHANGED <<taskVars, container, runnerVars, exported, tampered>>

\* It stops at the end of its input, after the call it is in.
ServerStops ==
  /\ driver = "client" /\ client # "running" /\ server = "idle"
  /\ server' = "off"
  /\ UNCHANGED <<taskVars, calls, servers, container, runnerVars, exported, tampered>>

\* A death may cut the line short that the process was appending.
CutShort ==
  /\ torn' \in {torn, TRUE}
  /\ UNCHANGED <<driver, bundle, input, work, snapshots, events, episode>>

ServerDies ==
  /\ driver = "client" /\ server # "off"
  /\ server' = "off"
  /\ CutShort
  /\ UNCHANGED <<calls, servers, container, runnerVars, exported, tampered>>

ClientLeaves ==
  /\ client = "running"
  /\ client' = "left"
  /\ UNCHANGED <<taskVars, serverVars, runner, record, grading, exported, tampered>>

\* run_one writes what it is about to do and starts the client.
StartClient ==
  /\ runner = "preparing"
  /\ record' = [record EXCEPT !.status = "running"]
  /\ client' = "running" /\ runner' = "waiting"
  /\ UNCHANGED <<taskVars, serverVars, grading, exported, tampered>>

\* The time is over: the client is killed with the processes it has started.
KillClient ==
  /\ runner = "waiting" /\ client = "running"
  /\ client' = "killed" /\ server' = "off"
  /\ CutShort
  /\ UNCHANGED <<calls, servers, container, runner, record, grading, exported, tampered>>

RunnerDies ==
  /\ runner \notin {"start", "done", "dead"}
  /\ runner' = "dead"
  /\ IF driver = "acceptance" THEN server' = "off" /\ CutShort ELSE UNCHANGED <<server, taskVars>>
  /\ UNCHANGED <<calls, servers, container, client, record, grading, exported, tampered>>

-----------------------------------------------------------------------------
(* Grading *)

\* The state is read when the client is gone, whatever the tools' process still does.
ReadOutcome ==
  /\ \/ runner = "waiting" /\ client \in {"left", "killed"}
     \/ runner = "accepting" /\ server = "idle" /\ calls = 3
  /\ runner' = IF episode.status = "submitted" THEN "judging" ELSE "concluding"
  /\ UNCHANGED <<taskVars, serverVars, client, record, grading, exported, tampered>>

\* Mutant of TaskIsBound: the version bound at the reset is not compared.
TaskIsThere == bundle.manifest # 0

TaskIsBound == bundle.manifest = episode.task

\* grade_episode's checks: a file that was changed differs from its hash.
SubmissionIsSound ==
  /\ episode.status = "submitted"
  /\ TaskIsBound
  /\ input = episode.task
  /\ snapshots[episode.submission] # "tampered"
  /\ BundleIsValid

\* The task and the submission are taken to stay as they are from the checks to the verdict.
Grade ==
  /\ runner = "judging"
  /\ IF SubmissionIsSound
     THEN LET content == snapshots[episode.submission]
          IN  /\ grading' = [passed |-> Judged(bundle.assets, content),
                              of |-> episode.submission, content |-> content, task |-> episode.task]
              /\ runner' = "recording"
     ELSE runner' = "dead" /\ UNCHANGED grading
  /\ UNCHANGED <<taskVars, serverVars, client, record, exported, tampered>>

RecordVerification ==
  /\ runner = "recording"
  /\ \/ AppendEvent("verification", episode.submission) /\ runner' = "concluding"
     \/ torn /\ runner' = "dead" /\ UNCHANGED events
  /\ UNCHANGED <<driver, bundle, episode, input, work, snapshots, torn>>
  /\ UNCHANGED <<serverVars, client, record, grading, exported, tampered>>

\* What run.json says in the end; the acceptance record takes the reference for mechanical
\* proof and repeats the reset.
OutcomeOfRun ==
  CASE grading.passed = "none" ->
         [status |-> IF client = "killed" THEN "timeout" ELSE "no_submission", passed |-> "open"]
    [] grading.passed = "open" -> [status |-> "answer_review_required", passed |-> "open"]
    [] OTHER -> [status |-> "graded", passed |-> grading.passed]

\* run_one counts the events first, where a torn line raises; accept_task resets the task
\* once more.
MayConclude == IF driver = "client" THEN ~torn ELSE BundleIsValid

WriteOutcome ==
  /\ runner = "concluding"
  /\ IF MayConclude
     THEN record' = OutcomeOfRun /\ runner' = "done"
     ELSE runner' = "dead" /\ UNCHANGED record
  /\ UNCHANGED <<taskVars, serverVars, client, grading, exported, tampered>>

-----------------------------------------------------------------------------
(* Reports *)

\* export_drawing_review: the run as it is now, with the answer of its submission.
ExportRun ==
  /\ driver = "client" /\ exported = NoExport
  /\ record # NoFile
  /\ BundleIsValid /\ TaskIsBound
  /\ episode.status = "submitted" => snapshots[episode.submission] # "tampered"
  /\ ~torn
  /\ exported' = [status |-> record.status, passed |-> record.passed,
                  answer |-> IF episode.status = "submitted" THEN snapshots[episode.submission]
                             ELSE "none"]
  /\ UNCHANGED <<taskVars, serverVars, runnerVars, tampered>>

RawOutcome ==
  CASE exported.status = "timeout" -> "timeout"
    [] exported.passed = "yes" -> "agree"
    [] exported.passed = "no" -> "disagree"
    [] OTHER -> "pending"

Overrides == {"override_pass", "override_fail"}

\* collect(): what the row says with the overrides of people and the assessment, made of
\* an answer, that the configuration has; nothing where it raises.  People go before an
\* assessment and settle nothing where they disagree.
Collected(people, assessment, assessed) ==
  IF \/ people # {} /\ exported.answer = "none"
     \/ assessment # "none" /\ (assessed # exported.answer \/ RawOutcome # "pending")
  THEN "raises"
  ELSE IF people # {}
  THEN CASE people = {"override_pass"} -> "agree"
         [] people = {"override_fail"} -> "disagree"
         [] OTHER -> "pending"
  ELSE IF assessment # "none" THEN assessment ELSE RawOutcome

-----------------------------------------------------------------------------
(* Other hands *)

\* Somebody changes an asset, puts another version of the task in its place, or changes
\* what the episode was given or has kept.
Tamper ==
  /\ tampered < TamperCap /\ tampered' = tampered + 1
  /\ \/ /\ bundle.manifest # 0
        /\ bundle' \in {[bundle EXCEPT !.assets = 2], [manifest |-> 2, assets |-> 2]}
        /\ UNCHANGED <<input, snapshots>>
     \/ /\ input # 0 /\ input' = 2
        /\ UNCHANGED <<bundle, snapshots>>
     \/ /\ \E k \in DOMAIN snapshots : snapshots' = [snapshots EXCEPT ![k] = "tampered"]
        /\ server = "idle" \/ server = "off"
        /\ UNCHANGED <<bundle, input>>
  /\ UNCHANGED <<driver, episode, work, events, torn, serverVars, runnerVars, exported>>

EpisodeNext ==
  \/ WriteAssets \/ SealBundle \/ Reset
  \/ Observe \/ ConcludeCall \/ CallRaises
  \/ BeginAction \/ ActionWrites \/ ActionReturns \/ ContainerEnds
  \/ WriteAnswer \/ CopyCheckpoint \/ RecordCheckpoint \/ RecordSubmitted \/ WriteSubmission
  \/ StartServer \/ ServerStops \/ ServerDies
  \/ ClientLeaves \/ StartClient \/ KillClient \/ RunnerDies
  \/ ReadOutcome \/ Grade \/ RecordVerification \/ WriteOutcome
  \/ ExportRun \/ Tamper

EpisodeSpec == EpisodeInit /\ [][EpisodeNext]_episodeVars

-----------------------------------------------------------------------------
(* Properties *)

Before(first, second) ==
  \E i, j \in DOMAIN events : i < j /\ events[i] = first /\ events[j] = second

\* A submission and a conclusion have what they refer to before them in the record.
EventsAreGrounded ==
  /\ episode.status = "submitted" =>
       Before(<<"checkpoint", episode.submission>>, <<"submitted", episode.submission>>)
  /\ \A n \in Recorded("conclusion") : Before(<<"observation", n>>, <<"conclusion", n>>)

\* A verdict is about the submission as it was made, not about what is in work/ or was
\* changed since, and about the version of the task the agent was given.
VerdictIsEarned ==
  grading.passed # "none" =>
    /\ episode.status = "submitted" /\ grading.of = episode.submission
    /\ snapshots[grading.of] \in {grading.content, "tampered"}
    /\ grading.content # "tampered" /\ grading.task = episode.task
    /\ grading.passed = Judged(episode.task, grading.content)

\* What run.json says is backed, and a run that timed out is not submitted later.
RecordIsBacked ==
  /\ record.status = "graded" => record.passed = grading.passed
  /\ record.status = "timeout" => episode.status # "submitted"

\* A row shows the answer that was judged; whoever settles it, it is of an answer that was
\* submitted.
RowIsBacked ==
  /\ RawOutcome \in {"agree", "disagree"} =>
       /\ RawOutcome = (IF grading.passed = "yes" THEN "agree" ELSE "disagree")
       /\ exported.answer = grading.content
  /\ \A people \in SUBSET Overrides, assessment \in {"none", "agree", "disagree"} :
       Collected(people, assessment, "second") \in {"agree", "disagree"} =>
         exported.answer # "none"

\* An episode is graded for what its agent submitted, of the task it was given, and what
\* is reported of it is that verdict.
EpisodeIsHonest == EventsAreGrounded /\ VerdictIsEarned /\ RecordIsBacked /\ RowIsBacked

\* What an episode has recorded, its submission, its verdict and its end are never changed.
EpisodeLasts ==
  [][ /\ IsPrefix(events, events')
      /\ episode.status = "submitted" => episode' = episode
      /\ grading.passed # "none" => grading' = grading
      /\ record.status \notin {"absent", "running"} => record' = record ]_episodeVars
=============================================================================
