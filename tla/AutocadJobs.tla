----------------------------- MODULE AutocadJobs -----------------------------
(***************************************************************************)
(* The AutoCAD tool server (src/src/cad_evoloop/backends/autocad and the   *)
(* base server of the skill): one loop answers requests, and each job has  *)
(* a thread of its own.  CommandJobManager drives the AutoCAD that is open *)
(* on the desktop; CoreConsoleJobManager and TopologyExportJobManager      *)
(* start a console process per job.  The tables are read and written under *)
(* their manager's lock, so one such block is one step.                    *)
(***************************************************************************)
EXTENDS Naturals, FiniteSets

CONSTANTS
  JobCap,     \* bound: how many jobs are started; they are numbered
  MaxHistory  \* max_history of every manager

ASSUME AutocadAssumption == JobCap \in Nat /\ MaxHistory \in Nat \ {0}

Managers == {"command", "core", "topology"}
JobIds == 1..JobCap
Terminal == {"succeeded", "failed", "cancelled", "timed_out"}
DirectCommand == 0  \* what autocad_send_command sends; the others are jobs

VARIABLES
  job,        \* of each job: its entry in the table and its cancel event
  worker,     \* of each job: where its thread is, and the end it is about to record
  process,    \* of each job: its console process
  executing,  \* the commands AutoCAD has taken since it was last idle
  server,     \* the request that is being handled
  published   \* the core jobs whose drawing is at output_path

autocadVars == <<job, worker, process, executing, server, published>>

NoJob ==
  [manager |-> "none", status |-> "none", listed |-> FALSE, cancelled |-> FALSE,
   window |-> FALSE, cancelFailed |-> FALSE]
NoWorker == [at |-> "none", end |-> "none", escaped |-> FALSE]
NoProcess == [state |-> "none", registered |-> FALSE, saved |-> FALSE]
NoRequestNow == [name |-> "none", job |-> DirectCommand]

AutocadInit ==
  /\ job = [j \in JobIds |-> NoJob]
  /\ worker = [j \in JobIds |-> NoWorker]
  /\ process = [j \in JobIds |-> NoProcess]
  /\ executing = {} /\ published = {}
  /\ server = NoRequestNow

Free == server = NoRequestNow
Ended(j) == job[j].status \in Terminal
OfManager(m) == {j \in JobIds : job[j].manager = m /\ job[j].listed}

\* _active_job_id: a job's end is recorded and the slot freed under one lock.
ActiveJobs(m) == {j \in OfManager(m) : ~Ended(j)}

-----------------------------------------------------------------------------
(* Requests *)

\* _trim_history_locked: the oldest ended jobs go as long as the table is too long.
TrimmedAt(m, new) ==
  {j \in OfManager(m) :
     /\ Ended(j)
     /\ Cardinality({k \in OfManager(m) : Ended(k) /\ k < j})
          < Cardinality(OfManager(m) \union {new}) - MaxHistory}

\* At most one command and one core job at a time; topology exports are not counted.
Accepts(m) == Free /\ (m \in {"command", "core"} => ActiveJobs(m) = {})

StartJob(m) ==
  /\ Accepts(m)
  /\ \E new \in JobIds :
       /\ job[new] = NoJob /\ \A j \in 1..(new - 1) : job[j] # NoJob
       /\ job' = [j \in JobIds |->
            IF j = new
              THEN [NoJob EXCEPT !.manager = m, !.status = "queued", !.listed = TRUE]
              ELSE IF j \in TrimmedAt(m, new) THEN [job[j] EXCEPT !.listed = FALSE] ELSE job[j]]
       /\ worker' = [worker EXCEPT ![new].at = "starting"]
  /\ UNCHANGED <<process, executing, server, published>>

\* Mutant of CancelJob: what has ended is cancelled too.
CancelAnyJob(j) ==
  /\ Free /\ job[j].listed
  /\ job' = [job EXCEPT ![j].cancelled = TRUE, ![j].status = "cancel_requested"]
  /\ server' = IF job[j].manager = "command"
                 THEN (IF job[j].window THEN [name |-> "escape", job |-> j] ELSE NoRequestNow)
                 ELSE IF process[j].registered
                        THEN [name |-> "terminate", job |-> j] ELSE NoRequestNow
  /\ UNCHANGED <<worker, process, executing, published>>

\* cancel, under the lock; the window or the process it saw is dealt with afterwards.
\* The window is taken from an ended command job as well.
CancelJob(j) ==
  /\ Free /\ job[j].listed
  /\ job' = IF Ended(j) THEN job
            ELSE [job EXCEPT ![j].cancelled = TRUE, ![j].status = "cancel_requested"]
  /\ server' = IF job[j].manager = "command"
                 THEN (IF job[j].window THEN [name |-> "escape", job |-> j] ELSE NoRequestNow)
                 ELSE IF ~Ended(j) /\ process[j].registered
                        THEN [name |-> "terminate", job |-> j] ELSE NoRequestNow
  /\ UNCHANGED <<worker, process, executing, published>>

\* AutoCAD may drop its commands on an Escape, or stay in one.
AfterEscape == {executing, {}}

\* post_escape_to_window: the Escape goes to the window, whatever runs there.
PostEscape ==
  /\ server.name = "escape"
  /\ \/ executing' \in AfterEscape /\ UNCHANGED job
     \/ job' = [job EXCEPT ![server.job].cancelFailed = TRUE] /\ UNCHANGED executing
  /\ server' = NoRequestNow
  /\ UNCHANGED <<worker, process, published>>

TerminateFromServer ==
  /\ server.name = "terminate"
  /\ process' = [process EXCEPT ![server.job].state = IF @ = "running" THEN "stopped" ELSE @]
  /\ server' = NoRequestNow
  /\ UNCHANGED <<job, worker, executing, published>>

\* has_active_job
BeginCheckpoint ==
  /\ Free /\ ActiveJobs("command") = {}
  /\ server' = [name |-> "checkpoint", job |-> DirectCommand]
  /\ UNCHANGED <<job, worker, process, executing, published>>

\* CMDNAMES tells whether AutoCAD is idle; then the drawing is saved.
ReadCommandNames ==
  /\ server.name = "checkpoint"
  /\ server' = IF executing = {} THEN [server EXCEPT !.name = "saving"] ELSE NoRequestNow
  /\ UNCHANGED <<job, worker, process, executing, published>>

SaveCheckpoint ==
  /\ server.name = "saving"
  /\ server' = NoRequestNow
  /\ UNCHANGED <<job, worker, process, executing, published>>

\* autocad_send_command of the base server: no job is looked at.
SendDirectly ==
  /\ Free
  /\ executing' = executing \union {DirectCommand}
  /\ server' = [name |-> "waiting", job |-> DirectCommand]
  /\ UNCHANGED <<job, worker, process, published>>

\* wait_until_idle, or its timeout.
StopWaiting ==
  /\ server.name = "waiting"
  /\ server' = NoRequestNow
  /\ UNCHANGED <<job, worker, process, executing, published>>

-----------------------------------------------------------------------------
(* The thread of a command job *)

At(j, m, label) == job[j].manager = m /\ worker[j].at = label
GoTo(j, label) == worker' = [worker EXCEPT ![j].at = label]
ToEnd(j, end) == worker' = [worker EXCEPT ![j].at = "ending", ![j].end = end]

RunCommand(j) ==
  /\ At(j, "command", "starting")
  /\ job' = [job EXCEPT ![j].status = IF job[j].cancelled THEN "cancel_requested" ELSE "running"]
  /\ GoTo(j, "connecting")
  /\ UNCHANGED <<process, executing, server, published>>

\* The document and its window are found.
Connect(j) ==
  /\ At(j, "command", "connecting")
  /\ job' = [job EXCEPT ![j].window = TRUE]
  /\ GoTo(j, "sending")
  /\ UNCHANGED <<process, executing, server, published>>

SendCommand(j) ==
  /\ At(j, "command", "sending")
  /\ executing' = executing \union {j}
  /\ GoTo(j, "polling")
  /\ UNCHANGED <<job, process, server, published>>

SendEscape(j) ==
  /\ At(j, "command", "polling") /\ job[j].cancelled /\ ~worker[j].escaped
  /\ executing' \in AfterEscape
  /\ worker' = [worker EXCEPT ![j].escaped = TRUE]
  /\ UNCHANGED <<job, process, server, published>>

\* AutoCAD is idle: the command ran, or was cancelled.
SeeIdle(j) ==
  /\ At(j, "command", "polling") /\ executing = {}
  /\ ToEnd(j, IF job[j].cancelled THEN "cancelled" ELSE "succeeded")
  /\ UNCHANGED <<job, process, executing, server, published>>

\* The deadline passes: an Escape is sent unless one was, and nobody looks further.
CommandTimesOut(j) ==
  /\ At(j, "command", "polling")
  /\ executing' \in IF worker[j].escaped THEN {executing} ELSE AfterEscape
  /\ ToEnd(j, "timed_out")
  /\ UNCHANGED <<job, process, server, published>>

\* A COM call raises; a cancelled job is then cancelled, unless its Escape failed.
CommandRaises(j) ==
  /\ \E label \in {"connecting", "sending", "polling"} : At(j, "command", label)
  /\ ToEnd(j, IF job[j].cancelled /\ ~job[j].cancelFailed THEN "cancelled" ELSE "failed")
  /\ UNCHANGED <<job, process, executing, server, published>>

-----------------------------------------------------------------------------
(* The thread of a console job *)

Console(j) == job[j].manager \in {"core", "topology"}
ConsoleAt(j, label) == Console(j) /\ worker[j].at = label

StartProcess(j) ==
  /\ ConsoleAt(j, "starting")
  /\ process' = [process EXCEPT ![j].state = "running"]
  /\ GoTo(j, "registering")
  /\ UNCHANGED <<job, executing, server, published>>

\* Under the lock; a request to cancel that came before is overwritten.
RegisterProcess(j) ==
  /\ ConsoleAt(j, "registering")
  /\ process' = [process EXCEPT ![j].registered = TRUE]
  /\ job' = [job EXCEPT ![j].status = "running"]
  /\ GoTo(j, "checking")
  /\ UNCHANGED <<executing, server, published>>

\* Mutant of CheckCancelled: the event is not looked at again.
CheckNothing(j) ==
  /\ ConsoleAt(j, "checking")
  /\ GoTo(j, "waiting")
  /\ UNCHANGED <<job, process, executing, server, published>>

CheckCancelled(j) ==
  /\ ConsoleAt(j, "checking")
  /\ process' = [process EXCEPT ![j].state =
       IF job[j].cancelled /\ @ = "running" THEN "stopped" ELSE @]
  /\ GoTo(j, "waiting")
  /\ UNCHANGED <<job, executing, server, published>>

\* The process comes to its own end, with its artifact or not; what a process that
\* returns an error has left is not looked at.
ProcessExits(j) ==
  /\ process[j].state = "running"
  /\ \E state \in {"done", "stopped"}, saved \in BOOLEAN :
       /\ state = "stopped" => ~saved
       /\ process' = [process EXCEPT ![j].state = state, ![j].saved = saved]
  /\ UNCHANGED <<job, worker, executing, server, published>>

\* communicate returns: a cancelled job is cancelled, and a good one has its artifact.
Collect(j) ==
  /\ ConsoleAt(j, "waiting") /\ process[j].state # "running"
  /\ IF job[j].cancelled THEN ToEnd(j, "cancelled")
     ELSE IF ~process[j].saved THEN ToEnd(j, "failed")
     ELSE GoTo(j, "publishing")
  /\ UNCHANGED <<job, process, executing, server, published>>

\* The timeout of communicate: terminate, then kill.
ConsoleTimesOut(j) ==
  /\ ConsoleAt(j, "waiting")
  /\ process' = [process EXCEPT ![j].state = IF @ = "running" THEN "stopped" ELSE @]
  /\ ToEnd(j, "timed_out")
  /\ UNCHANGED <<job, executing, server, published>>

\* The working drawing is copied to output_path; a topology export is read.
Publish(j) ==
  /\ ConsoleAt(j, "publishing")
  /\ published' = IF job[j].manager = "core" THEN published \union {j} ELSE published
  /\ ToEnd(j, "succeeded")
  /\ UNCHANGED <<job, process, executing, server>>

\* Before the process runs, or around the copy.
ConsoleRaises(j) ==
  /\ ConsoleAt(j, "starting") \/ ConsoleAt(j, "publishing")
  /\ published' \in {published} \union
       (IF At(j, "core", "publishing") THEN {published \union {j}} ELSE {})
  /\ ToEnd(j, IF job[j].cancelled THEN "cancelled" ELSE "failed")
  /\ UNCHANGED <<job, process, executing, server>>

\* The end is recorded under the lock and the slot is freed.
RecordEnd(j) ==
  /\ worker[j].at = "ending"
  /\ job' = [job EXCEPT ![j].status = worker[j].end]
  /\ process' = [process EXCEPT ![j] = NoProcess]
  /\ worker' = [worker EXCEPT ![j] = NoWorker]
  /\ UNCHANGED <<executing, server, published>>

-----------------------------------------------------------------------------

\* AutoCAD gets through what it was sent.
AutocadIdles ==
  /\ executing # {}
  /\ executing' = {}
  /\ UNCHANGED <<job, worker, process, server, published>>

ThreadStep(j) ==
  \/ RunCommand(j) \/ Connect(j) \/ SendCommand(j) \/ SendEscape(j) \/ SeeIdle(j)
  \/ CommandTimesOut(j) \/ StartProcess(j) \/ RegisterProcess(j) \/ CheckCancelled(j)
  \/ Collect(j) \/ ConsoleTimesOut(j) \/ Publish(j) \/ RecordEnd(j)

ThreadRaises(j) == CommandRaises(j) \/ ConsoleRaises(j)

AutocadNext ==
  \/ \E m \in Managers : StartJob(m)
  \/ \E j \in JobIds : CancelJob(j) \/ ThreadStep(j) \/ ThreadRaises(j) \/ ProcessExits(j)
  \/ PostEscape \/ TerminateFromServer \/ BeginCheckpoint \/ ReadCommandNames
  \/ SaveCheckpoint \/ SendDirectly \/ StopWaiting \/ AutocadIdles

AutocadSpec == AutocadInit /\ [][AutocadNext]_autocadVars

-----------------------------------------------------------------------------
(* Properties *)

\* A drawing is saved as a checkpoint only while no command can touch it: AutoCAD is
\* idle and no job's thread is about to send it something.
CheckpointIsQuiescent ==
  server.name = "saving" =>
    /\ executing = {}
    /\ \A j \in JobIds : job[j].manager = "command" => worker[j].at = "none"

\* A request to cancel reaches the console process, even if it arrives between the
\* start of the process and its entry in the table: nobody waits for a process that
\* runs on, unless the request is about to terminate it.
CancelReachesProcess ==
  \A j \in JobIds : job[j].cancelled /\ worker[j].at = "waiting" /\ process[j].state = "running"
    => server = [name |-> "terminate", job |-> j]

\* No command meets a checkpoint, and no process outlives the request to end it.
CommandsAreContained == CheckpointIsQuiescent /\ CancelReachesProcess

\* The end of a job is the last thing the table says of it.
EndsAreFinal ==
  [][\A j \in JobIds : Ended(j) => job'[j].status = job[j].status]_autocadVars

=============================================================================
