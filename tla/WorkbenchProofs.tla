--------------------------- MODULE WorkbenchProofs ---------------------------
(***************************************************************************)
(* Proofs about the five modules that MCWorkbench instantiates and about    *)
(* their composition.  The AutoCAD jobs: for any number of jobs and any     *)
(* length of the history, commands are contained and ends are final.  The   *)
(* review workbench: for any settings, that is any reviewers, attempts and  *)
(* number of editions, and for any number of presentations and reviews, the *)
(* ledger is evidence and drafts are kept.  The detached campaign: for any  *)
(* number of starts, samples, configurations and programs, and deaths       *)
(* anywhere, it is one campaign.  The search: for any finite set of         *)
(* features its verdict is exact.  The conversations of a job: for any      *)
(* features and any number of turns, actions and calls, a mode is what it   *)
(* says.                                                                    *)
(***************************************************************************)
EXTENDS MCWorkbench, FiniteSetTheorems, WellFoundedInduction, TLAPS

-----------------------------------------------------------------------------
(* The AutoCAD jobs: types and the invariant *)

JobStatuses == {"none", "queued", "running", "cancel_requested"} \union Terminal
JobEntries ==
  [manager : Managers \union {"none"}, status : JobStatuses,
   listed : BOOLEAN, cancelled : BOOLEAN, window : BOOLEAN, cancelFailed : BOOLEAN]
WorkerPlaces ==
  {"none", "starting", "connecting", "sending", "polling", "registering", "checking", "waiting",
   "publishing", "ending"}
Workers == [at : WorkerPlaces, end : Terminal \union {"none"}, escaped : BOOLEAN]
ProcessStates == {"none", "running", "done", "stopped"}
Processes == [state : ProcessStates, registered : BOOLEAN, saved : BOOLEAN]
Requests ==
  [name : {"escape", "terminate"}, job : JobIds]
    \union [name : {"none", "checkpoint", "saving", "waiting"}, job : {DirectCommand}]

AutocadTypes ==
  /\ job \in [JobIds -> JobEntries]
  /\ worker \in [JobIds -> Workers]
  /\ process \in [JobIds -> Processes]
  /\ server \in Requests

\* A job with a thread is in the table and has not ended, and its thread is where one of
\* its kind can be.
ThreadsInv ==
  \A j \in JobIds : worker[j].at # "none" =>
    /\ job[j].listed /\ ~Ended(j) /\ job[j].manager # "none"
    /\ worker[j].at \in {"connecting", "sending", "polling"} => job[j].manager = "command"
    /\ worker[j].at \in {"registering", "checking", "waiting", "publishing"} => Console(j)
    /\ worker[j].at \in {"checking", "waiting"} => process[j].registered

\* While the server makes a checkpoint, no command job has a thread.
CheckpointInv ==
  server.name \in {"checkpoint", "saving"} =>
    \A j \in JobIds : job[j].manager = "command" => worker[j].at = "none"

AutocadInv ==
  AutocadTypes /\ ThreadsInv /\ CheckpointInv /\ CommandsAreContained

-----------------------------------------------------------------------------
(* The AutoCAD jobs: what a step may do to a job *)

\* A step of the thread of a job, of its process or of the server that is about one job.
OnlyJob(j) ==
  /\ AutocadTypes'
  /\ \A k \in JobIds : k # j => job'[k] = job[k] /\ worker'[k] = worker[k] /\ process'[k] = process[k]

LEMMA GoToEffect ==
  ASSUME AutocadTypes, NEW j \in JobIds, NEW label \in WorkerPlaces, GoTo(j, label)
  PROVE  /\ worker' \in [JobIds -> Workers] /\ worker'[j].at = label
         /\ \A k \in JobIds : k # j => worker'[k] = worker[k]
BY DEF AutocadTypes, GoTo, Workers

LEMMA ToEndEffect ==
  ASSUME AutocadTypes, NEW j \in JobIds, NEW end \in Terminal, ToEnd(j, end)
  PROVE  /\ worker' \in [JobIds -> Workers] /\ worker'[j].at = "ending"
         /\ \A k \in JobIds : k # j => worker'[k] = worker[k]
<1>1. worker \in [JobIds -> Workers] /\ "ending" \in WorkerPlaces
  BY DEF AutocadTypes, WorkerPlaces
<1>2. worker' = [worker EXCEPT ![j].at = "ending", ![j].end = end]
  BY DEF ToEnd
<1>3. QED
  BY <1>1, <1>2 DEF Workers

LEMMA StatusEffect ==
  ASSUME job \in [JobIds -> JobEntries], NEW j \in JobIds, NEW status \in JobStatuses,
         job' = [job EXCEPT ![j].status = status]
  PROVE  /\ job' \in [JobIds -> JobEntries] /\ job'[j].status = status
         /\ job'[j].manager = job[j].manager /\ job'[j].listed = job[j].listed
         /\ job'[j].cancelled = job[j].cancelled
         /\ \A k \in JobIds : k # j => job'[k] = job[k]
BY DEF JobEntries

LEMMA WindowEffect ==
  ASSUME job \in [JobIds -> JobEntries], NEW j \in JobIds,
         job' = [job EXCEPT ![j].window = TRUE]
  PROVE  /\ job' \in [JobIds -> JobEntries] /\ job'[j].status = job[j].status
         /\ job'[j].manager = job[j].manager /\ job'[j].listed = job[j].listed
         /\ job'[j].cancelled = job[j].cancelled
         /\ \A k \in JobIds : k # j => job'[k] = job[k]
BY DEF JobEntries

LEMMA StateEffect ==
  ASSUME process \in [JobIds -> Processes], NEW j \in JobIds, NEW state \in ProcessStates,
         process' = [process EXCEPT ![j].state = state]
  PROVE  /\ process' \in [JobIds -> Processes] /\ process'[j].state = state
         /\ process'[j].registered = process[j].registered
         /\ \A k \in JobIds : k # j => process'[k] = process[k]
BY DEF Processes

LEMMA RegisteredEffect ==
  ASSUME process \in [JobIds -> Processes], NEW j \in JobIds,
         process' = [process EXCEPT ![j].registered = TRUE]
  PROVE  /\ process' \in [JobIds -> Processes] /\ process'[j].state = process[j].state
         /\ process'[j].registered
         /\ \A k \in JobIds : k # j => process'[k] = process[k]
BY DEF Processes

LEMMA ExitEffect ==
  ASSUME process \in [JobIds -> Processes], NEW j \in JobIds,
         NEW state \in ProcessStates, NEW kept \in BOOLEAN,
         process' = [process EXCEPT ![j].state = state, ![j].saved = kept]
  PROVE  /\ process' \in [JobIds -> Processes] /\ process'[j].state = state
         /\ process'[j].registered = process[j].registered
         /\ \A k \in JobIds : k # j => process'[k] = process[k]
BY DEF Processes

\* A step of a thread: its job, its process and its place.
LEMMA ThreadEffect ==
  ASSUME AutocadTypes, NEW j \in JobIds, ThreadStep(j) \/ ThreadRaises(j) \/ ProcessExits(j)
  PROVE  /\ OnlyJob(j) /\ server' = server
         /\ job'[j].manager = job[j].manager /\ job'[j].listed = job[j].listed
         /\ job'[j].cancelled = job[j].cancelled
         /\ \/ job'[j].status = job[j].status
            \/ /\ worker[j].at # "none" /\ worker'[j].at # "none"
               /\ job'[j].status \in {"running", "cancel_requested"}
            \/ worker[j].at # "none" /\ worker'[j].at = "none"
         /\ worker[j].at = "none" => worker'[j].at = "none"
         /\ process[j].registered => process'[j].registered \/ worker'[j].at = "none"
         /\ worker'[j].at \in {"connecting", "sending", "polling"} =>
              job[j].manager = "command" \/ worker'[j].at = worker[j].at
         /\ worker'[j].at \in {"registering", "checking", "waiting", "publishing"} =>
              Console(j) \/ worker'[j].at = worker[j].at
         /\ worker'[j].at = "checking" => worker[j].at = "checking" \/ process'[j].registered
         /\ worker'[j].at = "waiting" =>
              \/ worker[j].at = "waiting"
              \/ /\ worker[j].at = "checking"
                 /\ ~(job[j].cancelled /\ process'[j].state = "running")
         /\ (process'[j].state = "running" /\ process[j].state # "running") =>
              worker'[j].at = "registering"
         /\ (executing' \subseteq executing \/ (worker[j].at = "sending" /\ job[j].manager = "command"))
<1>1. /\ job \in [JobIds -> JobEntries] /\ worker \in [JobIds -> Workers]
      /\ process \in [JobIds -> Processes] /\ server \in Requests
  BY DEF AutocadTypes
<1>2. CASE RunCommand(j)
  <2>1. PICK status \in {"running", "cancel_requested"} : job' = [job EXCEPT ![j].status = status]
    BY <1>2 DEF RunCommand
  <2>4. status \in JobStatuses
    BY DEF JobStatuses
  <2>2. /\ job' \in [JobIds -> JobEntries] /\ job'[j].status = status
        /\ job'[j].manager = job[j].manager /\ job'[j].listed = job[j].listed
        /\ job'[j].cancelled = job[j].cancelled
        /\ \A k \in JobIds : k # j => job'[k] = job[k]
    BY ONLY <1>1, <2>1, <2>4, j \in JobIds, StatusEffect
  <2>3. QED
    BY <1>1, <1>2, <2>2, GoToEffect
    DEF RunCommand, At, OnlyJob, AutocadTypes, WorkerPlaces
<1>3. CASE Connect(j)
  <2>1. /\ job' \in [JobIds -> JobEntries] /\ job'[j].status = job[j].status
        /\ job'[j].manager = job[j].manager /\ job'[j].listed = job[j].listed
        /\ job'[j].cancelled = job[j].cancelled
        /\ \A k \in JobIds : k # j => job'[k] = job[k]
    BY <1>1, <1>3, WindowEffect DEF Connect
  <2>2. QED
    BY <1>1, <1>3, <2>1, GoToEffect DEF Connect, At, OnlyJob, AutocadTypes, WorkerPlaces
<1>4. CASE SendCommand(j)
  BY <1>1, <1>4, GoToEffect, ToEndEffect
  DEF SendCommand, At, Console, ConsoleAt, AfterEscape, OnlyJob, AutocadTypes, JobEntries, Workers, WorkerPlaces,
      Processes, Managers, Terminal, Ended, NoWorker, NoProcess
<1>5. CASE SendEscape(j)
  <2>1. /\ worker' = [worker EXCEPT ![j].escaped = TRUE] /\ worker[j].at = "polling"
        /\ job[j].manager = "command" /\ job' = job /\ process' = process /\ server' = server
        /\ executing' \in {executing, {}}
    BY <1>5 DEF SendEscape, At, AfterEscape
  <2>2. /\ worker' \in [JobIds -> Workers] /\ worker'[j].at = worker[j].at
        /\ \A k \in JobIds : k # j => worker'[k] = worker[k]
    BY ONLY <1>1, <2>1, j \in JobIds DEF Workers
  <2>3. QED
    BY <1>1, <2>1, <2>2 DEF OnlyJob, AutocadTypes
<1>6. CASE SeeIdle(j)
  BY <1>1, <1>6, GoToEffect, ToEndEffect
  DEF SeeIdle, At, Console, ConsoleAt, AfterEscape, OnlyJob, AutocadTypes, JobEntries, Workers, WorkerPlaces,
      Processes, Managers, Terminal, Ended, NoWorker, NoProcess
<1>7. CASE CommandTimesOut(j)
  BY <1>1, <1>7, GoToEffect, ToEndEffect
  DEF CommandTimesOut, At, Console, ConsoleAt, AfterEscape, OnlyJob, AutocadTypes, JobEntries, Workers, WorkerPlaces,
      Processes, Managers, Terminal, Ended, NoWorker, NoProcess
<1>8. CASE StartProcess(j)
  <2>1. /\ process' \in [JobIds -> Processes] /\ process'[j].registered = process[j].registered
        /\ \A k \in JobIds : k # j => process'[k] = process[k]
    <3>1. "running" \in ProcessStates /\ process' = [process EXCEPT ![j].state = "running"]
      BY <1>8 DEF StartProcess, ProcessStates
    <3>2. QED
      BY ONLY <1>1, <3>1, j \in JobIds, StateEffect
  <2>2. QED
    BY <1>1, <1>8, <2>1, GoToEffect
    DEF StartProcess, ConsoleAt, Console, OnlyJob, AutocadTypes, WorkerPlaces
<1>9. CASE RegisterProcess(j)
  <2>1. /\ process' \in [JobIds -> Processes] /\ process'[j].registered
        /\ process'[j].state = process[j].state
        /\ \A k \in JobIds : k # j => process'[k] = process[k]
    BY <1>1, <1>9, RegisteredEffect DEF RegisterProcess
  <2>2. /\ job' \in [JobIds -> JobEntries] /\ job'[j].status = "running"
        /\ job'[j].manager = job[j].manager /\ job'[j].listed = job[j].listed
        /\ job'[j].cancelled = job[j].cancelled
        /\ \A k \in JobIds : k # j => job'[k] = job[k]
    <3>1. "running" \in JobStatuses /\ job' = [job EXCEPT ![j].status = "running"]
      BY <1>9 DEF RegisterProcess, JobStatuses
    <3>2. QED
      BY ONLY <1>1, <3>1, j \in JobIds, StatusEffect
  <2>3. QED
    BY <1>1, <1>9, <2>1, <2>2, GoToEffect
    DEF RegisterProcess, ConsoleAt, Console, OnlyJob, AutocadTypes, WorkerPlaces
<1>10. CASE CheckCancelled(j)
  BY <1>1, <1>10, GoToEffect, ToEndEffect
  DEF CheckCancelled, At, Console, ConsoleAt, AfterEscape, OnlyJob, AutocadTypes, JobEntries, Workers, WorkerPlaces,
      Processes, ProcessStates, JobStatuses, Managers, Terminal, Ended, NoWorker, NoProcess
<1>11. CASE Collect(j)
  BY <1>1, <1>11, GoToEffect, ToEndEffect
  DEF Collect, At, Console, ConsoleAt, AfterEscape, OnlyJob, AutocadTypes, JobEntries, Workers, WorkerPlaces,
      Processes, Managers, Terminal, Ended, NoWorker, NoProcess
<1>12. CASE ConsoleTimesOut(j)
  <2>1. PICK state \in ProcessStates :
          /\ process' = [process EXCEPT ![j].state = state]
          /\ state = "running" => process[j].state = "running"
    <3>1. process[j].state \in ProcessStates
      BY <1>1 DEF Processes
    <3>2. QED
      BY <1>12, <3>1 DEF ConsoleTimesOut, ProcessStates
  <2>2. /\ process' \in [JobIds -> Processes] /\ process'[j].registered = process[j].registered
        /\ process'[j].state = state
        /\ \A k \in JobIds : k # j => process'[k] = process[k]
    BY ONLY <1>1, <2>1, j \in JobIds, state \in ProcessStates, StateEffect
  <2>3. QED
    BY <1>1, <1>12, <2>1, <2>2, ToEndEffect
    DEF ConsoleTimesOut, ConsoleAt, Console, OnlyJob, AutocadTypes, Terminal
<1>13. CASE Publish(j)
  BY <1>1, <1>13, GoToEffect, ToEndEffect
  DEF Publish, At, Console, ConsoleAt, AfterEscape, OnlyJob, AutocadTypes, JobEntries, Workers, WorkerPlaces,
      Processes, Managers, Terminal, Ended, NoWorker, NoProcess
<1>14. CASE RecordEnd(j)
  <2>1. worker[j] \in Workers
    BY <1>1
  <2>2. worker[j].end \in JobStatuses
    BY <2>1 DEF Workers, JobStatuses
  <2>3. /\ job' \in [JobIds -> JobEntries]
        /\ job'[j].manager = job[j].manager /\ job'[j].listed = job[j].listed
        /\ job'[j].cancelled = job[j].cancelled
        /\ \A k \in JobIds : k # j => job'[k] = job[k]
    <3>1. job' = [job EXCEPT ![j].status = worker[j].end]
      BY <1>14 DEF RecordEnd
    <3>2. QED
      BY ONLY <1>1, <2>2, <3>1, j \in JobIds, StatusEffect
  <2>4. NoWorker \in Workers /\ NoProcess \in Processes /\ NoWorker.at = "none"
        /\ NoProcess.state = "none"
    BY DEF NoWorker, NoProcess, Workers, Processes, ProcessStates, WorkerPlaces
  <2>5. /\ worker' \in [JobIds -> Workers] /\ worker'[j] = NoWorker
        /\ \A k \in JobIds : k # j => worker'[k] = worker[k]
        /\ process' \in [JobIds -> Processes] /\ process'[j] = NoProcess
        /\ \A k \in JobIds : k # j => process'[k] = process[k]
    BY <1>1, <1>14, <2>4 DEF RecordEnd
  <2>6. QED
    BY <1>1, <1>14, <2>3, <2>4, <2>5 DEF RecordEnd, OnlyJob, AutocadTypes
<1>15. CASE CommandRaises(j)
  BY <1>1, <1>15, GoToEffect, ToEndEffect
  DEF CommandRaises, At, Console, ConsoleAt, AfterEscape, OnlyJob, AutocadTypes, JobEntries, Workers, WorkerPlaces,
      Processes, Managers, Terminal, Ended, NoWorker, NoProcess
<1>16. CASE ConsoleRaises(j)
  BY <1>1, <1>16, GoToEffect, ToEndEffect
  DEF ConsoleRaises, At, Console, ConsoleAt, AfterEscape, OnlyJob, AutocadTypes, JobEntries, Workers, WorkerPlaces,
      Processes, Managers, Terminal, Ended, NoWorker, NoProcess
<1>17. CASE ProcessExits(j)
  <2>1. PICK state \in {"done", "stopped"}, kept \in BOOLEAN :
          process' = [process EXCEPT ![j].state = state, ![j].saved = kept]
    BY <1>17 DEF ProcessExits
  <2>2. /\ process' \in [JobIds -> Processes] /\ process'[j].registered = process[j].registered
        /\ process'[j].state = state
        /\ \A k \in JobIds : k # j => process'[k] = process[k]
    <3>1. state \in ProcessStates
      BY DEF ProcessStates
    <3>2. QED
      BY ONLY <1>1, <2>1, <3>1, j \in JobIds, kept \in BOOLEAN, ExitEffect
  <2>3. job' = job /\ worker' = worker /\ server' = server /\ executing' = executing
    BY <1>17 DEF ProcessExits
  <2>4. process[j].state = "running" /\ state # "running"
    BY <1>17 DEF ProcessExits
  <2>5. OnlyJob(j)
    BY <1>1, <2>2, <2>3 DEF OnlyJob, AutocadTypes
  <2>6. process[j].registered => process'[j].registered
    BY <2>2
  <2>7. QED
    <3>1. process'[j].state # "running"
      BY <2>2, <2>4
    <3>2. /\ job'[j] = job[j] /\ worker'[j] = worker[j] /\ executing' = executing
          /\ server' = server
      BY <2>3
    <3>3. /\ job'[j].manager = job[j].manager /\ job'[j].listed = job[j].listed
          /\ job'[j].cancelled = job[j].cancelled /\ job'[j].status = job[j].status
          /\ worker'[j].at = worker[j].at
      BY ONLY <3>2
    <3>4. QED
      BY ONLY <2>5, <2>6, <3>1, <3>2, <3>3
<1>18. QED
  BY <1>2, <1>3, <1>4, <1>5, <1>6, <1>7, <1>8, <1>9, <1>10, <1>11, <1>12, <1>13, <1>14, <1>15, <1>16, <1>17 DEF ThreadStep, ThreadRaises

-----------------------------------------------------------------------------
(* The AutoCAD jobs: steps of the server *)

\* A request that is handled leaves every thread where it is.
LEMMA CancelEffect ==
  ASSUME AutocadTypes, NEW j \in JobIds, CancelJob(j)
  PROVE  /\ AutocadTypes' /\ worker' = worker /\ process' = process /\ executing' = executing
         /\ server.name = "none" /\ server'.name \in {"none", "escape", "terminate"}
         /\ \A k \in JobIds :
              /\ job'[k].manager = job[k].manager /\ job'[k].listed = job[k].listed
              /\ job'[k].status = job[k].status \/ (~Ended(k) /\ job'[k].status = "cancel_requested")
              /\ job'[k].cancelled =>
                   \/ job[k].cancelled
                   \/ Console(k) /\ process[k].registered => server' = [name |-> "terminate", job |-> k]
<1>1. /\ job \in [JobIds -> JobEntries] /\ worker \in [JobIds -> Workers]
      /\ process \in [JobIds -> Processes] /\ server \in Requests
  BY DEF AutocadTypes
<1>2. /\ server = NoRequestNow /\ worker' = worker /\ process' = process /\ executing' = executing
  BY DEF CancelJob, Free
<1>3. server.name = "none"
  BY <1>2 DEF NoRequestNow
<1>4. /\ server' \in Requests
      /\ server'.name \in {"none", "escape", "terminate"}
  <2>1. /\ NoRequestNow \in Requests /\ [name |-> "escape", job |-> j] \in Requests
        /\ [name |-> "terminate", job |-> j] \in Requests
    BY DEF Requests, NoRequestNow
  <2>2. server' \in {NoRequestNow, [name |-> "escape", job |-> j], [name |-> "terminate", job |-> j]}
    BY DEF CancelJob
  <2>3. QED
    BY <2>1, <2>2 DEF NoRequestNow
<1>5. CASE Ended(j)
  <2>1. job' = job
    BY <1>5 DEF CancelJob
  <2>2. QED
    BY <1>1, <1>2, <1>3, <1>4, <2>1 DEF AutocadTypes
<1>6. CASE ~Ended(j)
  <2>1. job' = [job EXCEPT ![j].cancelled = TRUE, ![j].status = "cancel_requested"]
    BY <1>6 DEF CancelJob
  <2>2. "cancel_requested" \in JobStatuses
    BY DEF JobStatuses
  <2>3. /\ job' \in [JobIds -> JobEntries] /\ job'[j].status = "cancel_requested"
        /\ job'[j].manager = job[j].manager /\ job'[j].listed = job[j].listed
        /\ \A k \in JobIds : k # j => job'[k] = job[k]
    BY ONLY <1>1, <2>1, <2>2, j \in JobIds DEF JobEntries
  <2>4. Console(j) /\ process[j].registered => server' = [name |-> "terminate", job |-> j]
    BY <1>6 DEF CancelJob, Console
  <2>5. QED
    BY <1>1, <1>2, <1>3, <1>4, <1>6, <2>3, <2>4 DEF AutocadTypes
<1>7. QED
  BY <1>5, <1>6

\* A new job has a thread that starts, and what the table forgets has ended.
LEMMA StartEffect ==
  ASSUME AutocadTypes, NEW m \in Managers, StartJob(m)
  PROVE  /\ AutocadTypes' /\ process' = process /\ executing' = executing /\ server' = server
         /\ server.name = "none"
         /\ \E new \in JobIds :
              /\ job[new] = NoJob
              /\ job'[new].manager = m /\ job'[new].status = "queued" /\ job'[new].listed
              /\ ~job'[new].cancelled /\ worker'[new].at = "starting"
              /\ \A k \in JobIds : k # new =>
                   /\ worker'[k] = worker[k]
                   /\ job'[k].manager = job[k].manager /\ job'[k].status = job[k].status
                   /\ job'[k].cancelled = job[k].cancelled
                   /\ job'[k].listed = job[k].listed \/ Ended(k)
<1>1. /\ job \in [JobIds -> JobEntries] /\ worker \in [JobIds -> Workers]
      /\ process \in [JobIds -> Processes] /\ server \in Requests
  BY DEF AutocadTypes
<1>2. /\ server = NoRequestNow /\ process' = process /\ executing' = executing /\ server' = server
  BY DEF StartJob, Accepts, Free
<1>3. server.name = "none"
  BY <1>2 DEF NoRequestNow
<1>4. PICK new \in JobIds :
        /\ job[new] = NoJob
        /\ job' = [j \in JobIds |->
             IF j = new
               THEN [NoJob EXCEPT !.manager = m, !.status = "queued", !.listed = TRUE]
               ELSE IF j \in TrimmedAt(m, new) THEN [job[j] EXCEPT !.listed = FALSE] ELSE job[j]]
        /\ worker' = [worker EXCEPT ![new].at = "starting"]
  BY DEF StartJob
<1>5. /\ worker' \in [JobIds -> Workers] /\ worker'[new].at = "starting"
      /\ \A k \in JobIds : k # new => worker'[k] = worker[k]
  BY ONLY <1>1, <1>4, new \in JobIds DEF Workers, WorkerPlaces
<1>6. job'[new] = [NoJob EXCEPT !.manager = m, !.status = "queued", !.listed = TRUE]
  BY <1>4
<1>7. /\ job'[new] \in JobEntries
      /\ job'[new].manager = m /\ job'[new].status = "queued" /\ job'[new].listed
      /\ ~job'[new].cancelled
  BY ONLY <1>6, m \in Managers DEF NoJob, JobEntries, JobStatuses, Managers
<1>8. ASSUME NEW k \in JobIds, k # new
      PROVE  /\ job'[k] \in JobEntries
             /\ job'[k].manager = job[k].manager /\ job'[k].status = job[k].status
             /\ job'[k].cancelled = job[k].cancelled
             /\ job'[k].listed = job[k].listed \/ Ended(k)
  <2>1. job[k] \in JobEntries
    BY <1>1
  <2>2. CASE k \in TrimmedAt(m, new)
    <3>1. job'[k] = [job[k] EXCEPT !.listed = FALSE] /\ Ended(k)
      BY <1>4, <1>8, <2>2 DEF TrimmedAt
    <3>2. QED
      BY <2>1, <3>1 DEF JobEntries
  <2>3. CASE k \notin TrimmedAt(m, new)
    BY <1>4, <1>8, <2>1, <2>3
  <2>4. QED
    BY <2>2, <2>3
<1>9. job' \in [JobIds -> JobEntries]
  <2>1. \A k \in JobIds : job'[k] \in JobEntries
    BY <1>7, <1>8
  <2>2. QED
    BY <1>4, <2>1
<1>10. AutocadTypes'
  BY <1>1, <1>2, <1>5, <1>9 DEF AutocadTypes
<1>11. QED
  BY <1>2, <1>3, <1>4, <1>5, <1>7, <1>8, <1>10

\* The other steps of the server, and AutoCAD's own.
LEMMA ServerEffect ==
  ASSUME AutocadTypes,
         \/ PostEscape \/ TerminateFromServer \/ BeginCheckpoint \/ ReadCommandNames
         \/ SaveCheckpoint \/ SendDirectly \/ StopWaiting \/ AutocadIdles
  PROVE  /\ AutocadTypes' /\ worker' = worker
         /\ \A k \in JobIds :
              /\ job'[k].manager = job[k].manager /\ job'[k].listed = job[k].listed
              /\ job'[k].status = job[k].status /\ job'[k].cancelled = job[k].cancelled
              /\ process'[k].registered = process[k].registered
              /\ process'[k].state = "running" =>
                   /\ process[k].state = "running"
                   /\ server' = server \/ server # [name |-> "terminate", job |-> k]
         /\ server'.name = "checkpoint" => server.name = "checkpoint" \/ ActiveJobs("command") = {}
         /\ server'.name = "saving" =>
              \/ executing' = {}
              \/ server.name = "saving" /\ executing' \subseteq executing
         /\ server'.name = "saving" => server.name \in {"saving", "checkpoint"}
<1>1. /\ job \in [JobIds -> JobEntries] /\ worker \in [JobIds -> Workers]
      /\ process \in [JobIds -> Processes] /\ server \in Requests
  BY DEF AutocadTypes
<1>2. NoRequestNow \in Requests /\ NoRequestNow.name = "none"
  BY DEF NoRequestNow, Requests
<1>3. CASE PostEscape
  <2>1. /\ server.name = "escape" /\ server' = NoRequestNow /\ worker' = worker
        /\ process' = process
    BY <1>3 DEF PostEscape
  <2>2. server.job \in JobIds
    BY <1>1, <2>1 DEF Requests
  <2>3. /\ job' \in [JobIds -> JobEntries]
        /\ \A k \in JobIds :
             /\ job'[k].manager = job[k].manager /\ job'[k].listed = job[k].listed
             /\ job'[k].status = job[k].status /\ job'[k].cancelled = job[k].cancelled
    <3>1. CASE job' = job
      BY <1>1, <3>1
    <3>2. CASE job' = [job EXCEPT ![server.job].cancelFailed = TRUE]
      BY ONLY <1>1, <2>2, <3>2 DEF JobEntries
    <3>3. QED
      BY <1>3, <3>1, <3>2 DEF PostEscape
  <2>4. \A k \in JobIds : server # [name |-> "terminate", job |-> k]
    BY <2>1
  <2>5. QED
    BY <1>1, <1>2, <2>1, <2>3, <2>4 DEF AutocadTypes
<1>4. CASE TerminateFromServer
  <2>1. /\ server.name = "terminate" /\ server' = NoRequestNow /\ worker' = worker /\ job' = job
    BY <1>4 DEF TerminateFromServer
  <2>2. /\ process' \in [JobIds -> Processes]
        /\ \A k \in JobIds :
             /\ process'[k].registered = process[k].registered
             /\ process'[k].state = "running" => process[k].state = "running" /\ k # server.job
    <3>1. process' = [process EXCEPT ![server.job].state = IF @ = "running" THEN "stopped" ELSE @]
      BY <1>4 DEF TerminateFromServer
    <3>2. server.job \in JobIds
      BY <1>1, <2>1 DEF Requests
    <3>3. PICK state \in ProcessStates :
            state # "running" /\ process' = [process EXCEPT ![server.job].state = state]
      <4>1. process[server.job].state \in ProcessStates
        BY <1>1, <3>2 DEF Processes
      <4>2. QED
        BY <3>1, <4>1 DEF ProcessStates
    <3>4. /\ process' \in [JobIds -> Processes] /\ process'[server.job].state = state
          /\ process'[server.job].registered = process[server.job].registered
          /\ \A k \in JobIds : k # server.job => process'[k] = process[k]
      BY ONLY <1>1, <3>2, <3>3, state \in ProcessStates, StateEffect
    <3>5. QED
      BY <3>3, <3>4
  <2>3. QED
    BY <1>1, <1>2, <1>4, <2>1, <2>2 DEF AutocadTypes
<1>5. ASSUME \/ BeginCheckpoint \/ ReadCommandNames \/ SaveCheckpoint \/ SendDirectly
             \/ StopWaiting \/ AutocadIdles
      PROVE  /\ job' = job /\ worker' = worker /\ process' = process
             /\ server' \in Requests
             /\ \A k \in JobIds : server' = server \/ server # [name |-> "terminate", job |-> k]
             /\ server'.name = "checkpoint" =>
                  server.name = "checkpoint" \/ ActiveJobs("command") = {}
             /\ server'.name = "saving" =>
                  \/ executing' = {}
                  \/ server.name = "saving" /\ executing' \subseteq executing
             /\ server'.name = "saving" => server.name \in {"saving", "checkpoint"}
  <2>1. CASE BeginCheckpoint
    BY <1>1, <1>2, <2>1 DEF BeginCheckpoint, Requests, Free
  <2>2. CASE ReadCommandNames
    BY <1>1, <1>2, <2>2 DEF ReadCommandNames, Requests
  <2>3. CASE SaveCheckpoint
    BY <1>1, <1>2, <2>3 DEF SaveCheckpoint
  <2>4. CASE SendDirectly
    BY <1>1, <1>2, <2>4 DEF SendDirectly, Requests, Free
  <2>5. CASE StopWaiting
    BY <1>1, <1>2, <2>5 DEF StopWaiting
  <2>6. CASE AutocadIdles
    BY <1>1, <1>2, <2>6 DEF AutocadIdles
  <2>7. QED
    BY <1>5, <2>1, <2>2, <2>3, <2>4, <2>5, <2>6
<1>6. QED
  BY <1>3, <1>4, <1>5 DEF AutocadTypes

-----------------------------------------------------------------------------
(* The AutoCAD jobs: the invariant and the theorems *)

LEMMA AutocadStart == AutocadInit => AutocadInv
<1>1. NoJob \in JobEntries /\ NoWorker \in Workers /\ NoProcess \in Processes
      /\ NoRequestNow \in Requests
  BY DEF NoJob, NoWorker, NoProcess, NoRequestNow, JobEntries, JobStatuses, Workers, WorkerPlaces,
         Processes, ProcessStates, Requests
<1>2. NoWorker.at = "none" /\ NoRequestNow.name = "none"
  BY DEF NoWorker, NoRequestNow
<1>3. QED
  BY <1>1, <1>2
  DEF AutocadInit, AutocadInv, AutocadTypes, ThreadsInv, CheckpointInv, CommandsAreContained,
      CheckpointIsQuiescent, CancelReachesProcess

LEMMA ThreadPreserves ==
  ASSUME AutocadInv, NEW j \in JobIds, ThreadStep(j) \/ ThreadRaises(j) \/ ProcessExits(j)
  PROVE  AutocadInv'
<1>1. AutocadTypes /\ ThreadsInv /\ CheckpointInv /\ CheckpointIsQuiescent /\ CancelReachesProcess
  BY DEF AutocadInv, CommandsAreContained
<1>2. /\ AutocadTypes' /\ server' = server
      /\ \A k \in JobIds : k # j =>
           job'[k] = job[k] /\ worker'[k] = worker[k] /\ process'[k] = process[k]
  BY <1>1, ThreadEffect DEF OnlyJob
<1>3. ThreadsInv'
  <2> SUFFICES ASSUME NEW k \in JobIds, worker'[k].at # "none"
               PROVE  /\ job'[k].listed /\ job'[k].status \notin Terminal
                      /\ job'[k].manager # "none"
                      /\ (worker'[k].at \in {"connecting", "sending", "polling"} =>
                            job'[k].manager = "command")
                      /\ (worker'[k].at \in {"registering", "checking", "waiting", "publishing"} =>
                            job'[k].manager \in {"core", "topology"})
                      /\ (worker'[k].at \in {"checking", "waiting"} => process'[k].registered)
    BY DEF ThreadsInv, Ended, Console
  <2>1. CASE k # j
    BY <1>1, <1>2, <2>1 DEF ThreadsInv, Ended, Console
  <2>2. CASE k = j
    BY <1>1, <2>2, ThreadEffect DEF ThreadsInv, Ended, Console, Terminal
  <2>3. QED
    BY <2>1, <2>2
<1>4. \A k \in JobIds : job'[k].manager = job[k].manager
                       /\ (worker[k].at = "none" => worker'[k].at = "none")
  BY <1>1, <1>2, ThreadEffect
<1>5. CheckpointInv'
  BY <1>1, <1>2, <1>4 DEF CheckpointInv
<1>6. CheckpointIsQuiescent'
  BY <1>1, <1>2, <1>4, ThreadEffect DEF CheckpointInv, CheckpointIsQuiescent
<1>7. CancelReachesProcess'
  <2> SUFFICES ASSUME NEW k \in JobIds, job'[k].cancelled, worker'[k].at = "waiting",
                      process'[k].state = "running"
               PROVE  server = [name |-> "terminate", job |-> k]
    BY <1>2 DEF CancelReachesProcess
  <2>1. CASE k # j
    BY <1>1, <1>2, <2>1 DEF CancelReachesProcess
  <2>2. CASE k = j
    BY <1>1, <2>2, ThreadEffect DEF CancelReachesProcess
  <2>3. QED
    BY <2>1, <2>2
<1>8. QED
  BY <1>2, <1>3, <1>5, <1>6, <1>7 DEF AutocadInv, CommandsAreContained

LEMMA CancelPreserves ==
  ASSUME AutocadInv, NEW j \in JobIds, CancelJob(j)
  PROVE  AutocadInv'
<1>1. AutocadTypes /\ ThreadsInv /\ CheckpointInv /\ CheckpointIsQuiescent /\ CancelReachesProcess
  BY DEF AutocadInv, CommandsAreContained
<1>2. ThreadsInv'
  <2> SUFFICES ASSUME NEW k \in JobIds, worker'[k].at # "none"
               PROVE  /\ job'[k].listed /\ job'[k].status \notin Terminal
                      /\ job'[k].manager # "none"
                      /\ (worker'[k].at \in {"connecting", "sending", "polling"} =>
                            job'[k].manager = "command")
                      /\ (worker'[k].at \in {"registering", "checking", "waiting", "publishing"} =>
                            job'[k].manager \in {"core", "topology"})
                      /\ (worker'[k].at \in {"checking", "waiting"} => process'[k].registered)
    BY DEF ThreadsInv, Ended, Console
  <2>1. QED
    BY <1>1, CancelEffect DEF ThreadsInv, Ended, Console, Terminal
<1>3. CheckpointInv' /\ CheckpointIsQuiescent'
  BY <1>1, CancelEffect DEF CheckpointInv, CheckpointIsQuiescent
<1>4. CancelReachesProcess'
  <2> SUFFICES ASSUME NEW k \in JobIds, job'[k].cancelled, worker'[k].at = "waiting",
                      process'[k].state = "running"
               PROVE  server' = [name |-> "terminate", job |-> k]
    BY DEF CancelReachesProcess
  <2>1. worker[k].at = "waiting" /\ process[k].state = "running" /\ server.name = "none"
    BY <1>1, CancelEffect
  <2>2. ~job[k].cancelled
    BY <1>1, <2>1 DEF CancelReachesProcess
  <2>3. Console(k) /\ process[k].registered
    BY <1>1, <2>1 DEF ThreadsInv
  <2>4. QED
    BY <1>1, <2>2, <2>3, CancelEffect
<1>5. QED
  BY <1>1, <1>2, <1>3, <1>4, CancelEffect DEF AutocadInv, CommandsAreContained

LEMMA StartPreserves ==
  ASSUME AutocadInv, NEW m \in Managers, StartJob(m)
  PROVE  AutocadInv'
<1>1. AutocadTypes /\ ThreadsInv /\ CheckpointInv /\ CheckpointIsQuiescent /\ CancelReachesProcess
  BY DEF AutocadInv, CommandsAreContained
<1>2. /\ AutocadTypes' /\ process' = process /\ executing' = executing /\ server' = server
      /\ server.name = "none"
  BY <1>1, StartEffect
<1>3. PICK new \in JobIds :
        /\ job'[new].manager = m /\ job'[new].status = "queued" /\ job'[new].listed
        /\ ~job'[new].cancelled /\ worker'[new].at = "starting"
        /\ \A k \in JobIds : k # new =>
             /\ worker'[k] = worker[k]
             /\ job'[k].manager = job[k].manager /\ job'[k].status = job[k].status
             /\ job'[k].cancelled = job[k].cancelled
             /\ job'[k].listed = job[k].listed \/ Ended(k)
  BY <1>1, StartEffect
<1>4. ThreadsInv'
  <2> SUFFICES ASSUME NEW k \in JobIds, worker'[k].at # "none"
               PROVE  /\ job'[k].listed /\ job'[k].status \notin Terminal
                      /\ job'[k].manager # "none"
                      /\ (worker'[k].at \in {"connecting", "sending", "polling"} =>
                            job'[k].manager = "command")
                      /\ (worker'[k].at \in {"registering", "checking", "waiting", "publishing"} =>
                            job'[k].manager \in {"core", "topology"})
                      /\ (worker'[k].at \in {"checking", "waiting"} => process'[k].registered)
    BY DEF ThreadsInv, Ended, Console
  <2>1. CASE k = new
    BY <1>3, <2>1 DEF Managers, Terminal
  <2>2. CASE k # new
    BY <1>1, <1>2, <1>3, <2>2 DEF ThreadsInv, Ended, Console
  <2>3. QED
    BY <2>1, <2>2
<1>5. CheckpointInv' /\ CheckpointIsQuiescent'
  BY <1>2 DEF CheckpointInv, CheckpointIsQuiescent
<1>6. CancelReachesProcess'
  <2> SUFFICES ASSUME NEW k \in JobIds, job'[k].cancelled, worker'[k].at = "waiting",
                      process'[k].state = "running"
               PROVE  FALSE
    BY DEF CancelReachesProcess
  <2>1. k # new
    BY <1>3
  <2>2. job[k].cancelled /\ worker[k].at = "waiting" /\ process[k].state = "running"
    BY <1>2, <1>3, <2>1
  <2>3. QED
    BY <1>1, <1>2, <2>2 DEF CancelReachesProcess
<1>7. QED
  BY <1>2, <1>4, <1>5, <1>6 DEF AutocadInv, CommandsAreContained

LEMMA ServerPreserves ==
  ASSUME AutocadInv,
         \/ PostEscape \/ TerminateFromServer \/ BeginCheckpoint \/ ReadCommandNames
         \/ SaveCheckpoint \/ SendDirectly \/ StopWaiting \/ AutocadIdles
  PROVE  AutocadInv'
<1>1. AutocadTypes /\ ThreadsInv /\ CheckpointInv /\ CheckpointIsQuiescent /\ CancelReachesProcess
  BY DEF AutocadInv, CommandsAreContained
<1>2. /\ AutocadTypes' /\ worker' = worker
      /\ \A k \in JobIds :
           /\ job'[k].manager = job[k].manager /\ job'[k].listed = job[k].listed
           /\ job'[k].status = job[k].status /\ job'[k].cancelled = job[k].cancelled
           /\ process'[k].registered = process[k].registered
  BY <1>1, ServerEffect
<1>3. ThreadsInv'
  <2> SUFFICES ASSUME NEW k \in JobIds, worker'[k].at # "none"
               PROVE  /\ job'[k].listed /\ job'[k].status \notin Terminal
                      /\ job'[k].manager # "none"
                      /\ (worker'[k].at \in {"connecting", "sending", "polling"} =>
                            job'[k].manager = "command")
                      /\ (worker'[k].at \in {"registering", "checking", "waiting", "publishing"} =>
                            job'[k].manager \in {"core", "topology"})
                      /\ (worker'[k].at \in {"checking", "waiting"} => process'[k].registered)
    BY DEF ThreadsInv, Ended, Console
  <2>1. QED
    BY <1>1, <1>2 DEF ThreadsInv, Ended, Console
<1>4. ActiveJobs("command") = {} =>
        \A k \in JobIds : job[k].manager = "command" => worker[k].at = "none"
  BY <1>1 DEF ActiveJobs, OfManager, ThreadsInv
<1>5. server'.name \in {"checkpoint", "saving"} =>
        \A k \in JobIds : job[k].manager = "command" => worker[k].at = "none"
  BY <1>1, <1>4, ServerEffect DEF CheckpointInv
<1>6. CheckpointInv'
  BY <1>2, <1>5 DEF CheckpointInv
<1>7. CheckpointIsQuiescent'
  <2>1. server'.name = "saving" => executing' = {}
    BY <1>1, ServerEffect DEF CheckpointIsQuiescent
  <2>2. QED
    BY <1>2, <1>5, <2>1 DEF CheckpointIsQuiescent
<1>8. CancelReachesProcess'
  BY <1>1, <1>2, ServerEffect DEF CancelReachesProcess
<1>9. QED
  BY <1>2, <1>3, <1>6, <1>7, <1>8 DEF AutocadInv, CommandsAreContained

LEMMA AutocadPreserves == AutocadInv /\ [AutocadNext]_autocadVars => AutocadInv'
<1> SUFFICES ASSUME AutocadInv, [AutocadNext]_autocadVars PROVE AutocadInv'
  OBVIOUS
<1>1. CASE UNCHANGED autocadVars
  BY <1>1
  DEF autocadVars, AutocadInv, AutocadTypes, ThreadsInv, CheckpointInv, CommandsAreContained,
      CheckpointIsQuiescent, CancelReachesProcess, Ended, Console
<1>2. CASE AutocadNext
  <2>1. CASE \E m \in Managers : StartJob(m)
    BY <2>1, StartPreserves
  <2>2. CASE \E j \in JobIds : CancelJob(j)
    BY <2>2, CancelPreserves
  <2>3. CASE \E j \in JobIds : ThreadStep(j) \/ ThreadRaises(j) \/ ProcessExits(j)
    BY <2>3, ThreadPreserves
  <2>4. QED
    BY <1>2, <2>1, <2>2, <2>3, ServerPreserves DEF AutocadNext
<1>3. QED
  BY <1>1, <1>2

\* The invariant of the AutoCAD jobs holds in every state, for any number of jobs, threads
\* and entries of the history.
THEOREM AutocadInvariance == AutocadSpec => []AutocadInv
BY AutocadStart, AutocadPreserves, PTL DEF AutocadSpec

\* No command meets a checkpoint, and no process outlives the request to end it, however
\* the steps of the threads and of the server fall.
THEOREM CommandsContained == AutocadSpec => []CommandsAreContained
<1>1. AutocadInv => CommandsAreContained
  BY DEF AutocadInv
<1>2. QED
  BY <1>1, AutocadInvariance, PTL

\* The end of a job is final: nothing that happens afterwards says anything else of it.
THEOREM EndsFinal == AutocadSpec => EndsAreFinal
<1>1. AutocadInv /\ [AutocadNext]_autocadVars
        => [\A j \in JobIds : Ended(j) => job'[j].status = job[j].status]_autocadVars
  <2> SUFFICES ASSUME AutocadInv, AutocadNext, NEW j \in JobIds, Ended(j)
               PROVE  job'[j].status = job[j].status
    OBVIOUS
  <2>1. AutocadTypes /\ worker[j].at = "none"
    BY DEF AutocadInv, ThreadsInv
  <2>2. CASE \E m \in Managers : StartJob(m)
    <3>1. job[j] # NoJob
      BY DEF Ended, NoJob, Terminal
    <3>2. QED
      BY <2>1, <2>2, <3>1, StartEffect
  <2>3. CASE \E k \in JobIds : CancelJob(k)
    BY <2>1, <2>3, CancelEffect
  <2>4. CASE \E k \in JobIds : ThreadStep(k) \/ ThreadRaises(k) \/ ProcessExits(k)
    <3>1. PICK k \in JobIds : ThreadStep(k) \/ ThreadRaises(k) \/ ProcessExits(k)
      BY <2>4
    <3>2. CASE k = j
      BY <2>1, <3>1, <3>2, ThreadEffect
    <3>3. CASE k # j
      BY <2>1, <3>1, <3>3, ThreadEffect DEF OnlyJob
    <3>4. QED
      BY <3>2, <3>3
  <2>5. QED
    BY <2>1, <2>2, <2>3, <2>4, ServerEffect DEF AutocadNext
<1>2. QED
  BY <1>1, AutocadInvariance, PTL DEF AutocadSpec, EndsAreFinal

-----------------------------------------------------------------------------
(* The review workbench: types *)

Numbers == 0..Editions
AttemptNames == Attempts \cup {"none"}
FormType == [supersedes : Nat, dirty : BOOLEAN]
DraftType == [kept : BOOLEAN, supersedes : Nat]
PostType ==
  [stage : {"none", "sent", "bound", "writing", "saved", "failed"}, edition : Numbers,
   presentation : Nat, attempt : AttemptNames, supersedes : Nat, bound : Numbers, previous : Nat]
PageType ==
  [state : {"blank", "loading", "ready", "saving"}, edition : Numbers, presentation : Nat,
   attempt : AttemptNames, form : FormType, records : Nat, incoming : Numbers]
RecordType ==
  [edition : Numbers, attempt : AttemptNames, supersedes : Nat, previous : Nat,
   reviewer : Reviewers, seen : Numbers]

DraftsType == [Reviewers -> [1..Editions -> [Attempts -> DraftType]]]

\* The pages that show something show an edition that was built.
PagesAreTyped ==
  /\ page \in [Reviewers -> PageType]
  /\ \A r \in Reviewers : page[r].state \in {"ready", "saving"} =>
       page[r].edition \in 1..Editions /\ page[r].attempt \in Attempts

ReviewTypeOK ==
  /\ setting \in Settings
  /\ bundle \in [data : 1..Editions, assets : Numbers]
  /\ bundle.assets = 0 => bundle.data < Editions
  /\ reviewServer \in [up : BOOLEAN, edition : Numbers, presentation : Nat]
  /\ ledger \in Seq(RecordType)
  /\ torn \in BOOLEAN
  /\ post \in [Reviewers -> PostType]
  /\ PagesAreTyped
  /\ drafts \in DraftsType

\* The lock: whoever is to write holds it, and has read the ledger as it is.
LockInv ==
  \A r \in Reviewers : post[r].stage = "writing" =>
    writer = r /\ post[r].previous = Len(ledger)

\* The catalog let nothing through but the server's edition, to which a request is bound.
BindingInv ==
  HasCatalog => \A r \in Reviewers : post[r].stage \in {"bound", "writing"} =>
    post[r].bound = post[r].edition

ReviewInv == ReviewTypeOK /\ LockInv /\ BindingInv /\ LedgerIsEvidence

LEMMA InitReview == ReviewInit => ReviewInv
<1> SUFFICES ASSUME ReviewInit PROVE ReviewInv
  OBVIOUS
<1> USE SettingsAssumption DEF ReviewInit, Reviewers, Attempts, Editions
<1>1. Editions \in Nat \ {0} /\ setting \in Settings
  OBVIOUS
<1>2. post \in [Reviewers -> PostType] /\ \A r \in Reviewers : post[r].stage = "none"
  BY <1>1 DEF PostType, NoPost, Numbers, AttemptNames
<1>3. PagesAreTyped
  BY <1>1 DEF PagesAreTyped, PageType, BlankPage, Numbers, AttemptNames, EmptyForm, Form, FormType
<1>4. drafts \in DraftsType
  BY <1>1 DEF DraftsType, NoDraft, DraftType
<1>5. /\ ledger \in Seq(RecordType)
      /\ torn \in BOOLEAN
      /\ bundle \in [data : 1..Editions, assets : 0..Editions] /\ bundle.assets # 0
      /\ reviewServer \in [up : BOOLEAN, edition : 0..Editions, presentation : Nat]
  <2>1. ledger \in Seq(RecordType)
    BY DEF RecordType
  <2>2. bundle \in [data : 1..Editions, assets : 0..Editions] /\ bundle.assets # 0
    BY <1>1
  <2>3. reviewServer \in [up : BOOLEAN, edition : 0..Editions, presentation : Nat]
    BY <1>1
  <2>4. QED
    BY <2>1, <2>2, <2>3
<1>6. ReviewTypeOK
  BY <1>1, <1>2, <1>3, <1>4, <1>5 DEF ReviewTypeOK, Numbers
<1>7. LedgerIsEvidence
  BY DEF LedgerIsEvidence, LedgerIsChained, CatalogBindsWhatWasSeen
<1>8. LockInv /\ BindingInv
  BY <1>2 DEF LockInv, BindingInv
<1>9. QED
  BY <1>6, <1>7, <1>8 DEF ReviewInv

-----------------------------------------------------------------------------
(* The review workbench: steps *)

\* The settings are those of the beginning, so what is defined by them is too.
SettingStays == setting' = setting

LEMMA SettingFacts ==
  ASSUME ReviewTypeOK
  PROVE  Editions \in Nat \ {0} /\ Nobody \notin Reviewers
BY SettingsAssumption DEF ReviewTypeOK, Editions, Reviewers

\* A step that writes nothing into the ledger and neither binds a request nor lets one
\* begin to write.
LEMMA LedgerUntouched ==
  ASSUME ReviewInv, SettingStays, ReviewTypeOK',
         ledger' = ledger,
         \A r \in Reviewers : post'[r].stage \in {"bound", "writing"} =>
           post'[r] = post[r] /\ (post[r].stage = "writing" => writer' = writer)
  PROVE  ReviewInv'
<1> USE DEF ReviewInv, SettingStays, Reviewers, HasCatalog
<1>1. LockInv'
  BY DEF LockInv
<1>2. BindingInv'
  BY DEF BindingInv
<1>3. LedgerIsEvidence'
  BY DEF LedgerIsEvidence, LedgerIsChained, CatalogBindsWhatWasSeen
<1>4. QED
  BY <1>1, <1>2, <1>3

LEMMA ServerStep ==
  ASSUME ReviewInv, BeginRebuild \/ FinishRebuild \/ StartServer
  PROVE  ReviewInv'
<1> USE DEF ReviewInv
<1>1. /\ SettingStays
      /\ UNCHANGED <<setting, ledger, torn, writer, post, page, drafts>>
  BY DEF BeginRebuild, FinishRebuild, StartServer, SettingStays
<1>2. Editions \in Nat \ {0}
  BY SettingFacts
<1>3. /\ bundle \in [data : 1..Editions, assets : 0..Editions]
      /\ bundle.assets = 0 => bundle.data < Editions
      /\ reviewServer \in [up : BOOLEAN, edition : 0..Editions, presentation : Nat]
  BY DEF ReviewTypeOK, Numbers
<1>4. /\ bundle' \in [data : 1..Editions, assets : 0..Editions]
      /\ bundle'.assets = 0 => bundle'.data < Editions
  <2>1. CASE BeginRebuild
    BY <1>2, <1>3, <2>1 DEF BeginRebuild
  <2>2. CASE FinishRebuild
    <3>1. bundle.data + 1 \in 1..Editions /\ bundle.data + 1 # 0
      BY <1>2, <1>3, <2>2 DEF FinishRebuild
    <3>2. bundle' = [data |-> bundle.data + 1, assets |-> bundle.data + 1]
      BY <2>2 DEF FinishRebuild
    <3>3. QED
      BY <1>2, <3>1, <3>2
  <2>3. CASE StartServer
    BY <1>3, <2>3 DEF StartServer
  <2>4. QED
    BY <2>1, <2>2, <2>3
<1>5. reviewServer' \in [up : BOOLEAN, edition : 0..Editions, presentation : Nat]
  <2>1. CASE BeginRebuild \/ FinishRebuild
    BY <1>3, <2>1 DEF BeginRebuild, FinishRebuild
  <2>2. CASE StartServer
    <3>1. PICK p \in 1..Presentations :
            reviewServer' = [up |-> TRUE, edition |-> bundle.data, presentation |-> p]
      BY <2>2 DEF StartServer
    <3>2. QED
      BY <1>2, <1>3, <3>1, SettingsAssumption
  <2>3. QED
    BY <2>1, <2>2
<1>6. ReviewTypeOK'
  BY <1>1, <1>4, <1>5 DEF ReviewTypeOK, PagesAreTyped, PageType, PostType, RecordType, DraftsType,
     DraftType, FormType, Numbers, AttemptNames, Editions, Reviewers, Attempts
<1>7. QED
  BY <1>1, <1>6, LedgerUntouched DEF ReviewTypeOK

\* Types of the state, for a step that changes at most one reviewer's request.
LEMMA TypesOfPosts ==
  ASSUME ReviewTypeOK, SettingStays,
         post' \in [Reviewers -> PostType], torn' \in BOOLEAN, ledger' \in Seq(RecordType),
         reviewServer' \in [up : BOOLEAN, edition : Numbers, presentation : Nat],
         UNCHANGED <<bundle, page, drafts>>
  PROVE  ReviewTypeOK'
BY DEF ReviewTypeOK, SettingStays, PagesAreTyped, PageType, PostType, RecordType, DraftsType,
   DraftType, FormType, Numbers, AttemptNames, Editions, Reviewers, Attempts

\* The server dies: whoever was writing lets the lock go and will not write.
LEMMA StopStep == ASSUME ReviewInv, StopServer PROVE ReviewInv'
<1> USE DEF ReviewInv
<1>1. /\ SettingStays
      /\ UNCHANGED <<bundle, ledger, page, drafts>>
  BY DEF StopServer, SettingStays
<1>2. reviewServer' \in [up : BOOLEAN, edition : Numbers, presentation : Nat]
  BY DEF StopServer, ReviewTypeOK
<1>3. torn' \in BOOLEAN
  BY DEF StopServer, ReviewTypeOK
<1>4. \A r \in Reviewers : post'[r] \in PostType /\ post'[r].stage \in {"none", "failed"}
  <2> SUFFICES ASSUME NEW r \in Reviewers
               PROVE  post'[r] \in PostType /\ post'[r].stage \in {"none", "failed"}
    OBVIOUS
  <2>1. CASE post[r].stage = "none"
    <3>1. post'[r] = NoPost
      BY <2>1 DEF StopServer
    <3>2. QED
      BY <3>1, SettingFacts DEF NoPost, PostType, Numbers, AttemptNames
  <2>2. CASE post[r].stage # "none"
    <3>1. post'[r] = [post[r] EXCEPT !.stage = "failed"]
      BY <2>2 DEF StopServer
    <3>2. QED
      BY <3>1 DEF ReviewTypeOK, PostType
  <2>3. QED
    BY <2>1, <2>2
<1>5. post' \in [Reviewers -> PostType]
  BY <1>4 DEF StopServer
<1>6. ReviewTypeOK'
  BY <1>1, <1>2, <1>3, <1>5, TypesOfPosts DEF ReviewTypeOK
<1>7. QED
  BY <1>1, <1>4, <1>6, LedgerUntouched

\* A request is bound to the server's edition, which is the page's if there is a catalog.
LEMMA AcceptStep ==
  ASSUME ReviewInv, NEW r \in Reviewers, AcceptPost(r)
  PROVE  ReviewInv'
<1> USE DEF ReviewInv
<1>1. /\ SettingStays
      /\ UNCHANGED <<bundle, reviewServer, ledger, torn, writer, page, drafts>>
  BY DEF AcceptPost, SettingStays
<1>2. post \in [Reviewers -> PostType] /\ reviewServer.edition \in Numbers
  BY DEF ReviewTypeOK
<1>3. /\ post' \in [Reviewers -> PostType]
      /\ \A q \in Reviewers \ {r} : post'[q] = post[q]
      /\ post'[r].stage # "writing"
      /\ MayPost(r) => post'[r].bound = reviewServer.edition /\ post'[r].edition = post[r].edition
      /\ ~MayPost(r) => post'[r].stage = "failed"
  <2>1. CASE MayPost(r)
    <3>1. post' = [post EXCEPT ![r] = [@ EXCEPT !.stage = "bound", !.bound = reviewServer.edition]]
      BY <2>1 DEF AcceptPost
    <3>2. QED
      BY <1>2, <2>1, <3>1 DEF PostType
  <2>2. CASE ~MayPost(r)
    <3>1. post' = [post EXCEPT ![r] = [@ EXCEPT !.stage = "failed"]]
      BY <2>2 DEF AcceptPost
    <3>2. QED
      BY <1>2, <2>2, <3>1 DEF PostType
  <2>3. QED
    BY <2>1, <2>2
<1>4. ReviewTypeOK'
  BY <1>1, <1>3, TypesOfPosts DEF ReviewTypeOK
<1>5. LockInv'
  BY <1>1, <1>3 DEF LockInv, SettingStays, Reviewers
<1>6. BindingInv'
  BY <1>1, <1>3 DEF BindingInv, MayPost, SettingStays, Reviewers, HasCatalog
<1>7. LedgerIsEvidence'
  BY <1>1 DEF LedgerIsEvidence, LedgerIsChained, CatalogBindsWhatWasSeen, SettingStays, HasCatalog
<1>8. QED
  BY <1>4, <1>5, <1>6, <1>7

\* Whoever reads the ledger takes the lock, or gives up.
LEMMA ReadStep ==
  ASSUME ReviewInv, NEW r \in Reviewers, ReadLedger(r)
  PROVE  ReviewInv'
<1> USE DEF ReviewInv
<1>1. /\ SettingStays /\ writer = Nobody /\ post[r].stage = "bound"
      /\ UNCHANGED <<bundle, reviewServer, ledger, torn, page, drafts>>
  BY DEF ReadLedger, SettingStays
<1>2. post \in [Reviewers -> PostType] /\ Len(ledger) \in Nat
  BY DEF ReviewTypeOK
<1>3. \A q \in Reviewers : post[q].stage # "writing"
  BY <1>1, SettingFacts DEF LockInv
<1>4. /\ post' \in [Reviewers -> PostType]
      /\ \A q \in Reviewers \ {r} : post'[q] = post[q]
      /\ post'[r].bound = post[r].bound /\ post'[r].edition = post[r].edition
      /\ post'[r].stage = "writing" => writer' = r /\ post'[r].previous = Len(ledger)
  <2>1. CASE ~torn /\ MaySupersede(r)
    <3>1. /\ post' = [post EXCEPT ![r].stage = "writing", ![r].previous = Len(ledger)]
          /\ writer' = r
      BY <2>1 DEF ReadLedger
    <3>2. QED
      BY <1>2, <3>1 DEF PostType
  <2>2. CASE ~(~torn /\ MaySupersede(r))
    <3>1. post' = [post EXCEPT ![r].stage = "failed"]
      BY <2>2 DEF ReadLedger
    <3>2. QED
      BY <1>2, <3>1 DEF PostType
  <2>3. QED
    BY <2>1, <2>2
<1>5. ReviewTypeOK'
  BY <1>1, <1>4, TypesOfPosts DEF ReviewTypeOK
<1>6. LockInv'
  BY <1>1, <1>3, <1>4 DEF LockInv, SettingStays, Reviewers
<1>7. BindingInv'
  BY <1>1, <1>4 DEF BindingInv, SettingStays, Reviewers, HasCatalog
<1>8. LedgerIsEvidence'
  BY <1>1 DEF LedgerIsEvidence, LedgerIsChained, CatalogBindsWhatWasSeen, SettingStays, HasCatalog
<1>9. QED
  BY <1>5, <1>6, <1>7, <1>8

\* What the writer appends names the last record and the edition its page showed; nobody
\* else is about to write.
LEMMA AppendStep ==
  ASSUME ReviewInv, NEW r \in Reviewers, AppendReview(r)
  PROVE  ReviewInv'
<1> USE DEF ReviewInv
<1> DEFINE record ==
       [edition |-> post[r].bound, attempt |-> post[r].attempt,
        supersedes |-> post[r].supersedes, previous |-> post[r].previous,
        reviewer |-> r, seen |-> post[r].edition]
<1>1. /\ SettingStays /\ post[r].stage = "writing"
      /\ ledger' = Append(ledger, record)
      /\ post' = [post EXCEPT ![r].stage = "saved"]
      /\ UNCHANGED <<bundle, reviewServer, torn, page, drafts>>
  BY DEF AppendReview, SettingStays
<1>2. post \in [Reviewers -> PostType] /\ ledger \in Seq(RecordType)
  BY DEF ReviewTypeOK
<1>3. /\ post' \in [Reviewers -> PostType]
      /\ \A q \in Reviewers \ {r} : post'[q] = post[q]
      /\ post'[r].stage = "saved"
  BY <1>1, <1>2 DEF PostType
<1>4. writer = r /\ record.previous = Len(ledger)
  BY <1>1 DEF LockInv
<1>5. \A q \in Reviewers \ {r} : post[q].stage # "writing"
  BY <1>4 DEF LockInv
<1>6. HasCatalog => record.edition = record.seen
  BY <1>1 DEF BindingInv
<1>7. record \in RecordType
  BY <1>2 DEF RecordType, PostType
<1> HIDE DEF record
<1>8. /\ ledger' \in Seq(RecordType) /\ Len(ledger') = Len(ledger) + 1
      /\ DOMAIN ledger' = 1..(Len(ledger) + 1) /\ DOMAIN ledger = 1..Len(ledger)
      /\ Len(ledger) \in Nat
      /\ \A n \in 1..Len(ledger) : ledger'[n] = ledger[n]
      /\ ledger'[Len(ledger) + 1] = record
  BY <1>1, <1>2, <1>7
<1>9. ReviewTypeOK'
  BY <1>1, <1>3, <1>8, TypesOfPosts DEF ReviewTypeOK
<1>10. LockInv'
  BY <1>1, <1>3, <1>5 DEF LockInv, SettingStays, Reviewers
<1>11. BindingInv'
  BY <1>1, <1>3 DEF BindingInv, SettingStays, Reviewers, HasCatalog
<1>12. LedgerIsChained'
  <2> SUFFICES ASSUME NEW n \in 1..(Len(ledger) + 1) PROVE ledger'[n].previous = n - 1
    BY <1>8 DEF LedgerIsChained
  <2>1. CASE n = Len(ledger) + 1
    BY <1>4, <1>8, <2>1
  <2>2. CASE n \in 1..Len(ledger)
    BY <1>8, <2>2 DEF LedgerIsEvidence, LedgerIsChained
  <2>3. QED
    BY <1>8, <2>1, <2>2
<1>13. CatalogBindsWhatWasSeen'
  <2> SUFFICES ASSUME HasCatalog, NEW n \in 1..(Len(ledger) + 1)
               PROVE  ledger'[n].edition = ledger'[n].seen
    BY <1>1, <1>8 DEF CatalogBindsWhatWasSeen, SettingStays, HasCatalog
  <2>1. CASE n = Len(ledger) + 1
    BY <1>6, <1>8, <2>1
  <2>2. CASE n \in 1..Len(ledger)
    BY <1>8, <2>2 DEF LedgerIsEvidence, CatalogBindsWhatWasSeen
  <2>3. QED
    BY <1>8, <2>1, <2>2
<1>14. QED
  BY <1>9, <1>10, <1>11, <1>12, <1>13 DEF LedgerIsEvidence

-----------------------------------------------------------------------------
(* The review workbench, the pages: none of them writes into the ledger *)

LEMMA FormTypes ==
  /\ EmptyForm \in FormType
  /\ \A draft \in DraftType : FormOf(draft) \in FormType
  /\ \A n \in Nat : Form(n, TRUE) \in FormType
BY DEF EmptyForm, Form, FormType, FormOf, DraftType

LEMMA DraftTypes ==
  ASSUME drafts \in DraftsType, NEW r \in Reviewers, NEW e \in 1..Editions, NEW a \in Attempts
  PROVE  drafts[r][e][a] \in DraftType
<1>1. drafts[r] \in [1..Editions -> [Attempts -> DraftType]]
  BY DEF DraftsType
<1>2. drafts[r][e] \in [Attempts -> DraftType]
  BY <1>1
<1>3. QED
  BY <1>2

\* A step of a page whose request, if it is bound, stays as it is.
LEMMA PageStep ==
  ASSUME ReviewInv, SettingStays, PagesAreTyped', drafts' \in DraftsType,
         post' \in [Reviewers -> PostType],
         \A q \in Reviewers : post'[q].stage \in {"bound", "writing"} => post'[q] = post[q],
         UNCHANGED <<bundle, reviewServer, ledger, torn, writer>>
  PROVE  ReviewInv'
<1>1. ReviewTypeOK'
  BY DEF ReviewInv, ReviewTypeOK, SettingStays, PostType, RecordType, DraftsType,
     DraftType, FormType, Numbers, AttemptNames, Editions, Reviewers, Attempts
<1>2. QED
  BY <1>1, LedgerUntouched

\* The pages of the others stay, and that of r is as it should be.
LEMMA OnePage ==
  ASSUME ReviewTypeOK, SettingStays, NEW r \in Reviewers, NEW p \in PageType,
         p.state \in {"ready", "saving"} => p.edition \in 1..Editions /\ p.attempt \in Attempts,
         page' = [page EXCEPT ![r] = p]
  PROVE  PagesAreTyped'
BY DEF ReviewTypeOK, PagesAreTyped, SettingStays, PageType, FormType, Numbers, AttemptNames,
   Editions, Reviewers, Attempts

LEMMA LoadingStep ==
  ASSUME ReviewInv, NEW r \in Reviewers, OpenPage(r) \/ FetchData(r)
  PROVE  ReviewInv'
<1> USE DEF ReviewInv
<1>1. /\ SettingStays
      /\ UNCHANGED <<bundle, reviewServer, ledger, torn, writer, drafts>>
      /\ drafts \in DraftsType /\ post \in [Reviewers -> PostType]
      /\ page \in [Reviewers -> PageType]
      /\ 0 \in Numbers /\ bundle.data \in Numbers /\ reviewServer.presentation \in Nat
  BY SettingFacts DEF OpenPage, FetchData, SettingStays, ReviewTypeOK, PagesAreTyped, Numbers
<1>2. CASE OpenPage(r)
  <2> DEFINE opened == [BlankPage EXCEPT !.state = "loading",
                          !.presentation = reviewServer.presentation]
  <2>1. opened \in PageType /\ opened.state = "loading"
    BY <1>1, FormTypes DEF BlankPage, PageType, AttemptNames
  <2>2. page' = [page EXCEPT ![r] = opened]
    BY <1>2 DEF OpenPage
  <2>3. PagesAreTyped'
    <3> HIDE DEF opened
    <3>1. QED
      BY <1>1, <2>1, <2>2, OnePage
  <2>4. NoPost \in PostType /\ NoPost.stage = "none"
    BY <1>1 DEF NoPost, PostType, AttemptNames
  <2>5. /\ post' \in [Reviewers -> PostType]
        /\ \A q \in Reviewers : post'[q] = post[q] \/ post'[q] = NoPost
    <3>1. post' = [post EXCEPT ![r] = NoPost] \/ post' = [post EXCEPT ![r] = post[r]]
      BY <1>2 DEF OpenPage
    <3>2. QED
      BY <1>1, <2>4, <3>1
  <2>6. QED
    BY <1>1, <2>3, <2>4, <2>5, PageStep
<1>3. CASE FetchData(r)
  <2>1. /\ page' = [page EXCEPT ![r] = [page[r] EXCEPT !.incoming = bundle.data]]
        /\ page[r].state = "loading" /\ post' = post
    BY <1>3 DEF FetchData
  <2>2. PICK p : p = [page[r] EXCEPT !.incoming = bundle.data]
    OBVIOUS
  <2>3. p \in PageType /\ p.state = "loading"
    BY <1>1, <2>1, <2>2 DEF PageType
  <2>4. PagesAreTyped'
    BY <1>1, <2>1, <2>2, <2>3, OnePage
  <2>5. QED
    BY <1>1, <2>1, <2>4, PageStep
<1>4. QED
  BY <1>2, <1>3

\* The edition that is shown is one that was fetched, and so was built.
LEMMA ShowStep ==
  ASSUME ReviewInv, NEW r \in Reviewers, ShowBundle(r)
  PROVE  ReviewInv'
<1> USE DEF ReviewInv
<1>1. /\ SettingStays
      /\ UNCHANGED <<bundle, reviewServer, ledger, torn, writer, post, drafts>>
      /\ drafts \in DraftsType /\ post \in [Reviewers -> PostType]
      /\ page \in [Reviewers -> PageType] /\ page[r].incoming # 0 /\ Len(ledger) \in Nat
      /\ 0 \in Numbers
  BY SettingFacts DEF ShowBundle, SettingStays, ReviewTypeOK, PagesAreTyped, Numbers
<1>2. page[r].incoming \in 1..Editions /\ page[r] \in PageType
  BY <1>1, SettingFacts DEF PageType, Numbers
<1>3. PICK a \in Attempts : page' = [page EXCEPT ![r] =
         IF page[r].incoming = reviewServer.edition /\ ~torn
           THEN [@ EXCEPT !.state = "ready", !.edition = page[r].incoming, !.attempt = a,
                   !.records = Len(ledger), !.incoming = 0,
                   !.form = FormOf(drafts[r][page[r].incoming][a])]
           ELSE BlankPage]
  BY DEF ShowBundle
<1>4. FormOf(drafts[r][page[r].incoming][a]) \in FormType
  <2>1. drafts[r][page[r].incoming][a] \in DraftType
    BY <1>1, <1>2, DraftTypes
  <2>2. QED
    BY <2>1, FormTypes
<1>5. PICK form \in FormType : form = FormOf(drafts[r][page[r].incoming][a])
  BY <1>4
<1>6. PICK p \in PageType :
        /\ page' = [page EXCEPT ![r] = p]
        /\ p.state \in {"ready", "saving"} => p.edition \in 1..Editions /\ p.attempt \in Attempts
  <2>1. CASE page[r].incoming = reviewServer.edition /\ ~torn
    <3>1. page' = [page EXCEPT ![r] = [page[r] EXCEPT !.state = "ready",
             !.edition = page[r].incoming, !.attempt = a, !.records = Len(ledger),
             !.incoming = 0, !.form = form]]
      BY <1>3, <1>5, <2>1
    <3>2. PICK p : p = [page[r] EXCEPT !.state = "ready",
             !.edition = page[r].incoming, !.attempt = a, !.records = Len(ledger),
             !.incoming = 0, !.form = form]
      OBVIOUS
    <3>3. p \in PageType /\ p.edition = page[r].incoming /\ p.attempt = a
      BY <1>1, <1>2, <3>2 DEF PageType, Numbers, AttemptNames
    <3>4. QED
      BY <1>2, <3>1, <3>2, <3>3
  <2>2. CASE ~(page[r].incoming = reviewServer.edition /\ ~torn)
    <3>1. page' = [page EXCEPT ![r] = BlankPage]
      BY <1>3, <2>2
    <3>2. BlankPage \in PageType /\ BlankPage.state = "blank"
      BY <1>1, FormTypes DEF BlankPage, PageType, AttemptNames
    <3>3. QED
      BY <3>1, <3>2
  <2>3. QED
    BY <2>1, <2>2
<1>7. PagesAreTyped'
  BY <1>1, <1>6, OnePage
<1>8. QED
  BY <1>1, <1>7, PageStep

\* Keeping or dropping one draft leaves the drafts well typed.
LEMMA OneDraft ==
  ASSUME drafts \in DraftsType, NEW r, NEW e, NEW a, NEW d \in DraftType,
         drafts' = [drafts EXCEPT ![r][e][a] = d]
  PROVE  drafts' \in DraftsType
BY DEF DraftsType

LEMMA SelectStep ==
  ASSUME ReviewInv, NEW r \in Reviewers, SelectAttempt(r)
  PROVE  ReviewInv'
<1> USE DEF ReviewInv
<1>1. /\ SettingStays
      /\ UNCHANGED <<bundle, reviewServer, ledger, torn, writer, post, drafts>>
      /\ drafts \in DraftsType /\ post \in [Reviewers -> PostType]
      /\ page \in [Reviewers -> PageType]
      /\ page[r].state = "ready" /\ page[r].edition \in 1..Editions
  BY DEF SelectAttempt, MaySelect, SettingStays, ReviewTypeOK, PagesAreTyped
<1>2. PICK a \in Attempts :
        page' = [page EXCEPT ![r].attempt = a,
                             ![r].form = FormOf(drafts[r][page[r].edition][a])]
  BY DEF SelectAttempt
<1>3. drafts[r][page[r].edition][a] \in DraftType
  BY <1>1, DraftTypes
<1>4. PICK form \in FormType : form = FormOf(drafts[r][page[r].edition][a])
  BY <1>3, FormTypes
<1>5. PICK p : p = [page[r] EXCEPT !.attempt = a, !.form = form]
  OBVIOUS
<1>6. p \in PageType /\ p.edition = page[r].edition /\ p.attempt = a
  BY <1>1, <1>5 DEF PageType, AttemptNames
<1>7. page' = [page EXCEPT ![r] = p]
  BY <1>1, <1>2, <1>4, <1>5
<1>8. PagesAreTyped'
  BY <1>1, <1>6, <1>7, OnePage
<1>9. QED
  BY <1>1, <1>8, PageStep

\* Editing and revising change the form and keep it as a draft.
LEMMA FormStep ==
  ASSUME ReviewInv, NEW r \in Reviewers, EditForm(r) \/ Revise(r)
  PROVE  ReviewInv'
<1> USE DEF ReviewInv
<1>1. /\ SettingStays
      /\ UNCHANGED <<bundle, reviewServer, ledger, torn, writer, post>>
      /\ drafts \in DraftsType /\ post \in [Reviewers -> PostType]
      /\ page \in [Reviewers -> PageType]
      /\ page[r].state = "ready"
      /\ page[r].edition \in 1..Editions /\ page[r].attempt \in Attempts
  BY DEF EditForm, Revise, Ready, SettingStays, ReviewTypeOK, PagesAreTyped
<1>2. PICK n \in Nat : page' = [page EXCEPT ![r].form = Form(n, TRUE)] /\ KeepDraft(r, n)
  <2>1. CASE EditForm(r)
    <3>1. page[r].form \in FormType /\ page[r] \in PageType
      BY <1>1 DEF PageType
    <3>2. PICK form : form = [page[r].form EXCEPT !.dirty = TRUE]
      OBVIOUS
    <3>3. form = Form(page[r].form.supersedes, TRUE) /\ page[r].form.supersedes \in Nat
      BY <3>1, <3>2 DEF FormType, Form
    <3>4. page' = [page EXCEPT ![r].form = form] /\ KeepDraft(r, page[r].form.supersedes)
      BY <1>1, <2>1, <3>1, <3>2 DEF EditForm
    <3>5. QED
      BY <3>3, <3>4
  <2>2. CASE Revise(r)
    <3>1. \A n \in ActiveFor(r) : n \in Nat
      BY <1>1 DEF ActiveFor, PageType
    <3>2. QED
      BY <2>2, <3>1 DEF Revise
  <2>3. QED
    BY <2>1, <2>2
<1>3. PICK form \in FormType : form = Form(n, TRUE)
  BY FormTypes
<1>4. PICK p : p = [page[r] EXCEPT !.form = form]
  OBVIOUS
<1>5. p \in PageType /\ p.edition = page[r].edition /\ p.attempt = page[r].attempt
  BY <1>1, <1>4 DEF PageType
<1>6. page' = [page EXCEPT ![r] = p]
  BY <1>1, <1>2, <1>3, <1>4
<1>7. PagesAreTyped'
  BY <1>1, <1>5, <1>6, OnePage
<1>8. PICK d \in DraftType : d = [kept |-> TRUE, supersedes |-> n]
  BY DEF DraftType
<1>9. drafts' \in DraftsType
  BY <1>1, <1>2, <1>8, OneDraft DEF KeepDraft
<1>10. QED
  BY <1>1, <1>7, <1>9, PageStep

LEMMA SubmitStep ==
  ASSUME ReviewInv, NEW r \in Reviewers, Submit(r)
  PROVE  ReviewInv'
<1> USE DEF ReviewInv
<1>1. /\ SettingStays
      /\ UNCHANGED <<bundle, reviewServer, ledger, torn, writer, drafts>>
      /\ drafts \in DraftsType /\ post \in [Reviewers -> PostType]
      /\ page \in [Reviewers -> PageType]
      /\ page[r].edition \in 1..Editions /\ page[r].attempt \in Attempts
      /\ page' = [page EXCEPT ![r].state = "saving"]
      /\ 0 \in Numbers
  BY SettingFacts DEF Submit, Ready, SettingStays, ReviewTypeOK, PagesAreTyped, Numbers
<1>2. PICK p : p = [page[r] EXCEPT !.state = "saving"]
  OBVIOUS
<1>3. p \in PageType /\ p.edition = page[r].edition /\ p.attempt = page[r].attempt
  BY <1>1, <1>2 DEF PageType
<1>4. page' = [page EXCEPT ![r] = p]
  BY <1>1, <1>2
<1>5. PagesAreTyped'
  BY <1>1, <1>3, <1>4, OnePage
<1>6. PICK sent : sent = [NoPost EXCEPT
        !.stage = "sent", !.edition = page[r].edition, !.presentation = page[r].presentation,
        !.attempt = page[r].attempt, !.supersedes = page[r].form.supersedes]
  OBVIOUS
<1>7. sent = [stage |-> "sent", edition |-> page[r].edition,
              presentation |-> page[r].presentation, attempt |-> page[r].attempt,
              supersedes |-> page[r].form.supersedes, bound |-> 0, previous |-> 0]
  BY <1>6 DEF NoPost
<1>8. sent \in PostType /\ sent.stage = "sent"
  BY <1>1, <1>7 DEF PostType, PageType, FormType
<1>9. post' = [post EXCEPT ![r] = sent]
  BY <1>6 DEF Submit
<1>10. /\ post' \in [Reviewers -> PostType]
       /\ \A q \in Reviewers : post'[q].stage \in {"bound", "writing"} => post'[q] = post[q]
  BY <1>1, <1>8, <1>9
<1>11. QED
  BY <1>1, <1>5, <1>10, PageStep

\* The answer, or none: the form stays, or is empty and its draft gone.
LEMMA AnswerStep ==
  ASSUME ReviewInv, NEW r \in Reviewers, SaveSucceeds(r) \/ SaveFails(r)
  PROVE  ReviewInv'
<1> USE DEF ReviewInv
<1>1. /\ SettingStays
      /\ UNCHANGED <<bundle, reviewServer, ledger, torn, writer>>
      /\ drafts \in DraftsType /\ post \in [Reviewers -> PostType]
      /\ page \in [Reviewers -> PageType]
      /\ page[r].edition \in 1..Editions /\ page[r].attempt \in Attempts
      /\ post' = [post EXCEPT ![r] = NoPost]
      /\ 0 \in Numbers /\ Len(ledger) \in Nat
  BY SettingFacts DEF SaveSucceeds, SaveFails, SettingStays, ReviewTypeOK, PagesAreTyped, Numbers
<1>2. PICK form \in FormType : form = EmptyForm
  BY FormTypes
<1>3. PICK p \in PageType :
        /\ page' = [page EXCEPT ![r] = p]
        /\ p.edition = page[r].edition /\ p.attempt = page[r].attempt
  <2>1. CASE SaveSucceeds(r)
    <3>1. PICK p : p = [page[r] EXCEPT !.state = "ready", !.form = form, !.records = Len(ledger)]
      OBVIOUS
    <3>2. p \in PageType /\ p.edition = page[r].edition /\ p.attempt = page[r].attempt
      BY <1>1, <3>1 DEF PageType
    <3>3. page' = [page EXCEPT ![r] = p]
      BY <1>1, <1>2, <2>1, <3>1 DEF SaveSucceeds
    <3>4. QED
      BY <3>2, <3>3
  <2>2. CASE SaveFails(r)
    <3>1. PICK p : p = [page[r] EXCEPT !.state = "ready"]
      OBVIOUS
    <3>2. p \in PageType /\ p.edition = page[r].edition /\ p.attempt = page[r].attempt
      BY <1>1, <3>1 DEF PageType
    <3>3. page' = [page EXCEPT ![r] = p]
      BY <1>1, <2>2, <3>1 DEF SaveFails
    <3>4. QED
      BY <3>2, <3>3
  <2>3. QED
    BY <2>1, <2>2
<1>4. PagesAreTyped'
  BY <1>1, <1>3, OnePage
<1>5. PICK d \in DraftType : d = NoDraft
  BY DEF DraftType, NoDraft
<1>6. drafts' \in DraftsType
  <2>1. CASE SaveSucceeds(r)
    BY <1>1, <1>5, <2>1, OneDraft DEF SaveSucceeds
  <2>2. CASE SaveFails(r)
    BY <1>1, <2>2 DEF SaveFails
  <2>3. QED
    BY <2>1, <2>2
<1>7. NoPost \in PostType /\ NoPost.stage = "none"
  BY <1>1 DEF NoPost, PostType, AttemptNames
<1>8. /\ post' \in [Reviewers -> PostType]
      /\ \A q \in Reviewers : post'[q].stage \in {"bound", "writing"} => post'[q] = post[q]
  BY <1>1, <1>7
<1>9. QED
  BY <1>1, <1>4, <1>6, <1>8, PageStep

-----------------------------------------------------------------------------
(* The review workbench: the theorem *)

LEMMA ReviewStep == ReviewInv /\ [ReviewNext]_reviewVars => ReviewInv'
<1> SUFFICES ASSUME ReviewInv, [ReviewNext]_reviewVars PROVE ReviewInv'
  OBVIOUS
<1>1. CASE BeginRebuild \/ FinishRebuild \/ StartServer
  BY <1>1, ServerStep
<1>2. CASE StopServer
  BY <1>2, StopStep
<1>3. ASSUME NEW r \in Reviewers, AcceptPost(r) \/ ReadLedger(r) \/ AppendReview(r)
      PROVE  ReviewInv'
  BY <1>3, AcceptStep, ReadStep, AppendStep
<1>4. ASSUME NEW r \in Reviewers,
             OpenPage(r) \/ FetchData(r) \/ ShowBundle(r) \/ SelectAttempt(r)
      PROVE  ReviewInv'
  BY <1>4, LoadingStep, ShowStep, SelectStep
<1>5. ASSUME NEW r \in Reviewers,
             EditForm(r) \/ Revise(r) \/ Submit(r) \/ SaveSucceeds(r) \/ SaveFails(r)
      PROVE  ReviewInv'
  BY <1>5, FormStep, SubmitStep, AnswerStep
<1>6. CASE UNCHANGED reviewVars
  <2>1. UNCHANGED <<setting, bundle, reviewServer, ledger, torn, writer, post, page, drafts>>
    BY <1>6 DEF reviewVars
  <2>2. QED
    BY <2>1 DEF ReviewInv, ReviewTypeOK, PagesAreTyped, LockInv, BindingInv, LedgerIsEvidence,
       LedgerIsChained, CatalogBindsWhatWasSeen, PageType, PostType, RecordType, DraftsType,
       DraftType, FormType, Numbers, AttemptNames, Editions, Reviewers, Attempts, HasCatalog
<1>7. QED
  BY <1>1, <1>2, <1>3, <1>4, <1>5, <1>6 DEF ReviewNext

\* Whatever is rebuilt, restarted and submitted at the same time, HumanReviewStore's ledger
\* is one chain, and with a catalog each record is about the edition its reviewer saw.
THEOREM Evidence == ReviewSpec => []LedgerIsEvidence
<1>1. ReviewInv => LedgerIsEvidence
  BY DEF ReviewInv
<1>2. QED
  BY InitReview, ReviewStep, <1>1, PTL DEF ReviewSpec

-----------------------------------------------------------------------------
(* The review workbench: the drafts *)

\* A page that waits has a request under way, for what it shows.
SavingInv ==
  \A r \in Reviewers : page[r].state = "saving" =>
    /\ post[r].stage # "none"
    /\ post[r].edition = page[r].edition /\ post[r].attempt = page[r].attempt

\* On its way a request stays one for the same edition and attempt.
LEMMA PostsCarry ==
  ASSUME ReviewInv,
         StopServer \/ \E r \in Reviewers : AcceptPost(r) \/ ReadLedger(r) \/ AppendReview(r)
  PROVE  /\ UNCHANGED <<setting, page, drafts>>
         /\ \A q \in Reviewers : post[q].stage # "none" =>
              /\ post'[q].stage # "none"
              /\ post'[q].edition = post[q].edition /\ post'[q].attempt = post[q].attempt
<1>1. post \in [Reviewers -> PostType]
  BY DEF ReviewInv, ReviewTypeOK
<1>2. CASE StopServer
  <2>1. SUFFICES ASSUME NEW q \in Reviewers, post[q].stage # "none"
                 PROVE  /\ post'[q].stage # "none"
                        /\ post'[q].edition = post[q].edition /\ post'[q].attempt = post[q].attempt
    BY <1>2 DEF StopServer
  <2>2. post'[q] = [post[q] EXCEPT !.stage = "failed"]
    BY <1>2, <2>1 DEF StopServer
  <2>3. QED
    BY <1>1, <2>2 DEF PostType
<1>3. ASSUME NEW r \in Reviewers, AcceptPost(r) \/ ReadLedger(r) \/ AppendReview(r)
      PROVE  /\ UNCHANGED <<setting, page, drafts>>
             /\ \A q \in Reviewers : post[q].stage # "none" =>
                  /\ post'[q].stage # "none"
                  /\ post'[q].edition = post[q].edition /\ post'[q].attempt = post[q].attempt
  <2>1. UNCHANGED <<setting, page, drafts>> /\ post[r] \in PostType
    BY <1>1, <1>3 DEF AcceptPost, ReadLedger, AppendReview
  <2>2. /\ \A q \in Reviewers \ {r} : post'[q] = post[q]
        /\ post'[r].stage # "none"
        /\ post'[r].edition = post[r].edition /\ post'[r].attempt = post[r].attempt
    <3>1. CASE AcceptPost(r)
      <4>1. CASE MayPost(r)
        BY <1>1, <2>1, <3>1, <4>1 DEF AcceptPost, PostType
      <4>2. CASE ~MayPost(r)
        BY <1>1, <2>1, <3>1, <4>2 DEF AcceptPost, PostType
      <4>3. QED
        BY <4>1, <4>2
    <3>2. CASE ReadLedger(r)
      <4>1. CASE ~torn /\ MaySupersede(r)
        BY <1>1, <2>1, <3>2, <4>1 DEF ReadLedger, PostType
      <4>2. CASE ~(~torn /\ MaySupersede(r))
        BY <1>1, <2>1, <3>2, <4>2 DEF ReadLedger, PostType
      <4>3. QED
        BY <4>1, <4>2
    <3>3. CASE AppendReview(r)
      BY <1>1, <2>1, <3>3 DEF AppendReview, PostType
    <3>4. QED
      BY <1>3, <3>1, <3>2, <3>3
  <2>3. QED
    BY <1>1, <2>1, <2>2
<1>4. QED
  BY <1>2, <1>3

\* Whoever works in a page does not wait.
LEMMA PagesWork ==
  ASSUME ReviewInv, NEW r \in Reviewers,
         \/ OpenPage(r) \/ FetchData(r) \/ ShowBundle(r) \/ SelectAttempt(r) \/ EditForm(r)
         \/ Revise(r) \/ SaveSucceeds(r) \/ SaveFails(r)
  PROVE  /\ setting' = setting /\ page'[r].state # "saving"
         /\ \A q \in Reviewers \ {r} : page'[q] = page[q] /\ post'[q] = post[q]
<1>1. /\ page \in [Reviewers -> PageType] /\ page[r] \in PageType
      /\ post \in [Reviewers -> PostType]
  BY DEF ReviewInv, ReviewTypeOK, PagesAreTyped
<1>2. page'[r].state # "saving" /\ \A q \in Reviewers \ {r} : page'[q] = page[q]
  <2>1. CASE OpenPage(r)
    BY <1>1, <2>1 DEF OpenPage, BlankPage
  <2>2. CASE FetchData(r)
    BY <1>1, <2>2 DEF FetchData, PageType
  <2>3. CASE ShowBundle(r)
    <3>1. PICK a \in Attempts :
            page' = [page EXCEPT ![r] =
              IF page[r].incoming = reviewServer.edition /\ ~torn
                THEN [@ EXCEPT !.state = "ready", !.edition = page[r].incoming, !.attempt = a,
                        !.records = Len(ledger), !.incoming = 0,
                        !.form = FormOf(drafts[r][page[r].incoming][a])]
                ELSE BlankPage]
      BY <2>3 DEF ShowBundle
    <3>2. PICK form : form = FormOf(drafts[r][page[r].incoming][a])
      OBVIOUS
    <3>3. QED
      BY <1>1, <3>1, <3>2 DEF BlankPage, PageType
  <2>4. CASE SelectAttempt(r)
    <3>1. page[r].state = "ready"
      BY <2>4 DEF SelectAttempt, MaySelect
    <3>2. PICK a \in Attempts :
            page' = [page EXCEPT ![r].attempt = a,
                                 ![r].form = FormOf(drafts[r][page[r].edition][a])]
      BY <2>4 DEF SelectAttempt
    <3>3. PICK form : form = FormOf(drafts[r][page[r].edition][a])
      OBVIOUS
    <3>4. QED
      BY <1>1, <3>1, <3>2, <3>3 DEF PageType
  <2>5. CASE EditForm(r)
    BY <1>1, <2>5 DEF EditForm, Ready, PageType
  <2>6. CASE Revise(r)
    <3>1. page[r].state = "ready"
      BY <2>6 DEF Revise, Ready
    <3>2. PICK n \in ActiveFor(r) : page' = [page EXCEPT ![r].form = Form(n, TRUE)]
      BY <2>6 DEF Revise
    <3>3. QED
      BY <1>1, <3>1, <3>2 DEF PageType
  <2>7. CASE SaveSucceeds(r)
    <3>1. page' = [page EXCEPT ![r].state = "ready", ![r].form = EmptyForm,
                               ![r].records = Len(ledger)]
      BY <2>7 DEF SaveSucceeds
    <3>2. QED
      BY <1>1, <3>1 DEF PageType
  <2>8. CASE SaveFails(r)
    BY <1>1, <2>8 DEF SaveFails, PageType
  <2>9. QED
    BY <2>1, <2>2, <2>3, <2>4, <2>5, <2>6, <2>7, <2>8
<1>3. setting' = setting /\ \A q \in Reviewers \ {r} : post'[q] = post[q]
  BY <1>1 DEF OpenPage, FetchData, ShowBundle, SelectAttempt, EditForm, Revise, SaveSucceeds,
     SaveFails
<1>4. QED
  BY <1>1, <1>2, <1>3

LEMMA SubmitEffect ==
  ASSUME ReviewInv, NEW r \in Reviewers, Submit(r)
  PROVE  /\ UNCHANGED <<setting, drafts>>
         /\ \A q \in Reviewers \ {r} : page'[q] = page[q] /\ post'[q] = post[q]
         /\ post'[r].stage = "sent"
         /\ post'[r].edition = page'[r].edition /\ post'[r].attempt = page'[r].attempt
<1>1. /\ page \in [Reviewers -> PageType] /\ page[r] \in PageType
      /\ post \in [Reviewers -> PostType]
  BY DEF ReviewInv, ReviewTypeOK, PagesAreTyped
<1>2. /\ \A q \in Reviewers \ {r} : post'[q] = post[q]
      /\ post'[r].stage = "sent"
      /\ post'[r].edition = page[r].edition /\ post'[r].attempt = page[r].attempt
  BY <1>1 DEF Submit, NoPost
<1>3. page' = [page EXCEPT ![r].state = "saving"] /\ UNCHANGED <<setting, drafts>>
  BY DEF Submit
<1>4. QED
  BY <1>1, <1>2, <1>3 DEF PageType

LEMMA SavingStep == ReviewInv /\ SavingInv /\ [ReviewNext]_reviewVars => SavingInv'
<1> SUFFICES ASSUME ReviewInv, SavingInv, [ReviewNext]_reviewVars PROVE SavingInv'
  OBVIOUS
<1>1. CASE BeginRebuild \/ FinishRebuild \/ StartServer \/ UNCHANGED reviewVars
  BY <1>1 DEF BeginRebuild, FinishRebuild, StartServer, reviewVars, SavingInv, Reviewers
<1>2. CASE StopServer \/ \E r \in Reviewers : AcceptPost(r) \/ ReadLedger(r) \/ AppendReview(r)
  BY <1>2, PostsCarry DEF SavingInv, Reviewers
<1>3. ASSUME NEW r \in Reviewers,
             \/ OpenPage(r) \/ FetchData(r) \/ ShowBundle(r) \/ SelectAttempt(r) \/ EditForm(r)
             \/ Revise(r) \/ SaveSucceeds(r) \/ SaveFails(r)
      PROVE  SavingInv'
  BY <1>3, PagesWork DEF SavingInv, Reviewers
<1>4. ASSUME NEW r \in Reviewers, Submit(r) PROVE SavingInv'
  BY <1>4, SubmitEffect DEF SavingInv, Reviewers
<1>5. QED
  BY <1>1, <1>2, <1>3, <1>4 DEF ReviewNext

\* A draft that is put in a place leaves the others; the one of a page that gets its
\* answer is for what was saved.
LEMMA DraftGoes ==
  ASSUME ReviewInv, SavingInv, [ReviewNext]_reviewVars,
         NEW q \in Reviewers, NEW e \in 1..Editions, NEW a \in Attempts,
         drafts[q][e][a].kept, ~drafts'[q][e][a].kept
  PROVE  post[q].stage = "saved" /\ post[q].edition = e /\ post[q].attempt = a
<1>1. drafts \in DraftsType
  BY DEF ReviewInv, ReviewTypeOK
<1>2. drafts' # drafts
  OBVIOUS
<1>3. PICK r \in Reviewers : EditForm(r) \/ Revise(r) \/ SaveSucceeds(r)
  BY <1>2 DEF ReviewNext, reviewVars, BeginRebuild, FinishRebuild, StartServer, StopServer, AcceptPost,
     ReadLedger, AppendReview, OpenPage, FetchData, ShowBundle, SelectAttempt, Submit, SaveFails
<1>4. PICK d : /\ drafts' = [drafts EXCEPT ![r][page[r].edition][page[r].attempt] = d]
               /\ d.kept \/ SaveSucceeds(r)
  <2>1. CASE EditForm(r) \/ Revise(r)
    <3>1. PICK supersedes : KeepDraft(r, supersedes)
      BY <2>1 DEF EditForm, Revise
    <3>2. PICK d : d = [kept |-> TRUE, supersedes |-> supersedes]
      OBVIOUS
    <3>3. drafts' = [drafts EXCEPT ![r][page[r].edition][page[r].attempt] = d]
      BY <3>1, <3>2 DEF KeepDraft
    <3>4. d.kept
      BY <3>2
    <3>5. QED
      BY <3>3, <3>4
  <2>2. CASE SaveSucceeds(r)
    <3>1. drafts' = [drafts EXCEPT ![r][page[r].edition][page[r].attempt] = NoDraft]
      BY <2>2 DEF SaveSucceeds
    <3>2. QED
      BY <2>2, <3>1
  <2>3. QED
    BY <1>3, <2>1, <2>2
<1>5. page[r].edition \in 1..Editions /\ page[r].attempt \in Attempts
  BY <1>3 DEF ReviewInv, ReviewTypeOK, PagesAreTyped, EditForm, Revise, SaveSucceeds, Ready
<1>6. q = r /\ e = page[r].edition /\ a = page[r].attempt /\ ~d.kept
  BY <1>1, <1>4, <1>5 DEF DraftsType
<1>7. QED
  BY <1>4, <1>6 DEF SaveSucceeds, SavingInv

\* What a reviewer wrote goes only when the store has taken it: not by a reload, another
\* attempt, a new edition, or a request that got no answer (DraftsAreKept).
THEOREM DraftsKept == ReviewSpec => DraftsAreKept
<1>1. ReviewInit => ReviewInv /\ SavingInv
  <2>1. ReviewInit => SavingInv
    BY DEF ReviewInit, SavingInv, BlankPage
  <2>2. QED
    BY <2>1, InitReview
<1>2. ReviewInv /\ SavingInv /\ [ReviewNext]_reviewVars => (ReviewInv /\ SavingInv)'
  BY ReviewStep, SavingStep
<1>3. ReviewInv /\ SavingInv /\ [ReviewNext]_reviewVars =>
        [\A r \in Reviewers, e \in 1..Editions, a \in Attempts :
           drafts[r][e][a].kept /\ ~drafts'[r][e][a].kept =>
             post[r].stage = "saved" /\ post[r].edition = e /\ post[r].attempt = a]_reviewVars
  BY DraftGoes
<1>4. QED
  BY <1>1, <1>2, <1>3, PTL DEF ReviewSpec, DraftsAreKept

-----------------------------------------------------------------------------
(* The detached campaign: types *)

CampaignConditions == [config : Configs, timeout : Timeouts, program : Programs]
Manifests ==
  {NoFile, TornFile} \union
  [config : Configs, timeout : Timeouts \union {"any"}, program : Programs \union {"any"}]
Ends == {"succeeded", "failed", "blocked", "no_agent"}
Rows == {NoRow} \union [status : Ends, condition : CampaignConditions]
CampaignStates ==
  [at : {"none", "preflight", "planning", "choosing", "row", "ended"},
   rows : [Samples -> Rows], failures : Nat, code : {0, 1}, sample : Samples \union {"none"}]

RunnerTypes ==
  /\ runner \in [id : StartIds \union {0}, pid : BOOLEAN,
                 status : {"none", "launching", "running", "completed", "failed"}]
  /\ starter \in [StartIds ->
       {"idle", "raised", "checked", "commanded", "launched", "spawned", "done", "dead"}]
  /\ runnerWorker \in [StartIds ->
       {"none", "waiting", "ready", "running", "finishing", "exited"}]
  /\ alone \in BOOLEAN

RowTypes ==
  /\ driver \in {"agent", "geometry"}
  /\ argv \in [StartIds -> CampaignConditions]
  /\ campaign \in [StartIds -> CampaignStates]
  /\ manifest \in Manifests
  /\ rowFile \in [torn : BOOLEAN, rows : [Samples -> Rows]]
  /\ project \in [Samples -> Ends \union {"open"}]

\* A sample that is to be recorded came to an end.
SampleInv ==
  \A c \in StartIds : campaign[c].at = "row" =>
    campaign[c].sample \in Samples /\ project[campaign[c].sample] \in Ends

CampaignTypes == RunnerTypes /\ RowTypes /\ SampleInv

LEMMA InitialCampaignTypes == CampaignInit => CampaignTypes
<1> SUFFICES ASSUME CampaignInit PROVE CampaignTypes
  OBVIOUS
<1>1. RunnerTypes
  BY DEF CampaignInit, RunnerTypes, NoRunner
<1>2. NoRows \in [Samples -> Rows]
  BY DEF NoRows, Rows
<1>3. campaign \in [StartIds -> CampaignStates]
  BY <1>2 DEF CampaignInit, CampaignStates, NoCampaign
<1>4. argv \in [StartIds -> CampaignConditions]
  BY DEF CampaignInit, CampaignConditions, Condition
<1>5. RowTypes
  BY <1>2, <1>3, <1>4 DEF CampaignInit, RowTypes, Manifests
<1>6. QED
  BY <1>1, <1>5 DEF CampaignTypes, SampleInv, CampaignInit, NoCampaign

\* What a campaign process can bind is the manifest of its arguments, which is a manifest.
LEMMA ManifestTypes ==
  ASSUME RowTypes, NEW asked \in CampaignConditions
  PROVE  Manifest(asked) \in Manifests \ {NoFile, TornFile}
BY CampaignAssumption
DEF RowTypes, Manifest, AgentManifest, GeometryManifest, ProgramOf, Condition, CampaignConditions,
    Manifests, NoFile, TornFile

-----------------------------------------------------------------------------
(* The detached campaign: what each step does *)

RunnerVars == <<runner, starter, runnerWorker, alone>>
RowVars == <<driver, argv, campaign, manifest, rowFile, project>>

\* Only the process of start c moves.
OnlyCampaign(c) ==
  /\ \A d \in StartIds \ {c} : campaign'[d] = campaign[d]
  /\ UNCHANGED <<RunnerVars, driver, argv>>

LEMMA EndEffect ==
  ASSUME CampaignTypes, NEW c \in StartIds, NEW code \in {0, 1}, EndWith(c, code)
  PROVE  /\ campaign' \in [StartIds -> CampaignStates]
         /\ campaign'[c].at = "ended"
         /\ \A d \in StartIds \ {c} : campaign'[d] = campaign[d]
<1>1. campaign \in [StartIds -> CampaignStates]
  BY DEF CampaignTypes, RowTypes
<1>2. campaign' = [campaign EXCEPT ![c].at = "ended", ![c].code = code]
  BY DEF EndWith
<1>3. QED
  BY ONLY <1>1, <1>2, c \in StartIds, code \in {0, 1} DEF CampaignStates

LEMMA EndingEffect ==
  ASSUME CampaignTypes, NEW c \in StartIds,
         RefuseCampaign(c) \/ EndCampaignProcess(c) \/ SampleRaises(c)
  PROVE  /\ CampaignTypes' /\ OnlyCampaign(c) /\ campaign'[c].at = "ended" /\ Live(c)
         /\ UNCHANGED <<manifest, rowFile, project>>
<1>1. PICK code \in {0, 1} : EndWith(c, code)
  BY DEF RefuseCampaign, EndCampaignProcess, SampleRaises
<1>2. /\ UNCHANGED <<driver, runner, starter, runnerWorker, argv, manifest, rowFile, project, alone>>
      /\ campaign[c].at \in {"preflight", "choosing", "row"}
  BY DEF RefuseCampaign, EndCampaignProcess, SampleRaises
<1>3. QED
  BY <1>1, <1>2, EndEffect
  DEF CampaignTypes, RunnerTypes, RowTypes, SampleInv, OnlyCampaign, RunnerVars, Live

LEMMA DyingEffect ==
  ASSUME CampaignTypes, NEW c \in StartIds, CampaignDies(c)
  PROVE  /\ CampaignTypes' /\ OnlyCampaign(c) /\ campaign'[c].at = "ended" /\ Live(c)
         /\ manifest # NoFile => manifest' = manifest
         /\ manifest' \in {manifest, TornFile}
         /\ rowFile'.rows = rowFile.rows /\ UNCHANGED project
<1>1. EndWith(c, 1) /\ Live(c) /\ UNCHANGED <<driver, runner, starter, runnerWorker, argv, project, alone>>
  BY DEF CampaignDies
<1>2. /\ manifest # NoFile => manifest' = manifest
      /\ manifest' \in {manifest, TornFile}
  BY DEF CampaignDies
<1>3. rowFile' \in [torn : BOOLEAN, rows : [Samples -> Rows]] /\ rowFile'.rows = rowFile.rows
  BY DEF CampaignDies, CampaignTypes, RowTypes
<1>4. manifest' \in Manifests
  BY <1>2 DEF CampaignTypes, RowTypes, Manifests
<1>5. QED
  BY <1>1, <1>2, <1>3, <1>4, EndEffect
  DEF CampaignTypes, RunnerTypes, RowTypes, SampleInv, OnlyCampaign, RunnerVars

LEMMA BindEffect ==
  ASSUME CampaignTypes, NEW c \in StartIds, BindManifest(c)
  PROVE  /\ CampaignTypes' /\ OnlyCampaign(c) /\ Live(c)
         /\ manifest # NoFile => manifest' = manifest
         /\ \/ campaign'[c].at = "planning" /\ manifest' = Manifest(argv[c])
            \/ campaign'[c].at = "ended" /\ manifest' = manifest
         /\ UNCHANGED <<rowFile, project>>
<1>1. /\ campaign[c].at = "preflight"
      /\ UNCHANGED <<driver, runner, starter, runnerWorker, argv, rowFile, project, alone>>
  BY DEF BindManifest
<1>2. Manifest(argv[c]) \in Manifests
  BY ManifestTypes DEF CampaignTypes, RowTypes
<1>3. CASE ManifestAgrees(c)
  <2>1. /\ campaign' = [campaign EXCEPT ![c].at = "planning"]
        /\ manifest # NoFile => manifest' = manifest
        /\ manifest' = Manifest(argv[c])
    BY <1>3 DEF BindManifest, ManifestAgrees
  <2>2. /\ campaign' \in [StartIds -> CampaignStates] /\ campaign'[c].at = "planning"
        /\ \A d \in StartIds \ {c} : campaign'[d] = campaign[d]
    BY <2>1 DEF CampaignTypes, RowTypes, CampaignStates
  <2>3. QED
    BY <1>1, <1>2, <2>1, <2>2 DEF CampaignTypes, RunnerTypes, RowTypes, SampleInv, OnlyCampaign, RunnerVars, Live
<1>4. CASE ~ManifestAgrees(c)
  <2>1. EndWith(c, 1) /\ UNCHANGED manifest
    BY <1>4 DEF BindManifest
  <2>2. QED
    BY <1>1, <2>1, EndEffect DEF CampaignTypes, RunnerTypes, RowTypes, SampleInv, OnlyCampaign, RunnerVars, Live
<1>5. QED
  BY <1>3, <1>4

LEMMA LoadEffect ==
  ASSUME CampaignTypes, NEW c \in StartIds, LoadResults(c)
  PROVE  /\ CampaignTypes' /\ OnlyCampaign(c) /\ campaign[c].at = "planning"
         /\ \/ campaign'[c].at = "choosing" /\ campaign'[c].rows = rowFile.rows
            \/ campaign'[c].at = "ended"
         /\ UNCHANGED <<manifest, rowFile, project>>
<1>1. /\ campaign[c].at = "planning"
      /\ UNCHANGED <<driver, runner, starter, runnerWorker, argv, manifest, rowFile, project, alone>>
  BY DEF LoadResults
<1>2. CASE EndWith(c, 0)
  BY <1>1, <1>2, EndEffect DEF CampaignTypes, RunnerTypes, RowTypes, SampleInv, OnlyCampaign, RunnerVars
<1>3. CASE campaign' = [campaign EXCEPT ![c].at = IF rowFile.torn THEN "ended" ELSE "choosing",
                                        ![c].code = IF rowFile.torn THEN 1 ELSE 0,
                                        ![c].rows = ReadRows(c)]
  <2>1. PICK at \in {"ended", "choosing"}, code \in {0, 1}, rows \in [Samples -> Rows] :
          /\ at = (IF rowFile.torn THEN "ended" ELSE "choosing")
          /\ code = (IF rowFile.torn THEN 1 ELSE 0)
          /\ rows = rowFile.rows
    BY DEF CampaignTypes, RowTypes
  <2>2. campaign' = [campaign EXCEPT ![c].at = at, ![c].code = code, ![c].rows = rows]
    BY <1>3, <2>1 DEF ReadRows
  <2>3. /\ campaign' \in [StartIds -> CampaignStates]
        /\ campaign'[c].at = at /\ campaign'[c].rows = rows
        /\ \A d \in StartIds \ {c} : campaign'[d] = campaign[d]
    <3>1. campaign \in [StartIds -> CampaignStates]
      BY DEF CampaignTypes, RowTypes
    <3>2. campaign[c] \in CampaignStates
      BY <3>1
    <3>3. /\ campaign'[c] = [campaign[c] EXCEPT !.at = at, !.code = code, !.rows = rows]
          /\ campaign' = [d \in StartIds |-> campaign'[d]]
          /\ \A d \in StartIds \ {c} : campaign'[d] = campaign[d]
      BY ONLY <3>1, <2>2
    <3>4. campaign'[c] \in CampaignStates /\ campaign'[c].at = at /\ campaign'[c].rows = rows
      BY ONLY <3>2, <3>3, at \in {"ended", "choosing"}, code \in {0, 1},
              rows \in [Samples -> Rows] DEF CampaignStates
    <3>5. campaign' \in [StartIds -> CampaignStates]
      BY ONLY <3>1, <3>3, <3>4
    <3>6. QED
      BY <3>3, <3>4, <3>5
  <2>4. QED
    BY <1>1, <2>1, <2>3 DEF CampaignTypes, RunnerTypes, RowTypes, SampleInv, OnlyCampaign, RunnerVars
<1>4. QED
  BY <1>2, <1>3 DEF LoadResults

LEMMA RunEffect ==
  ASSUME CampaignTypes, NEW c \in StartIds, NEW s \in Samples, RunSample(c, s)
  PROVE  /\ CampaignTypes' /\ OnlyCampaign(c)
         /\ campaign[c].at = "choosing" /\ s \notin Done(c)
         /\ campaign'[c].at = "row" /\ campaign'[c].sample = s
         /\ campaign'[c].rows = campaign[c].rows
         /\ UNCHANGED <<manifest, rowFile>>
<1>1. /\ campaign[c].at = "choosing" /\ s \notin Done(c)
      /\ campaign' = [campaign EXCEPT ![c].at = "row", ![c].sample = s]
      /\ UNCHANGED <<driver, runner, starter, runnerWorker, argv, manifest, rowFile, alone>>
  BY DEF RunSample
<1>2. campaign \in [StartIds -> CampaignStates] /\ project \in [Samples -> Ends \union {"open"}]
  BY DEF CampaignTypes, RowTypes
<1>3. PICK end \in Ends : project' = [project EXCEPT ![s] = end]
  BY DEF RunSample, Ends
<1>4. /\ project' \in [Samples -> Ends \union {"open"}] /\ project'[s] \in Ends
      /\ \A t \in Samples : project[t] \in Ends => project'[t] \in Ends
  BY ONLY <1>2, <1>3, s \in Samples
<1>5. /\ campaign' \in [StartIds -> CampaignStates]
      /\ campaign'[c].at = "row" /\ campaign'[c].sample = s
      /\ campaign'[c].rows = campaign[c].rows
      /\ \A d \in StartIds \ {c} : campaign'[d] = campaign[d]
  BY ONLY <1>1, <1>2, c \in StartIds, s \in Samples DEF CampaignStates
<1>6. SampleInv'
  BY <1>4, <1>5 DEF CampaignTypes, SampleInv
<1>7. QED
  BY <1>1, <1>4, <1>5, <1>6 DEF CampaignTypes, RunnerTypes, RowTypes, OnlyCampaign, RunnerVars

LEMMA RecordEffect ==
  ASSUME CampaignTypes, NEW c \in StartIds, RecordRow(c)
  PROVE  /\ CampaignTypes' /\ OnlyCampaign(c)
         /\ campaign[c].at = "row" /\ campaign'[c].at \in {"choosing", "ended"}
         /\ campaign[c].sample \in Samples /\ project[campaign[c].sample] \in Ends
         /\ \A s \in Samples \ {campaign[c].sample} : rowFile'.rows[s] = campaign[c].rows[s]
         /\ rowFile'.rows[campaign[c].sample].status = project[campaign[c].sample]
         /\ rowFile'.rows[campaign[c].sample].condition = argv[c]
         /\ campaign'[c].rows = rowFile'.rows
         /\ UNCHANGED <<manifest, project>>
<1>1. /\ campaign[c].at = "row" /\ campaign[c] \in CampaignStates
      /\ UNCHANGED <<driver, runner, starter, runnerWorker, argv, manifest, project, alone>>
  BY DEF RecordRow, CampaignTypes, RowTypes
<1>2. PICK s \in Samples : s = campaign[c].sample /\ project[s] \in Ends
  BY <1>1 DEF CampaignTypes, SampleInv
<1>3. PICK row \in [status : Ends, condition : CampaignConditions] :
        row = [status |-> project[s], condition |-> argv[c]]
  BY <1>2 DEF CampaignTypes, RowTypes
<1>4. PICK rows \in [Samples -> Rows] : rows = [campaign[c].rows EXCEPT ![s] = row]
  <2>1. campaign[c].rows \in [Samples -> Rows] /\ row \in Rows
    BY <1>1, <1>3 DEF CampaignStates, Rows
  <2>2. QED
    BY <2>1
<1>5. PICK failures \in Nat :
        failures = (IF row.status = "no_agent" THEN campaign[c].failures + 1 ELSE 0)
  <2>1. campaign[c].failures \in Nat
    BY <1>1 DEF CampaignStates
  <2>2. QED
    BY <2>1
<1>a. PICK at \in {"ended", "choosing"} :
        at = (IF failures >= FailureLimit THEN "ended" ELSE "choosing")
  OBVIOUS
<1>b. PICK code \in {0, 1} : code = (IF failures >= FailureLimit THEN 1 ELSE 0)
  OBVIOUS
<1>6. /\ rowFile' = [torn |-> FALSE, rows |-> rows]
      /\ campaign' = [campaign EXCEPT
           ![c].rows = rows, ![c].sample = "none", ![c].failures = failures,
           ![c].at = at, ![c].code = code]
  BY <1>2, <1>3, <1>4, <1>5, <1>a, <1>b DEF RecordRow
<1>7. campaign \in [StartIds -> CampaignStates]
  BY DEF CampaignTypes, RowTypes
<1>8. /\ campaign'[c] = [campaign[c] EXCEPT !.rows = rows, !.sample = "none",
                           !.failures = failures, !.at = at, !.code = code]
      /\ campaign' = [d \in StartIds |-> campaign'[d]]
      /\ \A d \in StartIds \ {c} : campaign'[d] = campaign[d]
  BY ONLY <1>6, <1>7
<1>9. campaign'[c] \in CampaignStates /\ campaign'[c].at = at /\ campaign'[c].rows = rows
  BY ONLY <1>1, <1>8, failures \in Nat, at \in {"ended", "choosing"}, code \in {0, 1},
          rows \in [Samples -> Rows] DEF CampaignStates
<1>10. campaign' \in [StartIds -> CampaignStates]
  BY ONLY <1>7, <1>8, <1>9
<1>11. rowFile' \in [torn : BOOLEAN, rows : [Samples -> Rows]] /\ rowFile'.rows = rows
  BY ONLY <1>6, rows \in [Samples -> Rows]
<1>12. SampleInv'
  BY <1>1, <1>8, <1>9 DEF CampaignTypes, SampleInv
<1>13. CampaignTypes' /\ OnlyCampaign(c)
  BY <1>1, <1>8, <1>10, <1>11, <1>12
  DEF CampaignTypes, RunnerTypes, RowTypes, OnlyCampaign, RunnerVars
<1>14. rows[s] = row /\ \A t \in Samples \ {s} : rows[t] = campaign[c].rows[t]
  <2>1. campaign[c].rows \in [Samples -> Rows]
    BY <1>1 DEF CampaignStates
  <2>2. QED
    BY ONLY <1>4, <2>1, s \in Samples
<1>15. row.status = project[s] /\ row.condition = argv[c]
  BY ONLY <1>3
<1>16. QED
  BY <1>1, <1>2, <1>9, <1>11, <1>13, <1>14, <1>15

\* Only start s moves, outside of its campaign process.
OnlyStart(s) ==
  /\ \A t \in StartIds \ {s} : starter'[t] = starter[t] /\ runnerWorker'[t] = runnerWorker[t]
  /\ UNCHANGED <<driver, argv, manifest, rowFile, project>>

NobodyStarts == \A t \in StartIds : ~Starting(t)

LEMMA CheckEffect ==
  ASSUME CampaignTypes, NEW s \in StartIds, CheckRunner(s)
  PROVE  /\ RunnerTypes' /\ OnlyStart(s) /\ UNCHANGED <<runner, runnerWorker, campaign>>
         /\ starter[s] = "idle" /\ starter'[s] \in {"checked", "raised"}
         /\ starter'[s] = "checked" => ~RunnerActive
         /\ alone' = (alone /\ NobodyStarts)
<1>1. /\ starter[s] = "idle" /\ alone' = (alone /\ NobodyStarts)
      /\ UNCHANGED <<runner, runnerWorker, campaign, driver, argv, manifest, rowFile, project>>
  BY DEF CheckRunner, NobodyStarts
<1>2. PICK place \in {"checked", "raised"} : place = (IF MayStart(s) THEN "checked" ELSE "raised")
  OBVIOUS
<1>3. starter' = [starter EXCEPT ![s] = place]
  BY <1>2 DEF CheckRunner
<1>4. alone' \in BOOLEAN
  BY <1>1
<1>5. QED
  BY <1>1, <1>2, <1>3, <1>4 DEF CampaignTypes, RunnerTypes, OnlyStart, MayStart

\* A step of a starter, from one place to another.
StarterMoves(s, from, to) ==
  /\ RunnerTypes' /\ OnlyStart(s) /\ starter[s] = from /\ starter'[s] = to
  /\ UNCHANGED <<alone, campaign>>

LEMMA StarterEffect ==
  ASSUME CampaignTypes, NEW s \in StartIds
  PROVE  /\ WriteCommand(s) =>
              StarterMoves(s, "checked", "commanded") /\ UNCHANGED <<runner, runnerWorker>>
         /\ WriteLaunching(s) =>
              /\ StarterMoves(s, "commanded", "launched") /\ UNCHANGED runnerWorker
              /\ runner' = [id |-> s, status |-> "launching", pid |-> FALSE]
         /\ SpawnWorker(s) =>
              /\ StarterMoves(s, "launched", "spawned") /\ UNCHANGED runner
              /\ runnerWorker'[s] = "waiting"
         /\ WriteRunning(s) =>
              /\ StarterMoves(s, "spawned", "done") /\ UNCHANGED runnerWorker
              /\ runner' = [id |-> s, status |-> "running", pid |-> TRUE]
<1> USE DEF CampaignTypes, RunnerTypes, StarterMoves, OnlyStart
<1>1. WriteCommand(s) =>
        StarterMoves(s, "checked", "commanded") /\ UNCHANGED <<runner, runnerWorker>>
  BY DEF WriteCommand
<1>2. WriteLaunching(s) =>
        /\ StarterMoves(s, "commanded", "launched") /\ UNCHANGED runnerWorker
        /\ runner' = [id |-> s, status |-> "launching", pid |-> FALSE]
  BY DEF WriteLaunching
<1>3. SpawnWorker(s) =>
        /\ StarterMoves(s, "launched", "spawned") /\ UNCHANGED runner
        /\ runnerWorker'[s] = "waiting"
  BY DEF SpawnWorker
<1>4. WriteRunning(s) =>
        /\ StarterMoves(s, "spawned", "done") /\ UNCHANGED runnerWorker
        /\ runner' = [id |-> s, status |-> "running", pid |-> TRUE]
  BY DEF WriteRunning
<1>5. QED
  BY <1>1, <1>2, <1>3, <1>4

LEMMA StarterDiesEffect ==
  ASSUME CampaignTypes, NEW s \in StartIds, StarterDies(s)
  PROVE  StarterMoves(s, starter[s], "dead") /\ Starting(s) /\ UNCHANGED <<runner, runnerWorker>>
BY DEF CampaignTypes, RunnerTypes, StarterMoves, OnlyStart, StarterDies

\* A step of a worker.
WorkerMoves(w, from, to) ==
  /\ RunnerTypes' /\ OnlyStart(w) /\ UNCHANGED starter
  /\ runnerWorker[w] = from /\ runnerWorker'[w] = to

LEMMA AwaitEffect ==
  ASSUME CampaignTypes, NEW w \in StartIds, AwaitState(w) \/ AwaitFails(w)
  PROVE  /\ UNCHANGED <<runner, alone, campaign>>
         /\ \/ WorkerMoves(w, "waiting", "ready") /\ IsMine(w)
            \/ WorkerMoves(w, "waiting", "exited")
<1>1. PICK place \in {"ready", "exited"} :
        runnerWorker' = [runnerWorker EXCEPT ![w] = place] /\ (place = "ready" => IsMine(w))
  BY DEF AwaitState, AwaitFails
<1>2. /\ runnerWorker[w] = "waiting"
      /\ UNCHANGED <<runner, alone, campaign, starter, driver, argv, manifest, rowFile, project>>
  BY DEF AwaitState, AwaitFails
<1>3. QED
  BY <1>1, <1>2 DEF CampaignTypes, RunnerTypes, WorkerMoves, OnlyStart

LEMMA RunCampaignEffect ==
  ASSUME CampaignTypes, NEW w \in StartIds, RunCampaign(w)
  PROVE  /\ WorkerMoves(w, "ready", "running") /\ UNCHANGED alone
         /\ runner' = [id |-> w, status |-> "running", pid |-> TRUE]
         /\ campaign' \in [StartIds -> CampaignStates] /\ campaign'[w].at = "preflight"
         /\ \A d \in StartIds \ {w} : campaign'[d] = campaign[d]
<1>1. campaign \in [StartIds -> CampaignStates] /\ campaign' = [campaign EXCEPT ![w].at = "preflight"]
  BY DEF CampaignTypes, RowTypes, RunCampaign
<1>2. /\ campaign' \in [StartIds -> CampaignStates] /\ campaign'[w].at = "preflight"
      /\ \A d \in StartIds \ {w} : campaign'[d] = campaign[d]
  BY ONLY <1>1, w \in StartIds DEF CampaignStates
<1>3. /\ WorkerMoves(w, "ready", "running") /\ UNCHANGED alone
      /\ runner' = [id |-> w, status |-> "running", pid |-> TRUE]
  BY DEF RunCampaign, CampaignTypes, RunnerTypes, WorkerMoves, OnlyStart
<1>4. QED
  BY <1>2, <1>3

LEMMA ReturnEffect ==
  ASSUME CampaignTypes, NEW w \in StartIds, CommandReturns(w)
  PROVE  /\ UNCHANGED <<runner, alone, campaign>> /\ campaign[w].at = "ended"
         /\ \/ WorkerMoves(w, "running", "finishing") /\ runner.id = w
            \/ WorkerMoves(w, "running", "exited")
<1>1. PICK place \in {"finishing", "exited"} :
        /\ runnerWorker' = [runnerWorker EXCEPT ![w] = place]
        /\ place = "finishing" => runner.id = w
  BY DEF CommandReturns
<1>2. /\ runnerWorker[w] = "running" /\ campaign[w].at = "ended"
      /\ UNCHANGED <<runner, alone, campaign, starter, driver, argv, manifest, rowFile, project>>
  BY DEF CommandReturns
<1>3. QED
  BY <1>1, <1>2 DEF CampaignTypes, RunnerTypes, WorkerMoves, OnlyStart

LEMMA WriteEndEffect ==
  ASSUME CampaignTypes, NEW w \in StartIds, WriteEnd(w)
  PROVE  /\ UNCHANGED <<alone, campaign>> /\ WorkerMoves(w, "finishing", "exited")
         /\ \E status \in {"completed", "failed"} :
              runner' = [id |-> w, status |-> status, pid |-> TRUE]
<1>1. PICK status \in {"completed", "failed"} : runner' = [id |-> w, status |-> status, pid |-> TRUE]
  BY DEF WriteEnd
<1>2. /\ runnerWorker[w] = "finishing" /\ runnerWorker' = [runnerWorker EXCEPT ![w] = "exited"]
      /\ UNCHANGED <<alone, campaign, starter, driver, argv, manifest, rowFile, project>>
  BY DEF WriteEnd
<1>3. QED
  BY <1>1, <1>2 DEF CampaignTypes, RunnerTypes, WorkerMoves, OnlyStart

LEMMA WorkerDiesEffect ==
  ASSUME CampaignTypes, NEW w \in StartIds, WorkerDies(w)
  PROVE  /\ UNCHANGED <<runner, campaign>> /\ WorkerAlive(w)
         /\ WorkerMoves(w, runnerWorker[w], "exited")
         /\ alone' = (alone /\ ~Live(w))
<1>1. alone' = (alone /\ ~Live(w)) /\ alone' \in BOOLEAN
  BY DEF WorkerDies
<1>2. QED
  BY <1>1 DEF WorkerDies, CampaignTypes, RunnerTypes, WorkerMoves, OnlyStart

LEMMA RestartEffect ==
  ASSUME CampaignTypes, HostRestarts
  PROVE  /\ CampaignTypes'
         /\ \A s \in StartIds :
              /\ ~Starting(s)' /\ (starter'[s] = starter[s] \/ Starting(s))
              /\ ~WorkerAlive(s)'
              /\ runnerWorker'[s] = runnerWorker[s] \/ (WorkerAlive(s) /\ runnerWorker'[s] = "exited")
              /\ ~Live(s)'
         /\ UNCHANGED <<driver, runner, argv, manifest, rowFile, project, alone>>
<1>1. UNCHANGED <<driver, runner, argv, manifest, rowFile, project, alone>>
  BY DEF HostRestarts
<1>2. /\ starter' \in [StartIds -> {"idle", "raised", "checked", "commanded", "launched",
                                    "spawned", "done", "dead"}]
      /\ \A s \in StartIds : ~Starting(s)' /\ (starter'[s] = starter[s] \/ Starting(s))
  BY DEF HostRestarts, CampaignTypes, RunnerTypes, Starting
<1>3. /\ runnerWorker' \in [StartIds ->
                             {"none", "waiting", "ready", "running", "finishing", "exited"}]
      /\ \A s \in StartIds :
           /\ ~WorkerAlive(s)'
           /\ runnerWorker'[s] = runnerWorker[s] \/ (WorkerAlive(s) /\ runnerWorker'[s] = "exited")
  BY DEF HostRestarts, CampaignTypes, RunnerTypes, WorkerAlive
<1>4. ASSUME NEW s \in StartIds
      PROVE  campaign'[s] \in CampaignStates /\ campaign'[s].at \in {"none", "ended"}
  <2>1. campaign[s] \in CampaignStates
    BY DEF CampaignTypes, RowTypes
  <2>2. PICK ended \in CampaignStates :
          ended = [campaign[s] EXCEPT !.at = "ended", !.code = 1] /\ ended.at = "ended"
    <3>1. /\ [campaign[s] EXCEPT !.at = "ended", !.code = 1] \in CampaignStates
          /\ [campaign[s] EXCEPT !.at = "ended", !.code = 1].at = "ended"
      BY ONLY <2>1 DEF CampaignStates
    <3>2. QED
      BY <3>1
  <2>3. campaign'[s] = IF Live(s) THEN ended ELSE campaign[s]
    BY <2>2 DEF HostRestarts
  <2>4. QED
    BY <2>1, <2>2, <2>3 DEF Live
<1>5. campaign' \in [StartIds -> CampaignStates]
  BY <1>4 DEF HostRestarts
<1>6. CampaignTypes'
  BY <1>1, <1>2, <1>3, <1>4, <1>5 DEF CampaignTypes, RunnerTypes, RowTypes, SampleInv
<1>7. QED
  BY <1>1, <1>2, <1>3, <1>4, <1>6 DEF Live

LEMMA CampaignTypesKept == CampaignTypes /\ [CampaignNext]_campaignVars => CampaignTypes'
<1> SUFFICES ASSUME CampaignTypes, [CampaignNext]_campaignVars PROVE CampaignTypes'
  OBVIOUS
<1>1. CASE UNCHANGED campaignVars
  BY <1>1 DEF campaignVars, CampaignTypes, RunnerTypes, RowTypes, SampleInv
<1>2. CASE HostRestarts
  BY <1>2, RestartEffect
<1>3. ASSUME NEW c \in StartIds,
             \/ RefuseCampaign(c) \/ BindManifest(c) \/ LoadResults(c) \/ RecordRow(c)
             \/ EndCampaignProcess(c) \/ SampleRaises(c) \/ CampaignDies(c)
             \/ \E s \in Samples : RunSample(c, s)
      PROVE  CampaignTypes'
  BY <1>3, EndingEffect, DyingEffect, BindEffect, LoadEffect, RunEffect, RecordEffect
<1>4. ASSUME NEW s \in StartIds,
             \/ CheckRunner(s) \/ WriteCommand(s) \/ WriteLaunching(s) \/ SpawnWorker(s)
             \/ WriteRunning(s) \/ StarterDies(s)
             \/ AwaitState(s) \/ AwaitFails(s) \/ CommandReturns(s) \/ WriteEnd(s) \/ WorkerDies(s)
      PROVE  CampaignTypes'
  <2>1. RunnerTypes' /\ OnlyStart(s) /\ UNCHANGED campaign
    BY <1>4, CheckEffect, StarterEffect, StarterDiesEffect, AwaitEffect, ReturnEffect,
       WriteEndEffect, WorkerDiesEffect DEF StarterMoves, WorkerMoves
  <2>2. QED
    BY <2>1 DEF CampaignTypes, RowTypes, SampleInv, OnlyStart
<1>5. ASSUME NEW w \in StartIds, RunCampaign(w) PROVE CampaignTypes'
  BY <1>5, RunCampaignEffect DEF CampaignTypes, RowTypes, SampleInv, OnlyStart, WorkerMoves
<1>6. QED
  BY <1>1, <1>2, <1>3, <1>4, <1>5 DEF CampaignNext

\* The steps of the campaign process.
ProcessSteps(c) ==
  \/ RefuseCampaign(c) \/ BindManifest(c) \/ LoadResults(c) \/ RecordRow(c)
  \/ EndCampaignProcess(c) \/ SampleRaises(c) \/ CampaignDies(c)
  \/ \E s \in Samples : RunSample(c, s)

LEMMA ProcessEffect ==
  ASSUME CampaignTypes, NEW c \in StartIds, ProcessSteps(c)
  PROVE  OnlyCampaign(c) /\ Live(c)
BY EndingEffect, DyingEffect, BindEffect, LoadEffect, RunEffect, RecordEffect
DEF ProcessSteps, Live

-----------------------------------------------------------------------------
(* The detached campaign: starters and workers *)

\* What is true of the runner's file however many starters and workers overlap.
RunnerInv ==
  /\ \A s \in StartIds :
       /\ runnerWorker[s] \in {"ready", "running", "finishing"} => starter[s] = "done"
       /\ runnerWorker[s] # "none" => starter[s] \in {"spawned", "done", "dead"}
  /\ runner.pid => runner.id \in StartIds /\ starter[runner.id] = "done"
  /\ runner.status \in {"completed", "failed"} => runner.pid /\ runnerWorker[runner.id] = "exited"

LEMMA RunnerStep ==
  ASSUME CampaignTypes, RunnerInv, [CampaignNext]_campaignVars
  PROVE  /\ RunnerInv'
         /\ runner.status \in {"completed", "failed"} /\ runner'.id = runner.id => runner' = runner
<1>1. CASE UNCHANGED campaignVars
  BY <1>1 DEF campaignVars, RunnerInv
<1>2. ASSUME HostRestarts PROVE RunnerInv' /\ runner' = runner
  <2>1. /\ runner' = runner
        /\ \A s \in StartIds :
             runnerWorker'[s] \notin {"waiting", "ready", "running", "finishing"}
    BY <1>2, RestartEffect DEF WorkerAlive
  <2>2. ASSUME NEW s \in StartIds
        PROVE  /\ runnerWorker'[s] # "none" => starter'[s] \in {"spawned", "done", "dead"}
               /\ starter[s] = "done" => starter'[s] = "done"
               /\ runnerWorker[s] = "exited" => runnerWorker'[s] = "exited"
    <3>1. starter'[s] = starter[s] \/ (Starting(s) /\ starter'[s] = "dead")
      BY <1>2 DEF HostRestarts
    <3>2. runnerWorker'[s] = runnerWorker[s] \/ (WorkerAlive(s) /\ runnerWorker'[s] = "exited")
      BY <1>2, RestartEffect
    <3>3. QED
      BY <3>1, <3>2 DEF Starting, WorkerAlive, RunnerInv
  <2>3. QED
    BY <2>1, <2>2 DEF RunnerInv
<1>3. ASSUME NEW c \in StartIds, ProcessSteps(c) PROVE UNCHANGED RunnerVars
  BY <1>3, ProcessEffect DEF OnlyCampaign
<1>4. ASSUME NEW c \in StartIds, ProcessSteps(c)
      PROVE  RunnerInv' /\ runner' = runner
  BY <1>3, <1>4 DEF RunnerInv, RunnerVars
<1>5. ASSUME NEW s \in StartIds, CheckRunner(s) PROVE RunnerInv' /\ runner' = runner
  BY <1>5, CheckEffect DEF RunnerInv, OnlyStart, CampaignTypes, RunnerTypes
<1>6. ASSUME NEW s \in StartIds, WriteCommand(s) PROVE RunnerInv' /\ runner' = runner
  BY <1>6, StarterEffect DEF RunnerInv, OnlyStart, StarterMoves, CampaignTypes, RunnerTypes
<1>7. ASSUME NEW s \in StartIds, WriteLaunching(s)
      PROVE  RunnerInv' /\ (runner.status \in {"completed", "failed"} => runner'.id # runner.id)
  BY <1>7, StarterEffect DEF RunnerInv, OnlyStart, StarterMoves, CampaignTypes, RunnerTypes
<1>8. ASSUME NEW s \in StartIds, SpawnWorker(s) PROVE RunnerInv' /\ runner' = runner
  BY <1>8, StarterEffect DEF RunnerInv, OnlyStart, StarterMoves, CampaignTypes, RunnerTypes
<1>9. ASSUME NEW s \in StartIds, WriteRunning(s)
      PROVE  RunnerInv' /\ (runner.status \in {"completed", "failed"} => runner'.id # runner.id)
  BY <1>9, StarterEffect DEF RunnerInv, OnlyStart, StarterMoves, CampaignTypes, RunnerTypes
<1>10. ASSUME NEW s \in StartIds, StarterDies(s) PROVE RunnerInv' /\ runner' = runner
  BY <1>10, StarterDiesEffect
  DEF RunnerInv, OnlyStart, StarterMoves, Starting, CampaignTypes, RunnerTypes
<1>11. ASSUME NEW w \in StartIds, AwaitState(w) \/ AwaitFails(w) PROVE RunnerInv' /\ runner' = runner
  BY <1>11, AwaitEffect
  DEF RunnerInv, OnlyStart, WorkerMoves, IsMine, CampaignTypes, RunnerTypes
<1>12. ASSUME NEW w \in StartIds, RunCampaign(w)
       PROVE  RunnerInv' /\ (runner.status \in {"completed", "failed"} => runner'.id # runner.id)
  BY <1>12, RunCampaignEffect DEF RunnerInv, OnlyStart, WorkerMoves, CampaignTypes, RunnerTypes
<1>13. ASSUME NEW w \in StartIds, CommandReturns(w) PROVE RunnerInv' /\ runner' = runner
  BY <1>13, ReturnEffect DEF RunnerInv, OnlyStart, WorkerMoves, CampaignTypes, RunnerTypes
<1>14. ASSUME NEW w \in StartIds, WriteEnd(w)
       PROVE  RunnerInv' /\ (runner.status \in {"completed", "failed"} => runner'.id # runner.id)
  BY <1>14, WriteEndEffect DEF RunnerInv, OnlyStart, WorkerMoves, CampaignTypes, RunnerTypes
<1>15. ASSUME NEW w \in StartIds, WorkerDies(w) PROVE RunnerInv' /\ runner' = runner
  BY <1>15, WorkerDiesEffect
  DEF RunnerInv, OnlyStart, WorkerMoves, WorkerAlive, CampaignTypes, RunnerTypes
<1>16. QED
  BY <1>1, <1>2, <1>4, <1>5, <1>6, <1>7, <1>8, <1>9, <1>10, <1>11, <1>12, <1>13, <1>14, <1>15,
     RestartEffect DEF CampaignNext, ProcessSteps, campaignVars

\* As long as starts do not overlap: one starter at a time, none beside a worker that owns
\* the runner's file, and no campaign process beside such a worker but its own.
Owns(w) == WorkerAlive(w) /\ IsMine(w)

AloneInv ==
  alone =>
    /\ \A s, t \in StartIds : Starting(s) /\ Starting(t) => s = t
    /\ \A w \in StartIds : Owns(w) => runner.status = "running" /\ NobodyStarts
    /\ \A w \in StartIds : runnerWorker[w] \in {"ready", "running", "finishing"} => IsMine(w)
    /\ \A c \in StartIds : Live(c) => runnerWorker[c] = "running"

LEMMA AloneStep ==
  ASSUME CampaignTypes, RunnerInv, AloneInv, [CampaignNext]_campaignVars
  PROVE  AloneInv'
<1> SUFFICES ASSUME alone' PROVE AloneInv'
  BY DEF AloneInv
<1> USE DEF AloneInv, Owns, WorkerAlive, IsMine, NobodyStarts, Starting
<1>1. CASE UNCHANGED campaignVars
  BY <1>1 DEF campaignVars, Live
<1>2. CASE HostRestarts
  <2>1. /\ \A s \in StartIds : /\ ~Starting(s)' /\ ~Live(s)'
                               /\ runnerWorker'[s] \notin {"waiting", "ready", "running", "finishing"}
    BY <1>2, RestartEffect
  <2>2. QED
    BY <2>1
<1>3. ASSUME NEW c \in StartIds, ProcessSteps(c) PROVE AloneInv'
  <2>1. OnlyCampaign(c) /\ Live(c)
    BY <1>3, ProcessEffect
  <2>2. QED
    BY <2>1 DEF OnlyCampaign, RunnerVars, Live
<1>4. ASSUME NEW s \in StartIds, CheckRunner(s) PROVE AloneInv'
  <2>1. /\ OnlyStart(s) /\ UNCHANGED <<runner, runnerWorker, campaign>>
        /\ starter[s] = "idle" /\ starter'[s] \in {"checked", "raised"}
        /\ starter'[s] = "checked" => ~RunnerActive
        /\ alone /\ NobodyStarts
    BY <1>4, CheckEffect
  <2>2. \A t \in StartIds : Starting(t)' => t = s /\ ~RunnerActive
    BY <2>1 DEF OnlyStart
  <2>3. \A w \in StartIds : Owns(w)' => Owns(w) /\ RunnerActive
    BY <2>1 DEF RunnerActive
  <2>4. QED
    BY <2>1, <2>2, <2>3 DEF Live
<1>5. ASSUME NEW s \in StartIds,
             \/ WriteCommand(s) \/ WriteLaunching(s) \/ SpawnWorker(s) \/ WriteRunning(s)
             \/ StarterDies(s)
      PROVE  AloneInv'
  <2>1. /\ OnlyStart(s) /\ UNCHANGED <<alone, campaign>> /\ Starting(s)
    BY <1>5, StarterEffect, StarterDiesEffect DEF StarterMoves
  <2>2. /\ \A w \in StartIds : ~Owns(w)
        /\ \A t \in StartIds \ {s} : ~Starting(t)
        /\ \A w \in StartIds : runnerWorker[w] \notin {"ready", "running", "finishing"} /\ ~Live(w)
    BY <2>1
  <2>3. /\ \A t \in StartIds \ {s} : ~Starting(t)'
        /\ \A w \in StartIds : runnerWorker'[w] \notin {"ready", "running", "finishing"}
        /\ \A w \in StartIds : ~Live(w)'
    BY <1>5, <2>1, <2>2, StarterEffect, StarterDiesEffect DEF OnlyStart, StarterMoves, Live
  <2>4. \A w \in StartIds : Owns(w)' => runner'.status = "running" /\ ~Starting(s)'
    <3>1. CASE WriteCommand(s) \/ StarterDies(s)
      BY <2>2, <3>1, StarterEffect, StarterDiesEffect DEF StarterMoves
    <3>2. CASE WriteLaunching(s)
      BY <3>2, StarterEffect
    <3>3. CASE SpawnWorker(s)
      <4>1. /\ runner' = runner /\ starter[s] = "launched"
            /\ \A w \in StartIds \ {s} : runnerWorker'[w] = runnerWorker[w]
        BY <3>3, StarterEffect DEF StarterMoves, OnlyStart
      <4>2. ~IsMine(s)
        BY <4>1 DEF RunnerInv
      <4>3. \A w \in StartIds : ~Owns(w)'
        BY <2>2, <4>1, <4>2
      <4>4. QED
        BY <4>3
    <3>4. CASE WriteRunning(s)
      <4>1. runner' = [id |-> s, status |-> "running", pid |-> TRUE] /\ starter'[s] = "done"
        BY <3>4, StarterEffect DEF StarterMoves
      <4>2. QED
        BY <4>1
    <3>5. QED
      BY <1>5, <3>1, <3>2, <3>3, <3>4
  <2>5. QED
    BY <2>3, <2>4
<1>6. ASSUME NEW w \in StartIds,
             \/ AwaitState(w) \/ AwaitFails(w) \/ CommandReturns(w) \/ WorkerDies(w)
      PROVE  AloneInv'
  <2>1. /\ OnlyStart(w) /\ alone /\ UNCHANGED <<runner, starter, campaign>> /\ WorkerAlive(w)
        /\ runnerWorker'[w] \in {"ready", "finishing"} => IsMine(w)
        /\ runnerWorker[w] = "running" => ~Live(w)
    BY <1>6, AwaitEffect, ReturnEffect, WorkerDiesEffect DEF WorkerMoves, Live
  <2>2. runnerWorker'[w] \notin {"none", "waiting", "running"}
    BY <1>6, AwaitEffect, ReturnEffect, WorkerDiesEffect DEF WorkerMoves
  <2>3. QED
    BY <2>1, <2>2 DEF OnlyStart, Live
<1>7. ASSUME NEW w \in StartIds, RunCampaign(w) PROVE AloneInv'
  <2>1. /\ runner' = [id |-> w, status |-> "running", pid |-> TRUE]
        /\ runnerWorker[w] = "ready" /\ runnerWorker'[w] = "running"
        /\ OnlyStart(w) /\ UNCHANGED <<starter, alone>>
        /\ \A d \in StartIds \ {w} : campaign'[d] = campaign[d]
    BY <1>7, RunCampaignEffect DEF WorkerMoves
  <2>2. runner.id = w /\ NobodyStarts
    BY <2>1
  <2>3. \A u \in StartIds \ {w} :
          runnerWorker'[u] \notin {"ready", "running", "finishing"} /\ ~Live(u)'
    BY <2>1, <2>2 DEF OnlyStart, Live
  <2>4. runner'.id = w /\ runner'.pid /\ runner'.status = "running"
    BY <2>1
  <2>5. QED
    BY <2>1, <2>2, <2>3, <2>4
<1>8. ASSUME NEW w \in StartIds, WriteEnd(w) PROVE AloneInv'
  <2>1. /\ runnerWorker[w] = "finishing" /\ runnerWorker'[w] = "exited"
        /\ OnlyStart(w) /\ UNCHANGED <<starter, alone, campaign>>
    BY <1>8, WriteEndEffect DEF WorkerMoves
  <2>a. runner'.id = w
    BY ONLY <1>8 DEF WriteEnd
  <2>2. runner.id = w /\ NobodyStarts
    BY <2>1
  <2>3. \A u \in StartIds : runnerWorker'[u] \notin {"ready", "running", "finishing"} /\ ~Live(u)'
    BY <2>1, <2>2 DEF OnlyStart, Live
  <2>4. \A u \in StartIds : ~Owns(u)'
    BY <2>1, <2>a
  <2>5. QED
    BY <2>1, <2>2, <2>3, <2>4
<1>9. QED
  BY <1>1, <1>2, <1>3, <1>4, <1>5, <1>6, <1>7, <1>8 DEF CampaignNext, ProcessSteps

LEMMA OneLive ==
  ASSUME CampaignTypes, AloneInv, alone, NEW c \in StartIds, NEW d \in StartIds, Live(c), Live(d)
  PROVE  c = d
BY DEF AloneInv, IsMine

-----------------------------------------------------------------------------
(* The detached campaign: rows *)

\* A row was made under arguments that the manifest agrees with.
Bound(row) == row # NoRow => Manifest(row.condition) = manifest

\* A manifest that was bound stays, so what was read and what is written agree with it.
RowsInv ==
  /\ \A s \in Samples : Bound(rowFile.rows[s])
  /\ \A c \in StartIds :
       /\ campaign[c].at \in {"planning", "choosing", "row"} => manifest = Manifest(argv[c])
       /\ campaign[c].at \in {"choosing", "row"} => \A s \in Samples : Bound(campaign[c].rows[s])
       /\ campaign[c].at = "row" => campaign[c].sample \notin Done(c)

LEMMA NoManifestNoRows ==
  ASSUME CampaignTypes, RowsInv, manifest = NoFile
  PROVE  /\ \A s \in Samples : rowFile.rows[s] = NoRow
         /\ \A c \in StartIds : campaign[c].at \notin {"planning", "choosing", "row"}
<1>1. ASSUME NEW s \in Samples PROVE rowFile.rows[s] = NoRow
  <2>1. rowFile.rows[s] \in Rows
    BY DEF CampaignTypes, RowTypes
  <2>2. rowFile.rows[s] # NoRow => rowFile.rows[s].condition \in CampaignConditions
    BY <2>1 DEF Rows
  <2>3. rowFile.rows[s].condition \in CampaignConditions => Manifest(rowFile.rows[s].condition) # NoFile
    BY ManifestTypes DEF CampaignTypes
  <2>4. QED
    BY <2>2, <2>3 DEF RowsInv, Bound
<1>2. \A c \in StartIds : Manifest(argv[c]) # NoFile
  BY ManifestTypes DEF CampaignTypes, RowTypes
<1>3. QED
  BY <1>1, <1>2 DEF RowsInv

LEMMA RowsUntouched ==
  ASSUME CampaignTypes, RowsInv, UNCHANGED <<driver, argv>>, rowFile'.rows = rowFile.rows,
         manifest' = manifest \/ manifest = NoFile,
         \A c \in StartIds :
           \/ campaign'[c] = campaign[c]
           \/ campaign'[c].at \in {"none", "preflight", "ended"}
           \/ campaign'[c].at = "planning" /\ manifest' = Manifest(argv[c])
  PROVE  RowsInv'
<1> USE DEF Manifest, AgentManifest, GeometryManifest, ProgramOf, Condition
<1>1. ASSUME NEW s \in Samples PROVE Bound(rowFile.rows[s])'
  BY NoManifestNoRows DEF RowsInv, Bound
<1>2. ASSUME NEW c \in StartIds
      PROVE  /\ campaign'[c].at \in {"planning", "choosing", "row"} => manifest' = Manifest(argv[c])'
             /\ campaign'[c].at \in {"choosing", "row"} =>
                  \A s \in Samples : Bound(campaign[c].rows[s])'
             /\ campaign'[c].at = "row" => campaign'[c].sample \notin Done(c)'
  <2>1. CASE campaign'[c] = campaign[c] /\ campaign[c].at \in {"planning", "choosing", "row"}
    <3>1. manifest' = manifest
      BY <2>1, NoManifestNoRows
    <3>2. QED
      BY <2>1, <3>1 DEF RowsInv, Bound, Done
  <2>2. CASE campaign'[c].at = "planning" /\ manifest' = Manifest(argv[c])
    BY <2>2
  <2>3. CASE campaign'[c].at \notin {"planning", "choosing", "row"}
    BY <2>3
  <2>4. QED
    BY <2>1, <2>2, <2>3
<1>3. QED
  BY <1>1, <1>2 DEF RowsInv

LEMMA RowsStep ==
  ASSUME CampaignTypes, RowsInv, [CampaignNext]_campaignVars
  PROVE  RowsInv'
<1>1. CASE UNCHANGED campaignVars
  BY <1>1, RowsUntouched DEF campaignVars
<1>2. CASE HostRestarts
  <2>1. /\ UNCHANGED <<driver, argv, rowFile, manifest>>
        /\ \A c \in StartIds : campaign'[c].at \in {"none", "ended"}
    BY <1>2, RestartEffect DEF Live
  <2>2. QED
    BY <2>1, RowsUntouched
<1>3. ASSUME NEW s \in StartIds,
             \/ CheckRunner(s) \/ WriteCommand(s) \/ WriteLaunching(s) \/ SpawnWorker(s)
             \/ WriteRunning(s) \/ StarterDies(s) \/ AwaitState(s) \/ AwaitFails(s)
             \/ CommandReturns(s) \/ WriteEnd(s) \/ WorkerDies(s) \/ RunCampaign(s)
      PROVE  RowsInv'
  <2>1. OnlyStart(s) /\ (UNCHANGED campaign \/ RunCampaign(s))
    BY <1>3, CheckEffect, StarterEffect, StarterDiesEffect, AwaitEffect, ReturnEffect,
       WriteEndEffect, WorkerDiesEffect, RunCampaignEffect DEF StarterMoves, WorkerMoves
  <2>2. \A c \in StartIds : campaign'[c] = campaign[c] \/ campaign'[c].at = "preflight"
    BY <2>1, RunCampaignEffect
  <2>3. QED
    BY <2>1, <2>2, RowsUntouched DEF OnlyStart
<1>4. ASSUME NEW c \in StartIds,
             \/ RefuseCampaign(c) \/ EndCampaignProcess(c) \/ SampleRaises(c) \/ CampaignDies(c)
             \/ BindManifest(c)
      PROVE  RowsInv'
  <2>1. /\ OnlyCampaign(c) /\ rowFile'.rows = rowFile.rows
        /\ manifest' = manifest \/ manifest = NoFile
        /\ \/ campaign'[c].at = "ended"
           \/ campaign'[c].at = "planning" /\ manifest' = Manifest(argv[c])
    BY <1>4, EndingEffect, DyingEffect, BindEffect
  <2>2. QED
    BY <2>1, RowsUntouched DEF OnlyCampaign
<1>5. ASSUME NEW c \in StartIds, LoadResults(c) PROVE RowsInv'
  <2>1. /\ OnlyCampaign(c) /\ campaign[c].at = "planning" /\ UNCHANGED <<manifest, rowFile>>
        /\ campaign'[c].at \in {"choosing", "ended"}
        /\ campaign'[c].at = "choosing" => campaign'[c].rows = rowFile.rows
    BY <1>5, LoadEffect
  <2>2. QED
    BY <2>1
    DEF RowsInv, Bound, Done, OnlyCampaign, Manifest, AgentManifest, GeometryManifest, ProgramOf,
        Condition
<1>6. ASSUME NEW c \in StartIds, NEW s \in Samples, RunSample(c, s) PROVE RowsInv'
  <2>1. /\ OnlyCampaign(c) /\ campaign[c].at = "choosing" /\ s \notin Done(c)
        /\ campaign'[c].at = "row" /\ campaign'[c].sample = s
        /\ campaign'[c].rows = campaign[c].rows /\ UNCHANGED <<manifest, rowFile>>
    BY <1>6, RunEffect
  <2>2. QED
    BY <2>1
    DEF RowsInv, Bound, Done, OnlyCampaign, Manifest, AgentManifest, GeometryManifest, ProgramOf,
        Condition
<1>7. ASSUME NEW c \in StartIds, RecordRow(c) PROVE RowsInv'
  <2>1. /\ OnlyCampaign(c) /\ UNCHANGED <<manifest, project>>
        /\ campaign[c].at = "row" /\ campaign'[c].at \in {"choosing", "ended"}
        /\ campaign'[c].rows = rowFile'.rows
    BY <1>7, RecordEffect
  <2>2. \A s \in Samples : \/ rowFile'.rows[s] = campaign[c].rows[s]
                           \/ rowFile'.rows[s].condition = argv[c]
    BY <1>7, RecordEffect
  <2>3. \A s \in Samples : Bound(rowFile.rows[s])'
    BY <2>1, <2>2
    DEF RowsInv, Bound, OnlyCampaign, Manifest, AgentManifest, GeometryManifest, ProgramOf, Condition
  <2>4. QED
    BY <2>1, <2>3
    DEF RowsInv, Bound, Done, OnlyCampaign, Manifest, AgentManifest, GeometryManifest, ProgramOf,
        Condition
<1>8. QED
  BY <1>1, <1>2, <1>3, <1>4, <1>5, <1>6, <1>7 DEF CampaignNext

\* As long as only one process runs the campaign, it knows the rows that are on disk.
KeepInv ==
  alone => \A c \in StartIds :
    campaign[c].at \in {"choosing", "row"} => campaign[c].rows = rowFile.rows

\* A row that is there stays, and one that is terminal does not change.
RowKept(s) ==
  /\ rowFile.rows[s] # NoRow => rowFile'.rows[s] # NoRow
  /\ rowFile.rows[s].status \in {"succeeded", "failed"} => rowFile'.rows[s] = rowFile.rows[s]

LEMMA KeepStep ==
  ASSUME CampaignTypes, AloneInv, RowsInv, KeepInv, [CampaignNext]_campaignVars
  PROVE  KeepInv' /\ (alone => \A s \in Samples : RowKept(s))
<1>1. alone' => alone
  <2>1. ASSUME NEW s \in StartIds, CheckRunner(s) \/ WorkerDies(s) PROVE alone' => alone
    BY <2>1 DEF CheckRunner, WorkerDies
  <2>2. ASSUME NEW s \in StartIds, ProcessSteps(s) PROVE alone' = alone
    BY <2>2, ProcessEffect DEF OnlyCampaign, RunnerVars
  <2>3. ASSUME NEW s \in StartIds,
               \/ WriteCommand(s) \/ WriteLaunching(s) \/ SpawnWorker(s) \/ WriteRunning(s)
               \/ StarterDies(s) \/ AwaitState(s) \/ AwaitFails(s) \/ RunCampaign(s)
               \/ CommandReturns(s) \/ WriteEnd(s)
        PROVE  alone' = alone
    BY <2>3
    DEF WriteCommand, WriteLaunching, SpawnWorker, WriteRunning, StarterDies, AwaitState,
        AwaitFails, RunCampaign, CommandReturns, WriteEnd
  <2>4. HostRestarts \/ UNCHANGED campaignVars => alone' = alone
    BY DEF HostRestarts, campaignVars
  <2>5. QED
    BY <2>1, <2>2, <2>3, <2>4 DEF CampaignNext, ProcessSteps
<1>2. ASSUME NEW c \in StartIds, RecordRow(c), alone
      PROVE  KeepInv' /\ \A s \in Samples : RowKept(s)
  <2>1. /\ OnlyCampaign(c) /\ campaign[c].at = "row"
        /\ campaign'[c].rows = rowFile'.rows
        /\ campaign[c].sample \in Samples /\ project[campaign[c].sample] \in Ends
        /\ \A s \in Samples \ {campaign[c].sample} : rowFile'.rows[s] = campaign[c].rows[s]
        /\ rowFile'.rows[campaign[c].sample].status = project[campaign[c].sample]
    BY <1>2, RecordEffect
  <2>2. \A d \in StartIds \ {c} : ~Live(d)
    BY <1>2, <2>1, OneLive DEF Live
  <2>3. KeepInv'
    BY <2>1, <2>2 DEF KeepInv, Live, OnlyCampaign
  <2>4. campaign[c].rows = rowFile.rows /\ campaign[c].sample \notin Done(c)
    BY <1>2, <2>1 DEF KeepInv, RowsInv
  <2>5. rowFile.rows[campaign[c].sample].status \notin {"succeeded", "failed"}
    BY <2>1, <2>4 DEF Done
  <2>6. RowKept(campaign[c].sample)
    BY <2>1, <2>5 DEF RowKept, Ends, NoRow
  <2>7. \A s \in Samples \ {campaign[c].sample} : RowKept(s)
    BY <2>1, <2>4 DEF RowKept
  <2>8. QED
    BY <2>3, <2>6, <2>7
<1>3. ASSUME rowFile'.rows = rowFile.rows,
             \A c \in StartIds : \/ campaign'[c].at \notin {"choosing", "row"}
                                 \/ campaign'[c].rows = rowFile.rows
                                 \/ campaign'[c] = campaign[c]
                                 \/ campaign[c].at = "choosing" /\ campaign'[c].rows = campaign[c].rows
      PROVE  KeepInv' /\ \A s \in Samples : RowKept(s)
  BY <1>1, <1>3 DEF KeepInv, RowKept
<1>4. CASE UNCHANGED campaignVars
  BY <1>3, <1>4 DEF campaignVars
<1>5. CASE HostRestarts
  <2>1. UNCHANGED rowFile /\ \A c \in StartIds : campaign'[c].at \in {"none", "ended"}
    BY <1>5, RestartEffect DEF Live
  <2>2. QED
    BY <1>3, <2>1
<1>6. ASSUME NEW s \in StartIds,
             \/ CheckRunner(s) \/ WriteCommand(s) \/ WriteLaunching(s) \/ SpawnWorker(s)
             \/ WriteRunning(s) \/ StarterDies(s) \/ AwaitState(s) \/ AwaitFails(s)
             \/ CommandReturns(s) \/ WriteEnd(s) \/ WorkerDies(s) \/ RunCampaign(s)
      PROVE  KeepInv' /\ \A t \in Samples : RowKept(t)
  <2>1. OnlyStart(s) /\ (UNCHANGED campaign \/ RunCampaign(s))
    BY <1>6, CheckEffect, StarterEffect, StarterDiesEffect, AwaitEffect, ReturnEffect,
       WriteEndEffect, WorkerDiesEffect, RunCampaignEffect DEF StarterMoves, WorkerMoves
  <2>2. \A c \in StartIds : campaign'[c] = campaign[c] \/ campaign'[c].at = "preflight"
    BY <2>1, RunCampaignEffect
  <2>3. QED
    BY <1>3, <2>1, <2>2 DEF OnlyStart
<1>7. ASSUME NEW c \in StartIds,
             \/ RefuseCampaign(c) \/ EndCampaignProcess(c) \/ SampleRaises(c) \/ CampaignDies(c)
             \/ BindManifest(c) \/ LoadResults(c) \/ \E s \in Samples : RunSample(c, s)
      PROVE  KeepInv' /\ \A s \in Samples : RowKept(s)
  <2>1. /\ OnlyCampaign(c) /\ rowFile'.rows = rowFile.rows
        /\ \/ campaign'[c].at \in {"ended", "planning"}
           \/ campaign'[c].rows = rowFile.rows
           \/ campaign[c].at = "choosing" /\ campaign'[c].rows = campaign[c].rows
    BY <1>7, EndingEffect, DyingEffect, BindEffect, LoadEffect, RunEffect
  <2>2. QED
    BY <1>3, <2>1 DEF OnlyCampaign
<1>8. QED
  BY <1>1, <1>2, <1>4, <1>5, <1>6, <1>7 DEF CampaignNext, KeepInv

-----------------------------------------------------------------------------
(* The detached campaign: the theorems *)

CampaignInv == CampaignTypes /\ RunnerInv /\ AloneInv /\ RowsInv /\ KeepInv

LEMMA InitialCampaign == CampaignInit => CampaignInv
<1> SUFFICES ASSUME CampaignInit PROVE CampaignInv
  OBVIOUS
<1>1. CampaignTypes
  BY InitialCampaignTypes
<1>2. /\ \A s \in StartIds : starter[s] = "idle" /\ runnerWorker[s] = "none" /\ campaign[s].at = "none"
      /\ runner = NoRunner /\ \A s \in Samples : rowFile.rows[s] = NoRow
  BY DEF CampaignInit, NoCampaign, NoRows
<1>3. QED
  BY <1>1, <1>2
  DEF CampaignInv, RunnerInv, AloneInv, RowsInv, KeepInv, Bound, NoRunner, Starting, Owns,
      WorkerAlive, IsMine, NobodyStarts, Live

LEMMA CampaignKept == CampaignInv /\ [CampaignNext]_campaignVars => CampaignInv'
BY CampaignTypesKept, RunnerStep, AloneStep, RowsStep, KeepStep DEF CampaignInv

\* One process at a time, under one configuration, makes the rows of a campaign.
THEOREM OneCampaign == CampaignSpec => []CampaignIsOne
<1>1. CampaignInv => CampaignIsOne
  <2> SUFFICES ASSUME CampaignInv PROVE CampaignIsOne
    OBVIOUS
  <2>1. ASSUME alone PROVE Cardinality({c \in StartIds : Live(c)}) <= 1
    <3>1. CASE {c \in StartIds : Live(c)} = {}
      BY <3>1, FS_EmptySet
    <3>2. ASSUME NEW d \in StartIds, Live(d) PROVE Cardinality({c \in StartIds : Live(c)}) <= 1
      <4>1. {c \in StartIds : Live(c)} = {d}
        BY <2>1, <3>2, OneLive DEF CampaignInv
      <4>2. QED
        BY <4>1, FS_Singleton
    <3>3. QED
      BY <3>1, <3>2
  <2>2. RowsAreOfOneConfiguration
    BY DEF CampaignInv, RowsInv, Bound, RowsAreOfOneConfiguration
  <2>3. QED
    BY <2>1, <2>2 DEF CampaignIsOne, OneCampaignAtATime
<1>2. QED
  BY <1>1, InitialCampaign, CampaignKept, PTL DEF CampaignSpec

\* What a campaign has recorded lasts: the end of a runner and the rows.
THEOREM RecordsStay == CampaignSpec => CampaignRecordsLast
<1>1. CampaignInv /\ [CampaignNext]_campaignVars =>
        [runner.status \in {"completed", "failed"} /\ runner'.id = runner.id =>
           runner' = runner]_campaignVars
  BY RunnerStep DEF CampaignInv
<1>2. CampaignInv /\ [CampaignNext]_campaignVars =>
        [alone => \A s \in Samples :
           /\ rowFile.rows[s] # NoRow => rowFile'.rows[s] # NoRow
           /\ rowFile.rows[s].status \in {"succeeded", "failed"} =>
                rowFile'.rows[s] = rowFile.rows[s]]_campaignVars
  BY KeepStep DEF CampaignInv, RowKept
<1>3. QED
  BY <1>1, <1>2, InitialCampaign, CampaignKept, PTL
  DEF CampaignSpec, CampaignRecordsLast, RunnerEndIsFinal, RowsAreKept

-----------------------------------------------------------------------------
(* The dependencies of features: cycles *)

\* None of these features could be made first.
Entangled(graph_, some) == \A f \in some : graph_[f] \intersect some # {}

LEMMA GraphFacts ==
  ASSUME NEW g \in Graphs
  PROVE  /\ DOMAIN g \subseteq Features /\ g \in [DOMAIN g -> SUBSET Features]
         /\ IsFiniteSet(DOMAIN g) /\ Cardinality(DOMAIN g) \in Nat
<1>1. PICK named \in SUBSET Features : g \in [named -> SUBSET Features]
  BY DEF Graphs
<1>2. DOMAIN g = named
  BY <1>1
<1>3. IsFiniteSet(DOMAIN g)
  BY <1>2, FeatureAssumption, FS_Subset
<1>4. QED
  BY <1>1, <1>2, <1>3, FS_CardinalityType

\* The features on a circle are entangled.
LEMMA CircleEntangles ==
  ASSUME NEW g \in Graphs, Cyclic(g)
  PROVE  \E some \in (SUBSET DOMAIN g) \ {{}} : Entangled(g, some)
<1>1. Cardinality(DOMAIN g) \in Nat
  BY GraphFacts
<1>2. PICK last \in 1..Cardinality(DOMAIN g) : \E circle \in [0..last -> DOMAIN g] :
        /\ circle[0] = circle[last]
        /\ \A k \in 0..(last - 1) : circle[k + 1] \in g[circle[k]]
  BY DEF Cyclic
<1>3. PICK circle \in [0..last -> DOMAIN g] :
        /\ circle[0] = circle[last]
        /\ \A k \in 0..(last - 1) : circle[k + 1] \in g[circle[k]]
  BY <1>2
<1> DEFINE some == {circle[k] : k \in 0..(last - 1)}
<1>4. last \in Nat /\ last > 0
  BY <1>1
<1>5. some \subseteq DOMAIN g /\ circle[0] \in some
  BY <1>4
<1>6. ASSUME NEW k \in 0..(last - 1) PROVE circle[k + 1] \in some
  <2>1. CASE k = last - 1
    <3>1. circle[k + 1] = circle[0]
      BY <1>3, <1>4, <2>1
    <3>2. QED
      BY <1>5, <3>1
  <2>2. CASE k # last - 1
    <3>1. k + 1 \in 0..(last - 1)
      BY <1>4, <2>2
    <3>2. QED
      BY <3>1
  <2>3. QED
    BY <2>1, <2>2
<1>7. Entangled(g, some)
  <2> SUFFICES ASSUME NEW k \in 0..(last - 1) PROVE g[circle[k]] \intersect some # {}
    BY DEF Entangled
  <2>1. QED
    BY <1>3, <1>6
<1>8. QED
  BY <1>5, <1>7

\* Among numbers below a bound there is a greatest.
LEMMA Greatest ==
  ASSUME NEW bound \in Nat, NEW numbers \in SUBSET (0..bound), numbers # {}
  PROVE  \E top \in numbers : \A n \in numbers : n <= top
<1> DEFINE rest == {bound - n : n \in numbers}
<1>1. rest \subseteq Nat /\ rest # {}
  <2>1. ASSUME NEW n \in numbers PROVE bound - n \in Nat
    OBVIOUS
  <2>2. PICK n \in numbers : TRUE
    OBVIOUS
  <2>3. bound - n \in rest
    OBVIOUS
  <2>4. QED
    BY <2>1, <2>3
<1>2. PICK m \in rest : \A x \in rest : ~(<<x, m>> \in OpToRel(<, Nat))
  <2> HIDE DEF rest
  <2>1. QED
    BY <1>1, NatLessThanWellFounded, WFMin
<1>3. \A x \in rest : ~(x < m)
  BY <1>1, <1>2 DEF OpToRel
<1>4. PICK top \in numbers : m = bound - top
  BY <1>2
<1>5. ASSUME NEW n \in numbers PROVE n <= top
  <2>1. bound - n \in rest
    OBVIOUS
  <2>2. ~(bound - n < bound - top)
    BY <1>3, <1>4, <2>1
  <2>3. n \in Nat /\ top \in Nat
    OBVIOUS
  <2>4. QED
    BY <2>2, <2>3
<1>6. QED
  BY <1>5

\* A way through some features, each of which depends on the next, that comes to none twice.
Ways(g, some, n) ==
  {way \in [1..n -> some] :
     /\ \A i, k \in 1..n : way[i] = way[k] => i = k
     /\ \A k \in 1..(n - 1) : way[k + 1] \in g[way[k]]}

\* It is no longer than there are features.
LEMMA WaysAreShort ==
  ASSUME NEW g \in Graphs, NEW n \in Nat, NEW some \in SUBSET DOMAIN g, NEW way \in Ways(g, some, n)
  PROVE  n <= Cardinality(DOMAIN g)
<1>1. IsFiniteSet(DOMAIN g)
  BY GraphFacts
<1>2. way \in Injection(1..n, DOMAIN g)
  BY DEF Ways, Injection, IsInjective
<1>3. Cardinality(1..n) <= Cardinality(DOMAIN g)
  BY <1>1, <1>2, FS_Injection
<1>4. Cardinality(1..n) = n
  BY FS_Interval
<1>5. QED
  BY <1>3, <1>4

\* The end of a way that depends on a feature on it closes a circle.
LEMMA WayCloses ==
  ASSUME NEW g \in Graphs, NEW n \in Nat \ {0}, NEW some \in SUBSET DOMAIN g,
         NEW way \in Ways(g, some, n), NEW k \in 1..n, way[k] \in g[way[n]]
  PROVE  Cyclic(g)
<1> DEFINE last == n - k + 1
           circle == [i \in 0..last |-> IF i = last THEN way[k] ELSE way[k + i]]
<1>1. n <= Cardinality(DOMAIN g) /\ Cardinality(DOMAIN g) \in Nat
  BY WaysAreShort, GraphFacts
<1>2. last \in 1..Cardinality(DOMAIN g) /\ last \in Nat /\ last > 0
  BY <1>1
<1>3. way \in [1..n -> DOMAIN g] /\ \A i \in 1..(n - 1) : way[i + 1] \in g[way[i]]
  BY DEF Ways
<1>4. circle \in [0..last -> DOMAIN g]
  <2>1. ASSUME NEW i \in 0..last PROVE circle[i] \in DOMAIN g
    <3>1. CASE i = last
      BY <1>3, <3>1
    <3>2. CASE i # last
      <4>1. k + i \in 1..n
        BY <3>2
      <4>2. QED
        BY <1>3, <3>2, <4>1
    <3>3. QED
      BY <3>1, <3>2
  <2>2. QED
    BY <2>1
<1>5. circle[0] = circle[last]
  BY <1>2
<1>6. ASSUME NEW i \in 0..(last - 1) PROVE circle[i + 1] \in g[circle[i]]
  <2>1. i \in 0..last /\ i + 1 \in 0..last /\ i # last /\ circle[i] = way[k + i]
    BY <1>2
  <2>2. CASE i + 1 = last
    <3>1. circle[i + 1] = way[k] /\ k + i = n
      BY <2>1, <2>2
    <3>2. QED
      BY <2>1, <3>1
  <2>3. CASE i + 1 # last
    <3>1. circle[i + 1] = way[(k + i) + 1] /\ k + i \in 1..(n - 1)
      BY <1>2, <2>1, <2>3
    <3>2. QED
      BY <1>3, <2>1, <3>1
  <2>4. QED
    BY <2>2, <2>3
<1> HIDE DEF last, circle
<1>7. QED
  BY <1>2, <1>4, <1>5, <1>6 DEF Cyclic

\* Conversely, some features that are entangled have a circle among them: the longest way
\* through them cannot go on, so its end depends on a feature on it.
LEMMA EntangledIsCyclic ==
  ASSUME NEW g \in Graphs, NEW some \in (SUBSET DOMAIN g) \ {{}}, Entangled(g, some)
  PROVE  Cyclic(g)
<1> DEFINE bound == Cardinality(DOMAIN g)
           lengths == {n \in 1..bound : Ways(g, some, n) # {}}
<1>1. bound \in Nat
  BY GraphFacts
<1>2. 1 \in lengths
  <2>1. PICK f \in some : TRUE
    OBVIOUS
  <2>2. [i \in 1..1 |-> f] \in Ways(g, some, 1)
    BY DEF Ways
  <2>3. 1 <= bound
    BY <2>2, WaysAreShort
  <2>4. QED
    BY <1>1, <2>2, <2>3
<1>3. PICK n \in lengths : \A m \in lengths : m <= n
  <2>1. lengths \subseteq 0..bound
    BY <1>1
  <2> HIDE DEF lengths, bound
  <2>2. QED
    BY <1>1, <1>2, <2>1, Greatest
<1>4. n \in Nat \ {0} /\ n \in 1..bound
  BY <1>1, <1>3
<1>5. PICK way \in Ways(g, some, n) : TRUE
  BY <1>3
<1>6. way \in [1..n -> some]
  BY DEF Ways
<1>7. PICK next \in some : next \in g[way[n]]
  BY <1>4, <1>6 DEF Entangled
<1>8. CASE \E k \in 1..n : way[k] = next
  <2>1. PICK k \in 1..n : way[k] = next
    BY <1>8
  <2>2. QED
    BY <1>4, <1>7, <2>1, WayCloses
<1>9. CASE \A k \in 1..n : way[k] # next
  <2> DEFINE longer == [i \in 1..(n + 1) |-> IF i = n + 1 THEN next ELSE way[i]]
  <2>1. longer \in [1..(n + 1) -> some]
    BY <1>4, <1>6
  <2>2. \A i, k \in 1..(n + 1) : longer[i] = longer[k] => i = k
    <3>1. \A i \in 1..n : longer[i] = way[i] /\ longer[n + 1] = next
      BY <1>4
    <3>2. \A i, k \in 1..n : way[i] = way[k] => i = k
      BY DEF Ways
    <3>3. \A i \in 1..(n + 1) : i = n + 1 \/ i \in 1..n
      BY <1>4
    <3> HIDE DEF longer
    <3>4. QED
      BY <1>9, <3>1, <3>2, <3>3
  <2>3. \A k \in 1..((n + 1) - 1) : longer[k + 1] \in g[longer[k]]
    <3>1. ASSUME NEW k \in 1..n PROVE longer[k + 1] \in g[longer[k]]
      <4>1. CASE k = n
        BY <1>4, <1>7, <4>1
      <4>2. CASE k # n
        <5>1. k \in 1..(n - 1) /\ longer[k] = way[k] /\ longer[k + 1] = way[k + 1]
          BY <1>4, <4>2
        <5>2. QED
          BY <5>1 DEF Ways
      <4>3. QED
        BY <4>1, <4>2
    <3>2. (n + 1) - 1 = n
      BY <1>4
    <3> HIDE DEF longer
    <3>3. QED
      BY <3>1, <3>2
  <2>4. longer \in Ways(g, some, n + 1)
    <3> HIDE DEF longer
    <3>1. QED
      BY <2>1, <2>2, <2>3 DEF Ways
  <2>5. n + 1 <= bound
    <3> HIDE DEF longer
    <3>1. QED
      BY <1>4, <2>4, WaysAreShort
  <2>6. n + 1 \in lengths
    BY <1>1, <1>4, <2>4, <2>5
  <2>7. QED
    BY <1>3, <1>4, <2>6
<1>10. QED
  BY <1>8, <1>9

-----------------------------------------------------------------------------
(* The search for a cycle *)

SearchTypes ==
  /\ graph \in Graphs
  /\ calls \in Seq(DOMAIN graph)
  /\ visiting \subseteq DOMAIN graph
  /\ visited \subseteq DOMAIN graph
  /\ verdict \in {"none", "cyclic", "acyclic"}

\* The calls under way go along dependencies, and their nodes are those being visited.
CallsInv ==
  /\ \A i, k \in 1..Len(calls) : calls[i] = calls[k] => i = k
  /\ \A i \in 1..(Len(calls) - 1) : calls[i + 1] \in graph[calls[i]]
  /\ visiting = {calls[i] : i \in 1..Len(calls)}
  /\ visiting \intersect visited = {}

\* What was visited depends on nothing else, and could be made.
VisitedInv ==
  /\ \A f \in visited : graph[f] \intersect DOMAIN graph \subseteq visited
  /\ \A some \in (SUBSET visited) \ {{}} : ~Entangled(graph, some)

VerdictInv ==
  /\ verdict = "cyclic" => Cyclic(graph)
  /\ verdict = "acyclic" => visited = DOMAIN graph

SearchInv == SearchTypes /\ CallsInv /\ VisitedInv /\ VerdictInv

LEMMA CallFacts ==
  ASSUME SearchTypes
  PROVE  /\ Len(calls) \in Nat /\ DOMAIN calls = 1..Len(calls)
         /\ calls \in [1..Len(calls) -> DOMAIN graph]
         /\ calls # <<>> => Len(calls) > 0 /\ Len(calls) \in 1..Len(calls)
BY DEF SearchTypes

LEMMA InitialSearch == SearchInit => SearchInv
<1> SUFFICES ASSUME SearchInit PROVE SearchInv
  OBVIOUS
<1>1. SearchTypes /\ Len(calls) = 0
  BY DEF SearchInit, SearchTypes
<1>2. QED
  BY <1>1 DEF SearchInit, SearchInv, CallsInv, VisitedInv, VerdictInv

LEMMA SearchStutters ==
  ASSUME SearchInv, UNCHANGED <<graph, calls, visiting, visited>>, VerdictInv',
         verdict' \in {"none", "cyclic", "acyclic"}
  PROVE  SearchInv'
BY DEF SearchInv, SearchTypes, CallsInv, VisitedInv

\* A call of visit(): from outside, or for what the last call's node depends on.
LEMMA VisitStep ==
  ASSUME SearchInv, verdict = "none", NEW node \in DOMAIN graph, Visit(node),
         calls # <<>> => node \in graph[Caller]
  PROVE  SearchInv'
<1> USE DEF SearchInv
<1>0. /\ Len(calls) \in Nat /\ calls \in [1..Len(calls) -> DOMAIN graph]
      /\ calls # <<>> => Len(calls) > 0
      /\ calls \in Seq(DOMAIN graph)
  BY CallFacts DEF SearchTypes
<1>1. CASE node \in visiting /\ verdict' = "cyclic" /\ UNCHANGED <<graph, calls, visiting, visited>>
  <2>1. PICK k \in 1..Len(calls) : calls[k] = node
    BY <1>1 DEF CallsInv
  <2>2. calls \in Ways(graph, DOMAIN graph, Len(calls))
    BY <1>0 DEF CallsInv, Ways
  <2>3. Cyclic(graph)
    <3>1. Len(calls) \in Nat \ {0} /\ calls # <<>>
      BY <1>0, <2>1
    <3>2. calls[k] \in graph[calls[Len(calls)]]
      BY <2>1, <3>1 DEF Caller
    <3>3. graph \in Graphs
      BY DEF SearchTypes
    <3>4. QED
      BY <2>2, <3>1, <3>2, <3>3, WayCloses
  <2>4. QED
    BY <1>1, <2>3, SearchStutters DEF VerdictInv
<1>2. CASE UNCHANGED searchVars
  BY <1>2, SearchStutters DEF searchVars, SearchTypes, VerdictInv
<1>3. CASE /\ node \notin visiting /\ node \notin visited
           /\ visiting' = visiting \union {node} /\ calls' = Append(calls, node)
           /\ UNCHANGED <<graph, visited, verdict>>
  <2>1. /\ calls' \in Seq(DOMAIN graph) /\ Len(calls') = Len(calls) + 1
        /\ \A i \in 1..Len(calls) : calls'[i] = calls[i]
        /\ calls'[Len(calls) + 1] = node
    BY <1>0, <1>3
  <2>2. SearchTypes'
    BY <1>3, <2>1 DEF SearchTypes
  <2>3. \A i \in 1..(Len(calls) + 1) : i = Len(calls) + 1 \/ i \in 1..Len(calls)
    BY <1>0
  <2>4. \A i \in 1..Len(calls) : calls[i] # node
    BY <1>3 DEF CallsInv
  <2>5. \A i, k \in 1..(Len(calls) + 1) : calls'[i] = calls'[k] => i = k
    BY <2>1, <2>3, <2>4 DEF CallsInv
  <2>6. ASSUME NEW i \in 1..Len(calls) PROVE calls'[i + 1] \in graph[calls'[i]]
    <3>1. CASE i = Len(calls)
      BY <1>0, <2>1, <3>1 DEF Caller
    <3>2. CASE i # Len(calls)
      <4>1. i \in 1..(Len(calls) - 1) /\ i + 1 \in 1..Len(calls)
        <5>1. Len(calls) \in Nat
          BY <1>0
        <5>2. QED
          BY <5>1, <3>2
      <4>2. QED
        BY <2>1, <4>1 DEF CallsInv
    <3>3. QED
      BY <3>1, <3>2
  <2>7. visiting' = {calls'[i] : i \in 1..(Len(calls) + 1)}
    BY <1>3, <2>1, <2>3, <1>0 DEF CallsInv
  <2>8. visiting' \intersect visited = {}
    BY <1>3 DEF CallsInv
  <2>9. CallsInv'
    <3>1. (Len(calls) + 1) - 1 = Len(calls)
      BY <1>0
    <3>2. QED
      BY <1>3, <2>1, <2>5, <2>6, <2>7, <2>8, <3>1 DEF CallsInv
  <2>10. VisitedInv' /\ VerdictInv'
    BY <1>3 DEF VisitedInv, VerdictInv, Entangled
  <2>11. QED
    BY <2>2, <2>9, <2>10
<1>4. QED
  BY <1>1, <1>2, <1>3 DEF Visit

\* A node that is left depends on what was visited only: it can be made after that.
LEMMA LeaveStep == ASSUME SearchInv, LeaveNode PROVE SearchInv'
<1> USE DEF SearchInv
<1> DEFINE top == Len(calls)
<1>0. /\ top \in Nat /\ top > 0 /\ calls \in [1..top -> DOMAIN graph]
      /\ calls \in Seq(DOMAIN graph)
  BY CallFacts DEF SearchTypes, LeaveNode
<1>1. PICK node \in DOMAIN graph :
        /\ node = calls[top]
        /\ graph[node] \intersect DOMAIN graph \subseteq visited
        /\ visiting' = visiting \ {node} /\ visited' = visited \union {node}
        /\ verdict = "none"
        /\ UNCHANGED <<graph, verdict>>
  BY <1>0 DEF LeaveNode, Caller, Parents
<1>2. /\ calls' \in Seq(DOMAIN graph) /\ Len(calls') = top - 1
      /\ \A i \in 1..(top - 1) : calls'[i] = calls[i]
  BY <1>0 DEF LeaveNode
<1> HIDE DEF top
<1>3. SearchTypes'
  BY <1>1, <1>2 DEF SearchTypes
<1>4. node \in visiting /\ node \notin visited
  BY <1>0, <1>1 DEF CallsInv, top
<1>5. CallsInv'
  <2>1. \A i \in 1..(top - 1) : i \in 1..top /\ i # top
    BY <1>0
  <2>2. \A i, k \in 1..(top - 1) : calls'[i] = calls'[k] => i = k
    BY <1>2, <2>1 DEF CallsInv, top
  <2>3. \A i \in 1..((top - 1) - 1) :
          i \in 1..(top - 1) /\ i + 1 \in 1..(top - 1)
    BY <1>0
  <2>4. \A i \in 1..((top - 1) - 1) : calls'[i + 1] \in graph[calls'[i]]
    BY <1>2, <2>3 DEF CallsInv, top
  <2>5. visiting' = {calls'[i] : i \in 1..(top - 1)}
    <3>1. \A i \in 1..top : i = top \/ i \in 1..(top - 1)
      BY <1>0
    <3>2. \A i \in 1..(top - 1) : calls[i] # node
      <4>1. \A i, k \in 1..top : calls[i] = calls[k] => i = k
        BY DEF CallsInv, top
      <4>2. top \in 1..top
        BY <1>0
      <4>3. QED
        BY <1>1, <2>1, <4>1, <4>2
    <3>3. QED
      <4>1. visiting' = {calls[i] : i \in 1..top} \ {node}
        BY <1>1 DEF CallsInv, top
      <4>2. {calls[i] : i \in 1..top} \ {node} = {calls[i] : i \in 1..(top - 1)}
        BY <1>0, <1>1, <2>1, <3>1, <3>2 DEF top
      <4>3. {calls[i] : i \in 1..(top - 1)} = {calls'[i] : i \in 1..(top - 1)}
        BY <1>2
      <4>4. QED
        BY <4>1, <4>2, <4>3
  <2>6. QED
    BY <1>1, <1>2, <2>2, <2>4, <2>5 DEF CallsInv
<1>6. VisitedInv'
  <2>1. \A f \in visited' : graph[f] \intersect DOMAIN graph \subseteq visited'
    BY <1>1 DEF VisitedInv
  <2>2. ASSUME NEW some \in (SUBSET visited') \ {{}} PROVE ~Entangled(graph, some)
    <3>1. CASE some = {node}
      BY <1>1, <1>4, <3>1 DEF Entangled
    <3>2. CASE some # {node}
      <4>1. some \ {node} \in (SUBSET visited) \ {{}}
        BY <1>1, <3>2
      <4>2. PICK f \in some \ {node} : graph[f] \intersect (some \ {node}) = {}
        BY <4>1 DEF VisitedInv, Entangled
      <4>3. f \in visited
        BY <4>1
      <4>4. node \notin graph[f]
        BY <1>4, <4>3 DEF VisitedInv
      <4>5. QED
        BY <4>2, <4>4 DEF Entangled
    <3>3. QED
      BY <3>1, <3>2
  <2>3. QED
    BY <1>1, <2>1, <2>2 DEF VisitedInv, Entangled
<1>7. QED
  BY <1>1, <1>3, <1>5, <1>6 DEF VerdictInv

LEMMA SearchStep == SearchInv /\ [SearchNext]_searchVars => SearchInv'
<1> SUFFICES ASSUME SearchInv, [SearchNext]_searchVars PROVE SearchInv'
  OBVIOUS
<1>1. CASE VisitRoot
  BY <1>1, VisitStep DEF VisitRoot
<1>2. CASE VisitParent
  BY <1>2, VisitStep DEF VisitParent, Parents
<1>3. CASE LeaveNode
  BY <1>3, LeaveStep
<1>4. CASE EndSearch
  <2>1. visited = DOMAIN graph
    BY <1>4 DEF EndSearch, SearchInv, SearchTypes
  <2>2. QED
    BY <1>4, <2>1, SearchStutters DEF EndSearch, VerdictInv
<1>5. CASE UNCHANGED searchVars
  BY <1>5, SearchStutters DEF searchVars, SearchInv, SearchTypes, VerdictInv
<1>6. QED
  BY <1>1, <1>2, <1>3, <1>4, <1>5 DEF SearchNext

\* The depth-first search of validate_reconstruction_ir is exact for any number of features,
\* whatever they depend on and in whatever order it goes through them (SearchIsExact).
THEOREM SearchExact == SearchSpec => []SearchIsExact
<1>1. SearchInv => SearchIsExact
  <2> SUFFICES ASSUME SearchInv, verdict # "none", Cyclic(graph) PROVE verdict = "cyclic"
    BY DEF SearchInv, VerdictInv, SearchIsExact
  <2>1. PICK some \in (SUBSET DOMAIN graph) \ {{}} : Entangled(graph, some)
    BY CircleEntangles DEF SearchInv, SearchTypes
  <2>2. QED
    BY <2>1 DEF SearchInv, SearchTypes, VisitedInv, VerdictInv
<1>2. QED
  BY <1>1, InitialSearch, SearchStep, PTL DEF SearchSpec

-----------------------------------------------------------------------------
(* The conversations of a job: types and the invariant *)

Names == 0..Len(threads)
JobPlaces ==
  {"off", "looking", "building", "failing", "writing", "recording", "binding", "acting",
   "checkpoint", "acted", "verified", "completing", "ended"}
Evidences == {"images", "feedback", "oracle", "ir", "verdict"}
Exchanges == [given : SUBSET Evidences, near : SUBSET Evidences]
IRs == Replies \union {OracleIR}
JobDirs ==
  [staged : BOOLEAN,
   ir : [state : {"absent", "torn", "whole"}, value : IRs, by : Names],
   record : [state : {"absent", "torn", "passed", "failed"}, thread : Names],
   workspace : BOOLEAN]
JobCalls ==
  [at : JobPlaces, handle : Names, tries : Nat, builder : Names, thread : Names, actions : Nat]
Saves == [thread : Names, phase : {"none", "acted", "verified"}, actions : Nat]

EvidenceTypes ==
  /\ condition \in Conditions
  /\ jobDir \in JobDirs
  /\ jobCall \in JobCalls
  /\ saved \in Saves
  /\ threads \in Seq(Exchanges)
  /\ mislaid \in BOOLEAN

\* An IR that is there is the oracle's or has passed the gate.
IRInv ==
  /\ jobDir.ir.state # "absent" => jobDir.ir.value = OracleIR \/ Validated(jobDir.ir.value)
  /\ jobCall.at = "writing" => jobDir.ir.state # "absent"

\* A conversation that an isolated job may go on with was given no image.
Clean(t) == t # NoThread => "images" \notin threads[t].given
IsolatedInv ==
  Isolated => Clean(saved.thread) /\ Clean(jobCall.thread) /\ IsolatedGetsNoImage

\* In forced_ir nobody models before the build is on record, and whoever models then is
\* the builder: a build that is not on record is made again, by another.
Modelling == {"acting", "checkpoint", "acted", "verified", "completing"}
Recorded == jobDir.record.state = "passed"
Built == jobDir.ir.by # NoThread /\ jobDir.ir.state # "absent"
ForcedInv ==
  condition.mode = "forced_ir" /\ ~mislaid =>
    /\ jobDir.record.state # "failed"
    /\ Recorded => Built /\ jobDir.record.thread = jobDir.ir.by
    /\ saved.thread # NoThread => Recorded /\ saved.thread = jobDir.ir.by
    /\ \A t \in Executing : Recorded /\ t = jobDir.ir.by
    /\ jobCall.at \in {"building", "failing", "writing", "recording"} => ~Recorded
    /\ jobCall.at \in {"writing", "recording"} => Built /\ jobCall.builder = jobDir.ir.by
    /\ jobCall.at = "binding" => Recorded /\ jobCall.builder = jobDir.ir.by
    /\ jobCall.at \in Modelling => Recorded /\ jobCall.thread = jobDir.ir.by

EvidenceInv == EvidenceTypes /\ IRInv /\ IsolatedInv /\ ForcedInv

LEMMA InitialEvidence == EvidenceInit => EvidenceInv
<1> SUFFICES ASSUME EvidenceInit PROVE EvidenceInv
  OBVIOUS
<1>1. threads = <<>> /\ Len(threads) = 0 /\ Names = {0} /\ NoThread = 0
  BY DEF EvidenceInit, Names, NoThread
<1>2. jobDir \in JobDirs
  <2>1. NoIR \in IRs
    BY DEF IRs, Replies
  <2>2. QED
    BY <1>1, <2>1 DEF EvidenceInit, JobDirs
<1>3. jobCall \in JobCalls /\ jobCall.at = "off" /\ jobCall.thread = 0
  BY <1>1 DEF EvidenceInit, JobCalls, NoJobCall, JobPlaces
<1>4. saved \in Saves /\ saved.thread = 0
  BY <1>1 DEF EvidenceInit, Saves
<1>5. EvidenceTypes
  <2>1. threads \in Seq(Exchanges)
    BY <1>1
  <2>2. condition \in Conditions /\ mislaid \in BOOLEAN
    BY DEF EvidenceInit
  <2>3. QED
    BY <1>2, <1>3, <1>4, <2>1, <2>2 DEF EvidenceTypes
<1>6. Executing = {}
  BY <1>1 DEF Executing, Threads
<1>7. QED
  BY <1>1, <1>3, <1>4, <1>5, <1>6
  DEF EvidenceInit, EvidenceInv, IRInv, IsolatedInv, ForcedInv, Clean, IsolatedGetsNoImage,
      Recorded, Built, Modelling

-----------------------------------------------------------------------------
(* The conversations of a job: what a step may do *)

\* A conversation is started, or one of those there are is shown more; the others stay.
Keeps(t, before, after) == after[t].given = before[t].given

LEMMA NewThreadEffect ==
  ASSUME threads \in Seq(Exchanges), NEW given \in SUBSET Evidences, NEW near \in SUBSET Evidences,
         threads' = NewThread(given, near)
  PROVE  /\ threads' \in Seq(Exchanges)
         /\ Len(threads) \in Nat /\ Len(threads') = Len(threads) + 1
         /\ Threads = 1..Len(threads) /\ Threads' = 1..(Len(threads) + 1)
         /\ \A t \in Threads : threads'[t] = threads[t]
         /\ threads'[Len(threads')].given = given
<1>1. PICK exchange \in Exchanges : exchange = [given |-> given, near |-> near]
  BY DEF Exchanges
<1>2. threads' = Append(threads, exchange)
  BY <1>1 DEF NewThread
<1>3. QED
  BY <1>1, <1>2 DEF Threads

LEMMA ShownEffect ==
  ASSUME threads \in Seq(Exchanges), NEW given \in SUBSET Evidences, NEW near \in SUBSET Evidences,
         NEW thread \in Threads, threads' = Shown(thread, given, near)
  PROVE  /\ threads' \in Seq(Exchanges) /\ Len(threads') = Len(threads) /\ Threads' = Threads
         /\ \A t \in Threads \ {thread} : threads'[t] = threads[t]
         /\ threads'[thread].given = threads[thread].given \union given
<1>1. Threads = 1..Len(threads) /\ Len(threads) \in Nat
  BY DEF Threads
<1>2. threads[thread] \in Exchanges
  BY <1>1
<1>3. threads[thread].given \subseteq Evidences /\ threads[thread].near \subseteq Evidences
  BY <1>2 DEF Exchanges
<1>4. PICK all \in SUBSET Evidences : all = threads[thread].given \union given
  BY <1>3
<1>5. PICK beside \in SUBSET Evidences : beside = threads[thread].near \union near
  BY <1>3
<1>6. PICK exchange \in Exchanges :
        exchange = [given |-> all, near |-> beside] /\ exchange.given = all
  <2>1. \A g, n \in SUBSET Evidences : [given |-> g, near |-> n] \in Exchanges
    BY DEF Exchanges
  <2>2. QED
    BY <1>4, <1>5, <2>1
<1>7. threads' = [threads EXCEPT ![thread] = exchange]
  BY <1>4, <1>5, <1>6 DEF Shown
<1>8. /\ threads' \in Seq(Exchanges) /\ Len(threads') = Len(threads)
      /\ threads'[thread] = exchange
      /\ \A t \in Threads \ {thread} : threads'[t] = threads[t]
  BY <1>1, <1>7
<1>9. QED
  BY <1>1, <1>4, <1>6, <1>8 DEF Threads

LEMMA NothingShown ==
  ASSUME UNCHANGED threads
  PROVE  Names' = Names /\ Threads' = Threads /\ Executing' = Executing
BY DEF Names, Threads, Executing

\* What is in a directory or a prompt is evidence.
LEMMA EvidenceKinds ==
  /\ InJobDir \subseteq Evidences /\ InWorkspace \subseteq Evidences
  /\ InPrompt \subseteq Evidences /\ "images" \notin InPrompt
  /\ WithIR => "ir" \in InPrompt
BY DEF InJobDir, InWorkspace, InPrompt, InIRPrompt, Evidences

LEMMA IsolatedWithIR == ASSUME EvidenceTypes PROVE Isolated => WithIR /\ condition.mode # "forced_ir"
BY DEF EvidenceTypes, Isolated, WithIR, Conditions

\* A step that shows nothing: what it takes up was there before.
LEMMA QuietStep ==
  ASSUME EvidenceInv, UNCHANGED <<condition, threads>>,
         jobDir' \in JobDirs, jobCall' \in JobCalls, saved' \in Saves, mislaid' \in BOOLEAN,
         IRInv', ForcedInv',
         Isolated => /\ saved'.thread \in {saved.thread, jobCall.thread, NoThread}
                     /\ jobCall'.thread \in {saved.thread, jobCall.thread, NoThread}
  PROVE  EvidenceInv'
<1>1. Names' = Names /\ Threads' = Threads /\ Executing' = Executing
  BY NothingShown
<1>2. EvidenceTypes'
  BY <1>1 DEF EvidenceInv, EvidenceTypes, JobDirs, JobCalls, Saves
<1>3. IsolatedInv'
  BY <1>1 DEF EvidenceInv, IsolatedInv, Isolated, Clean, IsolatedGetsNoImage
<1>4. QED
  BY <1>2, <1>3 DEF EvidenceInv

-----------------------------------------------------------------------------
(* The conversations of a job: the IR and its gate *)

LEMMA RaiseTypes ==
  ASSUME Raises, EvidenceTypes
  PROVE  jobCall' \in JobCalls /\ jobCall'.at = "off" /\ jobCall'.thread = NoThread
BY DEF Raises, NoJobCall, JobCalls, JobPlaces, NoThread, Names, EvidenceTypes

LEMMA EnterStep ==
  ASSUME EvidenceInv, CallJob \/ FindIR \/ BeginBuild \/ (JobDies /\ UNCHANGED jobDir)
  PROVE  EvidenceInv'
<1> USE DEF EvidenceInv
<1>1. UNCHANGED <<condition, saved, threads, mislaid>>
  BY DEF CallJob, FindIR, BeginBuild, JobDies
<1>2. Names' = Names /\ Executing' = Executing
  BY <1>1, NothingShown
<1>3. jobDir' \in JobDirs /\ jobDir'.ir = jobDir.ir /\ jobDir'.record = jobDir.record
  <2>1. CASE CallJob
    BY <2>1 DEF CallJob, EvidenceTypes, JobDirs
  <2>2. CASE FindIR \/ BeginBuild \/ UNCHANGED jobDir
    BY <2>2 DEF FindIR, BeginBuild, EvidenceTypes
  <2>3. QED
    BY <2>1, <2>2
<1>4. /\ jobCall' \in JobCalls /\ jobCall'.thread \in {jobCall.thread, NoThread}
      /\ jobCall'.at \in {"off", "looking", "building", "binding"}
  <2>1. CASE CallJob
    BY <2>1 DEF CallJob, EvidenceTypes, JobCalls, JobPlaces, NoJobCall, Names, NoThread
  <2>2. CASE FindIR /\ ~Raises
    BY <2>2 DEF FindIR, EvidenceTypes, JobCalls, JobPlaces, JobDirs
  <2>3. CASE BeginBuild
    BY <2>3 DEF BeginBuild, EvidenceTypes, JobCalls, JobPlaces
  <2>4. CASE Raises
    BY <2>4, RaiseTypes
  <2>5. QED
    BY <2>1, <2>2, <2>3, <2>4 DEF JobDies
<1>5. IRInv'
  BY <1>3, <1>4 DEF IRInv
<1>6. ForcedInv'
  <2>1. SUFFICES ASSUME condition.mode = "forced_ir", ~mislaid
                 PROVE  /\ jobCall'.at \in {"building", "failing", "writing", "recording"} => ~Recorded
                        /\ jobCall'.at \notin {"writing", "recording"}
                        /\ jobCall'.at = "binding" => Recorded /\ jobCall'.builder = jobDir.ir.by
                        /\ jobCall'.at \notin Modelling
    BY <1>1, <1>2, <1>3 DEF ForcedInv, Recorded, Built
  <2>2. CASE CallJob
    BY <2>1, <2>2 DEF CallJob, WithIR, NoJobCall, Modelling
  <2>3. CASE FindIR /\ ~Raises
    <3>1. jobCall'.at = "binding" /\ jobCall'.builder = jobDir.record.thread /\ HasIR
      BY <2>3 DEF FindIR, EvidenceTypes, JobCalls
    <3>2. QED
      BY <2>1, <2>3, <3>1
         DEF FindIR, IsTorn, ForcedInv, Recorded, HasIR, Modelling, EvidenceTypes, JobDirs
  <2>4. CASE BeginBuild
    <3>1. jobCall'.at = "building" /\ ~HasIR
      BY <2>4 DEF BeginBuild, EvidenceTypes, JobCalls
    <3>2. QED
      BY <2>1, <3>1 DEF ForcedInv, Recorded, Built, HasIR, Modelling
  <2>5. CASE Raises
    BY <2>5, RaiseTypes DEF Modelling
  <2>6. QED
    BY <2>2, <2>3, <2>4, <2>5 DEF JobDies
<1>7. QED
  BY <1>1, <1>3, <1>4, <1>5, <1>6, QuietStep DEF EvidenceTypes

\* A build record that is cut short was not there before.
LEMMA TornRecordStep ==
  ASSUME EvidenceInv, JobDies, ~UNCHANGED jobDir
  PROVE  EvidenceInv'
<1> USE DEF EvidenceInv
<1>1. /\ UNCHANGED <<condition, saved, threads, mislaid>> /\ Raises
      /\ jobCall.at \in {"failing", "recording"}
      /\ jobDir' = [jobDir EXCEPT !.record = [state |-> "torn", thread |-> NoThread]]
  BY DEF JobDies
<1>2. Executing' = Executing
  BY <1>1, NothingShown
<1>3. jobDir' \in JobDirs /\ jobDir'.ir = jobDir.ir /\ jobDir'.record.state = "torn"
  BY <1>1 DEF EvidenceTypes, JobDirs, Names, NoThread
<1>4. jobCall' \in JobCalls /\ jobCall'.at = "off" /\ jobCall'.thread = NoThread
  BY <1>1, RaiseTypes
<1>5. IRInv'
  BY <1>3, <1>4 DEF IRInv
<1>6. ForcedInv'
  BY <1>1, <1>2, <1>3, <1>4 DEF ForcedInv, Recorded, Built, Modelling
<1>7. QED
  BY <1>1, <1>3, <1>4, <1>5, <1>6, QuietStep DEF EvidenceTypes

LEMMA OracleStep == ASSUME EvidenceInv, TranslateOracle PROVE EvidenceInv'
<1> USE DEF EvidenceInv
<1>1. UNCHANGED <<condition, saved, threads, mislaid>> /\ condition.mode = "oracle_ir"
  BY DEF TranslateOracle
<1>2. ForcedInv'
  BY <1>1 DEF ForcedInv
<1>3. CASE condition.oracle = "perception"
  <2>1. /\ jobDir' = [jobDir EXCEPT !.ir = [state |-> "torn", value |-> OracleIR, by |-> NoThread]]
        /\ jobCall' = [jobCall EXCEPT !.at = "writing"]
    BY <1>3 DEF TranslateOracle
  <2>2. jobDir' \in JobDirs /\ jobDir'.ir.value = OracleIR /\ jobDir'.ir.state = "torn"
    BY <2>1 DEF EvidenceTypes, JobDirs, IRs, Names, NoThread
  <2>3. jobCall' \in JobCalls /\ jobCall'.thread = jobCall.thread
    BY <2>1 DEF EvidenceTypes, JobCalls, JobPlaces
  <2>4. QED
    BY <1>1, <1>2, <2>2, <2>3, QuietStep DEF IRInv, EvidenceTypes
<1>4. CASE condition.oracle # "perception"
  <2>1. Raises /\ UNCHANGED jobDir
    BY <1>4 DEF TranslateOracle
  <2>2. QED
    <3>1. jobCall' \in JobCalls /\ jobCall'.at = "off" /\ jobCall'.thread = NoThread
      BY <2>1, RaiseTypes
    <3>2. IRInv'
      BY <2>1, <3>1 DEF IRInv
    <3>3. QED
      BY <1>1, <1>2, <2>1, <3>1, <3>2, QuietStep DEF EvidenceTypes
<1>5. QED
  BY <1>3, <1>4

\* A turn of the builder shows images to a conversation nobody models in.
LEMMA BuildStep == ASSUME EvidenceInv, StartBuilder \/ CorrectIR PROVE EvidenceInv'
<1> USE DEF EvidenceInv
<1>1. /\ UNCHANGED <<condition, saved, mislaid>>
      /\ jobCall.at = "building"
      /\ jobDir \in JobDirs /\ jobCall \in JobCalls /\ saved \in Saves
      /\ threads \in Seq(Exchanges) /\ Len(threads) \in Nat
  BY DEF StartBuilder, CorrectIR, EvidenceTypes
<1>2. PICK thread : \E reply \in Replies :
        /\ JudgeIR(reply, thread)
        /\ \/ threads' = threads /\ thread = NoThread /\ reply = NoIR
           \/ threads' = NewThread({"images"}, InJobDir) /\ thread = Len(threads')
           \/ /\ threads' = Shown(thread, {}, InJobDir)
              /\ thread = jobCall.handle /\ thread # NoThread
  <2>1. NoIR \in Replies
    BY DEF Replies
  <2>2. CASE StartBuilder
    BY <2>1, <2>2 DEF StartBuilder
  <2>3. CASE CorrectIR
    BY <2>1, <2>3 DEF CorrectIR
  <2>4. QED
    BY <2>2, <2>3
<1>13. PICK reply \in Replies :
        /\ JudgeIR(reply, thread)
        /\ \/ threads' = threads /\ thread = NoThread /\ reply = NoIR
           \/ threads' = NewThread({"images"}, InJobDir) /\ thread = Len(threads')
           \/ /\ threads' = Shown(thread, {}, InJobDir)
              /\ thread = jobCall.handle /\ thread # NoThread
  BY <1>2
<1>3. /\ threads' \in Seq(Exchanges) /\ Len(threads') \in Nat /\ Len(threads') >= Len(threads)
      /\ thread \in 0..Len(threads')
      /\ reply = NoIR \/ thread # NoThread
      /\ Threads \subseteq Threads' /\ Threads = 1..Len(threads)
      /\ \A t \in Threads : threads'[t].given = threads[t].given
      /\ \A t \in Threads' \ Threads : threads'[t].given = {"images"}
  <2>1. CASE threads' = threads /\ thread = NoThread /\ reply = NoIR
    BY <1>1, <2>1 DEF NoThread, Threads
  <2>2. CASE threads' = NewThread({"images"}, InJobDir) /\ thread = Len(threads')
    <3>1. {"images"} \in SUBSET Evidences /\ InJobDir \in SUBSET Evidences
      BY EvidenceKinds DEF Evidences
    <3>2. /\ threads' \in Seq(Exchanges) /\ Len(threads') = Len(threads) + 1
          /\ Threads = 1..Len(threads) /\ Threads' = 1..(Len(threads) + 1)
          /\ \A t \in Threads : threads'[t] = threads[t]
          /\ threads'[Len(threads')].given = {"images"}
      BY <1>1, <2>2, <3>1, NewThreadEffect
    <3>3. \A t \in Threads' \ Threads : t = Len(threads')
      BY <1>1, <3>2
    <3>4. QED
      BY <1>1, <2>2, <3>2, <3>3 DEF NoThread
  <2>3. CASE /\ threads' = Shown(thread, {}, InJobDir)
             /\ thread = jobCall.handle /\ thread # NoThread
    <3>1. {} \in SUBSET Evidences /\ InJobDir \in SUBSET Evidences
      BY EvidenceKinds
    <3>2. thread \in Threads /\ Threads = 1..Len(threads)
      BY <1>1, <2>3 DEF Threads, JobCalls, Names, NoThread
    <3>5. threads' = Shown(thread, {}, InJobDir)
      BY <2>3
    <3>6. threads \in Seq(Exchanges)
      BY <1>1
    <3>3. /\ threads' \in Seq(Exchanges) /\ Len(threads') = Len(threads) /\ Threads' = Threads
          /\ \A t \in Threads \ {thread} : threads'[t] = threads[t]
          /\ threads'[thread].given = threads[thread].given \union {}
      <4> HIDE DEF EvidenceInv
      <4>1. thread \in Threads
        BY <3>2
      <4>2. QED
        BY <3>1, <3>5, <3>6, <4>1, ShownEffect
    <3>4. QED
      BY <1>1, <2>3, <3>2, <3>3
  <2>4. QED
    BY <1>13, <2>1, <2>2, <2>3
<1>4. Names \subseteq Names' /\ thread \in Names'
  BY <1>1, <1>3 DEF Names
<1>5. Executing' = Executing
  <2>1. \A t \in Threads' \ Threads : t \notin Executing'
    BY <1>3 DEF Executing
  <2>2. \A t \in Threads : t \in Executing' <=> t \in Executing
    BY <1>3 DEF Executing
  <2>3. Executing \subseteq Threads /\ Executing' \subseteq Threads'
    BY DEF Executing
  <2>4. QED
    BY <1>3, <2>1, <2>2, <2>3
<1>6. \A t \in Names : Clean(t) => Clean(t)'
  BY <1>1, <1>3 DEF Clean, Names, NoThread
<1>7. /\ jobDir' \in JobDirs' /\ jobCall' \in JobCalls' /\ jobCall'.thread = jobCall.thread
      /\ jobDir'.record = jobDir.record
      /\ \/ /\ jobDir' = jobDir /\ jobCall'.at \in {"building", "failing"}
         \/ /\ Validated(reply) /\ jobDir'.ir.value = reply /\ jobDir'.ir.by = thread
            /\ jobDir'.ir.state = "torn"
            /\ jobCall'.at = "writing" /\ jobCall'.builder = thread
  <2>1. jobDir \in JobDirs' /\ jobCall \in JobCalls'
    BY <1>1, <1>4 DEF JobDirs, JobCalls
  <2>2. CASE Validated(reply)
    <3>1. /\ jobDir' = [jobDir EXCEPT !.ir = [state |-> "torn", value |-> reply, by |-> thread]]
          /\ jobCall' = [jobCall EXCEPT !.at = "writing", !.builder = thread, !.handle = thread]
      BY <1>13, <2>2 DEF JudgeIR
    <3>2. reply \in IRs
      BY DEF IRs
    <3>3. QED
      BY <1>4, <2>1, <2>2, <3>1, <3>2 DEF JobDirs, JobCalls, JobPlaces
  <2>3. CASE ~Validated(reply)
    <3>1. /\ UNCHANGED jobDir
          /\ jobCall' = [jobCall EXCEPT !.tries = @ + 1, !.handle = thread,
                           !.at = IF jobCall.tries + 1 = BuildAttempts THEN "failing" ELSE @]
      BY <1>13, <2>3 DEF JudgeIR
    <3>2. jobCall.tries + 1 \in Nat
      BY <1>1 DEF JobCalls
    <3>3. PICK at \in {"building", "failing"} :
            jobCall' = [jobCall EXCEPT !.tries = jobCall.tries + 1, !.handle = thread, !.at = at]
      BY <1>1, <3>1
    <3>4. QED
      BY <1>1, <1>4, <2>1, <3>1, <3>2, <3>3 DEF JobCalls, JobPlaces
  <2>4. QED
    BY <2>2, <2>3
<1>8. EvidenceTypes'
  BY <1>1, <1>3, <1>4, <1>7 DEF EvidenceTypes, Saves
<1>9. IRInv'
  <2>1. CASE jobDir' = jobDir /\ jobCall'.at \in {"building", "failing"}
    BY <2>1 DEF IRInv
  <2>2. CASE Validated(reply) /\ jobDir'.ir.value = reply /\ jobDir'.ir.state = "torn"
    BY <2>2 DEF IRInv
  <2>3. QED
    BY <1>7, <2>1, <2>2
<1>10. IsolatedInv'
  <2> SUFFICES ASSUME Isolated PROVE Clean(saved.thread)' /\ Clean(jobCall.thread)' /\ IsolatedGetsNoImage'
    BY <1>1 DEF IsolatedInv, Isolated
  <2>1. saved.thread \in Names /\ jobCall.thread \in Names
    BY <1>1 DEF Saves, JobCalls
  <2>2. Clean(saved.thread)' /\ Clean(jobCall.thread)'
    BY <1>1, <1>6, <1>7, <2>1 DEF IsolatedInv, Clean
  <2>3. Executing \subseteq Threads
    BY DEF Executing
  <2>4. IsolatedGetsNoImage'
    BY <1>3, <1>5, <2>3 DEF IsolatedInv, IsolatedGetsNoImage
  <2>5. QED
    BY <2>2, <2>4
<1>11. ForcedInv'
  <2> SUFFICES ASSUME condition.mode = "forced_ir", ~mislaid PROVE ForcedInv'
    BY <1>1 DEF ForcedInv
  <2>1. /\ ~Recorded /\ jobDir.record.state # "failed"
        /\ saved.thread = NoThread /\ Executing = {}
    BY <1>1 DEF ForcedInv
  <2>2. ~Validated(NoIR)
    BY DEF Validated, NoIR
  <2>3. QED
    BY <1>1, <1>3, <1>5, <1>7, <2>1, <2>2 DEF ForcedInv, Recorded, Built, Modelling
<1>12. QED
  BY <1>8, <1>9, <1>10, <1>11

LEMMA RecordStep == ASSUME EvidenceInv, FailBuild \/ WriteIR \/ WriteRecord PROVE EvidenceInv'
<1> USE DEF EvidenceInv
<1>1. UNCHANGED <<condition, saved, threads>> /\ Executing' = Executing
  BY NothingShown DEF FailBuild, WriteIR, WriteRecord
<1>2. CASE FailBuild
  <2>1. /\ jobDir' = [jobDir EXCEPT !.record = [state |-> "failed", thread |-> NoThread]]
        /\ mislaid' = TRUE /\ Raises
    BY <1>2 DEF FailBuild
  <2>2. jobDir' \in JobDirs /\ jobDir'.ir = jobDir.ir
    BY <2>1 DEF EvidenceTypes, JobDirs, Names, NoThread
  <2>3. ForcedInv' /\ IRInv'
    BY <2>1, <2>2, RaiseTypes DEF ForcedInv, IRInv
  <2>4. QED
    BY <1>1, <2>1, <2>2, <2>3, RaiseTypes, QuietStep DEF EvidenceTypes
<1>3. CASE WriteIR
  <2>1. /\ jobDir' = [jobDir EXCEPT !.ir.state = "whole"]
        /\ jobCall' = [jobCall EXCEPT !.at = "recording"]
        /\ jobCall.at = "writing" /\ mislaid' = mislaid
    BY <1>3 DEF WriteIR
  <2>2. /\ jobDir' \in JobDirs /\ jobDir'.ir.value = jobDir.ir.value /\ jobDir'.ir.by = jobDir.ir.by
        /\ jobDir'.record = jobDir.record /\ jobDir'.ir.state = "whole"
    BY <2>1 DEF EvidenceTypes, JobDirs
  <2>3. /\ jobCall' \in JobCalls /\ jobCall'.thread = jobCall.thread
        /\ jobCall'.at = "recording" /\ jobCall'.builder = jobCall.builder
    BY <2>1 DEF EvidenceTypes, JobCalls, JobPlaces
  <2>4. ForcedInv'
    BY <1>1, <2>1, <2>2, <2>3 DEF ForcedInv, Recorded, Built, Modelling
  <2>5. IRInv'
    BY <2>1, <2>2, <2>3 DEF IRInv
  <2>6. QED
    BY <1>1, <2>1, <2>2, <2>3, <2>4, <2>5, QuietStep DEF EvidenceTypes
<1>4. CASE WriteRecord
  <2>1. /\ jobDir' = [jobDir EXCEPT !.record = [state |-> "passed", thread |-> jobCall.builder]]
        /\ jobCall' = [jobCall EXCEPT !.at = "binding"]
        /\ jobCall.at = "recording" /\ mislaid' = mislaid
    BY <1>4 DEF WriteRecord
  <2>2. /\ jobDir' \in JobDirs /\ jobDir'.ir = jobDir.ir
        /\ jobDir'.record.state = "passed" /\ jobDir'.record.thread = jobCall.builder
    BY <2>1 DEF EvidenceTypes, JobDirs, JobCalls
  <2>3. /\ jobCall' \in JobCalls /\ jobCall'.thread = jobCall.thread
        /\ jobCall'.at = "binding" /\ jobCall'.builder = jobCall.builder
    BY <2>1 DEF EvidenceTypes, JobCalls, JobPlaces
  <2>4. ForcedInv'
    BY <1>1, <2>1, <2>2, <2>3 DEF ForcedInv, Recorded, Built, Modelling
  <2>5. IRInv'
    BY <2>2, <2>3 DEF IRInv
  <2>6. QED
    BY <1>1, <2>1, <2>2, <2>3, <2>4, <2>5, QuietStep DEF EvidenceTypes
<1>5. QED
  BY <1>2, <1>3, <1>4

-----------------------------------------------------------------------------
(* The conversations of a job: the loop *)

LEMMA LoopStep ==
  ASSUME EvidenceInv, BindIR \/ CheckpointAction \/ CheckpointVerdict \/ CompleteAction
  PROVE  EvidenceInv'
<1> USE DEF EvidenceInv
<1>1. UNCHANGED <<condition, threads, mislaid>> /\ Executing' = Executing
  BY NothingShown DEF BindIR, CheckpointAction, CheckpointVerdict, CompleteAction
<1>2. CASE BindIR
  <2>1. /\ jobCall.at = "binding" /\ saved' = saved
        /\ jobDir' = [jobDir EXCEPT !.workspace = Isolated]
        /\ jobCall' = [jobCall EXCEPT !.thread = FirstThread, !.actions = saved.actions,
                         !.at = IF saved.phase \in {"acted", "verified"} THEN saved.phase
                                ELSE "acting"]
    BY <1>2 DEF BindIR
  <2>2. /\ jobDir' \in JobDirs /\ jobDir'.ir = jobDir.ir /\ jobDir'.record = jobDir.record
    <3>1. Isolated \in BOOLEAN
      BY DEF Isolated
    <3>2. QED
      BY <2>1, <3>1 DEF EvidenceTypes, JobDirs
  <2>3. FirstThread \in Names
    BY DEF FirstThread, EvidenceTypes, Saves, JobCalls, Names, NoThread
  <2>4. /\ jobCall' \in JobCalls /\ jobCall'.thread = FirstThread
        /\ jobCall'.at \in {"acting", "acted", "verified"}
    BY <2>1, <2>3 DEF EvidenceTypes, JobCalls, JobPlaces, Saves
  <2>5. ForcedInv'
    <3>1. condition.mode = "forced_ir" /\ ~mislaid => Recorded /\ FirstThread = jobDir.ir.by
      BY <2>1 DEF ForcedInv, FirstThread
    <3>2. QED
      BY <1>1, <2>1, <2>2, <2>4, <3>1 DEF ForcedInv, Recorded, Built, Modelling
  <2>6. IRInv'
    BY <2>2, <2>4 DEF IRInv
  <2>7. Isolated => FirstThread \in {saved.thread, NoThread}
    BY IsolatedWithIR DEF FirstThread
  <2>8. QED
    BY <1>1, <2>1, <2>2, <2>4, <2>5, <2>6, <2>7, QuietStep DEF EvidenceTypes
<1>3. CASE CheckpointAction \/ CheckpointVerdict \/ CompleteAction
  <2>1. jobDir' = jobDir /\ jobCall.at \in {"checkpoint", "acted", "completing"}
    BY <1>3 DEF CheckpointAction, CheckpointVerdict, CompleteAction
  <2>0. /\ jobCall \in JobCalls /\ saved \in Saves /\ jobCall.thread \in Names
        /\ jobCall.actions + 1 \in Nat /\ saved.actions + 1 \in Nat
    BY DEF EvidenceTypes, JobCalls, Saves
  <2>2. /\ jobCall' \in JobCalls /\ jobCall'.thread = jobCall.thread
        /\ jobCall'.at \in {"acting", "acted", "verified"}
    <3>1. CASE CheckpointAction \/ CheckpointVerdict
      BY <2>0, <3>1 DEF CheckpointAction, CheckpointVerdict, JobCalls, JobPlaces
    <3>2. CASE CompleteAction
      BY <2>0, <3>2 DEF CompleteAction, JobCalls, JobPlaces
    <3>3. QED
      BY <1>3, <3>1, <3>2
  <2>3. saved' \in Saves /\ saved'.thread \in {saved.thread, jobCall.thread}
    <3>1. CASE CheckpointAction \/ CheckpointVerdict
      BY <2>0, <3>1 DEF CheckpointAction, CheckpointVerdict, Saves
    <3>2. CASE CompleteAction
      BY <2>0, <3>2 DEF CompleteAction, Saves
    <3>3. QED
      BY <1>3, <3>1, <3>2
  <2>4. ForcedInv'
    BY <1>1, <2>1, <2>2, <2>3 DEF ForcedInv, Recorded, Built, Modelling
  <2>5. IRInv'
    BY <2>1, <2>2 DEF IRInv
  <2>6. QED
    BY <1>1, <2>1, <2>2, <2>3, <2>4, <2>5, QuietStep DEF EvidenceTypes
<1>4. QED
  BY <1>2, <1>3

\* A turn of whoever models: of a conversation that is goes on or of a new one.
LEMMA TurnStep == ASSUME EvidenceInv, ActTurn \/ DecideTurn PROVE EvidenceInv'
<1> USE DEF EvidenceInv
<1> DEFINE attached == IF WithIR THEN {} ELSE {"images"}
<1>1. /\ UNCHANGED <<condition, jobDir, saved, mislaid>>
      /\ jobCall.at \in {"acting", "verified"}
      /\ jobDir \in JobDirs /\ jobCall \in JobCalls /\ saved \in Saves
      /\ threads \in Seq(Exchanges) /\ Len(threads) \in Nat /\ Threads = 1..Len(threads)
  <2>1. UNCHANGED <<condition, jobDir, saved, mislaid>> /\ jobCall.at \in {"acting", "verified"}
    BY DEF ActTurn, DecideTurn
  <2>2. QED
    BY <2>1 DEF EvidenceTypes, Threads
<1>2. /\ jobCall' \in [at : JobPlaces, handle : Names, tries : Nat, builder : Names,
                       thread : Nat, actions : Nat]
      /\ jobCall'.at \in Modelling \union {"ended"}
      /\ \/ /\ threads' = threads /\ jobCall'.thread = jobCall.thread
            /\ jobCall.thread = NoThread
         \/ /\ \E near \in SUBSET Evidences : threads' = NewThread(attached \union InPrompt, near)
            /\ jobCall.thread = NoThread /\ jobCall'.thread \in {NoThread, Len(threads')}
         \/ /\ \E given, near \in SUBSET Evidences :
                 threads' = Shown(jobCall.thread, given, near) /\ "images" \notin given
            /\ jobCall.thread # NoThread /\ jobCall'.thread = jobCall.thread
  <2>1. CASE ActTurn /\ jobCall.thread = NoThread
    <3>1. PICK near : near = IF Isolated THEN InWorkspace ELSE InJobDir
      OBVIOUS
    <3>2. near \in SUBSET Evidences
      BY <3>1, EvidenceKinds
    <3>3. threads' = NewThread(attached \union InPrompt, near)
      BY <2>1, <3>1 DEF ActTurn
    <3>4. PICK thread \in {NoThread, Len(threads')} :
            jobCall' = [jobCall EXCEPT !.at = "checkpoint", !.thread = thread]
      BY <2>1 DEF ActTurn
    <3>5. attached \union InPrompt \in SUBSET Evidences
      BY EvidenceKinds DEF Evidences
    <3>6. Len(threads') \in Nat
      BY <1>1, <3>2, <3>3, <3>5, NewThreadEffect
    <3>7. /\ jobCall' \in [at : JobPlaces, handle : Names, tries : Nat, builder : Names,
                           thread : Nat, actions : Nat]
          /\ jobCall'.at \in Modelling \union {"ended"} /\ jobCall'.thread = thread
      <4>1. thread \in Nat
        BY <3>4, <3>6 DEF NoThread
      <4>2. QED
        BY <1>1, <3>4, <4>1 DEF JobCalls, JobPlaces, Modelling
    <3> HIDE DEF attached
    <3>8. QED
      BY <2>1, <3>2, <3>3, <3>7
  <2>2. CASE ActTurn /\ jobCall.thread # NoThread
    <3>1. PICK near : near = IF Isolated THEN InWorkspace ELSE InJobDir
      OBVIOUS
    <3>2. near \in SUBSET Evidences
      BY <3>1, EvidenceKinds
    <3>3. /\ threads' = Shown(jobCall.thread, InPrompt, near)
          /\ jobCall' = [jobCall EXCEPT !.at = "checkpoint"]
      BY <2>2, <3>1 DEF ActTurn
    <3>4. QED
      BY <1>1, <2>2, <3>2, <3>3, EvidenceKinds DEF JobCalls, JobPlaces, Modelling, Names
  <2>3. CASE DecideTurn /\ jobCall.thread = NoThread
    BY <1>1, <2>3 DEF DecideTurn, JobCalls, JobPlaces, Modelling, Names
  <2>4. CASE DecideTurn /\ jobCall.thread # NoThread
    <3>1. /\ threads' = Shown(jobCall.thread, {"verdict"}, InJobDir)
          /\ \E at \in {"completing", "ended"} : jobCall' = [jobCall EXCEPT !.at = at]
      BY <2>4 DEF DecideTurn
    <3>2. {"verdict"} \in SUBSET Evidences /\ InJobDir \in SUBSET Evidences
      BY EvidenceKinds DEF Evidences
    <3>3. /\ jobCall' \in [at : JobPlaces, handle : Names, tries : Nat, builder : Names,
                           thread : Nat, actions : Nat]
          /\ jobCall'.at \in Modelling \union {"ended"} /\ jobCall'.thread = jobCall.thread
      BY <1>1, <3>1 DEF JobCalls, JobPlaces, Modelling, Names
    <3>4. "images" \notin {"verdict"}
      OBVIOUS
    <3> HIDE DEF attached
    <3>5. QED
      BY <2>4, <3>1, <3>2, <3>3, <3>4
  <2>5. QED
    BY <2>1, <2>2, <2>3, <2>4
<1>3. /\ threads' \in Seq(Exchanges) /\ Len(threads') \in Nat /\ Len(threads') >= Len(threads)
      /\ jobCall'.thread \in 0..Len(threads')
      /\ Threads' = 1..Len(threads')
      /\ \A t \in Threads \ {jobCall.thread} : threads'[t] = threads[t]
      /\ \A t \in Threads' \ (Threads \ {jobCall.thread}) :
           /\ jobCall.thread # NoThread => t = jobCall.thread
           /\ "images" \in threads'[t].given =>
                IF t \in Threads THEN "images" \in threads[t].given ELSE ~WithIR
  <2>1. CASE threads' = threads /\ jobCall'.thread = jobCall.thread /\ jobCall.thread = NoThread
    BY <1>1, <2>1 DEF NoThread, Threads, JobCalls, Names
  <2>2. CASE /\ \E near \in SUBSET Evidences : threads' = NewThread(attached \union InPrompt, near)
             /\ jobCall.thread = NoThread /\ jobCall'.thread \in {NoThread, Len(threads')}
    <3>1. attached \union InPrompt \in SUBSET Evidences
      BY EvidenceKinds DEF Evidences
    <3>2. PICK near \in SUBSET Evidences : threads' = NewThread(attached \union InPrompt, near)
      BY <2>2
    <3>3. /\ threads' \in Seq(Exchanges) /\ Len(threads') = Len(threads) + 1
          /\ Threads' = 1..(Len(threads) + 1) /\ \A t \in Threads : threads'[t] = threads[t]
          /\ threads'[Len(threads')].given = attached \union InPrompt
      BY <1>1, <3>1, <3>2, NewThreadEffect
    <3>4. "images" \in attached \union InPrompt => ~WithIR
      BY EvidenceKinds
    <3>5. \A t \in Threads' \ Threads : t = Len(threads')
      BY <1>1, <3>3
    <3> HIDE DEF attached
    <3>6. jobCall.thread \notin Threads
      BY <1>1, <2>2 DEF NoThread
    <3>7. /\ Len(threads') \in Nat /\ Len(threads') >= Len(threads)
          /\ jobCall'.thread \in 0..Len(threads')
      BY <1>1, <2>2, <3>3 DEF NoThread
    <3>8. "images" \in threads'[Len(threads')].given => ~WithIR
      BY <3>3, <3>4
    <3>9. QED
      BY <1>1, <2>2, <3>3, <3>5, <3>6, <3>7, <3>8
  <2>3. CASE /\ \E given, near \in SUBSET Evidences :
                  threads' = Shown(jobCall.thread, given, near) /\ "images" \notin given
             /\ jobCall.thread # NoThread /\ jobCall'.thread = jobCall.thread
    <3>1. PICK given, near \in SUBSET Evidences :
            threads' = Shown(jobCall.thread, given, near) /\ "images" \notin given
      BY <2>3
    <3>2. jobCall.thread \in Threads
      BY <1>1, <2>3 DEF JobCalls, Names, NoThread
    <3>3. /\ threads' \in Seq(Exchanges) /\ Len(threads') = Len(threads) /\ Threads' = Threads
          /\ \A t \in Threads \ {jobCall.thread} : threads'[t] = threads[t]
          /\ threads'[jobCall.thread].given = threads[jobCall.thread].given \union given
      <4>1. PICK thread \in Threads : thread = jobCall.thread
        BY <3>2
      <4>2. threads \in Seq(Exchanges) /\ threads' = Shown(thread, given, near)
        BY <1>1, <3>1, <4>1
      <4>3. /\ threads' \in Seq(Exchanges) /\ Len(threads') = Len(threads) /\ Threads' = Threads
            /\ \A t \in Threads \ {thread} : threads'[t] = threads[t]
            /\ threads'[thread].given = threads[thread].given \union given
        BY <4>2, ShownEffect
      <4>4. QED
        BY <4>1, <4>3
    <3>4. jobCall'.thread \in 0..Len(threads')
      BY <1>1, <2>3, <3>2, <3>3
    <3>5. "images" \in threads'[jobCall.thread].given => "images" \in threads[jobCall.thread].given
      BY <3>1, <3>3
    <3>6. QED
      BY <1>1, <2>3, <3>2, <3>3, <3>4, <3>5
  <2>4. QED
    BY <1>2, <2>1, <2>2, <2>3
<1> HIDE DEF attached
<1>4. Names \subseteq Names' /\ Names' = 0..Len(threads')
  BY <1>1, <1>3 DEF Names
<1>5. jobCall' \in JobCalls' /\ jobDir' \in JobDirs' /\ saved' \in Saves'
  BY <1>1, <1>2, <1>3, <1>4 DEF JobCalls, JobDirs, Saves
<1>6. EvidenceTypes' /\ IRInv'
  <2>1. jobCall'.at # "writing"
    BY <1>2 DEF Modelling
  <2>2. QED
    BY <1>1, <1>3, <1>5, <2>1 DEF EvidenceTypes, IRInv
<1>7. IsolatedInv'
  <2> SUFFICES ASSUME Isolated PROVE IsolatedInv'
    BY <1>1 DEF IsolatedInv, Isolated
  <2>1. WithIR
    BY IsolatedWithIR
  <2>2. \A t \in Threads' :
          (t \in Threads => "images" \notin threads[t].given) => "images" \notin threads'[t].given
    BY <1>3, <2>1
  <2>3. \A t \in Names : Clean(t) => Clean(t)'
    BY <1>1, <1>3, <2>2 DEF Clean, Names, NoThread
  <2>4. saved.thread \in Names /\ jobCall.thread \in Names
    BY <1>1 DEF Saves, JobCalls
  <2>5. Clean(saved.thread)'
    BY <1>1, <2>3, <2>4 DEF IsolatedInv, Clean
  <2>6. Clean(jobCall.thread)'
    <3>1. CASE jobCall'.thread = jobCall.thread
      BY <2>3, <2>4, <3>1 DEF IsolatedInv, Clean
    <3>2. CASE jobCall'.thread # jobCall.thread
      <4>1. jobCall'.thread = Len(threads') /\ jobCall.thread = NoThread /\ Len(threads') = Len(threads) + 1
        <5>1. PICK near \in SUBSET Evidences : threads' = NewThread(attached \union InPrompt, near)
          BY <1>2, <3>2
        <5>2. attached \union InPrompt \in SUBSET Evidences
          BY EvidenceKinds DEF Evidences, attached
        <5>3. Len(threads') = Len(threads) + 1
          BY <1>1, <5>1, <5>2, NewThreadEffect
        <5>4. QED
          BY <1>2, <3>2, <5>3
      <4>2. jobCall'.thread \in Threads' \ Threads
        BY <1>1, <1>3, <4>1
      <4>3. QED
        BY <2>2, <4>2 DEF Clean
    <3>3. QED
      BY <3>1, <3>2
  <2>7. IsolatedGetsNoImage'
    <3> SUFFICES ASSUME NEW t \in Executing' PROVE "images" \notin threads'[t].given
      BY DEF IsolatedGetsNoImage
    <3>1. t \in Threads'
      BY DEF Executing
    <3>2. CASE t \in Threads \ {jobCall.thread}
      <4>1. t \in Executing
        BY <1>3, <3>2 DEF Executing
      <4>2. QED
        BY <2>2, <3>1, <4>1 DEF IsolatedInv, IsolatedGetsNoImage
    <3>3. CASE t = jobCall.thread /\ t \in Threads
      <4>1. "images" \notin threads[t].given
        BY <1>1, <3>3 DEF IsolatedInv, Clean, NoThread
      <4>2. QED
        BY <2>2, <3>1, <4>1
    <3>4. CASE t \notin Threads
      BY <2>2, <3>1, <3>4
    <3>5. QED
      BY <3>2, <3>3, <3>4
  <2>8. QED
    BY <2>5, <2>6, <2>7 DEF IsolatedInv
<1>8. ForcedInv'
  <2> SUFFICES ASSUME condition.mode = "forced_ir", ~mislaid PROVE ForcedInv'
    BY <1>1 DEF ForcedInv
  <2>1. Recorded /\ Built /\ jobCall.thread = jobDir.ir.by /\ jobCall.thread # NoThread
    BY <1>1 DEF ForcedInv, Modelling, Built
  <2>2. jobCall'.thread = jobCall.thread
    BY <1>2, <2>1
  <2>3. \A t \in Executing' : t = jobDir.ir.by
    <3> TAKE t \in Executing'
    <3>1. CASE t \in Threads \ {jobCall.thread}
      <4>1. t \in Executing
        BY <1>3, <3>1 DEF Executing
      <4>2. QED
        BY <4>1 DEF ForcedInv
    <3>2. CASE t \notin Threads \ {jobCall.thread}
      BY <1>3, <2>1, <3>2 DEF Executing
    <3>3. QED
      BY <3>1, <3>2
  <2>4. QED
    BY <1>1, <1>2, <2>1, <2>2, <2>3 DEF ForcedInv, Recorded, Built, Modelling
<1>9. QED
  BY <1>6, <1>7, <1>8

-----------------------------------------------------------------------------
(* The conversations of a job: the theorem *)

LEMMA EvidenceStep == EvidenceInv /\ [EvidenceNext]_evidenceVars => EvidenceInv'
<1> SUFFICES ASSUME EvidenceInv, [EvidenceNext]_evidenceVars PROVE EvidenceInv'
  OBVIOUS
<1>1. CASE UNCHANGED evidenceVars
  <2>1. UNCHANGED <<condition, jobDir, jobCall, saved, threads, mislaid>>
    BY <1>1 DEF evidenceVars
  <2>2. QED
    BY <2>1, NothingShown, QuietStep DEF EvidenceInv, EvidenceTypes, IRInv, ForcedInv, Recorded, Built
<1>2. QED
  BY <1>1, EnterStep, TornRecordStep, OracleStep, BuildStep, RecordStep, LoopStep, TurnStep
     DEF EvidenceNext

\* The gate lets no IR through without an order in which its features can be made.
LEMMA ValidatedIsSound ==
  ASSUME NEW reply \in IRs, reply = OracleIR \/ Validated(reply),
         NEW some \in (SUBSET DOMAIN reply.dependencies) \ {{}}
  PROVE  /\ \E f \in some : reply.dependencies[f] \intersect some = {}
         /\ \A f \in some : reply.dependencies[f] \subseteq DOMAIN reply.dependencies
<1>1. CASE reply = OracleIR
  BY <1>1 DEF OracleIR
<1>2. CASE reply # OracleIR
  <2>1. Validated(reply) /\ reply \in [wellFormed : {TRUE}, dependencies : Graphs]
    <3>1. Validated(reply) /\ reply \in Replies
      BY <1>2 DEF IRs
    <3>2. reply # NoIR
      BY <3>1 DEF Validated, NoIR
    <3>3. QED
      BY <3>1, <3>2 DEF Replies
  <2>2. reply.dependencies \in Graphs
    BY <2>1
  <2>3. ~Entangled(reply.dependencies, some)
    BY <2>1, <2>2, EntangledIsCyclic DEF Validated
  <2>4. QED
    BY <2>1, <2>3 DEF Entangled, Validated
<1>3. QED
  BY <1>1, <1>2

\* In each reconstruction mode it is who should who models, from the evidence and by an IR
\* of the kind the mode names, across restarts of run_geometry_job and for any number of
\* features, turns of the builder, actions and calls (ModeIsHonoured).
THEOREM ModeHonoured == EvidenceSpec => []ModeIsHonoured
<1>1. EvidenceInv => ModeIsHonoured
  <2> SUFFICES ASSUME EvidenceInv PROVE ModeIsHonoured
    OBVIOUS
  <2>1. IsolatedGetsNoImage
    BY DEF EvidenceInv, IsolatedInv, IsolatedGetsNoImage
  <2>2. ForcedThreadIsBuilder
    BY DEF EvidenceInv, ForcedInv, ForcedThreadIsBuilder
  <2>3. AcceptedIsSound
    <3>1. jobDir.ir.value \in IRs
      BY DEF EvidenceInv, EvidenceTypes, JobDirs
    <3>2. QED
      BY <3>1, ValidatedIsSound DEF EvidenceInv, IRInv, AcceptedIsSound
  <2>4. QED
    BY <2>1, <2>2, <2>3 DEF ModeIsHonoured
<1>2. QED
  BY <1>1, InitialEvidence, EvidenceStep, PTL DEF EvidenceSpec

-----------------------------------------------------------------------------
(* The parts together *)

LEMMA StepOfEachPart ==
  ASSUME [WorkbenchNext]_WorkbenchVars
  PROVE  /\ [AutocadNext]_autocadVars /\ [ReviewNext]_reviewVars
         /\ [CampaignNext]_campaignVars /\ [EvidenceNext]_evidenceVars
         /\ [SearchNext]_searchVars
BY DEF WorkbenchNext, WorkbenchVars

\* The composition that the run checks implements each of its parts: what is proved of the
\* AutoCAD jobs, the review workbench, a campaign, a job's conversations or the search alone
\* holds in it.
THEOREM WorkbenchImplements ==
  WorkbenchSpec => AutocadSpec /\ ReviewSpec /\ CampaignSpec /\ EvidenceSpec /\ SearchSpec
<1>1. WorkbenchInit => AutocadInit /\ ReviewInit /\ CampaignInit /\ EvidenceInit /\ SearchInit
  BY DEF WorkbenchInit
<1>2. [WorkbenchNext]_WorkbenchVars
        => /\ [AutocadNext]_autocadVars /\ [ReviewNext]_reviewVars
           /\ [CampaignNext]_campaignVars /\ [EvidenceNext]_evidenceVars
           /\ [SearchNext]_searchVars
  BY StepOfEachPart
<1>3. QED
  BY <1>1, <1>2, PTL
  DEF WorkbenchSpec, AutocadSpec, ReviewSpec, CampaignSpec, EvidenceSpec, SearchSpec

\* In each reconstruction mode it is who should who models, from what the mode names, and
\* the search of its gate is exact (ModesAreKept).
THEOREM ModesKept == WorkbenchSpec => []ModesAreKept
<1>1. ModeIsHonoured /\ SearchIsExact => ModesAreKept
  BY DEF ModesAreKept
<1>2. QED
  BY <1>1, WorkbenchImplements, ModeHonoured, SearchExact, PTL

\* The ends of AutoCAD jobs, the drafts of reviews and what a campaign has written are never
\* lost or changed (WorkbenchRecordsLast).
THEOREM WorkbenchLast == WorkbenchSpec => WorkbenchRecordsLast
BY WorkbenchImplements, EndsFinal, DraftsKept, RecordsStay DEF WorkbenchRecordsLast
=============================================================================
