---------------------------- MODULE ProjectStore ----------------------------
(***************************************************************************)
(* The filesystem event store of one project                               *)
(* (src/src/cad_evoloop/agent/store.py), used by several processes at      *)
(* once: the event log events.jsonl, the snapshot state.json and the file  *)
(* lock.  A process may die between any two system calls; the lock dies    *)
(* with it.  What the reducer makes of an event is left to ProjectState:   *)
(* here it either accepts or refuses it.                                   *)
(***************************************************************************)
EXTENDS Naturals, Sequences

CONSTANTS
  Callers,    \* the processes that use the store
  Keys,       \* idempotency keys
  Unkeyed,    \* idempotency_key=None
  Bodies,     \* the rest of a request: event type and payload
  Nothing,    \* no holder, no job
  Faults,     \* what may go wrong: "crash", "tear" (a partial write), "erase"
  MaxEvents   \* bound: length of the log

ASSUME CallerAssumption == Nothing \notin Callers
ASSUME FaultAssumption == Faults \subseteq {"crash", "tear", "erase"}
ASSUME BoundAssumption == MaxEvents \in Nat

Requests == [key : Keys \union {Unkeyed}, body : Bodies]
ASSUME RequestAssumption == Nothing \notin [request : Requests, recorded : BOOLEAN]

NoRequest == [key |-> Unkeyed, body |-> Nothing]
Jobs == [op : {"append"}, request : Requests]
          \union [op : {"load", "verify"}, request : {NoRequest}]
NoJob == [op |-> "none", request |-> NoRequest]
Lost == MaxEvents + 1   \* a snapshot that is missing or unreadable

VARIABLES
  files,     \* what of the project directory exists: "absent", "directory" or "log"
  log,       \* the events events.jsonl was given, in order
  tail,      \* how events.jsonl ends: "clean", "unterminated" or "torn"
  snapshot,  \* how many events state.json reflects
  lock,      \* the process that holds .events.lock
  pc,        \* of each process: where in the call it is
  job,       \* of each process: the call
  seen,      \* of each process: how many events verify() read
  answer,    \* of each process: what its last append returned
  verdict    \* of each process: what its last verify returned

disk == <<files, log, tail, snapshot>>
vars == <<disk, lock, pc, job, seen, answer, verdict>>

Readable == files = "log" /\ tail # "torn"
KeyTaken(request) ==
  /\ request.key # Unkeyed
  /\ \E i \in 1..Len(log) : log[i].key = request.key
Held(request) == \E i \in 1..Len(log) : log[i] = request

Goto(c, label) == pc' = [pc EXCEPT ![c] = label]

Init ==
  /\ files = "absent"
  /\ log = <<>>
  /\ tail = "clean"
  /\ snapshot = Lost
  /\ lock = Nothing
  /\ pc = [c \in Callers |-> "idle"]
  /\ job = [c \in Callers |-> NoJob]
  /\ seen = [c \in Callers |-> 0]
  /\ answer = [c \in Callers |-> "none"]
  /\ verdict = [c \in Callers |-> "none"]

-----------------------------------------------------------------------------
(* Calls *)

\* What the last call returned is forgotten when the next one begins.
Begin(c, newJob) ==
  /\ pc[c] = "idle"
  /\ job' = [job EXCEPT ![c] = newJob]
  /\ seen' = [seen EXCEPT ![c] = 0]
  /\ answer' = [answer EXCEPT ![c] = "none"]
  /\ verdict' = [verdict EXCEPT ![c] = "none"]

\* create(): the directory first, the empty log next, the first event last.
Create(c) ==
  /\ files = "absent"
  /\ \E request \in Requests : Begin(c, [op |-> "append", request |-> request])
  /\ files' = "directory"
  /\ Goto(c, "creating")
  /\ UNCHANGED <<log, tail, snapshot, lock>>

Touch(c) ==
  /\ pc[c] = "creating"
  /\ files' = "log"
  /\ Goto(c, "waiting")
  /\ UNCHANGED <<log, tail, snapshot, lock, job, seen, answer, verdict>>

Call(c) ==
  /\ \E newJob \in Jobs : Begin(c, newJob)
  /\ Goto(c, "waiting")
  /\ UNCHANGED <<disk, lock>>

\* file_lock() creates the directory of the lock file if it has to.
Acquire(c) ==
  /\ pc[c] = "waiting"
  /\ lock = Nothing
  /\ lock' = c
  /\ files' = IF files = "absent" THEN "directory" ELSE files
  /\ Goto(c, "locked")
  /\ UNCHANGED <<log, tail, snapshot, job, seen, answer, verdict>>

-----------------------------------------------------------------------------
(* Under the lock *)

\* The call returns or raises, which releases the lock.
Release(c, told) ==
  /\ pc[c] \in {"locked", "written"}
  /\ lock' = Nothing
  /\ pc' = [pc EXCEPT ![c] = "idle"]
  /\ job' = [job EXCEPT ![c] = NoJob]
  /\ answer' = IF job[c].op = "append" THEN [answer EXCEPT ![c] = told] ELSE answer
  /\ UNCHANGED <<files, log, tail, seen>>

\* Mutant of FailToRead: the exception leaves without giving the lock back.
FailToReadHolding(c) ==
  /\ pc[c] = "locked"
  /\ ~Readable
  /\ UNCHANGED vars

\* append() and load() raise, verify() reports the error.
FailToRead(c) ==
  /\ pc[c] = "locked"
  /\ ~Readable
  /\ Release(c, "refused")
  /\ verdict' = IF job[c].op = "verify" THEN [verdict EXCEPT ![c] = "damaged"] ELSE verdict
  /\ UNCHANGED snapshot

Load(c) ==
  /\ pc[c] = "locked"
  /\ Readable
  /\ job[c].op = "load"
  /\ Release(c, "none")
  /\ snapshot' = Len(log)
  /\ UNCHANGED verdict

\* The key was used: the same request again is answered from the log.
AnswerAgain(c) ==
  /\ pc[c] = "locked"
  /\ Readable
  /\ job[c].op = "append"
  /\ KeyTaken(job[c].request)
  /\ Release(c, IF Held(job[c].request) THEN "accepted" ELSE "refused")
  /\ UNCHANGED <<snapshot, verdict>>

\* Mutant of Appends: the idempotency key is not looked up.
AppendsUnchecked(c) ==
  /\ pc[c] = "locked"
  /\ Readable
  /\ job[c].op = "append"

Appends(c) ==
  /\ pc[c] = "locked"
  /\ Readable
  /\ job[c].op = "append"
  /\ ~KeyTaken(job[c].request)

\* Mutant of Reject: the snapshot is written before the event is known to be good.
RejectAfterSnapshot(c) ==
  /\ Appends(c)
  /\ Release(c, "refused")
  /\ snapshot' = Len(log) + 1
  /\ UNCHANGED verdict

\* create_event or apply_event raises.
Reject(c) ==
  /\ Appends(c)
  /\ Release(c, "refused")
  /\ UNCHANGED <<snapshot, verdict>>

\* A line added to an unterminated one makes both unreadable.
WriteLine(c) ==
  /\ Appends(c)
  /\ Len(log) < MaxEvents
  /\ log' = Append(log, job[c].request)
  /\ tail' = IF tail = "unterminated" THEN "torn" ELSE "clean"
  /\ Goto(c, "written")
  /\ UNCHANGED <<files, snapshot, lock, job, seen, answer, verdict>>

WriteSnapshot(c) ==
  /\ pc[c] = "written"
  /\ Release(c, "accepted")
  /\ snapshot' = Len(log)
  /\ UNCHANGED verdict

\* write_json_atomic raises, in append() after the line: the snapshot stays as it is, and
\* whoever appended cannot tell.
SnapshotFails(c) ==
  /\ \/ pc[c] = "written"
     \/ pc[c] = "locked" /\ Readable /\ job[c].op = "load"
  /\ Release(c, "lost")
  /\ UNCHANGED <<snapshot, verdict>>

\* verify() gives the lock back before it reads the snapshot.
ReadEvents(c) ==
  /\ pc[c] = "locked"
  /\ Readable
  /\ job[c].op = "verify"
  /\ seen' = [seen EXCEPT ![c] = Len(log)]
  /\ lock' = Nothing
  /\ Goto(c, "comparing")
  /\ UNCHANGED <<disk, job, answer, verdict>>

CompareSnapshot(c) ==
  /\ pc[c] = "comparing"
  /\ verdict' = [verdict EXCEPT ![c] = IF snapshot = seen[c] THEN "intact" ELSE "damaged"]
  /\ pc' = [pc EXCEPT ![c] = "idle"]
  /\ job' = [job EXCEPT ![c] = NoJob]
  /\ UNCHANGED <<disk, lock, seen, answer>>

-----------------------------------------------------------------------------
(* Faults *)

Die(c) ==
  /\ pc[c] # "idle"
  /\ lock' = IF lock = c THEN Nothing ELSE lock
  /\ pc' = [pc EXCEPT ![c] = "idle"]
  /\ job' = [job EXCEPT ![c] = NoJob]
  /\ answer' = IF job[c].op = "append" THEN [answer EXCEPT ![c] = "lost"] ELSE answer
  /\ UNCHANGED <<files, snapshot, seen, verdict>>

Crash(c) ==
  /\ "crash" \in Faults
  /\ Die(c)
  /\ UNCHANGED <<log, tail>>

\* The process or the machine dies while the line is on its way to the disk.
Tear(c) ==
  /\ "tear" \in Faults
  /\ Appends(c)
  /\ Len(log) < MaxEvents
  /\ Die(c)
  /\ \/ tail' = "torn" /\ UNCHANGED log
     \/ /\ tail' = IF tail = "unterminated" THEN "torn" ELSE "unterminated"
        /\ log' = Append(log, job[c].request)

EraseSnapshot ==
  /\ "erase" \in Faults
  /\ files = "log"
  /\ snapshot' = Lost
  /\ UNCHANGED <<files, log, tail, lock, pc, job, seen, answer, verdict>>

-----------------------------------------------------------------------------
\* What a process does by itself once it has started a call.
Step(c) ==
  \/ Touch(c)
  \/ FailToRead(c) \/ Load(c) \/ AnswerAgain(c) \/ Reject(c)
  \/ WriteLine(c) \/ WriteSnapshot(c) \/ SnapshotFails(c)
  \/ ReadEvents(c) \/ CompareSnapshot(c)

Next ==
  \/ \E c \in Callers :
       Create(c) \/ Call(c) \/ Acquire(c) \/ Step(c) \/ Crash(c) \/ Tear(c)
  \/ EraseSnapshot

\* A process that is in a call and not waiting for the lock goes on.
Fairness == \A c \in Callers : WF_vars(Step(c))

Spec == Init /\ [][Next]_vars
FairSpec == Spec /\ Fairness

-----------------------------------------------------------------------------
(* Properties *)

TypeOK ==
  /\ files \in {"absent", "directory", "log"}
  /\ log \in Seq(Requests)
  /\ tail \in {"clean", "unterminated", "torn"}
  /\ snapshot \in Nat
  /\ lock \in Callers \union {Nothing}
  /\ pc \in [Callers -> {"idle", "creating", "waiting", "locked", "written", "comparing"}]
  /\ job \in [Callers -> Jobs \union {NoJob}]
  /\ seen \in [Callers -> Nat]
  /\ answer \in [Callers -> {"none", "accepted", "refused", "lost"}]
  /\ verdict \in [Callers -> {"none", "intact", "damaged"}]

\* Whoever reads or writes the log holds the lock, and whoever holds it is in a call:
\* the death of a process never leaves the lock behind.
LockDiscipline ==
  \A c \in Callers : lock = c <=> pc[c] \in {"locked", "written"}

\* The snapshot never shows an event the log does not hold: the line reaches the disk
\* before the snapshot does, whichever process dies where.
SnapshotNeverAhead == snapshot # Lost => snapshot <= Len(log)

\* No call keeps the lock for ever.
LockIsReleased == \A c \in Callers : lock = c ~> lock = Nothing

\* What a caller of append() waits for.
PendingCall ==
  [c \in Callers |->
     IF job[c].op # "append" THEN Nothing
     ELSE [request |-> job[c].request, recorded |-> pc[c] = "written"]]

EventLog ==
  INSTANCE EventLog WITH events <- log, call <- PendingCall, damaged <- tail = "torn"

\* The store implements the EventLog: as long as no line was torn, every keyed request is
\* in the log at most once, what was accepted is in the log, and what was refused left no
\* trace, whichever process dies where.
ImplementsEventLog == EventLog!Spec

=============================================================================
