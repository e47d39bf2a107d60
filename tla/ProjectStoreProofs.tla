-------------------------- MODULE ProjectStoreProofs -------------------------
(***************************************************************************)
(* Proofs about ProjectStore, for any number of processes, keys and        *)
(* events and for every combination of faults: the lock discipline, the    *)
(* order of log and snapshot, and that the store implements EventLog.      *)
(***************************************************************************)
EXTENDS ProjectStore, SequenceTheorems, TLAPS

\* What the program counter of a process says of its call: it is idle exactly between
\* calls, only an append creates or writes, and what it wrote is in the log.
CallInv ==
  \A c \in Callers :
    /\ pc[c] = "idle" <=> job[c].op = "none"
    /\ pc[c] \in {"creating", "written"} => job[c].op = "append"
    /\ pc[c] = "comparing" => job[c].op = "verify"
    /\ pc[c] = "written" => Held(job[c].request)

StoreInv == TypeOK /\ LockDiscipline /\ SnapshotNeverAhead /\ CallInv

-----------------------------------------------------------------------------
(* Facts about calls and logs *)

LEMMA JobFacts ==
  ASSUME NEW j \in Jobs \union {NoJob}
  PROVE  /\ j.op \in {"append", "load", "verify", "none"}
         /\ j.op = "append" => j.request \in Requests
         /\ j \in Jobs <=> j.op # "none"
BY DEF Jobs, NoJob, NoRequest

\* What a log holds, it holds when it has grown.
LEMMA HeldStays ==
  ASSUME NEW request \in Requests, NEW other \in Requests, log \in Seq(Requests),
         log' = Append(log, other)
  PROVE  /\ Held(request) => Held(request)'
         /\ Held(other)'
         /\ Len(log') = Len(log) + 1
         /\ log' \in Seq(Requests)
BY DEF Held

-----------------------------------------------------------------------------
(* The invariant *)

LEMMA InitStoreInv == Init => StoreInv
BY CallerAssumption, BoundAssumption
   DEF Init, StoreInv, TypeOK, LockDiscipline, SnapshotNeverAhead, CallInv, Held, Lost, NoJob

LEMMA BeginStoreInv ==
  ASSUME StoreInv, NEW c \in Callers, NEW newJob \in Jobs, Begin(c, newJob),
         \/ pc' = [pc EXCEPT ![c] = "waiting"] /\ UNCHANGED files
         \/ pc' = [pc EXCEPT ![c] = "creating"] /\ newJob.op = "append" /\ files' = "directory",
         UNCHANGED <<log, tail, snapshot, lock>>
  PROVE  StoreInv'
<1> USE DEF StoreInv, Begin
<1>1. TypeOK'
  BY DEF TypeOK
<1>2. LockDiscipline'
  BY DEF TypeOK, LockDiscipline
<1>3. SnapshotNeverAhead'
  BY DEF SnapshotNeverAhead, Lost
<1>4. CallInv'
  BY JobFacts DEF TypeOK, CallInv, Held
<1>5. QED
  BY <1>1, <1>2, <1>3, <1>4

\* A process that gives the lock back.
LEMMA ReleaseStoreInv ==
  ASSUME StoreInv, NEW c \in Callers, NEW told \in {"accepted", "refused", "none", "lost"},
         Release(c, told),
         snapshot' \in {snapshot, Len(log)},
         verdict' \in [Callers -> {"none", "intact", "damaged"}]
  PROVE  StoreInv'
<1> USE DEF StoreInv, Release
<1>1. TypeOK'
  <2>1. job' \in [Callers -> Jobs \union {NoJob}]
    BY DEF TypeOK
  <2>2. answer' \in [Callers -> {"none", "accepted", "refused", "lost"}]
    BY DEF TypeOK
  <2>3. snapshot' \in Nat
    BY DEF TypeOK
  <2>4. QED
    BY <2>1, <2>2, <2>3 DEF TypeOK
<1>2. LockDiscipline'
  BY CallerAssumption DEF TypeOK, LockDiscipline
<1>3. SnapshotNeverAhead'
  BY DEF TypeOK, SnapshotNeverAhead, Lost
<1>4. CallInv'
  BY DEF TypeOK, CallInv, Held, NoJob
<1>5. QED
  BY <1>1, <1>2, <1>3, <1>4

\* A process that dies, and leaves a longer log or a damaged one behind.
LEMMA DieStoreInv ==
  ASSUME StoreInv, NEW c \in Callers, Die(c), tail' \in {"clean", "unterminated", "torn"},
         \/ UNCHANGED log
         \/ job[c].op = "append" /\ log' = Append(log, job[c].request)
  PROVE  StoreInv'
<1> USE DEF StoreInv, Die
<1>1. TypeOK'
  BY JobFacts, HeldStays DEF TypeOK
<1>2. LockDiscipline'
  BY CallerAssumption DEF TypeOK, LockDiscipline
<1>3. SnapshotNeverAhead'
  BY JobFacts, HeldStays DEF TypeOK, SnapshotNeverAhead, Lost
<1>4. CallInv'
  <2>1. \A other \in Callers \ {c} : pc'[other] = pc[other] /\ job'[other] = job[other]
    BY DEF TypeOK
  <2>2. pc'[c] = "idle" /\ job'[c].op = "none"
    BY DEF TypeOK, NoJob
  <2>3. ASSUME NEW other \in Callers \ {c}, pc[other] = "written"
        PROVE  Held(job[other].request)'
    <3> PICK r \in Requests : r = job[other].request
      BY <2>3, JobFacts DEF TypeOK, CallInv
    <3>1. Held(r)
      BY <2>3 DEF CallInv
    <3>2. Held(r)'
      <4>1. CASE UNCHANGED log
        BY <3>1, <4>1 DEF Held
      <4>2. CASE job[c].op = "append" /\ log' = Append(log, job[c].request)
        <5> PICK new \in Requests : new = job[c].request
          BY <4>2, JobFacts DEF TypeOK
        <5> QED
          BY <3>1, <4>2, HeldStays DEF TypeOK
      <4>3. QED
        BY <4>1, <4>2
    <3>3. QED
      BY <2>1, <3>2
  <2>4. QED
    BY <2>1, <2>2, <2>3 DEF CallInv
<1>5. QED
  BY <1>1, <1>2, <1>3, <1>4

\* A line that is written whole: the log grows under the lock.
LEMMA WriteLineStoreInv ==
  ASSUME StoreInv, NEW c \in Callers, WriteLine(c)
  PROVE  StoreInv'
<1> USE DEF StoreInv, WriteLine, Appends, Goto
<1> PICK new \in Requests : new = job[c].request
  BY JobFacts DEF TypeOK
<1>1. \A r \in Requests : Held(r) => Held(r)'
  BY HeldStays DEF TypeOK
<1>2. Held(new)' /\ Len(log') = Len(log) + 1 /\ log' \in Seq(Requests)
  BY HeldStays DEF TypeOK
<1>3. TypeOK'
  BY <1>2 DEF TypeOK
<1>4. LockDiscipline'
  BY DEF TypeOK, LockDiscipline
<1>5. SnapshotNeverAhead'
  BY <1>2 DEF TypeOK, SnapshotNeverAhead, Lost
<1>6. CallInv'
  <2>1. \A other \in Callers \ {c} : pc'[other] = pc[other] /\ job'[other] = job[other]
    BY DEF TypeOK
  <2>2. pc'[c] = "written" /\ job'[c] = job[c]
    BY DEF TypeOK
  <2>3. ASSUME NEW other \in Callers, pc[other] = "written"
        PROVE  Held(job[other].request)'
    <3> PICK r \in Requests : r = job[other].request
      BY <2>3, JobFacts DEF TypeOK, CallInv
    <3>1. Held(r)'
      BY <1>1, <2>3 DEF CallInv
    <3>2. QED
      BY <3>1
  <2>4. Held(job[c].request)'
    BY <1>2
  <2>5. QED
    BY <2>1, <2>2, <2>3, <2>4 DEF CallInv
<1>7. QED
  BY <1>3, <1>4, <1>5, <1>6

\* Steps that touch neither the log nor the snapshot and keep the call.
LEMMA QuietStoreInv ==
  ASSUME StoreInv,
         \/ \E c \in Callers : Touch(c) \/ Acquire(c) \/ ReadEvents(c) \/ CompareSnapshot(c)
         \/ EraseSnapshot \/ UNCHANGED vars
  PROVE  StoreInv'
<1> USE DEF StoreInv
<1>1. ASSUME NEW c \in Callers, Touch(c) PROVE StoreInv'
  BY <1>1 DEF Touch, Goto, TypeOK, LockDiscipline, SnapshotNeverAhead, CallInv, Held, Lost
<1>2. ASSUME NEW c \in Callers, Acquire(c) PROVE StoreInv'
  BY <1>2, CallerAssumption
     DEF Acquire, Goto, TypeOK, LockDiscipline, SnapshotNeverAhead, CallInv, Held, Lost
<1>3. ASSUME NEW c \in Callers, ReadEvents(c) PROVE StoreInv'
  BY <1>3, CallerAssumption
     DEF ReadEvents, Goto, disk, TypeOK, LockDiscipline, SnapshotNeverAhead, CallInv, Held, Lost
<1>4. ASSUME NEW c \in Callers, CompareSnapshot(c) PROVE StoreInv'
  <2>1. TypeOK'
    BY <1>4 DEF CompareSnapshot, disk, TypeOK
  <2>2. LockDiscipline' /\ SnapshotNeverAhead'
    BY <1>4 DEF CompareSnapshot, disk, TypeOK, LockDiscipline, SnapshotNeverAhead, Lost
  <2>3. CallInv'
    BY <1>4 DEF CompareSnapshot, disk, TypeOK, CallInv, Held, NoJob
  <2>4. QED
    BY <2>1, <2>2, <2>3
<1>5. CASE EraseSnapshot
  BY <1>5, BoundAssumption
     DEF EraseSnapshot, TypeOK, LockDiscipline, SnapshotNeverAhead, CallInv, Held, Lost
<1>6. CASE UNCHANGED vars
  BY <1>6 DEF vars, disk, TypeOK, LockDiscipline, SnapshotNeverAhead, CallInv, Held, Lost
<1>7. QED
  BY <1>1, <1>2, <1>3, <1>4, <1>5, <1>6

LEMMA NextStoreInv == StoreInv /\ [Next]_vars => StoreInv'
<1> SUFFICES ASSUME StoreInv, [Next]_vars PROVE StoreInv'
  OBVIOUS
<1>1. CASE EraseSnapshot \/ UNCHANGED vars
  BY <1>1, QuietStoreInv
<1>2. ASSUME NEW c \in Callers, Create(c)
      PROVE  StoreInv'
  <2> PICK request \in Requests : Begin(c, [op |-> "append", request |-> request])
    BY <1>2 DEF Create
  <2> QED
    BY <1>2, BeginStoreInv DEF Create, Goto, Jobs
<1>3. ASSUME NEW c \in Callers, Call(c)
      PROVE  StoreInv'
  BY <1>3, BeginStoreInv DEF Call, Goto, disk
<1>4. ASSUME NEW c \in Callers,
             \/ FailToRead(c) \/ Load(c) \/ AnswerAgain(c) \/ Reject(c)
             \/ WriteSnapshot(c) \/ SnapshotFails(c)
      PROVE  StoreInv'
  BY <1>4, ReleaseStoreInv
     DEF FailToRead, Load, AnswerAgain, Reject, WriteSnapshot, SnapshotFails, StoreInv, TypeOK
<1>5. ASSUME NEW c \in Callers, Crash(c)
      PROVE  StoreInv'
  BY <1>5, DieStoreInv DEF Crash, StoreInv, TypeOK
<1>6. ASSUME NEW c \in Callers, Tear(c)
      PROVE  StoreInv'
  BY <1>6, DieStoreInv DEF Tear, Appends
<1>7. ASSUME NEW c \in Callers, WriteLine(c)
      PROVE  StoreInv'
  BY <1>7, WriteLineStoreInv
<1>8. ASSUME NEW c \in Callers, Touch(c) \/ Acquire(c) \/ ReadEvents(c) \/ CompareSnapshot(c)
      PROVE  StoreInv'
  BY <1>8, QuietStoreInv
<1>9. QED
  BY <1>1, <1>2, <1>3, <1>4, <1>5, <1>6, <1>7, <1>8 DEF Next, Step

\* The whole invariant always holds.
THEOREM StoreInvariant == Spec => []StoreInv
BY InitStoreInv, NextStoreInv, PTL DEF Spec

\* Whoever reads or writes the log holds the lock, and nobody leaves it behind.
THEOREM LockIsHeld == Spec => []LockDiscipline
BY StoreInvariant, PTL DEF StoreInv

\* The snapshot never shows an event the log does not hold.
THEOREM LogComesFirst == Spec => []SnapshotNeverAhead
BY StoreInvariant, PTL DEF StoreInv

-----------------------------------------------------------------------------
(* The refinement: every step of the store is a step of the EventLog or a stutter *)

\* The call in flight of one process, as a step changes it.
LEMMA PendingCallOf ==
  ASSUME NEW c \in Callers
  PROVE  /\ job[c].op # "append" => PendingCall[c] = Nothing
         /\ job[c].op = "append" =>
              PendingCall[c] = [request |-> job[c].request, recorded |-> pc[c] = "written"]
BY DEF PendingCall

\* A step that leaves the calls alone leaves the calls in flight alone.
LEMMA SameCalls ==
  ASSUME \A c \in Callers : job'[c] = job[c] /\ (pc'[c] = "written" <=> pc[c] = "written")
  PROVE  PendingCall' = PendingCall
BY DEF PendingCall

\* A step of one process changes at most its own call in flight.
LEMMA OwnCall ==
  ASSUME NEW c \in Callers, NEW value,
         \A other \in Callers \ {c} : job'[other] = job[other] /\ pc'[other] = pc[other],
         PendingCall'[c] = value
  PROVE  PendingCall' = [PendingCall EXCEPT ![c] = value]
BY DEF PendingCall

\* A call is never mistaken for none.
LEMMA CallIsSomething ==
  ASSUME NEW request \in Requests, NEW recorded \in BOOLEAN
  PROVE  [request |-> request, recorded |-> recorded] # Nothing
BY RequestAssumption

\* What the abstract log knows of an append in flight.
LEMMA CallInFlight ==
  ASSUME TypeOK, NEW c \in Callers, job[c].op = "append"
  PROVE  /\ PendingCall[c] # Nothing
         /\ PendingCall[c].request = job[c].request
         /\ PendingCall[c].recorded <=> pc[c] = "written"
<1> PICK request \in Requests : request = job[c].request
  BY JobFacts DEF TypeOK
<1>1. CASE pc[c] = "written"
  <2>1. PendingCall[c] = [request |-> request, recorded |-> TRUE]
    BY <1>1 DEF PendingCall
  <2>2. PendingCall[c] # Nothing
    BY <2>1, CallIsSomething
  <2>3. PendingCall[c].request = request /\ PendingCall[c].recorded = TRUE
    BY <2>1
  <2>4. QED
    BY <1>1, <2>2, <2>3
<1>2. CASE pc[c] # "written"
  <2>1. PendingCall[c] = [request |-> request, recorded |-> FALSE]
    BY <1>2 DEF PendingCall
  <2>2. PendingCall[c] # Nothing
    BY <2>1, CallIsSomething
  <2>3. PendingCall[c].request = request /\ PendingCall[c].recorded = FALSE
    BY <2>1
  <2>4. QED
    BY <1>2, <2>2, <2>3
<1>3. QED
  BY <1>1, <1>2

\* A process that begins a call submits a request or forgets the last answer.
LEMMA BeginRefines ==
  ASSUME StoreInv, NEW c \in Callers, NEW newJob \in Jobs, Begin(c, newJob),
         \E label \in {"waiting", "creating"} : pc' = [pc EXCEPT ![c] = label],
         UNCHANGED <<log, tail>>
  PROVE  EventLog!Operate
<1> USE DEF StoreInv, Begin
<1>1. job[c].op = "none" /\ PendingCall[c] = Nothing
  BY PendingCallOf DEF CallInv
<1>2. \A other \in Callers \ {c} : job'[other] = job[other] /\ pc'[other] = pc[other]
  BY DEF TypeOK
<1>3. pc'[c] # "written" /\ job'[c] = newJob
  BY DEF TypeOK
<1>4. CASE newJob.op = "append"
  <2>1. PendingCall'[c] = [request |-> newJob.request, recorded |-> FALSE]
    BY <1>3, <1>4 DEF PendingCall
  <2>2. newJob.request \in Requests
    BY <1>4, JobFacts
  <2>3. EventLog!Submit(c)
    BY <1>1, <1>2, <2>1, <2>2, OwnCall DEF EventLog!Submit
  <2>4. QED
    BY <2>3 DEF EventLog!Operate
<1>5. CASE newJob.op # "append"
  <2>1. PendingCall'[c] = Nothing
    BY <1>3, <1>5 DEF PendingCall
  <2>2. PendingCall' = PendingCall
    BY <1>1, <1>2, <2>1 DEF PendingCall
  <2>3. EventLog!Forget(c)
    BY <1>1, <2>2 DEF EventLog!Forget
  <2>4. QED
    BY <2>3 DEF EventLog!Operate
<1>6. QED
  BY <1>4, <1>5

\* A process that gives the lock back answers its call.
LEMMA ReleaseRefines ==
  ASSUME StoreInv, NEW c \in Callers, NEW told, Release(c, told),
         job[c].op = "append" =>
           \/ told = "accepted" /\ Held(job[c].request)
           \/ told = "refused" /\ pc[c] # "written"
           \/ told = "lost"
  PROVE  EventLog!Operate \/ UNCHANGED <<log, PendingCall, answer, tail>>
<1> USE DEF StoreInv, Release
<1>1. \A other \in Callers \ {c} : job'[other] = job[other] /\ pc'[other] = pc[other]
  BY DEF TypeOK
<1>2. PendingCall'[c] = Nothing /\ job'[c].op = "none"
  BY DEF TypeOK, PendingCall, NoJob
<1>3. CASE job[c].op = "append"
  <2>1. PendingCall' = [PendingCall EXCEPT ![c] = Nothing]
    BY <1>1, <1>2, OwnCall
  <2>2. /\ PendingCall[c] # Nothing
        /\ PendingCall[c].request = job[c].request
        /\ PendingCall[c].recorded <=> pc[c] = "written"
    BY <1>3, CallInFlight
  <2>3. EventLog!Answered(c, told)
    BY <1>3, <2>1, <2>2 DEF EventLog!Answered
  <2>4. EventLog!Accept(c) \/ EventLog!Refuse(c) \/ EventLog!Lose(c)
    BY <1>3, <2>2, <2>3
       DEF EventLog!Accept, EventLog!Refuse, EventLog!Lose, EventLog!Holds, Held
  <2>5. QED
    BY <2>4 DEF EventLog!Operate
<1>4. CASE job[c].op # "append"
  <2>1. PendingCall' = PendingCall
    BY <1>1, <1>2, <1>4, PendingCallOf DEF PendingCall
  <2>2. QED
    BY <1>4, <2>1
<1>5. QED
  BY <1>3, <1>4

\* A process that dies loses its call, which may take effect in that instant.
LEMMA DieRefines ==
  ASSUME StoreInv, NEW c \in Callers, Die(c), UNCHANGED (tail = "torn"),
         \/ UNCHANGED log
         \/ Appends(c) /\ log' = Append(log, job[c].request)
  PROVE  EventLog!Operate \/ UNCHANGED <<log, PendingCall, answer, tail = "torn">>
<1> USE DEF StoreInv, Die
<1>1. \A other \in Callers \ {c} : job'[other] = job[other] /\ pc'[other] = pc[other]
  BY DEF TypeOK
<1>2. PendingCall'[c] = Nothing
  BY DEF TypeOK, PendingCall, NoJob
<1>3. CASE job[c].op = "append"
  <2>1. PendingCall' = [PendingCall EXCEPT ![c] = Nothing]
    BY <1>1, <1>2, OwnCall
  <2>2. /\ PendingCall[c] # Nothing
        /\ PendingCall[c].request = job[c].request
        /\ PendingCall[c].recorded <=> pc[c] = "written"
    BY <1>3, CallInFlight
  <2>3. EventLog!Lose(c)
    BY <1>3, <2>1, <2>2 DEF EventLog!Lose, EventLog!Answered, EventLog!KeyTaken, Appends, KeyTaken
  <2>4. QED
    BY <2>3 DEF EventLog!Operate
<1>4. CASE job[c].op # "append"
  <2>1. PendingCall' = PendingCall
    BY <1>1, <1>2, <1>4, PendingCallOf DEF PendingCall
  <2>2. QED
    BY <1>4, <2>1 DEF Appends
<1>5. QED
  BY <1>3, <1>4

\* A line that is written whole records its request.
LEMMA WriteLineRefines ==
  ASSUME StoreInv, NEW c \in Callers, WriteLine(c)
  PROVE  EventLog!Operate \/ tail' = "torn"
<1> SUFFICES ASSUME tail' # "torn" PROVE EventLog!Operate
  OBVIOUS
<1> USE DEF StoreInv, WriteLine, Appends, Goto
<1> PICK request \in Requests : request = job[c].request
  BY JobFacts DEF TypeOK
<1>1. pc[c] = "locked" /\ tail # "torn"
  BY DEF Readable
<1>2. \A other \in Callers \ {c} : job'[other] = job[other] /\ pc'[other] = pc[other]
  BY DEF TypeOK
<1>3. PendingCall'[c] = [request |-> request, recorded |-> TRUE]
  <2>1. job'[c] = job[c] /\ pc'[c] = "written"
    BY DEF TypeOK
  <2>2. QED
    BY <2>1 DEF PendingCall
<1>4. /\ PendingCall[c] # Nothing
      /\ PendingCall[c].request = request
      /\ ~PendingCall[c].recorded
  BY <1>1, CallInFlight
<1>5. PendingCall' = [PendingCall EXCEPT ![c] = [request |-> request, recorded |-> TRUE]]
  BY <1>2, <1>3, OwnCall
<1>6. EventLog!Record(c)
  BY <1>4, <1>5 DEF EventLog!Record, EventLog!KeyTaken, KeyTaken
<1>7. QED
  BY <1>1, <1>6 DEF EventLog!Operate

\* Steps that the abstract log does not see.
LEMMA QuietRefines ==
  ASSUME StoreInv,
         \/ \E c \in Callers : Touch(c) \/ Acquire(c) \/ ReadEvents(c) \/ CompareSnapshot(c)
         \/ EraseSnapshot \/ UNCHANGED vars
  PROVE  UNCHANGED <<log, PendingCall, answer, tail>>
<1> USE DEF StoreInv
<1>1. ASSUME NEW c \in Callers, Touch(c) \/ Acquire(c) \/ ReadEvents(c)
      PROVE  UNCHANGED <<log, PendingCall, answer, tail>>
  BY <1>1, SameCalls DEF Touch, Acquire, ReadEvents, Goto, disk, TypeOK
<1>2. ASSUME NEW c \in Callers, CompareSnapshot(c)
      PROVE  UNCHANGED <<log, PendingCall, answer, tail>>
  <2>1. job[c].op # "append" /\ job'[c].op # "append"
    BY <1>2 DEF CompareSnapshot, CallInv, TypeOK, NoJob
  <2>2. \A other \in Callers \ {c} : job'[other] = job[other] /\ pc'[other] = pc[other]
    BY <1>2 DEF CompareSnapshot, TypeOK
  <2>3. PendingCall' = PendingCall
    BY <2>1, <2>2 DEF PendingCall
  <2>4. QED
    BY <1>2, <2>3 DEF CompareSnapshot, disk
<1>3. CASE EraseSnapshot \/ UNCHANGED vars
  BY <1>3, SameCalls DEF EraseSnapshot, vars, disk
<1>4. QED
  BY <1>1, <1>2, <1>3

LEMMA NextRefines ==
  ASSUME StoreInv, [Next]_vars
  PROVE  EventLog!Next \/ UNCHANGED EventLog!eventLogVars
<1> USE DEF EventLog!Next, EventLog!Damage, EventLog!eventLogVars
<1> SUFFICES ASSUME tail' # "torn"
             PROVE  EventLog!Operate \/ UNCHANGED <<log, PendingCall, answer, tail = "torn">>
  OBVIOUS
<1>1. ASSUME NEW c \in Callers, Create(c)
      PROVE  EventLog!Operate
  <2> PICK request \in Requests : Begin(c, [op |-> "append", request |-> request])
    BY <1>1 DEF Create
  <2> QED
    BY <1>1, BeginRefines DEF Create, Goto, Jobs
<1>2. ASSUME NEW c \in Callers, Call(c)
      PROVE  EventLog!Operate
  BY <1>2, BeginRefines DEF Call, Goto, disk
<1>3. ASSUME NEW c \in Callers,
             \/ FailToRead(c) \/ Load(c) \/ AnswerAgain(c) \/ Reject(c)
             \/ WriteSnapshot(c) \/ SnapshotFails(c)
      PROVE  EventLog!Operate \/ UNCHANGED <<log, PendingCall, answer, tail>>
  BY <1>3, ReleaseRefines
     DEF FailToRead, Load, AnswerAgain, Reject, WriteSnapshot, SnapshotFails, Appends, StoreInv,
         CallInv
<1>4. ASSUME NEW c \in Callers, Crash(c)
      PROVE  EventLog!Operate \/ UNCHANGED <<log, PendingCall, answer, tail = "torn">>
  BY <1>4, DieRefines DEF Crash
<1>5. ASSUME NEW c \in Callers, Tear(c)
      PROVE  EventLog!Operate \/ UNCHANGED <<log, PendingCall, answer, tail = "torn">>
  BY <1>5, DieRefines DEF Tear, Appends, Readable
<1>6. ASSUME NEW c \in Callers, WriteLine(c)
      PROVE  EventLog!Operate
  BY <1>6, WriteLineRefines
<1>7. CASE \/ \E c \in Callers : Touch(c) \/ Acquire(c) \/ ReadEvents(c) \/ CompareSnapshot(c)
           \/ EraseSnapshot \/ UNCHANGED vars
  BY <1>7, QuietRefines
<1>8. QED
  BY <1>1, <1>2, <1>3, <1>4, <1>5, <1>6, <1>7 DEF Next, Step

LEMMA InitRefines == Init => EventLog!Init
BY DEF Init, EventLog!Init, PendingCall, NoJob

\* The store is an exactly-once log for any number of processes that die anywhere, as long
\* as no line is torn.
THEOREM Refinement == Spec => ImplementsEventLog
<1>1. StoreInv /\ [Next]_vars => [EventLog!Next]_(EventLog!eventLogVars)
  BY NextRefines
<1>2. QED
  BY InitRefines, StoreInvariant, <1>1, PTL DEF Spec, ImplementsEventLog, EventLog!Spec
=============================================================================
