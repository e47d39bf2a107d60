--------------------------- MODULE GeometryJobProofs ---------------------------
(***************************************************************************)
(* Proofs about a geometry job: for any number of iterations, directories, *)
(* scores and deaths.                                                      *)
(***************************************************************************)
EXTENDS GeometryJob, FiniteSetTheorems, TLAPS

-----------------------------------------------------------------------------
(* Types *)

Entries == [attempt : Numbers, stops : BOOLEAN]
ActiveAttempts == [number : Nat, attempt : Nat, phase : Phases \union {"none"}]
States == [completed : Seq(Entries), active : ActiveAttempts, best : Nat, bestScore : Nat,
           thread : BOOLEAN]
Jobs == [state : States, tries : Nat, decision : {"none", "continue", "stop"}]
Results == [kind : {"result"}, selected : Nat, candidate : Nat]
Labels ==
  {"off", "done", "raised", "staging", "loop", "added", "acting", "acted", "verifying",
   "verified", "judged", "deciding", "finishing", "finished", "selecting", "selected"}
Marks == Verdicts \union {Unverified}

DiskTypes ==
  /\ exists \in [Directories -> BOOLEAN]
  /\ recovery \in [Directories -> {Absent} \union States]
  /\ book \in [Directories -> Books]
  /\ candidates \in [Directories -> [Numbers -> BOOLEAN]]
  /\ verdicts \in [Directories -> [Numbers -> Marks]]
  /\ turns \in [Directories -> [Numbers -> Replies]]
  /\ published \in [Directories -> Nat]
  /\ final \in [Directories -> {Absent, [kind |-> "torn"]} \union Results]

LocalTypes ==
  /\ pc \in Labels /\ dir \in Directories /\ job \in Jobs
  /\ unsteady \in BOOLEAN /\ crashes \in 0..CrashCap

JobTypes == DiskTypes /\ LocalTypes

-----------------------------------------------------------------------------
(* The invariant *)

\* The attempts whose verdict recovery-state.json vouches for.
Judged(d) ==
  CompletedAttempts(d)
    \union {a \in {Known(d).active.attempt} : Known(d).active.phase = "verifier_completed"}

\* The completed attempts are in order, and the active one comes after them.
Ordered(d) ==
  /\ \A i \in 1..Len(Completed(d)) :
       /\ Completed(d)[i].attempt \in Attempts(book[d])
       /\ \A j \in 1..(i - 1) : Completed(d)[j].attempt < Completed(d)[i].attempt
  /\ Known(d).active # NoAttempt =>
       /\ Known(d).active.attempt \in Attempts(book[d])
       /\ Known(d).active.number = Len(Completed(d)) + 1
       /\ Known(d).active.phase \in Phases
       /\ \A i \in 1..Len(Completed(d)) : Completed(d)[i].attempt < Known(d).active.attempt
  /\ Scheduled(d) <= MaxIterations

\* What is judged has a verdict, which the ledger has too once the attempt is completed; and
\* the ledger has no other verdicts.
VerdictsAgree(d) ==
  /\ \A a \in Judged(d) : verdicts[d][a] \in Verdicts
  /\ \A a \in CompletedAttempts(d) : book[d].attempts[a] = verdicts[d][a]
  /\ \A a \in Attempts(book[d]) : Verified(book[d], a) => a \in Judged(d)

\* The best attempt is the best of those that are judged.
BestOfJudged(d) ==
  /\ \A a \in Judged(d) : verdicts[d][a] <= Known(d).bestScore
  /\ \/ Known(d).best = 0 /\ Known(d).bestScore = 0
     \/ /\ Known(d).best \in Judged(d) /\ verdicts[d][Known(d).best] = Known(d).bestScore
        /\ Known(d).bestScore > 0

\* candidate.dwg is the best candidate, or the one that is about to be.
PublishedBest(d) ==
  ~unsteady =>
    \/ published[d] = Known(d).best
    \/ /\ Known(d).active.phase = "action_completed"
       /\ published[d] = Known(d).active.attempt
       /\ verdicts[d][published[d]] \in Verdicts
       /\ verdicts[d][published[d]] > Known(d).bestScore

\* A result says what was known when it was written.
ResultInv(d) ==
  final[d].kind = "result" =>
    /\ Known(d).active = NoAttempt
    /\ final[d].selected = Known(d).best
    /\ ~unsteady => final[d].candidate = Known(d).best
    /\ Known(d).best # 0 =>
         book[d].selected = Known(d).best /\ book[d].result = verdicts[d][Known(d).best]

Sound(d) ==
  Ordered(d) /\ VerdictsAgree(d) /\ BestOfJudged(d) /\ PublishedBest(d) /\ ResultInv(d)

\* A directory nobody made has nothing in it.
Untouched(d) ==
  /\ recovery[d] = Absent /\ book[d] = EmptyBook /\ published[d] = 0 /\ final[d] = Absent

Working == pc \notin {"off", "done", "raised", "staging"}
Deciding == {"deciding", "finishing", "finished"}

\* Where the process is, and what it knows of its directory.
ProcessInv ==
  /\ pc = "staging" => /\ exists[dir] /\ Untouched(dir)
  /\ Working =>
       /\ exists[dir] /\ recovery[dir] # Absent /\ final[dir] = Absent
       /\ State.completed = recovery[dir].completed /\ State.active = recovery[dir].active
       /\ pc # "judged" =>
            State.best = recovery[dir].best /\ State.bestScore = recovery[dir].bestScore
       /\ pc \in {"added", "selecting", "selected"} => State.active = NoAttempt
       /\ pc = "added" =>
            /\ Len(State.completed) < MaxIterations
            /\ Len(book[dir].attempts) > 0
            /\ \A i \in 1..Len(State.completed) :
                 State.completed[i].attempt < Len(book[dir].attempts)
       /\ pc \in {"acting", "acted"} => State.active.phase = "action_running"
       /\ pc \in {"verifying", "verified", "judged"} => State.active.phase = "action_completed"
       /\ pc \in {"verified", "judged"} => Verdict \in Verdicts
       /\ pc = "judged" =>
            /\ Verdict <= State.bestScore
            /\ \/ /\ State.best = recovery[dir].best /\ State.bestScore = recovery[dir].bestScore
               \/ /\ State.best = Attempt /\ State.bestScore = Verdict
                  /\ Verdict > recovery[dir].bestScore
            /\ ~unsteady => published[dir] = State.best
       /\ pc \in Deciding => State.active.phase = "verifier_completed"
       /\ pc = "finished" => book[dir].attempts[Attempt] = Verdict
       /\ (pc = "selected" /\ State.best # 0) =>
            book[dir].selected = State.best /\ book[dir].result = verdicts[dir][State.best]

\* Every attempt of the ledger but the completed ones and the one at hand cost a death.
Pending(d) == Known(d).active # NoAttempt \/ (pc = "added" /\ dir = d)
CountInv ==
  \A d \in Directories :
    Len(book[d].attempts) <= Len(Completed(d)) + crashes + (IF Pending(d) THEN 1 ELSE 0)

\* A stop that is to be overruled cost a death before.
Stopped(d) ==
  /\ Known(d).active = NoAttempt /\ Completed(d) # <<>>
  /\ Completed(d)[Len(Completed(d))].stops
  /\ ~(pc \in {"selecting", "selected", "done"} /\ dir = d)
StopInv ==
  \A d \in Directories : Cardinality(Overruled(d)) + (IF Stopped(d) THEN 1 ELSE 0) <= crashes

JobInv ==
  /\ JobTypes
  /\ \A d \in Directories : Sound(d) /\ (~exists[d] => Untouched(d))
  /\ ProcessInv
  /\ CountInv
  /\ StopInv

-----------------------------------------------------------------------------
(* Types of what a step reads and writes *)

LEMMA BookUpdates ==
  ASSUME NEW b \in Books
  PROVE  /\ WithAttempt(b) \in Books /\ Len(WithAttempt(b).attempts) = Len(b.attempts) + 1
         /\ WithAttempt(b).attempts[Len(b.attempts) + 1] = Unverified
         /\ \A a \in Attempts(b) : WithAttempt(b).attempts[a] = b.attempts[a]
         /\ WithAttempt(b).selected = b.selected /\ WithAttempt(b).result = b.result
         /\ \A a \in Attempts(b), verdict \in Verdicts :
              /\ WithVerdict(b, a, verdict) \in Books
              /\ Attempts(WithVerdict(b, a, verdict)) = Attempts(b)
              /\ Len(WithVerdict(b, a, verdict).attempts) = Len(b.attempts)
              /\ WithVerdict(b, a, verdict).attempts[a] = verdict
              /\ \A c \in Attempts(b) \ {a} :
                   WithVerdict(b, a, verdict).attempts[c] = b.attempts[c]
         /\ \A a \in Attempts(b) :
              /\ WithSelection(b, a) \in Books /\ WithSelection(b, a).attempts = b.attempts
              /\ WithSelection(b, a).selected = a /\ WithSelection(b, a).result = b.attempts[a]
<1>1. /\ b.attempts \in Seq(Marks) /\ b.result \in Marks /\ b.selected \in Nat
  BY DEF Books, Marks
<1>2. /\ WithAttempt(b) \in Books /\ Len(WithAttempt(b).attempts) = Len(b.attempts) + 1
      /\ WithAttempt(b).attempts[Len(b.attempts) + 1] = Unverified
      /\ \A a \in Attempts(b) : WithAttempt(b).attempts[a] = b.attempts[a]
      /\ WithAttempt(b).selected = b.selected /\ WithAttempt(b).result = b.result
  <2>1. PICK longer \in Seq(Marks) : longer = Append(b.attempts, Unverified)
    <3>1. Append(b.attempts, Unverified) \in Seq(Marks)
      BY <1>1 DEF Marks
    <3>2. QED
      BY <3>1
  <2>2. /\ Len(longer) = Len(b.attempts) + 1 /\ longer[Len(b.attempts) + 1] = Unverified
        /\ \A a \in 1..Len(b.attempts) : longer[a] = b.attempts[a]
    BY <1>1, <2>1 DEF Marks
  <2>3. WithAttempt(b) = [b EXCEPT !.attempts = longer]
    BY <2>1 DEF WithAttempt
  <2>4. /\ WithAttempt(b) \in Books /\ WithAttempt(b).attempts = longer
        /\ WithAttempt(b).selected = b.selected /\ WithAttempt(b).result = b.result
    BY <2>3 DEF Books, Marks
  <2>5. QED
    BY <2>2, <2>4 DEF Attempts
<1>3. ASSUME NEW a \in Attempts(b), NEW verdict \in Verdicts
      PROVE  /\ WithVerdict(b, a, verdict) \in Books
             /\ Attempts(WithVerdict(b, a, verdict)) = Attempts(b)
             /\ Len(WithVerdict(b, a, verdict).attempts) = Len(b.attempts)
             /\ WithVerdict(b, a, verdict).attempts[a] = verdict
             /\ \A c \in Attempts(b) \ {a} :
                  WithVerdict(b, a, verdict).attempts[c] = b.attempts[c]
  <2>1. PICK judged \in Seq(Marks) : judged = [b.attempts EXCEPT ![a] = verdict]
    <3>1. [b.attempts EXCEPT ![a] = verdict] \in Seq(Marks)
      BY <1>1 DEF Attempts, Marks
    <3>2. QED
      BY <3>1
  <2>2. /\ Len(judged) = Len(b.attempts) /\ judged[a] = verdict
        /\ \A c \in 1..Len(b.attempts) : c # a => judged[c] = b.attempts[c]
    BY <1>1, <2>1 DEF Attempts
  <2>3. WithVerdict(b, a, verdict) \in Books /\ WithVerdict(b, a, verdict).attempts = judged
    BY <1>1, <2>1 DEF WithVerdict, Books, Marks
  <2>4. QED
    BY <2>2, <2>3 DEF Attempts
<1>4. ASSUME NEW a \in Attempts(b)
      PROVE  /\ WithSelection(b, a) \in Books /\ WithSelection(b, a).attempts = b.attempts
             /\ WithSelection(b, a).selected = a /\ WithSelection(b, a).result = b.attempts[a]
  <2>1. b.attempts[a] \in Marks /\ a \in Nat
    BY <1>1, <1>4 DEF Attempts
  <2>2. QED
    BY <2>1 DEF Books, Marks, WithSelection
<1>5. QED
  BY <1>2, <1>3, <1>4

LEMMA StateFields ==
  ASSUME NEW s \in States
  PROVE  /\ s.completed \in Seq(Entries) /\ Len(s.completed) \in Nat
         /\ \A i \in 1..Len(s.completed) : s.completed[i].attempt \in Numbers
         /\ s.active \in ActiveAttempts /\ s.active.number \in Nat /\ s.active.attempt \in Nat
         /\ s.active.phase \in Phases \union {"none"}
         /\ s.best \in Nat /\ s.bestScore \in Nat /\ s.thread \in BOOLEAN
<1>1. s.completed \in Seq(Entries) /\ s.active \in ActiveAttempts
  BY DEF States
<1>2. \A i \in 1..Len(s.completed) : s.completed[i] \in Entries
  BY <1>1
<1>3. QED
  BY <1>1, <1>2 DEF States, ActiveAttempts, Entries

LEMMA FreshState == Fresh \in States /\ Absent \notin States /\ NoAttempt \in ActiveAttempts
<1>1. NoAttempt \in ActiveAttempts
  BY DEF NoAttempt, ActiveAttempts
<1>2. <<>> \in Seq(Entries)
  OBVIOUS
<1>3. Fresh \in States
  BY <1>1, <1>2 DEF Fresh, States
<1>4. Absent \notin States
  BY DEF Absent, States
<1>5. QED
  BY <1>1, <1>3, <1>4

LEMMA KnownStates ==
  ASSUME DiskTypes, NEW d \in Directories
  PROVE  /\ Known(d) \in States
         /\ recovery[d] # Absent => Known(d) = recovery[d]
         /\ recovery[d] = Absent => Known(d) = Fresh
         /\ book[d] \in Books /\ Len(book[d].attempts) \in Nat
         /\ \A a \in Numbers : verdicts[d][a] \in Marks
BY FreshState DEF DiskTypes, Known, Books

\* The states a step can save.
LEMMA NextStates ==
  ASSUME NEW s \in States
  PROVE  /\ \A active \in ActiveAttempts :
              LET t == [s EXCEPT !.active = active]
              IN  /\ t \in States /\ t.active = active /\ t.completed = s.completed
                  /\ t.best = s.best /\ t.bestScore = s.bestScore
         /\ \A phase \in Phases :
              LET t == [s EXCEPT !.active.phase = phase]
              IN  /\ t \in States /\ t.active.phase = phase
                  /\ t.active.attempt = s.active.attempt /\ t.active.number = s.active.number
                  /\ t.completed = s.completed /\ t.best = s.best /\ t.bestScore = s.bestScore
         /\ \A entry \in Entries :
              LET t == [s EXCEPT !.completed = Append(@, entry), !.active = NoAttempt]
              IN  /\ t \in States /\ t.active = NoAttempt
                  /\ t.completed = Append(s.completed, entry)
                  /\ t.best = s.best /\ t.bestScore = s.bestScore
<1>1. ASSUME NEW active \in ActiveAttempts
      PROVE  LET t == [s EXCEPT !.active = active]
             IN  /\ t \in States /\ t.active = active /\ t.completed = s.completed
                 /\ t.best = s.best /\ t.bestScore = s.bestScore
  BY DEF States
<1>2. ASSUME NEW phase \in Phases
      PROVE  LET t == [s EXCEPT !.active.phase = phase]
             IN  /\ t \in States /\ t.active.phase = phase
                 /\ t.active.attempt = s.active.attempt /\ t.active.number = s.active.number
                 /\ t.completed = s.completed /\ t.best = s.best /\ t.bestScore = s.bestScore
  BY DEF States, ActiveAttempts
<1>3. ASSUME NEW entry \in Entries
      PROVE  LET t == [s EXCEPT !.completed = Append(@, entry), !.active = NoAttempt]
             IN  /\ t \in States /\ t.active = NoAttempt
                 /\ t.completed = Append(s.completed, entry)
                 /\ t.best = s.best /\ t.bestScore = s.bestScore
  <2>1. PICK longer \in Seq(Entries) : longer = Append(s.completed, entry)
    <3>1. s.completed \in Seq(Entries)
      BY StateFields
    <3>2. Append(s.completed, entry) \in Seq(Entries)
      BY <3>1
    <3>3. QED
      BY <3>2
  <2>2. LET t == [s EXCEPT !.completed = longer, !.active = NoAttempt]
        IN  /\ t \in States /\ t.active = NoAttempt /\ t.completed = longer
            /\ t.best = s.best /\ t.bestScore = s.bestScore
    BY FreshState DEF States
  <2>3. QED
    BY <2>1, <2>2
<1>4. QED
  BY <1>1, <1>2, <1>3

\* What no step but its own may do to a directory.
Kept(d) ==
  /\ exists'[d] = exists[d] /\ recovery'[d] = recovery[d] /\ book'[d] = book[d]
  /\ verdicts'[d] = verdicts[d] /\ published'[d] = published[d] /\ final'[d] = final[d]

\* A step of the job in its directory.
Stays ==
  /\ JobTypes' /\ dir' = dir /\ crashes' = crashes
  /\ \A d \in Directories : d # dir => Kept(d)

LEMMA SaveEffect ==
  ASSUME JobTypes, NEW s \in States, Save(s)
  PROVE  /\ recovery' \in [Directories -> {Absent} \union States]
         /\ recovery'[dir] = s /\ s # Absent
         /\ \A d \in Directories : d # dir => recovery'[d] = recovery[d]
         /\ job' \in Jobs /\ job'.state = s /\ job'.decision = job.decision
<1>1. /\ recovery \in [Directories -> {Absent} \union States] /\ dir \in Directories
      /\ job \in [state : States, tries : Nat, decision : {"none", "continue", "stop"}]
  BY DEF JobTypes, DiskTypes, LocalTypes, Jobs
<1>2. recovery' = [recovery EXCEPT ![dir] = s] /\ job' = [job EXCEPT !.state = s]
  BY DEF Save
<1>3. /\ recovery' \in [Directories -> {Absent} \union States]
      /\ recovery'[dir] = s
      /\ \A d \in Directories : d # dir => recovery'[d] = recovery[d]
  BY ONLY <1>1, <1>2, s \in States
<1>4. job' \in Jobs /\ job'.state = s /\ job'.decision = job.decision
  BY ONLY <1>1, <1>2, s \in States DEF Jobs
<1>5. QED
  BY <1>3, <1>4, FreshState

LEMMA Locals ==
  ASSUME JobTypes
  PROVE  /\ State \in States /\ dir \in Directories /\ job.tries \in Nat
         /\ job.decision \in {"none", "continue", "stop"}
         /\ book[dir] \in Books /\ Len(book[dir].attempts) \in Nat
         /\ crashes \in Nat /\ Attempt \in Nat
<1>1. State \in States /\ job.tries \in Nat /\ job.decision \in {"none", "continue", "stop"}
  BY DEF JobTypes, LocalTypes, Jobs, State
<1>2. book[dir] \in Books /\ dir \in Directories /\ crashes \in Nat
  BY DEF JobTypes, LocalTypes, DiskTypes
<1>3. QED
  BY <1>1, <1>2, StateFields DEF Books, Attempt

\* Labels at which there is an attempt at hand.
AtAttempt ==
  pc \in {"acting", "acted", "verifying", "verified", "judged", "deciding", "finishing", "finished"}

LEMMA AttemptFacts ==
  ASSUME JobInv, Working, State.active # NoAttempt
  PROVE  /\ Attempt \in Attempts(book[dir]) /\ Attempt \in Numbers /\ Verdict \in Marks
         /\ State.active.number = Len(State.completed) + 1
         /\ State.active.phase \in Phases
         /\ Len(State.completed) < MaxIterations
         /\ \A i \in 1..Len(State.completed) : State.completed[i].attempt < Attempt
         /\ Attempt \notin CompletedAttempts(dir)
<1>1. /\ State.completed = Completed(dir) /\ State.active = Known(dir).active
      /\ dir \in Directories /\ Sound(dir) /\ State \in States /\ crashes \in 0..CrashCap
  BY Locals, KnownStates DEF JobInv, ProcessInv, JobTypes, LocalTypes, Completed
<1>2. /\ Attempt \in Attempts(book[dir])
      /\ State.active.number = Len(State.completed) + 1 /\ State.active.phase \in Phases
      /\ \A i \in 1..Len(State.completed) : State.completed[i].attempt < Attempt
  BY <1>1 DEF Sound, Ordered, Attempt
<1>3. Len(State.completed) + 1 <= MaxIterations
  BY <1>1 DEF Sound, Ordered, Scheduled
<1>4. Len(book[dir].attempts) <= Len(State.completed) + crashes + 1
  BY <1>1 DEF JobInv, CountInv, Pending
<1>5. Attempt \in Numbers
  BY <1>1, <1>2, <1>3, <1>4, Locals, StateFields, JobAssumption DEF Attempts, Numbers
<1>6. Verdict \in Marks
  BY <1>1, <1>5, KnownStates DEF Verdict, JobInv, JobTypes
<1>7. Attempt \notin CompletedAttempts(dir)
  <2>1. \A i \in 1..Len(State.completed) : State.completed[i].attempt \in Nat
    BY <1>1, StateFields DEF Numbers
  <2>2. QED
    BY <1>1, <1>2, <2>1, Locals DEF CompletedAttempts
<1>8. QED
  BY <1>1, <1>2, <1>3, <1>5, <1>6, <1>7, StateFields, JobAssumption

LEMMA AttemptAtHand ==
  ASSUME JobInv, AtAttempt
  PROVE  Working /\ State.active # NoAttempt
BY DEF JobInv, ProcessInv, AtAttempt, Working, NoAttempt, Deciding

-----------------------------------------------------------------------------
(* What each step does *)

\* A step that writes nothing the invariant speaks of.
Reads ==
  /\ Stays /\ Kept(dir) /\ unsteady' = unsteady
  /\ job'.state.completed = State.completed /\ job'.state.active = State.active
  /\ job'.state.best = State.best /\ job'.state.bestScore = State.bestScore

LEMMA ReadingEffect ==
  ASSUME JobInv,
         \/ ReturnResult \/ RaiseOnTornResult \/ ContinueAttempt \/ ExhaustLoop
         \/ Act \/ RecoverDecision \/ Ask \/ GiveUp
  PROVE  /\ Reads
         /\ \/ pc = "off" /\ pc' \in {"done", "raised"}
            \/ /\ pc = "loop" /\ State.active # NoAttempt
               /\ pc' = PhaseLabel(State.active.phase)
               /\ pc' \in {"acting", "verifying", "deciding"}
            \/ pc = "loop" /\ State.active = NoAttempt /\ pc' = "selecting"
            \/ pc = "acting" /\ pc' = "acted"
            \/ pc = "deciding" /\ pc' \in {"deciding", "finishing"}
<1>1. /\ exists' = exists /\ recovery' = recovery /\ book' = book /\ verdicts' = verdicts
      /\ published' = published /\ final' = final /\ dir' = dir /\ unsteady' = unsteady
      /\ crashes' = crashes /\ JobTypes /\ dir \in Directories
  BY DEF ReturnResult, RaiseOnTornResult, ContinueAttempt, ExhaustLoop, Act, RecoverDecision, Ask,
         GiveUp, disk, JobInv, JobTypes, LocalTypes
<1>2. \A d \in Directories : Kept(d)
  BY <1>1 DEF Kept
<1>3. CASE ReturnResult \/ RaiseOnTornResult
  <2>1. UNCHANGED <<disk, dir, job, unsteady, crashes>>
    BY <1>3 DEF ReturnResult, RaiseOnTornResult
  <2>2. QED
    BY <1>1, <1>2, <1>3, <2>1
    DEF ReturnResult, RaiseOnTornResult, Goto, JobTypes, DiskTypes, disk, LocalTypes, Reads, Stays,
        Labels, State
<1>4. CASE ContinueAttempt \/ ExhaustLoop
  <2>1. UNCHANGED <<disk, dir, job, unsteady, crashes>> /\ pc = "loop"
    BY <1>4 DEF ContinueAttempt, ExhaustLoop
  <2>2. \/ ContinueAttempt /\ pc' \in {"acting", "verifying", "deciding"}
        \/ ExhaustLoop /\ pc' = "selecting"
    <3>1. CASE ContinueAttempt
      <4>1. State.active.phase \in Phases
        BY <2>1, <3>1, AttemptFacts DEF ContinueAttempt, Working
      <4>2. QED
        BY <3>1, <4>1 DEF ContinueAttempt, PhaseLabel, Phases, Goto
    <3>2. QED
      BY <1>4, <3>1 DEF ExhaustLoop, Goto
  <2>3. JobTypes'
    BY <1>1, <2>1, <2>2 DEF JobTypes, DiskTypes, disk, LocalTypes, Labels
  <2>4. QED
    BY <1>1, <1>2, <2>1, <2>2, <2>3 DEF ContinueAttempt, ExhaustLoop, Goto, Reads, Stays, State
<1>5. CASE Act
  <2>1. PICK made \in BOOLEAN : candidates' = [candidates EXCEPT ![dir][Attempt] = made]
    BY <1>5 DEF Act
  <2>2. candidates' \in [Directories -> [Numbers -> BOOLEAN]] /\ turns' = turns
    BY <1>1, <1>5, <2>1 DEF Act, JobTypes, DiskTypes, LocalTypes
  <2>3. PICK thread \in BOOLEAN : job' = [job EXCEPT !.state.thread = thread]
    <3>1. State.thread \in BOOLEAN
      BY <1>1, Locals, StateFields
    <3>2. QED
      BY <1>5, <3>1 DEF Act
  <2>4. /\ job' \in Jobs /\ job'.state.completed = State.completed
        /\ job'.state.active = State.active /\ job'.state.best = State.best
        /\ job'.state.bestScore = State.bestScore
    <3>1. job \in Jobs
      BY <1>1 DEF JobTypes, LocalTypes
    <3>2. QED
      BY ONLY <2>3, <3>1, thread \in BOOLEAN DEF Jobs, States, State
  <2>5. pc = "acting" /\ pc' = "acted"
    BY <1>5 DEF Act, Goto
  <2>6. JobTypes'
    BY <1>1, <2>2, <2>4, <2>5 DEF JobTypes, DiskTypes, LocalTypes, Labels
  <2>7. QED
    BY <1>1, <1>2, <2>4, <2>5, <2>6 DEF Reads, Stays
<1>6. CASE RecoverDecision \/ Ask \/ GiveUp
  <2>1. pc = "deciding" /\ candidates' = candidates
    BY <1>6 DEF RecoverDecision, Ask, GiveUp, disk
  <2>2. Attempt \in Numbers
    BY <2>1, AttemptFacts, AttemptAtHand DEF AtAttempt
  <2>3. turns' \in [Directories -> [Numbers -> Replies]]
    <3>1. CASE Ask
      <4>1. PICK reply \in Replies :
               turns' = [turns EXCEPT ![dir][Attempt] = IF @ = "useless" THEN reply ELSE @]
        BY <3>1 DEF Ask, Reply
      <4>2. QED
        BY <1>1, <4>1 DEF JobTypes, DiskTypes, LocalTypes
    <3>2. QED
      BY <1>1, <1>6, <3>1 DEF RecoverDecision, GiveUp, disk, JobTypes, DiskTypes
  <2>4. /\ pc' \in {"deciding", "finishing"} /\ job' \in Jobs /\ job'.state = State
    <3>1. \/ \E decision \in {"none", "continue", "stop"} : Decided(decision)
          \/ UNCHANGED pc /\ job' = [job EXCEPT !.tries = IF @ > RetryLimit THEN @ ELSE @ + 1]
      <4>1. CASE RecoverDecision
        <5>1. LeftReply \in Replies
          BY <1>1, <2>2 DEF LeftReply, JobTypes, DiskTypes, LocalTypes
        <5>2. LeftReply \in {"continue", "stop"} /\ Decided(LeftReply)
          BY <4>1, <5>1 DEF RecoverDecision, Recoverable, Replies
        <5>3. QED
          BY <5>2
      <4>2. CASE Ask
        <5>1. PICK reply \in Replies, delivered \in BOOLEAN :
                IF reply # "useless" /\ delivered
                THEN Decided(reply)
                ELSE UNCHANGED pc /\ job' = [job EXCEPT !.tries = IF @ > RetryLimit THEN @ ELSE @ + 1]
          BY <4>2 DEF Ask, Reply
        <5>2. QED
          BY <5>1 DEF Replies
      <4>3. CASE GiveUp
        BY <4>3 DEF GiveUp
      <4>4. QED
        BY <1>6, <4>1, <4>2, <4>3
    <3>2. job \in Jobs
      BY <1>1 DEF JobTypes, LocalTypes
    <3>3. CASE \E decision \in {"none", "continue", "stop"} : Decided(decision)
      <4>1. PICK decision \in {"none", "continue", "stop"} : Decided(decision)
        BY <3>3
      <4>2. pc' = "finishing" /\ job' = [job EXCEPT !.decision = decision, !.tries = 0]
        BY <4>1 DEF Decided, Goto
      <4>3. QED
        BY ONLY <3>2, <4>2, decision \in {"none", "continue", "stop"} DEF Jobs, State
    <3>4. CASE UNCHANGED pc /\ job' = [job EXCEPT !.tries = IF @ > RetryLimit THEN @ ELSE @ + 1]
      <4>1. PICK tries \in Nat : tries = IF job.tries > RetryLimit THEN job.tries ELSE job.tries + 1
        BY <1>1, Locals, JobAssumption
      <4>2. job' = [job EXCEPT !.tries = tries] /\ pc' = pc
        BY <3>4, <4>1
      <4>3. job' \in Jobs /\ job'.state = State
        BY ONLY <3>2, <4>2, tries \in Nat DEF Jobs, State
      <4>4. QED
        BY <2>1, <4>2, <4>3
    <3>5. QED
      BY <3>1, <3>3, <3>4
  <2>5. JobTypes'
    BY <1>1, <2>1, <2>3, <2>4 DEF JobTypes, DiskTypes, LocalTypes, Labels
  <2>6. QED
    BY <1>1, <1>2, <2>1, <2>4, <2>5 DEF Reads, Stays
<1>7. QED
  BY <1>3, <1>4, <1>5, <1>6

\* A step that replaces recovery-state.json.
Saves(state) ==
  /\ Stays /\ state \in States /\ recovery'[dir] = state /\ job'.state = state
  /\ exists'[dir] = exists[dir] /\ book'[dir] = book[dir] /\ verdicts'[dir] = verdicts[dir]
  /\ published'[dir] = published[dir] /\ final'[dir] = final[dir] /\ unsteady' = unsteady

LEMMA SavingEffect ==
  ASSUME JobTypes, NEW s \in States, Save(s), pc' \in Labels,
         UNCHANGED <<exists, book, candidates, verdicts, turns, published, final,
                     dir, unsteady, crashes>>
  PROVE  Saves(s)
<1>1. /\ recovery' \in [Directories -> {Absent} \union States] /\ recovery'[dir] = s
      /\ \A d \in Directories : d # dir => recovery'[d] = recovery[d]
      /\ job' \in Jobs /\ job'.state = s
  BY SaveEffect
<1>2. JobTypes'
  BY <1>1 DEF JobTypes, DiskTypes, LocalTypes
<1>3. QED
  BY <1>1, <1>2 DEF Saves, Stays, Kept

\* A step that writes run.json.
WritesBook(b) ==
  /\ Stays /\ b \in Books /\ book'[dir] = b /\ job' = job
  /\ exists'[dir] = exists[dir] /\ recovery'[dir] = recovery[dir]
  /\ verdicts'[dir] = verdicts[dir] /\ published'[dir] = published[dir]
  /\ final'[dir] = final[dir] /\ unsteady' = unsteady

LEMMA BookEffect ==
  ASSUME JobTypes, NEW b \in Books, book' = [book EXCEPT ![dir] = b], pc' \in Labels,
         UNCHANGED <<exists, recovery, candidates, verdicts, turns, published, final,
                     dir, job, unsteady, crashes>>
  PROVE  WritesBook(b)
<1>1. /\ book' \in [Directories -> Books] /\ book'[dir] = b
      /\ \A d \in Directories : d # dir => book'[d] = book[d]
  BY DEF JobTypes, DiskTypes, LocalTypes
<1>2. JobTypes'
  BY <1>1 DEF JobTypes, DiskTypes, LocalTypes
<1>3. QED
  BY <1>1, <1>2 DEF WritesBook, Stays, Kept

LEMMA VerifyEffect ==
  ASSUME JobInv, Verify
  PROVE  /\ Stays /\ pc = "verifying" /\ pc' = "verified" /\ job' = job
         /\ exists'[dir] = exists[dir] /\ recovery'[dir] = recovery[dir] /\ book'[dir] = book[dir]
         /\ published'[dir] = published[dir] /\ final'[dir] = final[dir]
         /\ \A a \in Numbers : a # Attempt => verdicts'[dir][a] = verdicts[dir][a]
         /\ verdicts'[dir][Attempt] \in Verdicts /\ (unsteady => unsteady')
         /\ (~unsteady' /\ Verdict \in Verdicts) => verdicts'[dir][Attempt] = verdicts[dir][Attempt]
<1>1. PICK verdict \in Verdicts :
        /\ verdicts' = [verdicts EXCEPT ![dir][Attempt] = verdict]
        /\ unsteady' = (unsteady \/ Verdict \notin {Unverified, verdict})
  BY DEF Verify
<1>2. JobTypes /\ dir \in Directories /\ pc = "verifying" /\ pc' = "verified" /\ unsteady \in BOOLEAN
  BY DEF JobInv, JobTypes, LocalTypes, Verify, Goto
<1>3. Attempt \in Numbers
  BY <1>2, AttemptFacts, AttemptAtHand DEF AtAttempt
<1>4. verdicts \in [Directories -> [Numbers -> Marks]] /\ verdict \in Marks
  BY <1>2 DEF JobTypes, DiskTypes, Marks
<1>5. /\ verdicts' \in [Directories -> [Numbers -> Marks]]
      /\ verdicts'[dir][Attempt] = verdict
      /\ \A a \in Numbers : a # Attempt => verdicts'[dir][a] = verdicts[dir][a]
      /\ \A d \in Directories : d # dir => verdicts'[d] = verdicts[d]
  BY ONLY <1>1, <1>2, <1>3, <1>4
<1>6. unsteady' \in BOOLEAN /\ (unsteady => unsteady')
  BY <1>1, <1>2
<1>7. (~unsteady' /\ Verdict \in Verdicts) => verdict = Verdict
  BY <1>1, VerdictAssumption
<1>8. JobTypes'
  BY <1>2, <1>5, <1>6 DEF Verify, JobTypes, DiskTypes, LocalTypes, Labels
<1>9. QED
  BY <1>2, <1>5, <1>6, <1>7, <1>8 DEF Verify, Stays, Kept, Verdict

LEMMA PublishEffect ==
  ASSUME JobInv, Publish
  PROVE  /\ Stays /\ pc = "verified" /\ pc' = "judged" /\ unsteady' = unsteady
         /\ exists'[dir] = exists[dir] /\ recovery'[dir] = recovery[dir] /\ book'[dir] = book[dir]
         /\ verdicts'[dir] = verdicts[dir] /\ final'[dir] = final[dir]
         /\ job'.state.completed = State.completed /\ job'.state.active = State.active
         /\ \/ /\ Verdict > State.bestScore /\ published'[dir] = Attempt
               /\ job'.state.best = Attempt /\ job'.state.bestScore = Verdict
            \/ /\ ~(Verdict > State.bestScore) /\ published'[dir] = published[dir]
               /\ job'.state.best = State.best /\ job'.state.bestScore = State.bestScore
<1>1. /\ JobTypes /\ dir \in Directories /\ pc = "verified" /\ pc' = "judged" /\ job \in Jobs
      /\ published \in [Directories -> Nat]
  BY DEF JobInv, JobTypes, DiskTypes, LocalTypes, Publish, Goto
<1>2. Attempt \in Nat /\ Verdict \in Nat
  <2>1. Verdict \in Verdicts
    BY <1>1 DEF JobInv, ProcessInv, Working
  <2>2. QED
    BY <1>1, <2>1, Locals, JobAssumption
<1>3. CASE Improved
  <2>1. /\ published' = [published EXCEPT ![dir] = Attempt]
        /\ job' = [job EXCEPT !.state.best = Attempt, !.state.bestScore = Verdict]
    BY <1>3 DEF Publish
  <2>2. /\ published' \in [Directories -> Nat] /\ published'[dir] = Attempt
        /\ \A d \in Directories : d # dir => published'[d] = published[d]
    BY <1>1, <1>2, <2>1
  <2>3. /\ job' \in Jobs
        /\ job'.state.completed = State.completed /\ job'.state.active = State.active
        /\ job'.state.best = Attempt /\ job'.state.bestScore = Verdict
    BY ONLY <1>1, <1>2, <2>1 DEF Jobs, States, State
  <2>4. JobTypes'
    BY <1>1, <2>2, <2>3 DEF Publish, JobTypes, DiskTypes, LocalTypes, Labels
  <2>5. QED
    BY <1>1, <1>3, <2>2, <2>3, <2>4 DEF Publish, Stays, Kept, Improved
<1>4. CASE ~Improved
  <2>1. published' = published /\ job' = job
    BY <1>4 DEF Publish
  <2>2. JobTypes'
    BY <1>1, <2>1 DEF Publish, JobTypes, DiskTypes, LocalTypes, Labels
  <2>3. QED
    BY <1>1, <1>4, <2>1, <2>2 DEF Publish, Stays, Kept, Improved, State
<1>5. QED
  BY <1>3, <1>4

LEMMA ResultEffect ==
  ASSUME JobTypes, WriteResult
  PROVE  /\ Stays /\ pc = "selected" /\ pc' = "done" /\ unsteady' = unsteady /\ job' = job
         /\ exists'[dir] = exists[dir] /\ recovery'[dir] = recovery[dir] /\ book'[dir] = book[dir]
         /\ verdicts'[dir] = verdicts[dir] /\ published'[dir] = published[dir]
         /\ final'[dir].selected = State.best /\ final'[dir].candidate = published[dir]
<1>1. /\ dir \in Directories /\ pc = "selected" /\ pc' = "done"
      /\ published \in [Directories -> Nat]
  BY DEF JobTypes, DiskTypes, LocalTypes, WriteResult, Goto
<1>2. PICK result \in Results :
        result = [kind |-> "result", selected |-> State.best, candidate |-> published[dir]]
  <2>1. State.best \in Nat /\ published[dir] \in Nat
    BY <1>1, Locals, StateFields
  <2>2. [kind |-> "result", selected |-> State.best, candidate |-> published[dir]] \in Results
    BY <2>1 DEF Results
  <2>3. QED
    BY <2>2
<1>3. /\ final' \in [Directories -> {Absent, [kind |-> "torn"]} \union Results]
      /\ final'[dir] = result /\ \A d \in Directories : d # dir => final'[d] = final[d]
  BY <1>1, <1>2 DEF WriteResult, JobTypes, DiskTypes
<1>4. JobTypes'
  BY <1>1, <1>3 DEF WriteResult, JobTypes, DiskTypes, LocalTypes, Labels
<1>5. QED
  BY <1>1, <1>2, <1>3, <1>4 DEF WriteResult, Stays, Kept

LEMMA ResumeEffect ==
  ASSUME JobTypes, Resume
  PROVE  /\ JobTypes' /\ pc = "off" /\ pc' = "loop" /\ dir' = 0 /\ 0 \in Directories
         /\ recovery[0] # Absent /\ final[0] = Absent /\ job'.state = recovery[0]
         /\ \A d \in Directories : Kept(d)
         /\ unsteady' = unsteady /\ crashes' = crashes
<1>1. 0 \in Directories /\ recovery[0] \in States /\ recovery[0] # Absent
  BY JobAssumption DEF Resume, Directories, JobTypes, DiskTypes
<1>2. NoJob \in Jobs
  BY FreshState DEF NoJob, Jobs
<1>3. job' \in Jobs /\ job'.state = recovery[0]
  BY <1>1, <1>2 DEF Resume, Jobs
<1>4. JobTypes'
  BY <1>1, <1>3 DEF Resume, Goto, disk, JobTypes, DiskTypes, LocalTypes, Labels
<1>5. QED
  BY <1>1, <1>3, <1>4 DEF Resume, Goto, disk, Kept

LEMMA OpenEffect ==
  ASSUME JobTypes, Open
  PROVE  /\ JobTypes' /\ pc = "off" /\ pc' = "staging" /\ dir' \in Directories
         /\ ~exists[dir'] /\ exists'[dir'] /\ job' = job
         /\ \A d \in Directories :
              /\ recovery'[d] = recovery[d] /\ book'[d] = book[d] /\ verdicts'[d] = verdicts[d]
              /\ published'[d] = published[d] /\ final'[d] = final[d] /\ (exists[d] => exists'[d])
         /\ unsteady' = unsteady /\ crashes' = crashes
<1>1. PICK d \in Directories : ~exists[d] /\ dir' = d /\ exists' = [exists EXCEPT ![d] = TRUE]
  BY DEF Open
<1>2. exists \in [Directories -> BOOLEAN]
  BY DEF JobTypes, DiskTypes
<1>3. /\ exists' \in [Directories -> BOOLEAN] /\ exists'[d]
      /\ \A c \in Directories : exists[c] => exists'[c]
  BY <1>1, <1>2
<1>4. JobTypes'
  BY <1>1, <1>3 DEF Open, Goto, JobTypes, DiskTypes, LocalTypes, Labels
<1>5. QED
  BY <1>1, <1>3, <1>4 DEF Open, Goto

LEMMA DeathEffect ==
  ASSUME JobTypes, Crash \/ Tear
  PROVE  /\ JobTypes' /\ pc' = "off" /\ crashes' = crashes + 1 /\ unsteady' = unsteady
         /\ \A d \in Directories :
              /\ exists'[d] = exists[d] /\ recovery'[d] = recovery[d] /\ book'[d] = book[d]
              /\ verdicts'[d] = verdicts[d] /\ published'[d] = published[d]
              /\ \/ final'[d] = final[d]
                 \/ pc = "selected" /\ d = dir /\ final'[d] = [kind |-> "torn"]
<1>1. /\ crashes < CrashCap /\ crashes' = crashes + 1 /\ pc' = "off" /\ dir' = 0 /\ job' = NoJob
      /\ unsteady' = unsteady
  BY DEF Crash, Tear, Die, Goto
<1>2. /\ exists' = exists /\ recovery' = recovery /\ book' = book /\ candidates' = candidates
      /\ verdicts' = verdicts /\ turns' = turns /\ published' = published
  BY DEF Crash, Tear, disk
<1>3. /\ final' \in [Directories -> {Absent, [kind |-> "torn"]} \union Results]
      /\ \A d \in Directories :
           \/ final'[d] = final[d]
           \/ pc = "selected" /\ d = dir /\ final'[d] = [kind |-> "torn"]
  <2>1. CASE Crash
    BY <2>1 DEF Crash, disk, JobTypes, DiskTypes
  <2>2. CASE Tear
    BY <2>2 DEF Tear, JobTypes, DiskTypes, LocalTypes
  <2>3. QED
    BY <2>1, <2>2
<1>4. 0 \in Directories /\ NoJob \in Jobs /\ crashes' \in 0..CrashCap
  BY <1>1, FreshState, JobAssumption DEF Directories, NoJob, Jobs, JobTypes, LocalTypes
<1>5. JobTypes'
  BY <1>1, <1>2, <1>3, <1>4 DEF JobTypes, DiskTypes, LocalTypes, Labels
<1>6. QED
  BY <1>1, <1>2, <1>3, <1>5

-----------------------------------------------------------------------------
(* What a step leaves as it was *)

LEMMA SameKnown ==
  ASSUME NEW d \in Directories, recovery'[d] = recovery[d]
  PROVE  /\ Known(d)' = Known(d) /\ Completed(d)' = Completed(d)
         /\ CompletedAttempts(d)' = CompletedAttempts(d) /\ Judged(d)' = Judged(d)
         /\ Scheduled(d)' = Scheduled(d) /\ Overruled(d)' = Overruled(d)
<1>1. Known(d)' = Known(d)
  BY DEF Known
<1>2. Completed(d)' = Completed(d)
  BY <1>1 DEF Completed
<1>3. QED
  BY <1>1, <1>2 DEF CompletedAttempts, Judged, Scheduled, Overruled

LEMMA SameSound ==
  ASSUME NEW d \in Directories, Sound(d), unsteady => unsteady',
         recovery'[d] = recovery[d], book'[d] = book[d], verdicts'[d] = verdicts[d],
         published'[d] = published[d],
         final'[d] = final[d] \/ final'[d].kind # "result"
  PROVE  Sound(d)'
<1>1. Ordered(d)'
  BY SameKnown DEF Sound, Ordered
<1>2. VerdictsAgree(d)'
  BY SameKnown DEF Sound, VerdictsAgree
<1>3. BestOfJudged(d)'
  BY SameKnown DEF Sound, BestOfJudged
<1>4. PublishedBest(d)'
  BY SameKnown DEF Sound, PublishedBest
<1>5. ResultInv(d)'
  BY SameKnown DEF Sound, ResultInv
<1>6. QED
  BY <1>1, <1>2, <1>3, <1>4, <1>5 DEF Sound

\* What a working process may rely on in its directory.
LEMMA WorkFacts ==
  ASSUME JobInv, Working, NEW d \in Directories, d = dir
  PROVE  /\ JobTypes /\ Sound(d) /\ final[d] = Absent /\ Known(d) \in States /\ State \in States
         /\ recovery[d] = Known(d)
         /\ Completed(d) = State.completed /\ Known(d).active = State.active
         /\ pc # "judged" => Known(d).best = State.best /\ Known(d).bestScore = State.bestScore
BY KnownStates, Locals DEF JobInv, ProcessInv, JobTypes, Completed

LEMMA SavedKnown ==
  ASSUME NEW s, Saves(s), NEW d \in Directories, d = dir
  PROVE  /\ Known(d)' = s /\ Completed(d)' = s.completed
         /\ book'[d] = book[d] /\ verdicts'[d] = verdicts[d] /\ published'[d] = published[d]
         /\ final'[d] = final[d] /\ unsteady' = unsteady
<1>1. Known(d)' = s
  BY FreshState DEF Saves, Known
<1>2. QED
  BY <1>1 DEF Saves, Completed

-----------------------------------------------------------------------------
(* What is on record stays sound: one lemma for each step that writes *)

LEMMA StageSound ==
  ASSUME JobInv, Stage, NEW d \in Directories, d = dir
  PROVE  Saves(Fresh) /\ pc' = "loop" /\ Sound(d)'
<1>1. Saves(Fresh) /\ pc' = "loop"
  BY SavingEffect, FreshState DEF Stage, Goto, Labels, JobInv
<1>2. Untouched(d) /\ JobTypes
  BY DEF Stage, JobInv, ProcessInv
<1>3. /\ Known(d)' = Fresh /\ Completed(d)' = <<>> /\ book'[d] = EmptyBook /\ published'[d] = 0
      /\ final'[d] = Absent
  BY <1>1, <1>2, SavedKnown DEF Untouched, Fresh
<1>4. CompletedAttempts(d)' = {} /\ Judged(d)' = {}
  BY <1>3 DEF CompletedAttempts, Judged, Fresh, NoAttempt
<1>5. Ordered(d)'
  BY <1>3, JobAssumption DEF Ordered, Scheduled, Fresh
<1>6. VerdictsAgree(d)' /\ BestOfJudged(d)' /\ PublishedBest(d)' /\ ResultInv(d)'
  BY <1>3, <1>4
  DEF VerdictsAgree, BestOfJudged, PublishedBest, ResultInv, Fresh, EmptyBook, Attempts, Absent
<1>7. QED
  BY <1>1, <1>5, <1>6 DEF Sound

\* A longer ledger, whose new attempts have no verdict, is as good.
LEMMA AddSound ==
  ASSUME JobInv, AddAttempt, NEW d \in Directories, d = dir
  PROVE  WritesBook(WithAttempt(book[d])) /\ pc' = "added" /\ Sound(d)'
<1>1. book[d] \in Books /\ Sound(d) /\ JobTypes /\ final[d] = Absent
  BY WorkFacts, KnownStates DEF AddAttempt, Working, JobTypes
<1>2. WritesBook(WithAttempt(book[d])) /\ pc' = "added"
  BY <1>1, BookEffect, BookUpdates DEF AddAttempt, Goto, Labels
<1>3. /\ book'[d] = WithAttempt(book[d]) /\ recovery'[d] = recovery[d]
      /\ verdicts'[d] = verdicts[d] /\ published'[d] = published[d] /\ final'[d] = Absent
      /\ unsteady' = unsteady
  BY <1>1, <1>2 DEF WritesBook
<1>4. /\ Attempts(book'[d]) = Attempts(book[d]) \union {Len(book[d].attempts) + 1}
      /\ book'[d].attempts[Len(book[d].attempts) + 1] = Unverified
      /\ \A a \in Attempts(book[d]) : book'[d].attempts[a] = book[d].attempts[a]
  <2>1. /\ Len(book'[d].attempts) = Len(book[d].attempts) + 1 /\ Len(book[d].attempts) \in Nat
        /\ book'[d].attempts[Len(book[d].attempts) + 1] = Unverified
        /\ \A a \in Attempts(book[d]) : book'[d].attempts[a] = book[d].attempts[a]
    BY <1>1, <1>3, BookUpdates, KnownStates DEF JobTypes
  <2>2. QED
    BY <2>1 DEF Attempts
<1>5. /\ Known(d)' = Known(d) /\ Completed(d)' = Completed(d)
      /\ CompletedAttempts(d)' = CompletedAttempts(d) /\ Judged(d)' = Judged(d)
      /\ Scheduled(d)' = Scheduled(d)
  BY <1>3, SameKnown
<1>6. Ordered(d)'
  BY <1>1, <1>4, <1>5 DEF Sound, Ordered
<1>7. CompletedAttempts(d) \subseteq Attempts(book[d])
  BY <1>1 DEF Sound, Ordered, CompletedAttempts
<1>8. VerdictsAgree(d)'
  BY <1>1, <1>3, <1>4, <1>5, <1>7 DEF Sound, VerdictsAgree, Verified
<1>9. BestOfJudged(d)' /\ PublishedBest(d)'
  BY <1>1, <1>3, <1>5 DEF Sound, BestOfJudged, PublishedBest
<1>10. ResultInv(d)'
  BY <1>3 DEF ResultInv, Absent
<1>11. QED
  BY <1>2, <1>6, <1>8, <1>9, <1>10 DEF Sound

LEMMA RegisterSound ==
  ASSUME JobInv, RegisterAttempt, NEW d \in Directories, d = dir
  PROVE  LET s == [State EXCEPT !.active = [number |-> Len(State.completed) + 1,
                                            attempt |-> Len(book[d].attempts),
                                            phase |-> "action_running"]]
         IN  /\ Saves(s) /\ pc' = "acting" /\ Sound(d)'
             /\ s.completed = State.completed /\ s.best = State.best
             /\ s.bestScore = State.bestScore /\ s.active # NoAttempt
             /\ s.active.phase = "action_running" /\ s.active.attempt = Len(book[d].attempts)
<1>1. /\ JobTypes /\ Sound(d) /\ final[d] = Absent /\ State \in States
      /\ Completed(d) = State.completed /\ Known(d).active = NoAttempt /\ State.active = NoAttempt
      /\ Known(d).best = State.best /\ Known(d).bestScore = State.bestScore
      /\ Len(State.completed) < MaxIterations /\ Len(book[d].attempts) > 0
      /\ \A i \in 1..Len(State.completed) : State.completed[i].attempt < Len(book[d].attempts)
      /\ Len(State.completed) \in Nat /\ Len(book[d].attempts) \in Nat
  BY WorkFacts, StateFields, Locals DEF RegisterAttempt, Working, JobInv, ProcessInv
<1> DEFINE active == [number |-> Len(State.completed) + 1, attempt |-> Len(book[d].attempts),
                      phase |-> "action_running"]
           s == [State EXCEPT !.active = active]
<1>2. /\ active \in ActiveAttempts /\ active # NoAttempt /\ active.phase = "action_running"
      /\ active.attempt = Len(book[d].attempts) /\ active.number = Len(State.completed) + 1
  BY <1>1 DEF ActiveAttempts, NoAttempt, Phases
<1>3. /\ s \in States /\ s.active = active /\ s.completed = State.completed
      /\ s.best = State.best /\ s.bestScore = State.bestScore
  BY <1>1, <1>2, NextStates
<1>4. Saves(s) /\ pc' = "acting"
  BY <1>1, <1>3, SavingEffect DEF RegisterAttempt, Goto, Labels
<1>5. /\ Known(d)' = s /\ Completed(d)' = Completed(d) /\ book'[d] = book[d]
      /\ verdicts'[d] = verdicts[d] /\ published'[d] = published[d] /\ final'[d] = Absent
      /\ unsteady' = unsteady
  BY <1>1, <1>3, <1>4, SavedKnown
<1>6. CompletedAttempts(d)' = CompletedAttempts(d) /\ Judged(d)' = Judged(d)
  BY <1>1, <1>2, <1>3, <1>5 DEF CompletedAttempts, Judged, NoAttempt
<1> HIDE DEF active, s
<1>7. Ordered(d)'
  <2>1. Scheduled(d)' = Len(State.completed) + 1
    BY <1>1, <1>2, <1>3, <1>5 DEF Scheduled
  <2>2. QED
    BY <1>1, <1>2, <1>3, <1>5, <2>1, JobAssumption DEF Sound, Ordered, Attempts, Phases
<1>8. VerdictsAgree(d)' /\ BestOfJudged(d)'
  BY <1>1, <1>3, <1>5, <1>6 DEF Sound, VerdictsAgree, BestOfJudged
<1>9. PublishedBest(d)' /\ ResultInv(d)'
  BY <1>1, <1>3, <1>5 DEF Sound, PublishedBest, ResultInv, NoAttempt, Absent
<1>10. Sound(d)'
  BY <1>7, <1>8, <1>9 DEF Sound
<1>11. QED
  BY <1>2, <1>3, <1>4, <1>10 DEF s, active

LEMMA CheckpointActionSound ==
  ASSUME JobInv, CheckpointAction, NEW d \in Directories, d = dir
  PROVE  LET s == Reached("action_completed")
         IN  /\ Saves(s) /\ pc' = "verifying" /\ Sound(d)'
             /\ s.completed = State.completed /\ s.best = State.best
             /\ s.bestScore = State.bestScore /\ s.active # NoAttempt
             /\ s.active.phase = "action_completed" /\ s.active.attempt = Attempt
<1> DEFINE s == Reached("action_completed")
<1>1. /\ JobTypes /\ Sound(d) /\ final[d] = Absent /\ State \in States
      /\ Completed(d) = State.completed /\ Known(d).active = State.active
      /\ Known(d).best = State.best /\ Known(d).bestScore = State.bestScore
      /\ State.active.phase = "action_running" /\ State.active # NoAttempt
  BY WorkFacts DEF CheckpointAction, Working, JobInv, ProcessInv, NoAttempt
<1>2. /\ s \in States /\ s.active.phase = "action_completed" /\ s.active.attempt = Attempt
      /\ s.active.number = State.active.number /\ s.completed = State.completed
      /\ s.best = State.best /\ s.bestScore = State.bestScore
  BY <1>1, NextStates DEF Reached, Attempt, Phases
<1>3. s.active # NoAttempt
  BY <1>2 DEF NoAttempt
<1>4. Saves(s) /\ pc' = "verifying"
  BY <1>1, <1>2, SavingEffect DEF CheckpointAction, Goto, Labels
<1>5. /\ Known(d)' = s /\ Completed(d)' = Completed(d) /\ book'[d] = book[d]
      /\ verdicts'[d] = verdicts[d] /\ published'[d] = published[d] /\ final'[d] = Absent
      /\ unsteady' = unsteady
  BY <1>1, <1>2, <1>4, SavedKnown
<1> HIDE DEF s
<1>6. CompletedAttempts(d)' = CompletedAttempts(d) /\ Judged(d)' = Judged(d)
  BY <1>1, <1>2, <1>5 DEF CompletedAttempts, Judged
<1>7. Ordered(d)'
  BY <1>1, <1>2, <1>3, <1>5 DEF Sound, Ordered, Scheduled, Attempt, Phases
<1>8. VerdictsAgree(d)' /\ BestOfJudged(d)'
  BY <1>1, <1>2, <1>5, <1>6 DEF Sound, VerdictsAgree, BestOfJudged
<1>9. PublishedBest(d)' /\ ResultInv(d)'
  BY <1>1, <1>2, <1>5 DEF Sound, PublishedBest, ResultInv, Absent
<1>10. Sound(d)'
  BY <1>7, <1>8, <1>9 DEF Sound
<1>11. QED
  BY <1>2, <1>3, <1>4, <1>10 DEF s

\* The candidate that is verified, even anew, is not judged yet.
LEMMA VerifySound ==
  ASSUME JobInv, Verify, NEW d \in Directories, d = dir
  PROVE  Sound(d)'
<1>1. /\ JobTypes /\ Sound(d) /\ final[d] = Absent /\ State \in States /\ Known(d) \in States
      /\ Completed(d) = State.completed /\ Known(d).active = State.active
      /\ Known(d).active.phase = "action_completed"
      /\ Attempt \in Numbers /\ Attempt \notin CompletedAttempts(d)
  BY WorkFacts, AttemptAtHand, AttemptFacts
  DEF Verify, Working, AtAttempt, JobInv, ProcessInv, NoAttempt
<1>2. /\ recovery'[d] = recovery[d] /\ book'[d] = book[d] /\ published'[d] = published[d]
      /\ final'[d] = Absent /\ (unsteady => unsteady')
      /\ \A a \in Numbers : a # Attempt => verdicts'[d][a] = verdicts[d][a]
      /\ verdicts'[d][Attempt] \in Verdicts
      /\ (~unsteady' /\ Verdict \in Verdicts) => verdicts'[d][Attempt] = verdicts[d][Attempt]
  BY <1>1, VerifyEffect
<1>3. Attempt = Known(d).active.attempt /\ Verdict = verdicts[d][Attempt]
  BY <1>1 DEF Attempt, Verdict
<1>4. Judged(d) = CompletedAttempts(d) /\ CompletedAttempts(d) \subseteq Numbers
  BY <1>1, StateFields DEF Judged, CompletedAttempts
<1>5. \A a \in Judged(d) : verdicts'[d][a] = verdicts[d][a]
  BY <1>1, <1>2, <1>4
<1>6. Ordered(d)'
  BY <1>1, <1>2, SameKnown DEF Sound, Ordered
<1>7. VerdictsAgree(d)' /\ BestOfJudged(d)'
  BY <1>1, <1>2, <1>4, <1>5, SameKnown DEF Sound, VerdictsAgree, BestOfJudged
<1>8. PublishedBest(d)'
  <2>1. SUFFICES ASSUME ~unsteady' PROVE PublishedBest(d)'
    BY DEF PublishedBest
  <2>2. CASE published[d] = Known(d).best
    BY <1>2, <2>2, SameKnown DEF PublishedBest
  <2>3. CASE published[d] # Known(d).best
    <3>1. /\ published[d] = Attempt /\ Verdict \in Verdicts /\ Verdict > Known(d).bestScore
      BY <1>1, <1>2, <1>3, <2>1, <2>3 DEF Sound, PublishedBest
    <3>2. verdicts'[d][Attempt] = Verdict
      BY <1>2, <1>3, <2>1, <3>1
    <3>3. QED
      BY <1>1, <1>2, <1>3, <3>1, <3>2, SameKnown DEF PublishedBest
  <2>4. QED
    BY <2>2, <2>3
<1>9. ResultInv(d)'
  BY <1>2 DEF ResultInv, Absent
<1>10. QED
  BY <1>6, <1>7, <1>8, <1>9 DEF Sound

LEMMA PublishSound ==
  ASSUME JobInv, Publish, NEW d \in Directories, d = dir
  PROVE  Sound(d)'
<1>1. /\ JobTypes /\ Sound(d) /\ final[d] = Absent /\ Known(d).active = State.active
      /\ Known(d).active.phase = "action_completed" /\ Known(d).bestScore = State.bestScore
      /\ Verdict \in Verdicts
  BY WorkFacts DEF Publish, Working, JobInv, ProcessInv
<1>2. /\ recovery'[d] = recovery[d] /\ book'[d] = book[d] /\ verdicts'[d] = verdicts[d]
      /\ final'[d] = Absent /\ unsteady' = unsteady
      /\ \/ Verdict > State.bestScore /\ published'[d] = Attempt
         \/ published'[d] = published[d]
  BY <1>1, PublishEffect
<1>3. Ordered(d)' /\ VerdictsAgree(d)' /\ BestOfJudged(d)' /\ ResultInv(d)'
  BY <1>1, <1>2, SameKnown DEF Sound, Ordered, VerdictsAgree, BestOfJudged, ResultInv, Absent
<1>4. PublishedBest(d)'
  BY <1>1, <1>2, SameKnown DEF Sound, PublishedBest, Attempt, Verdict
<1>5. QED
  BY <1>3, <1>4 DEF Sound

\* The verdict is on record with the best attempt that follows from it.
LEMMA CheckpointVerdictSound ==
  ASSUME JobInv, CheckpointVerdict, NEW d \in Directories, d = dir
  PROVE  LET s == Reached("verifier_completed")
         IN  /\ Saves(s) /\ pc' = "deciding" /\ Sound(d)'
             /\ s.completed = State.completed /\ s.best = State.best
             /\ s.bestScore = State.bestScore /\ s.active # NoAttempt
             /\ s.active.phase = "verifier_completed" /\ s.active.attempt = Attempt
<1> DEFINE s == Reached("verifier_completed")
<1>1. /\ JobTypes /\ Sound(d) /\ final[d] = Absent /\ State \in States /\ Known(d) \in States
      /\ Completed(d) = State.completed /\ Known(d).active = State.active
      /\ State.active.phase = "action_completed" /\ State.active # NoAttempt
      /\ Attempt \in Numbers /\ Verdict \in Verdicts /\ Verdict <= State.bestScore
      /\ \/ State.best = Known(d).best /\ State.bestScore = Known(d).bestScore
         \/ State.best = Attempt /\ State.bestScore = Verdict /\ Verdict > Known(d).bestScore
      /\ ~unsteady => published[d] = State.best
  BY WorkFacts, AttemptAtHand, AttemptFacts
  DEF CheckpointVerdict, Working, AtAttempt, JobInv, ProcessInv, NoAttempt
<1>2. /\ s \in States /\ s.active.phase = "verifier_completed" /\ s.active.attempt = Attempt
      /\ s.active.number = State.active.number /\ s.completed = State.completed
      /\ s.best = State.best /\ s.bestScore = State.bestScore
  BY <1>1, NextStates DEF Reached, Attempt, Phases
<1>3. s.active # NoAttempt
  BY <1>2 DEF NoAttempt
<1>4. Saves(s) /\ pc' = "deciding"
  BY <1>1, <1>2, SavingEffect DEF CheckpointVerdict, Goto, Labels
<1>5. /\ Known(d)' = s /\ Completed(d)' = Completed(d) /\ book'[d] = book[d]
      /\ verdicts'[d] = verdicts[d] /\ published'[d] = published[d] /\ final'[d] = Absent
      /\ unsteady' = unsteady
  BY <1>1, <1>2, <1>4, SavedKnown
<1> HIDE DEF s
<1>6. /\ CompletedAttempts(d)' = CompletedAttempts(d) /\ Judged(d) = CompletedAttempts(d)
      /\ Judged(d)' = Judged(d) \union {Attempt}
  BY <1>1, <1>2, <1>5 DEF CompletedAttempts, Judged
<1>7. Ordered(d)'
  BY <1>1, <1>2, <1>3, <1>5 DEF Sound, Ordered, Scheduled, Attempt, Phases
<1>8. VerdictsAgree(d)'
  BY <1>1, <1>2, <1>5, <1>6 DEF Sound, VerdictsAgree, Verdict
<1>9. BestOfJudged(d)'
  <2>1. /\ \A a \in Judged(d) : verdicts[d][a] \in Nat
        /\ State.bestScore \in Nat /\ Known(d).bestScore \in Nat /\ Verdict \in Nat
        /\ Verdict = verdicts[d][Attempt]
    BY <1>1, StateFields, JobAssumption DEF Sound, VerdictsAgree, Verdict
  <2>2. Known(d).bestScore <= State.bestScore
    BY <1>1, <2>1
  <2>3. \A a \in Judged(d) \union {Attempt} : verdicts[d][a] <= State.bestScore
    <3>1. \A a \in Judged(d) : verdicts[d][a] <= Known(d).bestScore
      BY <1>1 DEF Sound, BestOfJudged
    <3>2. QED
      BY <1>1, <2>1, <2>2, <3>1
  <2>4. \/ State.best = 0 /\ State.bestScore = 0
        \/ /\ State.best \in Judged(d) \union {Attempt}
           /\ verdicts[d][State.best] = State.bestScore /\ State.bestScore > 0
    BY <1>1, <2>1 DEF Sound, BestOfJudged
  <2>5. QED
    BY <1>2, <1>5, <1>6, <2>3, <2>4 DEF BestOfJudged
<1>10. PublishedBest(d)' /\ ResultInv(d)'
  BY <1>1, <1>2, <1>5 DEF PublishedBest, ResultInv, Absent
<1>11. Sound(d)'
  BY <1>7, <1>8, <1>9, <1>10 DEF Sound
<1>12. QED
  BY <1>2, <1>3, <1>4, <1>11 DEF s

LEMMA FinishSound ==
  ASSUME JobInv, FinishAttempt, NEW d \in Directories, d = dir
  PROVE  /\ WritesBook(WithVerdict(book[d], Attempt, Verdict)) /\ pc' = "finished"
         /\ Attempt \in Attempts(book[d]) /\ Verdict \in Verdicts /\ Sound(d)'
<1>1. /\ book[d] \in Books /\ Sound(d) /\ JobTypes /\ final[d] = Absent
      /\ Known(d).active = State.active /\ State.active.phase = "verifier_completed"
      /\ Attempt \in Attempts(book[d]) /\ Attempt \notin CompletedAttempts(d)
  BY WorkFacts, KnownStates, AttemptAtHand, AttemptFacts
  DEF FinishAttempt, Working, JobTypes, JobInv, ProcessInv, AtAttempt, Deciding
<1>2. Attempt \in Judged(d)
  BY <1>1 DEF Judged, Attempt
<1>3. Verdict = verdicts[d][Attempt] /\ Verdict \in Verdicts
  BY <1>1, <1>2 DEF Verdict, Sound, VerdictsAgree
<1>4. WritesBook(WithVerdict(book[d], Attempt, Verdict)) /\ pc' = "finished"
  BY <1>1, <1>3, BookEffect, BookUpdates DEF FinishAttempt, Goto, Labels
<1>5. /\ book'[d] = WithVerdict(book[d], Attempt, Verdict) /\ recovery'[d] = recovery[d]
      /\ verdicts'[d] = verdicts[d] /\ published'[d] = published[d] /\ final'[d] = Absent
      /\ unsteady' = unsteady
  BY <1>1, <1>4 DEF WritesBook
<1>6. /\ Attempts(book'[d]) = Attempts(book[d]) /\ book'[d].attempts[Attempt] = Verdict
      /\ \A c \in Attempts(book[d]) \ {Attempt} : book'[d].attempts[c] = book[d].attempts[c]
  BY <1>1, <1>3, <1>5, BookUpdates
<1>7. CompletedAttempts(d) \subseteq Attempts(book[d])
  BY <1>1 DEF Sound, Ordered, CompletedAttempts
<1>8. Ordered(d)'
  BY <1>1, <1>5, <1>6, SameKnown DEF Sound, Ordered
<1>9. VerdictsAgree(d)'
  BY <1>1, <1>2, <1>3, <1>5, <1>6, <1>7, SameKnown DEF Sound, VerdictsAgree, Verified
<1>10. BestOfJudged(d)' /\ PublishedBest(d)' /\ ResultInv(d)'
  BY <1>1, <1>5, SameKnown DEF Sound, BestOfJudged, PublishedBest, ResultInv, Absent
<1>11. QED
  BY <1>1, <1>3, <1>4, <1>8, <1>9, <1>10 DEF Sound

LEMMA CompleteSound ==
  ASSUME JobInv, CompleteAttempt, NEW d \in Directories, d = dir
  PROVE  \E entry \in Entries :
           /\ entry.attempt = Attempt
           /\ pc' = IF entry.stops THEN "selecting" ELSE "loop"
           /\ Saves([State EXCEPT !.completed = Append(@, entry), !.active = NoAttempt])
           /\ Sound(d)'
<1>1. /\ JobTypes /\ Sound(d) /\ final[d] = Absent /\ State \in States /\ Known(d) \in States
      /\ Completed(d) = State.completed /\ Known(d).active = State.active
      /\ Known(d).best = State.best /\ Known(d).bestScore = State.bestScore
      /\ State.active.phase = "verifier_completed" /\ State.active # NoAttempt
      /\ Attempt \in Numbers /\ Attempt \in Attempts(book[d])
      /\ book[d].attempts[Attempt] = Verdict
      /\ \A i \in 1..Len(State.completed) : State.completed[i].attempt < Attempt
  BY WorkFacts, AttemptAtHand, AttemptFacts
  DEF CompleteAttempt, Working, AtAttempt, JobInv, ProcessInv, Deciding
<1>2. PICK entry \in Entries :
        /\ entry.attempt = Attempt /\ pc' = IF entry.stops THEN "selecting" ELSE "loop"
        /\ Save([State EXCEPT !.completed = Append(@, entry), !.active = NoAttempt])
  <2>1. PICK late \in BOOLEAN :
          LET stops == SafetyStop \/ late \/ job.decision = "stop"
          IN  /\ Save([State EXCEPT !.completed = Append(@, [attempt |-> Attempt, stops |-> stops]),
                                    !.active = NoAttempt])
              /\ pc' = IF stops THEN "selecting" ELSE "loop"
    BY DEF CompleteAttempt, Goto
  <2>2. PICK stops \in BOOLEAN : stops = (SafetyStop \/ late \/ job.decision = "stop")
    OBVIOUS
  <2>3. [attempt |-> Attempt, stops |-> stops] \in Entries
    BY <1>1 DEF Entries
  <2>4. /\ Save([State EXCEPT !.completed = Append(@, [attempt |-> Attempt, stops |-> stops]),
                              !.active = NoAttempt])
        /\ pc' = IF stops THEN "selecting" ELSE "loop"
    BY <2>1, <2>2
  <2>5. QED
    BY <2>3, <2>4
<1> DEFINE s == [State EXCEPT !.completed = Append(@, entry), !.active = NoAttempt]
<1>3. /\ s \in States /\ s.active = NoAttempt /\ s.completed = Append(State.completed, entry)
      /\ s.best = State.best /\ s.bestScore = State.bestScore
  BY <1>1, NextStates
<1>4. Saves(s)
  BY <1>1, <1>2, <1>3, SavingEffect DEF CompleteAttempt, Labels
<1>5. /\ Known(d)' = s /\ Completed(d)' = Append(Completed(d), entry) /\ book'[d] = book[d]
      /\ verdicts'[d] = verdicts[d] /\ published'[d] = published[d] /\ final'[d] = Absent
      /\ unsteady' = unsteady
  BY <1>1, <1>3, <1>4, SavedKnown
<1> HIDE DEF s
<1>6. /\ Completed(d) \in Seq(Entries) /\ Len(Completed(d)) \in Nat
      /\ Len(Completed(d)') = Len(Completed(d)) + 1
      /\ Completed(d)'[Len(Completed(d)) + 1] = entry
      /\ \A i \in 1..Len(Completed(d)) : Completed(d)'[i] = Completed(d)[i]
  BY <1>1, <1>5, StateFields
<1>7. CompletedAttempts(d)' = CompletedAttempts(d) \union {Attempt}
  <2>1. CompletedAttempts(d)' = {Completed(d)'[i].attempt : i \in 1..(Len(Completed(d)) + 1)}
    BY <1>6 DEF CompletedAttempts
  <2>2. QED
    BY <1>2, <1>6, <2>1 DEF CompletedAttempts
<1>8. Judged(d)' = Judged(d) /\ Judged(d) = CompletedAttempts(d) \union {Attempt}
  BY <1>1, <1>3, <1>5, <1>7 DEF Judged, NoAttempt, Attempt
<1>9. Ordered(d)'
  <2>1. Scheduled(d)' <= MaxIterations
    BY <1>1, <1>3, <1>5, <1>6 DEF Sound, Ordered, Scheduled
  <2>2. \A i \in 1..Len(Completed(d)') :
          /\ Completed(d)'[i].attempt \in Attempts(book[d])
          /\ \A j \in 1..(i - 1) : Completed(d)'[j].attempt < Completed(d)'[i].attempt
    BY <1>1, <1>2, <1>6 DEF Sound, Ordered
  <2>3. QED
    BY <1>3, <1>5, <2>1, <2>2 DEF Ordered
<1>10. VerdictsAgree(d)' /\ BestOfJudged(d)'
  BY <1>1, <1>3, <1>5, <1>7, <1>8 DEF Sound, VerdictsAgree, BestOfJudged, Verdict
<1>11. PublishedBest(d)' /\ ResultInv(d)'
  BY <1>1, <1>3, <1>5 DEF Sound, PublishedBest, ResultInv, Absent
<1>12. Sound(d)'
  BY <1>9, <1>10, <1>11 DEF Sound
<1>13. QED
  BY <1>2, <1>4, <1>12 DEF s

LEMMA SelectSound ==
  ASSUME JobInv, Select, NEW d \in Directories, d = dir
  PROVE  /\ \E b \in Books : WritesBook(b) /\ b.attempts = book[d].attempts
         /\ pc' = "selected" /\ Sound(d)'
         /\ State.best # 0 =>
              book'[d].selected = State.best /\ book'[d].result = verdicts[d][State.best]
<1>1. /\ book[d] \in Books /\ Sound(d) /\ JobTypes /\ final[d] = Absent
      /\ Known(d).active = NoAttempt /\ State.best = Known(d).best
  BY WorkFacts, KnownStates DEF Select, Working, JobTypes, JobInv, ProcessInv
<1>2. State.best # 0 =>
        /\ State.best \in Attempts(book[d])
        /\ book[d].attempts[State.best] = verdicts[d][State.best]
  <2>1. Judged(d) = CompletedAttempts(d)
    BY <1>1 DEF Judged, NoAttempt
  <2>2. State.best # 0 => State.best \in CompletedAttempts(d)
    BY <1>1, <2>1 DEF Sound, BestOfJudged
  <2>3. CompletedAttempts(d) \subseteq Attempts(book[d])
    BY <1>1 DEF Sound, Ordered, CompletedAttempts
  <2>4. QED
    BY <1>1, <2>2, <2>3 DEF Sound, VerdictsAgree
<1>3. PICK b \in Books :
        /\ book' = [book EXCEPT ![dir] = b] /\ b.attempts = book[d].attempts
        /\ State.best # 0 => b.selected = State.best /\ b.result = verdicts[d][State.best]
  <2>1. CASE State.best = 0
    <3>1. book' = [book EXCEPT ![dir] = book[d]]
      BY <1>1, <2>1 DEF Select, JobTypes, DiskTypes
    <3>2. QED
      BY <1>1, <2>1, <3>1
  <2>2. CASE State.best # 0
    <3>1. book' = [book EXCEPT ![dir] = WithSelection(book[d], State.best)]
      BY <2>2 DEF Select
    <3>2. /\ WithSelection(book[d], State.best) \in Books
          /\ WithSelection(book[d], State.best).attempts = book[d].attempts
          /\ WithSelection(book[d], State.best).selected = State.best
          /\ WithSelection(book[d], State.best).result = verdicts[d][State.best]
      BY <1>1, <1>2, <2>2, BookUpdates
    <3>3. QED
      BY <3>1, <3>2
  <2>3. QED
    BY <2>1, <2>2
<1>4. WritesBook(b) /\ pc' = "selected"
  BY <1>1, <1>3, BookEffect DEF Select, Goto, Labels
<1>5. /\ book'[d] = b /\ recovery'[d] = recovery[d] /\ Attempts(book'[d]) = Attempts(book[d])
      /\ verdicts'[d] = verdicts[d] /\ published'[d] = published[d] /\ final'[d] = Absent
      /\ unsteady' = unsteady
  BY <1>1, <1>3, <1>4 DEF WritesBook, Attempts
<1>6. Ordered(d)' /\ VerdictsAgree(d)'
  BY <1>1, <1>3, <1>5, SameKnown DEF Sound, Ordered, VerdictsAgree, Verified
<1>7. BestOfJudged(d)' /\ PublishedBest(d)' /\ ResultInv(d)'
  BY <1>1, <1>5, SameKnown DEF Sound, BestOfJudged, PublishedBest, ResultInv, Absent
<1>8. QED
  BY <1>3, <1>4, <1>5, <1>6, <1>7 DEF Sound

\* The result that is written is what the state says, and so does the ledger.
LEMMA ResultSound ==
  ASSUME JobInv, WriteResult, NEW d \in Directories, d = dir
  PROVE  Sound(d)'
<1>1. /\ JobTypes /\ Sound(d) /\ Known(d).active = NoAttempt /\ State.best = Known(d).best
      /\ State.best # 0 =>
           book[d].selected = State.best /\ book[d].result = verdicts[d][State.best]
  BY WorkFacts DEF WriteResult, Working, JobInv, ProcessInv
<1>2. /\ recovery'[d] = recovery[d] /\ book'[d] = book[d] /\ verdicts'[d] = verdicts[d]
      /\ published'[d] = published[d] /\ unsteady' = unsteady
      /\ final'[d].selected = State.best /\ final'[d].candidate = published[d]
  BY <1>1, ResultEffect
<1>3. Ordered(d)' /\ VerdictsAgree(d)' /\ BestOfJudged(d)' /\ PublishedBest(d)'
  BY <1>1, <1>2, SameKnown DEF Sound, Ordered, VerdictsAgree, BestOfJudged, PublishedBest
<1>4. ~unsteady => published[d] = Known(d).best
  BY <1>1 DEF Sound, PublishedBest, NoAttempt
<1>5. ResultInv(d)'
  BY <1>1, <1>2, <1>4, SameKnown DEF ResultInv
<1>6. QED
  BY <1>3, <1>5 DEF Sound

\* Steps that write, in the directory at hand.
WritingStep ==
  \/ Stage \/ AddAttempt \/ RegisterAttempt \/ CheckpointAction \/ Verify \/ Publish
  \/ CheckpointVerdict \/ FinishAttempt \/ CompleteAttempt \/ Select \/ WriteResult

LEMMA WritingSound ==
  ASSUME JobInv, WritingStep, NEW d \in Directories, d = dir
  PROVE  Stays /\ exists[d] /\ exists'[d] = exists[d] /\ (unsteady => unsteady') /\ Sound(d)'
<1>1. JobTypes /\ exists[d]
  BY DEF JobInv, ProcessInv, WritingStep, Stage, AddAttempt, RegisterAttempt, CheckpointAction,
         Verify, Publish, CheckpointVerdict, FinishAttempt, CompleteAttempt, Select, WriteResult,
         Working
<1>2. CASE Stage
  BY <1>1, <1>2, StageSound DEF Saves
<1>3. CASE AddAttempt
  BY <1>1, <1>3, AddSound DEF WritesBook
<1>4. CASE RegisterAttempt
  BY <1>1, <1>4, RegisterSound DEF Saves
<1>5. CASE CheckpointAction
  BY <1>1, <1>5, CheckpointActionSound DEF Saves
<1>6. CASE Verify
  BY <1>1, <1>6, VerifySound, VerifyEffect
<1>7. CASE Publish
  <2>1. Stays /\ exists'[d] = exists[d] /\ unsteady' = unsteady /\ Sound(d)'
    BY <1>1, <1>7, PublishSound, PublishEffect
  <2>2. QED
    BY <1>1, <2>1
<1>8. CASE CheckpointVerdict
  BY <1>1, <1>8, CheckpointVerdictSound DEF Saves
<1>9. CASE FinishAttempt
  BY <1>1, <1>9, FinishSound DEF WritesBook
<1>10. CASE CompleteAttempt
  BY <1>1, <1>10, CompleteSound DEF Saves
<1>11. CASE Select
  BY <1>1, <1>11, SelectSound DEF WritesBook
<1>12. CASE WriteResult
  <2>1. Stays /\ exists'[d] = exists[d] /\ unsteady' = unsteady /\ Sound(d)'
    BY <1>1, <1>12, ResultSound, ResultEffect
  <2>2. QED
    BY <1>1, <2>1
<1>13. QED
  BY <1>2, <1>3, <1>4, <1>5, <1>6, <1>7, <1>8, <1>9, <1>10, <1>11, <1>12 DEF WritingStep

ReadingStep ==
  \/ ReturnResult \/ RaiseOnTornResult \/ ContinueAttempt \/ ExhaustLoop
  \/ Act \/ RecoverDecision \/ Ask \/ GiveUp

LEMMA Steps ==
  ASSUME Next
  PROVE  ReadingStep \/ Resume \/ Open \/ WritingStep \/ Crash \/ Tear
BY DEF Next, JobStep, ReadingStep, WritingStep

LEMMA SoundKept ==
  ASSUME JobInv, [Next]_vars
  PROVE  JobTypes' /\ \A d \in Directories : Sound(d)' /\ (~exists'[d] => Untouched(d)')
<1>1. /\ JobTypes /\ dir \in Directories
      /\ \A d \in Directories : Sound(d) /\ (~exists[d] => Untouched(d))
  BY DEF JobInv, JobTypes, LocalTypes
<1>2. ASSUME NEW d \in Directories, Kept(d), unsteady => unsteady'
      PROVE  Sound(d)' /\ (~exists'[d] => Untouched(d)')
  BY <1>1, <1>2, SameSound DEF Kept, Untouched
<1>3. CASE ReadingStep
  BY <1>2, <1>3, ReadingEffect DEF ReadingStep, Reads, Stays
<1>4. CASE Resume
  BY <1>1, <1>2, <1>4, ResumeEffect
<1>5. CASE Open
  BY <1>1, <1>5, OpenEffect, SameSound DEF Untouched
<1>6. CASE WritingStep
  <2>1. ASSUME NEW d \in Directories
        PROVE  Sound(d)' /\ (~exists'[d] => Untouched(d)')
    <3>1. CASE d = dir
      BY <1>6, <3>1, WritingSound
    <3>2. CASE d # dir
      BY <1>1, <1>2, <1>6, <3>2, WritingSound DEF Stays
    <3>3. QED
      BY <3>1, <3>2
  <2>2. QED
    BY <1>1, <1>6, <2>1, WritingSound DEF Stays
<1>7. CASE Crash \/ Tear
  <2>1. ASSUME NEW d \in Directories
        PROVE  Sound(d)' /\ (~exists'[d] => Untouched(d)')
    <3>1. final'[d] = final[d] \/ (exists[d] /\ final'[d].kind # "result")
      BY <1>1, <1>7, DeathEffect DEF JobInv, ProcessInv, Working
    <3>2. Sound(d)'
      BY <1>1, <1>7, <3>1, DeathEffect, SameSound
    <3>3. ~exists'[d] => Untouched(d)'
      BY <1>1, <1>7, <3>1, DeathEffect DEF Untouched
    <3>4. QED
      BY <3>2, <3>3
  <2>2. QED
    BY <1>1, <1>7, <2>1, DeathEffect
<1>8. CASE UNCHANGED vars
  <2>1. JobTypes'
    BY <1>1, <1>8 DEF vars, disk, JobTypes, DiskTypes, LocalTypes
  <2>2. \A d \in Directories : Kept(d)
    BY <1>8 DEF vars, disk, Kept
  <2>3. QED
    BY <1>2, <1>8, <2>1, <2>2 DEF vars
<1>9. QED
  BY <1>3, <1>4, <1>5, <1>6, <1>7, <1>8, Steps

-----------------------------------------------------------------------------
(* What the process knows stays true *)

\* Where the process goes after reading, it finds what it needs.
LEMMA ReadingProcess ==
  ASSUME JobInv, ReadingStep
  PROVE  ProcessInv'
<1>1. Reads /\ dir \in Directories
  BY ReadingEffect DEF ReadingStep, JobInv, JobTypes, LocalTypes
<1>2. /\ dir' = dir /\ exists'[dir] = exists[dir] /\ recovery'[dir] = recovery[dir]
      /\ book'[dir] = book[dir] /\ verdicts'[dir] = verdicts[dir]
      /\ published'[dir] = published[dir] /\ final'[dir] = final[dir]
      /\ State' = job'.state /\ State'.completed = State.completed /\ State'.active = State.active
      /\ State'.best = State.best /\ State'.bestScore = State.bestScore
  BY <1>1 DEF Reads, Stays, Kept, State
<1>3. CASE pc = "off" /\ pc' \in {"done", "raised"}
  BY <1>3 DEF ProcessInv, Working
<1>4. CASE pc = "loop"
  <2>1. /\ pc' \in {"acting", "verifying", "deciding", "selecting"}
        /\ pc' = "acting" => State.active.phase = "action_running"
        /\ pc' = "verifying" => State.active.phase = "action_completed"
        /\ pc' = "deciding" => State.active.phase = "verifier_completed"
        /\ pc' = "selecting" => State.active = NoAttempt
    <3>1. CASE State.active = NoAttempt
      BY <1>4, <3>1, ReadingEffect DEF ReadingStep
    <3>2. CASE State.active # NoAttempt
      <4>1. State.active.phase \in Phases /\ pc' = PhaseLabel(State.active.phase)
        BY <1>4, <3>2, AttemptFacts, ReadingEffect DEF ReadingStep, Working
      <4>2. QED
        BY <4>1 DEF PhaseLabel, Phases
    <3>3. QED
      BY <3>1, <3>2
  <2>2. /\ exists[dir] /\ recovery[dir] # Absent /\ final[dir] = Absent
        /\ State.completed = recovery[dir].completed /\ State.active = recovery[dir].active
        /\ State.best = recovery[dir].best /\ State.bestScore = recovery[dir].bestScore
    BY <1>4 DEF JobInv, ProcessInv, Working
  <2>3. QED
    BY <1>2, <2>1, <2>2 DEF ProcessInv, Working, Deciding
<1>5. CASE pc = "acting" /\ pc' = "acted"
  BY <1>2, <1>5 DEF JobInv, ProcessInv, Working, Deciding
<1>6. CASE pc = "deciding" /\ pc' \in {"deciding", "finishing"}
  BY <1>2, <1>6 DEF JobInv, ProcessInv, Working, Deciding
<1>7. QED
  BY <1>3, <1>4, <1>5, <1>6, ReadingEffect DEF ReadingStep

LEMMA EntryProcess ==
  ASSUME JobInv, Resume \/ Open
  PROVE  ProcessInv'
<1>1. JobTypes /\ \A d \in Directories : ~exists[d] => Untouched(d)
  BY DEF JobInv
<1>2. CASE Resume
  <2>1. /\ dir' = 0 /\ pc' = "loop" /\ State' = recovery[0] /\ exists[0]
        /\ recovery[0] # Absent /\ final[0] = Absent
        /\ recovery'[0] = recovery[0] /\ final'[0] = final[0] /\ exists'[0] = exists[0]
    BY <1>1, <1>2, ResumeEffect DEF State, Kept, Untouched
  <2>2. QED
    BY <2>1 DEF ProcessInv, Working, Deciding
<1>3. CASE Open
  <2>1. PICK d \in Directories : d = dir'
    BY <1>1, <1>3, OpenEffect
  <2>2. exists'[d] /\ Untouched(d) /\ pc' = "staging"
    BY <1>1, <1>3, <2>1, OpenEffect
  <2>3. recovery'[d] = Absent /\ book'[d] = EmptyBook /\ published'[d] = 0 /\ final'[d] = Absent
    BY <1>1, <1>3, <2>2, OpenEffect DEF Untouched
  <2>4. QED
    BY <2>1, <2>2, <2>3 DEF ProcessInv, Untouched, Working
<1>4. QED
  BY <1>2, <1>3

LEMMA SavingProcess ==
  ASSUME JobInv, Stage \/ RegisterAttempt \/ CheckpointAction \/ CheckpointVerdict \/ CompleteAttempt
  PROVE  ProcessInv'
<1>1. dir \in Directories /\ JobTypes
  BY DEF JobInv, JobTypes, LocalTypes
<1>2. ASSUME NEW s \in States, Saves(s), Working \/ pc = "staging"
      PROVE  /\ dir' = dir /\ State' = s /\ recovery'[dir] = s /\ s # Absent
             /\ exists'[dir] /\ final'[dir] = Absent /\ book'[dir] = book[dir]
             /\ verdicts'[dir] = verdicts[dir]
  BY <1>1, <1>2, FreshState DEF Saves, Stays, State, JobInv, ProcessInv, Untouched
<1>3. CASE Stage
  <2>1. /\ dir' = dir /\ State' = Fresh /\ recovery'[dir] = Fresh /\ Fresh # Absent
        /\ exists'[dir] /\ final'[dir] = Absent /\ pc' = "loop"
    BY <1>1, <1>2, <1>3, StageSound, FreshState DEF Stage
  <2>2. QED
    BY <2>1 DEF ProcessInv, Working, Deciding
<1>4. CASE RegisterAttempt
  <2> DEFINE s == [State EXCEPT !.active = [number |-> Len(State.completed) + 1,
                                            attempt |-> Len(book[dir].attempts),
                                            phase |-> "action_running"]]
  <2>1. Saves(s) /\ pc' = "acting" /\ s.active.phase = "action_running" /\ s \in States
    BY <1>1, <1>4, RegisterSound DEF Saves
  <2>2. /\ dir' = dir /\ State' = s /\ recovery'[dir] = s /\ s # Absent
        /\ exists'[dir] /\ final'[dir] = Absent
    BY <1>2, <1>4, <2>1 DEF RegisterAttempt, Working
  <2> HIDE DEF s
  <2>3. QED
    BY <2>1, <2>2 DEF ProcessInv, Working, Deciding
<1>5. CASE CheckpointAction
  <2> DEFINE s == Reached("action_completed")
  <2>1. Saves(s) /\ pc' = "verifying" /\ s.active.phase = "action_completed" /\ s \in States
    BY <1>1, <1>5, CheckpointActionSound DEF Saves
  <2>2. /\ dir' = dir /\ State' = s /\ recovery'[dir] = s /\ s # Absent
        /\ exists'[dir] /\ final'[dir] = Absent
    BY <1>2, <1>5, <2>1 DEF CheckpointAction, Working
  <2> HIDE DEF s
  <2>3. QED
    BY <2>1, <2>2 DEF ProcessInv, Working, Deciding
<1>6. CASE CheckpointVerdict
  <2> DEFINE s == Reached("verifier_completed")
  <2>1. Saves(s) /\ pc' = "deciding" /\ s.active.phase = "verifier_completed" /\ s \in States
    BY <1>1, <1>6, CheckpointVerdictSound DEF Saves
  <2>2. /\ dir' = dir /\ State' = s /\ recovery'[dir] = s /\ s # Absent
        /\ exists'[dir] /\ final'[dir] = Absent
    BY <1>2, <1>6, <2>1 DEF CheckpointVerdict, Working
  <2> HIDE DEF s
  <2>3. QED
    BY <2>1, <2>2 DEF ProcessInv, Working, Deciding
<1>7. CASE CompleteAttempt
  <2>1. PICK entry \in Entries :
          /\ pc' = IF entry.stops THEN "selecting" ELSE "loop"
          /\ Saves([State EXCEPT !.completed = Append(@, entry), !.active = NoAttempt])
    BY <1>1, <1>7, CompleteSound
  <2> DEFINE s == [State EXCEPT !.completed = Append(@, entry), !.active = NoAttempt]
  <2>2. s \in States /\ s.active = NoAttempt
    BY <1>1, NextStates, Locals
  <2>3. /\ dir' = dir /\ State' = s /\ recovery'[dir] = s /\ s # Absent
        /\ exists'[dir] /\ final'[dir] = Absent
    BY <1>2, <1>7, <2>1, <2>2 DEF CompleteAttempt, Working
  <2> HIDE DEF s
  <2>4. QED
    BY <2>1, <2>2, <2>3 DEF ProcessInv, Working, Deciding
<1>8. QED
  BY <1>3, <1>4, <1>5, <1>6, <1>7

LEMMA BookProcess ==
  ASSUME JobInv, AddAttempt \/ FinishAttempt \/ Select
  PROVE  ProcessInv'
<1>1. dir \in Directories /\ JobTypes
  BY DEF JobInv, JobTypes, LocalTypes
<1>2. /\ exists[dir] /\ recovery[dir] # Absent /\ final[dir] = Absent
      /\ State.completed = recovery[dir].completed /\ State.active = recovery[dir].active
      /\ State.best = recovery[dir].best /\ State.bestScore = recovery[dir].bestScore
  BY DEF AddAttempt, FinishAttempt, Select, JobInv, ProcessInv, Working
<1>3. ASSUME NEW b \in Books, WritesBook(b)
      PROVE  /\ dir' = dir /\ State' = State /\ recovery'[dir] = recovery[dir]
             /\ exists'[dir] = exists[dir] /\ final'[dir] = final[dir] /\ book'[dir] = b
             /\ verdicts'[dir] = verdicts[dir]
  BY <1>3 DEF WritesBook, Stays, State
<1>4. CASE AddAttempt
  <2>1. WritesBook(WithAttempt(book[dir])) /\ pc' = "added" /\ WithAttempt(book[dir]) \in Books
    BY <1>1, <1>4, AddSound DEF WritesBook
  <2>2. /\ dir' = dir /\ State' = State /\ recovery'[dir] = recovery[dir]
        /\ exists'[dir] = exists[dir] /\ final'[dir] = final[dir]
    BY <1>3, <2>1
  <2>3. Len(book'[dir].attempts) = Len(book[dir].attempts) + 1
    BY <1>1, <1>3, <2>1, BookUpdates, Locals
  <2>4. \A i \in 1..Len(State.completed) :
          /\ State.completed[i].attempt \in Nat
          /\ State.completed[i].attempt <= Len(book[dir].attempts)
    <3>1. Sound(dir) /\ Completed(dir) = State.completed /\ State \in States
      BY <1>1, <1>4, WorkFacts DEF AddAttempt, Working
    <3>2. QED
      BY <3>1, StateFields DEF Sound, Ordered, Attempts, Numbers
  <2>5. \A i \in 1..Len(State.completed) :
          State.completed[i].attempt < Len(book'[dir].attempts)
    BY <1>1, <2>3, <2>4, Locals
  <2>6. /\ State.active = NoAttempt /\ Len(State.completed) < MaxIterations
        /\ Len(book'[dir].attempts) > 0
    BY <1>1, <1>4, <2>3, Locals DEF AddAttempt
  <2>7. QED
    BY <1>2, <2>1, <2>2, <2>5, <2>6 DEF ProcessInv, Working, Deciding
<1>5. CASE FinishAttempt
  <2>1. /\ WritesBook(WithVerdict(book[dir], Attempt, Verdict)) /\ pc' = "finished"
        /\ Attempt \in Attempts(book[dir]) /\ Verdict \in Verdicts
    BY <1>1, <1>5, FinishSound
  <2>2. /\ WithVerdict(book[dir], Attempt, Verdict) \in Books
        /\ WithVerdict(book[dir], Attempt, Verdict).attempts[Attempt] = Verdict
    BY <1>1, <2>1, BookUpdates, Locals
  <2>3. /\ dir' = dir /\ State' = State /\ recovery'[dir] = recovery[dir]
        /\ exists'[dir] = exists[dir] /\ final'[dir] = final[dir]
        /\ book'[dir].attempts[Attempt] = Verdict
        /\ verdicts'[dir] = verdicts[dir]
    BY <1>3, <2>1, <2>2
  <2>4. Attempt' = Attempt /\ Verdict' = Verdict
    BY <2>3 DEF Attempt, Verdict
  <2>5. State.active.phase = "verifier_completed"
    BY <1>5 DEF FinishAttempt, JobInv, ProcessInv, Working, Deciding
  <2>6. QED
    BY <1>2, <2>1, <2>3, <2>4, <2>5 DEF ProcessInv, Working, Deciding
<1>6. CASE Select
  <2>1. PICK b \in Books : WritesBook(b) /\ b.attempts = book[dir].attempts
    BY <1>1, <1>6, SelectSound
  <2>2. /\ pc' = "selected"
        /\ State.best # 0 =>
             book'[dir].selected = State.best /\ book'[dir].result = verdicts[dir][State.best]
    BY <1>1, <1>6, SelectSound
  <2>3. /\ dir' = dir /\ State' = State /\ recovery'[dir] = recovery[dir]
        /\ exists'[dir] = exists[dir] /\ final'[dir] = final[dir]
        /\ verdicts'[dir] = verdicts[dir]
    BY <1>3, <2>1
  <2>4. State.active = NoAttempt
    BY <1>6 DEF Select, JobInv, ProcessInv, Working
  <2>5. QED
    BY <1>2, <2>2, <2>3, <2>4 DEF ProcessInv, Working, Deciding
<1>7. QED
  BY <1>4, <1>5, <1>6

LEMMA VerifyProcess ==
  ASSUME JobInv, Verify
  PROVE  ProcessInv'
<1>1. /\ Stays /\ pc = "verifying" /\ pc' = "verified" /\ job' = job
      /\ exists'[dir] = exists[dir] /\ recovery'[dir] = recovery[dir]
      /\ final'[dir] = final[dir] /\ verdicts'[dir][Attempt] \in Verdicts
  BY VerifyEffect
<1>2. State' = State /\ Attempt' = Attempt /\ dir' = dir /\ Verdict' \in Verdicts
  BY <1>1 DEF State, Attempt, Verdict, Stays
<1>3. QED
  BY <1>1, <1>2 DEF JobInv, ProcessInv, Working, Deciding

LEMMA PublishProcess ==
  ASSUME JobInv, Publish
  PROVE  ProcessInv'
<1>1. /\ Stays /\ pc = "verified" /\ pc' = "judged" /\ unsteady' = unsteady
      /\ exists'[dir] = exists[dir] /\ recovery'[dir] = recovery[dir]
      /\ verdicts'[dir] = verdicts[dir] /\ final'[dir] = final[dir]
      /\ job'.state.completed = State.completed /\ job'.state.active = State.active
      /\ \/ /\ Verdict > State.bestScore /\ published'[dir] = Attempt
            /\ job'.state.best = Attempt /\ job'.state.bestScore = Verdict
         \/ /\ ~(Verdict > State.bestScore) /\ published'[dir] = published[dir]
            /\ job'.state.best = State.best /\ job'.state.bestScore = State.bestScore
  BY PublishEffect
<1>2. /\ State' = job'.state /\ Attempt' = Attempt /\ dir' = dir /\ Verdict' = Verdict
  BY <1>1 DEF State, Attempt, Verdict, Stays
<1>3. /\ exists[dir] /\ recovery[dir] # Absent /\ final[dir] = Absent
      /\ State.completed = recovery[dir].completed /\ State.active = recovery[dir].active
      /\ State.best = recovery[dir].best /\ State.bestScore = recovery[dir].bestScore
      /\ State.active.phase = "action_completed" /\ Verdict \in Verdicts
      /\ dir \in Directories /\ JobTypes /\ Sound(dir) /\ State \in States
  BY <1>1, WorkFacts DEF JobInv, ProcessInv, Working, JobTypes, LocalTypes
<1>4. Verdict \in Nat /\ State.bestScore \in Nat
  BY <1>3, StateFields, JobAssumption
\* No better: what is published stays the best, for it cannot be the candidate at hand.
<1>5. (~unsteady /\ ~(Verdict > State.bestScore)) => published[dir] = State.best
  <2>1. Known(dir) = recovery[dir]
    BY <1>3, KnownStates DEF JobTypes
  <2>2. QED
    BY <1>3, <1>4, <2>1 DEF Sound, PublishedBest, Attempt, Verdict
<1>6. \/ /\ State'.best = recovery[dir].best /\ State'.bestScore = recovery[dir].bestScore
         /\ Verdict <= State'.bestScore /\ (~unsteady => published'[dir] = State'.best)
      \/ /\ State'.best = Attempt /\ State'.bestScore = Verdict
         /\ Verdict > recovery[dir].bestScore /\ Verdict <= State'.bestScore
         /\ published'[dir] = State'.best
  BY <1>1, <1>2, <1>3, <1>4, <1>5
<1>7. QED
  BY <1>1, <1>2, <1>3, <1>6 DEF ProcessInv, Working, Deciding

LEMMA ProcessKept ==
  ASSUME JobInv, [Next]_vars
  PROVE  ProcessInv'
<1>1. CASE ReadingStep
  BY <1>1, ReadingProcess
<1>2. CASE Resume \/ Open
  BY <1>2, EntryProcess
<1>3. CASE WritingStep
  <2>1. CASE WriteResult
    BY <2>1 DEF WriteResult, Goto, ProcessInv, Working
  <2>2. QED
    BY <1>3, <2>1, SavingProcess, BookProcess, VerifyProcess, PublishProcess DEF WritingStep
<1>4. CASE Crash \/ Tear
  <2>1. pc' = "off"
    BY <1>4, DeathEffect DEF JobInv
  <2>2. QED
    BY <2>1 DEF ProcessInv, Working
<1>5. CASE UNCHANGED vars
  <2>1. /\ exists' = exists /\ recovery' = recovery /\ book' = book /\ verdicts' = verdicts
        /\ published' = published /\ final' = final /\ pc' = pc /\ dir' = dir /\ job' = job
        /\ unsteady' = unsteady
    BY <1>5 DEF vars, disk
  <2>2. State' = State /\ Attempt' = Attempt /\ Verdict' = Verdict
    BY <2>1 DEF State, Attempt, Verdict
  <2>3. QED
    BY <2>1, <2>2 DEF JobInv, ProcessInv, Working, Untouched
<1>6. QED
  BY <1>1, <1>2, <1>3, <1>4, <1>5, Steps

-----------------------------------------------------------------------------
(* What deaths cost *)

LEMMA CountKept ==
  ASSUME JobInv, JobTypes', [Next]_vars
  PROVE  CountInv'
<1> SUFFICES ASSUME NEW d \in Directories
             PROVE  Len(book'[d].attempts)
                      <= Len(Completed(d)') + crashes' + (IF Pending(d)' THEN 1 ELSE 0)
  BY DEF CountInv
<1>1. /\ Len(book[d].attempts) <= Len(Completed(d)) + crashes + (IF Pending(d) THEN 1 ELSE 0)
      /\ Len(book[d].attempts) \in Nat /\ Len(Completed(d)) \in Nat /\ crashes \in Nat
      /\ JobTypes /\ Known(d) \in States /\ dir \in Directories
  BY KnownStates, StateFields, Locals DEF JobInv, CountInv, JobTypes, Completed
<1>2. ASSUME book'[d] = book[d], recovery'[d] = recovery[d], crashes' = crashes,
             Pending(d)' <=> Pending(d)
      PROVE  Len(book'[d].attempts)
               <= Len(Completed(d)') + crashes' + (IF Pending(d)' THEN 1 ELSE 0)
  BY <1>1, <1>2, SameKnown
<1>3. ASSUME book'[d] = book[d], recovery'[d] = recovery[d], crashes' = crashes,
             ~(pc' = "added" /\ dir' = d), ~(pc = "added" /\ dir = d)
      PROVE  Len(book'[d].attempts)
               <= Len(Completed(d)') + crashes' + (IF Pending(d)' THEN 1 ELSE 0)
  BY <1>2, <1>3, SameKnown DEF Pending
<1>4. CASE ReadingStep
  <2>1. Kept(d) /\ crashes' = crashes /\ pc # "added" /\ pc' # "added"
    BY <1>1, <1>4, ReadingEffect DEF ReadingStep, Reads, Stays
  <2>2. QED
    BY <1>3, <2>1 DEF Kept
<1>5. CASE Resume \/ Open
  BY <1>1, <1>3, <1>5, ResumeEffect, OpenEffect DEF Kept
<1>6. CASE Crash \/ Tear
  <2>1. /\ book'[d] = book[d] /\ recovery'[d] = recovery[d] /\ crashes' = crashes + 1
    BY <1>1, <1>6, DeathEffect
  <2>2. Completed(d)' = Completed(d)
    BY <2>1, SameKnown
  <2>3. QED
    BY <1>1, <2>1, <2>2
<1>7. CASE WritingStep /\ d # dir
  BY <1>3, <1>7, WritingSound, <1>1 DEF Stays, Kept
<1>8. CASE WritingStep /\ d = dir
  <2>1. dir' = d /\ crashes' = crashes
    BY <1>8, WritingSound DEF Stays
  <2>2. CASE Stage
    <3>1. book'[d].attempts = <<>>
      BY <1>8, <2>2, StageSound DEF Saves, Stage, JobInv, ProcessInv, Untouched, EmptyBook
    <3>2. Len(Completed(d)') \in Nat
      BY <1>1, <1>8, <2>2, StageSound, SavedKnown DEF Fresh
    <3>3. QED
      BY <1>1, <2>1, <3>1, <3>2
  <2>3. CASE AddAttempt
    <3>1. /\ Len(book'[d].attempts) = Len(book[d].attempts) + 1 /\ recovery'[d] = recovery[d]
          /\ pc' = "added"
      BY <1>1, <1>8, <2>3, AddSound, BookUpdates, KnownStates DEF WritesBook, JobTypes
    <3>2. ~Pending(d)
      BY <1>8, <2>3, WorkFacts DEF AddAttempt, Working, Pending
    <3>3. Pending(d)' /\ Completed(d)' = Completed(d)
      BY <2>1, <3>1, SameKnown DEF Pending
    <3>4. QED
      BY <1>1, <2>1, <3>1, <3>2, <3>3
  <2>4. CASE RegisterAttempt
    <3> DEFINE s == [State EXCEPT !.active = [number |-> Len(State.completed) + 1,
                                              attempt |-> Len(book[d].attempts),
                                              phase |-> "action_running"]]
    <3>1. Saves(s) /\ s.active # NoAttempt /\ s.completed = State.completed
      BY <1>8, <2>4, RegisterSound
    <3> HIDE DEF s
    <3>2. Pending(d)' /\ Completed(d)' = Completed(d) /\ book'[d] = book[d]
      BY <1>8, <2>4, <3>1, SavedKnown, WorkFacts DEF Pending, RegisterAttempt, Working
    <3>3. QED
      BY <1>1, <2>1, <3>2
  <2>5. CASE CheckpointAction \/ CheckpointVerdict
    <3>1. PICK s \in States : Saves(s) /\ s.active # NoAttempt /\ s.completed = State.completed
      BY <1>8, <2>5, CheckpointActionSound, CheckpointVerdictSound DEF Saves
    <3>2. Pending(d)' /\ Completed(d)' = Completed(d) /\ book'[d] = book[d]
      BY <1>8, <2>5, <3>1, SavedKnown, WorkFacts
      DEF Pending, CheckpointAction, CheckpointVerdict, Working
    <3>3. QED
      BY <1>1, <2>1, <3>2
  <2>6. CASE CompleteAttempt
    <3>1. PICK entry \in Entries :
            Saves([State EXCEPT !.completed = Append(@, entry), !.active = NoAttempt])
      BY <1>8, <2>6, CompleteSound
    <3> DEFINE s == [State EXCEPT !.completed = Append(@, entry), !.active = NoAttempt]
    <3>2. s.completed = Append(Completed(d), entry)
      <4>1. Completed(d) = State.completed /\ State \in States
        BY <1>8, <2>6, WorkFacts DEF CompleteAttempt, Working
      <4>2. s \in States /\ s.completed = Append(State.completed, entry)
        BY <4>1, NextStates
      <4>3. QED
        BY <4>1, <4>2
    <3> HIDE DEF s
    <3>3. Completed(d)' = Append(Completed(d), entry) /\ book'[d] = book[d]
      BY <1>8, <3>1, <3>2, SavedKnown DEF s
    <3>4. Len(Completed(d)') = Len(Completed(d)) + 1
      BY <1>1, <3>3, StateFields DEF Completed
    <3>5. QED
      BY <1>1, <2>1, <3>3, <3>4
  <2>7. CASE Verify \/ Publish \/ WriteResult
    BY <1>3, <1>8, <2>1, <2>7, VerifyEffect, PublishEffect, ResultEffect DEF JobInv
  <2>8. CASE FinishAttempt \/ Select
    <3>1. /\ Len(book'[d].attempts) = Len(book[d].attempts) /\ recovery'[d] = recovery[d]
          /\ pc \in {"finishing", "selecting"} /\ pc' \in {"finished", "selected"}
      <4>1. CASE FinishAttempt
        BY <1>1, <1>8, <4>1, FinishSound, BookUpdates, KnownStates
        DEF WritesBook, JobTypes, FinishAttempt
      <4>2. CASE Select
        BY <1>8, <4>2, SelectSound DEF WritesBook, Select
      <4>3. QED
        BY <2>8, <4>1, <4>2
    <3>2. Completed(d)' = Completed(d) /\ (Pending(d)' <=> Pending(d))
      BY <2>1, <3>1, SameKnown DEF Pending
    <3>3. QED
      BY <1>1, <2>1, <3>1, <3>2
  <2>9. QED
    BY <1>8, <2>2, <2>3, <2>4, <2>5, <2>6, <2>7, <2>8 DEF WritingStep
<1>9. CASE UNCHANGED vars
  BY <1>2, <1>9, SameKnown DEF vars, disk, Pending
<1>10. QED
  BY <1>4, <1>5, <1>6, <1>7, <1>8, <1>9, Steps

LEMMA OverruledFinite ==
  ASSUME NEW d \in Directories, Known(d) \in States
  PROVE  /\ Overruled(d) \subseteq 1..Len(Completed(d)) /\ Len(Completed(d)) \in Nat
         /\ IsFiniteSet(Overruled(d)) /\ Cardinality(Overruled(d)) \in Nat
<1>1. Len(Completed(d)) \in Nat
  BY StateFields DEF Completed
<1>2. Overruled(d) \subseteq 1..Len(Completed(d))
  BY DEF Overruled
<1>3. IsFiniteSet(1..Len(Completed(d)))
  BY <1>1, FS_Interval
<1>4. QED
  BY <1>1, <1>2, <1>3, FS_Subset, FS_CardinalityType

LEMMA StopKept ==
  ASSUME JobInv, JobTypes', [Next]_vars
  PROVE  StopInv'
<1> SUFFICES ASSUME NEW d \in Directories
             PROVE  Cardinality(Overruled(d)') + (IF Stopped(d)' THEN 1 ELSE 0) <= crashes'
  BY DEF StopInv
<1>1. /\ Cardinality(Overruled(d)) + (IF Stopped(d) THEN 1 ELSE 0) <= crashes
      /\ Cardinality(Overruled(d)) \in Nat /\ IsFiniteSet(Overruled(d))
      /\ Len(Completed(d)) \in Nat /\ crashes \in Nat
      /\ JobTypes /\ Known(d) \in States /\ dir \in Directories
  BY KnownStates, OverruledFinite, Locals DEF JobInv, StopInv, JobTypes
<1>2. ASSUME recovery'[d] = recovery[d], crashes' = crashes,
             (pc \in {"selecting", "selected", "done"} /\ dir = d)
                => (pc' \in {"selecting", "selected", "done"} /\ dir' = d)
      PROVE  Cardinality(Overruled(d)') + (IF Stopped(d)' THEN 1 ELSE 0) <= crashes'
  <2>1. Overruled(d)' = Overruled(d) /\ (Stopped(d)' => Stopped(d))
    BY <1>2, SameKnown DEF Stopped
  <2>2. QED
    BY <1>1, <1>2, <2>1
<1>3. CASE ReadingStep
  <2>1. /\ Kept(d) /\ crashes' = crashes /\ pc \notin {"selecting", "selected", "done"}
    BY <1>1, <1>3, ReadingEffect DEF ReadingStep, Reads, Stays
  <2>2. QED
    BY <1>2, <2>1 DEF Kept
<1>4. CASE Resume \/ Open
  BY <1>1, <1>2, <1>4, ResumeEffect, OpenEffect DEF Kept
<1>5. CASE Crash \/ Tear
  <2>1. recovery'[d] = recovery[d] /\ crashes' = crashes + 1
    BY <1>1, <1>5, DeathEffect
  <2>2. Overruled(d)' = Overruled(d)
    BY <2>1, SameKnown
  <2>3. QED
    BY <1>1, <2>1, <2>2
<1>6. CASE WritingStep /\ d # dir
  BY <1>1, <1>2, <1>6, WritingSound DEF Stays, Kept
<1>7. CASE WritingStep /\ d = dir
  <2>1. dir' = d /\ crashes' = crashes
    BY <1>7, WritingSound DEF Stays
  <2>2. CASE Stage
    <3>1. Completed(d)' = <<>>
      BY <1>7, <2>2, StageSound, SavedKnown DEF Fresh
    <3>2. Overruled(d)' = {} /\ ~Stopped(d)'
      BY <3>1 DEF Overruled, Stopped
    <3>3. QED
      BY <1>1, <2>1, <3>2, FS_EmptySet
\* What was stopped goes on: the death that this cost is on the other side of the account now.
  <2>3. CASE RegisterAttempt
    <3> DEFINE s == [State EXCEPT !.active = [number |-> Len(State.completed) + 1,
                                              attempt |-> Len(book[d].attempts),
                                              phase |-> "action_running"]]
               last == Len(Completed(d))
    <3>1. Saves(s) /\ s.active # NoAttempt /\ s.completed = State.completed
      BY <1>7, <2>3, RegisterSound
    <3> HIDE DEF s
    <3>2. /\ Completed(d)' = Completed(d) /\ Known(d)'.active # NoAttempt
          /\ Known(d).active = NoAttempt /\ Completed(d) = State.completed
      BY <1>7, <2>3, <3>1, SavedKnown, WorkFacts
      DEF RegisterAttempt, Working, JobInv, ProcessInv
    <3>3. /\ Overruled(d) = {i \in 1..last : Completed(d)[i].stops /\ i < last}
          /\ Overruled(d)' = {i \in 1..last : Completed(d)[i].stops /\ i < last + 1}
      BY <1>1, <3>2 DEF Overruled, Scheduled
    <3>4. ~Stopped(d)'
      BY <3>2 DEF Stopped
    <3>5. CASE last > 0 /\ Completed(d)[last].stops
      <4>1. Stopped(d)
        BY <1>1, <2>3, <3>2, <3>5 DEF Stopped, RegisterAttempt
      <4>2. Overruled(d)' = Overruled(d) \union {last} /\ last \notin Overruled(d)
        BY <1>1, <3>3, <3>5
      <4>3. Cardinality(Overruled(d)') = Cardinality(Overruled(d)) + 1
        BY <1>1, <4>2, FS_AddElement
      <4>4. QED
        BY <1>1, <2>1, <3>4, <4>1, <4>3
    <3>6. CASE ~(last > 0 /\ Completed(d)[last].stops)
      <4>1. Overruled(d)' = Overruled(d)
        BY <1>1, <3>3, <3>6
      <4>2. QED
        BY <1>1, <2>1, <3>4, <4>1
    <3>7. QED
      BY <3>5, <3>6
  <2>4. CASE CheckpointAction \/ CheckpointVerdict
    <3>1. PICK s \in States : Saves(s) /\ s.active # NoAttempt /\ s.completed = State.completed
      BY <1>7, <2>4, CheckpointActionSound, CheckpointVerdictSound DEF Saves
    <3>2. /\ Completed(d)' = Completed(d) /\ Known(d)'.active # NoAttempt
          /\ Known(d).active # NoAttempt
      BY <1>7, <2>4, <3>1, SavedKnown, WorkFacts
      DEF CheckpointAction, CheckpointVerdict, Working, JobInv, ProcessInv, NoAttempt
    <3>3. Overruled(d)' = Overruled(d) /\ ~Stopped(d)'
      BY <3>2 DEF Overruled, Scheduled, Stopped
    <3>4. QED
      BY <1>1, <2>1, <3>3
\* The stop of the attempt that ends is not overruled: the job goes on to select.
  <2>5. CASE CompleteAttempt
    <3>1. PICK entry \in Entries :
            /\ pc' = IF entry.stops THEN "selecting" ELSE "loop"
            /\ Saves([State EXCEPT !.completed = Append(@, entry), !.active = NoAttempt])
      BY <1>7, <2>5, CompleteSound
    <3> DEFINE s == [State EXCEPT !.completed = Append(@, entry), !.active = NoAttempt]
               last == Len(Completed(d))
    <3>2. /\ Completed(d) = State.completed /\ State \in States /\ Known(d).active # NoAttempt
      BY <1>7, <2>5, WorkFacts
      DEF CompleteAttempt, Working, JobInv, ProcessInv, Deciding, NoAttempt
    <3>3. s \in States /\ s.completed = Append(State.completed, entry) /\ s.active = NoAttempt
      BY <3>2, NextStates
    <3> HIDE DEF s
    <3>4. Known(d)' = s /\ Completed(d)' = Append(Completed(d), entry)
      BY <1>7, <3>1, <3>2, <3>3, SavedKnown DEF s
    <3>5. /\ Len(Completed(d)') = last + 1 /\ Completed(d)'[last + 1] = entry
          /\ \A i \in 1..last : Completed(d)'[i] = Completed(d)[i]
      BY <1>1, <3>2, <3>4, StateFields
    <3>6. Overruled(d)' = Overruled(d)
      <4>1. Scheduled(d)' = last + 1 /\ Scheduled(d) = last + 1
        BY <1>1, <3>2, <3>3, <3>4, <3>5 DEF Scheduled
      <4>2. QED
        BY <1>1, <3>5, <4>1 DEF Overruled
    <3>7. ~Stopped(d)'
      BY <2>1, <3>1, <3>5 DEF Stopped
    <3>8. QED
      BY <1>1, <2>1, <3>6, <3>7
  <2>6. CASE AddAttempt \/ Verify \/ Publish \/ FinishAttempt
    <3>1. recovery'[d] = recovery[d] /\ pc \notin {"selecting", "selected", "done"}
      BY <1>7, <2>6, AddSound, FinishSound, VerifyEffect, PublishEffect
      DEF WritesBook, AddAttempt, FinishAttempt
    <3>2. QED
      BY <1>2, <2>1, <3>1
  <2>7. CASE Select \/ WriteResult
    <3>1. recovery'[d] = recovery[d] /\ pc' \in {"selected", "done"}
      BY <1>1, <1>7, <2>7, SelectSound, ResultEffect DEF WritesBook
    <3>2. QED
      BY <1>2, <2>1, <3>1
  <2>8. QED
    BY <1>7, <2>2, <2>3, <2>4, <2>5, <2>6, <2>7 DEF WritingStep
<1>8. CASE UNCHANGED vars
  BY <1>2, <1>8 DEF vars, disk
<1>9. QED
  BY <1>3, <1>4, <1>5, <1>6, <1>7, <1>8, Steps

-----------------------------------------------------------------------------
(* Theorems *)

LEMMA JobInit ==
  Init => JobInv
<1> SUFFICES ASSUME Init PROVE JobInv
  OBVIOUS
<1>1. JobTypes
  <2>1. EmptyBook \in Books
    BY DEF EmptyBook, Books
  <2>2. DiskTypes
    BY <2>1 DEF Init, DiskTypes, Marks, Replies
  <2>3. NoJob \in Jobs /\ 0 \in Directories /\ 0 \in 0..CrashCap
    BY FreshState, JobAssumption DEF NoJob, Jobs, Directories
  <2>4. LocalTypes
    BY <2>3 DEF Init, LocalTypes, Labels
  <2>5. QED
    BY <2>2, <2>4 DEF JobTypes
<1>2. ASSUME NEW d \in Directories
      PROVE  /\ Sound(d) /\ Untouched(d) /\ Overruled(d) = {} /\ ~Stopped(d)
             /\ Len(book[d].attempts) = 0 /\ Len(Completed(d)) = 0
  <2>1. Untouched(d)
    BY DEF Init, Untouched
  <2>2. Known(d) = Fresh /\ Completed(d) = <<>>
    BY <2>1 DEF Untouched, Known, Completed, Fresh
  <2>3. CompletedAttempts(d) = {} /\ Judged(d) = {} /\ Overruled(d) = {} /\ ~Stopped(d)
    BY <2>2 DEF CompletedAttempts, Judged, Overruled, Stopped, Fresh, NoAttempt
  <2>4. Ordered(d)
    BY <2>2, JobAssumption DEF Ordered, Scheduled, Fresh
  <2>5. VerdictsAgree(d) /\ BestOfJudged(d) /\ PublishedBest(d) /\ ResultInv(d)
    BY <2>1, <2>2, <2>3
    DEF VerdictsAgree, BestOfJudged, PublishedBest, ResultInv, Untouched, Fresh, EmptyBook,
        Attempts, Absent
  <2>6. QED
    BY <2>1, <2>2, <2>3, <2>4, <2>5 DEF Sound, Untouched, EmptyBook
<1>3. ProcessInv
  BY DEF Init, ProcessInv, Working
<1>4. CountInv /\ StopInv
  <2>1. \A d \in Directories :
          /\ Len(book[d].attempts) = 0 /\ Len(Completed(d)) = 0
          /\ Cardinality(Overruled(d)) = 0 /\ ~Stopped(d)
    BY <1>2, FS_EmptySet
  <2>2. QED
    BY <2>1 DEF Init, CountInv, StopInv
<1>5. QED
  BY <1>1, <1>2, <1>3, <1>4 DEF JobInv

LEMMA JobInvKept ==
  JobInv /\ [Next]_vars => JobInv'
BY SoundKept, ProcessKept, CountKept, StopKept DEF JobInv

\* The invariant of a geometry job holds in every state, over any number of lives, attempts and
\* torn files.
THEOREM JobInvariance == Spec => []JobInv
BY JobInit, JobInvKept, PTL DEF Spec

LEMMA IntervalCount ==
  ASSUME NEW n \in Nat
  PROVE  IsFiniteSet(1..n) /\ Cardinality(1..n) = n
<1>1. /\ IsFiniteSet(1..n) /\ Cardinality(1..n) = IF 1 > n THEN 0 ELSE n - 1 + 1
  <2>1. 1 \in Int /\ n \in Int
    OBVIOUS
  <2>2. QED
    BY ONLY <2>1, FS_Interval
<1>2. QED
  BY <1>1

\* Attempts that are in order are as many as the entries that name them.
LEMMA CompletedCount ==
  ASSUME JobTypes, NEW d \in Directories, Sound(d)
  PROVE  /\ IsFiniteSet(CompletedAttempts(d)) /\ CompletedAttempts(d) \subseteq Attempts(book[d])
         /\ Cardinality(CompletedAttempts(d)) = Len(Completed(d))
<1> DEFINE n == Len(Completed(d))
           attempt == [i \in 1..n |-> Completed(d)[i].attempt]
<1>1. /\ n \in Nat /\ \A i \in 1..n : Completed(d)[i].attempt \in Nat
      /\ \A i \in 1..n : Completed(d)[i].attempt \in Attempts(book[d])
      /\ \A i \in 1..n : \A j \in 1..(i - 1) : Completed(d)[j].attempt < Completed(d)[i].attempt
  BY KnownStates, StateFields DEF JobTypes, Completed, Sound, Ordered, Numbers
<1> HIDE DEF n
<1>2. \A i, j \in 1..n : i # j => Completed(d)[i].attempt # Completed(d)[j].attempt
  BY <1>1
<1>3. CompletedAttempts(d) = {Completed(d)[i].attempt : i \in 1..n}
  BY DEF CompletedAttempts, n
<1>4. attempt \in Bijection(1..n, CompletedAttempts(d))
  BY <1>2, <1>3 DEF Bijection, Injection, Surjection, IsInjective
<1>5. IsFiniteSet(1..n) /\ Cardinality(1..n) = n
  BY <1>1, IntervalCount
<1>6. /\ IsFiniteSet(CompletedAttempts(d)) /\ Cardinality(CompletedAttempts(d)) = n
  BY <1>4, <1>5, FS_Bijection DEF ExistsBijection
<1>7. QED
  BY <1>1, <1>3, <1>6 DEF n

\* The ledger and the recovery state agree (LedgerAgrees).
THEOREM LedgerAgreement == Spec => []LedgerAgrees
<1>1. JobInv => LedgerAgrees
  <2> SUFFICES ASSUME JobInv, NEW d \in Directories
               PROVE  LET completed == Completed(d)
                          unfinished == {a \in Attempts(book[d]) : a \notin CompletedAttempts(d)}
                      IN  /\ \A i \in 1..Len(completed) :
                               /\ book[d].attempts[completed[i].attempt]
                                    = verdicts[d][completed[i].attempt]
                               /\ \A j \in 1..(i - 1) : completed[j].attempt < completed[i].attempt
                          /\ Cardinality(unfinished) <= 1 + crashes
                          /\ \A a \in unfinished :
                               Verified(book[d], a) => InPhase(d, a, {"verifier_completed"})
    BY DEF LedgerAgrees
  <2>1. JobTypes /\ Sound(d) /\ crashes \in Nat
    BY Locals DEF JobInv
  <2>2. \A i \in 1..Len(Completed(d)) :
          /\ book[d].attempts[Completed(d)[i].attempt] = verdicts[d][Completed(d)[i].attempt]
          /\ \A j \in 1..(i - 1) : Completed(d)[j].attempt < Completed(d)[i].attempt
    BY <2>1 DEF Sound, Ordered, VerdictsAgree, CompletedAttempts
  <2>3. \A a \in Attempts(book[d]) \ CompletedAttempts(d) :
          Verified(book[d], a) => InPhase(d, a, {"verifier_completed"})
    BY <2>1 DEF Sound, VerdictsAgree, Judged, InPhase
  <2>4. Cardinality(Attempts(book[d]) \ CompletedAttempts(d)) <= 1 + crashes
    <3>1. /\ Len(book[d].attempts) \in Nat /\ Len(Completed(d)) \in Nat
          /\ Len(book[d].attempts)
               <= Len(Completed(d)) + crashes + (IF Pending(d) THEN 1 ELSE 0)
      BY <2>1, KnownStates, StateFields DEF JobInv, JobTypes, CountInv, Completed
    <3>2. /\ IsFiniteSet(Attempts(book[d]))
          /\ Cardinality(Attempts(book[d])) = Len(book[d].attempts)
      BY <3>1, IntervalCount DEF Attempts
    <3>3. Attempts(book[d]) \cap CompletedAttempts(d) = CompletedAttempts(d)
      BY <2>1, CompletedCount
    <3>4. Cardinality(Attempts(book[d]) \ CompletedAttempts(d))
            = Len(book[d].attempts) - Len(Completed(d))
      <4>1. Cardinality(Attempts(book[d]) \ CompletedAttempts(d))
              = Cardinality(Attempts(book[d]))
                  - Cardinality(Attempts(book[d]) \cap CompletedAttempts(d))
        BY ONLY <3>2, FS_Difference
      <4>2. QED
        BY <2>1, <3>2, <3>3, <4>1, CompletedCount
    <3>5. QED
      BY <2>1, <3>1, <3>4
  <2>5. {a \in Attempts(book[d]) : a \notin CompletedAttempts(d)}
          = Attempts(book[d]) \ CompletedAttempts(d)
    OBVIOUS
  <2>6. QED
    BY <2>2, <2>3, <2>4, <2>5
<1>2. QED
  BY <1>1, JobInvariance, PTL

\* What the job hands out is the best it ever had (BestIsHandedOut).
THEOREM BestHandedOut == Spec => []BestIsHandedOut
<1>1. JobInv => BestIsHandedOut
  <2> SUFFICES ASSUME JobInv, NEW d \in Directories, final[d].kind = "result"
               PROVE  /\ LET best == final[d].selected
                             scored == {a \in CompletedAttempts(d) : verdicts[d][a] > 0}
                         IN  IF scored = {} THEN best = 0
                             ELSE /\ best \in scored
                                  /\ \A a \in scored : verdicts[d][a] <= verdicts[d][best]
                                  /\ book[d].selected = best
                                  /\ book[d].result = verdicts[d][best]
                      /\ ~unsteady => final[d].candidate = final[d].selected
    BY DEF BestIsHandedOut, SelectionIsBest, PublishedIsSelected
  <2>1. JobTypes /\ Sound(d) /\ ResultInv(d) /\ BestOfJudged(d) /\ VerdictsAgree(d)
    BY DEF JobInv, Sound
  <2>2. /\ Known(d).active = NoAttempt /\ final[d].selected = Known(d).best
        /\ ~unsteady => final[d].candidate = Known(d).best
        /\ Known(d).best # 0 =>
             book[d].selected = Known(d).best /\ book[d].result = verdicts[d][Known(d).best]
    BY <2>1 DEF ResultInv
  <2>3. Judged(d) = CompletedAttempts(d)
    BY <2>2 DEF Judged, NoAttempt
  <2>4. \A a \in CompletedAttempts(d) : a \in Nat \ {0} /\ verdicts[d][a] \in Nat
    <3>1. \A a \in CompletedAttempts(d) : a \in Nat \ {0}
      BY <2>1, KnownStates, StateFields DEF JobTypes, CompletedAttempts, Completed, Numbers
    <3>2. QED
      BY <2>1, <2>3, <3>1, JobAssumption DEF VerdictsAgree
  <2>5. /\ \A a \in CompletedAttempts(d) : verdicts[d][a] <= Known(d).bestScore
        /\ \/ Known(d).best = 0 /\ Known(d).bestScore = 0
           \/ /\ Known(d).best \in CompletedAttempts(d)
              /\ verdicts[d][Known(d).best] = Known(d).bestScore /\ Known(d).bestScore > 0
    BY <2>1, <2>3 DEF BestOfJudged
  <2>6. CASE Known(d).best = 0 /\ Known(d).bestScore = 0
    <3>1. {a \in CompletedAttempts(d) : verdicts[d][a] > 0} = {}
      BY <2>4, <2>5, <2>6
    <3>2. QED
      BY <2>2, <2>6, <3>1
  <2>7. CASE /\ Known(d).best \in CompletedAttempts(d)
             /\ verdicts[d][Known(d).best] = Known(d).bestScore /\ Known(d).bestScore > 0
    BY <2>2, <2>4, <2>5, <2>7
  <2>8. QED
    BY <2>5, <2>6, <2>7
<1>2. QED
  BY <1>1, JobInvariance, PTL

\* A stop is overruled at most once for each death (StopsAreHonoured).
THEOREM StopsHonoured == Spec => []StopsAreHonoured
<1>1. JobInv => StopsAreHonoured
  <2> SUFFICES ASSUME JobInv, NEW d \in Directories PROVE Cardinality(Overruled(d)) <= crashes
    BY DEF StopsAreHonoured
  <2>1. Cardinality(Overruled(d)) \in Nat /\ crashes \in Nat
    BY KnownStates, OverruledFinite, Locals DEF JobInv, JobTypes
  <2>2. QED
    BY <2>1 DEF JobInv, StopInv
<1>2. QED
  BY <1>1, JobInvariance, PTL

\* What is on record: the parts of WorkIsKept, of a step.
LEMMA ActedKept ==
  ASSUME JobInv, Next, NEW d \in Directories, NEW a \in Numbers,
         \/ a \in CompletedAttempts(d)
         \/ InPhase(d, a, {"verifier_completed"}) \/ InPhase(d, a, {"action_completed"})
  PROVE  /\ candidates'[d][a] = candidates[d][a]
         /\ ~(pc = "acting" /\ pc' = "acted" /\ dir = d /\ Attempt = a)
<1>1. /\ dir \in Directories /\ candidates \in [Directories -> [Numbers -> BOOLEAN]]
  BY DEF JobInv, JobTypes, DiskTypes, LocalTypes
<1>2. ~(pc = "acting" /\ dir = d /\ Attempt = a)
  <2> SUFFICES ASSUME pc = "acting", dir = d, Attempt = a PROVE FALSE
    OBVIOUS
  <2>1. Attempt \notin CompletedAttempts(dir)
    BY AttemptAtHand, AttemptFacts DEF AtAttempt
  <2>2. Known(d).active = State.active /\ State.active.phase = "action_running"
    BY WorkFacts DEF JobInv, ProcessInv, Working
  <2>3. QED
    BY <2>1, <2>2 DEF InPhase
<1>3. CASE Act
  <2>1. PICK made \in BOOLEAN : candidates' = [candidates EXCEPT ![dir][Attempt] = made]
    BY <1>3 DEF Act
  <2>2. ~(dir = d /\ Attempt = a)
    BY <1>2, <1>3 DEF Act
  <2>3. QED
    BY <1>1, <1>2, <2>1, <2>2
<1>4. CASE ~Act
  <2>1. candidates' = candidates
    BY <1>4
    DEF Next, JobStep, ReturnResult, RaiseOnTornResult, Resume, Open, Stage, AddAttempt,
        RegisterAttempt, ContinueAttempt, ExhaustLoop, CheckpointAction, Verify, Publish,
        CheckpointVerdict, RecoverDecision, Ask, GiveUp, FinishAttempt, CompleteAttempt, Select,
        WriteResult, Crash, Tear, disk
  <2>2. QED
    BY <1>2, <2>1
<1>5. QED
  BY <1>3, <1>4

LEMMA JudgedKept ==
  ASSUME JobInv, Next, NEW d \in Directories, NEW a \in Numbers,
         a \in CompletedAttempts(d) \/ InPhase(d, a, {"verifier_completed"})
  PROVE  verdicts'[d][a] = verdicts[d][a]
<1>1. CASE Verify
  <2>1. dir \in Directories /\ pc = "verifying"
    BY <1>1 DEF JobInv, JobTypes, LocalTypes, Verify
  <2>2. CASE d = dir
    <3>1. Attempt \notin CompletedAttempts(dir)
      BY <2>1, AttemptAtHand, AttemptFacts DEF AtAttempt
    <3>2. Known(d).active = State.active /\ State.active.phase = "action_completed"
      BY <2>1, <2>2, WorkFacts DEF JobInv, ProcessInv, Working
    <3>3. a # Attempt
      BY <2>2, <3>1, <3>2 DEF InPhase
    <3>4. QED
      BY <1>1, <2>2, <3>3, VerifyEffect
  <2>3. CASE d # dir
    BY <1>1, <2>3, VerifyEffect DEF Stays, Kept
  <2>4. QED
    BY <2>2, <2>3
<1>2. CASE ~Verify
  BY <1>2
  DEF Next, JobStep, ReturnResult, RaiseOnTornResult, Resume, Open, Stage, AddAttempt,
      RegisterAttempt, ContinueAttempt, ExhaustLoop, Act, CheckpointAction, Publish,
      CheckpointVerdict, RecoverDecision, Ask, GiveUp, FinishAttempt, CompleteAttempt, Select,
      WriteResult, Crash, Tear, disk
<1>3. QED
  BY <1>1, <1>2

LEMMA TurnsKept ==
  ASSUME JobInv, Next, NEW d \in Directories, NEW a \in Numbers, turns[d][a] # "useless"
  PROVE  turns'[d][a] = turns[d][a]
<1>1. CASE Ask
  <2>1. PICK reply \in Replies :
           turns' = [turns EXCEPT ![dir][Attempt] = IF @ = "useless" THEN reply ELSE @]
    BY <1>1 DEF Ask, Reply
  <2>2. turns \in [Directories -> [Numbers -> Replies]] /\ dir \in Directories
    BY DEF JobInv, JobTypes, DiskTypes, LocalTypes
  <2>3. QED
    BY <2>1, <2>2
<1>2. CASE ~Ask
  BY <1>2
  DEF Next, JobStep, ReturnResult, RaiseOnTornResult, Resume, Open, Stage, AddAttempt,
      RegisterAttempt, ContinueAttempt, ExhaustLoop, Act, CheckpointAction, Verify, Publish,
      CheckpointVerdict, RecoverDecision, GiveUp, FinishAttempt, CompleteAttempt, Select,
      WriteResult, Crash, Tear, disk
<1>3. QED
  BY <1>1, <1>2

\* What recovery-state.json has on record is never done again (WorkIsKept).
THEOREM WorkKept == Spec => WorkIsKept
<1>1. JobInv /\ [Next]_vars =>
        [\A d \in Directories, a \in Numbers :
           LET judged == a \in CompletedAttempts(d) \/ InPhase(d, a, {"verifier_completed"})
               acted == judged \/ InPhase(d, a, {"action_completed"})
           IN  /\ acted => /\ candidates'[d][a] = candidates[d][a]
                           /\ ~(pc = "acting" /\ pc' = "acted" /\ dir = d /\ Attempt = a)
               /\ judged => verdicts'[d][a] = verdicts[d][a]
               /\ turns[d][a] # "useless" => turns'[d][a] = turns[d][a]]_vars
  BY ActedKept, JudgedKept, TurnsKept
<1>2. QED
  BY <1>1, JobInvariance, PTL DEF Spec, WorkIsKept
=============================================================================
