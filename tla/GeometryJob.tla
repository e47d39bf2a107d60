----------------------------- MODULE GeometryJob -----------------------------
(***************************************************************************)
(* run_geometry_job (src/src/cad_evoloop/evaluation/geometry_campaign.py): *)
(* one job models a drawing, verifies the candidate, asks the model whether *)
(* to go on, and repeats.  Everything it knows is in its directory and in  *)
(* the run ledger; it may die between any two writes and be called again.  *)
(* A job directory has a number: 0 is the base directory, n is retry-n.    *)
(***************************************************************************)
EXTENDS RunManifest, FiniteSets

CONSTANTS
  MaxIterations,  \* max_iterations
  RetryLimit,     \* DECISION_RETRY_LIMIT
  TopScore,       \* the score of a strict pass; 0 is a candidate that cannot be scored
  CrashCap        \* bound: how often the process dies

ASSUME JobAssumption ==
  /\ MaxIterations \in Nat \ {0} /\ RetryLimit \in Nat /\ CrashCap \in Nat
  /\ TopScore \in Nat \ {0} /\ Verdicts = 0..TopScore

Directories == 0..CrashCap
Numbers == 1..(MaxIterations + CrashCap)   \* attempt numbers of the ledger

VARIABLES
  exists,      \* of each directory: it was made
  recovery,    \* of each directory: its recovery-state.json
  book,        \* of each directory: what run.json says of its attempts
  candidates,  \* of each directory and attempt: candidate.aNNN.dwg is there
  verdicts,    \* of each directory and attempt: its geometry-verdict.json
  turns,       \* of each directory and attempt: the first valid reply in decision-turns
  published,   \* of each directory: the attempt whose candidate is candidate.dwg
  final,       \* of each directory: its result.json
  pc,          \* where the process is
  dir,         \* the directory it works in
  job,         \* its local variables
  unsteady,    \* history: the verifier judged one candidate in two ways
  crashes      \* how often the process died

disk == <<exists, recovery, book, candidates, verdicts, turns, published, final>>
vars == <<disk, pc, dir, job, unsteady, crashes>>

Absent == [kind |-> "absent"]

\* A turn leaves a reflection that says something valid, or nothing of use.
Replies == {"continue", "stop", "useless"}
\* active_attempt: its number in the loop, its attempt in the ledger, its phase.
NoAttempt == [number |-> 0, attempt |-> 0, phase |-> "none"]

\* The part of recovery-state.json that a restart goes on from.
Fresh == [completed |-> <<>>, active |-> NoAttempt, best |-> 0, bestScore |-> 0, thread |-> FALSE]

\* What the process knows: that part, how often it asked in vain, the decision.
NoJob == [state |-> Fresh, tries |-> 0, decision |-> "none"]

Init ==
  /\ exists = [d \in Directories |-> FALSE]
  /\ recovery = [d \in Directories |-> Absent]
  /\ book = [d \in Directories |-> EmptyBook]
  /\ candidates = [d \in Directories |-> [a \in Numbers |-> FALSE]]
  /\ verdicts = [d \in Directories |-> [a \in Numbers |-> Unverified]]
  /\ turns = [d \in Directories |-> [a \in Numbers |-> "useless"]]
  /\ published = [d \in Directories |-> 0]
  /\ final = [d \in Directories |-> Absent]
  /\ pc = "off" /\ dir = 0 /\ job = NoJob
  /\ unsteady = FALSE
  /\ crashes = 0

-----------------------------------------------------------------------------
(* Operators of the attempt at hand *)

State == job.state
Attempt == State.active.attempt
Verdict == verdicts[dir][Attempt]
LeftReply == turns[dir][Attempt]

Goto(label) == pc' = label

\* Replaces recovery-state.json.
Save(state) ==
  /\ recovery' = [recovery EXCEPT ![dir] = state]
  /\ job' = [job EXCEPT !.state = state]

Reached(phase) == [State EXCEPT !.active.phase = phase]

-----------------------------------------------------------------------------
(* Entry *)

\* result.json of the base directory is all a later call looks at.
ReturnResult ==
  /\ pc = "off"
  /\ final[0].kind = "result"
  /\ Goto("done")
  /\ UNCHANGED <<disk, dir, job, unsteady, crashes>>

RaiseOnTornResult ==
  /\ pc = "off"
  /\ final[0].kind = "torn"
  /\ Goto("raised")
  /\ UNCHANGED <<disk, dir, job, unsteady, crashes>>

\* Mutant of Resume: an interrupted attempt is given up.
ResumeWithoutAttempt ==
  /\ pc = "off"
  /\ final[0] = Absent /\ recovery[0] # Absent
  /\ dir' = 0
  /\ job' = [NoJob EXCEPT !.state = [recovery[0] EXCEPT !.active = NoAttempt]]
  /\ Goto("loop")
  /\ UNCHANGED <<disk, unsteady, crashes>>

Resume ==
  /\ pc = "off"
  /\ final[0] = Absent /\ recovery[0] # Absent
  /\ dir' = 0
  /\ job' = [NoJob EXCEPT !.state = recovery[0]]
  /\ Goto("loop")
  /\ UNCHANGED <<disk, unsteady, crashes>>

\* Mutant of Open: there is only the base directory.
OpenBaseOnly ==
  /\ pc = "off"
  /\ final[0] = Absent /\ recovery[0] = Absent
  /\ ~exists[0]
  /\ dir' = 0
  /\ exists' = [exists EXCEPT ![0] = TRUE]
  /\ Goto("staging")
  /\ UNCHANGED <<recovery, book, candidates, verdicts, turns, published, final,
                 job, unsteady, crashes>>

\* The first directory nobody made yet, with a run of its own in the ledger.
Open ==
  /\ pc = "off"
  /\ final[0] = Absent /\ recovery[0] = Absent
  /\ \E d \in Directories :
       /\ ~exists[d] /\ \A lower \in 0..(d - 1) : exists[lower]
       /\ dir' = d
       /\ exists' = [exists EXCEPT ![d] = TRUE]
  /\ Goto("staging")
  /\ UNCHANGED <<recovery, book, candidates, verdicts, turns, published, final,
                 job, unsteady, crashes>>

\* Inputs are staged and the ledger's run is started before the state is written.
Stage ==
  /\ pc = "staging"
  /\ Save(Fresh)
  /\ Goto("loop")
  /\ UNCHANGED <<exists, book, candidates, verdicts, turns, published, final,
                 dir, unsteady, crashes>>

-----------------------------------------------------------------------------
(* The loop *)

AddAttempt ==
  /\ pc = "loop"
  /\ State.active = NoAttempt
  /\ Len(State.completed) < MaxIterations
  /\ book' = [book EXCEPT ![dir] = WithAttempt(@)]
  /\ Goto("added")
  /\ UNCHANGED <<exists, recovery, candidates, verdicts, turns, published, final,
                 dir, job, unsteady, crashes>>

RegisterAttempt ==
  /\ pc = "added"
  /\ Save([State EXCEPT !.active = [number |-> Len(State.completed) + 1,
                                    attempt |-> Len(book[dir].attempts),
                                    phase |-> "action_running"]])
  /\ Goto("acting")
  /\ UNCHANGED <<exists, book, candidates, verdicts, turns, published, final,
                 dir, unsteady, crashes>>

\* Mutant of PhaseLabel: what is not verified is started over.
PhaseLabelCoarse(phase) == IF phase = "verifier_completed" THEN "deciding" ELSE "acting"

PhaseLabel(phase) ==
  CASE phase = "action_running" -> "acting"
    [] phase = "action_completed" -> "verifying"
    [] phase = "verifier_completed" -> "deciding"

ContinueAttempt ==
  /\ pc = "loop"
  /\ State.active # NoAttempt
  /\ Goto(PhaseLabel(State.active.phase))
  /\ UNCHANGED <<disk, dir, job, unsteady, crashes>>

ExhaustLoop ==
  /\ pc = "loop"
  /\ State.active = NoAttempt
  /\ Len(State.completed) >= MaxIterations
  /\ Goto("selecting")
  /\ UNCHANGED <<disk, dir, job, unsteady, crashes>>

\* An interrupted candidate is archived first.  The model may fail to make a candidate,
\* and the first action of a job may end without a conversation to go on with.
Act ==
  /\ pc = "acting"
  /\ \E made \in BOOLEAN : candidates' = [candidates EXCEPT ![dir][Attempt] = made]
  /\ \E thread \in {State.thread, TRUE} : job' = [job EXCEPT !.state.thread = thread]
  /\ Goto("acted")
  /\ UNCHANGED <<exists, recovery, book, verdicts, turns, published, final,
                 dir, unsteady, crashes>>

CheckpointAction ==
  /\ pc = "acted"
  /\ Save(Reached("action_completed"))
  /\ Goto("verifying")
  /\ UNCHANGED <<exists, book, candidates, verdicts, turns, published, final,
                 dir, unsteady, crashes>>

\* Exporting and scoring a candidate can fail, which scores 0.
Verify ==
  /\ pc = "verifying"
  /\ \E verdict \in Verdicts :
       /\ ~candidates[dir][Attempt] => verdict = 0
       /\ verdicts' = [verdicts EXCEPT ![dir][Attempt] = verdict]
       /\ unsteady' = (unsteady \/ Verdict \notin {Unverified, verdict})
  /\ Goto("verified")
  /\ UNCHANGED <<exists, recovery, book, candidates, turns, published, final,
                 dir, job, crashes>>

Improved == Verdict > State.bestScore

\* Mutant of Publish: candidate.dwg is the latest candidate.
PublishLatest ==
  /\ pc = "verified"
  /\ published' = [published EXCEPT ![dir] = Attempt]
  /\ \/ /\ Improved
        /\ job' = [job EXCEPT !.state.best = Attempt, !.state.bestScore = Verdict]
     \/ ~Improved /\ UNCHANGED job
  /\ Goto("judged")
  /\ UNCHANGED <<exists, recovery, book, candidates, verdicts, turns, final,
                 dir, unsteady, crashes>>

\* The best candidate is copied to candidate.dwg before the state says so.
Publish ==
  /\ pc = "verified"
  /\ \/ /\ Improved
        /\ published' = [published EXCEPT ![dir] = Attempt]
        /\ job' = [job EXCEPT !.state.best = Attempt, !.state.bestScore = Verdict]
     \/ ~Improved /\ UNCHANGED <<published, job>>
  /\ Goto("judged")
  /\ UNCHANGED <<exists, recovery, book, candidates, verdicts, turns, final,
                 dir, unsteady, crashes>>

CheckpointVerdict ==
  /\ pc = "judged"
  /\ Save(Reached("verifier_completed"))
  /\ Goto("deciding")
  /\ UNCHANGED <<exists, book, candidates, verdicts, turns, published, final,
                 dir, unsteady, crashes>>

-----------------------------------------------------------------------------
(* _run_decision_with_retries *)

Decided(decision) ==
  /\ job' = [job EXCEPT !.decision = decision, !.tries = 0]
  /\ Goto("finishing")

\* An earlier process left a turn with a valid reflection, however that turn ended.
Recoverable == State.thread /\ job.tries = 0 /\ LeftReply # "useless"

RecoverDecision ==
  /\ pc = "deciding"
  /\ Recoverable
  /\ Decided(LeftReply)
  /\ UNCHANGED <<disk, dir, unsteady, crashes>>

\* One turn.  A valid reflection is not enough: the transport must succeed too.
Reply ==
  \E reply \in Replies, delivered \in BOOLEAN :
    /\ turns' = [turns EXCEPT ![dir][Attempt] = IF @ = "useless" THEN reply ELSE @]
    /\ IF reply # "useless" /\ delivered
       THEN Decided(reply)
       ELSE UNCHANGED pc /\ job' = [job EXCEPT !.tries = IF @ > RetryLimit THEN @ ELSE @ + 1]

Ask ==
  /\ pc = "deciding"
  /\ State.thread
  /\ ~Recoverable
  /\ job.tries <= RetryLimit
  /\ Reply
  /\ UNCHANGED <<exists, recovery, book, candidates, verdicts, published, final,
                 dir, unsteady, crashes>>

\* No conversation, no turn left, or no time left.
GiveUp ==
  /\ pc = "deciding"
  /\ ~Recoverable
  /\ Decided("none")
  /\ UNCHANGED <<disk, dir, unsteady, crashes>>

-----------------------------------------------------------------------------
(* The end of an attempt and of the job *)

FinishAttempt ==
  /\ pc = "finishing"
  /\ book' = [book EXCEPT ![dir] = WithVerdict(@, Attempt, Verdict)]
  /\ Goto("finished")
  /\ UNCHANGED <<exists, recovery, candidates, verdicts, turns, published, final,
                 dir, job, unsteady, crashes>>

\* safety_stop_reason; time may run out at any moment.
SafetyStop == \/ Verdict = TopScore
              \/ State.active.number >= MaxIterations
              \/ job.decision = "none"

\* Mutant of CompleteAttempt: the job goes on when no decision can be had.
CompleteAttemptUndecided ==
  /\ pc = "finished"
  /\ \E late \in BOOLEAN :
       LET stops == SafetyStop \/ late \/ job.decision = "stop"
       IN  /\ Save([State EXCEPT !.completed = Append(@, [attempt |-> Attempt, stops |-> stops]),
                                 !.active = NoAttempt])
           /\ Goto(IF stops /\ job.decision # "none" THEN "selecting" ELSE "loop")
  /\ UNCHANGED <<exists, book, candidates, verdicts, turns, published, final,
                 dir, unsteady, crashes>>

CompleteAttempt ==
  /\ pc = "finished"
  /\ \E late \in BOOLEAN :
       LET stops == SafetyStop \/ late \/ job.decision = "stop"
       IN  /\ Save([State EXCEPT !.completed = Append(@, [attempt |-> Attempt, stops |-> stops]),
                                 !.active = NoAttempt])
           /\ Goto(IF stops THEN "selecting" ELSE "loop")
  /\ UNCHANGED <<exists, book, candidates, verdicts, turns, published, final,
                 dir, unsteady, crashes>>

Select ==
  /\ pc = "selecting"
  /\ book' = IF State.best = 0 THEN book
             ELSE [book EXCEPT ![dir] = WithSelection(@, State.best)]
  /\ Goto("selected")
  /\ UNCHANGED <<exists, recovery, candidates, verdicts, turns, published, final,
                 dir, job, unsteady, crashes>>

WriteResult ==
  /\ pc = "selected"
  /\ final' = [final EXCEPT ![dir] = [kind |-> "result", selected |-> State.best,
                                      candidate |-> published[dir]]]
  /\ Goto("done")
  /\ UNCHANGED <<exists, recovery, book, candidates, verdicts, turns, published,
                 dir, job, unsteady, crashes>>

-----------------------------------------------------------------------------
(* Faults *)

\* The process dies, or raises; a caller that dies before it recorded the result asks again.
Die ==
  /\ crashes < CrashCap
  /\ crashes' = crashes + 1
  /\ Goto("off") /\ dir' = 0 /\ job' = NoJob
  /\ UNCHANGED unsteady

Crash == pc \notin {"off", "raised"} /\ Die /\ UNCHANGED disk

\* result.json is written in place.
Tear ==
  /\ pc = "selected"
  /\ final' = [final EXCEPT ![dir] = [kind |-> "torn"]]
  /\ Die
  /\ UNCHANGED <<exists, recovery, book, candidates, verdicts, turns, published>>

JobStep ==
  \/ ReturnResult \/ RaiseOnTornResult \/ Resume \/ Open \/ Stage
  \/ AddAttempt \/ RegisterAttempt \/ ContinueAttempt \/ ExhaustLoop
  \/ Act \/ CheckpointAction \/ Verify \/ Publish \/ CheckpointVerdict
  \/ RecoverDecision \/ Ask \/ GiveUp
  \/ FinishAttempt \/ CompleteAttempt \/ Select \/ WriteResult

Next == JobStep \/ Crash \/ Tear

\* The job goes on, and whoever called it calls it again after it died.
Spec == Init /\ [][Next]_vars /\ WF_vars(JobStep)

-----------------------------------------------------------------------------
(* Properties *)

Phases == {"action_running", "action_completed", "verifier_completed"}

Known(d) == IF recovery[d] = Absent THEN Fresh ELSE recovery[d]
Completed(d) == Known(d).completed
CompletedAttempts(d) == {Completed(d)[i].attempt : i \in 1..Len(Completed(d))}
InPhase(d, a, phases) == Known(d).active.attempt = a /\ Known(d).active.phase \in phases

\* What recovery-state.json has on record is never done again, whatever dies where: an
\* action that was checkpointed is not run again, a verdict that was checkpointed is not
\* replaced, and what a turn has decided is not lost.
WorkIsKept ==
  [][\A d \in Directories, a \in Numbers :
       LET judged == a \in CompletedAttempts(d) \/ InPhase(d, a, {"verifier_completed"})
           acted == judged \/ InPhase(d, a, {"action_completed"})
       IN  /\ acted => /\ candidates'[d][a] = candidates[d][a]
                       /\ ~(pc = "acting" /\ pc' = "acted" /\ dir = d /\ Attempt = a)
           /\ judged => verdicts'[d][a] = verdicts[d][a]
           /\ turns[d][a] # "useless" => turns'[d][a] = turns[d][a]]_vars

\* The ledger and the recovery state agree, although they are written one after the other:
\* the completed attempts are in order and have their verdicts in the ledger, and the only
\* other attempts there are the active one and one for each death.
LedgerAgrees ==
  \A d \in Directories :
    LET completed == Completed(d)
        unfinished == {a \in Attempts(book[d]) : a \notin CompletedAttempts(d)}
    IN  /\ \A i \in 1..Len(completed) :
             /\ book[d].attempts[completed[i].attempt] = verdicts[d][completed[i].attempt]
             /\ \A j \in 1..(i - 1) : completed[j].attempt < completed[i].attempt
        /\ Cardinality(unfinished) <= 1 + crashes
        /\ \A a \in unfinished :
             Verified(book[d], a) => InPhase(d, a, {"verifier_completed"})

\* The job ends with the best verdict of all completed attempts, earlier lives included,
\* and the ledger with the same.
SelectionIsBest ==
  \A d \in Directories : final[d].kind = "result" =>
    LET best == final[d].selected
        scored == {a \in CompletedAttempts(d) : verdicts[d][a] > 0}
    IN  IF scored = {} THEN best = 0
        ELSE /\ best \in scored
             /\ \A a \in scored : verdicts[d][a] <= verdicts[d][best]
             /\ book[d].selected = best
             /\ book[d].result = verdicts[d][best]

\* candidate.dwg, which is copied before the state is written, is the candidate that was
\* selected, unless the verifier judged one candidate in two ways.
PublishedIsSelected ==
  \A d \in Directories :
    (final[d].kind = "result" /\ ~unsteady) => final[d].candidate = final[d].selected

\* What the job hands out is the best it ever had, in the ledger and as a drawing.
BestIsHandedOut == SelectionIsBest /\ PublishedIsSelected

Scheduled(d) == Len(Completed(d)) + (IF Known(d).active = NoAttempt THEN 0 ELSE 1)
Overruled(d) == {i \in 1..Len(Completed(d)) : Completed(d)[i].stops /\ i < Scheduled(d)}

\* A stop is overruled at most once for each death: without one, it ends the job.
StopsAreHonoured == \A d \in Directories : Cardinality(Overruled(d)) <= crashes

\* Only "continue" schedules a new CAD action (docs/EVALUATION_PROTOCOL.md:40).
OnlyContinueSchedules == \A d \in Directories : Overruled(d) = {}

\* The job comes to an end, or leaves a result that no later call can read.
JobEnds == <>[](pc = "done" \/ (pc = "raised" /\ final[0].kind = "torn"))
=============================================================================
