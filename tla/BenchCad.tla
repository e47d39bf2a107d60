------------------------------- MODULE BenchCad -------------------------------
(***************************************************************************)
(* One record of a BenchCAD campaign: the supervisor                       *)
(* (evaluation/benchcad_supervisor.py), the campaign processes it launches *)
(* (run_benchcad_campaign of evaluation/benchcad_campaign.py) and the job   *)
(* directory they work in.  The ground truth (GT) is for scoring only; the  *)
(* audit of a turn searches its events for the GT's paths.  A supervisor    *)
(* that dies leaves its process running, and nothing keeps the next one     *)
(* from moving its job away and launching another beside it.  Only the last *)
(* process is followed from there on: of processes that overlap nothing is   *)
(* claimed.  Records share nothing but the supervisor.                      *)
(***************************************************************************)
EXTENDS Naturals, FiniteSets

CONSTANTS
  Supervisors,   \* bound: how often supervise() is called
  Launches,      \* of one call: three in the code
  MaxIterations, \* config.max_iterations
  CandidateCap   \* bound: how often a process' agent changes the candidate

ASSUME BenchCadAssumption ==
  /\ Supervisors \in Nat \ {0} /\ Launches \in Nat \ {0}
  /\ MaxIterations \in Nat \ {0} /\ CandidateCap \in Nat

VARIABLES
  benchMode,   \* "shared": baseline and forced_ir; "specialist": specialist_ir
  auditor,     \* the version of _audit_invocation: "early" flags harmless text as well
  supervisor,  \* the call of supervise() that is under way
  process,     \* the campaign process that was launched last, by its number
  job,         \* the job directory
  lost,        \* history: an audit was repeated without the events of the turns
  overlap      \* history: a supervisor was called while a process was at work

jobVars == <<job, lost>>
benchVars == <<benchMode, auditor, supervisor, process, jobVars, overlap>>

Iterations == 1..MaxIterations

\* A candidate: whose agent wrote it, its how many-th version, the turns that had read
\* the GT by then.
NoCandidate == [by |-> 0, version |-> 0, tainted |-> {}]
NoAttempt == [candidate |-> NoCandidate, ran |-> FALSE]
NoBenchResult == [status |-> "none", by |-> 0, accesses |-> {}]
EmptyJob ==
  [present |-> FALSE, candidate |-> NoCandidate,
   attempts |-> [i \in Iterations |-> NoAttempt], made |-> {},
   submitted |-> NoAttempt, result |-> NoBenchResult]
Process(id, at) ==
  [id |-> id, at |-> at, iteration |-> 0, leakage |-> FALSE, passed |-> TRUE, submitted |-> FALSE,
   saw |-> {}, accesses |-> {}, edits |-> 0]

BenchInit ==
  /\ benchMode \in {"shared", "specialist"}
  /\ auditor \in {"early", "present"}
  /\ supervisor = [call |-> 0, at |-> "none", launch |-> 0]
  /\ process = Process(0, "none")
  /\ job = EmptyJob
  /\ lost = FALSE /\ overlap = FALSE

Alive == process.at \notin {"none", "ended", "failed"}

\* A process that is over has no local variables.
Go(label) ==
  process' = IF label \in {"ended", "failed"} THEN Process(process.id, label)
             ELSE [process EXCEPT !.at = label]

-----------------------------------------------------------------------------
(* supervise *)

\* Whoever calls it may have made sure that no campaign process is left
\* (docs/BENCHCAD_IR_PARALLEL.md:40-41); the code does not look.
CallSupervisor ==
  /\ supervisor.at \in {"none", "ended"} /\ supervisor.call < Supervisors
  /\ supervisor' = [supervisor EXCEPT !.call = @ + 1, !.at = "archiving", !.launch = 0]
  /\ overlap' = (overlap \/ Alive)
  /\ UNCHANGED <<benchMode, auditor, process, jobVars>>

\* Mutant of ArchiveIncomplete: what an interrupted process left stays.
ArchiveNothing ==
  /\ supervisor.at = "archiving"
  /\ supervisor' = [supervisor EXCEPT !.at = "launching"]
  /\ UNCHANGED <<benchMode, auditor, process, jobVars, overlap>>

\* archive_incomplete: a job without result.json is moved away.
ArchiveIncomplete ==
  /\ supervisor.at = "archiving"
  /\ job' = IF job.present /\ job.result = NoBenchResult THEN EmptyJob ELSE job
  /\ supervisor' = [supervisor EXCEPT !.at = "launching"]
  /\ UNCHANGED <<benchMode, auditor, process, lost, overlap>>

LaunchCampaign ==
  /\ supervisor.at = "launching"
  /\ process' = Process(process.id + 1, "opening")
  /\ supervisor' = [supervisor EXCEPT !.at = "watching", !.launch = @ + 1]
  /\ UNCHANGED <<benchMode, auditor, jobVars, overlap>>

\* The child returned; progress() read every result.  Three launches at most.
SeeChildEnd ==
  /\ supervisor.at = "watching" /\ job.result.status # "torn"
  /\ ~Alive
  /\ supervisor' = [supervisor EXCEPT !.at =
       IF process.at = "ended" \/ supervisor.launch = Launches
         THEN "ended" ELSE "archiving"]
  /\ UNCHANGED <<benchMode, auditor, process, jobVars, overlap>>

\* progress() reads a result.json that is being written or was cut short: the child is
\* terminated and the supervisor raises.
ProgressRaises ==
  /\ supervisor.at = "watching" /\ job.result.status = "torn"
  /\ Go(IF Alive THEN "failed" ELSE process.at)
  /\ supervisor' = [supervisor EXCEPT !.at = "ended"]
  /\ UNCHANGED <<benchMode, auditor, jobVars, overlap>>

\* Its child goes on.
SupervisorDies ==
  /\ supervisor.at \notin {"none", "ended"}
  /\ supervisor' = [supervisor EXCEPT !.at = "ended"]
  /\ UNCHANGED <<benchMode, auditor, process, jobVars, overlap>>

-----------------------------------------------------------------------------
(* run_benchcad_campaign *)

\* What a turn looks at: the GT (for the specialist, the source images too), in a way that
\* its events show, or in one that they do not, or something whose name resembles it.
Accesses == {"none", "harmless", "shown", "hidden"}

\* _audit_invocation: the text of the events has one of the paths, or climbs to a parent
\* directory.  Other ways to the GT pass, and so does a turn without a file of events.
Flagged(access) == access = "shown" \/ (access = "harmless" /\ auditor = "early")

\* The directories are made; a result that is there decides.
OpenRecord ==
  /\ process.at = "opening"
  /\ job' = [job EXCEPT !.present = TRUE]
  /\ Go(CASE job.result.status = "none" -> "perceiving"
             [] job.result.status = "torn" -> "failed"
             [] job.result.status = "invalid_gt_access_audit" -> "replaying"
             [] OTHER -> "ended")
  /\ UNCHANGED <<benchMode, auditor, supervisor, lost, overlap>>

\* A recorded violation is audited again: with every action turn clean, what was
\* submitted is scored after all, and result.json is written again.  Events that are gone,
\* no longer where they were written, show nothing.
ReplayAudit ==
  /\ process.at = "replaying"
  /\ \E gone \in BOOLEAN :
       LET clean == gone \/ \A access \in job.result.accesses : ~Flagged(access)
       IN  IF clean /\ job.submitted.candidate # NoCandidate
             THEN /\ job' = [job EXCEPT !.result.status = "torn"]
                  /\ lost' = (lost \/ gone)
                  /\ Go("rewriting")
             ELSE UNCHANGED jobVars /\ Go("ended")
  /\ UNCHANGED <<benchMode, auditor, supervisor, overlap>>

\* The images are staged and, but for the baseline, the IR is built; any of it may raise.
\* The builder's turns are not audited; its conversation goes on unless it is the
\* specialist's.
Perceive ==
  /\ process.at = "perceiving"
  /\ \/ Go("failed")
     \/ \E read \in BOOLEAN :
          process' = [process EXCEPT
            !.at = "acting", !.iteration = 1,
            !.saw = IF read /\ benchMode = "shared" THEN {"builder"} ELSE {}]
  /\ UNCHANGED <<benchMode, auditor, supervisor, jobVars, overlap>>

\* What a turn may do to the workspace: nothing, or a new candidate.
CandidateAfter(saw) ==
  {job.candidate} \union
    (IF job.present /\ process.edits < CandidateCap
       THEN {[by |-> process.id, version |-> process.edits + 1, tainted |-> saw]} ELSE {})

Leaks(access) == process.leakage \/ Flagged(access)

\* The action turn and its audit; the candidate is copied to a new attempt directory,
\* which must not exist.  Without the job's directories, which another supervisor may have
\* moved away, whatever writes raises.
Act ==
  /\ process.at = "acting" /\ job.present
  /\ \E access \in Accesses :
       LET i == process.iteration
           saw == process.saw \union (IF access = "shown" THEN {"action"} ELSE {})
       IN \E candidate \in CandidateAfter(saw) :
            /\ job' = [job EXCEPT
                 !.candidate = candidate,
                 !.attempts[i] = IF i \in job.made THEN @
                                 ELSE [candidate |-> candidate, ran |-> FALSE],
                 !.made = @ \union {i}]
            /\ process' = IF i \in job.made THEN Process(process.id, "failed")
                 ELSE [process EXCEPT
                           !.at = "executing", !.leakage = Leaks(access), !.passed = ~Flagged(access),
                           !.saw = saw,
                           !.accesses = @ \union ({access} \intersect {"harmless", "shown"}),
                           !.edits = IF candidate = job.candidate THEN @ ELSE @ + 1]
  /\ UNCHANGED <<benchMode, auditor, supervisor, lost, overlap>>

\* The bridge runs the workspace's candidate if the audit passed.
Execute ==
  /\ process.at = "executing" /\ job.present
  /\ \E ran \in BOOLEAN :
       /\ ran => job.candidate # NoCandidate /\ process.passed
       /\ job' = [job EXCEPT !.attempts[process.iteration].ran = ran]
  /\ Go("deciding")
  /\ UNCHANGED <<benchMode, auditor, supervisor, lost, overlap>>

\* The copy in the attempt's directory, not what the workspace holds by now.
Submission(workspace) == job.attempts[process.iteration]

MaySubmit == job.attempts[process.iteration].ran /\ process.passed

\* The decision turn; its audit counts for the specialist only.  A stop on a candidate
\* that ran submits it; otherwise the next iteration follows, if there is one.
Decide ==
  /\ process.at = "deciding" /\ job.present
  /\ \E stop \in BOOLEAN, access \in Accesses :
       LET i == process.iteration
           saw == process.saw \union (IF access = "shown" THEN {"decision"} ELSE {})
           submits == stop /\ MaySubmit
       IN \E candidate \in CandidateAfter(saw) :
            /\ job' = [job EXCEPT !.candidate = candidate,
                                  !.submitted = IF submits THEN Submission(candidate) ELSE @]
            /\ process' = [process EXCEPT
                           !.at = IF submits \/ i = MaxIterations THEN "scoring" ELSE "acting",
                           !.iteration = IF submits \/ i = MaxIterations THEN @ ELSE @ + 1,
                           !.leakage = IF benchMode = "specialist" THEN Leaks(access) ELSE @,
                           !.saw = saw, !.submitted = submits,
                           !.edits = IF candidate = job.candidate THEN @ ELSE @ + 1]
  /\ UNCHANGED <<benchMode, auditor, supervisor, lost, overlap>>

\* Only what was submitted without any leakage is scored.  result.json is written in
\* place: it is opened here and complete when FinishResult wrote it.
Score ==
  /\ process.at = "scoring" /\ job.present
  /\ job' = [job EXCEPT
       !.result = [status |-> "torn", by |-> process.id, accesses |-> process.accesses]]
  /\ Go("writing")
  /\ UNCHANGED <<benchMode, auditor, supervisor, lost, overlap>>

Statuses ==
  CASE process.at = "rewriting" \/ (process.submitted /\ ~process.leakage) ->
         {"scored", "score_failed"}
    [] process.leakage ->
         {IF benchMode = "specialist" THEN "invalid_information_access_audit"
          ELSE "invalid_gt_access_audit"}
    [] OTHER -> {"no_submission"}

FinishResult ==
  /\ process.at \in {"writing", "rewriting"} /\ job.present
  /\ \E status \in Statuses :
       job' = [job EXCEPT !.result.status = status]
  /\ Go("ended")
  /\ UNCHANGED <<benchMode, auditor, supervisor, lost, overlap>>

\* The process dies, or a call raises: of the provider, of the bridge, of the file system.
\* A turn that was under way may have written a candidate.
ProcessDies ==
  /\ Alive
  /\ Go("failed")
  /\ \E candidate \in IF process.at \in {"acting", "deciding"}
                        THEN CandidateAfter(process.saw) ELSE {job.candidate} :
       job' = [job EXCEPT !.candidate = candidate]
  /\ UNCHANGED <<benchMode, auditor, supervisor, lost, overlap>>

\* A newer version of the repository is installed between two calls.
AuditorIsCorrected ==
  /\ auditor = "early" /\ supervisor.at = "ended" /\ ~Alive
  /\ auditor' = "present"
  /\ UNCHANGED <<benchMode, supervisor, process, jobVars, overlap>>

BenchNext ==
  \/ CallSupervisor \/ ArchiveIncomplete \/ LaunchCampaign \/ SeeChildEnd \/ ProgressRaises
  \/ SupervisorDies \/ AuditorIsCorrected
  \/ OpenRecord \/ ReplayAudit \/ Perceive \/ Act \/ Execute \/ Decide
  \/ Score \/ FinishResult \/ ProcessDies

BenchSpec == BenchInit /\ [][BenchNext]_benchVars
-----------------------------------------------------------------------------
(* Properties *)

\* What is scored comes after no action turn whose events show that it read the ground
\* truth, nor, for the specialist, any turn; also when a record is audited again, as long
\* as its events are there.  A turn whose events do not show it is taken for clean.
ScoredIsClean ==
  job.result.status = "scored" /\ ~lost =>
    /\ "action" \notin job.submitted.candidate.tainted
    /\ benchMode = "specialist" => "decision" \notin job.submitted.candidate.tainted

\* A process that is restarted does not inherit the candidate of an interrupted one: what
\* it submits its own agent wrote.
NothingIsInherited ==
  job.result.status \in {"scored", "score_failed"} => job.submitted.candidate.by = job.result.by

\* What was submitted is what was executed and shown to the agent, whatever a turn did to
\* the workspace since.
SubmittedWasRun ==
  job.submitted # NoAttempt => \E i \in Iterations : job.attempts[i] = job.submitted

\* A score is honest, as far as the audit can see: for a candidate that was made without the
\* ground truth, by the agent of the process that reports it, and the one that was run.  It
\* is not once a supervisor was called while a process of an earlier one was at work.
ScoreIsHonest ==
  ~overlap => ScoredIsClean /\ NothingIsInherited /\ SubmittedWasRun
=============================================================================
