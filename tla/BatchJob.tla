------------------------------ MODULE BatchJob ------------------------------
(***************************************************************************)
(* The batch driver (src/evals/cad-1000-hours/scripts/batch_codex.py): main *)
(* runs the jobs of a campaign one after the other and keeps their results *)
(* in results.json; run_job models, verifies and repairs a drawing and     *)
(* keeps the best; a job that raises is started anew.  With an adaptive    *)
(* session a supervisor chooses what comes next and may patch the system.  *)
(* A level is a rounded EQC: TopLevel is complete evidence (success), 0 is *)
(* what a verdict without checks gets.                                     *)
(***************************************************************************)
EXTENDS AdaptiveSession, Sequences

CONSTANTS
  Jobs,         \* how many jobs the campaign has; they are numbered
  MaxAttempts,  \* max_attempts, or max_iterations with a session
  Stagnation,   \* stagnation_limit
  HarnessRetries, \* max_harness_retries
  TopLevel      \* bound: the levels of EQC are 0..TopLevel

ASSUME BatchAssumption ==
  /\ {Jobs, MaxAttempts, Stagnation, TopLevel} \subseteq Nat \ {0}
  /\ HarnessRetries \in Nat

VARIABLES
  adaptive,  \* the campaign has a session
  pinned,    \* campaign-manifest.json: "absent", or what became of its source hashes
  results,   \* results.json: of each job its result; or torn
  mainAt,        \* where main is
  at,        \* the job main is at
  raised,    \* how often that job has raised
  run,       \* the local variables of run_job
  trial      \* those of the attempt at hand

batchVars == <<adaptive, pinned, results, mainAt, at, raised, run, trial>>
batchAll == <<sessionVars, batchVars>>

NoResult == [status |-> "none", settled |-> FALSE, infra |-> FALSE]

NoDiagnostic == [outcome |-> "none", component |-> "none"]

\* attempts: of each attempt the drawing it judged, its level, what covered and infra
\* say of its verdict; best: the attempt selected so far, 0 if none; canonical: the
\* attempt whose drawing candidate.dwg is, 0 if the file is missing; over: the latest
\* attempt was the last one; disturbed: an attempt was cut off, the operator's way if
\* interrupted; failedCode: the latest agent returned an error.
NewRun ==
  [attempts |-> <<>>, best |-> 0, canonical |-> 0, pending |-> "fresh_modeling",
   unchanged |-> 0, asked |-> 0, over |-> FALSE, disturbed |-> FALSE,
   interrupted |-> FALSE, failedCode |-> FALSE, diagnostic |-> NoDiagnostic]

NoTrial ==
  [drawing |-> 0, interrupted |-> FALSE, timedOut |-> FALSE, failedCode |-> FALSE,
   level |-> 0, passed |-> FALSE, covered |-> FALSE, infra |-> FALSE, visualFailed |-> FALSE]

BatchInit ==
  /\ SessionInit
  /\ adaptive \in BOOLEAN
  /\ pinned = "absent"
  /\ results = [torn |-> FALSE, rows |-> [j \in 1..Jobs |-> NoResult]]
  /\ mainAt = "off" /\ at = 0 /\ raised = 0 /\ run = NewRun /\ trial = NoTrial

MainGoes(label) == mainAt' = label

-----------------------------------------------------------------------------
(* main *)

\* load_resumable_results: results that are not settled, and those whose verdict is an
\* infrastructure failure, are taken out of the file.
Resumable(row) == row.settled /\ ~row.infra

\* The sources are still those that the campaign's immutable manifest names: a session's
\* are the files of its workspace.
SourcesAsPinned ==
  adaptive => pinned # "superseded" /\ \A f \in Known : workspace[f] = "recorded"

StartCampaign ==
  /\ mainAt = "off"
  /\ pinned' = IF pinned = "absent" THEN "current" ELSE pinned
  /\ IF ~SourcesAsPinned \/ results.torn
       THEN mainAt' = "off" /\ UNCHANGED <<results, at>>
       ELSE /\ results' = [results EXCEPT !.rows =
                 [j \in 1..Jobs |-> IF Resumable(results.rows[j]) THEN results.rows[j] ELSE NoResult]]
            /\ at' = 1
            /\ MainGoes("next")
  /\ UNCHANGED <<sessionVars, adaptive, raised, run, trial>>

\* A job whose terminal result is on file is skipped.
SkipJob ==
  /\ mainAt = "next" /\ at <= Jobs
  /\ results.rows[at].settled
  /\ at' = at + 1
  /\ UNCHANGED <<sessionVars, adaptive, pinned, results, mainAt, raised, run, trial>>

\* Mutant of BeginJob: a result on file does not suppress the job.
BeginAnyJob ==
  /\ mainAt = "next" /\ at <= Jobs
  /\ raised' = 0 /\ run' = NewRun /\ trial' = NoTrial
  /\ MainGoes("modeling")
  /\ UNCHANGED <<sessionVars, adaptive, pinned, results, at>>

BeginJob ==
  /\ mainAt = "next" /\ at <= Jobs
  /\ ~results.rows[at].settled
  /\ raised' = 0 /\ run' = NewRun /\ trial' = NoTrial
  /\ MainGoes("modeling")
  /\ UNCHANGED <<sessionVars, adaptive, pinned, results, at>>

EndCampaign ==
  /\ mainAt = "next" /\ at > Jobs
  /\ MainGoes("off")
  /\ UNCHANGED <<sessionVars, adaptive, pinned, results, at, raised, run, trial>>

\* The row is written, and the campaign goes on unless an operator is needed.
WriteRow(row, stop) ==
  /\ results' = [results EXCEPT !.rows[at] = row]
  /\ at' = at + 1
  /\ MainGoes(IF stop THEN "off" ELSE "next")
  /\ raised' = 0 /\ run' = NewRun
  /\ UNCHANGED <<sessionVars, adaptive, pinned, trial>>

-----------------------------------------------------------------------------
(* run_job: an attempt *)

Number == Len(run.attempts) + 1
VerifierOnly == run.pending = "retry_verifier"

\* previous_candidate is candidate.dwg as soon as an attempt was selected.
HasPrevious == run.best # 0

\* The agent ran, in its time or not, and left a drawing or none; a retry of the
\* verifier takes candidate.dwg.
RunAgent ==
  /\ mainAt = "modeling"
  /\ VerifierOnly => HasPrevious
  /\ \/ /\ VerifierOnly
        /\ trial' = [NoTrial EXCEPT !.drawing = run.canonical]
        /\ UNCHANGED run
     \/ /\ ~VerifierOnly
        /\ \E left, timedOut, interrupted, failedCode \in BOOLEAN :
             /\ ~(timedOut /\ interrupted) /\ (failedCode => ~timedOut /\ ~interrupted)
             /\ trial' = [NoTrial EXCEPT !.drawing = IF left THEN Number ELSE 0,
                            !.timedOut = timedOut, !.interrupted = interrupted,
                            !.failedCode = failedCode]
             /\ run' = [run EXCEPT !.canonical =
                          IF Number = 1 /\ left THEN 1 ELSE run.canonical]
  /\ MainGoes("verifying")
  /\ UNCHANGED <<sessionVars, adaptive, pinned, results, at, raised>>

\* The assertion of a repair or a verifier retry without a previous candidate.
AssertionFails ==
  /\ mainAt = "modeling"
  /\ VerifierOnly /\ ~HasPrevious
  /\ MainGoes("raised")
  /\ UNCHANGED <<sessionVars, adaptive, pinned, results, at, raised, run, trial>>

\* The verdict of a drawing: complete evidence is a pass, and a visual verifier that
\* fails leaves evidence open.
VerifierVerdicts ==
  {v \in [level : 0..TopLevel, passed : BOOLEAN, covered : BOOLEAN, visualFailed : BOOLEAN] :
     /\ v.level = TopLevel => v.passed
     /\ v.visualFailed => v.level < TopLevel}

\* The verdict is written: of the drawing, of the verifier's failure, or of no drawing.
Verify ==
  /\ mainAt = "verifying"
  /\ \/ /\ trial.drawing # 0
        /\ \E v \in VerifierVerdicts :
             trial' = [trial EXCEPT !.level = v.level, !.passed = v.passed,
                                    !.covered = v.covered, !.visualFailed = v.visualFailed]
     \/ /\ trial.drawing # 0
        /\ trial' = [trial EXCEPT !.infra = TRUE]
     \/ /\ trial.drawing = 0
        /\ UNCHANGED trial
  /\ MainGoes("judging")
  /\ UNCHANGED <<sessionVars, adaptive, pinned, results, at, raised, run>>

Success == trial.level = TopLevel
CoverageGap == adaptive /\ trial.passed /\ ~trial.covered

\* The outcome and the component that the diagnostic names.
Outcome ==
  CASE trial.infra \/ (trial.visualFailed /\ trial.passed) -> "infrastructure_error"
    [] trial.drawing = 0 \/ trial.failedCode \/ trial.timedOut -> "agent_error"
    [] CoverageGap -> "coverage_gap"
    [] Success -> "success"
    [] OTHER -> "evaluation_failure"

DiagnosedComponent ==
  CASE Outcome \in {"infrastructure_error", "coverage_gap"} -> "verifier"
    [] Outcome = "agent_error" -> "harness"
    [] OTHER -> "drawing"

BestLevel == IF run.best = 0 THEN 0 ELSE run.attempts[run.best].level

\* Mutant of Selects: the latest of the best attempts is selected.
SelectsLatest == trial.drawing # 0 /\ (run.best = 0 \/ trial.level >= BestLevel)

\* should_select_checkpoint
Selects == trial.drawing # 0 /\ (run.best = 0 \/ trial.level > BestLevel)

\* The verdict goes to the ledger, the best candidate to candidate.dwg.
Judge ==
  /\ mainAt = "judging"
  /\ LET stagnant == \E k \in DOMAIN run.attempts : trial.level <= run.attempts[k].level
         consults == adaptive /\ (~Success \/ CoverageGap) /\ ~trial.interrupted
     IN  /\ run' = [run EXCEPT
           !.attempts = Append(@, [drawing |-> trial.drawing, level |-> trial.level,
                                   covered |-> trial.covered, infra |-> trial.infra]),
           !.best = IF Selects THEN Number ELSE run.best,
           !.canonical = IF Selects THEN trial.drawing ELSE run.canonical,
           !.unchanged = IF stagnant THEN run.unchanged + 1 ELSE 0,
           !.pending = IF trial.visualFailed /\ trial.passed THEN "retry_verifier"
                                                             ELSE "repair_drawing",
           !.over = \/ Success /\ ~CoverageGap
                    \/ trial.interrupted
                    \/ ~adaptive /\ (trial.infra \/ (~HasPrevious /\ ~Selects)),
           !.disturbed = run.disturbed \/ trial.timedOut \/ trial.interrupted,
           !.interrupted = trial.interrupted,
           !.failedCode = trial.failedCode,
           !.diagnostic = IF consults
             THEN [outcome |-> Outcome, component |-> DiagnosedComponent] ELSE NoDiagnostic]
         /\ MainGoes(IF consults THEN "consulting" ELSE "deciding")
  /\ trial' = NoTrial
  /\ UNCHANGED <<sessionVars, adaptive, pinned, results, at, raised>>

\* The verifier, the ledger or the supervisor raises: the job is given up.
JobRaises ==
  /\ \/ mainAt = "verifying" /\ UNCHANGED request
     \/ mainAt = "supervising" /\ Stage("undecided") /\ request' = NoRequest
  /\ MainGoes("raised")
  /\ UNCHANGED <<workspace, tests, loose, adaptive, pinned, results, at, raised, run, trial>>

-----------------------------------------------------------------------------
(* run_job: the supervisor *)

\* One more decision, unless the job has used up its decisions.
Consult ==
  /\ mainAt = "consulting"
  /\ IF run.asked < MaxAttempts
       THEN /\ BeginDecision(AvailableActions(run.diagnostic.outcome, run.diagnostic.component))
            /\ run' = [run EXCEPT !.asked = @ + 1, !.diagnostic = NoDiagnostic]
            /\ MainGoes("supervising")
       ELSE /\ run' = [run EXCEPT !.pending = "stop", !.diagnostic = NoDiagnostic]
            /\ MainGoes("deciding")
            /\ UNCHANGED sessionVars
  /\ UNCHANGED <<adaptive, pinned, results, at, raised, trial>>

\* The call of the session ends: the job goes on with pending, or asks again.
Answered(pending, label, diagnostic) ==
  /\ mainAt = "supervising"
  /\ request' = NoRequest
  /\ run' = [run EXCEPT !.pending = pending, !.diagnostic = diagnostic]
  /\ MainGoes(label)
  /\ UNCHANGED <<workspace, tests, loose, adaptive, pinned, results, at, raised, trial>>

TakeAction ==
  /\ Stage("chosen") /\ ~EditsSystem(request.action.name)
  /\ Answered(request.action.name, "deciding", NoDiagnostic)

PatchAccepted ==
  /\ Stage("answered") /\ request.passed
  /\ Answered(IF ~HasPrevious THEN "fresh_modeling"
              ELSE IF request.action.name = "patch_verifier" THEN "retry_verifier"
              ELSE "repair_drawing",
              "deciding", NoDiagnostic)

\* Rejected, or an exception left apply_patch: both are reported as rolled back.
PatchRejected ==
  /\ (Stage("answered") /\ ~request.passed) \/ Stage("escaped")
  /\ Answered(run.pending, "consulting",
              [outcome |-> "infrastructure_error", component |-> ComponentOf(request.action.name)])

Supervise ==
  /\ mainAt = "supervising"
  /\ SessionStep
  /\ pinned' = IF RecordVersion /\ request.passed THEN "superseded" ELSE pinned
  /\ UNCHANGED <<adaptive, results, mainAt, at, raised, run, trial>>

-----------------------------------------------------------------------------
(* run_job: the end *)

\* Why no further attempt is made, but for the time budget.
Ends ==
  \/ run.over
  \/ run.pending = "stop"
  \/ run.unchanged >= Stagnation
  \/ Len(run.attempts) = MaxAttempts

NextAttempt ==
  /\ mainAt = "deciding" /\ ~Ends
  /\ MainGoes("modeling")
  /\ UNCHANGED <<sessionVars, adaptive, pinned, results, at, raised, run, trial>>

\* Also when the time budget is used up.
EndAttempts ==
  /\ mainAt = "deciding"
  /\ MainGoes("concluding")
  /\ UNCHANGED <<sessionVars, adaptive, pinned, results, at, raised, run, trial>>

\* A visual verdict needs a drawing, and the first drawing is selected: the case of
\* no selection and a failed visual verifier, "evaluation-incomplete", does not arise.
RowStatus ==
  CASE run.best = 0 /\ run.attempts[Len(run.attempts)].infra -> "harness-error"
    [] run.best = 0 \/ BestLevel < TopLevel -> "failed"
    [] adaptive /\ ~run.attempts[run.best].covered -> "coverage-insufficient"
    [] OTHER -> "passed"

\* The selected attempt's verdict is the result; a job of which an attempt was cut
\* off, or whose last attempt failed, is not settled.
Conclude ==
  /\ mainAt = "concluding"
  /\ WriteRow([status |-> RowStatus,
               settled |-> RowStatus # "harness-error" /\ ~run.disturbed /\ ~run.failedCode,
               infra |-> run.best # 0 /\ run.attempts[run.best].infra],
              run.interrupted \/ RowStatus = "harness-error")

\* run_with_harness_recovery: again from the start in a new directory, or given up.
StartOver ==
  /\ mainAt = "raised" /\ raised < HarnessRetries
  /\ raised' = raised + 1
  /\ run' = NewRun /\ trial' = NoTrial
  /\ MainGoes("modeling")
  /\ UNCHANGED <<sessionVars, adaptive, pinned, results, at>>

GiveUpJob ==
  /\ mainAt = "raised" /\ raised >= HarnessRetries
  /\ WriteRow([status |-> "harness-error", settled |-> FALSE, infra |-> FALSE], TRUE)

-----------------------------------------------------------------------------
(* Death: results.json is written in place *)

BatchDies ==
  /\ mainAt # "off"
  /\ SessionDies
  /\ \/ UNCHANGED results
     \/ /\ mainAt \in {"concluding", "raised"}
        /\ results' = [results EXCEPT !.torn = TRUE]
  /\ MainGoes("off")
  /\ at' = 0 /\ raised' = 0 /\ run' = NewRun /\ trial' = NoTrial
  /\ UNCHANGED <<adaptive, pinned>>

DiesLoading ==
  /\ mainAt = "off"
  /\ SourcesAsPinned
  /\ \E j \in 1..Jobs : results.rows[j] # NoResult /\ ~Resumable(results.rows[j])
  /\ results' = [results EXCEPT !.torn = TRUE]
  /\ UNCHANGED <<sessionVars, adaptive, pinned, mainAt, at, raised, run, trial>>

BatchStep ==
  \/ SkipJob \/ BeginJob \/ EndCampaign
  \/ RunAgent \/ AssertionFails \/ Verify \/ Judge \/ JobRaises
  \/ Consult \/ Supervise \/ TakeAction \/ PatchAccepted \/ PatchRejected
  \/ NextAttempt \/ EndAttempts \/ Conclude \/ StartOver \/ GiveUpJob

BatchNext == BatchStep \/ StartCampaign \/ BatchDies \/ DiesLoading

BatchSpec == BatchInit /\ [][BatchNext]_batchAll

-----------------------------------------------------------------------------
(* Properties *)

\* candidate.dwg is the drawing of the selected attempt, the first of those that
\* reached the highest level a drawing reached in any attempt of the job.
BestIsKept ==
  /\ run.best # 0 => run.canonical = run.attempts[run.best].drawing
  /\ \A k \in DOMAIN run.attempts : run.attempts[k].drawing # 0 =>
       /\ run.best # 0
       /\ run.attempts[k].level <= BestLevel
       /\ k < run.best => run.attempts[k].level < BestLevel

\* A settled result that rests on a verdict is never lost or replaced, however often
\* the campaign is stopped, dies and is started again, as long as the file is whole.
SettledRowsLast ==
  [][\A j \in 1..Jobs : Resumable(results.rows[j]) => results'.rows[j] = results.rows[j]]_batchAll

=============================================================================
