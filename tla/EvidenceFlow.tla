----------------------------- MODULE EvidenceFlow -----------------------------
(***************************************************************************)
(* What the conversations of one geometry job are shown, under each         *)
(* reconstruction mode: the inputs staged by run_geometry_job               *)
(* (evaluation/geometry_campaign.py), the reconstruction IR that a builder   *)
(* makes and a gate accepts (evaluation/reconstruction_ir.py), the action   *)
(* turns and the decision turns.  The candidate, its verdict and the retry  *)
(* of a decision turn are modelled by GeometryJob.                          *)
(***************************************************************************)
EXTENDS DependencyGraph, Sequences

CONSTANTS
  BuildAttempts, \* IR_BUILDER_MAX_ATTEMPTS
  MaxActions,    \* max_iterations
  CallCap        \* bound: how often run_geometry_job is called

ASSUME EvidenceAssumption ==
  BuildAttempts \in Nat \ {0} /\ MaxActions \in Nat \ {0} /\ CallCap \in Nat

VARIABLES
  condition,  \* the mode and the optional inputs: feedback and an oracle packet
  jobDir,     \* the job directory: staged, the IR, its build record, executor workspace
  jobCall,       \* the call of run_geometry_job that is under way
  saved,      \* the thread that recovery-state.json knows, the phase of its attempt
  threads,    \* of each conversation so far: what it was given, what lay in its cwd
  jobCalls,      \* how often run_geometry_job was called
  mislaid     \* history: a build failed, which leaves a record without a conversation

evidenceVars == <<condition, jobDir, jobCall, saved, threads, jobCalls, mislaid>>

Modes == {"baseline", "forced_ir", "specialist_ir", "oracle_ir"}

\* run_geometry_job refuses what is not here: an oracle IR needs an oracle packet, a
\* built one must not have any.
Conditions ==
  {c \in [mode : Modes, feedback : BOOLEAN, oracle : {"none", "perception", "ordered"}] :
     /\ c.mode = "oracle_ir" => c.oracle # "none"
     /\ c.mode \in {"forced_ir", "specialist_ir"} => c.oracle = "none"}

NoThread == 0
NoJobCall == [at |-> "off", handle |-> NoThread, tries |-> 0, builder |-> NoThread, thread |-> NoThread,
         actions |-> 0]

-----------------------------------------------------------------------------
(* The intermediate representation *)

\* What the gate looks at: the features and what each depends on; wellFormed stands for
\* the checks of single entries, of identifiers and of references other than these.
NoIR == [wellFormed |-> FALSE, dependencies |-> <<>>]
Replies == {NoIR} \union [wellFormed : {TRUE}, dependencies : Graphs]

\* validate_reconstruction_ir found no error.
Validated(reply) ==
  /\ reply.wellFormed
  /\ \A f \in DOMAIN reply.dependencies :
       reply.dependencies[f] \subseteq DOMAIN reply.dependencies
  /\ ~Cyclic(reply.dependencies)

\* oracle_packet_to_reconstruction_ir: an inventory without any order.
OracleIR == [wellFormed |-> TRUE, dependencies |-> [f \in Features |-> {}]]

-----------------------------------------------------------------------------
EvidenceInit ==
  /\ condition \in Conditions
  /\ jobDir = [staged |-> FALSE, ir |-> [state |-> "absent", value |-> NoIR, by |-> NoThread],
               record |-> [state |-> "absent", thread |-> NoThread], workspace |-> FALSE]
  /\ jobCall = NoJobCall
  /\ saved = [thread |-> NoThread, phase |-> "none", actions |-> 0]
  /\ threads = <<>>
  /\ jobCalls = 0
  /\ mislaid = FALSE

Isolated == condition.mode \in {"specialist_ir", "oracle_ir"}
WithIR == condition.mode # "baseline"
Raises == jobCall' = NoJobCall

Threads == DOMAIN threads
NewThread(given, near) == Append(threads, [given |-> given, near |-> near])
Shown(thread, given, near) ==
  [threads EXCEPT ![thread] = [given |-> @.given \union given, near |-> @.near \union near]]

\* What a turn finds in its working directory.
InJobDir ==
  {"images"} \union (IF condition.feedback THEN {"feedback"} ELSE {})
             \union (IF condition.oracle # "none" THEN {"oracle"} ELSE {})
InWorkspace == {"ir"}

\* The gate that was passed, with the IR.
InIRPrompt == IF WithIR THEN {"ir"} ELSE {}

\* What the prompt of an action embeds.
InPrompt ==
  (IF condition.feedback THEN {"feedback"} ELSE {})
    \union (IF condition.oracle # "none" THEN {"oracle"} ELSE {})
    \union InIRPrompt

-----------------------------------------------------------------------------
(* run_geometry_job up to the loop *)

\* The first call stages the inputs; a later one finds them.
CallJob ==
  /\ jobCall.at = "off" /\ jobCalls < CallCap
  /\ jobCalls' = jobCalls + 1
  /\ jobDir' = [jobDir EXCEPT !.staged = TRUE]
  /\ jobCall' = [NoJobCall EXCEPT !.at = IF WithIR THEN "looking" ELSE "binding"]
  /\ UNCHANGED <<condition, saved, threads, mislaid>>

\* An IR whose build is on record is not built again.
HasIR == jobDir.ir.state # "absent" /\ jobDir.record.state # "absent"
IsTorn == "torn" \in {jobDir.ir.state, jobDir.record.state}

FindIR ==
  /\ jobCall.at = "looking" /\ HasIR
  /\ IF IsTorn
       THEN Raises
       ELSE jobCall' = [jobCall EXCEPT !.at = "binding", !.builder = jobDir.record.thread]
  /\ UNCHANGED <<condition, jobDir, saved, threads, jobCalls, mislaid>>

\* Of the packets only the unordered one can be translated.
TranslateOracle ==
  /\ jobCall.at = "looking" /\ ~HasIR /\ condition.mode = "oracle_ir"
  /\ IF condition.oracle = "perception"
       THEN /\ jobDir' = [jobDir EXCEPT !.ir = [state |-> "torn", value |-> OracleIR,
                                                by |-> NoThread]]
            /\ jobCall' = [jobCall EXCEPT !.at = "writing"]
       ELSE Raises /\ UNCHANGED jobDir
  /\ UNCHANGED <<condition, saved, threads, jobCalls, mislaid>>

BeginBuild ==
  /\ jobCall.at = "looking" /\ ~HasIR /\ condition.mode # "oracle_ir"
  /\ jobCall' = [jobCall EXCEPT !.at = "building"]
  /\ UNCHANGED <<condition, jobDir, saved, threads, jobCalls, mislaid>>

\* The outcome of a turn of the builder, in the given conversation.
JudgeIR(reply, thread) ==
  IF Validated(reply)
    THEN /\ jobDir' = [jobDir EXCEPT !.ir = [state |-> "torn", value |-> reply, by |-> thread]]
         /\ jobCall' = [jobCall EXCEPT !.at = "writing", !.builder = thread, !.handle = thread]
    ELSE /\ UNCHANGED jobDir
         /\ jobCall' = [jobCall EXCEPT !.tries = @ + 1, !.handle = thread,
                                 !.at = IF jobCall.tries + 1 = BuildAttempts THEN "failing" ELSE @]

\* The first turn has the images.  A conversation that never got a name gave no reply
\* either, and cannot be gone on with.
StartBuilder ==
  /\ jobCall.at = "building" /\ jobCall.tries = 0
  /\ \/ /\ threads' = NewThread({"images"}, InJobDir)
        /\ \E reply \in Replies : JudgeIR(reply, Len(threads'))
     \/ UNCHANGED threads /\ JudgeIR(NoIR, NoThread)
  /\ UNCHANGED <<condition, saved, jobCalls, mislaid>>

\* A turn that corrects has the errors only.
CorrectIR ==
  /\ jobCall.at = "building" /\ jobCall.tries > 0
  /\ IF jobCall.handle = NoThread
       THEN UNCHANGED threads /\ JudgeIR(NoIR, NoThread)
       ELSE /\ threads' = Shown(jobCall.handle, {}, InJobDir)
            /\ \E reply \in Replies : JudgeIR(reply, jobCall.handle)
  /\ UNCHANGED <<condition, saved, jobCalls, mislaid>>

\* A record that names no conversation, and an exception.
FailBuild ==
  /\ jobCall.at = "failing"
  /\ jobDir' = [jobDir EXCEPT !.record = [state |-> "failed", thread |-> NoThread]]
  /\ mislaid' = TRUE
  /\ Raises
  /\ UNCHANGED <<condition, saved, threads, jobCalls>>

\* reconstruction-ir.json is whole; ir-validation.json follows.
WriteIR ==
  /\ jobCall.at = "writing"
  /\ jobDir' = [jobDir EXCEPT !.ir.state = "whole"]
  /\ jobCall' = [jobCall EXCEPT !.at = "recording"]
  /\ UNCHANGED <<condition, saved, threads, jobCalls, mislaid>>

WriteRecord ==
  /\ jobCall.at = "recording"
  /\ jobDir' = [jobDir EXCEPT !.record = [state |-> "passed", thread |-> jobCall.builder]]
  /\ jobCall' = [jobCall EXCEPT !.at = "binding"]
  /\ UNCHANGED <<condition, saved, threads, jobCalls, mislaid>>

\* Mutant of FirstThread: whoever built the IR goes on.
FirstThreadAlways == IF saved.thread # NoThread THEN saved.thread ELSE jobCall.builder

\* The conversation that a call goes on with.
FirstThread ==
  IF saved.thread # NoThread THEN saved.thread
  ELSE IF condition.mode = "forced_ir" THEN jobCall.builder ELSE NoThread

\* task.json is bound to the IR; an isolated executor gets a workspace without images.
BindIR ==
  /\ jobCall.at = "binding"
  /\ jobDir' = [jobDir EXCEPT !.workspace = Isolated]
  /\ jobCall' = [jobCall EXCEPT !.thread = FirstThread, !.actions = saved.actions,
                          !.at = IF saved.phase \in {"acted", "verified"} THEN saved.phase
                                 ELSE "acting"]
  /\ UNCHANGED <<condition, saved, threads, jobCalls, mislaid>>

-----------------------------------------------------------------------------
(* The loop *)

\* An action turn starts a conversation, or goes on with the one there is.  Images are
\* attached at the start of a baseline job only.  A new conversation may end without an
\* identifier.
ActTurn ==
  /\ jobCall.at = "acting"
  /\ LET near == IF Isolated THEN InWorkspace ELSE InJobDir
         attached == IF WithIR THEN {} ELSE {"images"}
     IN  IF jobCall.thread = NoThread
           THEN /\ threads' = NewThread(attached \union InPrompt, near)
                /\ \E named \in BOOLEAN :
                     jobCall' = [jobCall EXCEPT !.at = "checkpoint",
                                          !.thread = IF named THEN Len(threads') ELSE NoThread]
           ELSE /\ threads' = Shown(jobCall.thread, InPrompt, near)
                /\ jobCall' = [jobCall EXCEPT !.at = "checkpoint"]
  /\ UNCHANGED <<condition, jobDir, saved, jobCalls, mislaid>>

\* action_completed: an identifier that was not there before is saved.
CheckpointAction ==
  /\ jobCall.at = "checkpoint"
  /\ saved' = [saved EXCEPT !.phase = "acted", !.thread = jobCall.thread]
  /\ jobCall' = [jobCall EXCEPT !.at = "acted"]
  /\ UNCHANGED <<condition, jobDir, threads, jobCalls, mislaid>>

CheckpointVerdict ==
  /\ jobCall.at = "acted"
  /\ saved' = [saved EXCEPT !.phase = "verified", !.thread = jobCall.thread]
  /\ jobCall' = [jobCall EXCEPT !.at = "verified"]
  /\ UNCHANGED <<condition, jobDir, threads, jobCalls, mislaid>>

\* A decision turn runs in the job directory, whatever the mode.  Without a conversation
\* there is no decision, and the job ends.
DecideTurn ==
  /\ jobCall.at = "verified"
  /\ IF jobCall.thread = NoThread
       THEN UNCHANGED threads /\ jobCall' = [jobCall EXCEPT !.at = "ended"]
       ELSE /\ threads' = Shown(jobCall.thread, {"verdict"}, InJobDir)
            /\ \E continues \in BOOLEAN :
                 jobCall' = [jobCall EXCEPT !.at = IF continues /\ jobCall.actions + 1 < MaxActions
                                             THEN "completing" ELSE "ended"]
  /\ UNCHANGED <<condition, jobDir, saved, jobCalls, mislaid>>

CompleteAction ==
  /\ jobCall.at = "completing"
  /\ saved' = [saved EXCEPT !.phase = "none", !.actions = @ + 1]
  /\ jobCall' = [jobCall EXCEPT !.at = "acting", !.actions = @ + 1]
  /\ UNCHANGED <<condition, jobDir, threads, jobCalls, mislaid>>

\* The process dies, or anything it does raises; the build record is written in place.
JobDies ==
  /\ jobCall.at \notin {"off", "ended"}
  /\ Raises
  /\ \/ UNCHANGED jobDir
     \/ /\ jobCall.at \in {"failing", "recording"}
        /\ jobDir' = [jobDir EXCEPT !.record = [state |-> "torn", thread |-> NoThread]]
  /\ UNCHANGED <<condition, saved, threads, jobCalls, mislaid>>

EvidenceNext ==
  \/ CallJob \/ FindIR \/ TranslateOracle \/ BeginBuild \/ StartBuilder \/ CorrectIR
  \/ FailBuild \/ WriteIR \/ WriteRecord \/ BindIR
  \/ ActTurn \/ CheckpointAction \/ CheckpointVerdict \/ DecideTurn \/ CompleteAction \/ JobDies

EvidenceSpec == EvidenceInit /\ [][EvidenceNext]_evidenceVars

-----------------------------------------------------------------------------
(* Properties *)

\* The conversation that models, once it was given a prompt.
Executing == {t \in Threads : "verdict" \in threads[t].given \/ "ir" \in threads[t].given}

\* An isolated executor is never given an image, nor goes on with a conversation that
\* was: not after a restart, nor when the first conversation was lost.
IsolatedGetsNoImage ==
  Isolated => \A t \in Executing : "images" \notin threads[t].given

\* In forced_ir the conversation that models is the one that made the IR, across
\* restarts, as long as no build has failed.
ForcedThreadIsBuilder ==
  condition.mode = "forced_ir" /\ ~mislaid => \A t \in Executing : t = jobDir.ir.by

\* An IR that models are built from has an order in which its features can be made, and
\* refers to nothing that is not there.
AcceptedIsSound ==
  jobDir.ir.state = "whole" =>
    LET graph == jobDir.ir.value.dependencies
    IN  \A some \in (SUBSET DOMAIN graph) \ {{}} :
          /\ \E f \in some : graph[f] \intersect some = {}
          /\ \A f \in some : graph[f] \subseteq DOMAIN graph

\* Each mode is what it says: who models, from which evidence, by which IR.
ModeIsHonoured == IsolatedGetsNoImage /\ ForcedThreadIsBuilder /\ AcceptedIsSound

\* What docs/RECONSTRUCTION_IR_ABLATION.md:29-30 says: the CAD agent runs in an image-free
\* workspace and receives only the IR.
ExecutorSeesNoImage ==
  Isolated => \A t \in Executing : "images" \notin threads[t].near
=============================================================================
