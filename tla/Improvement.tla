----------------------------- MODULE Improvement -----------------------------
(***************************************************************************)
(* ImprovementManager (src/src/cad_evoloop/supervisor/improvement.py) and  *)
(* the A/B orchestrator run_ab.py: proposals are copies of source files    *)
(* that an agent edits; reports compare them with production; a gate       *)
(* decides; promotion copies them over production and can be rolled back.  *)
(* One command runs at a time; it may raise or die between two files, and   *)
(* while it copies one: shutil.copy2 writes the destination in place.      *)
(* A content of a file is 0 as it was at first, or the number of an edit.  *)
(***************************************************************************)
EXTENDS Naturals, FiniteSets

CONSTANTS
  Proposals,
  Sources,        \* the files of all components
  VerifierFiles,  \* those of the component "verifier"
  Scope,          \* of each proposal: the files of its components
  EditCap         \* bound: how many edits agents make

ASSUME ImprovementAssumption ==
  /\ VerifierFiles \subseteq Sources /\ EditCap \in Nat
  /\ Scope \in [Proposals -> SUBSET Sources]

NoContent == EditCap + 1   \* the manifest has no after_sha256 yet
Torn == EditCap + 2        \* what a copy that was cut short leaves

VARIABLES
  production,  \* of each source file: its content
  proposal,    \* of each proposal: its manifest and its workspace
  release,     \* of each proposal: what is below releases/<id>
  current,     \* current.json
  report,      \* of each proposal: whether there are reports (which candidate they are of
               \* no gate asks)
  command,     \* promote or rollback: the proposal and the files still to copy
  edits,       \* how many edits were made
  gated,       \* history: the contents that a passed gate saw, by file
  cutShort     \* history: a promotion or rollback ended before its last write

improvementVars ==
  <<production, proposal, release, current, report, command, edits, gated, cutShort>>

NoFiles == [f \in Sources |-> NoContent]
NoCommand == [name |-> "none", id |-> "none", left |-> {}, wrote |-> FALSE]
Absent == [status |-> "absent", before |-> NoFiles, work |-> NoFiles, after |-> NoFiles]
NoRelease == [state |-> "absent", before |-> NoFiles, source |-> NoFiles]

ImprovementInit ==
  /\ production = [f \in Sources |-> 0]
  /\ proposal = [p \in Proposals |-> Absent]
  /\ release = [p \in Proposals |-> NoRelease]
  /\ current = [kind |-> "none", id |-> "none"]
  /\ report = [p \in Proposals |-> FALSE]
  /\ command = NoCommand
  /\ edits = 0 /\ gated = {} /\ cutShort = FALSE

NoCommandRuns == command = NoCommand
HasManifest(p) == proposal[p].status \notin {"absent", "torn"}
SetStatus(p, status) == proposal' = [proposal EXCEPT ![p].status = status]

-----------------------------------------------------------------------------
(* Proposals *)

\* The files are copied from production; with too little evidence all is removed again
\* (no change), and a process that dies leaves a directory without a manifest.
CreateProposal(p) ==
  /\ NoCommandRuns /\ proposal[p].status = "absent"
  /\ LET copy == [f \in Sources |-> IF f \in Scope[p] THEN production[f] ELSE NoContent]
     IN  \/ proposal' = [proposal EXCEPT ![p] =
              [status |-> "draft", before |-> copy, work |-> copy, after |-> NoFiles]]
         \/ SetStatus(p, "torn")
  /\ UNCHANGED <<production, release, current, report, command, edits, gated, cutShort>>

\* What the agent leaves in the workspace: an edit, or what was there.
Edited(p, touched) ==
  [f \in Sources |-> IF f \in touched THEN edits + 1 ELSE proposal[p].work[f]]

\* run_agent and finalize_agent_changes: evidence, access and files are checked first.
RunImprovementAgent(p) ==
  /\ NoCommandRuns /\ HasManifest(p) /\ edits < EditCap
  /\ edits' = edits + 1
  /\ \E touched \in SUBSET Scope[p], honest \in BOOLEAN :
       LET work == Edited(p, touched)
       IN  proposal' = [proposal EXCEPT ![p] =
             IF honest
               THEN [@ EXCEPT !.work = work, !.after = work,
                       !.status = IF work = proposal[p].before THEN "no-change" ELSE "proposed"]
               ELSE [@ EXCEPT !.work = work, !.status = "invalid"]]
  /\ UNCHANGED <<production, release, current, report, command, gated, cutShort>>

\* It times out or the process dies: nothing is finalized.
ImprovementAgentCutOff(p) ==
  /\ NoCommandRuns /\ HasManifest(p) /\ edits < EditCap
  /\ edits' = edits + 1
  /\ \E touched \in SUBSET Scope[p] :
       proposal' = [proposal EXCEPT ![p].work = Edited(p, touched)]
  /\ UNCHANGED <<production, release, current, report, command, gated, cutShort>>

\* Both batches ran and their reports are written.
BuildReports(p) ==
  /\ NoCommandRuns /\ proposal[p].status \in {"proposed", "gate-passed", "gate-rejected"}
  /\ report' = [report EXCEPT ![p] = TRUE]
  /\ UNCHANGED <<production, proposal, release, current, command, edits, gated, cutShort>>

VerifierChanged(p) ==
  \E f \in VerifierFiles \intersect Scope[p] : proposal[p].after[f] # proposal[p].before[f]

\* The metrics compare as they do; a changed verifier needs an approval.
Gate(p) ==
  /\ NoCommandRuns /\ HasManifest(p) /\ report[p]
  /\ \E better, approved \in BOOLEAN :
       LET passed == better /\ (VerifierChanged(p) => approved)
       IN  /\ SetStatus(p, IF passed THEN "gate-passed" ELSE "gate-rejected")
           /\ gated' = IF passed THEN gated \union {<<f, proposal[p].after[f]>> : f \in Scope[p]}
                                 ELSE gated
  /\ UNCHANGED <<production, release, current, report, command, edits, cutShort>>

-----------------------------------------------------------------------------
(* Releases *)

\* The directory of the release must be new.
BeginPromotion(p) ==
  /\ NoCommandRuns /\ proposal[p].status = "gate-passed" /\ release[p].state = "absent"
  /\ release' = [release EXCEPT ![p].state = "partial"]
  /\ command' = [name |-> "promote", id |-> p, left |-> Scope[p], wrote |-> FALSE]
  /\ UNCHANGED <<production, proposal, current, report, edits, gated, cutShort>>

\* Mutant of PromoteFile: the candidate's hash is not compared.
PromoteAnyFile ==
  /\ command.name = "promote"
  /\ \E f \in command.left :
       LET p == command.id IN
         /\ release' = [release EXCEPT ![p].before[f] = production[f],
                                       ![p].source[f] = proposal[p].work[f]]
         /\ production' = [production EXCEPT ![f] = proposal[p].work[f]]
         /\ command' = [command EXCEPT !.left = @ \ {f}, !.wrote = TRUE]
  /\ UNCHANGED <<proposal, current, report, edits, gated, cutShort>>

\* A file is archived and replaced, if the candidate is what the manifest says.
PromoteFile ==
  /\ command.name = "promote"
  /\ \E f \in command.left :
       LET p == command.id IN
         /\ proposal[p].work[f] = proposal[p].after[f]
         /\ release' = [release EXCEPT ![p].before[f] = production[f],
                                       ![p].source[f] = proposal[p].work[f]]
         /\ production' = [production EXCEPT ![f] = proposal[p].work[f]]
         /\ command' = [command EXCEPT !.left = @ \ {f}, !.wrote = TRUE]
  /\ UNCHANGED <<proposal, current, report, edits, gated, cutShort>>

\* The candidate changed after gating: what was copied so far stays.
PromotionRaises ==
  /\ command.name = "promote"
  /\ \E f \in command.left : proposal[command.id].work[f] # proposal[command.id].after[f]
  /\ command' = NoCommand
  /\ cutShort' = (cutShort \/ command.wrote)
  /\ UNCHANGED <<production, proposal, release, current, report, edits, gated>>

\* Three files are written: the release's manifest, current.json, the proposal's manifest.
WriteRelease ==
  /\ command.name = "promote" /\ command.left = {}
  /\ \/ /\ release[command.id].state = "partial"
        /\ release' = [release EXCEPT ![command.id].state = "complete"]
        /\ UNCHANGED <<current, proposal, command>>
     \/ /\ release[command.id].state = "complete"
        /\ current # [kind |-> "release", id |-> command.id]
        /\ current' = [kind |-> "release", id |-> command.id]
        /\ UNCHANGED <<release, proposal, command>>
     \/ /\ current = [kind |-> "release", id |-> command.id]
        /\ SetStatus(command.id, "promoted")
        /\ command' = NoCommand
        /\ UNCHANGED <<release, current>>
  /\ UNCHANGED <<production, report, edits, gated, cutShort>>

BeginRollback(r) ==
  /\ NoCommandRuns /\ release[r].state = "complete"
  /\ command' = [name |-> "rollback", id |-> r, left |-> Scope[r], wrote |-> FALSE]
  /\ UNCHANGED <<production, proposal, release, current, report, edits, gated, cutShort>>

RollBackFile ==
  /\ command.name = "rollback"
  /\ \E f \in command.left :
       /\ production' = [production EXCEPT ![f] = release[command.id].before[f]]
       /\ command' = [command EXCEPT !.left = @ \ {f}, !.wrote = TRUE]
  /\ UNCHANGED <<proposal, release, current, report, edits, gated, cutShort>>

WriteRollback ==
  /\ command.name = "rollback" /\ command.left = {}
  /\ current' = [kind |-> "rollback", id |-> command.id]
  /\ command' = NoCommand
  /\ UNCHANGED <<production, proposal, release, report, edits, gated, cutShort>>

\* The process dies, or a call raises: between two writes.
CommandDies ==
  /\ ~NoCommandRuns
  /\ command' = NoCommand
  /\ cutShort' = (cutShort \/ command.wrote \/ command.left = {})
  /\ UNCHANGED <<production, proposal, release, current, report, edits, gated>>

\* The same while a production file is written; what a promotion tears below releases/ has
\* no manifest and is never read.
CommandTears ==
  /\ ~NoCommandRuns
  /\ \E f \in command.left :
       /\ command.name = "promote" => proposal[command.id].work[f] = proposal[command.id].after[f]
       /\ production' = [production EXCEPT ![f] = Torn]
  /\ command' = NoCommand
  /\ cutShort' = TRUE
  /\ UNCHANGED <<proposal, release, current, report, edits, gated>>

ImprovementNext ==
  \/ \E p \in Proposals :
       \/ CreateProposal(p) \/ RunImprovementAgent(p) \/ ImprovementAgentCutOff(p)
       \/ BuildReports(p) \/ Gate(p) \/ BeginPromotion(p) \/ BeginRollback(p)
  \/ PromoteFile \/ PromotionRaises \/ WriteRelease \/ RollBackFile \/ WriteRollback
  \/ CommandDies \/ CommandTears

ImprovementSpec == ImprovementInit /\ [][ImprovementNext]_improvementVars

-----------------------------------------------------------------------------
(* Properties *)

\* Whatever runs in production but for the first sources was seen by a gate that
\* passed, file by file: edits that come after it are never promoted.  The exception is a
\* file that a promotion or rollback was cut short in, which a later one may bring back.
ProductionIsGated ==
  \A f \in Sources :
    \/ production[f] = 0
    \/ <<f, production[f]>> \in gated
    \/ production[f] = Torn /\ cutShort

\* current.json tells what is in production: the files of the release it names, or
\* those that release had replaced, as long as every promotion and rollback ran to its
\* end.
CurrentIsLive ==
  NoCommandRuns /\ ~cutShort =>
    /\ current.kind = "none" => \A f \in Sources : production[f] = 0
    /\ current.kind = "release" =>
         \A f \in Scope[current.id] : production[f] = release[current.id].source[f]
    /\ current.kind = "rollback" =>
         \A f \in Scope[current.id] : production[f] = release[current.id].before[f]


\* What runs in production was gated, and current.json tells what that is; both as far
\* as commands run to their end.
ProductionIsAccounted == ProductionIsGated /\ CurrentIsLive
=============================================================================
