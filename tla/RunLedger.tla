------------------------------ MODULE RunLedger ------------------------------
(***************************************************************************)
(* One run of the ledger (src/src/cad_evoloop/ledger/ledger.py): run.json, *)
(* trajectory.jsonl and the SQLite index are three stores, written one     *)
(* after the other under a lock that dies with its holder.                 *)
(***************************************************************************)
EXTENDS RunManifest, FiniteSets

CONSTANTS
  Processes,    \* users of the ledger: the campaign, the verifier, the command line
  AuditEvents,  \* the lines of the audit file that belong to this run
  None,         \* neither a process nor an audit event
  EventCap,     \* bound: lines of the trajectory
  AttemptCap,   \* bound: attempts
  CrashCap      \* bound: processes that die

ASSUME LedgerAssumption ==
  /\ None \notin Processes \union AuditEvents
  /\ EventCap \in Nat /\ AttemptCap \in Nat /\ CrashCap \in Nat

VARIABLES
  manifest,    \* run.json: its attempts and result, its artifacts, its event count
  trajectory,  \* trajectory.jsonl
  index,       \* the result the SQLite row shows
  lock,        \* who holds .ledger.lock
  pc,          \* of each process: where it is
  call,        \* of each process: the call it is in
  copy,        \* of each process: the manifest it has read
  pending,     \* of each process: audit events it has yet to import
  beside,      \* history: the unlocked readers that ran beside a call that conflicts
  crashes      \* how many processes died

Stores == <<manifest, trajectory, index>>
ledgerVars == <<Stores, lock, pc, call, copy, pending, beside, crashes>>

NoRun == [exists |-> FALSE, book |-> EmptyBook, artifacts |-> 0, count |-> 0]
\* "verdict" is the first half of finish, which records the verdict file as an artifact.
Calls ==
  [kind : {"event"}, source : AuditEvents \union {None}]
    \union [kind : {"attempt"}]
    \union [kind : {"artifact", "select"}, attempt : 1..AttemptCap]
    \union [kind : {"verdict", "finish"}, attempt : 1..AttemptCap, verdict : Verdicts]

NoCall == [kind |-> "none"]

\* What a line of the trajectory tells: of an imported audit event, of a change to an
\* attempt, or of nothing the manifest holds.
Told(c) ==
  CASE c.kind = "event" -> <<"event", c.source>>
    [] c.kind = "attempt" -> <<"attempt", None>>
    [] c.kind \in {"artifact", "verdict"} -> <<"artifact", None>>
    [] OTHER -> <<c.kind, c.attempt>>

Telling(what) == {i \in 1..Len(trajectory) : trajectory[i].told = what}

LedgerInit ==
  /\ manifest = NoRun
  /\ trajectory = <<>>
  /\ index = Unverified
  /\ lock = None
  /\ pc = [p \in Processes |-> "idle"]
  /\ call = [p \in Processes |-> NoCall]
  /\ copy = [p \in Processes |-> NoRun]
  /\ pending = [p \in Processes |-> {}]
  /\ beside = {}
  /\ crashes = 0

Goto(p, label) == pc' = [pc EXCEPT ![p] = label]

Idle(p) ==
  /\ Goto(p, "idle")
  /\ call' = [call EXCEPT ![p] = NoCall]
  /\ copy' = [copy EXCEPT ![p] = NoRun]
  /\ pending' = [pending EXCEPT ![p] = {}]

-----------------------------------------------------------------------------
(* Calls *)

Importing(p) == pc[p] = "importing" \/ (call[p].kind = "event" /\ call[p].source # None)
Reindexing(p) == pc[p] \in {"reindexing", "inserting"}

\* What a process that begins something runs beside.
Beside(p, kind) ==
  LET others == Processes \ {p}
  IN  beside \union
        {k \in {"ingest", "reindex"} :
           \/ k = "ingest" /\ kind = "ingest" /\ \E q \in others : Importing(q)
           \/ k = "reindex" /\ \E q \in others : Reindexing(q)
           \/ k = "reindex" /\ kind = "reindex" /\ \E q \in others : pc[q] # "idle"}

\* start writes the manifest without the lock, then appends run.started.
Start(p) ==
  /\ pc[p] = "idle"
  /\ ~manifest.exists
  /\ manifest' = [NoRun EXCEPT !.exists = TRUE]
  /\ call' = [call EXCEPT ![p] = [kind |-> "event", source |-> None]]
  /\ Goto(p, "waiting")
  /\ UNCHANGED <<trajectory, index, lock, copy, pending, beside, crashes>>

\* event, add_attempt, add_artifact, finish and select_attempt.
Call(p) ==
  /\ pc[p] = "idle"
  /\ manifest.exists
  /\ Len(trajectory) < EventCap
  /\ \E c \in Calls :
       /\ c.kind # "finish"
       /\ c.kind = "event" => c.source = None
       /\ c.kind = "attempt" => Len(manifest.book.attempts) < AttemptCap
       /\ call' = [call EXCEPT ![p] = c]
  /\ Goto(p, "waiting")
  /\ beside' = Beside(p, "call")
  /\ UNCHANGED <<Stores, lock, copy, pending, crashes>>

Reading(p) ==
  /\ copy' = [copy EXCEPT ![p] = manifest]
  /\ Goto(p, IF call[p].kind = "event" THEN "appending" ELSE "updating")
  /\ UNCHANGED <<Stores, call, pending, beside, crashes>>

\* Mutant of Acquire: the lock file is opened but not locked.
AcquireNothing(p) ==
  /\ pc[p] = "waiting"
  /\ Len(trajectory) < EventCap
  /\ UNCHANGED lock
  /\ Reading(p)

\* The first thing done under the lock is to read the manifest.
Acquire(p) ==
  /\ pc[p] = "waiting"
  /\ Len(trajectory) < EventCap
  /\ lock = None
  /\ lock' = p
  /\ Reading(p)

\* Calls that raise: an unknown attempt, or the selection of an unverified one.
Refused(m, c) ==
  \/ c.kind \in {"artifact", "verdict", "finish"} /\ c.attempt \notin Attempts(m.book)
  \/ c.kind = "select" /\ ~Verified(m.book, c.attempt)

Refuse(p) ==
  /\ pc[p] = "updating"
  /\ Refused(copy[p], call[p])
  /\ lock' = None
  /\ Idle(p)
  /\ UNCHANGED <<Stores, beside, crashes>>

\* What a call makes of the manifest it read.
Updated(m, c) ==
  CASE c.kind = "attempt" -> [m EXCEPT !.book = WithAttempt(m.book)]
    [] c.kind = "finish" -> [m EXCEPT !.book = WithVerdict(m.book, c.attempt, c.verdict)]
    [] c.kind = "select" -> [m EXCEPT !.book = WithSelection(m.book, c.attempt)]
    [] OTHER -> [m EXCEPT !.artifacts = @ + 1]

WriteManifest(p) ==
  /\ pc[p] = "updating"
  /\ ~Refused(copy[p], call[p])
  /\ manifest' = Updated(copy[p], call[p])
  /\ Goto(p, "appending")
  /\ UNCHANGED <<trajectory, index, lock, call, copy, pending, beside, crashes>>

-----------------------------------------------------------------------------
(* _append_event_unlocked *)

\* Mutant of AppendLine: the manifest is not read again.
AppendLineFromCopy(p) ==
  /\ pc[p] = "appending"
  /\ trajectory' = Append(trajectory, [sequence |-> copy[p].count + 1, told |-> Told(call[p])])
  /\ Goto(p, "counting")
  /\ UNCHANGED <<manifest, index, lock, call, copy, pending, beside, crashes>>

AppendLine(p) ==
  /\ pc[p] = "appending"
  /\ copy' = [copy EXCEPT ![p] = manifest]
  /\ trajectory' = Append(trajectory, [sequence |-> manifest.count + 1, told |-> Told(call[p])])
  /\ Goto(p, "counting")
  /\ UNCHANGED <<manifest, index, lock, call, pending, beside, crashes>>

WriteCount(p) ==
  /\ pc[p] = "counting"
  /\ manifest' = [copy[p] EXCEPT !.count = @ + 1]
  /\ copy' = [copy EXCEPT ![p] = manifest']
  /\ Goto(p, "indexing")
  /\ UNCHANGED <<trajectory, index, lock, call, pending, beside, crashes>>

\* The lock is released; finish has a second half, and an import its next event.
Return(p) ==
  /\ lock' = None
  /\ \/ /\ call[p].kind = "verdict"
        /\ call' = [call EXCEPT ![p] = [@ EXCEPT !.kind = "finish"]]
        /\ Goto(p, "waiting")
        /\ UNCHANGED <<copy, pending>>
     \/ /\ Importing(p)
        /\ call' = [call EXCEPT ![p] = NoCall]
        /\ Goto(p, "importing")
        /\ UNCHANGED <<copy, pending>>
     \/ call[p].kind # "verdict" /\ ~Importing(p) /\ Idle(p)

UpdateIndex(p) ==
  /\ pc[p] = "indexing"
  /\ index' = copy[p].book.result
  /\ Return(p)
  /\ UNCHANGED <<manifest, trajectory, beside, crashes>>

-----------------------------------------------------------------------------
(* ingest_mcp_audit and reindex read without the lock *)

\* Mutant of NotImported: the audit file is imported as a whole.
AllEvents == AuditEvents

NotImported == {e \in AuditEvents : Telling(<<"event", e>>) = {}}

Ingest(p) ==
  /\ pc[p] = "idle"
  /\ trajectory # <<>>
  /\ pending' = [pending EXCEPT ![p] = NotImported]
  /\ Goto(p, "importing")
  /\ beside' = Beside(p, "ingest")
  /\ UNCHANGED <<Stores, lock, call, copy, crashes>>

ImportNext(p) ==
  /\ pc[p] = "importing"
  /\ \E e \in pending[p] :
       /\ call' = [call EXCEPT ![p] = [kind |-> "event", source |-> e]]
       /\ pending' = [pending EXCEPT ![p] = @ \ {e}]
  /\ Goto(p, "waiting")
  /\ UNCHANGED <<Stores, lock, copy, beside, crashes>>

IngestEnds(p) ==
  /\ pc[p] = "importing"
  /\ pending[p] = {}
  /\ Idle(p)
  /\ UNCHANGED <<Stores, lock, beside, crashes>>

Reindex(p) ==
  /\ pc[p] = "idle"
  /\ manifest.exists
  /\ index' = Unverified
  /\ Goto(p, "reindexing")
  /\ beside' = Beside(p, "reindex")
  /\ UNCHANGED <<manifest, trajectory, lock, call, copy, pending, crashes>>

ReadRun(p) ==
  /\ pc[p] = "reindexing"
  /\ copy' = [copy EXCEPT ![p] = manifest]
  /\ Goto(p, "inserting")
  /\ UNCHANGED <<Stores, lock, call, pending, beside, crashes>>

InsertRow(p) ==
  /\ pc[p] = "inserting"
  /\ index' = copy[p].book.result
  /\ Idle(p)
  /\ UNCHANGED <<manifest, trajectory, lock, beside, crashes>>

\* verify_integrity: the lines are as many as the manifest counts, and numbered so.
IntegrityHolds ==
  /\ Len(trajectory) = manifest.count
  /\ \A i \in DOMAIN trajectory : trajectory[i].sequence = i

-----------------------------------------------------------------------------
(* Faults *)

\* The operating system releases the lock of a process that dies.
Crash(p) ==
  /\ pc[p] # "idle"
  /\ crashes < CrashCap
  /\ crashes' = crashes + 1
  /\ lock' = IF lock = p THEN None ELSE lock
  /\ Idle(p)
  /\ UNCHANGED <<Stores, beside>>

Step(p) ==
  \/ Refuse(p) \/ WriteManifest(p) \/ AppendLine(p) \/ WriteCount(p) \/ UpdateIndex(p)
  \/ ImportNext(p) \/ IngestEnds(p) \/ ReadRun(p) \/ InsertRow(p)

LedgerNext ==
  \E p \in Processes :
    \/ Start(p) \/ Call(p) \/ Ingest(p) \/ Reindex(p)
    \/ Acquire(p) \/ Step(p) \/ Crash(p)

LedgerSpec == LedgerInit /\ [][LedgerNext]_ledgerVars

-----------------------------------------------------------------------------
(* Properties *)

\* The manifest never counts an event the trajectory does not hold, and a process that dies
\* makes it miss one at most; the numbers of the lines only repeat where one was missed.
CountIsBehind ==
  LET ahead == Len(trajectory) - manifest.count
      counting == Cardinality({p \in Processes : pc[p] = "counting"})
  IN  /\ counting <= ahead /\ ahead <= counting + crashes
      /\ \A i \in 1..Len(trajectory) :
           /\ trajectory[i].sequence \in (i - crashes)..i
           /\ \A j \in 1..(i - 1) : trajectory[j].sequence <= trajectory[i].sequence

\* A line only tells of what run.json holds, although it is written by another call: an
\* attempt that was started, a file that was recorded, a verdict that was accepted, a
\* selection of a verified attempt.
LinesAreTrue ==
  /\ Cardinality(Telling(<<"attempt", None>>)) <= Len(manifest.book.attempts)
  /\ Cardinality(Telling(<<"artifact", None>>)) <= manifest.artifacts
  /\ \A a \in 1..AttemptCap :
       Telling(<<"finish", a>>) \union Telling(<<"select", a>>) # {} => Verified(manifest.book, a)

\* As long as one process at a time imports, no audit event is imported twice, wherever an
\* import dies and whoever else writes to the run.
ImportedOnce ==
  "ingest" \notin beside =>
    \A e \in AuditEvents : Cardinality(Telling(<<"event", e>>)) <= 1

\* Whenever nobody is in a call, and nobody died in one, the run passes its verification and
\* the index shows the result.
UnhurtRunIsSound ==
  (crashes = 0 /\ \A p \in Processes : pc[p] = "idle") =>
    /\ IntegrityHolds
    /\ "reindex" \notin beside => index = manifest.book.result

\* The three stores, written one after the other, disagree only as far as a death in
\* between explains: trajectory and manifest in number and in content, the audit's events
\* and the trajectory, and the index.
StoresAgree == CountIsBehind /\ LinesAreTrue /\ ImportedOnce /\ UnhurtRunIsSound

\* The run implements the promise: no attempt and no verdict is lost between processes.
Promise == INSTANCE AttemptBook WITH book <- manifest.book
ImplementsAttemptBook == Promise!BookSpec
=============================================================================
