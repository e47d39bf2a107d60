-------------------------- MODULE AdaptiveSession --------------------------
(***************************************************************************)
(* AdaptiveSession (src/src/cad_evoloop/supervisor/session.py) with the    *)
(* actions of protocol/adaptive.py: a planner chooses what to do next, and *)
(* a modifier may edit a copy of the system's sources under a snapshot,    *)
(* boundary checks, validation and rollback.                               *)
(* What a file holds is abstracted to whether the manifest accounts for it *)
(* (the initial copy, or the after-hash of an accepted version).  The      *)
(* numbers of the decisions are left out: each takes the first number that *)
(* neither the manifest nor a directory has.  manifest.status is left out   *)
(* too: it is written and never read; so are the caches of Python and of   *)
(* pytest, which are removed before files are listed.                      *)
(***************************************************************************)
EXTENDS Naturals, FiniteSets

CONSTANTS
  SessionFiles,  \* SESSION_FILES: of each component, its files
  TestFiles      \* files below adaptive-tests/ that a modifier may create

Managed == UNION {SessionFiles[c] : c \in DOMAIN SessionFiles}
Files == Managed \union TestFiles

VARIABLES
  workspace,  \* of each file: "recorded", "edited" or "missing"
  tests,      \* manifest.allowed_files["test"]
  request,    \* the call of decide() or apply_patch() that is under way
  loose       \* history: the files that an edit left behind when it was cut short, or that
              \* tests wrote when the files had been listed

sessionVars == <<workspace, tests, request, loose>>

PatchNames == {"patch_prompt", "patch_skill", "patch_mcp", "patch_verifier"}

PatchComponent ==
  [patch_prompt |-> "prompt", patch_skill |-> "skill", patch_mcp |-> "mcp",
   patch_verifier |-> "verifier"]

AvailableActions(outcome, component) ==
  CASE outcome = "success" -> {"stop"}
    [] outcome \in {"infrastructure_error", "agent_error"} ->
         {"retry_tool", "restart_mcp", "add_test", "stop"}
           \union (IF component = "verifier" THEN {"retry_verifier", "patch_verifier"} ELSE {})
           \union (IF component = "mcp" THEN {"patch_mcp"} ELSE {})
    [] OTHER -> PatchNames \union {"repair_drawing", "add_test", "stop"}

Known == Managed \union tests
Present(w) == {f \in Files : w[f] # "missing"}

\* The files an action may name: validate_action.
NameableFiles(name) ==
  IF name = "add_test" THEN TestFiles ELSE SessionFiles[PatchComponent[name]]

ComponentOf(name) == IF name = "add_test" THEN "test" ELSE PatchComponent[name]

EditsSystem(name) == name = "add_test" \/ name \in PatchNames

ValidActions(offered) ==
  {[name |-> n, files |-> {}] : n \in {o \in offered : ~EditsSystem(o)}}
    \union UNION {{[name |-> n, files |-> fs] : fs \in SUBSET NameableFiles(n) \ {{}}}
                    : n \in {o \in offered : EditsSystem(o)}}

\* The files that are not what the manifest says: its own, and no others.
Unaccounted(w) == {f \in Files : w[f] # IF f \in Known THEN "recorded" ELSE "missing"}

\* The copy that _create makes.
InitialWorkspace == [f \in Files |-> IF f \in Managed THEN "recorded" ELSE "missing"]

NoAction == [name |-> "none", files |-> {}]
NoRequest ==
  [stage |-> "idle", offered |-> {}, action |-> NoAction, before |-> InitialWorkspace,
   changed |-> {}, strayed |-> {}, passed |-> FALSE]

SessionInit ==
  /\ workspace = InitialWorkspace
  /\ tests = {}
  /\ request = NoRequest
  /\ loose = {}

Stage(s) == request.stage = s

-----------------------------------------------------------------------------
(* decide *)

\* Called with a diagnostic: the planner runs.
BeginDecision(offered) ==
  /\ Stage("idle")
  /\ request' = [NoRequest EXCEPT !.stage = "planning", !.offered = offered]
  /\ UNCHANGED <<workspace, tests, loose>>

\* A valid action of those on offer.
PlannerChooses ==
  /\ Stage("planning")
  /\ \E action \in ValidActions(request.offered) :
       request' = [request EXCEPT !.stage = "chosen", !.offered = {}, !.action = action]
  /\ UNCHANGED <<workspace, tests, loose>>

\* It fails, times out, or answers something invalid: decide raises.
PlannerFails ==
  /\ Stage("planning")
  /\ request' = [request EXCEPT !.stage = "undecided"]
  /\ UNCHANGED <<workspace, tests, loose>>

-----------------------------------------------------------------------------
(* apply_patch *)

\* An exception leaves apply_patch.
Escapes == request' = [NoRequest EXCEPT !.stage = "escaped", !.action = request.action]

TakeSnapshot ==
  /\ Stage("chosen") /\ EditsSystem(request.action.name)
  /\ Known \subseteq Present(workspace)
  /\ request' = [request EXCEPT !.stage = "modifying", !.before = workspace]
  /\ UNCHANGED <<workspace, tests, loose>>

\* A managed file that an earlier modifier deleted cannot be copied.
SnapshotRaises ==
  /\ Stage("chosen") /\ EditsSystem(request.action.name)
  /\ ~(Known \subseteq Present(workspace))
  /\ Escapes
  /\ UNCHANGED <<workspace, tests, loose>>

\* What the modifier may have done to the files, whatever it was told.
EditedFrom(before) ==
  {w \in [Files -> {"recorded", "edited", "missing"}] :
     \A f \in Files : w[f] = "recorded" => before[f] = "recorded"}

AllowedNew == IF request.action.name = "add_test" THEN request.action.files ELSE {}

\* The files that differ from the snapshot, which has no others than the known ones;
\* touched are those that were edited before and are again.
Changed(w, touched) ==
  {f \in Known : w[f] # request.before[f] \/ f \in touched}
    \union ((AllowedNew \intersect Present(w)) \ Known)

\* The checks that need no test: nothing deleted, created or changed beyond the
\* approval, and something changed.
BoundaryHolds(w, changed) ==
  /\ Known \subseteq Present(w)
  /\ Present(w) \subseteq Known \union AllowedNew
  /\ changed \subseteq request.action.files
  /\ changed # {}

\* The modifier returns.
ModifierEnds ==
  /\ Stage("modifying")
  /\ \E w \in EditedFrom(request.before), succeeded \in BOOLEAN :
     \E touched \in SUBSET {f \in Files : w[f] = "edited" /\ request.before[f] = "edited"} :
       /\ workspace' = w
       /\ request' = [request EXCEPT
            !.changed = Changed(w, touched),
            !.stage = IF succeeded /\ BoundaryHolds(w, Changed(w, touched))
                        THEN "validating" ELSE "restoring"]
  /\ UNCHANGED <<tests, loose>>

\* subprocess.run raises TimeoutExpired out of apply_patch, past the rollback.
ModifierTimesOut ==
  /\ Stage("modifying")
  /\ workspace' \in EditedFrom(request.before)
  /\ Escapes
  /\ loose' = Unaccounted(workspace')
  /\ UNCHANGED tests

\* pytest runs in the workspace, with the tests of the changed component or those that the
\* modifier wrote; a prompt has none.
TestsMayWrite == IF ComponentOf(request.action.name) = "prompt" THEN {} ELSE Files

\* What the workspace is after tests wrote, or removed, these files.
LeftByTests(written) ==
  {w \in [Files -> {"recorded", "edited", "missing"}] :
     \A f \in Files : IF f \in written THEN w[f] # "recorded" ELSE w[f] = workspace[f]}

\* run_validation answers.  Files were listed and hashed before: what its tests write into
\* the workspace nobody looks at.
Validate ==
  /\ Stage("validating")
  /\ \E passed \in BOOLEAN, written \in SUBSET TestsMayWrite :
       /\ workspace' \in LeftByTests(written)
       /\ request' = [request EXCEPT !.passed = passed, !.strayed = written,
                                     !.stage = IF passed THEN "recording" ELSE "restoring"]
  /\ UNCHANGED <<tests, loose>>

\* The test run times out, or a template cannot be read: the exception leaves.
ValidationRaises ==
  /\ Stage("validating")
  /\ \E written \in SUBSET TestsMayWrite : workspace' \in LeftByTests(written)
  /\ Escapes
  /\ loose' = Unaccounted(workspace')
  /\ UNCHANGED tests

\* What a test wrote where the listing had no file: a rollback does not remove it.
LeftOver == request.strayed \ (Known \union request.changed)

\* Mutant of Restore: the files that were created stay.
RestoreManaged ==
  /\ Stage("restoring")
  /\ workspace' = [f \in Files |-> IF f \in Known THEN request.before[f] ELSE workspace[f]]
  /\ loose' = (loose \intersect Known) \union LeftOver
  /\ request' = [request EXCEPT !.stage = "recording", !.before = InitialWorkspace,
                                !.changed = {}, !.strayed = {}]
  /\ UNCHANGED tests

\* _restore_snapshot: the snapshot is copied back, every other file of the listing is
\* removed.
Restored ==
  [f \in Files |-> CASE f \in Known -> request.before[f]
                     [] f \in LeftOver -> workspace[f]
                     [] OTHER -> "missing"]

Restore ==
  /\ Stage("restoring")
  /\ workspace' = Restored
  /\ loose' = (loose \intersect Known) \union LeftOver
  /\ request' = [request EXCEPT !.stage = "recording", !.before = InitialWorkspace,
                                !.changed = {}, !.strayed = {}]
  /\ UNCHANGED tests

\* The version goes into the manifest, with what it changed, by the hashes taken before the
\* tests ran, and its tests.
RecordVersion ==
  /\ Stage("recording")
  /\ IF request.passed
       THEN /\ workspace' = [f \in Files |->
                 IF f \in request.changed \ request.strayed THEN "recorded" ELSE workspace[f]]
            /\ tests' = IF request.action.name = "add_test" THEN tests \union request.changed
                                                            ELSE tests
            /\ loose' = (loose \ request.changed) \union request.strayed
       ELSE UNCHANGED <<workspace, tests, loose>>
  /\ request' = [request EXCEPT !.stage = "answered", !.before = InitialWorkspace,
                                !.changed = {}, !.strayed = {}]

\* The process dies: what it was writing is left as it is.
SessionDies ==
  /\ request' = NoRequest
  /\ \/ /\ Stage("modifying")
        /\ workspace' \in EditedFrom(request.before)
     \/ /\ Stage("validating")
        /\ \E written \in SUBSET TestsMayWrite : workspace' \in LeftByTests(written)
     \/ /\ Stage("restoring")
        /\ \E copied \in SUBSET Files :
             workspace' = [f \in Files |-> IF f \in copied THEN Restored[f] ELSE workspace[f]]
     \/ /\ request.stage \notin {"modifying", "validating", "restoring"}
        /\ UNCHANGED workspace
  /\ loose' = IF \/ request.stage \in {"modifying", "validating", "restoring"}
                \/ (Stage("recording") /\ request.passed)
             THEN Unaccounted(workspace') ELSE loose
  /\ UNCHANGED tests

SessionStep ==
  \/ PlannerChooses \/ PlannerFails
  \/ TakeSnapshot \/ SnapshotRaises
  \/ ModifierEnds \/ ModifierTimesOut
  \/ Validate \/ ValidationRaises
  \/ Restore \/ RecordVersion

-----------------------------------------------------------------------------
(* Properties *)

\* Editing: from the snapshot to the version's entry in the manifest.
Editing == request.stage \in {"modifying", "validating", "restoring", "recording"}

\* Between patches every file of the workspace is what the manifest says: the
\* initial copy or an accepted version, and no file it does not know; a rejected version
\* is gone.  What else can be left behind is an edit that was cut off, by a death or by an
\* exception, and what the tests of a version wrote after it was listed and hashed.
WorkspaceIsAccounted ==
  ~Editing => Unaccounted(workspace) \subseteq loose
=============================================================================
