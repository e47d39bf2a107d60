# A TLA+ model of the AgenticCAE runtime

`cad_evoloop` (below `src/src/cad_evoloop/`) drives language models and CAD back
ends through long engineering projects and evaluates what they make.  It works
with processes that run for hours, are killed, overlap and are started again, and
everything it knows is in files.  This directory models how those files change:
the durable project runtime, the jobs and campaigns built on it, the improvement
loop, human review and the post-training environment.  It checks the models with
TLC and proves the core with TLAPS.

## 1. Inventory of the system

Paths are relative to `src/src/cad_evoloop/` unless they begin with `evals/`
(below `src/`).

| Component | State | Operations | What is hard |
|---|---|---|---|
| Project reducer (`agent/state.py`, `agent/contracts.py`) | project status; plans, contracts, artifacts; work units with status, attempts, execution and latest gate evaluation; operation records | `apply_event` for 24 event types, `ready_work_units` | receipts in any order and for executions that are over; reopening; the attempts budget; gates and their evidence |
| Event store (`agent/store.py`, `agent/events.py`, `ledger/ledger.py: file_lock`) | `events.jsonl`, `state.json`, the lock, artifact files | `create`, `append`, `load`, `verify`, `register_artifact*` | several processes; crashes between log and snapshot; partial writes; idempotency keys; shared temporary files |
| Kernel (`agent/kernel.py`) | the state it loaded | `recover_interrupted`, `step`, `run` | other kernels recover executions that are still alive; reads are stale when used; executors raise |
| Operation broker (`agent/operations.py`) | operation receipts in the log | `execute` | an action that took effect without a receipt; two callers of one operation; reconciliation |
| Sample project (`evaluation/agent_geometry_campaign.py`, `agent/executors/*`, `agent/planning.py: apply_plan`, `evaluation/review_feedback.py`) | project directory, result rows, human responses | set-up, run, row; gate and reconstruction executors; `submit_human_clarification` | crashes in the middle of set-up, run and submission; two processes; attempts spent by interruptions and exceptions |
| Geometry job (`evaluation/geometry_campaign.py`, `evaluation/reconstruction_ir.py`) | job state with recovery phases, ledger run, IR, result | `run_geometry_job` in five reconstruction modes | recovery by phase, decisions made twice, what each conversation is shown |
| Model adapters (`agent/models/*`) | sessions, files of a turn | a client process per turn | a client outlives its job |
| Run ledger (`ledger/ledger.py`) | trajectory, manifest, SQLite, in this order | `start`, `event`, `add_attempt`, `add_artifact`, `finish`, `select_attempt`, `ingest_mcp_audit`, `reindex`, `verify_integrity` | a crash between the three writes; readers without the lock |
| AutoCAD jobs (`backends/autocad/*`) | job tables, worker threads, a desktop AutoCAD, console processes | submit, cancel, status, checkpoints | cancel against the worker, time-outs, one desktop |
| Batch campaign (`evals/cad-1000-hours/scripts/batch_codex.py`) | `results.json`, job directories | `main`, `run_job` | resumption, best drawing over retries, patches and failures |
| Adaptive session (`supervisor/session.py`, `protocol/adaptive.py`) | manifest, workspace, snapshots | decide, apply patch, validate, restore | a crash, an exception or a time-out between snapshot and record |
| Improvement manager (`supervisor/improvement.py`, `run_ab.py`) | proposals, production files, releases, `current.json` | draft, edit, gate, promote, rollback | promotion that fails half way, rollbacks out of order |
| Human review (`evaluation/human_review.py`, `geometry_review.py`, `review_catalog.py`, `apps/geometry-review/app.js`) | bundle, hash-chained ledger, pages with drafts | rebuild, serve, append, supersede | concurrent posts, evidence rebuilt under an open page, a server that dies while it writes |
| Detached campaign (`evaluation/detached_campaign.py`) and the campaigns it runs | `runner-state.json`, `command.json`, manifest, rows | start, await, run, status | two starts, late state writes, resumption under another configuration |
| BenchCAD campaign (`evaluation/benchcad_*.py`) | job directory, archived attempts, result | supervisor, campaign | children that outlive a supervisor; leaks of the ground truth |
| Replay and backfill (`evaluation/replay.py`, `geometry_feature_backfill.py`) | frozen manifest, rows, records | start, resume, score | candidates that change, kills in the middle of a file |
| Paper runs and registered trials (`evals/Paper_filmcooling/scripts`, `evals/geometry-benchmarks/scripts`) | run folder, registration, verdict | run, resume; prepare, execute, score | resumption, several processes for one trial |
| Post-training environment (`posttrain/*`, `evals/posttrain/run_kimi_smoke.py`) | episode, events, grading, run record; inventory, plan, questions, audit, tasks | reset, tools, submit, grade, report; prepare, author, audit, build | processes that outlive each other; editions that change between two steps |
| Everything else | finished files | scoring, reports, verification of CAD scenes, CLI | I/O, numerics or formatting |

How they interact.  A detached campaign runs a geometry or an agent campaign; the
agent campaign creates a project (store) and its work units (events), and runs a
kernel on it; the kernel loads the state, appends a start event, calls an
executor and appends the outcome; executors append artifacts and gate
evaluations to the same log, run a geometry job, and may wrap external actions
with the broker; the geometry job records in the run ledger, asks its model
through the adapters and steers AutoCAD through its jobs; the review bundle is
built from finished runs, and what a human answers becomes a response in the
project.  The only shared memory is directories.  All writes to a project go
through `ProjectStore.append`, which validates an event with the reducer under a
lock; the other components have files of their own.

What makes each component correct:

* reducer: completion means that everything succeeded; a success has a gate and
  evidence; running rests on finished dependencies; nothing that is over comes
  back; the budget never strands a unit; every identifier resolves;
* store: each keyed request is in the log once, whatever the interleaving and
  whoever dies; answers can be trusted; the lock is always released; a registered
  file is what its digest says;
* kernel: one owner per execution, no stale success, every project comes to rest;
* broker: the log knows of every effect, and callers in turn cause one;
* run ledger: no accepted attempt or verdict is lost; the three stores disagree
  only as far as a death explains;
* geometry job: nothing on record is done again, it ends, and with the best
  verdict; the ledger agrees with it; each mode shows its agents what it says;
* sample project: no geometry before the human's answer, rows that agree with the
  project for good, every sample settled;
* campaigns: settled rows last, one process and what the manifest binds make them,
  the best drawing is the one kept, a score is of what was run and without leaks that
  the audit can see;
* improvement: what is in production was gated, and `current.json` tells what it
  is, except where a command was cut short; what a patch leaves behind is accounted
  for, except what was cut off or written by its tests;
* review: one chain of records, each about what its reviewer saw; drafts are kept;
* post-training: a verdict is of what was submitted; tasks are built from the
  questions that were audited.

The hazards, each at its line and with the properties that cover it, are listed
in `PROJECT.json`.

## 2. The modules

The project runtime:

| Module | Models | State and actions |
|---|---|---|
| `ProjectState` | `apply_event`, `ready_work_units`, the contract checks | one variable per part of the state; one action per event type (three work-unit outcomes that share a branch of the code share an action) whose guard is what the code raises on |
| `GoalGraph` | the promise of the reducer: units asked for, executed, done; a goal achieved or abandoned | abstract, no attempts, gates or receipts |
| `ProjectStore` | `create`, `append`, `load`, `verify`, the lock | a process counter per process, `files`, `log`, `tail`, `snapshot`, `lock`; every system call a crash can separate is an action |
| `EventLog` | the promise of the store: a linearizable exactly-once log | abstract |
| `ArtifactStore` | `register_artifact` | per content the temporary and the stored file; registrars that hash, look, copy, move and append, and may die in a copy |
| `ProjectKernel` | `recover_interrupted`, `step`, `run` of several processes | extends `ProjectState`; each load and each append is an action; the executor is any sequence of artifacts and evaluations that ends with an outcome |
| `OperationBroker` | `execute` | extends `ProjectState`; each read, append and external action is an action; the use of each idempotency key is a variable |
| `SampleProject` | a campaign process and a human on one sample | extends `ProjectKernel` with the real executors, the set-up, the row and the submission |

Jobs and their tools:

| Module | Models | State and actions |
|---|---|---|
| `RunManifest` | what `run.json` says of attempts, result and selection, and how calls change it | operators only; the next two and `GeometryJob` share it |
| `RunLedger` | the calls of one ledger run | `manifest`, `trajectory`, `index`, `lock`, and per process its call, the manifest it read, the events it has yet to import; each read and each write is an action |
| `AttemptBook` | the promise of the ledger: attempts without gaps, verdicts that are kept, a result among them | abstract |
| `GeometryJob` | `run_geometry_job`, its action, verifier and decision turns, `safety_stop_reason` | per job directory `recovery`, `candidates`, `verdicts`, `turns`, `published`, `final`, and the ledger's `book`; each write to a file is an action |
| `EvidenceFlow` | what the conversations of a job are shown in each reconstruction mode, and the IR that a builder makes and a gate accepts | `jobDir`, `threads` with what each was given and what lies beside it |
| `DependencyGraph` | the features of an IR and what each depends on | operators only; `EvidenceFlow` and the next one share it |
| `DependencySearch` | `visit()` and the loop around it in `validate_reconstruction_ir` | the stack of `calls`, `visiting`, `visited`; a call and a return are actions |
| `ModelTransport` | the clients of a job, their sessions and the files of a turn | `clients` that outlive the job, the files of the action and of each decision |
| `AutocadJobs` | both job managers, their threads, the server's direct commands and checkpoints | `job`, `worker`, `process`, `executing`, `server`; a block under a manager's lock is a step |

Campaigns, improvement and review:

| Module | Models | State and actions |
|---|---|---|
| `AdaptiveSession` | `decide`, `apply_patch` | `workspace` (is each file accounted for), snapshots, the manifest, the request |
| `BatchJob` | `main` and `run_job` of the batch driver | extends `AdaptiveSession`; `results`, the job's run, the attempt at hand |
| `Improvement` | `ImprovementManager` and the A/B orchestrator | production files, proposals, reports, releases, `current.json`; each replaced file is an action |
| `BenchCad` | one BenchCAD record under its supervisor | the job directory with its archives, the campaign processes, what a turn accessed |
| `ReviewWorkbench` | bundle, server, ledger and pages | `bundle`, `reviewServer`, `ledger`, `writer`, and of each reviewer `post`, `page`, `drafts` |
| `DetachedCampaign` | starters, workers and the campaigns they run | `runner`, `commandFile`, starters and workers, `manifest`, `rowFile` |
| `PaperRun` | the runners of a paper experiment and the one that resumes | run folder, runners, the agent that outlives them |
| `TrialRun` | a registered trial | registration, conversation, verdict, catalog |
| `FrozenReplay` | the replay of the verifier, the backfill of features | frozen manifest, candidates, rows, records, cut files |
| `TaskEpisode` | an episode, its tools process, runners, graders and what is reported | files of the episode and of the run, and each process's place |
| `DrawingQA` | preparation, authoring, audit and building of drawing questions | the files and what each process has read of them |

Instances and proofs: `MCProjectState`, `MCProjectStore`, `MCProjectKernel`,
`MCSampleProject` and `MCGeometryJob` instantiate one module for TLC.
`MCEvolution`, `MCWorkbench` and `MCServices` hold several modules that share no
state, and a variable `scenario` that says which of them moves: one run explores
the sum, not the product, of their state spaces.  `ProjectStateProofs`,
`ProjectStoreProofs`, `ProjectKernelProofs`, `SampleProofs`, `GeometryJobProofs`,
`EvolutionProofs` and `ServicesProofs` (the six modules of `MCEvolution`, those of
`MCServices`, and either composition) and `WorkbenchProofs` (the five of
`MCWorkbench` and their composition) hold the theorems.

An append is one action everywhere but in `ProjectStore`.  This is what
`EventLog` says of it, and `ProjectStore` is checked and proved to implement
`EventLog`: the event takes effect at one instant under the lock, and a caller
that dies around it leaves the event either in the log or not.

### Abstractions

*Project.*  Events carry well-formed payloads (the type and shape checks of
`apply_event` are left out); times, actors, titles, hashes and summaries are left
out.  An execution identifier is the attempt number it was started with, which is
what makes it unique in the code too (the identifier of the start event).  A
requirement is a number per artifact kind.  A gate is `[execution, passed]`, the
two facts later events look at.  `ProjectStore` abstracts the reducer to "may
refuse any event".  In `OperationBroker` all calls for one operation carry the
same name and arguments (the code refuses others), and the reconciler looks at
the external system and is right about it; the repository has no production
caller of the broker, so its environment is taken from its tests.  In
`SampleProject` the sample has the `human_clarification` route; the other routes
drop the gate and are a part of it.

*Jobs.*  `RunLedger` has one run, whose trajectory is bounded by `EventCap`;
artifacts are counted, and the copies of files that precede a change of the
manifest are left out.  It does not let the write of a line be torn.
`GeometryJob` calls the ledger in one action per call, which `RunLedger` and
`AttemptBook` justify for what it looks at.  It is the baseline mode;
`EvidenceFlow` has the other modes, without the verdicts.  A score is a number up
to the strict pass, and 0 for a candidate that cannot be scored.  Of the decision
turns the first valid reply on disk is kept, which is the one a restart finds.
Time may run out at any moment.  The gate of an IR is the operator `Cyclic` in
`EvidenceFlow`; that the code's search decides it is what `DependencySearch` is
for, which goes through features in any order and has no limit to its recursion.

*Campaigns.*  A level is a rounded score.  In `Improvement` each component's
sources count as one file; a file is copied in place, so that a death can leave it
torn.  The scripts of `PaperRun` are started by hand: the
model starts none while another or its agent is at work, which the code does not
prevent.  In `Workbench` the two starts of an agent's campaign differ in the program
or not at all, those of a geometry campaign in the configuration, or in `--timeout`
and program, which its manifest does not name.  A file's hash is its content, in
every module.

*What a check looks at.*  Where the code compares or searches for less than one
would expect, so does the model.  The tests of a patch run in the workspace after its
files were listed and hashed, so they may change or create any file and no record
tells (`Validate`, `TestsMayWrite`).  The audit of a BenchCAD turn searches the text
of its events for paths: a turn may see the ground truth in a way that its events do
not show, events that are missing pass, and a repeated audit finds none when they have
been moved (`Accesses`, `Flagged`, `lost`).  The Codex script of a trial compares the
images that are still there with those of the record, and neither the task nor the
script that makes the prompt; the EvoCAD script compares the script's hash
(`MayExecute`).  The manifest of a backfill names four sources; what else it
executes is not modelled, and no row tells which edition of it was used.

*The world around.*  Edits by hand are actions: `Change` and `Tamper` in
`DrawingQA` and `TaskEpisode`, `Mishap` (a candidate changes, also while it is
being scored, or the sources that a manifest names) in `FrozenReplay`,
`InputsChange` in `TrialRun`, `RewriteSource` in `ArtifactStore`.  Each is bounded,
and happens where a person or another job can do it: a task is not edited between
the grader's checks and its verdict, which are one call, and the inputs of a trial
not while one of its processes is at work, which looks at them once.

Definitions named "Mutant of ..." are wrong variants of an operator.  No
specification uses them: they document what each property is sensitive to.

## 3. What the runs check

Bounds are in the `.cfg` files.  `CHECK_DEADLOCK FALSE` wherever something that
has come to rest is a legitimate end.

| Run | Instance | Shows |
|---|---|---|
| `ProjectGraph` | 3 units, every dependency graph, up to 2 attempts | `CompletionIsSound`, `DependenciesHonoured`, `PendingHasBudget`, `NoDependencyDeadlock`, `WorkNeverRevives`; the reducer implements `GoalGraph` |
| `ProjectGates` | 1 unit with a contract, 2 artifacts, 1 operation, 2 plans, 2 attempts | `SuccessIsGated`, `ReferencesResolve` |
| `Store` | 2 processes, a key with two bodies and keyless requests, 2 events, crashes, torn lines, erased snapshots | `SnapshotNeverAhead`, `LockIsReleased`; the store implements `EventLog` (which promises nothing once a line was torn) |
| `Kernel` | 2 kernels, a contract-bound unit, up to 3 attempts, a crash, an intervention of the operator | `OneOwner`, `SuccessWasDelivered`, `Settles` |
| `Sample` | the real two-unit project, 2 responses, 3 crashes, executors that raise | `GeometryAwaitsHuman`, `RowsAreFinal`, `SampleSettles` |
| `Geometry` | 2 iterations, 2 turns for a decision, 3 scores, 2 deaths | `LedgerAgrees`, `BestIsHandedOut`, `StopsAreHonoured`, `WorkIsKept`, `JobEnds` |
| `Evolution` | a batch campaign (2 attempts, started as often as one likes) with its session, 2 proposals on 2 files, a BenchCAD record with 2 supervisors, a ledger run of 2 users, a paper run of 3 runners, a trial of 2 launchers | `BestIsKept`, `WorkspaceIsAccounted`, `ProductionIsAccounted`, `ScoreIsHonest`, `StoresAgree`, `RunsAreAccounted`, `RecordsLast`; the ledger implements `AttemptBook` |
| `Workbench` | 2 AutoCAD jobs, 2 reviewers or 2 editions, 2 starts of a campaign, 2 features and 2 builds of an IR in each mode, the search in every graph over them | `CommandsAreContained`, `LedgerIsEvidence`, `CampaignIsOne`, `ModesAreKept`, `WorkbenchRecordsLast` |
| `Services` | 2 callers of an operation that die anywhere, an episode with 2 tools processes, 2 batches of questions, a replay of 2 jobs started 3 times, 2 attempts with 4 clients, 2 registrars of 2 artifacts | `EffectsAreAccounted`, `EpisodeIsHonest`, `FixedThingsAreUsed`, `TurnsAreOneConversation`, `ServicesRecordsLast` |
| `SampleGate`, `GeometryStop`, `EvidenceIsolation` (violations) | see section 4 | `AttachedResponseResumes`, `OnlyContinueSchedules`, `ExecutorSeesNoImage` fail |

Some properties of `Evolution`, `Workbench` and `Services` are conjunctions of what their modules
define: the parts are named, and each says in its comment what it is about.

Why the bounds are enough.  Three units make chains, forks and joins of
dependencies.  A second attempt is what distinguishes a current from a stale
execution; the theorems of section 5 remove the bounds of the two `Project*`
runs.  Two processes are what the lock, the keys and recovery tell apart, and the
log never looks at more than two events at once (one with the key, one without).
Three crashes are more than the attempts of either unit of a sample.  Two
iterations are what a best and a later attempt take, two turns what a retry
takes, and two deaths let a job be interrupted in its recovery or move to a
second directory and die there.  Two files are what a promotion that fails half
way takes, two proposals what a rollback out of order takes.  Three starts of a replay
are one that dies, its resumption, and another in the middle of it; those of a batch
campaign are not counted.  Two editions let a page outlive its evidence; the
theorem on `ReviewWorkbench` removes the bounds there.  Two features make a
dependency, or a cycle of them.  Four clients let one of each attempt and two of
its decisions run on.  Two contents and two artifacts let registrars meet on one
content and differ on it.  The operation of `Services` may be attempted three
times (retry, reconcile and retry again) in a unit that has two attempts.  Two timeouts and two programs let two starts differ in what a manifest does not
name.  Units and artifacts of `ProjectGates` and the samples of `Workbench` are
interchangeable model values; symmetry is declared for them only, and no liveness
property is checked there.  `Evolution` does not explore what happens to a BenchCAD
record after a supervisor was called while a process was at work (`BeforeOverlap`), as
`ScoreIsHonest` claims nothing of it.

Fairness.  `ProjectStore`: a process in a call that does not wait for the lock
goes on; nothing is assumed of waiting.  `ProjectKernel`: somebody runs the
kernel again when it has ended (the campaign's outer loop, or the user), and a
live kernel goes on, its executor returns (the executors run with time limits).
`SampleProject`: the campaign is rerun until the sample is settled
(`agent_geometry_campaign.py` skips what is settled) and the human answers in the
end.  `GeometryJob`: a job that can go on does, its turns end (they have
time limits), and its caller calls again after it died.  The other modules claim
safety only and assume nothing.  Crashes are never fair and their number is
bounded, so that liveness is not bought with a crash.

## 4. What the violations show

* `SampleGate`: after one interruption of the gate its answer is attached but the
  gate cannot be reopened.
* `GeometryStop`: a job that dies after it saved an attempt that ended with a
  stop, or a strict pass, and before it wrote its result goes on with another
  CAD action.  `StopsAreHonoured` says that a stop is overruled at most once for
  each death, and `BestIsHandedOut` that the job still ends with the best verdict.
* `EvidenceIsolation`: the documentation of the ablation says that an isolated
  executor works in an image-free workspace.  Its action turns do; its decision
  turns run in the job's directory, which holds the drawings.  `ModeIsHonoured` (a
  part of `ModesAreKept`) says what does hold: no image is ever attached to a turn of such an executor.

What the models also show, without a run of its own:

* a line of `events.jsonl` that is cut short makes the project unreadable
  (`Store` lets this happen, and `EventLog` promises nothing from then on); the
  same in the events of an episode leaves its `run.json` at "running", and in the
  review ledger refuses every later review;
* `verify()` of the project store compares events it read under the lock with a
  snapshot it reads after it gave the lock back, so it can report a sound project;
* a set-up that died leaves a directory every rerun of the sample trips over:
  `SampleSettles` says that this and an exhausted gate are the only ways in which
  a sample is left unsettled;
* two callers of one operation both get past the idempotent `operation.started`
  and run the action: `EffectsAreAccounted` claims a single effect only while
  callers take turns, and no production code calls the broker yet;
* an executor that raises spends the attempt that is meant for the interruption
  of the host;
* the manifest of a replay names the second it was made in, so that a replay can
  only be resumed within that second;
* an episode that was reported as "no_submission" may be submitted later by the
  tools process that survived its client, and only tests call `Episode.execute`;
* the manifest of the geometry campaign binds its configuration but not `--timeout`,
  which each job is given, and not the program; that of the agent's campaign binds all
  three: `CampaignIsOne` says which rows may be mixed;
* two starts of a campaign at the same time can both launch it: `CampaignIsOne` is
  about starts that do not overlap;
* a backfill hashes a candidate and scores it later: one that is changed in between
  is recorded with the old hash and the new verdict (`ReplayIsFrozen` says that its
  next start raises at this record); of the sources it executes its manifest names
  some only;
* a replay that dies while it writes `retry-history.jsonl` leaves half a line, to
  which the next start appends: neither line can be read from then on;
* two kernels that register one content at the same time write one temporary file
  (`disturbed`): nothing is promised of that content;
* the tests of a patch may write what no record tells, and what they create where
  there was no file stays after a rollback: `WorkspaceIsAccounted` excepts these
  files, and those of an edit that a death or a time-out cut off;
* a promotion or a rollback that dies in the middle of a copy leaves a production
  file that no gate saw: `ProductionIsAccounted` excepts it, and a later command may
  bring it back; a rollback of a release that is not the current one is permitted;
* the audit of a BenchCAD turn takes for clean what its events do not show, and one
  without a file of events (`ScoreIsHonest`); the supervisor launches beside the child
  of one that died (`overlap`), and of the score nothing is claimed then;
* `--execute-prepared` of the Codex script goes on when an image was removed, or the
  task or the prompt's script was edited: `TrialIsHonest` says that no other image was
  shown, and that the Kimi script, which prepares and runs in one process, showed what
  it sealed;
* `write_json_atomic` may raise after the line of an event is in the log
  (`SnapshotFails`): the caller sees an error, and a retry with its key finds the event;
* a build record of an IR that is cut short makes every later call of the job raise;
* a geometry job's time budget starts anew with every restart, and a restart
  looks for recovery state in the base directory only.

## 5. What is proved

`ProjectStateProofs` proves for every set of units, contracts, artifacts and
operations, and every number of attempts:

* `TypeCorrect` (`TypeOK`), by induction over the event types;
* `Completion`, `Dependencies`, `Gating`, `Budget`: the safety invariants;
* `NoRevival` (`WorkNeverRevives`): the action property, from its two halves
  `ExecutionsNeverResume` and `SuccessIsFinal`;
* `Refinement`: the reducer implements `GoalGraph`.

None of these is inductive by itself.  `CompletionIsSound` needs
`ExecutionBinding` (a receipt moves a unit only while it runs, and no unit runs
in a completed project); `DependenciesHonoured` needs that a success is never
taken back; `SuccessIsGated` needs `HistoryInv` (a gate that ever passed keeps
its evidence because artifacts are only added) and the binding of gates to
executions.  `IInv` is their conjunction; `Init => IInv`, `IInv /\ [Next]_vars =>
IInv'` with a lemma per event group, and the properties follow.  Assumptions: the
requirements of a contract are functions from kinds to numbers, and `None` is no
identifier (both named `ASSUME`s of `ProjectState`, evaluated by every run).

A second part adds two theorems about what the parts say of each other:

* `References` (`ReferencesResolve`): what is there stays there
  (`StateOnlyGrows`), what is new refers to what was there, and executions are
  never newer than their unit's attempts;
* `NoDeadlock` (`NoDependencyDeadlock`): `OrderInv` says that `workOrder` lists
  the units in the order they were added and each only depends on earlier ones.
  Of the pending units one was added first, as the order of the natural numbers
  is well founded (`WellFoundedInduction`), and it waits for no pending unit.

`ProjectStoreProofs` proves for any number of processes, requests and keys that
die anywhere: `LockIsHeld` (`LockDiscipline`), `LogComesFirst`
(`SnapshotNeverAhead`) and `Refinement` (`ImplementsEventLog`).  The invariant
`StoreInv` adds to the two safety properties `CallInv`: a process that is past
its write finds its own event in the log, and one without a call has no request.
The refinement maps a write of a line to the instant the event enters the
abstract log, and every other step to an answer, a loss or a stutter.
Assumptions: neither a process nor a call in progress is the value for "nobody"
and "no call" (`CallerAssumption`, `RequestAssumption`), and the bounds are numbers.

`ProjectKernelProofs` proves for any number of kernels, crashes and
interventions: `SingleOwner` (`OneOwner`), `DeliveredSuccess`
(`SuccessWasDelivered`) and `InterruptionIsFinal` (`InterruptedIsOver`).  Every
step of a kernel is shown to be a step of the reducer or a stutter of it, which
brings in the invariant `IInv`; `KernelInv` adds the types of the local
variables and `HistInv`: what a kernel executes was started in that unit and is
not newer than its attempts (`RunInv`), two kernels that execute one unit started
different executions (`RunsAreDistinct`), and only executions that were started
were interrupted (`InterruptedWasStarted`).

`SampleProofs` proves for any number of deaths, starts and responses:
`GeometryWaits` (`GeometryAwaitsHuman`), `RowsLast` (`RowsAreFinal`) and
`SampleRefinesProject`: every step of the campaign, the kernel it drives and the
human is a step of the reducer or a stutter of it.  `SampleInv` takes over the
reducer's `IInv`, which brings the graph of units; it adds that the gate is only
passed by a response of the human and that no unit behind it is started before,
what the campaign has loaded of the project at each of its places, and that a row
which settles the sample repeats a status that is final.  Assumption: the units,
contracts and plans are the ones the campaign writes, each attempt has its
candidate, and the record of a resolved gate is an artifact of its own, neither an
input nor a response nor a candidate (`SampleAssumption`).

`ServicesProofs` proves the six modules that the run `Services` checks, each for
itself, and that their composition `ServicesSpec` implements each of them
(`ServicesImplement`), from which `FixedThingsUsed` (`FixedThingsAreUsed`) and
`ServicesLast` (`ServicesRecordsLast`) follow.

*The operation broker*: `Accounted` (`EffectsAreAccounted`) for any number of callers, operations, attempts and deaths.  `BrokerInv` says more than the
property in three parts: `LogInv` orders the keys of an attempt (a receipt is
marked uncertain before it is reconciled, so a used key of the latest attempt
tells its status); `Sound` is what a caller knows of the record and stays true
whatever others do; `InTurn` is what it knows while nobody else is at work, and
only from there follows that a retried action had no effect.  `Conclusion` reduces
a step to what it does to its own caller, because the log only grows; `Begun` and
`Outcome` are the two ways in which it does.  Assumptions: an operation may be
attempted at all, and `None` is no answer (`BrokerAssumption`).

*The model transport*: `OneConversation` (`TurnsAreOneConversation`) for any number
of turns, retries, clients that outlive their callers and restarts.
`TransportInv` says of each client in which conversation it speaks and of the
files of the action and of each decision which client wrote them last; a client of
an earlier call may still run, so what is proved of one is proved of all of them.

*An episode*: `HonestEpisode` (`EpisodeIsHonest`) and `LastingEpisode`
(`EpisodeLasts`) for any numbers of calls, tools processes and files changed by
hand.  `RecordInv` is the order of the record: a submission is recorded in three
steps, and only by a process whose episode is active.  The other parts say who is
at work (one tools process, and no runner reads a verdict while it is made), and
that the verdict is of the snapshot submitted, or of one that was changed since.

*The drawing questions*: `QuestionsAudited` (`QuestionsAreAudited`) for any number
of batches and changes.  The author may publish on between the auditor's reading of
the questions and its hashing of their file: `AuditorInv` says that what was read
then begins what is bound, so the answers fit those questions in their order;
`AuthorInv` that what is published is of one edition, and `BuilderInv` that what is
left to build fits the answers that are left.

*The replay and the backfill*: `ReplayFrozen` (`ReplayIsFrozen`) and `ReplayLasts`
(`ReplayRecordsLast`) for any number of jobs, starts and changes, whenever they come:
the rows are of one edition of the sources that the manifest names, and a result is of
the candidate on record, or, in a backfill, that candidate is gone for good.  `ProcessInv`
says that a row which is on disk and not in memory is in the history while the
process works (`RowsAreHeld`), that the job at hand has no row yet, and that a
verdict is of the edition the candidate has as long as that is the ledger's.  What
is retained of the rows is what they have at some places in order (`InOrder`):
ranks count the places of a finite set one by one (`RankIs`).

*The artifacts*: `StoredIsItsDigest` (`ArtifactsAreTheirDigest`) and `StoredLasts`
(`ArtifactsLast`) for any number of registrars, contents and rewritten sources.
`CopyInv` says that a content which was not disturbed is copied by one registrar at
a time, into the temporary file, from a source that still holds it. Assumption: no
content is the mark of a missing or a damaged file (`ArtifactAssumption`).

`GeometryJobProofs` proves for any number of attempts, levels, directories, deaths
and torn files: `LedgerAgreement` (`LedgerAgrees`), `BestHandedOut`
(`BestIsHandedOut`), `StopsHonoured` (`StopsAreHonoured`) and the action property
`WorkKept` (`WorkIsKept`).  `JobInv` says of each directory, in `Sound`, that the
completed attempts are in order and have the ledger's verdicts, that the best is
one of those judged and what is published, and that the result repeats them; and
of the process, in `ProcessInv`, what its copy of the recovery state can differ in
from the file at each label.  Two properties count: `CountInv` says that the
attempts of the ledger that were never completed are one for each death and the
one at hand, `StopInv` that a stop which is still to be overruled has cost a death
already.  The `...Effect` lemmas reduce a step to
the one file it writes (`Saves`, `WritesBook`).

`EvolutionProofs` proves the six modules that the run `Evolution` checks, each for
itself, and that their composition `EvolutionSpec` implements each of them
(`EvolutionImplements`), from which `RunsAccounted` (`RunsAreAccounted`) and
`RecordsAreLasting` (`RecordsLast`) follow.

*The run ledger*: `BookRefinement` (`ImplementsAttemptBook`) and
`Agreement` (`StoresAgree`), for any number of callers, attempts, audit events and
deaths.  Every action has an `...Effect` lemma that says in pointwise form what it
does and that types are kept.  `BaseInv` is the types, `LockInv` (whoever is past
the lock holds it, and between reading the manifest and writing it knows what is
in it) and `ExistsInv` (a run somebody works on was started).  It suffices for the
refinement: what a caller writes was computed from the manifest it replaces, so
each write is one step of the book.  The four parts of the agreement are proved
one after the other, each inductive over `BaseInv`: `CountInv`, `TellInv`,
`ImportInv` and `IndexInv`.  Assumptions: `Unverified` is no verdict
(`VerdictAssumption`), `None` no process and no audit event, and the bounds are
numbers (`LedgerAssumption`).

*The batch campaign and its session*: `BestKept` (`BestIsKept`),
`WorkspaceAccounted` (`WorkspaceIsAccounted`) and `SettledLast`
(`SettledRowsLast`).  `SessionInv` tells at each stage of a request which of the
workspace and of the copy taken before the edit is what the manifest says: during
an edit it is the copy, but for the files that earlier edits left (`loose`), and a
patch that passed differs from it where it is recorded or where its tests wrote
(`Judged`).
`MainInv` (the driver is at a job that is not settled) carries the rows, `BestInv`
the selection.

*The improvement manager*: `ProductionAccounted` (`ProductionIsAccounted`), an
invariant of files that are replaced one at a time, and torn by a death in between.  `SeenInv` follows each file
from its gate through proposal and release to production (what passed, what is in
a release before and after, and what was promoted was seen by a gate), `CommandInv`
what a promotion or a rollback may still have to replace, and `LiveInv` that, unless
a command was cut short, the files it has replaced are those of its release.

*A BenchCAD record*: `ScoreHonest` (`ScoreIsHonest`).  The invariant holds as long as
no supervisor was called beside a process, which is remembered and never taken back.
`ClearInv` says that then no process is alive while the supervisor archives and
launches, so that a new one begins with nothing; `OwnInv` that whatever the job then has was made by its own
process and that the accesses it lists tell of every turn whose events show
the ground truth; `ResultInv` the same of the result, through its rewriting.  Assumption: at
least one iteration, as the driver raises otherwise (`BenchCadAssumption`).

*A paper run*: `PaperInvariance` (its part `PaperRunIsAccounted`) and `EventsKept`
(`EventsAreKept`).  The next resumption takes a number above that of every events
file (`NextNumberIsFree`, on the maximum of a finite set of numbers, for which the
well-foundedness of the order is used), at most one runner works, and `Knows` says
at each place what its copy of the record has in common with the file.

*A registered trial*: `TrialHonest` (`TrialIsHonest`).  `SealInv` keeps the record
and every launcher's copy at the versions that were sealed, and what each script
compares in agreement with them while a launcher is past the comparison; `ConversationInv` says
that only the launcher that took the directory in the ledger converses, and how far
the counts tell it came; `CatalogInv` that of several launchers in the loop only
the one that exported the first drawing gets further, and that the catalog lists
just the drawings it has published, which is why no entry is lost although the
catalog is read and written in different steps.

`WorkbenchProofs` proves the five modules that the run `Workbench` checks, each for
itself, and that their composition `WorkbenchSpec` implements each of them
(`WorkbenchImplements`), from which `ModesKept` (`ModesAreKept`) and `WorkbenchLast`
(`WorkbenchRecordsLast`) follow.

*The AutoCAD jobs*: `CommandsContained` (`CommandsAreContained`) and `EndsFinal`
(`EndsAreFinal`, a part of `WorkbenchRecordsLast`), for any number of jobs, threads
and remembered ends.  `ThreadsInv` says that a job with a thread is in the table and
has not ended, `CheckpointInv` that no command job has a thread from the moment the
server has looked until the checkpoint is saved.

*The detached campaign*: `OneCampaign` (`CampaignIsOne`) and `RecordsStay`
(`CampaignRecordsLast`, a part of `WorkbenchRecordsLast`) for any number of starts,
samples, configurations and programs, with deaths anywhere. `CampaignInv` adds to
the types what holds whatever overlaps, `RunnerInv` (a runner with a pid was
started to the end, and the end of a runner is written by a worker that is gone)
and `RowsInv` (what a campaign process binds, reads and is about to record agrees
with what the manifest names); and what only holds while starts do not overlap, `AloneInv` (a
worker past its wait owns the runner's file, nobody starts beside it, and a live
campaign process has its worker) and `KeepInv` (the process knows the rows that are
on disk). Assumption: a configuration is not the mark of a missing or torn file
(`CampaignAssumption`).

*The review workbench*: `Evidence` (`LedgerIsEvidence`) for any reviewers,
attempts, editions, presentations and reviews.  The chain is not inductive
without `LockInv` (whoever is to write holds the lock and has read the ledger as
it is now), nor the binding without `BindingInv` (a request that got past the
catalog is bound to its page's edition).  `LedgerUntouched` and `PageStep` reduce
the steps of server and pages to what they do to requests.  Assumption: a bundle
has an edition and "nobody" is no reviewer (`SettingsAssumption`).  `DraftsKept`
(`DraftsAreKept`, a part of `WorkbenchRecordsLast`) needs `SavingInv` besides: a
page that waits has a request under way, for the edition and the attempt it shows,
since the request carries them until it is answered (`PostsCarry`) and nobody
works in a page that waits (`PagesWork`).  So the draft that goes with the answer
is that of the review which was saved.

*The search for a cycle*: `SearchExact` (`SearchIsExact`, a part of
`ModesAreKept`) for any finite set of features.  The invariant has two halves.  `CallsInv`: the calls under way are a way
through the dependencies, without repetition, and are the nodes in `visiting`, so a
node met there closes a cycle.  `VisitedInv`: no set of visited nodes is entangled,
that is, each has a member that depends on none of it; a node is left when all it
depends on was visited, so this is kept, and if the search comes to its end there
is no entangled set at all.  The two meet in `EntangledIsCyclic`: a graph has a cycle
exactly if some nonempty set of its features is entangled.  From a cycle to the set
is its nodes; back, the longest way without repetition inside the set
(`WaysAreShort`: none is longer than the set of features, by counting) ends where
the next dependency lies on the way itself (`WayCloses`).  Assumption: there are
finitely many features, a reply being a file (`FeatureAssumption`).

*The conversations of a job*: `ModeHonoured` (`ModeIsHonoured`, the other part) for
any features, turns, actions, calls and deaths.  Its parts need one invariant each.
`IsolatedInv`: the conversation that is saved, or that the call goes on with, was
given no image; in these modes the builder's never becomes either.  `ForcedInv`: as long as no build
failed, nobody models before the build is on record, and from then on the record,
the recovery state and the call name the conversation that made the IR on disk; a
build that is not on record is made again, but then nobody has modelled yet.
`IRInv`: an IR on disk is the oracle's or was validated, and with
`EntangledIsCyclic` what was validated has an order to be built in
(`ValidatedIsSound`).  `QuietStep` is the step that shows nothing;
`NewThreadEffect` and `ShownEffect` say what a turn does to the conversations.

`TypeOK`, `LockDiscipline`, `InterruptedIsOver`, `ExecutionBinding`, `HistoryInv`
and `KernelTypeOK` are proved; no run checks them again.

Only model-checked is liveness (`LockIsReleased`, `Settles`, `SampleSettles`,
`JobEnds`), which is beyond the prover.  Every safety property of a passing run
is stated by a theorem.

## 6. What is not modelled

`PROJECT.json` lists every component with its status and what is left out of it.

* Numerical scoring, extraction and comparison of CAD scenes, metrics and
  statistics: numerics and pure functions of finished data.
* Reports, review pages and the rendering of prompts: formatting.
* The AutoCAD topology export's translation and the audit file of the tool
  server: I/O without a protocol of its own.
* The command line: argument parsing that calls the components above.
* `evaluation/isolation.py`, a copy of files before a run; the copies of files
  with their digests in the run ledger.
* `ingest_human_reviews`, which reads the review ledger and hashes it in a second
  read: a review that is appended in between is named by the hash and not among
  the responses.
* Numbers of attempts and time limits beyond what decides control; trimming of
  finished AutoCAD jobs.
* The one-off analyses and examples below `evals/` and `examples/`.
