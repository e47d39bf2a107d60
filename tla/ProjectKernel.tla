---------------------------- MODULE ProjectKernel ---------------------------
(***************************************************************************)
(* ProjectKernel processes driving one project                             *)
(* (src/src/cad_evoloop/agent/kernel.py) through the reducer of            *)
(* ProjectState.  An append is one step, which is what EventLog promises   *)
(* and ProjectStore implements; between two appends, and between a load    *)
(* and an append, other processes and the operator may act, and a process  *)
(* may die.  A step that raises ends run(), and with it the process.       *)
(***************************************************************************)
EXTENDS ProjectState

CONSTANTS
  Kernels,           \* processes that call recover_interrupted() and run()
  CrashCap,          \* bound: how many processes die
  InterventionCap    \* bound: how often the operator intervenes

ASSUME KernelAssumption == CrashCap \in Nat /\ InterventionCap \in Nat

VARIABLES
  pc,            \* of each kernel: where it is
  target,        \* of each kernel: the unit it schedules
  run,           \* of each kernel: the execution it started
  result,        \* of each kernel: the outcome its executor returned
  view,          \* of each kernel: the active executions it saw while recovering
  rest,          \* of each kernel: the part of work_order it has yet to look at
  interrupted,   \* the idempotency keys of work_unit.interrupted that are in the log
  delivered,     \* history: the executions whose executor returned "succeeded"
  crashes,       \* how many processes died
  interventions  \* how often the operator intervened

projectVars == <<projectStatus, planVars, unitVars, operations>>
localVars == <<pc, target, run, result, view, rest>>
historyVars == <<interrupted, delivered, crashes, interventions>>
kernelVars == <<projectVars, localVars, historyVars>>

Outcomes == {"succeeded", "retry", "blocked", "failed"}
Labels == {"off", "recovering", "ready", "starting", "completing", "executing", "reporting"}

KernelInit ==
  /\ pc = [k \in Kernels |-> "off"]
  /\ target = [k \in Kernels |-> None]
  /\ run = [k \in Kernels |-> NoExecution]
  /\ result = [k \in Kernels |-> None]
  /\ view = [k \in Kernels |-> [u \in Units |-> NoExecution]]
  /\ rest = [k \in Kernels |-> <<>>]
  /\ interrupted = {}
  /\ delivered = {}
  /\ crashes = 0
  /\ interventions = 0

Goto(k, label) == pc' = [pc EXCEPT ![k] = label]

\* The process ends: nothing it knew survives.
Exit(k) ==
  /\ Goto(k, "off")
  /\ target' = [target EXCEPT ![k] = None]
  /\ run' = [run EXCEPT ![k] = NoExecution]
  /\ result' = [result EXCEPT ![k] = None]
  /\ view' = [view EXCEPT ![k] = [u \in Units |-> NoExecution]]
  /\ rest' = [rest EXCEPT ![k] = <<>>]

-----------------------------------------------------------------------------
(* recover_interrupted *)

\* Mutant of Boot: the kernel runs without recovering first.
BootWithoutRecovery(k) ==
  /\ pc[k] = "off"
  /\ projectStatus # "none"
  /\ Goto(k, "ready")
  /\ UNCHANGED <<projectVars, target, run, result, view, rest, historyVars>>

Boot(k) ==
  /\ pc[k] = "off"
  /\ projectStatus # "none"
  /\ Goto(k, "recovering")
  /\ view' = [view EXCEPT ![k] = execution]
  /\ rest' = [rest EXCEPT ![k] = workOrder]
  /\ UNCHANGED <<projectVars, target, run, result, historyVars>>

\* The index in rest[k] of the next unit that k believes to be running.
NextRunning(k) ==
  {i \in 1..Len(rest[k]) :
     /\ view[k][rest[k][i]] # NoExecution
     /\ \A j \in 1..(i - 1) : view[k][rest[k][j]] = NoExecution}

InterruptedEvent(u, e) == WorkUnitReturned(u, e)

\* The state is only loaded once and then replaced by what each append returns.
Interrupt(k) ==
  /\ pc[k] = "recovering"
  /\ \E i \in NextRunning(k) :
       LET u == rest[k][i]
           e == view[k][u]
       IN  \/ /\ <<u, e>> \notin interrupted
              /\ InterruptedEvent(u, e)
              /\ interrupted' = interrupted \union {<<u, e>>}
              /\ rest' = [rest EXCEPT ![k] = SubSeq(@, i + 1, Len(@))]
              /\ view' = [view EXCEPT ![k] = execution']
              /\ UNCHANGED <<pc, target, run, result, delivered, crashes, interventions>>
           \/ /\ <<u, e>> \in interrupted
              /\ rest' = [rest EXCEPT ![k] = SubSeq(@, i + 1, Len(@))]
              /\ view' = [view EXCEPT ![k] = execution]
              /\ UNCHANGED <<projectVars, pc, target, run, result, historyVars>>
           \/ /\ <<u, e>> \notin interrupted
              /\ ~OwnsUnit(u, e)
              /\ Exit(k)
              /\ UNCHANGED <<projectVars, historyVars>>

Recovered(k) ==
  /\ pc[k] = "recovering"
  /\ NextRunning(k) = {}
  /\ Goto(k, "ready")
  /\ rest' = [rest EXCEPT ![k] = <<>>]
  /\ view' = [view EXCEPT ![k] = [u \in Units |-> NoExecution]]
  /\ UNCHANGED <<projectVars, target, run, result, historyVars>>

-----------------------------------------------------------------------------
(* step *)

FirstReady(u) ==
  /\ Ready(u)
  /\ \E i \in 1..Len(workOrder) :
       /\ workOrder[i] = u
       /\ \A j \in 1..(i - 1) : ~Ready(workOrder[j])

\* Load the state and choose; the append that acts on the choice comes later.
Schedule(k) ==
  /\ pc[k] = "ready"
  /\ \E u \in Units : FirstReady(u) /\ target' = [target EXCEPT ![k] = u]
  /\ Goto(k, "starting")
  /\ UNCHANGED <<projectVars, run, result, view, rest, historyVars>>

ScheduleCompletion(k) ==
  /\ pc[k] = "ready"
  /\ Active
  /\ \A u \in Units : ~Ready(u)
  /\ Added # {} /\ AllSucceeded
  /\ Goto(k, "completing")
  /\ UNCHANGED <<projectVars, target, run, result, view, rest, historyVars>>

\* "paused", "terminal" and "idle" end run(); so does max_steps.
Finish(k) ==
  /\ pc[k] = "ready"
  /\ \A u \in Units : ~Ready(u)
  /\ ~(Active /\ Added # {} /\ AllSucceeded)
  /\ Exit(k)
  /\ UNCHANGED <<projectVars, historyVars>>

Start(k) ==
  /\ pc[k] = "starting"
  /\ WorkUnitStarted(target[k])
  /\ run' = [run EXCEPT ![k] = attempts[target[k]] + 1]
  /\ Goto(k, "executing")
  /\ UNCHANGED <<target, result, view, rest, historyVars>>

StartRaises(k) ==
  /\ pc[k] = "starting"
  /\ ~(Ready(target[k]) /\ ~Exhausted(target[k]))
  /\ Exit(k)
  /\ UNCHANGED <<projectVars, historyVars>>

Complete(k) ==
  /\ pc[k] = "completing"
  /\ ProjectCompleted
  /\ Exit(k)
  /\ UNCHANGED historyVars

\* Another kernel completed the project under the same key, or the append raises.
CompleteAgain(k) ==
  /\ pc[k] = "completing"
  /\ projectStatus \in TerminalProjectStatuses \/ ~AllSucceeded
  /\ Exit(k)
  /\ UNCHANGED <<projectVars, historyVars>>

-----------------------------------------------------------------------------
(* The executor: what a WorkUnitExecutor does to the project before it returns *)

Produce(k) ==
  /\ pc[k] = "executing"
  /\ \E a \in Artifacts, kind \in Kinds : ArtifactRegistered(a, kind, target[k], {})
  /\ UNCHANGED <<localVars, historyVars>>

Evaluate(k) ==
  /\ pc[k] = "executing"
  /\ \E verdict \in BOOLEAN : ContractEvaluated(target[k], run[k], verdict)
  /\ UNCHANGED <<localVars, historyVars>>

\* The executor returns.
ReturnWith(k, outcome) ==
  /\ pc[k] = "executing"
  /\ result' = [result EXCEPT ![k] = outcome]
  /\ delivered' = IF outcome = "succeeded"
                  THEN delivered \union {<<target[k], run[k]>>} ELSE delivered
  /\ Goto(k, "reporting")
  /\ UNCHANGED <<projectVars, target, run, view, rest, interrupted, crashes, interventions>>

\* The outcome of an executor that raises, which is any store call that is refused too.
RaisedOutcome(k) == IF run[k] < maxAttempts[target[k]] THEN "retry" ELSE "failed"

Execute(k) == \E outcome \in Outcomes : ReturnWith(k, outcome)

-----------------------------------------------------------------------------
(* The outcome event *)

OutcomeEvent(u, e, outcome) ==
  \/ outcome = "succeeded" /\ WorkUnitSucceeded(u, e)
  \/ outcome = "retry" /\ WorkUnitReturned(u, e)
  \/ WorkUnitStopped(u, e, outcome)

Accepts(u, e, outcome) ==
  OwnsUnit(u, e) /\ (outcome = "succeeded" => GatePassed(u, e))

\* Mutant of Report: the execution is read back from the state.
ReportCurrent(k) ==
  /\ pc[k] = "reporting"
  /\ OutcomeEvent(target[k], execution[target[k]], result[k])
  /\ Goto(k, "ready")
  /\ target' = [target EXCEPT ![k] = None]
  /\ run' = [run EXCEPT ![k] = NoExecution]
  /\ result' = [result EXCEPT ![k] = None]
  /\ UNCHANGED <<view, rest, historyVars>>

Report(k) ==
  /\ pc[k] = "reporting"
  /\ OutcomeEvent(target[k], run[k], result[k])
  /\ Goto(k, "ready")
  /\ target' = [target EXCEPT ![k] = None]
  /\ run' = [run EXCEPT ![k] = NoExecution]
  /\ result' = [result EXCEPT ![k] = None]
  /\ UNCHANGED <<view, rest, historyVars>>

\* The unit stays as it is until somebody recovers it.
ReportRaises(k) ==
  /\ pc[k] = "reporting"
  /\ ~Accepts(target[k], run[k], result[k])
  /\ Exit(k)
  /\ UNCHANGED <<projectVars, historyVars>>

-----------------------------------------------------------------------------
(* The environment *)

Crash(k) ==
  /\ pc[k] # "off"
  /\ crashes < CrashCap
  /\ crashes' = crashes + 1
  /\ Exit(k)
  /\ UNCHANGED <<projectVars, interrupted, delivered, interventions>>

Operator ==
  /\ interventions < InterventionCap
  /\ interventions' = interventions + 1
  /\ \/ ProjectPaused
     \/ ProjectResumed
     \/ ProjectAbandoned("cancelled")
     \/ \E u \in Units, additional \in 0..AttemptCap : WorkUnitReopened(u, additional)
  /\ UNCHANGED <<localVars, interrupted, delivered, crashes>>

Planner ==
  /\ ProjectCreated \/ PlanningEvent
  /\ UNCHANGED <<localVars, historyVars>>

\* What a live kernel does by itself; an executor returns or times out.
KernelStep(k) ==
  \/ Interrupt(k) \/ Recovered(k)
  \/ Schedule(k) \/ ScheduleCompletion(k) \/ Finish(k)
  \/ Start(k) \/ StartRaises(k) \/ Complete(k) \/ CompleteAgain(k)
  \/ Execute(k) \/ Report(k) \/ ReportRaises(k)

KernelNext ==
  \/ \E k \in Kernels :
       Boot(k) \/ KernelStep(k) \/ Produce(k) \/ Evaluate(k) \/ Crash(k)
  \/ Operator
  \/ Planner

KernelSpec == Init /\ KernelInit /\ [][KernelNext]_kernelVars

\* Somebody runs the kernel again whenever it has ended, and what runs goes on.
KernelFairness ==
  \A k \in Kernels : WF_kernelVars(Boot(k)) /\ WF_kernelVars(KernelStep(k))
FairKernelSpec == KernelSpec /\ KernelFairness

-----------------------------------------------------------------------------
(* Properties *)

KernelTypeOK ==
  /\ pc \in [Kernels -> Labels]
  /\ target \in [Kernels -> Units \union {None}]
  /\ run \in [Kernels -> Nat]
  /\ result \in [Kernels -> Outcomes \union {None}]
  /\ view \in [Kernels -> [Units -> Nat]]
  /\ rest \in [Kernels -> Seq(Units)]
  /\ interrupted \subseteq Units \X Nat
  /\ delivered \subseteq Units \X Nat
  /\ crashes \in 0..CrashCap
  /\ interventions \in 0..InterventionCap

Executing(k) == pc[k] \in {"executing", "reporting"}

\* Of all the processes that believe they execute a unit, recovered ones and those that
\* outlived their recovery alike, at most one can still report on it.
OneOwner ==
  \A k, l \in Kernels :
    /\ Executing(k) /\ Executing(l)
    /\ target[k] = target[l]
    /\ OwnsUnit(target[k], run[k]) /\ OwnsUnit(target[l], run[l])
    => k = l

\* A success was delivered by the execution that the state says succeeded, never by one
\* that was interrupted and whose process came back late.
SuccessWasDelivered ==
  \A u \in Units : status[u] = "succeeded" => <<u, attempts[u]>> \in delivered

\* An interrupted execution is over: it is neither active nor the one that succeeded.
InterruptedIsOver ==
  \A u \in Units : <<u, attempts[u]>> \in interrupted =>
    status[u] \notin {"running", "succeeded"}

\* Everything the kernel can do has been done: nothing runs, nothing is ready, and a
\* project whose units have all succeeded is not left open.
Settled ==
  /\ \A u \in Units : status[u] # "running" /\ ~Ready(u)
  /\ ~(Active /\ Added # {} /\ AllSucceeded)

\* Recovery and the bounded attempts bring the project to rest, whatever died where.
Settles == <>[]Settled
=============================================================================
