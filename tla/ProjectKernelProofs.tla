-------------------------- MODULE ProjectKernelProofs ------------------------
(***************************************************************************)
(* Proofs about ProjectKernel, for any number of kernels, units, crashes   *)
(* and interventions: executions have one owner, and neither an            *)
(* interrupted execution nor one that did not deliver ever succeeds.       *)
(***************************************************************************)
EXTENDS ProjectKernel, ProjectStateProofs, SequenceTheorems

\* What a kernel knows of the execution it is in.
RunInv ==
  \A k \in Kernels :
    /\ pc[k] \in {"starting", "executing", "reporting"} => target[k] \in Units
    /\ Executing(k) => run[k] \in 1..attempts[target[k]]
    /\ pc[k] = "reporting" /\ result[k] = "succeeded" => <<target[k], run[k]>> \in delivered

\* No two kernels are in the same execution, whether it is over or not.
RunsAreDistinct ==
  \A k, l \in Kernels :
    Executing(k) /\ Executing(l) /\ target[k] = target[l] /\ run[k] = run[l] => k = l

\* Only what was started can be interrupted.
InterruptedWasStarted ==
  \A u \in Units, e \in Nat : <<u, e>> \in interrupted => e <= attempts[u]

HistInv ==
  /\ RunInv
  /\ RunsAreDistinct
  /\ InterruptedWasStarted
  /\ SuccessWasDelivered
  /\ InterruptedIsOver

KernelInv == IInv /\ KernelTypeOK /\ HistInv

-----------------------------------------------------------------------------
(* The reducer's steps in the composition *)

\* What a step does to the attempts of a unit.
LEMMA AttemptsStep ==
  ASSUME TypeOK, [Next]_vars, NEW u \in Units
  PROVE  attempts'[u] = attempts[u] \/ (attempts'[u] = attempts[u] + 1 /\ status'[u] = "running")
<1>1. CASE ~UnitEvent
  BY <1>1
     DEF Next, ProjectEvent, ProjectCreated, ProjectPaused, ProjectResumed, ProjectCompleted,
         ProjectAbandoned, PlanningEvent, PlanRegistered, ContractRegistered,
         ArtifactRegistered, WorkUnitAdded, AddUnit, OperationEvent, OperationStarted,
         OperationRetryStarted, OperationEnded, OperationReconciled, vars, unitVars
<1>2. CASE UnitEvent
  <2> PICK v \in Units :
        \/ WorkUnitStarted(v)
        \/ UNCHANGED attempts
    BY <1>2 DEF UnitEvent, WorkUnitReopened, ContractEvaluated, WorkUnitSucceeded,
                WorkUnitReturned, WorkUnitStopped, Leave
  <2>1. QED
    BY DEF WorkUnitStarted, TypeOK
<1>3. QED
  BY <1>1, <1>2

\* The execution that owns a unit is its latest one.
LEMMA OwnerIsLatest ==
  ASSUME IInv, NEW u \in Units, NEW e, OwnsUnit(u, e)
  PROVE  e = attempts[u]
BY DEF IInv, ExecutionBinding, OwnsUnit

\* Outcome events of an execution the unit has had are events of the reducer.
LEMMA OutcomeIsUnitEvent ==
  ASSUME IInv, NEW u \in Units, NEW e \in Nat \ {0},
         \/ WorkUnitSucceeded(u, e) \/ WorkUnitReturned(u, e)
         \/ \E outcome \in {"blocked", "failed", "cancelled"} : WorkUnitStopped(u, e, outcome)
         \/ \E verdict \in BOOLEAN : ContractEvaluated(u, e, verdict)
  PROVE  Next
<1>1. OwnsUnit(u, e)
  BY DEF WorkUnitSucceeded, WorkUnitReturned, WorkUnitStopped, ContractEvaluated
<1>2. e \in 1..attempts[u]
  BY <1>1, OwnerIsLatest DEF IInv, TypeOK
<1>3. QED
  BY <1>2 DEF Next, UnitEvent

LEMMA ExecutingFacts ==
  ASSUME KernelInv, NEW k \in Kernels, Executing(k)
  PROVE  /\ target[k] \in Units
         /\ attempts[target[k]] \in Nat
         /\ run[k] \in Nat \ {0}
         /\ run[k] <= attempts[target[k]]
<1>1. target[k] \in Units
  BY DEF KernelInv, HistInv, RunInv, Executing
<1>2. attempts[target[k]] \in Nat
  BY <1>1 DEF KernelInv, IInv, TypeOK
<1>3. run[k] \in 1..attempts[target[k]]
  BY DEF KernelInv, HistInv, RunInv
<1>4. QED
  BY <1>1, <1>2, <1>3

LEMMA KernelStepsAreEvents ==
  ASSUME KernelInv, [KernelNext]_kernelVars
  PROVE  [Next]_vars
<1> USE DEF KernelInv
<1>1. CASE UNCHANGED projectVars
  BY <1>1 DEF projectVars, vars
<1>2. CASE Operator \/ Planner
  <2>1. \A additional \in 0..AttemptCap, u \in Units : WorkUnitReopened(u, additional) => UnitEvent
    BY DEF UnitEvent
  <2>2. QED
    BY <1>2, <2>1 DEF Operator, Planner, Next, ProjectEvent
<1>3. ASSUME NEW k \in Kernels, Produce(k)
      PROVE  Next
  <2>1. target[k] \in Units \union {None}
    BY <1>3 DEF Produce, KernelTypeOK
  <2>2. QED
    BY <1>3, <2>1 DEF Produce, Next, PlanningEvent
<1>4. ASSUME NEW k \in Kernels, Evaluate(k)
      PROVE  Next
  <2>1. target[k] \in Units /\ run[k] \in Nat \ {0}
    BY <1>4, ExecutingFacts DEF Evaluate, Executing, KernelInv
  <2>2. QED
    BY <1>4, <2>1, OutcomeIsUnitEvent DEF Evaluate
<1>5. ASSUME NEW k \in Kernels, Interrupt(k)
      PROVE  Next \/ UNCHANGED projectVars
  <2> SUFFICES ASSUME NEW i \in NextRunning(k),
                      InterruptedEvent(rest[k][i], view[k][rest[k][i]])
               PROVE  Next
    BY <1>5 DEF Interrupt
  <2>1. rest[k][i] \in Units /\ view[k][rest[k][i]] \in Nat \ {0}
    BY DEF KernelTypeOK, NextRunning, NoExecution
  <2>2. QED
    BY <2>1, OutcomeIsUnitEvent DEF InterruptedEvent
<1>6. ASSUME NEW k \in Kernels, Start(k) \/ Complete(k)
      PROVE  Next
  BY <1>6 DEF Start, Complete, HistInv, RunInv, Next, UnitEvent, ProjectEvent
<1>7. ASSUME NEW k \in Kernels, Report(k)
      PROVE  Next
  <2>1. target[k] \in Units /\ run[k] \in Nat \ {0}
    BY <1>7, ExecutingFacts DEF Report, Executing, KernelInv
  <2>2. QED
    BY <1>7, <2>1, OutcomeIsUnitEvent DEF Report, OutcomeEvent, WorkUnitStopped
<1>8. QED
  BY <1>1, <1>2, <1>3, <1>4, <1>5, <1>6, <1>7
     DEF KernelNext, KernelStep, Boot, Recovered, Schedule, ScheduleCompletion, Finish,
         StartRaises, CompleteAgain, Execute, ReturnWith, ReportRaises, Crash, kernelVars

-----------------------------------------------------------------------------
(* What the kernels know stays true *)

\* Steps that start nothing, let nothing succeed and take no execution up.
LEMMA NothingStartsOrSucceeds ==
  ASSUME KernelInv, [Next]_vars,
         \A u \in Units : status'[u] \in {"running", "succeeded"} =>
           status'[u] = status[u] /\ attempts'[u] = attempts[u],
         \A k \in Kernels : Executing(k)' =>
           Executing(k) /\ target'[k] = target[k] /\ run'[k] = run[k],
         \A k \in Kernels :
           /\ pc'[k] = "starting" => target'[k] \in Units
           /\ pc'[k] = "reporting" /\ result'[k] = "succeeded" =>
                <<target'[k], run'[k]>> \in delivered',
         delivered \subseteq delivered',
         \A u \in Units, e \in Nat : <<u, e>> \in interrupted' =>
           \/ <<u, e>> \in interrupted
           \/ e = attempts[u] /\ status'[u] \notin {"running", "succeeded"}
  PROVE  HistInv'
<1>1. \A u \in Units : attempts'[u] = attempts[u] /\ attempts[u] \in Nat
  BY AttemptsStep DEF KernelInv, IInv, TypeOK
<1>2. RunInv'
  <2> SUFFICES ASSUME NEW k \in Kernels
               PROVE  /\ Executing(k)' => target'[k] \in Units /\ run'[k] \in 1..attempts'[target'[k]]
    BY DEF RunInv, Executing
  <2>1. QED
    BY <1>1, ExecutingFacts
<1>3. RunsAreDistinct'
  BY DEF RunsAreDistinct, KernelInv, HistInv
<1>4. InterruptedWasStarted'
  BY <1>1 DEF InterruptedWasStarted, KernelInv, HistInv
<1>5. SuccessWasDelivered'
  BY <1>1 DEF SuccessWasDelivered, KernelInv, HistInv
<1>6. InterruptedIsOver'
  BY <1>1 DEF InterruptedIsOver, KernelInv, HistInv
<1>7. QED
  BY <1>2, <1>3, <1>4, <1>5, <1>6 DEF HistInv

\* A start takes up an execution that nobody has ever been in.
LEMMA StartHist ==
  ASSUME KernelInv, NEW k \in Kernels, Start(k)
  PROVE  HistInv'
<1> USE DEF KernelInv
<1> PICK t \in Units : t = target[k]
  BY DEF Start, HistInv, RunInv
<1>1. /\ attempts[t] \in Nat
      /\ attempts' = [attempts EXCEPT ![t] = attempts[t] + 1]
      /\ status' = [status EXCEPT ![t] = "running"]
      /\ run' = [run EXCEPT ![k] = attempts[t] + 1]
      /\ pc' = [pc EXCEPT ![k] = "executing"]
      /\ UNCHANGED <<target, result, interrupted, delivered>>
  BY DEF Start, WorkUnitStarted, Goto, IInv, TypeOK, historyVars
<1>2. /\ attempts'[t] = attempts[t] + 1 /\ status'[t] = "running"
      /\ \A u \in Units \ {t} : attempts'[u] = attempts[u] /\ status'[u] = status[u]
      /\ \A u \in Units : attempts[u] \in Nat /\ attempts'[u] \in Nat /\ attempts[u] <= attempts'[u]
  BY <1>1 DEF IInv, TypeOK
<1>3. /\ pc'[k] = "executing" /\ run'[k] = attempts[t] + 1
      /\ \A l \in Kernels \ {k} : pc'[l] = pc[l] /\ run'[l] = run[l]
  BY <1>1 DEF KernelTypeOK
<1>4. RunInv'
  <2>1. ASSUME NEW l \in Kernels, Executing(l)'
        PROVE  target'[l] \in Units /\ run'[l] \in 1..attempts'[target'[l]]
    <3>1. CASE l = k
      BY <1>1, <1>2, <1>3, <3>1
    <3>2. CASE l # k
      <4>1. Executing(l)
        BY <1>3, <2>1, <3>2 DEF Executing
      <4>2. QED
        BY <1>1, <1>2, <1>3, <3>2, <4>1, ExecutingFacts
    <3>3. QED
      BY <3>1, <3>2
  <2>2. ASSUME NEW l \in Kernels
        PROVE  /\ pc'[l] = "starting" => target'[l] \in Units
               /\ pc'[l] = "reporting" /\ result'[l] = "succeeded" =>
                    <<target'[l], run'[l]>> \in delivered'
    BY <1>1, <1>3 DEF HistInv, RunInv
  <2>3. QED
    BY <2>1, <2>2 DEF RunInv, Executing
<1>5. RunsAreDistinct'
  <2>1. \A l \in Kernels \ {k} : Executing(l)' =>
          Executing(l) /\ ~(target'[l] = t /\ run'[l] = attempts[t] + 1)
    BY <1>1, <1>3, ExecutingFacts DEF Executing
  <2>2. QED
    BY <1>1, <1>3, <2>1 DEF RunsAreDistinct, HistInv
<1>6. InterruptedWasStarted'
  BY <1>1, <1>2 DEF InterruptedWasStarted, HistInv
<1>7. SuccessWasDelivered'
  BY <1>1, <1>2 DEF SuccessWasDelivered, HistInv
<1>8. InterruptedIsOver'
  <2>1. <<t, attempts[t] + 1>> \notin interrupted
    BY <1>1 DEF HistInv, InterruptedWasStarted
  <2>2. QED
    BY <1>1, <1>2, <2>1 DEF InterruptedIsOver, HistInv
<1>9. QED
  BY <1>4, <1>5, <1>6, <1>7, <1>8 DEF HistInv

\* A success is reported by the execution that delivered it.
LEMMA SuccessHist ==
  ASSUME KernelInv, NEW k \in Kernels, Report(k), WorkUnitSucceeded(target[k], run[k]),
         result[k] = "succeeded"
  PROVE  HistInv'
<1> USE DEF KernelInv
<1> PICK t \in Units : t = target[k]
  BY DEF Report, HistInv, RunInv
<1>1. /\ run[k] = attempts[t]
      /\ <<t, attempts[t]>> \in delivered
      /\ status[t] = "running"
  BY OwnerIsLatest DEF Report, WorkUnitSucceeded, OwnsUnit, HistInv, RunInv
<1>2. /\ attempts' = attempts
      /\ status' = [status EXCEPT ![t] = "succeeded"]
      /\ UNCHANGED <<interrupted, delivered>>
  BY DEF Report, WorkUnitSucceeded, Leave, historyVars
<1>3. \A l \in Kernels : /\ pc'[l] \in {"starting", "executing", "reporting"} =>
                              l # k /\ pc'[l] = pc[l]
                         /\ l # k => /\ target'[l] = target[l] /\ run'[l] = run[l]
                                     /\ result'[l] = result[l]
  BY DEF Report, Goto, KernelTypeOK
<1>4. RunInv'
  BY <1>2, <1>3 DEF RunInv, Executing, HistInv
<1>5. RunsAreDistinct'
  BY <1>3 DEF RunsAreDistinct, Executing, HistInv
<1>6. InterruptedWasStarted'
  BY <1>2 DEF InterruptedWasStarted, HistInv
<1>7. SuccessWasDelivered'
  BY <1>1, <1>2 DEF SuccessWasDelivered, HistInv, IInv, TypeOK
<1>8. InterruptedIsOver'
  <2>1. <<t, attempts[t]>> \notin interrupted
    BY <1>1 DEF InterruptedIsOver, HistInv
  <2>2. QED
    BY <1>2, <2>1 DEF InterruptedIsOver, HistInv, IInv, TypeOK
<1>9. QED
  BY <1>4, <1>5, <1>6, <1>7, <1>8 DEF HistInv

\* A unit that its execution leaves without success.
LEMMA LeaveStartsNothing ==
  ASSUME TypeOK, NEW u \in Units, NEW outcome, outcome \notin {"running", "succeeded"},
         Leave(u, outcome)
  PROVE  /\ \A v \in Units : status'[v] \in {"running", "succeeded"} =>
              status'[v] = status[v] /\ attempts'[v] = attempts[v]
         /\ status'[u] \notin {"running", "succeeded"}
BY DEF Leave, TypeOK

\* The operator and the planner start nothing and let nothing succeed.
LEMMA OthersStartNothing ==
  ASSUME TypeOK, Operator \/ Planner
  PROVE  \A v \in Units : status'[v] \in {"running", "succeeded"} =>
           status'[v] = status[v] /\ attempts'[v] = attempts[v]
<1>1. ASSUME NEW u \in Units, NEW additional, WorkUnitReopened(u, additional)
      PROVE  \A v \in Units : status'[v] \in {"running", "succeeded"} =>
               status'[v] = status[v] /\ attempts'[v] = attempts[v]
  BY <1>1 DEF WorkUnitReopened, TypeOK
<1>2. ASSUME NEW u \in Units, NEW deps, NEW contract, NEW plan, NEW inputs, NEW limit,
             WorkUnitAdded(u, deps, contract, plan, inputs, limit)
      PROVE  \A v \in Units : status'[v] \in {"running", "succeeded"} =>
               status'[v] = status[v] /\ attempts'[v] = attempts[v]
  BY <1>2 DEF WorkUnitAdded, AddUnit, TypeOK
<1>3. QED
  BY <1>1, <1>2
     DEF Operator, Planner, PlanningEvent, ProjectCreated, ProjectPaused, ProjectResumed,
         ProjectAbandoned, PlanRegistered, ContractRegistered, ArtifactRegistered, unitVars

\* Steps of a kernel that leave the project alone, and its end.
LEMMA LocalHist ==
  ASSUME KernelInv, NEW k \in Kernels, UNCHANGED projectVars,
         \/ Boot(k) \/ Recovered(k) \/ Schedule(k) \/ ScheduleCompletion(k) \/ Execute(k)
         \/ Exit(k) /\ UNCHANGED <<interrupted, delivered>>
  PROVE  HistInv'
<1> USE DEF KernelInv
<1>1. [Next]_vars
  BY DEF projectVars, vars
<1>2. UNCHANGED <<status, attempts>>
  BY DEF projectVars, unitVars
<1>3. CASE Boot(k) \/ Recovered(k) \/ Schedule(k) \/ ScheduleCompletion(k)
  <2>1. /\ pc'[k] \notin {"executing", "reporting"}
        /\ pc'[k] = "starting" => target'[k] \in Units
        /\ \A l \in Kernels \ {k} : pc'[l] = pc[l] /\ target'[l] = target[l]
        /\ UNCHANGED <<run, result, delivered, interrupted>>
    BY <1>3 DEF Boot, Recovered, Schedule, ScheduleCompletion, Goto, historyVars, KernelTypeOK
  <2>2. QED
    BY <1>1, <1>2, <2>1, NothingStartsOrSucceeds DEF Executing, HistInv, RunInv
<1>4. CASE Execute(k)
  <2> PICK outcome \in Outcomes : ReturnWith(k, outcome)
    BY <1>4 DEF Execute
  <2>1. /\ pc[k] = "executing" /\ pc'[k] = "reporting" /\ result'[k] = outcome
        /\ \A l \in Kernels \ {k} : pc'[l] = pc[l] /\ result'[l] = result[l]
        /\ UNCHANGED <<target, run, interrupted>>
        /\ delivered \subseteq delivered'
        /\ outcome = "succeeded" => <<target[k], run[k]>> \in delivered'
    BY DEF ReturnWith, Goto, KernelTypeOK
  <2>2. QED
    BY <1>1, <1>2, <2>1, NothingStartsOrSucceeds DEF Executing, HistInv, RunInv
<1>5. CASE Exit(k) /\ UNCHANGED <<interrupted, delivered>>
  <2>1. /\ pc'[k] = "off"
        /\ \A l \in Kernels \ {k} : /\ pc'[l] = pc[l] /\ target'[l] = target[l]
                                    /\ run'[l] = run[l] /\ result'[l] = result[l]
    BY <1>5 DEF Exit, Goto, KernelTypeOK
  <2>2. QED
    BY <1>1, <1>2, <1>5, <2>1, NothingStartsOrSucceeds DEF Executing, HistInv, RunInv
<1>6. QED
  BY <1>3, <1>4, <1>5

\* A recovering kernel puts an end to executions, its own earlier ones and those of others.
LEMMA InterruptHist ==
  ASSUME KernelInv, NEW k \in Kernels, Interrupt(k), [Next]_vars
  PROVE  HistInv'
<1> USE DEF KernelInv
<1> PICK i \in NextRunning(k) :
      LET u == rest[k][i]
          e == view[k][u]
      IN  \/ /\ <<u, e>> \notin interrupted
             /\ InterruptedEvent(u, e)
             /\ interrupted' = interrupted \union {<<u, e>>}
             /\ UNCHANGED <<pc, target, run, result, delivered>>
          \/ UNCHANGED projectVars /\ UNCHANGED <<pc, target, run, result, interrupted, delivered>>
          \/ UNCHANGED projectVars /\ Exit(k) /\ UNCHANGED <<interrupted, delivered>>
  BY DEF Interrupt, historyVars
<1> PICK u \in Units : u = rest[k][i]
  BY DEF NextRunning, KernelTypeOK
<1> PICK e \in Nat : e = view[k][u]
  BY DEF KernelTypeOK
<1>1. CASE /\ InterruptedEvent(u, e)
           /\ interrupted' = interrupted \union {<<u, e>>}
           /\ UNCHANGED <<pc, target, run, result, delivered>>
  <2>1. e = attempts[u]
    BY <1>1, OwnerIsLatest DEF InterruptedEvent, WorkUnitReturned
  <2>2. /\ \A v \in Units : status'[v] \in {"running", "succeeded"} =>
             status'[v] = status[v] /\ attempts'[v] = attempts[v]
        /\ status'[u] \notin {"running", "succeeded"}
    BY <1>1, LeaveStartsNothing DEF InterruptedEvent, WorkUnitReturned, IInv
  <2>3. QED
    BY <1>1, <2>1, <2>2, NothingStartsOrSucceeds DEF Executing, HistInv, RunInv
<1>2. CASE UNCHANGED projectVars /\ UNCHANGED <<pc, target, run, result, interrupted, delivered>>
  BY <1>2, NothingStartsOrSucceeds DEF projectVars, unitVars, Executing, HistInv, RunInv
<1>3. CASE UNCHANGED projectVars /\ Exit(k) /\ UNCHANGED <<interrupted, delivered>>
  BY <1>3, LocalHist
<1>4. QED
  BY <1>1, <1>2, <1>3

\* A kernel reports any other outcome.
LEMMA ReportHist ==
  ASSUME KernelInv, NEW k \in Kernels, Report(k), [Next]_vars
  PROVE  HistInv'
<1> USE DEF KernelInv
<1> PICK t \in Units : t = target[k]
  BY DEF Report, HistInv, RunInv
<1>1. CASE result[k] = "succeeded" /\ WorkUnitSucceeded(t, run[k])
  BY <1>1, SuccessHist
<1>2. ASSUME NEW outcome, outcome \notin {"running", "succeeded"}, Leave(t, outcome)
      PROVE  HistInv'
  <2>1. \A v \in Units : status'[v] \in {"running", "succeeded"} =>
          status'[v] = status[v] /\ attempts'[v] = attempts[v]
    BY <1>2, LeaveStartsNothing DEF IInv
  <2>2. /\ pc'[k] = "ready"
        /\ \A l \in Kernels \ {k} : /\ pc'[l] = pc[l] /\ target'[l] = target[l]
                                    /\ run'[l] = run[l] /\ result'[l] = result[l]
        /\ UNCHANGED <<interrupted, delivered>>
    BY DEF Report, Goto, KernelTypeOK, historyVars
  <2>3. QED
    BY <2>1, <2>2, NothingStartsOrSucceeds DEF Executing, HistInv, RunInv
<1>3. QED
  BY <1>1, <1>2 DEF Report, OutcomeEvent, WorkUnitReturned, WorkUnitStopped

\* What executors, the operator and the planner do to the project.
LEMMA EnvironmentHist ==
  ASSUME KernelInv, [Next]_vars,
         Operator \/ Planner \/ \E k \in Kernels : Produce(k) \/ Evaluate(k)
  PROVE  HistInv'
<1> USE DEF KernelInv
<1>1. UNCHANGED <<pc, target, run, result, interrupted, delivered>>
  BY DEF Operator, Planner, Produce, Evaluate, localVars, historyVars
<1>2. \A v \in Units : status'[v] \in {"running", "succeeded"} =>
        status'[v] = status[v] /\ attempts'[v] = attempts[v]
  BY OthersStartNothing
     DEF Produce, Evaluate, ArtifactRegistered, ContractEvaluated, unitVars, IInv
<1>3. QED
  BY <1>1, <1>2, NothingStartsOrSucceeds DEF Executing, HistInv, RunInv

-----------------------------------------------------------------------------
(* Types *)

LEMMA RestStaysTyped ==
  ASSUME NEW s \in Seq(Units), NEW i \in 1..Len(s)
  PROVE  SubSeq(s, i + 1, Len(s)) \in Seq(Units)
BY SubSeqProperties

LEMMA InterruptTypeOK ==
  ASSUME KernelInv, NEW k \in Kernels, Interrupt(k), IInv'
  PROVE  KernelTypeOK'
<1> USE DEF KernelInv
<1> PICK i \in NextRunning(k) :
      \/ /\ interrupted' = interrupted \union {<<rest[k][i], view[k][rest[k][i]]>>}
         /\ rest' = [rest EXCEPT ![k] = SubSeq(rest[k], i + 1, Len(rest[k]))]
         /\ view' = [view EXCEPT ![k] = execution']
         /\ UNCHANGED <<pc, target, run, result, delivered, crashes, interventions>>
      \/ /\ rest' = [rest EXCEPT ![k] = SubSeq(rest[k], i + 1, Len(rest[k]))]
         /\ view' = [view EXCEPT ![k] = execution]
         /\ UNCHANGED <<pc, target, run, result, historyVars>>
      \/ Exit(k) /\ UNCHANGED historyVars
  BY DEF Interrupt
<1>1. i \in 1..Len(rest[k]) /\ rest[k] \in Seq(Units)
  BY DEF NextRunning, KernelTypeOK
<1>2. rest[k][i] \in Units /\ view[k][rest[k][i]] \in Nat
  BY <1>1 DEF KernelTypeOK
<1>3. SubSeq(rest[k], i + 1, Len(rest[k])) \in Seq(Units)
  BY <1>1, RestStaysTyped
<1>4. execution \in [Units -> Nat] /\ execution' \in [Units -> Nat]
  BY DEF IInv, TypeOK
<1>5. rest' \in [Kernels -> Seq(Units)] /\ view' \in [Kernels -> [Units -> Nat]]
  <2>1. <<>> \in Seq(Units) /\ [u \in Units |-> NoExecution] \in [Units -> Nat]
    BY DEF NoExecution
  <2>2. rest \in [Kernels -> Seq(Units)] /\ view \in [Kernels -> [Units -> Nat]]
    BY DEF KernelTypeOK
  <2>3. QED
    BY <1>3, <1>4, <2>1, <2>2 DEF Exit
<1>6. <<rest[k][i], view[k][rest[k][i]]>> \in Units \X Nat
  BY <1>2
<1>7. /\ interrupted' \subseteq Units \X Nat
      /\ UNCHANGED <<delivered, crashes, interventions>>
  BY <1>6 DEF KernelTypeOK, historyVars
<1>8. /\ pc' \in [Kernels -> Labels]
      /\ target' \in [Kernels -> Units \union {None}]
      /\ run' \in [Kernels -> Nat]
      /\ result' \in [Kernels -> Outcomes \union {None}]
  <2>1. CASE Exit(k)
    BY <2>1 DEF Exit, Goto, Labels, KernelTypeOK, NoExecution
  <2>2. CASE UNCHANGED <<pc, target, run, result>>
    BY <2>2 DEF KernelTypeOK
  <2>3. QED
    BY <2>1, <2>2
<1>9. QED
  BY <1>5, <1>7, <1>8 DEF KernelTypeOK

LEMMA KernelTypes ==
  ASSUME KernelInv, [KernelNext]_kernelVars, IInv'
  PROVE  KernelTypeOK'
<1> USE DEF KernelInv
<1>1. CASE UNCHANGED kernelVars
  BY <1>1 DEF kernelVars, localVars, historyVars, KernelTypeOK
<1>2. ASSUME NEW k \in Kernels, Interrupt(k)
      PROVE  KernelTypeOK'
  BY <1>2, InterruptTypeOK
<1>3. ASSUME NEW k \in Kernels, Exit(k),
             UNCHANGED <<interrupted, delivered, interventions>>,
             crashes' \in 0..CrashCap
      PROVE  KernelTypeOK'
  BY <1>3 DEF Exit, Goto, Labels, KernelTypeOK, NoExecution
<1>4. ASSUME NEW k \in Kernels,
             \/ Finish(k) \/ StartRaises(k) \/ Complete(k) \/ CompleteAgain(k)
             \/ ReportRaises(k) \/ Crash(k)
      PROVE  KernelTypeOK'
  <2>1. /\ Exit(k) /\ UNCHANGED <<interrupted, delivered, interventions>>
        /\ crashes' = crashes \/ (crashes < CrashCap /\ crashes' = crashes + 1)
    BY <1>4 DEF Finish, StartRaises, Complete, CompleteAgain, ReportRaises, Crash, historyVars
  <2>2. crashes' \in 0..CrashCap
    BY <2>1, KernelAssumption DEF KernelTypeOK
  <2>3. QED
    BY <1>3, <2>1, <2>2
<1>5. ASSUME NEW k \in Kernels, Boot(k) \/ Recovered(k) \/ Schedule(k) \/ ScheduleCompletion(k)
      PROVE  KernelTypeOK'
  <2>1. /\ execution \in [Units -> Nat] /\ [u \in Units |-> NoExecution] \in [Units -> Nat]
        /\ workOrder \in Seq(Units) /\ <<>> \in Seq(Units)
    BY DEF IInv, TypeOK, NoExecution
  <2>2. UNCHANGED <<run, result, interrupted, delivered, crashes, interventions>>
    BY <1>5 DEF Boot, Recovered, Schedule, ScheduleCompletion, historyVars
  <2>3. pc' \in [Kernels -> Labels]
    BY <1>5 DEF Boot, Recovered, Schedule, ScheduleCompletion, Goto, Labels, KernelTypeOK
  <2>4. target' \in [Kernels -> Units \union {None}]
    BY <1>5 DEF Boot, Recovered, Schedule, ScheduleCompletion, KernelTypeOK
  <2>5. view' \in [Kernels -> [Units -> Nat]] /\ rest' \in [Kernels -> Seq(Units)]
    BY <1>5, <2>1 DEF Boot, Recovered, Schedule, ScheduleCompletion, KernelTypeOK
  <2>6. QED
    BY <2>2, <2>3, <2>4, <2>5 DEF KernelTypeOK
<1>6. ASSUME NEW k \in Kernels, Start(k)
      PROVE  KernelTypeOK'
  <2> PICK t \in Units : t = target[k]
    BY <1>6 DEF Start, HistInv, RunInv
  <2>1. attempts[t] + 1 \in Nat
    BY DEF IInv, TypeOK
  <2>2. QED
    BY <1>6, <2>1 DEF Start, Goto, Labels, KernelTypeOK, historyVars
<1>7. ASSUME NEW k \in Kernels, Execute(k)
      PROVE  KernelTypeOK'
  <2> PICK outcome \in Outcomes : ReturnWith(k, outcome)
    BY <1>7 DEF Execute
  <2>1. target[k] \in Units /\ run[k] \in Nat
    BY ExecutingFacts DEF ReturnWith, Executing
  <2>2. QED
    BY <2>1 DEF ReturnWith, Goto, Labels, KernelTypeOK
<1>8. ASSUME NEW k \in Kernels, Report(k)
      PROVE  KernelTypeOK'
  BY <1>8 DEF Report, Goto, Labels, KernelTypeOK, historyVars, NoExecution
<1>9. ASSUME Operator
      PROVE  KernelTypeOK'
  BY <1>9, KernelAssumption DEF Operator, localVars, KernelTypeOK
<1>10. ASSUME Planner \/ \E k \in Kernels : Produce(k) \/ Evaluate(k)
       PROVE  KernelTypeOK'
  BY <1>10 DEF Planner, Produce, Evaluate, localVars, historyVars, KernelTypeOK
<1>11. QED
  BY <1>1, <1>2, <1>4, <1>5, <1>6, <1>7, <1>8, <1>9, <1>10 DEF KernelNext, KernelStep

-----------------------------------------------------------------------------
(* The theorems *)

LEMMA KernelInvariantStep == KernelInv /\ [KernelNext]_kernelVars => KernelInv'
<1> SUFFICES ASSUME KernelInv, [KernelNext]_kernelVars PROVE KernelInv'
  OBVIOUS
<1>1. [Next]_vars
  BY KernelStepsAreEvents
<1>2. IInv'
  BY <1>1, InductiveStep DEF KernelInv
<1>3. KernelTypeOK'
  BY <1>2, KernelTypes
<1>4. HistInv'
  <2>1. CASE UNCHANGED kernelVars
    BY <1>1, <2>1, NothingStartsOrSucceeds
       DEF kernelVars, projectVars, localVars, historyVars, unitVars, Executing, KernelInv,
           HistInv, RunInv
  <2>2. CASE Operator \/ Planner \/ \E k \in Kernels : Produce(k) \/ Evaluate(k)
    BY <1>1, <2>2, EnvironmentHist
  <2>3. ASSUME NEW k \in Kernels,
               \/ Boot(k) \/ Recovered(k) \/ Schedule(k) \/ ScheduleCompletion(k) \/ Execute(k)
               \/ Finish(k) \/ StartRaises(k) \/ CompleteAgain(k) \/ ReportRaises(k) \/ Crash(k)
        PROVE  HistInv'
    BY <2>3, LocalHist
       DEF Boot, Recovered, Schedule, ScheduleCompletion, Execute, ReturnWith, Finish,
           StartRaises, CompleteAgain, ReportRaises, Crash, historyVars
  <2>4. ASSUME NEW k \in Kernels, Complete(k)
        PROVE  HistInv'
    <3>1. /\ pc'[k] = "off"
          /\ \A l \in Kernels \ {k} : /\ pc'[l] = pc[l] /\ target'[l] = target[l]
                                      /\ run'[l] = run[l] /\ result'[l] = result[l]
          /\ UNCHANGED <<status, attempts, interrupted, delivered>>
      BY <2>4 DEF Complete, ProjectCompleted, unitVars, historyVars, Exit, Goto, KernelInv, KernelTypeOK
    <3>2. QED
      BY <1>1, <3>1, NothingStartsOrSucceeds DEF Executing, KernelInv, HistInv, RunInv
  <2>5. ASSUME NEW k \in Kernels, Interrupt(k) \/ Start(k) \/ Report(k)
        PROVE  HistInv'
    BY <1>1, <2>5, InterruptHist, StartHist, ReportHist
  <2>6. QED
    BY <2>1, <2>2, <2>3, <2>4, <2>5 DEF KernelNext, KernelStep
<1>5. QED
  BY <1>2, <1>3, <1>4 DEF KernelInv

LEMMA KernelInvariantInit == Init /\ KernelInit => KernelInv
<1> SUFFICES ASSUME Init, KernelInit PROVE KernelInv
  OBVIOUS
<1>1. IInv
  BY InitInvariant
<1>2. KernelTypeOK
  BY KernelAssumption DEF KernelInit, KernelTypeOK, Labels, NoExecution
<1>3. HistInv
  BY DEF Init, KernelInit, HistInv, RunInv, RunsAreDistinct, InterruptedWasStarted,
         SuccessWasDelivered, InterruptedIsOver, Executing
<1>4. QED
  BY <1>1, <1>2, <1>3 DEF KernelInv

\* What the kernels, the operator and the planner do together keeps the invariant of the
\* reducer and what each kernel knows of its execution.
THEOREM KernelInvariant == KernelSpec => []KernelInv
BY KernelInvariantInit, KernelInvariantStep, PTL DEF KernelSpec

\* However many kernels recover each other, at most one can still report on a unit.
THEOREM SingleOwner == KernelSpec => []OneOwner
<1>1. KernelInv => OneOwner
  BY DEF KernelInv, HistInv, RunsAreDistinct, OneOwner, OwnsUnit
<1>2. QED
  BY <1>1, KernelInvariant, PTL

\* Every success was delivered by the very execution that the state shows as succeeded.
THEOREM DeliveredSuccess == KernelSpec => []SuccessWasDelivered
<1>1. KernelInv => SuccessWasDelivered
  BY DEF KernelInv, HistInv
<1>2. QED
  BY <1>1, KernelInvariant, PTL

\* An interrupted execution neither runs nor succeeds, however late its process reports.
THEOREM InterruptionIsFinal == KernelSpec => []InterruptedIsOver
<1>1. KernelInv => InterruptedIsOver
  BY DEF KernelInv, HistInv
<1>2. QED
  BY <1>1, KernelInvariant, PTL
=============================================================================
