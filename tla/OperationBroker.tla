--------------------------- MODULE OperationBroker --------------------------
(***************************************************************************)
(* OperationBroker.execute (src/src/cad_evoloop/agent/operations.py):      *)
(* receipts around an external action that may or may not take effect      *)
(* before its caller learns of it.  Each caller runs execute() once at a   *)
(* time inside the current execution of a work unit; an append is one      *)
(* step and is answered from the log when its idempotency key was used.    *)
(* A unit may be recovered while a caller still runs in its old execution. *)
(* All calls for one operation carry the same name and arguments.          *)
(***************************************************************************)
EXTENDS ProjectState

CONSTANTS
  Callers,    \* processes that call execute()
  Unit,       \* the work unit they call it in
  EffectCap   \* bound: how often an action takes effect

ASSUME BrokerAssumption ==
  /\ Unit \in Units
  /\ EffectCap \in Nat
  /\ OperationAttemptCap # 0
  /\ None \notin {"adopt", "compensate", "retry", "recovered", "raised"}

VARIABLES
  pc,         \* of each caller: where in execute() it is
  operation,  \* of each caller: operation_id
  held,       \* of each caller: execution_id
  existing,   \* of each caller: the attempts of the record it last read
  decision,   \* of each caller: the disposition its reconciler returned
  startedBy,  \* of each operation.started and .retry_started key: the execution in it
  reason,     \* of each operation.uncertain key: the error in it
  verdict,    \* of each operation.reconciled key: the disposition in it
  completedKey,  \* whether the operation.completed key of each operation is used
  effects,    \* history: how often the action of each operation took effect
  overlapped  \* history: whether a caller ever began while another was still at work

brokerProjectVars == <<projectStatus, planVars, unitVars, operations>>
callerVars == <<pc, operation, held, existing, decision>>
keyVars == <<startedBy, reason, verdict, completedKey>>
historyVars == <<effects, overlapped>>
brokerVars == <<brokerProjectVars, callerVars, keyVars, historyVars>>

Attempts == 1..OperationAttemptCap
Dispositions == {"adopt", "compensate", "retry"}
Labels == {"idle", "starting", "suspecting", "reconciling", "deciding", "retrying",
           "started", "acting", "acted", "raising"}

BrokerInit ==
  /\ Init
  /\ pc = [c \in Callers |-> "idle"]
  /\ operation = [c \in Callers |-> None]
  /\ held = [c \in Callers |-> NoExecution]
  /\ existing = [c \in Callers |-> 0]
  /\ decision = [c \in Callers |-> None]
  /\ startedBy = [o \in Operations |-> [n \in Attempts |-> NoExecution]]
  /\ reason = [o \in Operations |-> [n \in Attempts |-> None]]
  /\ verdict = [o \in Operations |-> [n \in Attempts |-> None]]
  /\ completedKey = [o \in Operations |-> FALSE]
  /\ effects = [o \in Operations |-> 0]
  /\ overlapped = FALSE

Goto(c, label) == pc' = [pc EXCEPT ![c] = label]

\* execute() returns or raises.
Leaves(c) ==
  /\ Goto(c, "idle")
  /\ operation' = [operation EXCEPT ![c] = None]
  /\ held' = [held EXCEPT ![c] = NoExecution]
  /\ existing' = [existing EXCEPT ![c] = 0]
  /\ decision' = [decision EXCEPT ![c] = None]

\* The caller goes on at label; what it knows of the record is how many attempts it had.
Goes(c, label) ==
  /\ Goto(c, label)
  /\ UNCHANGED <<operation, held, existing, decision>>

-----------------------------------------------------------------------------
(* The record is read and judged *)

\* Mutant of Enter: a receipt without an end is taken for permission to go on.
EnterIgnoringReceipt(c) ==
  /\ pc[c] = "idle"
  /\ status[Unit] = "running"
  /\ \E o \in Operations :
       /\ operation' = [operation EXCEPT ![c] = o]
       /\ existing' = [existing EXCEPT ![c] = operations[o].attempts]
       /\ \/ operations[o].status = "absent" /\ Goto(c, "starting")
          \/ operations[o].status = "running" /\ Goto(c, "started")
  /\ held' = [held EXCEPT ![c] = execution[Unit]]
  /\ overlapped' = (overlapped \/ \E other \in Callers \ {c} : pc[other] # "idle")
  /\ UNCHANGED <<brokerProjectVars, keyVars, decision, effects>>

\* A completed operation is answered and a compensated one raises without a trace.
Enter(c) ==
  /\ pc[c] = "idle"
  /\ status[Unit] = "running"
  /\ \E o \in Operations :
       /\ operation' = [operation EXCEPT ![c] = o]
       /\ existing' = [existing EXCEPT ![c] = operations[o].attempts]
       /\ \/ operations[o].status = "absent" /\ Goto(c, "starting")
          \/ operations[o].status = "running" /\ Goto(c, "suspecting")
          \/ operations[o].status = "uncertain" /\ Goto(c, "reconciling")
          \/ operations[o].status = "retryable" /\ Goto(c, "retrying")
  /\ held' = [held EXCEPT ![c] = execution[Unit]]
  /\ overlapped' = (overlapped \/ \E other \in Callers \ {c} : pc[other] # "idle")
  /\ UNCHANGED <<brokerProjectVars, keyVars, decision, effects>>

\* The caller goes on at label with the record that an append just returned; the append
\* itself left its attempts alone.
GoesAnew(c, label) ==
  /\ Goto(c, label)
  /\ existing' = [existing EXCEPT ![c] = operations[operation[c]].attempts]
  /\ UNCHANGED <<operation, held, decision>>

\* Where the code goes with that record: what is neither uncertain nor retryable falls
\* through to the action.
Continue(c, recordStatus) ==
  CASE recordStatus = "uncertain" -> GoesAnew(c, "reconciling")
    [] recordStatus = "retryable" -> GoesAnew(c, "retrying")
    [] OTHER -> GoesAnew(c, "started")

\* As Continue, after a reconciliation: an adopted result is returned, a compensated
\* operation raises.
Conclude(c, recordStatus) ==
  CASE recordStatus \in {"completed", "compensated"} -> Leaves(c)
    [] recordStatus = "retryable" -> GoesAnew(c, "retrying")
    [] OTHER -> GoesAnew(c, "started")

-----------------------------------------------------------------------------
(* Appends *)

\* operation.started, and operation.retry_started for the attempt after the one read.
Begin(c, n, accepted) ==
  \/ /\ startedBy[operation[c]][n] = NoExecution
     /\ accepted
     /\ startedBy' = [startedBy EXCEPT ![operation[c]][n] = held[c]]
     /\ Goes(c, "started")
  \/ /\ startedBy[operation[c]][n] = held[c]
     /\ Goes(c, "started")
     /\ UNCHANGED <<brokerProjectVars, startedBy>>

BeginRaises(c, n) ==
  /\ \/ startedBy[operation[c]][n] = NoExecution /\ ~(Active /\ OwnsUnit(Unit, held[c]))
     \/ startedBy[operation[c]][n] \notin {NoExecution, held[c]}
  /\ Leaves(c)
  /\ UNCHANGED <<brokerProjectVars, startedBy>>

StartOperation(c) ==
  /\ pc[c] = "starting"
  /\ \/ Begin(c, 1, OperationStarted(operation[c], Unit, held[c]))
     \/ BeginRaises(c, 1)
  /\ UNCHANGED <<reason, verdict, completedKey, historyVars>>

RetryOperation(c) ==
  /\ pc[c] = "retrying"
  /\ existing[c] < OperationAttemptCap
  /\ \/ Begin(c, existing[c] + 1, OperationRetryStarted(operation[c], Unit, held[c]))
     \/ BeginRaises(c, existing[c] + 1)
  /\ UNCHANGED <<reason, verdict, completedKey, historyVars>>

\* operation.uncertain: a receipt without an end is found.
Suspect(c) ==
  /\ pc[c] = "suspecting"
  /\ LET o == operation[c]
         n == existing[c]
     IN  \/ /\ reason[o][n] = None
            /\ OperationEnded(o, "uncertain")
            /\ reason' = [reason EXCEPT ![o][n] = "recovered"]
            /\ Continue(c, "uncertain")
         \/ /\ reason[o][n] = "recovered"
            /\ Continue(c, operations[o].status)
            /\ UNCHANGED <<brokerProjectVars, reason>>
         \/ /\ \/ reason[o][n] = None /\ operations[o].status # "running"
               \/ reason[o][n] = "raised"
            /\ Leaves(c)
            /\ UNCHANGED <<brokerProjectVars, reason>>
  /\ UNCHANGED <<startedBy, verdict, completedKey, historyVars>>

\* The reconciler inspects the external system and is right about it: there is something
\* to adopt or to compensate exactly if the action took effect.  Without one execute()
\* raises.
Inspect(c) ==
  /\ pc[c] = "reconciling"
  /\ \E disposition \in Dispositions :
       /\ disposition = "retry" <=> effects[operation[c]] = 0
       /\ decision' = [decision EXCEPT ![c] = disposition]
  /\ Goto(c, "deciding")
  /\ UNCHANGED <<brokerProjectVars, keyVars, operation, held, existing, historyVars>>

NeedsReconciliation(c) ==
  /\ pc[c] = "reconciling"
  /\ Leaves(c)
  /\ UNCHANGED <<brokerProjectVars, keyVars, historyVars>>

Reconcile(c) ==
  /\ pc[c] = "deciding"
  /\ LET o == operation[c]
         n == existing[c]
     IN  \/ /\ verdict[o][n] = None
            /\ OperationReconciled(o, decision[c])
            /\ verdict' = [verdict EXCEPT ![o][n] = decision[c]]
            /\ Conclude(c, ReconciledStatus(decision[c]))
         \/ /\ verdict[o][n] = decision[c]
            /\ Conclude(c, operations[o].status)
            /\ UNCHANGED <<brokerProjectVars, verdict>>
         \/ /\ \/ verdict[o][n] = None /\ operations[o].status # "uncertain"
               \/ verdict[o][n] \notin {None, decision[c]}
            /\ Leaves(c)
            /\ UNCHANGED <<brokerProjectVars, verdict>>
  /\ UNCHANGED <<startedBy, reason, completedKey, historyVars>>

-----------------------------------------------------------------------------
(* The action and its receipt *)

\* active_attempt is read back from the state before the action runs.
ReadAttempt(c) ==
  /\ pc[c] = "started"
  /\ existing' = [existing EXCEPT ![c] = operations[operation[c]].attempts]
  /\ Goto(c, "acting")
  /\ UNCHANGED <<brokerProjectVars, keyVars, operation, held, decision, historyVars>>

\* Mutant of Act: an action that raised is taken for one that returned.
ActOptimistically(c) ==
  /\ pc[c] = "acting"
  /\ Goes(c, "acted")
  /\ UNCHANGED <<brokerProjectVars, keyVars, historyVars>>

\* The action takes effect and returns, or raises after its effect, or before it.
Act(c) ==
  /\ pc[c] = "acting"
  /\ \/ /\ effects[operation[c]] < EffectCap
        /\ effects' = [effects EXCEPT ![operation[c]] = @ + 1]
        /\ Goes(c, "acted") \/ Goes(c, "raising")
     \/ UNCHANGED effects /\ Goes(c, "raising")
  /\ UNCHANGED <<brokerProjectVars, keyVars, overlapped>>

\* operation.completed: a second one is accepted again if it carries the same result.
CompleteOperation(c) ==
  /\ pc[c] = "acted"
  /\ \/ /\ ~completedKey[operation[c]]
        /\ OperationEnded(operation[c], "completed")
        /\ completedKey' = [completedKey EXCEPT ![operation[c]] = TRUE]
     \/ /\ completedKey[operation[c]] \/ operations[operation[c]].status # "running"
        /\ UNCHANGED <<brokerProjectVars, completedKey>>
  /\ Leaves(c)
  /\ UNCHANGED <<startedBy, reason, verdict, historyVars>>

\* operation.uncertain, and then the exception again; if the append raises, that one.
ReportRaise(c) ==
  /\ pc[c] = "raising"
  /\ LET o == operation[c]
         n == existing[c]
     IN  \/ /\ reason[o][n] = None
            /\ OperationEnded(o, "uncertain")
            /\ reason' = [reason EXCEPT ![o][n] = "raised"]
         \/ /\ reason[o][n] # None \/ operations[o].status # "running"
            /\ UNCHANGED <<brokerProjectVars, reason>>
  /\ Leaves(c)
  /\ UNCHANGED <<startedBy, verdict, completedKey, historyVars>>

-----------------------------------------------------------------------------
(* The environment *)

Crash(c) ==
  /\ pc[c] # "idle"
  /\ Leaves(c)
  /\ UNCHANGED <<brokerProjectVars, keyVars, historyVars>>

\* The project, its unit, and the starts and interruptions of the unit.
Kernel ==
  /\ \/ ProjectCreated
     \/ \E limit \in AttemptLimits : WorkUnitAdded(Unit, {}, None, None, {}, limit)
     \/ WorkUnitStarted(Unit)
     \/ WorkUnitReturned(Unit, execution[Unit])
  /\ UNCHANGED <<callerVars, keyVars, historyVars>>

BrokerStep(c) ==
  \/ Enter(c) \/ StartOperation(c) \/ RetryOperation(c)
  \/ Suspect(c) \/ Inspect(c) \/ NeedsReconciliation(c) \/ Reconcile(c)
  \/ ReadAttempt(c) \/ Act(c) \/ CompleteOperation(c) \/ ReportRaise(c)

BrokerNext ==
  \/ \E c \in Callers : BrokerStep(c) \/ Crash(c)
  \/ Kernel

BrokerSpec == BrokerInit /\ [][BrokerNext]_brokerVars

-----------------------------------------------------------------------------
(* Properties *)

\* As long as callers take turns, the external action takes effect at most once: what
\* crashed, raised or was interrupted between the effect and its receipt is reconciled,
\* never repeated.
EffectAtMostOnce == overlapped \/ \A o \in Operations : effects[o] <= 1

\* A result is only ever handed out for an action that took effect, overlap or not.
CompletedTookEffect ==
  \A o \in Operations : operations[o].status = "completed" => effects[o] > 0

\* Even callers that overlap never touch the external system before the log knows of the
\* operation, so whoever recovers it finds a record to reconcile.
EffectHasRecord ==
  \A o \in Operations : effects[o] > 0 => operations[o].status # "absent"

\* Recovery can rely on the log: it knows of every effect and completes nothing that had
\* none, and callers that take turns never repeat one.
EffectsAreAccounted == EffectAtMostOnce /\ EffectHasRecord /\ CompletedTookEffect
=============================================================================
