---------------------------- MODULE ServicesProofs -----------------------------
(***************************************************************************)
(* Proofs about the components that MCServices runs side by side: the      *)
(* inductive invariant of each, for any number of callers, clients,        *)
(* registrars, files and deaths, what follows from it, and at the end what *)
(* holds of the composed specification.                                    *)
(***************************************************************************)
EXTENDS MCServices, FiniteSetTheorems, SequenceTheorems, TLAPS

-----------------------------------------------------------------------------
(* The operation broker: types and the invariant *)

St(o) == operations[o].status
Tried(o) == operations[o].attempts

ProjectTypes ==
  /\ operations \in [Operations -> OperationRecords]
  /\ attempts \in [Units -> Nat]
  /\ status \in [Units -> WorkStatuses \union {"absent"}]
  /\ execution \in [Units -> Nat]
  /\ status[Unit] = "running" => execution[Unit] # NoExecution

CallerTypes ==
  /\ pc \in [Callers -> Labels]
  /\ operation \in [Callers -> Operations \union {None}]
  /\ held \in [Callers -> Nat]
  /\ existing \in [Callers -> Nat]
  /\ decision \in [Callers -> Dispositions \union {None}]
  /\ \A c \in Callers : pc[c] # "idle" => operation[c] \in Operations /\ held[c] # NoExecution

KeyTypes ==
  /\ startedBy \in [Operations -> [Attempts -> Nat]]
  /\ reason \in [Operations -> [Attempts -> {None, "recovered", "raised"}]]
  /\ verdict \in [Operations -> [Attempts -> Dispositions \union {None}]]
  /\ completedKey \in [Operations -> BOOLEAN]

HistoryTypes == effects \in [Operations -> Nat] /\ overlapped \in BOOLEAN

BrokerTypes == ProjectTypes /\ CallerTypes /\ KeyTypes /\ HistoryTypes

\* The keys are used in the order of the events of an attempt, and the log knows of effects.
LogInv ==
  \A o \in Operations :
    /\ St(o) = "absent" <=> Tried(o) = 0
    /\ Tried(o) <= OperationAttemptCap
    /\ \A n \in Attempts :
         /\ startedBy[o][n] # NoExecution => n <= Tried(o)
         /\ reason[o][n] # None => n <= Tried(o) /\ (n = Tried(o) => St(o) # "running")
         /\ verdict[o][n] # None =>
              n <= Tried(o) /\ (n = Tried(o) => St(o) \notin {"running", "uncertain"})
    /\ effects[o] > 0 => St(o) # "absent"
    /\ St(o) = "completed" => effects[o] > 0

\* What a caller knows that stays true whatever others do.
Sound(c) ==
  /\ pc[c] # "starting" => St(operation[c]) # "absent"
  /\ existing[c] <= Tried(operation[c])
  /\ pc[c] = "deciding" =>
       decision[c] \in Dispositions /\ (decision[c] # "retry" => effects[operation[c]] > 0)
  /\ pc[c] = "acted" => effects[operation[c]] > 0

CallerInv == \A c \in Callers : pc[c] # "idle" => Sound(c)

\* What a caller knows that has the operation to itself.
InTurn(c) ==
  /\ pc[c] = "starting" => St(operation[c]) = "absent"
  /\ pc[c] \in {"suspecting", "started", "acting", "acted", "raising"} =>
       St(operation[c]) = "running"
  /\ pc[c] \in {"reconciling", "deciding"} => St(operation[c]) = "uncertain"
  /\ pc[c] = "retrying" => St(operation[c]) = "retryable"
  /\ pc[c] \in {"started", "acting"} => effects[operation[c]] = 0
  /\ pc[c] \notin {"starting", "started"} => existing[c] = Tried(operation[c])
  /\ pc[c] = "deciding" => (decision[c] = "retry" <=> effects[operation[c]] = 0)

TurnInv ==
  ~overlapped =>
    /\ \A c, d \in Callers : pc[c] # "idle" /\ pc[d] # "idle" => c = d
    /\ \A o \in Operations : effects[o] <= 1 /\ (St(o) = "retryable" => effects[o] = 0)
    /\ \A c \in Callers : pc[c] # "idle" => InTurn(c)

BrokerInv == BrokerTypes /\ LogInv /\ CallerInv /\ TurnInv

LEMMA InitBroker == BrokerInit => BrokerInv
<1> SUFFICES ASSUME BrokerInit PROVE BrokerInv
  OBVIOUS
<1> USE DEF BrokerInit, Init
<1>1. ProjectTypes
  BY BrokerAssumption DEF ProjectTypes, OperationRecords, AbsentOperation, NoExecution
<1>2. CallerTypes /\ KeyTypes /\ HistoryTypes
  BY DEF CallerTypes, KeyTypes, HistoryTypes, Labels, NoExecution
<1>3. \A o \in Operations : St(o) = "absent" /\ Tried(o) = 0 /\ effects[o] = 0
  BY DEF St, Tried, AbsentOperation
<1>4. LogInv
  BY <1>3, LimitAssumption DEF LogInv, NoExecution
<1>5. CallerInv /\ TurnInv
  BY <1>3 DEF CallerInv, TurnInv
<1>6. QED
  BY <1>1, <1>2, <1>4, <1>5 DEF BrokerInv, BrokerTypes

-----------------------------------------------------------------------------
(* What a step does *)

Others(c) ==
  \A d \in Callers \ {c} : /\ pc'[d] = pc[d] /\ operation'[d] = operation[d]
                           /\ existing'[d] = existing[d] /\ decision'[d] = decision[d]

\* Records are not forgotten and effects not undone.
Grows ==
  \A o \in Operations : /\ Tried(o) <= Tried(o)'
                        /\ St(o) # "absent" => St(o)' # "absent"
                        /\ effects[o] <= effects'[o]

\* The turn of caller c, if there are turns.
TakesTurn(c) ==
  ~overlapped' =>
    /\ ~overlapped
    /\ \A d \in Callers \ {c} : pc[d] = "idle"
    /\ \A o \in Operations : effects'[o] <= 1 /\ (St(o)' = "retryable" => effects'[o] = 0)
    /\ pc'[c] # "idle" => InTurn(c)'

LEMMA Conclusion ==
  ASSUME BrokerInv, NEW c \in Callers, Others(c), BrokerTypes', LogInv', Grows,
         pc'[c] # "idle" => Sound(c)', TakesTurn(c)
  PROVE  BrokerInv'
<1>1. CallerInv'
  <2> SUFFICES ASSUME NEW d \in Callers, pc'[d] # "idle" PROVE Sound(d)'
    BY DEF CallerInv
  <2>1. CASE d = c
    BY <2>1
  <2>2. CASE d # c
    <3>1. Sound(d) /\ operation[d] \in Operations
      BY <2>2 DEF BrokerInv, BrokerTypes, CallerTypes, CallerInv, Others
    <3>2. /\ pc'[d] = pc[d] /\ operation'[d] = operation[d]
          /\ existing'[d] = existing[d] /\ decision'[d] = decision[d]
      BY <2>2 DEF Others
    <3>3. /\ St(operation[d]) # "absent" => operations'[operation[d]].status # "absent"
          /\ operations[operation[d]].attempts <= operations'[operation[d]].attempts
          /\ effects[operation[d]] <= effects'[operation[d]]
      BY <3>1 DEF Grows, St, Tried
    <3>4. /\ operations[operation[d]].attempts \in Nat /\ operations'[operation[d]].attempts \in Nat
          /\ existing[d] \in Nat
          /\ effects[operation[d]] \in Nat /\ effects'[operation[d]] \in Nat
      BY <3>1 DEF BrokerInv, BrokerTypes, ProjectTypes, CallerTypes, HistoryTypes, OperationRecords
    <3>5. QED
      BY <3>1, <3>2, <3>3, <3>4 DEF Sound, St, Tried
  <2>3. QED
    BY <2>1, <2>2
<1>2. TurnInv'
  BY DEF TurnInv, TakesTurn, Others
<1>3. QED
  BY <1>1, <1>2 DEF BrokerInv

LEMMA LeavesEffect ==
  ASSUME CallerTypes, NEW c \in Callers, Leaves(c)
  PROVE  CallerTypes' /\ Others(c) /\ pc'[c] = "idle"
BY DEF CallerTypes, Leaves, Goto, Others, Labels, NoExecution

LEMMA GoesEffect ==
  ASSUME CallerTypes, NEW c \in Callers, pc[c] # "idle", NEW label \in Labels, Goes(c, label)
  PROVE  /\ CallerTypes' /\ Others(c)
         /\ pc'[c] = label /\ operation' = operation /\ existing' = existing
         /\ decision' = decision
BY DEF CallerTypes, Goes, Goto, Others

LEMMA GoesAnewEffect ==
  ASSUME CallerTypes, ProjectTypes, NEW c \in Callers, pc[c] # "idle", operation[c] \in Operations,
         NEW label \in Labels, GoesAnew(c, label)
  PROVE  /\ CallerTypes' /\ Others(c)
         /\ pc'[c] = label /\ operation' = operation /\ existing'[c] = Tried(operation[c])
         /\ decision' = decision
BY DEF CallerTypes, ProjectTypes, OperationRecords, GoesAnew, Goto, Others, Tried

LEMMA RecordEffect ==
  ASSUME ProjectTypes, NEW o \in Operations, NEW r \in OperationRecords,
         operations' = [operations EXCEPT ![o] = r],
         UNCHANGED unitVars
  PROVE  /\ ProjectTypes'
         /\ St(o)' = r.status /\ Tried(o)' = r.attempts
         /\ \A p \in Operations \ {o} : St(p)' = St(p) /\ Tried(p)' = Tried(p)
BY DEF ProjectTypes, OperationRecords, unitVars, St, Tried

LEMMA ProjectUntouched ==
  ASSUME ProjectTypes, UNCHANGED brokerProjectVars
  PROVE  ProjectTypes' /\ operations' = operations
BY DEF ProjectTypes, brokerProjectVars, unitVars

LEMMA LogUntouched ==
  ASSUME LogInv, HistoryTypes, ProjectTypes, UNCHANGED <<operations, keyVars, effects>>
  PROVE  LogInv' /\ Grows
<1>1. LogInv'
  BY DEF LogInv, St, Tried, keyVars
<1>2. \A o \in Operations : Tried(o) \in Nat /\ effects[o] \in Nat
  BY DEF ProjectTypes, OperationRecords, HistoryTypes, Tried
<1>3. Grows
  BY <1>2 DEF Grows, St, Tried
<1>4. QED
  BY <1>1, <1>3

LEMMA KeysUntouched == ASSUME KeyTypes, UNCHANGED keyVars PROVE KeyTypes'
BY DEF KeyTypes, keyVars

\* What the invariant says of a caller at work.
LEMMA AtWork ==
  ASSUME BrokerInv, NEW c \in Callers, pc[c] # "idle"
  PROVE  /\ operation[c] \in Operations /\ held[c] \in Nat \ {NoExecution} /\ existing[c] \in Nat
         /\ Tried(operation[c]) \in Nat /\ effects[operation[c]] \in Nat
         /\ Sound(c)
         /\ ~overlapped =>
              /\ InTurn(c) /\ \A d \in Callers \ {c} : pc[d] = "idle"
              /\ \A o \in Operations : effects[o] <= 1 /\ (St(o) = "retryable" => effects[o] = 0)
BY DEF BrokerInv, BrokerTypes, CallerTypes, ProjectTypes, HistoryTypes, OperationRecords,
   CallerInv, TurnInv, Tried

-----------------------------------------------------------------------------
(* Steps that touch neither the log nor the world *)

LEMMA EnterStep == ASSUME BrokerInv, NEW c \in Callers, Enter(c) PROVE BrokerInv'
<1> USE DEF BrokerInv, BrokerTypes
<1>1. PICK o \in Operations :
        /\ operation' = [operation EXCEPT ![c] = o]
        /\ existing' = [existing EXCEPT ![c] = operations[o].attempts]
        /\ \/ operations[o].status = "absent" /\ Goto(c, "starting")
           \/ operations[o].status = "running" /\ Goto(c, "suspecting")
           \/ operations[o].status = "uncertain" /\ Goto(c, "reconciling")
           \/ operations[o].status = "retryable" /\ Goto(c, "retrying")
  BY DEF Enter
<1>2. /\ held' = [held EXCEPT ![c] = execution[Unit]]
      /\ overlapped' = (overlapped \/ \E other \in Callers \ {c} : pc[other] # "idle")
      /\ UNCHANGED <<brokerProjectVars, keyVars, decision, effects>>
      /\ status[Unit] = "running"
  BY DEF Enter
<1>3. ProjectTypes' /\ operations' = operations
  BY <1>2, ProjectUntouched
<1>4. KeyTypes'
  BY <1>2, KeysUntouched
<1>5. HistoryTypes'
  BY <1>2 DEF HistoryTypes
<1>6. LogInv' /\ Grows
  BY <1>2, <1>3, LogUntouched
<1>7. Tried(o) \in Nat
  BY DEF ProjectTypes, OperationRecords, Tried
<1>8. /\ operation'[c] = o /\ existing'[c] = Tried(o)
      /\ \/ St(o) = "absent" /\ pc'[c] = "starting"
         \/ St(o) = "running" /\ pc'[c] = "suspecting"
         \/ St(o) = "uncertain" /\ pc'[c] = "reconciling"
         \/ St(o) = "retryable" /\ pc'[c] = "retrying"
  BY <1>1 DEF CallerTypes, Goto, St, Tried
<1>9. CallerTypes' /\ Others(c)
  BY <1>1, <1>2, <1>7, BrokerAssumption DEF CallerTypes, ProjectTypes, Goto, Labels, Others, Tried
<1>10. Sound(c)'
  BY <1>3, <1>7, <1>8 DEF Sound, St, Tried
<1>11. TakesTurn(c)
  <2> SUFFICES ASSUME ~overlapped'
               PROVE  /\ ~overlapped
                      /\ \A d \in Callers \ {c} : pc[d] = "idle"
                      /\ \A p \in Operations :
                           effects'[p] <= 1 /\ (St(p)' = "retryable" => effects'[p] = 0)
                      /\ InTurn(c)'
    BY DEF TakesTurn
  <2>1. ~overlapped /\ \A d \in Callers \ {c} : pc[d] = "idle"
    BY <1>2 DEF HistoryTypes
  <2>2. \A p \in Operations : effects'[p] <= 1 /\ (St(p)' = "retryable" => effects'[p] = 0)
    BY <1>2, <1>3, <2>1 DEF TurnInv, St
  <2>3. InTurn(c)'
    BY <1>3, <1>8 DEF InTurn, St, Tried
  <2>4. QED
    BY <2>1, <2>2, <2>3
<1>12. QED
  BY <1>3, <1>4, <1>5, <1>6, <1>9, <1>10, <1>11, Conclusion

\* The reconciler is right about the effect, and effects are not undone.
LEMMA InspectStep == ASSUME BrokerInv, NEW c \in Callers, Inspect(c) PROVE BrokerInv'
<1> USE DEF BrokerInv, BrokerTypes
<1>1. /\ pc[c] = "reconciling" /\ pc' = [pc EXCEPT ![c] = "deciding"]
      /\ UNCHANGED <<brokerProjectVars, keyVars, operation, held, existing, effects, overlapped>>
  BY DEF Inspect, Goto, historyVars
<1>2. PICK d \in Dispositions :
        (d = "retry" <=> effects[operation[c]] = 0) /\ decision' = [decision EXCEPT ![c] = d]
  BY DEF Inspect
<1>3. /\ ProjectTypes' /\ operations' = operations
      /\ KeyTypes' /\ HistoryTypes' /\ LogInv' /\ Grows
  BY <1>1, ProjectUntouched, KeysUntouched, LogUntouched DEF HistoryTypes
<1>4. /\ CallerTypes' /\ Others(c)
      /\ pc'[c] = "deciding" /\ decision'[c] = d
  BY <1>1, <1>2 DEF CallerTypes, Labels, Others
<1>5. Sound(c)'
  BY <1>1, <1>2, <1>3, <1>4, AtWork DEF Sound, St, Tried
<1>6. TakesTurn(c)
  BY <1>1, <1>2, <1>3, <1>4, AtWork DEF TakesTurn, InTurn, St, Tried
<1>7. QED
  BY <1>3, <1>4, <1>5, <1>6, Conclusion

LEMMA GivingUp ==
  ASSUME BrokerInv, NEW c \in Callers, pc[c] # "idle", Leaves(c),
         UNCHANGED <<brokerProjectVars, keyVars, historyVars>>
  PROVE  BrokerInv'
<1> USE DEF BrokerInv, BrokerTypes
<1>1. /\ ProjectTypes' /\ operations' = operations
      /\ KeyTypes' /\ HistoryTypes' /\ LogInv' /\ Grows
  BY ProjectUntouched, KeysUntouched, LogUntouched DEF HistoryTypes, historyVars
<1>2. CallerTypes' /\ Others(c) /\ pc'[c] = "idle"
  BY LeavesEffect
<1>3. TakesTurn(c)
  BY <1>1, <1>2, AtWork DEF TakesTurn, St, historyVars
<1>4. QED
  BY <1>1, <1>2, <1>3, Conclusion

LEMMA ReadStep == ASSUME BrokerInv, NEW c \in Callers, ReadAttempt(c) PROVE BrokerInv'
<1> USE DEF BrokerInv, BrokerTypes
<1>1. /\ pc[c] = "started" /\ pc' = [pc EXCEPT ![c] = "acting"]
      /\ existing' = [existing EXCEPT ![c] = Tried(operation[c])]
      /\ UNCHANGED <<brokerProjectVars, keyVars, operation, held, decision, effects, overlapped>>
  BY DEF ReadAttempt, Goto, historyVars, Tried
<1>2. /\ ProjectTypes' /\ operations' = operations
      /\ KeyTypes' /\ HistoryTypes' /\ LogInv' /\ Grows
  BY <1>1, ProjectUntouched, KeysUntouched, LogUntouched DEF HistoryTypes
<1>3. operation[c] \in Operations /\ Tried(operation[c]) \in Nat
  BY <1>1, AtWork
<1>4. /\ CallerTypes' /\ Others(c)
      /\ pc'[c] = "acting" /\ existing'[c] = Tried(operation[c])
  BY <1>1, <1>3 DEF CallerTypes, Labels, Others
<1>5. Sound(c)'
  BY <1>1, <1>2, <1>3, <1>4, AtWork DEF Sound, St, Tried
<1>6. TakesTurn(c)
  BY <1>1, <1>2, <1>4, AtWork DEF TakesTurn, InTurn, St, Tried
<1>7. QED
  BY <1>2, <1>4, <1>5, <1>6, Conclusion

-----------------------------------------------------------------------------
(* The beginning of an attempt *)

\* The event is appended: the next attempt runs, and its key is used.
LEMMA Begun ==
  ASSUME BrokerInv, NEW c \in Callers, pc[c] \in {"starting", "retrying"},
         NEW n \in Attempts, n <= Tried(operation[c]) + 1,
         St(operation[c]) \in {"absent", "retryable"},
         Tried(operation[c]) < OperationAttemptCap,
         operations' = [operations EXCEPT ![operation[c]] =
           [status |-> "running", attempts |-> Tried(operation[c]) + 1,
            unit |-> Unit, execution |-> held[c]]],
         startedBy' = [startedBy EXCEPT ![operation[c]][n] = held[c]],
         Goes(c, "started"),
         UNCHANGED <<projectStatus, planVars, unitVars, reason, verdict, completedKey, historyVars>>
  PROVE  BrokerInv'
<1> USE DEF BrokerInv, BrokerTypes
<1>0. PICK o \in Operations : o = operation[c]
  BY AtWork
<1>1. /\ held[c] \in Nat /\ Tried(o) \in Nat
      /\ Sound(c)
  BY <1>0, AtWork
<1>2. /\ ProjectTypes' /\ St(o)' = "running" /\ Tried(o)' = Tried(o) + 1
      /\ \A p \in Operations \ {o} : St(p)' = St(p) /\ Tried(p)' = Tried(p)
  <2>1. PICK r \in OperationRecords :
          r = [status |-> "running", attempts |-> Tried(o) + 1, unit |-> Unit,
               execution |-> held[c]]
    <3>1. Tried(o) + 1 \in Nat /\ held[c] \in Nat /\ Unit \in Units
      BY <1>1, BrokerAssumption
    <3>2. QED
      BY ONLY <3>1 DEF OperationRecords, OperationStatuses
  <2>2. operations' = [operations EXCEPT ![o] = r]
    BY <1>0, <2>1
  <2>3. /\ ProjectTypes' /\ St(o)' = r.status /\ Tried(o)' = r.attempts
        /\ \A p \in Operations \ {o} : St(p)' = St(p) /\ Tried(p)' = Tried(p)
    <3>1. ProjectTypes /\ UNCHANGED unitVars
      OBVIOUS
    <3>2. QED
      BY <2>2, <3>1, RecordEffect
  <2>4. QED
    BY <2>1, <2>3
<1>3. CallerTypes' /\ Others(c) /\ pc'[c] = "started" /\ operation' = operation
      /\ existing' = existing /\ decision' = decision
  BY GoesEffect DEF Labels
<1>4. /\ KeyTypes' /\ HistoryTypes'
      /\ \A p \in Operations, m \in Attempts :
           startedBy'[p][m] # NoExecution => startedBy[p][m] # NoExecution \/ (p = o /\ m = n)
      /\ UNCHANGED <<reason, verdict, effects, overlapped>>
  BY <1>0, <1>1 DEF KeyTypes, HistoryTypes, historyVars
<1>5. \A p \in Operations : Tried(p) \in Nat /\ effects[p] \in Nat
  BY DEF ProjectTypes, OperationRecords, HistoryTypes, Tried
<1>6. LogInv'
  <2> SUFFICES ASSUME NEW p \in Operations
               PROVE  /\ St(p)' = "absent" <=> Tried(p)' = 0
                      /\ Tried(p)' <= OperationAttemptCap
                      /\ \A m \in Attempts :
                           /\ startedBy'[p][m] # NoExecution => m <= Tried(p)'
                           /\ reason'[p][m] # None =>
                                m <= Tried(p)' /\ (m = Tried(p)' => St(p)' # "running")
                           /\ verdict'[p][m] # None =>
                                /\ m <= Tried(p)'
                                /\ m = Tried(p)' => St(p)' \notin {"running", "uncertain"}
                      /\ effects'[p] > 0 => St(p)' # "absent"
                      /\ St(p)' = "completed" => effects'[p] > 0
    BY DEF LogInv
  <2>1. CASE p = o
    <3>1. \A m \in Attempts :
            /\ startedBy[o][m] # NoExecution => m <= Tried(o)
            /\ reason[o][m] # None => m <= Tried(o)
            /\ verdict[o][m] # None => m <= Tried(o)
      BY <1>1 DEF LogInv
    <3>2. Attempts \subseteq Nat
      BY DEF Attempts
    <3>3. n <= Tried(o) + 1 /\ Tried(o) + 1 # 0
      BY <1>0, <1>1
    <3>4. Tried(o) + 1 <= OperationAttemptCap
      BY <1>0, <1>1, LimitAssumption
    <3>5. \A m \in Attempts :
            /\ startedBy'[o][m] # NoExecution => m <= Tried(o) + 1
            /\ reason'[o][m] # None => m <= Tried(o) + 1 /\ m # Tried(o) + 1
            /\ verdict'[o][m] # None => m <= Tried(o) + 1 /\ m # Tried(o) + 1
      BY <1>1, <1>4, <3>1, <3>2, <3>3
    <3>6. QED
      BY <1>2, <1>4, <2>1, <3>3, <3>4, <3>5
  <2>2. CASE p # o
    BY <1>2, <1>4, <2>2 DEF LogInv
  <2>3. QED
    BY <2>1, <2>2
<1>7. Grows
  <2> SUFFICES ASSUME NEW p \in Operations
               PROVE  /\ Tried(p) <= Tried(p)' /\ effects[p] <= effects'[p]
                      /\ St(p) # "absent" => St(p)' # "absent"
    BY DEF Grows
  <2>1. CASE p = o
    BY <1>2, <1>4, <1>5, <2>1
  <2>2. CASE p # o
    BY <1>2, <1>4, <1>5, <2>2
  <2>3. QED
    BY <2>1, <2>2
<1>8. Sound(c)'
  <2>1. existing[c] <= Tried(o) + 1
    BY <1>0, <1>1, AtWork DEF Sound
  <2>2. QED
    BY <1>0, <1>2, <1>3, <2>1 DEF Sound, St, Tried
<1>9. ~overlapped => effects[o] = 0
  BY <1>0, <1>1, <1>5, AtWork DEF LogInv
<1>10. TakesTurn(c)
  <2> SUFFICES ASSUME ~overlapped
               PROVE  /\ \A d \in Callers \ {c} : pc[d] = "idle"
                      /\ \A p \in Operations :
                           effects'[p] <= 1 /\ (St(p)' = "retryable" => effects'[p] = 0)
                      /\ InTurn(c)'
    BY <1>4 DEF TakesTurn
  <2>1. InTurn(c)'
    BY <1>0, <1>2, <1>3, <1>4, <1>9 DEF InTurn, St, Tried
  <2>2. \A p \in Operations :
          effects'[p] <= 1 /\ (St(p)' = "retryable" => effects'[p] = 0)
    BY <1>2, <1>4, AtWork
  <2>3. QED
    BY <2>1, <2>2, AtWork
<1>11. QED
  BY <1>2, <1>3, <1>4, <1>6, <1>7, <1>8, <1>10, Conclusion

\* The key was used by this very execution: the attempt is there.
LEMMA BegunBefore ==
  ASSUME BrokerInv, NEW c \in Callers, pc[c] \in {"starting", "retrying"},
         NEW n \in Attempts, startedBy[operation[c]][n] = held[c],
         pc[c] = "starting" \/ n = existing[c] + 1,
         Goes(c, "started"),
         UNCHANGED <<brokerProjectVars, keyVars, historyVars>>
  PROVE  BrokerInv'
<1> USE DEF BrokerInv, BrokerTypes
<1>1. /\ ProjectTypes' /\ operations' = operations
      /\ KeyTypes' /\ HistoryTypes' /\ LogInv' /\ Grows
  BY ProjectUntouched, KeysUntouched, LogUntouched DEF HistoryTypes, historyVars
<1>2. CallerTypes' /\ Others(c) /\ pc'[c] = "started" /\ operation' = operation
      /\ existing' = existing /\ decision' = decision
  BY GoesEffect DEF Labels
<1>3. /\ operation[c] \in Operations /\ held[c] # NoExecution /\ existing[c] \in Nat
      /\ Tried(operation[c]) \in Nat /\ Sound(c)
  BY AtWork
<1>4. n <= Tried(operation[c]) /\ n \in Nat /\ n # 0
  BY <1>3 DEF LogInv, Attempts
<1>5. St(operation[c]) # "absent"
  BY <1>3, <1>4 DEF LogInv
<1>6. Sound(c)'
  BY <1>1, <1>2, <1>3, <1>5 DEF Sound, St, Tried
<1>7. overlapped
  BY <1>3, <1>4, <1>5, AtWork DEF InTurn
<1>8. TakesTurn(c)
  BY <1>7 DEF TakesTurn, historyVars
<1>9. QED
  BY <1>1, <1>2, <1>6, <1>8, Conclusion

LEMMA StartStep == ASSUME BrokerInv, NEW c \in Callers, StartOperation(c) PROVE BrokerInv'
<1>1. /\ pc[c] = "starting"
      /\ UNCHANGED <<reason, verdict, completedKey, historyVars>>
  BY DEF StartOperation
<1>2. operation[c] \in Operations /\ Tried(operation[c]) \in Nat
  BY <1>1, AtWork
<1>3. 1 \in Attempts
  BY BrokerAssumption, LimitAssumption DEF Attempts
<1>4. CASE /\ OperationStarted(operation[c], Unit, held[c])
           /\ startedBy' = [startedBy EXCEPT ![operation[c]][1] = held[c]]
           /\ Goes(c, "started")
  <2>1. /\ St(operation[c]) = "absent"
        /\ operations' = [operations EXCEPT ![operation[c]] =
             [status |-> "running", attempts |-> 1, unit |-> Unit, execution |-> held[c]]]
        /\ UNCHANGED <<projectStatus, planVars, unitVars>>
    BY <1>4 DEF OperationStarted, St
  <2>2. Tried(operation[c]) = 0
    BY <1>2, <2>1 DEF BrokerInv, LogInv
  <2>3. 1 <= Tried(operation[c]) + 1 /\ Tried(operation[c]) + 1 = 1
    BY <2>2
  <2>4. Tried(operation[c]) < OperationAttemptCap
    BY <2>2, BrokerAssumption, LimitAssumption
  <2>5. QED
    BY <1>1, <1>3, <1>4, <2>1, <2>3, <2>4, Begun
<1>5. CASE /\ startedBy[operation[c]][1] = held[c] /\ Goes(c, "started")
           /\ UNCHANGED <<brokerProjectVars, startedBy>>
  BY <1>1, <1>3, <1>5, BegunBefore DEF keyVars
<1>6. CASE BeginRaises(c, 1)
  BY <1>1, <1>6, GivingUp DEF BeginRaises, keyVars
<1>7. QED
  BY <1>4, <1>5, <1>6 DEF StartOperation, Begin

LEMMA RetryStep == ASSUME BrokerInv, NEW c \in Callers, RetryOperation(c) PROVE BrokerInv'
<1>1. /\ pc[c] = "retrying" /\ existing[c] < OperationAttemptCap
      /\ UNCHANGED <<reason, verdict, completedKey, historyVars>>
  BY DEF RetryOperation
<1>2. /\ operation[c] \in Operations /\ Tried(operation[c]) \in Nat /\ existing[c] \in Nat
      /\ existing[c] <= Tried(operation[c])
  BY <1>1, AtWork DEF Sound
<1>3. existing[c] + 1 \in Attempts
  BY <1>1, <1>2, LimitAssumption DEF Attempts
<1>4. CASE /\ OperationRetryStarted(operation[c], Unit, held[c])
           /\ startedBy' = [startedBy EXCEPT ![operation[c]][existing[c] + 1] = held[c]]
           /\ Goes(c, "started")
  <2>1. /\ St(operation[c]) = "retryable" /\ Tried(operation[c]) < OperationAttemptCap
        /\ operations' = [operations EXCEPT ![operation[c]] =
             [status |-> "running", attempts |-> Tried(operation[c]) + 1,
              unit |-> Unit, execution |-> held[c]]]
        /\ UNCHANGED <<projectStatus, planVars, unitVars>>
    BY <1>4 DEF OperationRetryStarted, St, Tried
  <2>2. existing[c] + 1 <= Tried(operation[c]) + 1
    BY <1>2
  <2>3. QED
    BY <1>1, <1>3, <1>4, <2>1, <2>2, Begun
<1>5. CASE /\ startedBy[operation[c]][existing[c] + 1] = held[c] /\ Goes(c, "started")
           /\ UNCHANGED <<brokerProjectVars, startedBy>>
  BY <1>1, <1>3, <1>5, BegunBefore DEF keyVars
<1>6. CASE BeginRaises(c, existing[c] + 1)
  BY <1>1, <1>6, GivingUp DEF BeginRaises, keyVars
<1>7. QED
  BY <1>4, <1>5, <1>6 DEF RetryOperation, Begin
-----------------------------------------------------------------------------
(* The outcome of an attempt *)

LEMMA MarkedRecord ==
  ASSUME ProjectTypes, NEW o \in Operations, NEW s \in OperationStatuses
  PROVE  /\ Marked(o, s) \in OperationRecords
         /\ Marked(o, s).status = s /\ Marked(o, s).attempts = Tried(o)
<1>1. operations[o] \in OperationRecords
  BY DEF ProjectTypes
<1>2. QED
  BY <1>1 DEF Marked, OperationRecords, Tried

\* The attempt ends, or what became of it is settled; its key is used.
LEMMA Outcome ==
  ASSUME BrokerInv, NEW o \in Operations, NEW s \in OperationStatuses \ {"running"},
         St(o) \in {"running", "uncertain"},
         s = "uncertain" => St(o) = "running",
         s = "completed" => effects[o] > 0,
         operations' = [operations EXCEPT ![o] = Marked(o, s)],
         UNCHANGED <<unitVars, startedBy, historyVars>>,
         \A p \in Operations, m \in Attempts :
           reason'[p][m] # None => reason[p][m] # None \/ (p = o /\ m <= Tried(o)),
         \A p \in Operations, m \in Attempts :
           verdict'[p][m] # None =>
             verdict[p][m] # None \/ (p = o /\ m <= Tried(o) /\ s # "uncertain")
  PROVE  /\ ProjectTypes' /\ HistoryTypes' /\ LogInv' /\ Grows
         /\ St(o)' = s /\ Tried(o)' = Tried(o)
         /\ \A p \in Operations \ {o} : St(p)' = St(p)
         /\ effects' = effects /\ overlapped' = overlapped
<1> USE DEF BrokerInv, BrokerTypes
<1>1. PICK r \in OperationRecords : r = Marked(o, s)
  BY MarkedRecord
<1>2. r.status = s /\ r.attempts = Tried(o)
  BY <1>1, MarkedRecord
<1>3. /\ ProjectTypes' /\ St(o)' = s /\ Tried(o)' = Tried(o)
      /\ \A p \in Operations \ {o} : St(p)' = St(p) /\ Tried(p)' = Tried(p)
  <2>1. operations' = [operations EXCEPT ![o] = r]
    BY <1>1
  <2>2. ProjectTypes /\ UNCHANGED unitVars
    OBVIOUS
  <2>3. /\ ProjectTypes' /\ St(o)' = r.status /\ Tried(o)' = r.attempts
        /\ \A p \in Operations \ {o} : St(p)' = St(p) /\ Tried(p)' = Tried(p)
    BY <2>1, <2>2, RecordEffect
  <2>4. QED
    BY <1>2, <2>3
<1>4. effects' = effects /\ overlapped' = overlapped /\ startedBy' = startedBy
  BY DEF historyVars
<1>5. HistoryTypes'
  BY <1>4 DEF HistoryTypes
<1>6. \A p \in Operations : Tried(p) \in Nat /\ effects[p] \in Nat
  BY DEF ProjectTypes, OperationRecords, HistoryTypes, Tried
<1>7. LogInv'
  <2> SUFFICES ASSUME NEW p \in Operations
               PROVE  /\ St(p)' = "absent" <=> Tried(p)' = 0
                      /\ Tried(p)' <= OperationAttemptCap
                      /\ \A m \in Attempts :
                           /\ startedBy'[p][m] # NoExecution => m <= Tried(p)'
                           /\ reason'[p][m] # None =>
                                m <= Tried(p)' /\ (m = Tried(p)' => St(p)' # "running")
                           /\ verdict'[p][m] # None =>
                                /\ m <= Tried(p)'
                                /\ m = Tried(p)' => St(p)' \notin {"running", "uncertain"}
                      /\ effects'[p] > 0 => St(p)' # "absent"
                      /\ St(p)' = "completed" => effects'[p] > 0
    BY DEF LogInv
  <2>1. CASE p = o
    BY <1>3, <1>4, <2>1 DEF LogInv, OperationStatuses
  <2>2. CASE p # o
    BY <1>3, <1>4, <2>2 DEF LogInv
  <2>3. QED
    BY <2>1, <2>2
<1>8. Grows
  <2> SUFFICES ASSUME NEW p \in Operations
               PROVE  /\ Tried(p) <= Tried(p)' /\ effects[p] <= effects'[p]
                      /\ St(p) # "absent" => St(p)' # "absent"
    BY DEF Grows
  <2>1. CASE p = o
    BY <1>3, <1>4, <1>6, <2>1 DEF OperationStatuses
  <2>2. CASE p # o
    BY <1>3, <1>4, <1>6, <2>2
  <2>3. QED
    BY <2>1, <2>2
<1>9. QED
  BY <1>3, <1>4, <1>5, <1>7, <1>8

\* A caller that goes on with what another one made of the record.
LEMMA PassingOn ==
  ASSUME BrokerInv, NEW c \in Callers, pc[c] \notin {"idle", "starting"}, overlapped,
         NEW label \in {"reconciling", "retrying", "started"}, GoesAnew(c, label),
         UNCHANGED <<brokerProjectVars, keyVars, historyVars>>
  PROVE  BrokerInv'
<1> USE DEF BrokerInv, BrokerTypes
<1>1. /\ ProjectTypes' /\ operations' = operations
      /\ KeyTypes' /\ HistoryTypes' /\ LogInv' /\ Grows
  BY ProjectUntouched, KeysUntouched, LogUntouched DEF HistoryTypes, historyVars
<1>2. CallerTypes' /\ Others(c) /\ pc'[c] = label /\ operation' = operation
      /\ existing'[c] = Tried(operation[c]) /\ decision' = decision
  BY AtWork, GoesAnewEffect DEF Labels
<1>3. Sound(c) /\ Tried(operation[c]) \in Nat
  BY AtWork
<1>4. Sound(c)'
  BY <1>1, <1>2, <1>3 DEF Sound, St, Tried
<1>5. TakesTurn(c)
  BY DEF TakesTurn, historyVars
<1>6. QED
  BY <1>1, <1>2, <1>4, <1>5, Conclusion

\* A receipt without an end is marked before anything else is done about it.
LEMMA SuspectStep == ASSUME BrokerInv, NEW c \in Callers, Suspect(c) PROVE BrokerInv'
<1> USE DEF BrokerInv, BrokerTypes
<1>1. /\ pc[c] = "suspecting"
      /\ UNCHANGED <<startedBy, verdict, completedKey, historyVars>>
  BY DEF Suspect
<1>2. /\ operation[c] \in Operations /\ Tried(operation[c]) \in Nat /\ existing[c] \in Nat
      /\ Sound(c)
  BY <1>1, AtWork
<1>3. PICK o \in Operations, n \in Nat : o = operation[c] /\ n = existing[c]
  BY <1>2
<1>4. CASE /\ reason[operation[c]][existing[c]] = None
           /\ OperationEnded(operation[c], "uncertain")
           /\ reason' = [reason EXCEPT ![operation[c]][existing[c]] = "recovered"]
           /\ Continue(c, "uncertain")
  <2>1. /\ St(o) = "running" /\ UNCHANGED unitVars
        /\ operations' = [operations EXCEPT ![o] = Marked(o, "uncertain")]
    BY <1>3, <1>4 DEF OperationEnded, St
  <2>2. /\ KeyTypes'
        /\ \A p \in Operations, m \in Attempts :
             reason'[p][m] # None => reason[p][m] # None \/ (p = o /\ m = n)
    BY <1>1, <1>3, <1>4 DEF KeyTypes
  <2>3. n <= Tried(o)
    BY <1>2, <1>3 DEF Sound
  <2>4. /\ ProjectTypes' /\ HistoryTypes' /\ LogInv' /\ Grows
        /\ St(o)' = "uncertain" /\ Tried(o)' = Tried(o)
        /\ \A p \in Operations \ {o} : St(p)' = St(p)
        /\ effects' = effects /\ overlapped' = overlapped
    BY <1>1, <2>1, <2>2, <2>3, Outcome DEF OperationStatuses
  <2>5. GoesAnew(c, "reconciling")
    BY <1>4 DEF Continue
  <2>6. CallerTypes' /\ Others(c) /\ pc'[c] = "reconciling" /\ operation' = operation
        /\ existing'[c] = Tried(operation[c]) /\ decision' = decision
    BY <1>1, <1>2, <2>5, GoesAnewEffect DEF Labels
  <2>7. Sound(c)'
    BY <1>2, <1>3, <2>4, <2>6 DEF Sound, St, Tried
  <2>8. TakesTurn(c)
    BY <1>1, <1>3, <2>4, <2>6, AtWork DEF TakesTurn, InTurn, St, Tried
  <2>9. QED
    BY <2>2, <2>4, <2>6, <2>7, <2>8, Conclusion
<1>5. CASE /\ reason[operation[c]][existing[c]] = "recovered"
           /\ Continue(c, operations[operation[c]].status)
           /\ UNCHANGED <<brokerProjectVars, reason>>
  <2>1. overlapped
    <3> SUFFICES ASSUME ~overlapped PROVE FALSE
      BY DEF HistoryTypes
    <3>1. St(o) = "running" /\ n = Tried(o)
      BY <1>1, <1>3, AtWork DEF InTurn
    <3>2. n \in Attempts
      BY <3>1, LimitAssumption DEF LogInv, Attempts
    <3>3. QED
      BY <1>3, <1>5, <3>1, <3>2, BrokerAssumption DEF LogInv
  <2>2. \E label \in {"reconciling", "retrying", "started"} : GoesAnew(c, label)
    BY <1>5 DEF Continue
  <2>3. QED
    BY <1>1, <1>5, <2>1, <2>2, PassingOn DEF keyVars
<1>6. CASE Leaves(c) /\ UNCHANGED <<brokerProjectVars, reason>>
  BY <1>1, <1>6, GivingUp DEF keyVars
<1>7. QED
  BY <1>4, <1>5, <1>6 DEF Suspect

\* What the reconciler found is settled: an effect is adopted or compensated, never retried.
LEMMA ReconcileStep == ASSUME BrokerInv, NEW c \in Callers, Reconcile(c) PROVE BrokerInv'
<1> USE DEF BrokerInv, BrokerTypes
<1>1. /\ pc[c] = "deciding"
      /\ UNCHANGED <<startedBy, reason, completedKey, historyVars>>
  BY DEF Reconcile
<1>2. /\ operation[c] \in Operations /\ Tried(operation[c]) \in Nat /\ existing[c] \in Nat
      /\ Sound(c)
  BY <1>1, AtWork
<1>3. PICK o \in Operations, n \in Nat : o = operation[c] /\ n = existing[c]
  BY <1>2
<1>4. PICK d \in Dispositions : d = decision[c]
  BY <1>1, <1>2 DEF Sound
<1>5. CASE /\ verdict[operation[c]][existing[c]] = None
           /\ OperationReconciled(operation[c], decision[c])
           /\ verdict' = [verdict EXCEPT ![operation[c]][existing[c]] = decision[c]]
           /\ Conclude(c, ReconciledStatus(decision[c]))
  <2>1. PICK s \in {"completed", "compensated", "retryable"} :
          s = ReconciledStatus(d) /\ (s = "retryable" <=> d = "retry")
    BY DEF ReconciledStatus, Dispositions
  <2>2. /\ St(o) = "uncertain" /\ UNCHANGED unitVars
        /\ operations' = [operations EXCEPT ![o] = Marked(o, s)]
    BY <1>3, <1>4, <1>5, <2>1 DEF OperationReconciled, St
  <2>3. /\ KeyTypes'
        /\ \A p \in Operations, m \in Attempts :
             verdict'[p][m] # None => verdict[p][m] # None \/ (p = o /\ m = n)
    BY <1>1, <1>3, <1>4, <1>5 DEF KeyTypes
  <2>4. n <= Tried(o) /\ (d # "retry" => effects[o] > 0)
    BY <1>1, <1>2, <1>3, <1>4 DEF Sound
  <2>5. /\ ProjectTypes' /\ HistoryTypes' /\ LogInv' /\ Grows
        /\ St(o)' = s /\ Tried(o)' = Tried(o)
        /\ \A p \in Operations \ {o} : St(p)' = St(p)
        /\ effects' = effects /\ overlapped' = overlapped
    BY <1>1, <2>1, <2>2, <2>3, <2>4, Outcome DEF OperationStatuses
  <2>6. \A p \in Operations :
          ~overlapped => effects'[p] <= 1 /\ (St(p)' = "retryable" => effects'[p] = 0)
    <3>1. ~overlapped => InTurn(c)
      BY <1>1, AtWork
    <3>2. ~overlapped /\ s = "retryable" => effects[o] = 0
      BY <1>1, <1>3, <1>4, <2>1, <3>1 DEF InTurn
    <3>3. QED
      BY <1>1, <2>5, <3>2, AtWork
  <2>7. CASE s = "retryable"
    <3>1. GoesAnew(c, "retrying")
      BY <1>4, <1>5, <2>1, <2>7 DEF Conclude
    <3>2. CallerTypes' /\ Others(c) /\ pc'[c] = "retrying" /\ operation' = operation
          /\ existing'[c] = Tried(operation[c]) /\ decision' = decision
      BY <1>1, <1>2, <3>1, GoesAnewEffect DEF Labels
    <3>3. Sound(c)'
      BY <1>2, <1>3, <2>5, <2>7, <3>2 DEF Sound, St, Tried
    <3>4. TakesTurn(c)
      <4>1. ~overlapped => InTurn(c)'
        BY <1>1, <1>3, <2>5, <2>7, <3>2, AtWork DEF InTurn, St, Tried
      <4>2. QED
        BY <1>1, <2>5, <2>6, <4>1, AtWork DEF TakesTurn
    <3>5. QED
      BY <2>3, <2>5, <3>2, <3>3, <3>4, Conclusion
  <2>8. CASE s # "retryable"
    <3>1. Leaves(c)
      BY <1>4, <1>5, <2>1, <2>8 DEF Conclude
    <3>2. CallerTypes' /\ Others(c) /\ pc'[c] = "idle"
      BY <3>1, LeavesEffect
    <3>3. TakesTurn(c)
      BY <1>1, <2>5, <2>6, <3>2, AtWork DEF TakesTurn
    <3>4. QED
      BY <2>3, <2>5, <3>2, <3>3, Conclusion
  <2>9. QED
    BY <2>7, <2>8
<1>6. CASE /\ verdict[operation[c]][existing[c]] = decision[c]
           /\ Conclude(c, operations[operation[c]].status)
           /\ UNCHANGED <<brokerProjectVars, verdict>>
  <2>1. overlapped
    <3> SUFFICES ASSUME ~overlapped PROVE FALSE
      BY DEF HistoryTypes
    <3>1. St(o) = "uncertain" /\ n = Tried(o)
      BY <1>1, <1>3, AtWork DEF InTurn
    <3>2. n \in Attempts
      BY <3>1, LimitAssumption DEF LogInv, Attempts
    <3>3. d # None
      BY BrokerAssumption DEF Dispositions
    <3>4. QED
      BY <1>3, <1>4, <1>6, <3>1, <3>2, <3>3 DEF LogInv
  <2>2. Leaves(c) \/ \E label \in {"reconciling", "retrying", "started"} : GoesAnew(c, label)
    BY <1>6 DEF Conclude
  <2>3. QED
    BY <1>1, <1>6, <2>1, <2>2, PassingOn, GivingUp DEF keyVars
<1>7. CASE Leaves(c) /\ UNCHANGED <<brokerProjectVars, verdict>>
  BY <1>1, <1>7, GivingUp DEF keyVars
<1>8. QED
  BY <1>5, <1>6, <1>7 DEF Reconcile

\* Only here does the world change, and of two turns only one can come here first.
LEMMA ActStep == ASSUME BrokerInv, NEW c \in Callers, Act(c) PROVE BrokerInv'
<1> USE DEF BrokerInv, BrokerTypes
<1>1. /\ pc[c] = "acting" /\ UNCHANGED <<brokerProjectVars, keyVars, overlapped>>
  BY DEF Act
<1>2. PICK o \in Operations : o = operation[c]
  BY <1>1, AtWork
<1>3. /\ Sound(c) /\ St(o) # "absent"
      /\ \A p \in Operations : effects[p] \in Nat /\ Tried(p) \in Nat
  BY <1>1, <1>2, AtWork DEF Sound, HistoryTypes, ProjectTypes, OperationRecords, Tried
<1>4. /\ ProjectTypes' /\ KeyTypes' /\ operations' = operations
      /\ overlapped' = overlapped
  BY <1>1, ProjectUntouched, KeysUntouched
<1>5. /\ effects' \in [Operations -> Nat]
      /\ \A p \in Operations \ {o} : effects'[p] = effects[p]
      /\ effects'[o] \in {effects[o], effects[o] + 1}
  BY <1>2, <1>3 DEF Act, HistoryTypes
<1>6. HistoryTypes'
  BY <1>4, <1>5 DEF HistoryTypes
<1>7. LogInv'
  <2> SUFFICES ASSUME NEW p \in Operations
               PROVE  /\ effects'[p] > 0 => St(p) # "absent"
                      /\ St(p) = "completed" => effects'[p] > 0
    BY <1>1, <1>4 DEF LogInv, St, Tried, keyVars
  <2>1. CASE p = o
    BY <1>3, <1>5, <2>1 DEF LogInv
  <2>2. CASE p # o
    BY <1>5, <2>2 DEF LogInv
  <2>3. QED
    BY <2>1, <2>2
<1>8. Grows
  <2> SUFFICES ASSUME NEW p \in Operations PROVE effects[p] <= effects'[p]
    BY <1>3, <1>4 DEF Grows, St, Tried
  <2>1. QED
    BY <1>3, <1>5
<1>9. PICK label \in {"acted", "raising"} :
        Goes(c, label) /\ (label = "acted" => effects'[o] = effects[o] + 1)
  BY <1>2 DEF Act, HistoryTypes
<1>10. CallerTypes' /\ Others(c) /\ pc'[c] = label /\ operation' = operation
       /\ existing' = existing /\ decision' = decision
  BY <1>1, <1>9, GoesEffect DEF Labels
<1>11. Sound(c)'
  <2>1. label = "acted" => effects'[o] > 0
    BY <1>3, <1>9
  <2>2. QED
    BY <1>2, <1>3, <1>4, <1>9, <1>10, <2>1 DEF Sound, St, Tried
<1>12. TakesTurn(c)
  <2> SUFFICES ASSUME ~overlapped
               PROVE  /\ \A d \in Callers \ {c} : pc[d] = "idle"
                      /\ \A p \in Operations :
                           effects'[p] <= 1 /\ (St(p) = "retryable" => effects'[p] = 0)
                      /\ InTurn(c)'
    BY <1>4 DEF TakesTurn, St
  <2>1. St(o) = "running" /\ effects[o] = 0 /\ existing[c] = Tried(o)
    BY <1>1, <1>2, AtWork DEF InTurn
  <2>2. InTurn(c)'
    BY <1>2, <1>4, <1>9, <1>10, <2>1 DEF InTurn, St, Tried
  <2>3. \A p \in Operations : effects'[p] <= 1 /\ (St(p) = "retryable" => effects'[p] = 0)
    <3> SUFFICES ASSUME NEW p \in Operations
                 PROVE  effects'[p] <= 1 /\ (St(p) = "retryable" => effects'[p] = 0)
      OBVIOUS
    <3>1. CASE p = o
      BY <1>5, <2>1, <3>1
    <3>2. CASE p # o
      BY <1>1, <1>5, <3>2, AtWork
    <3>3. QED
      BY <3>1, <3>2
  <2>4. QED
    BY <1>1, <2>2, <2>3, AtWork
<1>13. QED
  BY <1>4, <1>6, <1>7, <1>8, <1>10, <1>11, <1>12, Conclusion

\* The attempt is completed or found uncertain by the caller that ran it, which leaves.
LEMMA EndedAndLeft ==
  ASSUME BrokerInv, NEW c \in Callers, pc[c] # "idle",
         NEW o \in Operations, NEW s \in {"completed", "uncertain"}, OperationEnded(o, s),
         s = "completed" => effects[o] > 0,
         KeyTypes',
         \A p \in Operations, m \in Attempts :
           reason'[p][m] # None => reason[p][m] # None \/ (p = o /\ m <= Tried(o)),
         Leaves(c),
         UNCHANGED <<startedBy, verdict, historyVars>>
  PROVE  BrokerInv'
<1> USE DEF BrokerInv, BrokerTypes
<1>1. /\ St(o) = "running" /\ UNCHANGED unitVars
      /\ operations' = [operations EXCEPT ![o] = Marked(o, s)]
  BY DEF OperationEnded, St
<1>2. /\ ProjectTypes' /\ HistoryTypes' /\ LogInv' /\ Grows
      /\ St(o)' = s /\ Tried(o)' = Tried(o)
      /\ \A p \in Operations \ {o} : St(p)' = St(p)
      /\ effects' = effects /\ overlapped' = overlapped
  BY <1>1, Outcome DEF OperationStatuses
<1>3. CallerTypes' /\ Others(c) /\ pc'[c] = "idle"
  BY LeavesEffect
<1>4. TakesTurn(c)
  BY <1>2, <1>3, AtWork DEF TakesTurn
<1>5. QED
  BY <1>2, <1>3, <1>4, Conclusion

LEMMA CompleteStep == ASSUME BrokerInv, NEW c \in Callers, CompleteOperation(c) PROVE BrokerInv'
<1>1. /\ pc[c] = "acted" /\ Leaves(c)
      /\ UNCHANGED <<startedBy, reason, verdict, historyVars>>
  BY DEF CompleteOperation
<1>2. PICK o \in Operations : o = operation[c]
  BY <1>1, AtWork
<1>3. effects[o] > 0
  BY <1>1, <1>2, AtWork DEF Sound
<1>4. CASE /\ OperationEnded(operation[c], "completed")
           /\ completedKey' = [completedKey EXCEPT ![operation[c]] = TRUE]
  <2>1. KeyTypes'
    BY <1>1, <1>2, <1>4 DEF BrokerInv, BrokerTypes, KeyTypes
  <2>2. OperationEnded(o, "completed")
    BY <1>2, <1>4
  <2>3. QED
    BY <1>1, <1>3, <2>1, <2>2, EndedAndLeft
<1>5. CASE UNCHANGED <<brokerProjectVars, completedKey>>
  BY <1>1, <1>5, GivingUp DEF keyVars
<1>6. QED
  BY <1>4, <1>5 DEF CompleteOperation

LEMMA ReportStep == ASSUME BrokerInv, NEW c \in Callers, ReportRaise(c) PROVE BrokerInv'
<1>1. /\ pc[c] = "raising" /\ Leaves(c)
      /\ UNCHANGED <<startedBy, verdict, completedKey, historyVars>>
  BY DEF ReportRaise
<1>2. PICK o \in Operations, n \in Nat : o = operation[c] /\ n = existing[c]
  BY <1>1, AtWork
<1>3. n <= Tried(o)
  BY <1>1, <1>2, AtWork DEF Sound
<1>4. CASE /\ OperationEnded(operation[c], "uncertain")
           /\ reason' = [reason EXCEPT ![operation[c]][existing[c]] = "raised"]
  <2>1. /\ KeyTypes'
        /\ \A p \in Operations, m \in Attempts :
             reason'[p][m] # None => reason[p][m] # None \/ (p = o /\ m = n)
    BY <1>1, <1>2, <1>4 DEF BrokerInv, BrokerTypes, KeyTypes
  <2>2. OperationEnded(o, "uncertain")
    BY <1>2, <1>4
  <2>3. QED
    BY <1>1, <1>3, <2>1, <2>2, EndedAndLeft
<1>5. CASE UNCHANGED <<brokerProjectVars, reason>>
  BY <1>1, <1>5, GivingUp DEF keyVars
<1>6. QED
  BY <1>4, <1>5 DEF ReportRaise

-----------------------------------------------------------------------------
(* The environment *)

\* Neither the log's operations nor the callers are touched.
LEMMA KernelStep == ASSUME BrokerInv, Kernel PROVE BrokerInv'
<1> USE DEF BrokerInv, BrokerTypes
<1>1. UNCHANGED <<operations, callerVars, keyVars, historyVars>>
  BY DEF Kernel, ProjectCreated, WorkUnitAdded, AddUnit, WorkUnitStarted, WorkUnitReturned, Leave
<1>2. ProjectTypes'
  <2>1. CASE ProjectCreated
    BY <2>1 DEF ProjectCreated, ProjectTypes, unitVars
  <2>2. CASE \E limit \in AttemptLimits : WorkUnitAdded(Unit, {}, None, None, {}, limit)
    BY <2>2, BrokerAssumption DEF WorkUnitAdded, AddUnit, ProjectTypes, WorkStatuses
  <2>3. CASE WorkUnitStarted(Unit)
    BY <2>3, BrokerAssumption DEF WorkUnitStarted, ProjectTypes, WorkStatuses, NoExecution
  <2>4. CASE WorkUnitReturned(Unit, execution[Unit])
    BY <2>4, BrokerAssumption DEF WorkUnitReturned, Leave, ProjectTypes, WorkStatuses, NoExecution
  <2>5. QED
    BY <2>1, <2>2, <2>3, <2>4 DEF Kernel
<1>3. CallerTypes' /\ KeyTypes' /\ HistoryTypes'
  BY <1>1 DEF CallerTypes, KeyTypes, HistoryTypes, callerVars, keyVars, historyVars
<1>4. LogInv'
  BY <1>1 DEF LogInv, St, Tried, keyVars, historyVars
<1>5. CallerInv' /\ TurnInv'
  BY <1>1 DEF CallerInv, Sound, TurnInv, InTurn, St, Tried, callerVars, historyVars
<1>6. QED
  BY <1>2, <1>3, <1>4, <1>5

LEMMA BrokerUntouched == ASSUME BrokerInv, UNCHANGED brokerVars PROVE BrokerInv'
<1> USE DEF BrokerInv, BrokerTypes, brokerVars
<1>1. UNCHANGED <<brokerProjectVars, callerVars, keyVars, historyVars>>
  OBVIOUS
<1>2. ProjectTypes' /\ KeyTypes' /\ operations' = operations
  BY <1>1, ProjectUntouched, KeysUntouched
<1>3. CallerTypes' /\ HistoryTypes'
  BY <1>1 DEF CallerTypes, HistoryTypes, callerVars, historyVars
<1>4. LogInv'
  BY <1>1, <1>2 DEF LogInv, St, Tried, keyVars, historyVars
<1>5. CallerInv' /\ TurnInv'
  BY <1>1, <1>2 DEF CallerInv, Sound, TurnInv, InTurn, St, Tried, callerVars, historyVars
<1>6. QED
  BY <1>2, <1>3, <1>4, <1>5

LEMMA EveryStep == BrokerInv /\ [BrokerNext]_brokerVars => BrokerInv'
<1> SUFFICES ASSUME BrokerInv, [BrokerNext]_brokerVars PROVE BrokerInv'
  OBVIOUS
<1>1. ASSUME NEW c \in Callers, BrokerStep(c) PROVE BrokerInv'
  <2>1. CASE NeedsReconciliation(c)
    BY <2>1, GivingUp DEF NeedsReconciliation
  <2>2. QED
    BY <1>1, <2>1, EnterStep, StartStep, RetryStep, SuspectStep, InspectStep, ReconcileStep,
       ReadStep, ActStep, CompleteStep, ReportStep DEF BrokerStep
<1>2. ASSUME NEW c \in Callers, Crash(c) PROVE BrokerInv'
  BY <1>2, GivingUp DEF Crash
<1>3. CASE Kernel
  BY <1>3, KernelStep
<1>4. CASE UNCHANGED brokerVars
  BY <1>4, BrokerUntouched
<1>5. QED
  BY <1>1, <1>2, <1>3, <1>4 DEF BrokerNext

-----------------------------------------------------------------------------
(* The theorem *)

\* EffectsAreAccounted holds of every behaviour of execute(): the log knows of every effect
\* and completes nothing without one, and callers that take turns never repeat one.
THEOREM Accounted == BrokerSpec => []EffectsAreAccounted
<1>1. BrokerInit => BrokerInv
  BY InitBroker
<1>2. BrokerInv /\ [BrokerNext]_brokerVars => BrokerInv'
  BY EveryStep
<1>3. BrokerInv => EffectsAreAccounted
  BY DEF BrokerInv, BrokerTypes, HistoryTypes, LogInv, TurnInv, St, EffectsAreAccounted,
     EffectAtMostOnce, EffectHasRecord, CompletedTookEffect
<1>4. QED
  BY <1>1, <1>2, <1>3, PTL DEF BrokerSpec

-----------------------------------------------------------------------------
(* The model transport: types and the invariant *)

Clients ==
  [asked : Nat, session : Nat, live : BOOLEAN, words : {"none", "valid", "other"},
   attempt : Nat, place : Nat]
FileTypes == [events : Nat, message : Nat, closed : BOOLEAN, session : Nat]
Attached == {"waiting", "message", "metadata", "closed"}
TurnPlaces == {"off", "between", "archiving", "asking", "deciding"} \union Attached
Turns == [at : TurnPlaces, thread : Nat, named : Nat, tries : Nat]

TransportTypes ==
  /\ transport \in {"kimi", "codex"}
  /\ clients \in Seq(Clients)
  /\ sessions \subseteq DOMAIN clients
  /\ progress \in [phase : {"none", "running", "acted"}, attempt : Nat, thread : Nat]
  /\ action \in FileTypes /\ decisions \in Seq(FileTypes)
  /\ turn \in Turns
  /\ heeded \subseteq DOMAIN clients

\* A client speaks in the session it made or the one it was asked for.
Speaks(c) ==
  /\ clients[c].session = Nobody => clients[c].words = "none"
  /\ clients[c].session # Nobody =>
       /\ clients[c].session \in sessions
       /\ clients[c].session = IF clients[c].asked = Nobody THEN c ELSE clients[c].asked

\* It writes in a directory of the attempt it was started for.
Writes(c) ==
  /\ clients[c].attempt <= progress.attempt
  /\ clients[c].attempt = progress.attempt => progress.phase # "none"
  /\ clients[c].attempt = progress.attempt /\ clients[c].place # 0 =>
       /\ clients[c].place \in DOMAIN decisions
       /\ clients[c].asked = progress.thread /\ progress.thread # Nobody

ClientInv == \A c \in DOMAIN clients : Speaks(c) /\ Writes(c)

\* A client of a decision turn.
OfThread(c) ==
  c \in DOMAIN clients /\ clients[c].asked = progress.thread /\ progress.thread # Nobody

\* Only who was asked to go on with the conversation on record decides.
DecisionInv ==
  /\ progress.phase = "running" => decisions = <<>>
  /\ \A n \in DOMAIN decisions :
       /\ OfThread(decisions[n].events)
       /\ decisions[n].message # Nobody =>
            OfThread(decisions[n].message) /\ clients[decisions[n].message].session # Nobody
  /\ \A c \in heeded : clients[c].session = progress.thread /\ progress.thread # Nobody

\* The client of an action is over when the action is.
ActionInv ==
  /\ action.message # Nobody => action.message \in DOMAIN clients
  /\ progress.phase = "acted" =>
       /\ action.events \in DOMAIN clients /\ ~clients[action.events].live
       /\ clients[action.events].words # "none" /\ progress.thread # Nobody =>
            clients[action.events].session = progress.thread

\* What the call knows of the turn at hand.
CallInv ==
  /\ turn.at # "off" => turn.thread = progress.thread
  /\ turn.at = "between" => progress.phase = "none"
  /\ turn.at \in {"archiving", "asking"} => progress.phase = "running"
  /\ turn.at = "deciding" => progress.phase = "acted"
  /\ turn.at = "asking" /\ transport = "kimi" => action.message = Nobody /\ ~action.closed
  /\ turn.at \in {"waiting", "message"} /\ transport = "kimi" => ~Files.closed
  /\ turn.at \in Attached =>
       /\ progress.phase # "none"
       /\ progress.phase = "acted" => decisions # <<>>
       /\ Files.events \in DOMAIN clients
       /\ turn.thread # Nobody => clients[Files.events].asked = turn.thread
  /\ turn.at \in Attached \ {"waiting"} =>
       /\ ~clients[Files.events].live
       /\ clients[Files.events].session # Nobody =>
            turn.named \in {Nobody, clients[Files.events].session}

\* What the adapter of Kimi has written.
Own(files) ==
  files.message # Nobody =>
    /\ files.message = files.events /\ files.events \in DOMAIN clients
    /\ clients[files.events].session # Nobody
    /\ files.closed => files.session \in {Nobody, clients[files.events].session}
OwnInv == transport = "kimi" => Own(action) /\ \A n \in DOMAIN decisions : Own(decisions[n])

TransportInv == TransportTypes /\ ClientInv /\ DecisionInv /\ ActionInv /\ CallInv /\ OwnInv

LEMMA NoTurnYet ==
  /\ NoTurn \in Turns /\ NoTurn.at = "off"
  /\ NoFiles \in FileTypes /\ NoFiles.message = Nobody /\ NoFiles.closed = FALSE
  /\ Nobody \in Nat
BY DEF NoTurn, Turns, TurnPlaces, NoFiles, FileTypes, Nobody

LEMMA TransportStarts == TransportInit => TransportInv
<1>1. SUFFICES ASSUME TransportInit PROVE TransportInv
  OBVIOUS
<1>2. TransportTypes
  BY <1>1, NoTurnYet DEF TransportInit, TransportTypes
<1>3. DOMAIN clients = {} /\ DOMAIN decisions = {} /\ heeded = {} /\ progress.phase = "none"
  BY <1>1 DEF TransportInit
<1>4. turn.at = "off" /\ action.message = Nobody
  BY <1>1, NoTurnYet DEF TransportInit
<1>5. ClientInv /\ DecisionInv /\ ActionInv /\ CallInv /\ OwnInv
  BY <1>3, <1>4 DEF ClientInv, DecisionInv, ActionInv, CallInv, OwnInv, Own, Attached
<1>6. QED
  BY <1>2, <1>5 DEF TransportInv

\* What the types say of a client and of a directory.
LEMMA ClientFields ==
  ASSUME TransportTypes
  PROVE  /\ DOMAIN clients = 1..Len(clients) /\ Len(clients) \in Nat
         /\ DOMAIN decisions = 1..Len(decisions) /\ Len(decisions) \in Nat
         /\ \A c \in DOMAIN clients :
              /\ clients[c] \in Clients /\ c \in Nat /\ c # Nobody
              /\ clients[c].asked \in Nat /\ clients[c].session \in Nat
              /\ clients[c].attempt \in Nat /\ clients[c].place \in Nat
         /\ \A n \in DOMAIN decisions : decisions[n] \in FileTypes
         /\ decisions # <<>> => Len(decisions) \in DOMAIN decisions
<1>1. clients \in Seq(Clients) /\ decisions \in Seq(FileTypes)
  BY DEF TransportTypes
<1>2. /\ DOMAIN clients = 1..Len(clients) /\ Len(clients) \in Nat
      /\ DOMAIN decisions = 1..Len(decisions) /\ Len(decisions) \in Nat
      /\ \A c \in 1..Len(clients) : clients[c] \in Clients
      /\ \A n \in 1..Len(decisions) : decisions[n] \in FileTypes
      /\ decisions # <<>> => Len(decisions) > 0
  BY <1>1
<1>3. \A c \in 1..Len(clients) : c \in Nat /\ c # Nobody
  BY <1>2 DEF Nobody
<1>4. QED
  BY <1>2, <1>3 DEF Clients

-----------------------------------------------------------------------------
(* The model transport: steps that leave the clients alone *)

\* The part about clients, when neither they nor what it compares them with changes.
LEMMA ClientsStay ==
  ASSUME ClientInv, UNCHANGED <<sessions, clients>>,
         progress'.attempt = progress.attempt, progress'.thread = progress.thread,
         progress.phase # "none" => progress'.phase # "none",
         DOMAIN decisions \subseteq DOMAIN decisions'
  PROVE  ClientInv'
BY DEF ClientInv, Speaks, Writes

LEMMA DiesKeeps ==
  ASSUME TransportInv, TransportDies
  PROVE  TransportInv'
<1>1. /\ turn' = NoTurn
      /\ UNCHANGED <<transport, sessions, clients, progress, action, decisions, heeded>>
  BY DEF TransportDies, TurnRaises
<1>2. turn' \in Turns /\ turn'.at = "off"
  BY <1>1, NoTurnYet
<1>3. TransportTypes'
  BY <1>1, <1>2 DEF TransportInv, TransportTypes
<1>4. ClientInv'
  BY <1>1, ClientsStay DEF TransportInv
<1>5. DecisionInv' /\ ActionInv'
  BY <1>1 DEF TransportInv, DecisionInv, ActionInv, OfThread
<1>6. CallInv'
  BY <1>2 DEF CallInv, Attached
<1>7. OwnInv'
  BY <1>1 DEF TransportInv, OwnInv, Own
<1>8. QED
  BY <1>3, <1>4, <1>5, <1>6, <1>7 DEF TransportInv

LEMMA CallKeeps ==
  ASSUME TransportInv, CallTransport
  PROVE  TransportInv'
<1> DEFINE to == IF progress.phase = "none" THEN "between"
                 ELSE IF IsAction THEN "archiving" ELSE "deciding"
<1>1. /\ turn' = [NoTurn EXCEPT !.thread = progress.thread, !.at = to]
      /\ UNCHANGED <<transport, sessions, clients, progress, action, decisions, heeded>>
  BY DEF CallTransport
<1>2. /\ to \in TurnPlaces /\ to \in {"between", "archiving", "deciding"}
      /\ to = "between" => progress.phase = "none"
      /\ to = "archiving" => progress.phase = "running"
      /\ to = "deciding" => progress.phase = "acted"
  BY DEF TurnPlaces, IsAction, TransportInv, TransportTypes
<1> HIDE DEF to
<1>3. turn' \in Turns /\ turn'.thread = progress.thread /\ turn'.at = to
  <2>1. NoTurn \in Turns /\ progress.thread \in Nat
    BY NoTurnYet DEF TransportInv, TransportTypes
  <2>2. QED
    BY ONLY <1>1, <1>2, <2>1 DEF Turns
<1>4. TransportTypes'
  BY <1>1, <1>3 DEF TransportInv, TransportTypes
<1>5. ClientInv'
  BY <1>1, ClientsStay DEF TransportInv
<1>6. DecisionInv' /\ ActionInv'
  BY <1>1 DEF TransportInv, DecisionInv, ActionInv, OfThread
<1>7. CallInv'
  BY <1>1, <1>2, <1>3 DEF CallInv, Attached
<1>8. OwnInv'
  BY <1>1 DEF TransportInv, OwnInv, Own
<1>9. QED
  BY <1>4, <1>5, <1>6, <1>7, <1>8 DEF TransportInv

LEMMA BeginKeeps ==
  ASSUME TransportInv, BeginAttempt
  PROVE  TransportInv'
<1>1. /\ turn.at = "between"
      /\ progress' = [progress EXCEPT !.phase = "running"]
      /\ action' = NoFiles /\ decisions' = <<>>
      /\ turn' = [turn EXCEPT !.at = "archiving"]
      /\ UNCHANGED <<transport, sessions, clients, heeded>>
  BY DEF BeginAttempt
<1>2. turn.thread = progress.thread /\ progress.phase = "none"
  BY <1>1 DEF TransportInv, CallInv
<1>3. /\ turn' \in Turns /\ turn'.at = "archiving" /\ turn'.thread = turn.thread
      /\ progress' \in [phase : {"none", "running", "acted"}, attempt : Nat, thread : Nat]
      /\ progress'.phase = "running" /\ progress'.attempt = progress.attempt
      /\ progress'.thread = progress.thread
  BY <1>1 DEF TransportInv, TransportTypes, Turns, TurnPlaces
<1>4. TransportTypes'
  BY <1>1, <1>3, NoTurnYet DEF TransportInv, TransportTypes
<1>5. ClientInv'
  <2>1. ASSUME NEW c \in DOMAIN clients PROVE Speaks(c)' /\ Writes(c)'
    <3>1. Speaks(c) /\ clients[c].attempt <= progress.attempt
          /\ clients[c].attempt # progress.attempt
      BY <1>2 DEF TransportInv, ClientInv, Writes
    <3>2. QED
      BY <1>1, <1>3, <3>1 DEF Speaks, Writes
  <2>2. QED
    BY <1>1, <2>1 DEF ClientInv
<1>6. DecisionInv' /\ ActionInv'
  BY <1>1, <1>3, NoTurnYet DEF TransportInv, DecisionInv, ActionInv
<1>7. CallInv'
  BY <1>2, <1>3 DEF CallInv, Attached
<1>8. OwnInv'
  BY <1>1, NoTurnYet DEF OwnInv, Own
<1>9. QED
  BY <1>4, <1>5, <1>6, <1>7, <1>8 DEF TransportInv

LEMMA ArchiveKeeps ==
  ASSUME TransportInv, ArchiveInterrupted
  PROVE  TransportInv'
<1>1. /\ turn.at = "archiving" /\ action' = NoFiles
      /\ turn' = [turn EXCEPT !.at = "asking"]
      /\ UNCHANGED <<transport, sessions, clients, progress, decisions, heeded>>
  BY DEF ArchiveInterrupted
<1>2. turn.thread = progress.thread /\ progress.phase = "running"
  BY <1>1 DEF TransportInv, CallInv
<1>3. turn' \in Turns /\ turn'.at = "asking" /\ turn'.thread = turn.thread
  BY <1>1 DEF TransportInv, TransportTypes, Turns, TurnPlaces
<1>4. TransportTypes'
  BY <1>1, <1>3, NoTurnYet DEF TransportInv, TransportTypes
<1>5. ClientInv'
  BY <1>1, ClientsStay DEF TransportInv
<1>6. DecisionInv' /\ ActionInv'
  BY <1>1, <1>2, NoTurnYet DEF TransportInv, DecisionInv, ActionInv, OfThread
<1>7. CallInv'
  BY <1>1, <1>2, <1>3, NoTurnYet DEF CallInv, Attached
<1>8. OwnInv'
  BY <1>1, NoTurnYet DEF TransportInv, OwnInv, Own
<1>9. QED
  BY <1>4, <1>5, <1>6, <1>7, <1>8 DEF TransportInv

-----------------------------------------------------------------------------
(* The model transport: starting clients *)

\* What is on record stays when a client is added, as others have it.
LEMMA ClientAdded ==
  ASSUME TransportTypes, NEW asked \in Nat, clients' = Append(clients, Client(asked)),
         progress.attempt \in Nat, IsAction \/ decisions' \in Seq(FileTypes)
  PROVE  /\ clients' \in Seq(Clients) /\ Len(clients') = Len(clients) + 1
         /\ DOMAIN clients' = DOMAIN clients \union {Len(clients')}
         /\ Len(clients') \notin DOMAIN clients
         /\ \A c \in DOMAIN clients : clients'[c] = clients[c]
         /\ clients'[Len(clients')].asked = asked
         /\ clients'[Len(clients')].session = Nobody
         /\ clients'[Len(clients')].words = "none"
         /\ clients'[Len(clients')].attempt = progress.attempt
         /\ clients'[Len(clients')].place = IF IsAction THEN 0 ELSE Len(decisions')
<1> DEFINE new == Client(asked)
           place == IF IsAction THEN 0 ELSE Len(decisions')
<1>1. place \in Nat
  OBVIOUS
<1>2. /\ new \in Clients /\ new.asked = asked /\ new.session = Nobody /\ new.words = "none"
      /\ new.attempt = progress.attempt /\ new.place = place
  <2> HIDE DEF place
  <2>1. new = [asked |-> asked, session |-> Nobody, live |-> TRUE, words |-> "none",
               attempt |-> progress.attempt, place |-> place]
    BY DEF Client, place
  <2> HIDE DEF new
  <2>2. QED
    BY <1>1, <2>1, NoTurnYet DEF Clients
<1> HIDE DEF new
<1>3. clients \in Seq(Clients) /\ clients' = Append(clients, new)
  BY DEF TransportTypes, new
<1>4. /\ clients' \in Seq(Clients) /\ Len(clients') = Len(clients) + 1
      /\ clients'[Len(clients')] = new
      /\ \A c \in 1..Len(clients) : clients'[c] = clients[c]
  BY <1>2, <1>3
<1>5. DOMAIN clients = 1..Len(clients) /\ DOMAIN clients' = 1..(Len(clients) + 1) /\ Len(clients) \in Nat
  BY <1>3, <1>4
<1>6. QED
  BY <1>2, <1>4, <1>5

\* An action turn's client.
LEMMA ActionAsked ==
  ASSUME TransportInv, turn.at = "asking", NEW asked \in Nat, RunClient(asked),
         action' = [action EXCEPT !.events = Len(clients')],
         turn.thread # Nobody => asked = turn.thread,
         UNCHANGED <<transport, sessions, progress, decisions, heeded>>
  PROVE  TransportInv'
<1>1. /\ clients' = Append(clients, Client(asked)) /\ turn' = [turn EXCEPT !.at = "waiting"]
  BY DEF RunClient
<1>2. /\ turn.thread = progress.thread /\ progress.phase = "running" /\ IsAction
      /\ transport = "kimi" => action.message = Nobody /\ ~action.closed
      /\ TransportTypes /\ progress.attempt \in Nat /\ decisions = <<>>
  BY DEF TransportInv, TransportTypes, CallInv, IsAction, DecisionInv
<1>3. PICK new \in Nat :
        /\ clients' \in Seq(Clients) /\ new = Len(clients')
        /\ DOMAIN clients' = DOMAIN clients \union {new} /\ new \notin DOMAIN clients
        /\ \A c \in DOMAIN clients : clients'[c] = clients[c]
        /\ clients'[new].asked = asked /\ clients'[new].session = Nobody
        /\ clients'[new].words = "none"
        /\ clients'[new].attempt = progress.attempt /\ clients'[new].place = 0
  <2>1. Len(clients) + 1 \in Nat
    BY <1>2, ClientFields
  <2>2. QED
    BY <1>1, <1>2, <2>1, ClientAdded
<1>5. /\ turn' \in Turns /\ turn'.at = "waiting" /\ turn'.thread = turn.thread
      /\ action' \in FileTypes /\ action'.events = new /\ action'.message = action.message
      /\ action'.closed = action.closed
  <2>1. action' = [action EXCEPT !.events = new]
    BY <1>3
  <2>2. turn \in Turns /\ action \in FileTypes
    BY <1>2 DEF TransportTypes
  <2>3. QED
    BY <1>1, <1>3, <2>1, <2>2 DEF Turns, TurnPlaces, Attached, FileTypes
<1>6. TransportTypes'
  BY <1>2, <1>3, <1>5 DEF TransportTypes
<1>7. ClientInv'
  <2>1. \A c \in DOMAIN clients : Speaks(c)' /\ Writes(c)'
    BY <1>3 DEF TransportInv, ClientInv, Speaks, Writes
  <2>2. Speaks(new)' /\ Writes(new)'
    BY <1>2, <1>3 DEF Speaks, Writes
  <2>3. QED
    BY <1>3, <2>1, <2>2 DEF ClientInv
<1>8. DecisionInv' /\ ActionInv'
  <2>1. heeded \subseteq DOMAIN clients
    BY <1>2 DEF TransportTypes
  <2>2. QED
    BY <1>2, <1>3, <1>5, <2>1 DEF TransportInv, DecisionInv, ActionInv
<1>9. CallInv'
  <2>1. Files'.events = new /\ Files'.closed = action.closed
    BY <1>2, <1>5 DEF Files, IsAction
  <2>2. QED
    BY <1>2, <1>3, <1>5, <2>1 DEF CallInv, Attached
<1>10. OwnInv'
  BY <1>2, <1>5 DEF OwnInv, Own
<1>11. QED
  BY <1>6, <1>7, <1>8, <1>9, <1>10 DEF TransportInv

LEMMA RaisesKeeps ==
  ASSUME TransportInv, TurnRaises,
         UNCHANGED <<transport, sessions, clients, progress, action, decisions, heeded>>
  PROVE  TransportInv'
<1>1. CASE turn.at # "off"
  BY <1>1, DiesKeeps DEF TransportDies
<1>2. CASE turn.at = "off"
  <2>1. turn' \in Turns /\ turn'.at = "off"
    BY NoTurnYet DEF TurnRaises
  <2>2. TransportTypes'
    BY <2>1 DEF TransportInv, TransportTypes
  <2>3. ClientInv'
    BY ClientsStay DEF TransportInv
  <2>4. DecisionInv' /\ ActionInv'
    BY DEF TransportInv, DecisionInv, ActionInv, OfThread
  <2>5. CallInv' /\ OwnInv'
    BY <2>1 DEF TransportInv, CallInv, Attached, OwnInv, Own
  <2>6. QED
    BY <2>2, <2>3, <2>4, <2>5 DEF TransportInv
<1>3. QED
  BY <1>1, <1>2

LEMMA StartActionKeeps ==
  ASSUME TransportInv, StartAction
  PROVE  TransportInv'
<1>1. /\ turn.at = "asking" /\ turn.thread = Nobody
      /\ UNCHANGED <<transport, sessions, progress, decisions, heeded>>
      /\ IF MayStart
           THEN RunClient(Started) /\ action' = [action EXCEPT !.events = Len(clients')]
           ELSE TurnRaises /\ UNCHANGED <<clients, action>>
  BY DEF StartAction
<1>2. CASE MayStart
  <2>1. Started \in Nat
    <3>1. CASE transport = "kimi" /\ sessions # {}
      <4>1. TheSession(Nobody) # {}
        BY <1>2, <3>1 DEF MayStart
      <4>2. TheSession(Nobody) \subseteq sessions
        BY DEF TheSession
      <4>3. sessions \subseteq Nat
        BY ClientFields DEF TransportInv, TransportTypes
      <4>4. Started \in TheSession(Nobody)
        BY <3>1, <4>1 DEF Started
      <4>5. QED
        BY <4>2, <4>3, <4>4
    <3>2. CASE ~(transport = "kimi" /\ sessions # {})
      BY <3>2, NoTurnYet DEF Started
    <3>3. QED
      BY <3>1, <3>2
  <2>2. QED
    BY <1>1, <1>2, <2>1, ActionAsked
<1>3. CASE ~MayStart
  BY <1>1, <1>3, RaisesKeeps
<1>4. QED
  BY <1>2, <1>3

LEMMA ResumeActionKeeps ==
  ASSUME TransportInv, ResumeAction
  PROVE  TransportInv'
<1>1. turn.thread \in Nat
  BY DEF TransportInv, TransportTypes, Turns
<1>2. QED
  BY <1>1, ActionAsked DEF ResumeAction

-----------------------------------------------------------------------------
(* The model transport: what clients do *)

\* A client keeps what it was asked for, and its session once it has one; when it is over it
\* says nothing more.
Grow ==
  /\ clients' \in Seq(Clients) /\ DOMAIN clients' = DOMAIN clients
  /\ \A c \in DOMAIN clients :
       /\ clients'[c].asked = clients[c].asked /\ clients'[c].attempt = clients[c].attempt
       /\ clients'[c].place = clients[c].place
       /\ clients[c].session # Nobody => clients'[c].session = clients[c].session
       /\ ~clients[c].live => clients'[c] = clients[c]
       /\ Speaks(c)'
  /\ sessions' \subseteq DOMAIN clients

\* The messages may change, to those of clients the directory belongs to.
Tell ==
  /\ action' \in FileTypes /\ decisions' \in Seq(FileTypes)
  /\ action'.events = action.events /\ DOMAIN decisions' = DOMAIN decisions
  /\ action'.message = action.message \/ action'.message \in DOMAIN clients
  /\ \A n \in DOMAIN decisions :
       /\ decisions'[n].events = decisions[n].events
       /\ \/ decisions'[n].message = decisions[n].message
          \/ /\ OfThread(decisions'[n].message)
             /\ clients[decisions'[n].message].session # Nobody
  /\ transport = "kimi" => action' = action /\ decisions' = decisions

LEMMA Grown ==
  ASSUME TransportInv, Grow, Tell, UNCHANGED <<transport, progress, heeded>>, turn' \in Turns
  PROVE  /\ TransportTypes' /\ ClientInv' /\ DecisionInv' /\ ActionInv' /\ OwnInv'
         /\ IsAction' = IsAction /\ Files'.events = Files.events
         /\ decisions # <<>> => decisions' # <<>>
<1>1. TransportTypes'
  BY DEF TransportInv, TransportTypes, Grow, Tell
<1>2. ClientInv'
  BY DEF TransportInv, ClientInv, Grow, Tell, Writes
<1>3. \A c : OfThread(c) => OfThread(c)'
  BY DEF OfThread, Grow
<1>4. \A c \in DOMAIN clients : clients[c].session # Nobody => clients'[c].session # Nobody
  BY DEF Grow
<1>5. Len(decisions') = Len(decisions)
  BY <1>1 DEF TransportInv, TransportTypes, Tell
<1>6. DecisionInv'
  <2>1. progress'.phase = "running" => decisions' = <<>>
    <3>1. progress.phase = "running" => Len(decisions) = 0
      BY DEF TransportInv, DecisionInv
    <3>2. decisions' \in Seq(FileTypes)
      BY DEF Tell
    <3>3. decisions' # <<>> => Len(decisions') > 0
      BY <3>2
    <3>4. QED
      BY <1>5, <3>1, <3>3
  <2>2. ASSUME NEW n \in DOMAIN decisions
        PROVE  /\ OfThread(decisions[n].events)'
               /\ decisions'[n].message # Nobody =>
                    /\ OfThread(decisions[n].message)'
                    /\ clients'[decisions'[n].message].session # Nobody
    <3>1. /\ OfThread(decisions[n].events)
          /\ decisions[n].message # Nobody =>
               OfThread(decisions[n].message) /\ clients[decisions[n].message].session # Nobody
      BY DEF TransportInv, DecisionInv
    <3>2. /\ decisions'[n].events = decisions[n].events
          /\ decisions'[n].message # Nobody =>
               OfThread(decisions'[n].message) /\ clients[decisions'[n].message].session # Nobody
      BY <3>1 DEF Tell
    <3>3. PICK e, m : e = decisions'[n].events /\ m = decisions'[n].message
      OBVIOUS
    <3>4. OfThread(e)' /\ (m # Nobody => OfThread(m)' /\ clients'[m].session # Nobody)
      BY <1>3, <1>4, <3>1, <3>2, <3>3 DEF OfThread
    <3>5. QED
      BY <3>3, <3>4 DEF OfThread
  <2>3. \A c \in heeded' : clients'[c].session = progress'.thread /\ progress'.thread # Nobody
    BY DEF TransportInv, TransportTypes, DecisionInv, Grow
  <2>4. DOMAIN decisions' = DOMAIN decisions
    BY DEF Tell
  <2>5. QED
    BY <2>1, <2>2, <2>3, <2>4 DEF DecisionInv, OfThread
<1>7. ActionInv'
  BY DEF TransportInv, ActionInv, Grow, Tell
<1>8. OwnInv'
  <2>1. ASSUME NEW f, Own(f) PROVE Own(f)'
    BY <1>4, <2>1 DEF Own, Grow
  <2>2. QED
    <3>1. CASE transport = "kimi"
      <4>1. action' = action /\ decisions' = decisions /\ Own(action)
            /\ \A n \in DOMAIN decisions : Own(decisions[n])
        BY <3>1 DEF TransportInv, OwnInv, Tell
      <4>2. PICK a, d : a = action /\ d = decisions
        OBVIOUS
      <4>3. Own(a)' /\ \A n \in DOMAIN d : Own(d[n])'
        BY <2>1, <4>1, <4>2
      <4>4. QED
        BY <4>1, <4>2, <4>3 DEF OwnInv, Own
    <3>2. CASE transport # "kimi"
      BY <3>2 DEF OwnInv
    <3>3. QED
      BY <3>1, <3>2
<1>9. IsAction' = IsAction
  BY DEF IsAction
<1>10. TransportTypes
  BY DEF TransportInv
<1>11. decisions # <<>> => decisions' # <<>>
  BY <1>5, <1>10 DEF Tell, TransportTypes
<1>12. Files'.events = Files.events
  <2>1. CASE IsAction
    BY <1>9, <2>1 DEF Files, Tell
  <2>2. CASE ~IsAction /\ decisions # <<>>
    BY <1>5, <1>9, <1>10, <2>2, ClientFields DEF Files, Tell
  <2>3. CASE ~IsAction /\ decisions = <<>>
    <3>1. decisions' \in Seq(FileTypes) /\ Len(decisions') = 0
      BY <1>5, <2>3 DEF Tell
    <3>2. decisions' # <<>> => Len(decisions') > 0
      BY <3>1
    <3>3. QED
      BY <1>9, <2>3, <3>1, <3>2 DEF Files
  <2>4. QED
    BY <2>1, <2>2, <2>3
<1>13. QED
  BY <1>1, <1>2, <1>6, <1>7, <1>8, <1>9, <1>11, <1>12

\* With the clients, the call is as it was, or in a place that knows as much.
LEMMA TurnStays ==
  ASSUME TransportInv, Grow, Tell, UNCHANGED <<transport, progress, heeded, turn>>
  PROVE  TransportInv'
<1>1. turn' \in Turns
  BY DEF TransportInv, TransportTypes
<1>2. /\ TransportTypes' /\ ClientInv' /\ DecisionInv' /\ ActionInv' /\ OwnInv'
      /\ IsAction' = IsAction /\ Files'.events = Files.events
      /\ decisions # <<>> => decisions' # <<>>
  BY <1>1, Grown
<1>3. PICK f : f = Files.events
  OBVIOUS
<1>4. CallInv'
  <2>1. transport = "kimi" =>
          /\ turn.at = "asking" => action'.message = Nobody /\ ~action'.closed
          /\ turn.at \in {"waiting", "message"} => ~Files'.closed
    <3>1. transport = "kimi" => Files' = Files
      BY DEF Tell, Files, IsAction
    <3>2. QED
      BY <3>1 DEF TransportInv, CallInv, Tell
  <2>2. ASSUME turn.at \in Attached
        PROVE  /\ decisions # <<>> \/ progress.phase # "acted"
               /\ progress.phase # "none"
               /\ f \in DOMAIN clients' /\ (turn.thread # Nobody => clients'[f].asked = turn.thread)
    BY <1>3, <2>2 DEF TransportInv, CallInv, Grow
  <2>3. ASSUME turn.at \in Attached \ {"waiting"}
        PROVE  /\ ~clients'[f].live
               /\ clients'[f].session # Nobody => turn.named \in {Nobody, clients'[f].session}
    BY <1>3, <2>3 DEF TransportInv, CallInv, Grow
  <2>4. QED
    BY <1>2, <1>3, <2>1, <2>2, <2>3 DEF TransportInv, CallInv
<1>5. QED
  BY <1>2, <1>4 DEF TransportInv

\* A client's record is replaced by one that agrees with it.
LEMMA Replaces ==
  ASSUME TransportInv, NEW c \in DOMAIN clients, NEW new \in Clients,
         clients' = [clients EXCEPT ![c] = new], clients[c].live,
         new.asked = clients[c].asked, new.attempt = clients[c].attempt,
         new.place = clients[c].place,
         clients[c].session # Nobody => new.session = clients[c].session,
         sessions \subseteq sessions', sessions' \subseteq DOMAIN clients,
         new.session = Nobody => new.words = "none",
         new.session # Nobody =>
           /\ new.session \in sessions'
           /\ new.session = IF new.asked = Nobody THEN c ELSE new.asked
  PROVE  Grow
<1>1. clients \in Seq(Clients)
  BY DEF TransportInv, TransportTypes
<1>2. /\ clients' \in Seq(Clients) /\ DOMAIN clients' = DOMAIN clients
      /\ clients'[c] = new /\ \A d \in DOMAIN clients : d # c => clients'[d] = clients[d]
  BY <1>1
<1>3. Speaks(c)'
  BY <1>2 DEF Speaks
<1>4. \A d \in DOMAIN clients : d # c => Speaks(d)'
  BY <1>2 DEF Speaks, TransportInv, ClientInv
<1>5. QED
  BY <1>2, <1>3, <1>4 DEF Grow

LEMMA NobodyTells ==
  ASSUME TransportInv, UNCHANGED <<action, decisions>>
  PROVE  Tell
BY DEF Tell, TransportInv, TransportTypes

LEMMA EntersKeeps ==
  ASSUME TransportInv, NEW c \in DOMAIN clients, ClientEnters(c)
  PROVE  TransportInv'
<1> DEFINE session == IF clients[c].asked = Nobody THEN c ELSE clients[c].asked
           new == [clients[c] EXCEPT !.session = session]
<1>1. /\ clients[c].live /\ clients[c].session = Nobody
      /\ clients' = [clients EXCEPT ![c].session = session]
      /\ IF clients[c].asked = Nobody THEN sessions' = sessions \union {c}
         ELSE clients[c].asked \in sessions /\ sessions' = sessions
      /\ UNCHANGED <<transport, progress, action, decisions, turn, heeded>>
  BY DEF ClientEnters
<1>2. clients[c] \in Clients /\ c \in Nat /\ clients[c].asked \in Nat /\ sessions \subseteq DOMAIN clients
  BY ClientFields DEF TransportInv, TransportTypes
<1>3. session \in Nat /\ session \in sessions' /\ (session = Nobody => clients[c].words = "none")
      /\ sessions \subseteq sessions' /\ sessions' \subseteq DOMAIN clients
  BY <1>1, <1>2, ClientFields DEF TransportInv, ClientInv, Speaks
<1>4. clients' = [clients EXCEPT ![c] = new]
  BY <1>1
<1>5. session = IF clients[c].asked = Nobody THEN c ELSE clients[c].asked
  OBVIOUS
<1> HIDE DEF session
<1>6. /\ new \in Clients /\ new.asked = clients[c].asked /\ new.session = session
      /\ new.attempt = clients[c].attempt /\ new.place = clients[c].place
      /\ new.words = clients[c].words
  BY <1>2, <1>3 DEF Clients
<1> HIDE DEF new
<1>7. /\ sessions \subseteq sessions' /\ sessions' \subseteq DOMAIN clients
      /\ new.session = Nobody => new.words = "none"
      /\ new.session # Nobody =>
           /\ new.session \in sessions'
           /\ new.session = IF new.asked = Nobody THEN c ELSE new.asked
      /\ clients[c].session # Nobody => new.session = clients[c].session
  BY <1>1, <1>3, <1>5, <1>6
<1>8. Grow
  BY ONLY TransportInv, c \in DOMAIN clients, <1>1, <1>4, <1>6, <1>7, Replaces
<1>9. QED
  BY <1>1, <1>8, NobodyTells, TurnStays

LEMMA EndsKeeps ==
  ASSUME TransportInv, NEW c \in DOMAIN clients, ClientEnds(c)
  PROVE  TransportInv'
<1> DEFINE new == [clients[c] EXCEPT !.live = FALSE]
<1>1. /\ clients[c].live /\ clients' = [clients EXCEPT ![c] = new]
      /\ UNCHANGED <<transport, sessions, progress, action, decisions, turn, heeded>>
  BY DEF ClientEnds
<1>2. clients[c] \in Clients /\ Speaks(c) /\ sessions \subseteq DOMAIN clients
  BY ClientFields DEF TransportInv, ClientInv, TransportTypes
<1>3. /\ new \in Clients /\ new.asked = clients[c].asked
      /\ new.session = clients[c].session
      /\ new.attempt = clients[c].attempt /\ new.place = clients[c].place
      /\ new.words = clients[c].words
  BY <1>2 DEF Clients
<1> HIDE DEF new
<1>4. Grow
  BY <1>1, <1>2, <1>3, Replaces DEF Speaks
<1>5. QED
  BY <1>1, <1>4, NobodyTells, TurnStays

LEMMA ClientSpeaksKeeps ==
  ASSUME TransportInv, NEW c \in DOMAIN clients, ClientSpeaks(c)
  PROVE  TransportInv'
<1>1. PICK words \in {"valid", "other"} :
        /\ clients[c].live /\ clients[c].session # Nobody
        /\ clients' = [clients EXCEPT ![c].words = words]
        /\ IF transport = "codex" /\ clients[c].attempt = progress.attempt
             THEN IF clients[c].place = 0
                    THEN action' = [action EXCEPT !.message = c] /\ UNCHANGED decisions
                    ELSE decisions' = [decisions EXCEPT ![clients[c].place].message = c]
                           /\ UNCHANGED action
             ELSE UNCHANGED <<action, decisions>>
        /\ UNCHANGED <<transport, sessions, progress, turn, heeded>>
  BY DEF ClientSpeaks
<1>2. /\ clients[c] \in Clients /\ Speaks(c) /\ Writes(c) /\ sessions \subseteq DOMAIN clients
      /\ c \in Nat /\ action \in FileTypes /\ decisions \in Seq(FileTypes)
  BY ClientFields DEF TransportInv, ClientInv, TransportTypes
<1> DEFINE new == [clients[c] EXCEPT !.words = words]
<1>3. /\ new \in Clients /\ new.asked = clients[c].asked
      /\ new.session = clients[c].session
      /\ new.attempt = clients[c].attempt /\ new.place = clients[c].place
  BY <1>2 DEF Clients
<1>4. clients' = [clients EXCEPT ![c] = new]
  BY <1>1
<1> HIDE DEF new
<1>5. Grow
  <2>1. /\ sessions \subseteq sessions' /\ sessions' \subseteq DOMAIN clients
        /\ new.session = Nobody => new.words = "none"
        /\ new.session # Nobody =>
             /\ new.session \in sessions'
             /\ new.session = IF new.asked = Nobody THEN c ELSE new.asked
        /\ clients[c].session # Nobody => new.session = clients[c].session
    BY <1>1, <1>2, <1>3 DEF Speaks
  <2>2. QED
    BY <1>1, <1>3, <1>4, <2>1, Replaces
<1>6. Tell
  <2>1. CASE UNCHANGED <<action, decisions>>
    BY <2>1, NobodyTells
  <2>2. CASE transport = "codex" /\ clients[c].attempt = progress.attempt /\ clients[c].place = 0
    <3>1. action' = [action EXCEPT !.message = c] /\ decisions' = decisions
      BY <1>1, <2>2
    <3>2. action' \in FileTypes /\ action'.events = action.events /\ action'.message = c
      BY <1>2, <3>1 DEF FileTypes
    <3>3. QED
      BY <1>2, <2>2, <3>1, <3>2 DEF Tell
  <2>3. CASE transport = "codex" /\ clients[c].attempt = progress.attempt /\ clients[c].place # 0
    <3> DEFINE k == clients[c].place
               file == [decisions[k] EXCEPT !.message = c]
    <3>1. k \in DOMAIN decisions /\ OfThread(c)
      BY <1>2, <2>3 DEF Writes, OfThread
    <3>2. decisions' = [decisions EXCEPT ![k] = file] /\ action' = action
      BY <1>1, <2>3
    <3>3. decisions[k] \in FileTypes
      BY <3>1, ClientFields DEF TransportInv
    <3>4. file \in FileTypes /\ file.events = decisions[k].events /\ file.message = c
      BY <1>2, <3>3 DEF FileTypes
    <3> HIDE DEF file, k
    <3>5. /\ decisions' \in Seq(FileTypes) /\ DOMAIN decisions' = DOMAIN decisions
          /\ decisions'[k] = file
          /\ \A n \in DOMAIN decisions : n # k => decisions'[n] = decisions[n]
      BY <1>2, <3>1, <3>2, <3>4
    <3>6. QED
      BY <1>1, <1>2, <2>3, <3>1, <3>2, <3>4, <3>5 DEF Tell
  <2>4. QED
    BY <1>1, <2>1, <2>2, <2>3
<1>7. QED
  BY <1>1, <1>5, <1>6, TurnStays

-----------------------------------------------------------------------------
(* The model transport: the end of a turn *)

\* The process is over, and the call has a name for its session.
LEMMA OverKeeps ==
  ASSUME TransportInv, turn.at = "waiting", ClientIsOver,
         NEW at \in {"message", "closed"}, NEW named \in Nat,
         turn' = [turn EXCEPT !.at = at, !.named = named],
         clients[Files.events].session # Nobody =>
           named \in {Nobody, clients[Files.events].session},
         UNCHANGED <<transport, sessions, progress, action, decisions, heeded>>
  PROVE  TransportInv'
<1>1. PICK f : f = Files.events
  OBVIOUS
<1>2. /\ f \in DOMAIN clients /\ progress.phase # "none"
      /\ progress.phase = "acted" => decisions # <<>>
      /\ turn.thread = progress.thread
      /\ turn.thread # Nobody => clients[f].asked = turn.thread
      /\ transport = "kimi" => ~Files.closed
  BY <1>1 DEF TransportInv, CallInv, Attached
<1>3. clients[f] \in Clients /\ Speaks(f) /\ sessions \subseteq DOMAIN clients
  BY <1>2, ClientFields DEF TransportInv, ClientInv, TransportTypes
<1> DEFINE new == [clients[f] EXCEPT !.live = FALSE]
<1>4. /\ new \in Clients /\ new.asked = clients[f].asked
      /\ new.session = clients[f].session
      /\ new.attempt = clients[f].attempt /\ new.place = clients[f].place
      /\ new.words = clients[f].words /\ ~new.live
      /\ ~clients[f].live => new = clients[f]
  BY <1>3 DEF Clients
<1>5. clients' = [clients EXCEPT ![f] = new] /\ clients \in Seq(Clients)
  BY <1>1 DEF ClientIsOver, TransportInv, TransportTypes
<1> HIDE DEF new
<1>6. Grow
  <2>1. CASE clients[f].live
    BY <1>2, <1>3, <1>4, <1>5, <2>1, Replaces DEF Speaks
  <2>2. CASE ~clients[f].live
    <3>1. clients' = clients
      BY <1>2, <1>4, <1>5, <2>2
    <3>2. QED
      BY <1>3, <1>5, <3>1 DEF Grow, TransportInv, ClientInv, Speaks
  <2>3. QED
    BY <2>1, <2>2
<1>7. turn' \in Turns /\ turn'.at = at /\ turn'.thread = turn.thread /\ turn'.named = named
  BY DEF TransportInv, TransportTypes, Turns, TurnPlaces, Attached
<1>8. /\ TransportTypes' /\ ClientInv' /\ DecisionInv' /\ ActionInv' /\ OwnInv'
      /\ Files' = Files
  BY <1>6, <1>7, NobodyTells, Grown DEF Files, IsAction
<1>9. clients'[f] = new
  BY <1>2, <1>5
<1>10. CallInv'
  BY <1>1, <1>2, <1>4, <1>7, <1>8, <1>9, <1>5 DEF CallInv, Attached
<1>11. QED
  BY <1>8, <1>10 DEF TransportInv

\* Of a job's sessions the only one is its clients'.
LEMMA AwaitKimiKeeps ==
  ASSUME TransportInv, AwaitKimi
  PROVE  TransportInv'
<1> DEFINE asked == clients[Files.events].asked
           found == TheSession(asked)
           named == IF found = {} THEN asked ELSE CHOOSE s \in found : TRUE
<1>1. /\ turn.at = "waiting" /\ ClientIsOver
      /\ turn' = [turn EXCEPT !.at = "message", !.named = named]
      /\ UNCHANGED <<transport, sessions, progress, action, decisions, heeded>>
  BY DEF AwaitKimi
<1>2. PICK f : f = Files.events
  OBVIOUS
<1>3. f \in DOMAIN clients /\ asked = clients[f].asked
  BY <1>1, <1>2 DEF TransportInv, CallInv, Attached
<1>4. /\ asked \in Nat /\ Speaks(f) /\ sessions \subseteq Nat /\ IsFiniteSet(sessions)
  <2>1. sessions \subseteq 1..Len(clients) /\ Len(clients) \in Nat
    BY ClientFields DEF TransportInv, TransportTypes
  <2>2. IsFiniteSet(1..Len(clients))
    BY <2>1, FS_Interval
  <2>3. IsFiniteSet(sessions)
    BY <2>1, <2>2, FS_Subset
  <2>4. QED
    BY <1>3, <2>1, <2>3, ClientFields DEF TransportInv, ClientInv
<1>5. found \subseteq sessions /\ (found # {} => named \in found)
  BY DEF TheSession
<1>6. named \in Nat
  BY <1>4, <1>5
<1>7. clients[f].session # Nobody => named \in {Nobody, clients[f].session}
  <2>1. CASE asked # Nobody
    <3>1. found \subseteq {asked}
      BY <2>1 DEF TheSession
    <3>2. QED
      BY <1>3, <1>4, <1>5, <2>1, <3>1 DEF Speaks
  <2>2. CASE asked = Nobody /\ found = {}
    BY <2>2
  <2>3. CASE asked = Nobody /\ found # {}
    <3>1. found = sessions /\ Cardinality(sessions) = 1
      BY <2>3 DEF TheSession
    <3>2. PICK s : sessions = {s}
      BY <1>4, <3>1, FS_Singleton
    <3>3. QED
      BY <1>4, <1>5, <2>3, <3>1, <3>2 DEF Speaks
  <2>4. QED
    BY <2>1, <2>2, <2>3
<1> HIDE DEF named
<1>8. QED
  BY <1>1, <1>2, <1>6, <1>7, OverKeeps

LEMMA AwaitCodexKeeps ==
  ASSUME TransportInv, AwaitCodex
  PROVE  TransportInv'
<1> DEFINE named == SessionOfEvents
<1>1. /\ turn.at = "waiting" /\ ClientIsOver
      /\ turn' = [turn EXCEPT !.at = "closed", !.named = named]
      /\ UNCHANGED <<transport, sessions, progress, action, decisions, heeded>>
  BY DEF AwaitCodex
<1>2. Files.events \in DOMAIN clients
  BY <1>1 DEF TransportInv, CallInv, Attached
<1>3. named \in Nat /\ named = clients[Files.events].session
  BY <1>2, ClientFields DEF TransportInv, SessionOfEvents
<1> HIDE DEF named
<1>4. QED
  BY <1>1, <1>3, OverKeeps

\* Kimi's adapter writes a file of the turn it waited for.
LEMMA FiledKeeps ==
  ASSUME TransportInv, turn.at \in {"message", "metadata"},
         NEW files \in FileTypes, WriteFiles(files), files.events = Files.events,
         \/ files.message = Files.message
         \/ files.message = Files.events /\ clients[Files.events].session # Nobody,
         transport = "kimi" => Own(files),
         NEW at \in {"metadata", "closed"}, turn' = [turn EXCEPT !.at = at],
         UNCHANGED <<transport, sessions, clients, progress, heeded>>
  PROVE  TransportInv'
<1>1. PICK f : f = Files.events
  OBVIOUS
<1>2. /\ f \in DOMAIN clients /\ progress.phase # "none"
      /\ progress.phase = "acted" => decisions # <<>>
      /\ turn.thread = progress.thread
      /\ turn.thread # Nobody => clients[f].asked = turn.thread
      /\ ~clients[f].live
      /\ clients[f].session # Nobody => turn.named \in {Nobody, clients[f].session}
  BY <1>1 DEF TransportInv, CallInv, Attached
<1>3. turn' \in Turns /\ turn'.at = at /\ turn'.thread = turn.thread /\ turn'.named = turn.named
  BY DEF TransportInv, TransportTypes, Turns, TurnPlaces, Attached
<1>4. IsAction' = IsAction
  BY DEF IsAction
<1>5. CASE IsAction
  <2>1. action' = files /\ decisions' = decisions /\ Files = action
    BY <1>5 DEF WriteFiles, Files
  <2>2. progress.phase = "running"
    BY <1>5 DEF IsAction
  <2>3. TransportTypes'
    BY <1>3, <2>1 DEF TransportInv, TransportTypes
  <2>4. ClientInv'
    BY <2>1, ClientsStay DEF TransportInv
  <2>5. DecisionInv' /\ ActionInv'
    BY <1>1, <1>2, <2>1, <2>2 DEF TransportInv, DecisionInv, ActionInv, OfThread
  <2>6. Files'.events = f
    BY <1>1, <1>4, <1>5, <2>1 DEF Files
  <2>7. CallInv'
    BY <1>2, <1>3, <2>2, <2>6 DEF CallInv, Attached
  <2>8. OwnInv'
    BY <2>1 DEF TransportInv, OwnInv, Own
  <2>9. QED
    BY <2>3, <2>4, <2>5, <2>7, <2>8 DEF TransportInv
<1>6. CASE ~IsAction
  <2> DEFINE k == Len(decisions)
  <2>1. /\ decisions' = [decisions EXCEPT ![k] = files] /\ action' = action
        /\ Files = decisions[k] /\ progress.phase = "acted" /\ progress.phase # "running"
    BY <1>2, <1>6 DEF WriteFiles, Files, IsAction, TransportInv, TransportTypes
  <2>2. k \in DOMAIN decisions /\ decisions \in Seq(FileTypes)
    BY <1>2, <2>1, ClientFields DEF TransportInv, TransportTypes
  <2>3. /\ decisions' \in Seq(FileTypes) /\ DOMAIN decisions' = DOMAIN decisions
        /\ Len(decisions') = k /\ decisions'[k] = files
        /\ \A n \in DOMAIN decisions : n # k => decisions'[n] = decisions[n]
    BY <2>1, <2>2
  <2> HIDE DEF k
  <2>4. TransportTypes'
    BY <1>3, <2>1, <2>3 DEF TransportInv, TransportTypes
  <2>5. ClientInv'
    BY <2>3, ClientsStay DEF TransportInv
  <2>6. OfThread(f)
    BY <1>1, <2>1, <2>2 DEF TransportInv, DecisionInv
  <2>7. /\ files.events = f
        /\ files.message # Nobody =>
             OfThread(files.message) /\ clients[files.message].session # Nobody
    BY <1>1, <2>1, <2>2, <2>6 DEF TransportInv, DecisionInv
  <2>8. ASSUME NEW n \in DOMAIN decisions
        PROVE  /\ OfThread(decisions'[n].events)
               /\ decisions'[n].message # Nobody =>
                    /\ OfThread(decisions'[n].message)
                    /\ clients[decisions'[n].message].session # Nobody
    BY <2>3, <2>6, <2>7 DEF TransportInv, DecisionInv
  <2>9. DecisionInv'
    BY <2>1, <2>3, <2>8 DEF TransportInv, DecisionInv, OfThread
  <2>10. ActionInv'
    BY <2>1 DEF TransportInv, ActionInv
  <2>11. Files'.events = f /\ decisions' # <<>>
    BY <1>4, <1>6, <2>2, <2>3, <2>7 DEF Files
  <2>12. CallInv'
    BY <1>2, <1>3, <2>1, <2>11 DEF CallInv, Attached
  <2>13. OwnInv'
    <3>1. ASSUME transport = "kimi", NEW n \in DOMAIN decisions PROVE Own(decisions[n])'
      BY <2>3, <3>1 DEF TransportInv, OwnInv, Own
    <3>2. QED
      BY <2>1, <2>3, <3>1 DEF TransportInv, OwnInv, Own
  <2>14. QED
    BY <2>4, <2>5, <2>9, <2>10, <2>12, <2>13 DEF TransportInv
<1>7. QED
  BY <1>5, <1>6

\* The files of the turn at hand.
LEMMA FilesAtHand ==
  ASSUME TransportInv, turn.at \in Attached
  PROVE  /\ Files \in FileTypes /\ Files.events \in DOMAIN clients /\ Files.events \in Nat
         /\ transport = "kimi" => Own(Files)
<1>1. IsAction \/ decisions # <<>>
  BY DEF TransportInv, TransportTypes, CallInv, IsAction
<1>2. Files = action \/ (decisions # <<>> /\ Files = decisions[Len(decisions)])
  BY <1>1 DEF Files
<1>3. Files.events \in DOMAIN clients
  BY DEF TransportInv, CallInv
<1>4. QED
  BY <1>2, <1>3, ClientFields DEF TransportInv, TransportTypes, OwnInv

LEMMA WriteMessageKeeps ==
  ASSUME TransportInv, WriteMessage
  PROVE  TransportInv'
<1>1. /\ turn.at = "message"
      /\ IF Said(Files.events)
           THEN WriteFiles([Files EXCEPT !.message = Files.events])
           ELSE UNCHANGED <<action, decisions>>
      /\ turn' = [turn EXCEPT !.at = "metadata"]
      /\ UNCHANGED <<transport, sessions, clients, progress, heeded>>
  BY DEF WriteMessage
<1>2. PICK files : files = Files
  OBVIOUS
<1>3. /\ files \in FileTypes /\ files.events \in DOMAIN clients /\ files.events \in Nat
      /\ transport = "kimi" => ~files.closed /\ Own(files)
  BY <1>1, <1>2, FilesAtHand DEF Attached, TransportInv, CallInv
<1>4. CASE Said(files.events)
  <2> DEFINE written == [files EXCEPT !.message = files.events]
  <2>1. clients[files.events].session # Nobody
    BY <1>3, <1>4 DEF Said, TransportInv, ClientInv, Speaks
  <2>2. /\ written \in FileTypes /\ written.events = files.events
        /\ written.message = files.events /\ written.closed = files.closed
    BY <1>3 DEF FileTypes
  <2>3. WriteFiles(written)
    BY <1>1, <1>2, <1>4
  <2> HIDE DEF written
  <2>4. transport = "kimi" => Own(written)
    BY <1>3, <2>1, <2>2 DEF Own
  <2>5. QED
    BY <1>1, <1>2, <2>1, <2>2, <2>3, <2>4, FiledKeeps
<1>5. CASE ~Said(files.events)
  <2>1. UNCHANGED <<action, decisions>>
    BY <1>1, <1>2, <1>5
  <2>2. /\ turn' \in Turns /\ turn'.at = "metadata" /\ turn'.thread = turn.thread
        /\ turn'.named = turn.named
    BY <1>1 DEF TransportInv, TransportTypes, Turns, TurnPlaces, Attached
  <2>3. TransportTypes' /\ ClientInv'
    BY <1>1, <2>1, <2>2, ClientsStay DEF TransportInv, TransportTypes
  <2>4. DecisionInv' /\ ActionInv' /\ OwnInv'
    BY <1>1, <2>1 DEF TransportInv, DecisionInv, ActionInv, OfThread, OwnInv, Own
  <2>5. Files' = Files
    BY <1>1, <2>1 DEF Files, IsAction
  <2>6. CallInv'
    BY <1>1, <2>1, <2>2, <2>5 DEF TransportInv, CallInv, Attached
  <2>7. QED
    BY <2>3, <2>4, <2>6 DEF TransportInv
<1>6. QED
  BY <1>4, <1>5

LEMMA WriteTransportKeeps ==
  ASSUME TransportInv, WriteTransport
  PROVE  TransportInv'
<1>1. /\ turn.at = "metadata"
      /\ WriteFiles([Files EXCEPT !.closed = TRUE, !.session = turn.named])
      /\ turn' = [turn EXCEPT !.at = "closed"]
      /\ UNCHANGED <<transport, sessions, clients, progress, heeded>>
  BY DEF WriteTransport
<1>2. PICK files : files = Files
  OBVIOUS
<1>3. /\ files \in FileTypes /\ files.events \in DOMAIN clients
      /\ transport = "kimi" => Own(files)
      /\ clients[files.events].session # Nobody =>
           turn.named \in {Nobody, clients[files.events].session}
      /\ turn.named \in Nat
  BY <1>1, <1>2, FilesAtHand DEF Attached, TransportInv, TransportTypes, CallInv, Turns
<1> DEFINE written == [files EXCEPT !.closed = TRUE, !.session = turn.named]
<1>4. /\ written \in FileTypes /\ written.events = files.events
      /\ written.message = files.message /\ written.session = turn.named
  BY <1>3 DEF FileTypes
<1>5. WriteFiles(written)
  BY <1>1, <1>2
<1> HIDE DEF written
<1>6. transport = "kimi" => Own(written)
  BY <1>3, <1>4 DEF Own
<1>7. QED
  BY <1>1, <1>2, <1>4, <1>5, <1>6, FiledKeeps

-----------------------------------------------------------------------------
(* The model transport: what the job makes of a turn *)

LEMMA CheckpointKeeps ==
  ASSUME TransportInv, CheckpointTurn
  PROVE  TransportInv'
<1> DEFINE thread == IF turn.thread # Nobody THEN turn.thread ELSE turn.named
<1>1. /\ turn.at = "closed" /\ IsAction
      /\ progress' = [progress EXCEPT !.phase = "acted", !.thread = thread]
      /\ turn' = [turn EXCEPT !.at = "deciding", !.thread = thread]
      /\ UNCHANGED <<transport, sessions, clients, action, decisions, heeded>>
  BY DEF CheckpointTurn
<1>2. PICK f : f = action.events
  OBVIOUS
<1>3. /\ progress.phase = "running" /\ decisions = <<>> /\ Files = action
      /\ f \in DOMAIN clients /\ ~clients[f].live /\ Speaks(f)
      /\ turn.thread = progress.thread
      /\ turn.thread # Nobody => clients[f].asked = turn.thread
      /\ clients[f].session # Nobody => turn.named \in {Nobody, clients[f].session}
  BY <1>1, <1>2 DEF IsAction, Files, TransportInv, DecisionInv, CallInv, Attached, ClientInv
<1>4. /\ thread \in Nat
      /\ progress.thread # Nobody => thread = progress.thread
      /\ clients[f].words # "none" /\ thread # Nobody => clients[f].session = thread
  BY <1>3 DEF TransportInv, TransportTypes, Turns, Speaks
<1> HIDE DEF thread
<1>5. /\ progress' \in [phase : {"none", "running", "acted"}, attempt : Nat, thread : Nat]
      /\ progress'.phase = "acted" /\ progress'.attempt = progress.attempt
      /\ progress'.thread = thread
      /\ turn' \in Turns /\ turn'.at = "deciding" /\ turn'.thread = thread
  BY <1>1, <1>4 DEF TransportInv, TransportTypes, Turns, TurnPlaces
<1>6. TransportTypes'
  BY <1>1, <1>5 DEF TransportInv, TransportTypes
<1>7. DOMAIN decisions = {}
  BY <1>3
<1>8. ClientInv'
  BY <1>1, <1>3, <1>5, <1>7 DEF TransportInv, ClientInv, Speaks, Writes
<1>9. DecisionInv'
  BY <1>1, <1>4, <1>5, <1>7 DEF TransportInv, DecisionInv
<1>10. ActionInv'
  BY <1>1, <1>2, <1>3, <1>4, <1>5 DEF TransportInv, ActionInv
<1>11. CallInv'
  BY <1>5 DEF CallInv, Attached
<1>12. OwnInv'
  BY <1>1 DEF TransportInv, OwnInv, Own
<1>13. QED
  BY <1>6, <1>8, <1>9, <1>10, <1>11, <1>12 DEF TransportInv

LEMMA AskKeeps ==
  ASSUME TransportInv, AskForDecision
  PROVE  TransportInv'
<1> DEFINE file == [NoFiles EXCEPT !.events = Len(clients) + 1]
<1>1. /\ turn.at = "deciding" /\ turn.thread # Nobody
      /\ decisions' = Append(decisions, file)
      /\ clients' = Append(clients, Client(turn.thread))
      /\ turn' = [turn EXCEPT !.at = "waiting", !.tries = @ + 1]
      /\ UNCHANGED <<transport, sessions, progress, action, heeded>>
  BY DEF AskForDecision
<1>2. /\ turn.thread = progress.thread /\ progress.phase = "acted" /\ ~IsAction
      /\ TransportTypes /\ progress.attempt \in Nat /\ Len(clients) \in Nat
      /\ turn.thread \in Nat /\ decisions \in Seq(FileTypes)
  BY <1>1, ClientFields DEF TransportInv, CallInv, TransportTypes, IsAction, Turns
<1>3. /\ file \in FileTypes /\ file.events = Len(clients) + 1 /\ file.message = Nobody
      /\ file.closed = FALSE
  <2>1. PICK k \in Nat : k = Len(clients) + 1
    BY <1>2
  <2>2. file = [NoFiles EXCEPT !.events = k] /\ NoFiles \in FileTypes
    BY <2>1, NoTurnYet
  <2> HIDE DEF file
  <2>3. QED
    BY ONLY <2>1, <2>2, NoTurnYet DEF FileTypes
<1> HIDE DEF file
<1>4. /\ decisions' \in Seq(FileTypes) /\ Len(decisions') = Len(decisions) + 1
      /\ DOMAIN decisions' = DOMAIN decisions \union {Len(decisions')}
      /\ decisions'[Len(decisions')] = file
      /\ \A n \in DOMAIN decisions : decisions'[n] = decisions[n]
  BY <1>1, <1>2, <1>3
<1>5. PICK new \in Nat :
        /\ clients' \in Seq(Clients) /\ new = Len(clients') /\ new = Len(clients) + 1
        /\ DOMAIN clients' = DOMAIN clients \union {new} /\ new \notin DOMAIN clients
        /\ \A c \in DOMAIN clients : clients'[c] = clients[c]
        /\ clients'[new].asked = turn.thread /\ clients'[new].session = Nobody
        /\ clients'[new].words = "none"
        /\ clients'[new].attempt = progress.attempt /\ clients'[new].place = Len(decisions')
  <2>1. Len(clients) + 1 \in Nat
    BY <1>2
  <2>2. QED
    BY <1>1, <1>2, <1>4, <2>1, ClientAdded
<1>6. turn' \in Turns /\ turn'.at = "waiting" /\ turn'.thread = turn.thread
  <2>1. PICK k \in Nat : k = turn.tries + 1
    BY <1>2 DEF TransportTypes, Turns
  <2>2. turn \in Turns /\ turn' = [turn EXCEPT !.at = "waiting", !.tries = k]
    BY <1>1, <1>2, <2>1 DEF TransportTypes
  <2>3. QED
    BY ONLY <2>1, <2>2 DEF Turns, TurnPlaces, Attached
<1>7. TransportTypes'
  BY <1>1, <1>2, <1>4, <1>5, <1>6 DEF TransportTypes
<1>8. ClientInv'
  <2>1. \A c \in DOMAIN clients : Speaks(c)' /\ Writes(c)'
    BY <1>1, <1>4, <1>5 DEF TransportInv, ClientInv, Speaks, Writes
  <2>2. Speaks(new)' /\ Writes(new)'
    BY <1>1, <1>2, <1>4, <1>5 DEF Speaks, Writes
  <2>3. QED
    BY <1>5, <2>1, <2>2 DEF ClientInv
<1>9. DecisionInv'
  <2>1. \A c : OfThread(c) => OfThread(c)' /\ clients'[c] = clients[c]
    BY <1>1, <1>5 DEF OfThread
  <2>2. OfThread(new)'
    BY <1>1, <1>2, <1>5 DEF OfThread
  <2>3. ASSUME NEW n \in DOMAIN decisions
        PROVE  /\ OfThread(decisions[n].events)'
               /\ decisions'[n].message # Nobody =>
                    /\ OfThread(decisions[n].message)'
                    /\ clients'[decisions'[n].message].session # Nobody
    <3>1. PICK e, m : e = decisions[n].events /\ m = decisions[n].message
      OBVIOUS
    <3>2. OfThread(e)' /\ (m # Nobody => OfThread(m)' /\ clients'[m].session # Nobody)
      BY <2>1, <3>1 DEF TransportInv, DecisionInv
    <3>3. e = decisions'[n].events /\ m = decisions'[n].message
      BY <1>4, <3>1
    <3>4. QED
      BY <3>2, <3>3 DEF OfThread
  <2>4. \A c \in heeded : clients'[c].session = progress.thread /\ progress.thread # Nobody
    BY <1>2, <1>5 DEF TransportInv, TransportTypes, DecisionInv
  <2>5. QED
    <3>1. PICK last : last = Len(decisions')
      OBVIOUS
    <3>2. decisions'[last].events = new /\ decisions'[last].message = Nobody
      BY <1>3, <1>4, <1>5, <3>1
    <3>3. OfThread(decisions[last].events)'
      BY <2>2, <3>2 DEF OfThread
    <3>4. \A n \in DOMAIN decisions' : n \in DOMAIN decisions \/ n = last
      BY <1>4, <3>1
    <3>5. QED
      BY <1>1, <1>2, <2>3, <2>4, <3>2, <3>3, <3>4 DEF DecisionInv
<1>10. ActionInv'
  BY <1>1, <1>2, <1>5 DEF TransportInv, ActionInv
<1>11. CallInv'
  <2>1. decisions' # <<>> /\ Files' = file
    BY <1>1, <1>2, <1>4 DEF Files, IsAction
  <2>2. QED
    BY <1>1, <1>2, <1>3, <1>5, <1>6, <2>1 DEF CallInv, Attached
<1>12. OwnInv'
  <2>1. ASSUME NEW files, Own(files) PROVE Own(files)'
    BY <1>5, <2>1 DEF Own
  <2>2. ASSUME transport = "kimi" PROVE Own(action) /\ \A n \in DOMAIN decisions : Own(decisions[n])
    BY <2>2 DEF TransportInv, OwnInv
  <2>3. ASSUME transport = "kimi" PROVE Own(action)' /\ \A n \in DOMAIN decisions' : Own(decisions[n])'
    <3>1. PICK a : a = action
      OBVIOUS
    <3>2. Own(a)'
      BY <2>1, <2>2, <2>3, <3>1
    <3>3. ASSUME NEW n \in DOMAIN decisions PROVE Own(decisions[n])'
      <4>1. PICK d : d = decisions[n]
        OBVIOUS
      <4>2. Own(d)'
        BY <2>1, <2>2, <2>3, <4>1
      <4>3. QED
        BY <1>4, <4>1, <4>2 DEF Own
    <3>4. QED
      BY <1>1, <1>3, <1>4, <3>1, <3>2, <3>3 DEF Own
  <2>4. QED
    BY <1>1, <2>3 DEF OwnInv
<1>13. QED
  BY <1>7, <1>8, <1>9, <1>10, <1>11, <1>12 DEF TransportInv

\* A decision that is valid was said in the conversation on record.
LEMMA HeedKeeps ==
  ASSUME TransportInv, progress.phase = "acted",
         NEW n \in DOMAIN decisions, Valid(decisions[n]), Heed(decisions[n].message),
         turn.at # "off",
         UNCHANGED <<transport, sessions, clients, action, decisions>>
  PROVE  TransportInv'
<1>1. PICK m : m = decisions[n].message
  OBVIOUS
<1>2. /\ heeded' = heeded \union {m}
      /\ progress' = [progress EXCEPT !.phase = "none", !.attempt = @ + 1]
      /\ turn' = [turn EXCEPT !.at = "between"]
  BY <1>1 DEF Heed
<1>3. m \in DOMAIN clients /\ clients[m].session = progress.thread /\ progress.thread # Nobody
  <2>1. m # Nobody /\ OfThread(m) /\ clients[m].session # Nobody
    BY <1>1 DEF Valid, TransportInv, DecisionInv
  <2>2. QED
    BY <2>1 DEF OfThread, TransportInv, ClientInv, Speaks
<1>4. turn.thread = progress.thread
  BY DEF TransportInv, CallInv
<1>5. /\ progress' \in [phase : {"none", "running", "acted"}, attempt : Nat, thread : Nat]
      /\ progress'.phase = "none" /\ progress'.attempt = progress.attempt + 1
      /\ progress'.thread = progress.thread /\ progress.attempt \in Nat
      /\ turn' \in Turns /\ turn'.at = "between" /\ turn'.thread = turn.thread
  <2>1. PICK k \in Nat : k = progress.attempt + 1
    BY DEF TransportInv, TransportTypes
  <2>2. progress' = [progress EXCEPT !.phase = "none", !.attempt = k]
    BY <1>2, <2>1
  <2>3. turn \in Turns
        /\ progress \in [phase : {"none", "running", "acted"}, attempt : Nat, thread : Nat]
    BY DEF TransportInv, TransportTypes
  <2>4. QED
    BY ONLY <1>2, <2>1, <2>2, <2>3 DEF Turns, TurnPlaces
<1>6. TransportTypes'
  BY <1>2, <1>3, <1>5 DEF TransportInv, TransportTypes
<1>7. ClientInv'
  <2>1. ASSUME NEW c \in DOMAIN clients PROVE Speaks(c)' /\ Writes(c)'
    <3>1. /\ Speaks(c) /\ clients[c].attempt <= progress.attempt
          /\ clients[c].attempt \in Nat
      BY ClientFields DEF TransportInv, ClientInv, Writes
    <3>2. QED
      BY <1>5, <3>1 DEF Speaks, Writes
  <2>2. QED
    BY <2>1 DEF ClientInv
<1>8. DecisionInv'
  BY <1>2, <1>3, <1>5 DEF TransportInv, DecisionInv, OfThread
<1>9. ActionInv'
  BY <1>5 DEF TransportInv, ActionInv
<1>10. CallInv'
  BY <1>4, <1>5 DEF CallInv, Attached
<1>11. OwnInv'
  BY DEF TransportInv, OwnInv, Own
<1>12. QED
  BY <1>6, <1>7, <1>8, <1>9, <1>10, <1>11 DEF TransportInv

LEMMA RecoverDecisionKeeps ==
  ASSUME TransportInv, RecoverDecision
  PROVE  TransportInv'
<1>1. PICK n \in DOMAIN decisions :
        /\ turn.at = "deciding" /\ Valid(decisions[n]) /\ Heed(decisions[n].message)
        /\ UNCHANGED <<transport, sessions, clients, action, decisions>>
  BY DEF RecoverDecision
<1>2. progress.phase = "acted"
  BY <1>1 DEF TransportInv, CallInv
<1>3. QED
  BY <1>1, <1>2, HeedKeeps

LEMMA TakeDecisionKeeps ==
  ASSUME TransportInv, TakeDecision
  PROVE  TransportInv'
<1>1. /\ turn.at = "closed" /\ ~IsAction
      /\ UNCHANGED <<transport, sessions, clients, action, decisions>>
  BY DEF TakeDecision
<1>2. progress.phase = "acted" /\ decisions # <<>> /\ turn.thread = progress.thread
  BY <1>1 DEF IsAction, TransportInv, TransportTypes, CallInv, Attached
<1>3. CASE Valid(Files) /\ Heed(Files.message)
  <2>1. Len(decisions) \in DOMAIN decisions /\ Files = decisions[Len(decisions)]
    BY <1>1, <1>2, ClientFields DEF Files, TransportInv
  <2>2. QED
    BY <1>1, <1>2, <1>3, <2>1, HeedKeeps
<1>4. CASE turn' = [turn EXCEPT !.at = "deciding"] /\ UNCHANGED <<progress, heeded>>
  <2>1. turn' \in Turns /\ turn'.at = "deciding" /\ turn'.thread = turn.thread
    BY <1>4 DEF TransportInv, TransportTypes, Turns, TurnPlaces
  <2>2. TransportTypes' /\ ClientInv'
    BY <1>1, <1>4, <2>1, ClientsStay DEF TransportInv, TransportTypes
  <2>3. DecisionInv' /\ ActionInv' /\ OwnInv'
    BY <1>1, <1>4 DEF TransportInv, DecisionInv, ActionInv, OfThread, OwnInv, Own
  <2>4. CallInv'
    BY <1>2, <1>4, <2>1 DEF CallInv, Attached
  <2>5. QED
    BY <2>2, <2>3, <2>4 DEF TransportInv
<1>5. QED
  BY <1>3, <1>4 DEF TakeDecision

\* Whoever speaks, and whenever the job dies, the clients, the files and the turn agree.
THEOREM TransportInvariance == TransportSpec => []TransportInv
<1>1. TransportInv /\ [TransportNext]_transportVars => TransportInv'
  <2>1. SUFFICES ASSUME TransportInv, [TransportNext]_transportVars PROVE TransportInv'
    OBVIOUS
  <2>2. ASSUME NEW c \in DOMAIN clients, ClientEnters(c) \/ ClientSpeaks(c) \/ ClientEnds(c)
        PROVE  TransportInv'
    BY <2>1, <2>2, EntersKeeps, ClientSpeaksKeeps, EndsKeeps
  <2>3. CASE UNCHANGED transportVars
    <3>1. UNCHANGED <<transport, sessions, clients, progress, action, decisions, turn, heeded>>
      BY <2>3 DEF transportVars
    <3>2. Files' = Files
      BY <3>1 DEF Files, IsAction
    <3>3. QED
      BY <2>1, <3>1, <3>2 DEF TransportInv, TransportTypes, ClientInv, Speaks, Writes,
        DecisionInv, OfThread, ActionInv, CallInv, OwnInv, Own
  <2>4. QED
    BY <2>1, <2>2, <2>3, CallKeeps, BeginKeeps, ArchiveKeeps, StartActionKeeps,
      ResumeActionKeeps, AwaitKimiKeeps, AwaitCodexKeeps, WriteMessageKeeps,
      WriteTransportKeeps, CheckpointKeeps, AskKeeps, RecoverDecisionKeeps,
      TakeDecisionKeeps, DiesKeeps DEF TransportNext
<1>2. QED
  BY <1>1, TransportStarts, PTL DEF TransportSpec

\* Every decision a job went on by, and every action it asked about, was said in the one
\* conversation it has on record, though clients of earlier calls still run; and what
\* Kimi's adapter files under a turn is that turn's own.
THEOREM OneConversation == TransportSpec => []TurnsAreOneConversation
<1>1. TransportInv => TurnsAreOneConversation
  <2>1. SUFFICES ASSUME TransportInv PROVE TurnsAreOneConversation
    OBVIOUS
  <2>2. DecisionsAreOfTheThread
    BY <2>1 DEF TransportInv, DecisionInv, ActionInv, DecisionsAreOfTheThread
  <2>3. ASSUME transport = "kimi",
               NEW files \in {action} \union {decisions[n] : n \in DOMAIN decisions}
        PROVE  Own(files)
    BY <2>1, <2>3 DEF TransportInv, OwnInv
  <2>4. MessagesAreOwn
    BY <2>3 DEF MessagesAreOwn, Own
  <2>5. QED
    BY <2>2, <2>4 DEF TurnsAreOneConversation
<1>2. QED
  BY <1>1, TransportInvariance, PTL

-----------------------------------------------------------------------------
(* The episode: types and the invariant *)

EventTypes == {"reset", "observation", "conclusion", "checkpoint", "submitted", "verification"}
Saved == Contents \union {"tampered"}
Outcomes == {"open", "yes", "no"}
Statuses == {"absent", "running", "timeout", "no_submission", "answer_review_required", "graded"}
Submitting == {"answered", "copied", "checkpointed", "submitted"}

EpisodeTypes ==
  /\ driver \in Drivers
  /\ bundle \in [manifest : Nat, assets : Nat]
  /\ episode \in [status : {"absent", "active", "submitted"}, task : Nat, submission : Nat]
  /\ work \in Contents \union {"none"}
  /\ snapshots \in Seq(Saved)
  /\ events \in Seq(EventTypes \X Nat)
  /\ server \in {"off", "idle", "acting"} \union Submitting
  /\ client \in {"none", "running", "left", "killed"}
  /\ grading \in [passed : Outcomes \union {"none"}, of : Nat, content : Saved \union {"none"},
                  task : Nat]
  /\ record \in [status : Statuses, passed : Outcomes]

\* A conclusion follows what it refers to; a submission is recorded in three steps, and only
\* by a process whose episode is active.
RecordInv ==
  /\ \A j \in DOMAIN events : events[j][1] = "conclusion" =>
       \E i \in DOMAIN events : i < j /\ events[i] = <<"observation", events[j][2]>>
  /\ server \in Submitting => EpisodeActive
  /\ server = "answered" => work # "none"
  /\ server \in Submitting \ {"answered"} => Len(snapshots) # 0
  /\ server = "checkpointed" => <<"checkpoint", Len(snapshots)>> \in Range(events)
  /\ server = "submitted" =>
       Before(<<"checkpoint", Len(snapshots)>>, <<"submitted", Len(snapshots)>>)
  /\ episode.status = "submitted" =>
       /\ episode.submission \in DOMAIN snapshots
       /\ Before(<<"checkpoint", episode.submission>>, <<"submitted", episode.submission>>)

\* Who is at work, and what there is of a verdict by then.
RunnerInv ==
  /\ runner = "start" =>
       episode.status = "absent" /\ client = "none" /\ grading.passed = "none"
  /\ runner \in {"start", "preparing", "waiting", "accepting", "judging"} =>
       grading.passed = "none"
  /\ runner \in {"start", "preparing"} => client = "none"
  /\ runner \in {"judging", "recording"} => episode.status = "submitted"
  /\ runner = "recording" => grading.passed # "none"
  /\ client = "killed" => server = "off" /\ runner # "preparing"
  /\ runner = "concluding" /\ grading.passed = "none" /\ client = "killed" =>
       episode.status # "submitted"

\* What is on record of the verdict, and what is shown of the record.
ReportInv ==
  /\ grading.passed # "none" => grading.content # "none"
  /\ record.status \notin {"absent", "running"} => runner = "done"
  /\ record.status = "timeout" => client = "killed" /\ episode.status # "submitted"
  /\ record.status = "graded" => record.passed \in {"yes", "no"}
  /\ record.passed \in {"yes", "no"} => record.passed = grading.passed
  /\ exported.passed \in {"yes", "no"} =>
       exported.passed = grading.passed /\ exported.answer = grading.content

EpisodeInv == EpisodeTypes /\ RecordInv /\ RunnerInv /\ VerdictIsEarned /\ ReportInv

LEMMA EpisodeStarts == EpisodeInit => EpisodeInv
<1>1. SUFFICES ASSUME EpisodeInit PROVE EpisodeInv
  OBVIOUS
<1>2. EpisodeTypes
  BY <1>1 DEF EpisodeInit, EpisodeTypes, NoEpisode, NoFile, Outcomes, Statuses
<1>3. RecordInv /\ RunnerInv /\ VerdictIsEarned /\ ReportInv
  BY <1>1 DEF EpisodeInit, RecordInv, RunnerInv, VerdictIsEarned, ReportInv, NoEpisode, NoFile,
    NoExport, Submitting
<1>4. QED
  BY <1>2, <1>3 DEF EpisodeInv

-----------------------------------------------------------------------------
(* The episode: the record of its events *)

\* What is in a record stays there, in its place.
LEMMA EventsGrow ==
  ASSUME EpisodeTypes, NEW type, NEW n, AppendEvent(type, n)
  PROVE  /\ Len(events') = Len(events) + 1 /\ events'[Len(events) + 1] = <<type, n>>
         /\ \A i \in DOMAIN events : events'[i] = events[i]
         /\ DOMAIN events' = DOMAIN events \union {Len(events) + 1}
         /\ type \in EventTypes /\ n \in Nat => events' \in Seq(EventTypes \X Nat)
BY DEF AppendEvent, EpisodeTypes

LEMMA OrderStays ==
  ASSUME EpisodeTypes, NEW type, NEW n, AppendEvent(type, n)
  PROVE  /\ \A first, second : Before(first, second) => Before(first, second)'
         /\ \A first : first \in Range(events) => first \in Range(events')
         /\ \A first : first \in Range(events) => Before(first, <<type, n>>)'
         /\ <<type, n>> \in Range(events')
<1>1. /\ Len(events) \in Nat /\ DOMAIN events = 1..Len(events)
      /\ events'[Len(events) + 1] = <<type, n>>
      /\ \A i \in DOMAIN events : events'[i] = events[i] /\ i \in DOMAIN events'
      /\ Len(events) + 1 \in DOMAIN events'
  BY EventsGrow DEF EpisodeTypes
<1>2. ASSUME NEW first, NEW second, Before(first, second)
      PROVE  Before(first, second)'
  BY <1>1, <1>2 DEF Before
<1>3. ASSUME NEW first, first \in Range(events)
      PROVE  first \in Range(events') /\ Before(first, <<type, n>>)'
  <2>1. PICK i \in DOMAIN events : events[i] = first
    BY <1>3 DEF Range
  <2>2. i < Len(events) + 1
    BY <1>1
  <2>3. QED
    BY <1>1, <2>1, <2>2 DEF Before, Range
<1>4. QED
  BY <1>1, <1>2, <1>3 DEF Range

\* Conclusions keep their ground when another event follows that is none, or has its own.
LEMMA GroundStays ==
  ASSUME EpisodeTypes, NEW type, NEW n, AppendEvent(type, n),
         \A j \in DOMAIN events : events[j][1] = "conclusion" =>
           \E i \in DOMAIN events : i < j /\ events[i] = <<"observation", events[j][2]>>,
         type = "conclusion" => <<"observation", n>> \in Range(events)
  PROVE  \A j \in DOMAIN events' : events'[j][1] = "conclusion" =>
           \E i \in DOMAIN events' : i < j /\ events'[i] = <<"observation", events'[j][2]>>
<1>1. /\ Len(events) \in Nat /\ DOMAIN events = 1..Len(events)
      /\ events'[Len(events) + 1] = <<type, n>>
      /\ \A i \in DOMAIN events : events'[i] = events[i]
      /\ DOMAIN events' = DOMAIN events \union {Len(events) + 1}
  <2>1. events \in Seq(EventTypes \X Nat)
    BY DEF EpisodeTypes
  <2>2. /\ Len(events') = Len(events) + 1 /\ events'[Len(events) + 1] = <<type, n>>
        /\ \A i \in DOMAIN events : events'[i] = events[i]
        /\ DOMAIN events' = DOMAIN events \union {Len(events) + 1}
    BY ONLY EpisodeTypes, AppendEvent(type, n), EventsGrow
  <2>3. QED
    BY ONLY <2>1, <2>2
<1>2. TAKE j \in DOMAIN events'
<1>3. HAVE events'[j][1] = "conclusion"
<1>4. CASE j \in DOMAIN events
  <2>1. PICK i \in DOMAIN events : i < j /\ events[i] = <<"observation", events[j][2]>>
    BY <1>1, <1>3, <1>4
  <2>2. QED
    BY <1>1, <1>4, <2>1
<1>5. CASE j = Len(events) + 1
  <2>1. type = "conclusion"
    BY <1>1, <1>3, <1>5
  <2>2. PICK i \in DOMAIN events : events[i] = <<"observation", n>>
    BY <2>1 DEF Range
  <2>3. i < j /\ events'[i] = <<"observation", n>> /\ events'[j][2] = n
    BY <1>1, <1>5, <2>2
  <2>4. QED
    BY <1>1, <2>2, <2>3
<1>6. QED
  BY <1>1, <1>4, <1>5

-----------------------------------------------------------------------------
(* The episode: types *)

\* Who adds to the record, and who submits.
LEMMA WhoRecords ==
  ASSUME EpisodeInv, [EpisodeNext]_episodeVars
  PROVE  /\ \/ UNCHANGED events
            \/ \E type \in EventTypes \ {"conclusion"}, n \in Nat : AppendEvent(type, n)
            \/ \E n \in Recorded("observation") : AppendEvent("conclusion", n)
         /\ \/ UNCHANGED snapshots
            \/ CopyCheckpoint /\ snapshots' = Append(snapshots, work)
            \/ /\ server \in {"idle", "off"} /\ UNCHANGED server /\ Len(snapshots') = Len(snapshots)
               /\ DOMAIN snapshots' = DOMAIN snapshots
               /\ \A k \in DOMAIN snapshots : snapshots'[k] \in {snapshots[k], "tampered"}
         /\ \/ UNCHANGED episode
            \/ WriteSubmission
            \/ Reset /\ episode'.status = "active" /\ UNCHANGED snapshots
<1>1. EpisodeTypes
  BY DEF EpisodeInv
<1>2. Len(snapshots) \in Nat /\ episode.submission \in Nat
  BY <1>1 DEF EpisodeTypes
<1>3. CASE UNCHANGED episodeVars
  BY <1>3 DEF episodeVars, taskVars
<1>4. CASE WriteAssets \/ SealBundle \/ CallRaises \/ BeginAction \/ ActionWrites \/ ActionReturns
  BY <1>4 DEF WriteAssets, SealBundle, CallRaises, BeginAction, ActionWrites, ActionReturns, taskVars
<1>5. CASE ContainerEnds \/ WriteAnswer \/ StartServer \/ ServerStops \/ ServerDies
  BY <1>5 DEF ContainerEnds, WriteAnswer, StartServer, ServerStops, ServerDies, CutShort, taskVars
<1>6. CASE ClientLeaves \/ StartClient \/ KillClient \/ RunnerDies \/ ReadOutcome \/ ExportRun
  BY <1>6 DEF ClientLeaves, StartClient, KillClient, RunnerDies, ReadOutcome, ExportRun, CutShort,
    taskVars
<1>7. CASE WriteOutcome \/ Grade
  BY <1>7 DEF WriteOutcome, Grade, taskVars
<1>8. CASE Reset
  BY <1>8 DEF Reset, EventTypes
<1>9. CASE Observe
  <2>1. /\ Recorded("observation") \subseteq 1..Len(snapshots) + Len(events)
        /\ Len(snapshots) + Len(events) \in Nat
    BY <1>1 DEF Recorded, EpisodeTypes
  <2>2. IsFiniteSet(1..Len(snapshots) + Len(events))
    BY <2>1, FS_Interval
  <2>3. IsFiniteSet(Recorded("observation"))
    BY <2>1, <2>2, FS_Subset
  <2>4. Cardinality(Recorded("observation")) \in Nat
    BY <2>3, FS_CardinalityType
  <2>5. Cardinality(Recorded("observation")) + 1 \in Nat
    BY <2>4
  <2>6. QED
    BY <1>9, <2>5 DEF Observe, EventTypes
<1>10. CASE ConcludeCall
  BY <1>10 DEF ConcludeCall
<1>11. CASE RecordCheckpoint \/ RecordSubmitted \/ RecordVerification
  BY <1>2, <1>11 DEF RecordCheckpoint, RecordSubmitted, RecordVerification, EventTypes
<1>12. CASE CopyCheckpoint \/ WriteSubmission
  BY <1>12 DEF CopyCheckpoint, WriteSubmission
<1>13. CASE Tamper
  BY <1>1, <1>13 DEF Tamper, EpisodeTypes, serverVars
<1>14. QED
  BY <1>3, <1>4, <1>5, <1>6, <1>7, <1>8, <1>9, <1>10, <1>11, <1>12, <1>13 DEF EpisodeNext

LEMMA JudgedIs == \A version, content : Judged(version, content) \in Outcomes
BY DEF Judged, Outcomes

LEMMA EpisodeTypesKept ==
  ASSUME EpisodeInv, [EpisodeNext]_episodeVars
  PROVE  EpisodeTypes'
<1>1. EpisodeTypes /\ RecordInv
  BY DEF EpisodeInv
<1>2. events' \in Seq(EventTypes \X Nat)
  <2>1. \A n \in Recorded("observation") : n \in Nat
    BY <1>1 DEF Recorded, EpisodeTypes
  <2>2. QED
    BY <1>1, <2>1, WhoRecords, EventsGrow DEF EventTypes, EpisodeTypes
<1>3. CASE UNCHANGED episodeVars
  BY <1>1, <1>3 DEF episodeVars, taskVars, serverVars, runnerVars, EpisodeTypes
<1>4. CASE WriteAssets \/ SealBundle \/ CallRaises \/ BeginAction \/ ActionWrites \/ ActionReturns
  <2>1. UNCHANGED <<driver, episode, snapshots, events, client, grading, record>>
    BY <1>4 DEF WriteAssets, SealBundle, CallRaises, BeginAction, ActionWrites, ActionReturns,
      taskVars, serverVars, runnerVars
  <2>2. /\ work' \in {work, "unlisted"} /\ server' \in {server, "acting", "idle"}
        /\ \/ UNCHANGED bundle \/ bundle' = [bundle EXCEPT !.assets = 1]
           \/ bundle' = [bundle EXCEPT !.manifest = 1]
    BY <1>4 DEF WriteAssets, SealBundle, CallRaises, BeginAction, ActionWrites, ActionReturns,
      taskVars, serverVars
  <2>3. QED
    BY <1>1, <2>1, <2>2 DEF EpisodeTypes, Contents
<1>5. CASE ContainerEnds \/ WriteAnswer \/ StartServer \/ ServerStops \/ ServerDies
  BY <1>1, <1>5 DEF ContainerEnds, WriteAnswer, StartServer, ServerStops, ServerDies, CutShort,
    taskVars, serverVars, runnerVars, EpisodeTypes, Contents, Submitting
<1>6. CASE ClientLeaves \/ StartClient \/ KillClient \/ RunnerDies \/ ReadOutcome \/ ExportRun
  <2>1. UNCHANGED <<driver, bundle, episode, work, snapshots, events, grading>>
    BY <1>6 DEF ClientLeaves, StartClient, KillClient, RunnerDies, ReadOutcome, ExportRun, CutShort,
      taskVars, serverVars, runnerVars
  <2>2. server' \in {server, "off"} /\ client' \in {client, "left", "running", "killed"}
    BY <1>6 DEF ClientLeaves, StartClient, KillClient, RunnerDies, ReadOutcome, ExportRun,
      taskVars, serverVars, runnerVars
  <2>3. record' = record \/ record' = [record EXCEPT !.status = "running"]
    BY <1>6 DEF ClientLeaves, StartClient, KillClient, RunnerDies, ReadOutcome, ExportRun,
      taskVars, serverVars, runnerVars
  <2>4. QED
    BY <1>1, <2>1, <2>2, <2>3 DEF EpisodeTypes, Statuses
<1>7. CASE WriteOutcome
  <2>1. OutcomeOfRun \in [status : Statuses, passed : Outcomes]
    BY <1>1 DEF OutcomeOfRun, EpisodeTypes, Outcomes, Statuses
  <2>2. /\ record' \in [status : Statuses, passed : Outcomes]
        /\ UNCHANGED <<driver, bundle, episode, work, snapshots, events, server, client, grading>>
    BY <1>1, <1>7, <2>1 DEF WriteOutcome, taskVars, serverVars, EpisodeTypes
  <2>3. QED
    BY <1>1, <2>2 DEF EpisodeTypes
<1>8. CASE \/ Reset \/ Observe \/ ConcludeCall
           \/ RecordCheckpoint \/ RecordSubmitted \/ RecordVerification
  <2>1. \/ UNCHANGED episode
        \/ episode' = [status |-> "active", task |-> bundle.manifest, submission |-> 0]
    BY <1>8 DEF Reset, Observe, ConcludeCall, RecordCheckpoint, RecordSubmitted, RecordVerification
  <2>2. /\ server' \in {server, "idle", "checkpointed", "submitted"}
        /\ UNCHANGED <<driver, bundle, work, snapshots, client, grading, record>>
    BY <1>8 DEF Reset, Observe, ConcludeCall, RecordCheckpoint, RecordSubmitted,
      RecordVerification, serverVars, runnerVars
  <2>3. QED
    BY <1>1, <1>2, <2>1, <2>2 DEF EpisodeTypes, Submitting
<1>9. CASE CopyCheckpoint
  <2>1. work \in Saved /\ snapshots \in Seq(Saved) /\ snapshots' = Append(snapshots, work)
    BY <1>1, <1>9 DEF CopyCheckpoint, EpisodeTypes, RecordInv, Saved
  <2>2. QED
    BY <1>1, <1>9, <2>1 DEF CopyCheckpoint, runnerVars, EpisodeTypes, Submitting
<1>10. CASE WriteSubmission
  <2>1. PICK n \in Nat : n = Len(snapshots)
    BY <1>1 DEF EpisodeTypes
  <2>2. episode' = [episode EXCEPT !.status = "submitted", !.submission = n]
    BY <1>10, <2>1 DEF WriteSubmission
  <2>3. episode' \in [status : {"absent", "active", "submitted"}, task : Nat, submission : Nat]
    BY <1>1, <2>2 DEF EpisodeTypes
  <2>4. QED
    BY <1>1, <1>10, <2>3 DEF WriteSubmission, runnerVars, EpisodeTypes
<1>11. CASE Grade
  <2>1. grading' \in [passed : Outcomes \union {"none"}, of : Nat,
                      content : Saved \union {"none"}, task : Nat]
    <3>1. CASE SubmissionIsSound
      <4>1. episode.submission \in DOMAIN snapshots /\ episode.submission \in Nat /\ episode.task \in Nat
        BY <1>1, <3>1 DEF SubmissionIsSound, RecordInv, EpisodeTypes
      <4>2. snapshots[episode.submission] \in Saved
        BY <1>1, <4>1 DEF EpisodeTypes
      <4>3. PICK judgement \in Outcomes : judgement = Judged(bundle.assets, snapshots[episode.submission])
        BY JudgedIs
      <4>4. grading' = [passed |-> judgement, of |-> episode.submission,
                        content |-> snapshots[episode.submission], task |-> episode.task]
        BY <1>11, <3>1, <4>3 DEF Grade
      <4>5. QED
        BY <4>1, <4>2, <4>4
    <3>2. QED
      BY <1>1, <1>11, <3>1 DEF Grade, EpisodeTypes
  <2>2. QED
    BY <1>1, <1>11, <2>1 DEF Grade, taskVars, serverVars, EpisodeTypes
<1>12. CASE Tamper
  <2>1. bundle' \in [manifest : Nat, assets : Nat]
    BY <1>1, <1>12 DEF Tamper, EpisodeTypes
  <2>2. snapshots' = snapshots \/ \E k \in DOMAIN snapshots : snapshots' = [snapshots EXCEPT ![k] = "tampered"]
    BY <1>12 DEF Tamper
  <2>3. snapshots' \in Seq(Saved)
    <3>1. snapshots \in Seq(Saved) /\ "tampered" \in Saved
      BY <1>1 DEF EpisodeTypes, Saved
    <3>2. QED
      BY ONLY <2>2, <3>1
  <2>4. QED
    BY <1>1, <1>12, <2>1, <2>3 DEF Tamper, serverVars, runnerVars, EpisodeTypes
<1>13. QED
  BY <1>3, <1>4, <1>5, <1>6, <1>7, <1>8, <1>9, <1>10, <1>11, <1>12
     DEF EpisodeNext

\* A record of events only grows.
LEMMA RecordGrows ==
  ASSUME EpisodeInv, [EpisodeNext]_episodeVars
  PROVE  /\ \A first, second : Before(first, second) => Before(first, second)'
         /\ \A first : first \in Range(events) => first \in Range(events')
<1>1. EpisodeTypes
  BY DEF EpisodeInv
<1>2. CASE UNCHANGED events
  BY <1>2 DEF Before, Range
<1>3. CASE \E type, n : AppendEvent(type, n)
  BY <1>1, <1>3, OrderStays
<1>4. QED
  BY <1>2, <1>3, WhoRecords

\* Who moves the process that serves the tools.
LEMMA WhoServes ==
  ASSUME EpisodeInv, [EpisodeNext]_episodeVars
  PROVE  /\ \/ server' \in {"off", "idle", "acting"}
            \/ UNCHANGED server
            \/ WriteAnswer \/ CopyCheckpoint \/ RecordCheckpoint \/ RecordSubmitted
         /\ work' = work \/ work' \in Contents
<1>1. CASE UNCHANGED episodeVars
  BY <1>1 DEF episodeVars, taskVars, serverVars
<1>2. CASE WriteAssets \/ SealBundle \/ CallRaises \/ BeginAction \/ ActionWrites \/ ActionReturns
  BY <1>2 DEF WriteAssets, SealBundle, CallRaises, BeginAction, ActionWrites, ActionReturns,
    taskVars, serverVars, Contents
<1>3. CASE ContainerEnds \/ WriteAnswer \/ StartServer \/ ServerStops \/ ServerDies
  BY <1>3 DEF ContainerEnds, WriteAnswer, StartServer, ServerStops, ServerDies, CutShort, taskVars,
    serverVars, Contents
<1>4. CASE ClientLeaves \/ StartClient \/ KillClient \/ RunnerDies \/ ReadOutcome \/ ExportRun
  BY <1>4 DEF ClientLeaves, StartClient, KillClient, RunnerDies, ReadOutcome, ExportRun, CutShort,
    taskVars, serverVars
<1>5. CASE WriteOutcome \/ Grade \/ Reset \/ Observe \/ ConcludeCall \/ RecordVerification
  BY <1>5 DEF WriteOutcome, Grade, Reset, Observe, ConcludeCall, RecordVerification, taskVars,
    serverVars
<1>6. CASE \/ RecordCheckpoint \/ RecordSubmitted \/ CopyCheckpoint \/ WriteSubmission \/ Tamper
  BY <1>6 DEF RecordCheckpoint, RecordSubmitted, CopyCheckpoint, WriteSubmission, Tamper, serverVars
<1>7. QED
  BY <1>1, <1>2, <1>3, <1>4, <1>5, <1>6 DEF EpisodeNext

LEMMA RecordKept ==
  ASSUME EpisodeInv, [EpisodeNext]_episodeVars
  PROVE  RecordInv'
<1>1. EpisodeTypes /\ RecordInv /\ EpisodeTypes'
  BY EpisodeTypesKept DEF EpisodeInv
<1>2. /\ \A first, second : Before(first, second) => Before(first, second)'
      /\ \A first : first \in Range(events) => first \in Range(events')
  BY RecordGrows
<1>3. Len(snapshots) \in Nat /\ DOMAIN snapshots = 1..Len(snapshots)
  BY <1>1 DEF EpisodeTypes
<1>4. \A j \in DOMAIN events' : events'[j][1] = "conclusion" =>
        \E i \in DOMAIN events' : i < j /\ events'[i] = <<"observation", events'[j][2]>>
  <2>1. \A j \in DOMAIN events : events[j][1] = "conclusion" =>
          \E i \in DOMAIN events : i < j /\ events[i] = <<"observation", events[j][2]>>
    BY <1>1 DEF RecordInv
  <2>2. CASE UNCHANGED events
    BY <2>1, <2>2
  <2>3. CASE \E type \in EventTypes \ {"conclusion"}, n \in Nat : AppendEvent(type, n)
    BY <1>1, <2>1, <2>3, GroundStays
  <2>4. CASE \E n \in Recorded("observation") : AppendEvent("conclusion", n)
    <3>1. PICK n \in Recorded("observation") : AppendEvent("conclusion", n)
      BY <2>4
    <3>2. <<"observation", n>> \in Range(events)
      BY DEF Recorded
    <3>3. QED
      BY <1>1, <2>1, <3>1, <3>2, GroundStays
  <2>5. QED
    BY <2>2, <2>3, <2>4, WhoRecords
<1>5. CASE server' \in Submitting
  <2>1. CASE WriteAnswer
    BY <1>1, <1>4, <1>5, <2>1
       DEF WriteAnswer, RecordInv, EpisodeActive, Submitting
  <2>2. CASE CopyCheckpoint
    <3>1. /\ server' = "copied" /\ UNCHANGED episode /\ EpisodeActive
          /\ snapshots' = Append(snapshots, work)
      BY <1>1, <1>5, <2>2 DEF CopyCheckpoint, RecordInv, EpisodeActive, Submitting
    <3>2. Len(snapshots') = Len(snapshots) + 1
      BY <1>1, <3>1 DEF EpisodeTypes
    <3>3. QED
      BY <1>3, <1>4, <3>1, <3>2 DEF RecordInv, EpisodeActive
  <2>3. CASE RecordCheckpoint
    <3>1. /\ server = "copied" /\ server' = "checkpointed" /\ UNCHANGED <<episode, snapshots>>
          /\ AppendEvent("checkpoint", Len(snapshots))
      BY <2>3 DEF RecordCheckpoint
    <3>2. EpisodeActive /\ Len(snapshots) # 0
      BY <1>1, <3>1 DEF RecordInv, Submitting
    <3>3. <<"checkpoint", Len(snapshots)>> \in Range(events')
      BY <1>1, <3>1, OrderStays
    <3>4. QED
      BY <1>4, <3>1, <3>2, <3>3 DEF RecordInv, EpisodeActive
  <2>4. CASE RecordSubmitted
    <3>1. /\ server = "checkpointed" /\ server' = "submitted" /\ UNCHANGED <<episode, snapshots>>
          /\ AppendEvent("submitted", Len(snapshots))
      BY <2>4 DEF RecordSubmitted
    <3>2. /\ EpisodeActive /\ Len(snapshots) # 0
          /\ <<"checkpoint", Len(snapshots)>> \in Range(events)
      BY <1>1, <3>1 DEF RecordInv, Submitting
    <3>3. PICK n \in Nat : n = Len(snapshots)
      BY <1>3
    <3>4. Before(<<"checkpoint", n>>, <<"submitted", n>>)'
      BY <1>1, <3>1, <3>2, <3>3, OrderStays
    <3>5. Before(<<"checkpoint", Len(snapshots)>>, <<"submitted", Len(snapshots)>>)'
      BY <3>1, <3>3, <3>4 DEF Before
    <3>6. QED
      BY <1>4, <3>1, <3>2, <3>5 DEF RecordInv, EpisodeActive
  <2>5. CASE UNCHANGED server
    <3>1. server \in Submitting /\ ~WriteSubmission /\ ~CopyCheckpoint
      BY <1>5, <2>5 DEF WriteSubmission, CopyCheckpoint, Submitting
    <3>2. Len(snapshots') = Len(snapshots)
      BY <3>1, WhoRecords
    <3>3. EpisodeActive'
      BY <1>1, <3>1, WhoRecords DEF RecordInv, EpisodeActive
    <3>4. server' = "answered" => work' # "none"
      BY <1>1, <2>5, WhoServes DEF RecordInv, Contents
    <3>5. PICK n \in Nat : n = Len(snapshots)
      BY <1>3
    <3>6. server = "submitted" => Before(<<"checkpoint", n>>, <<"submitted", n>>)'
      BY <1>1, <1>2, <3>5 DEF RecordInv
    <3>7. (server = "submitted")' =>
            Before(<<"checkpoint", Len(snapshots)>>, <<"submitted", Len(snapshots)>>)'
      BY <2>5, <3>2, <3>5, <3>6 DEF Before
    <3>8. /\ server' = "checkpointed" => <<"checkpoint", Len(snapshots')>> \in Range(events')
          /\ server' \in Submitting \ {"answered"} => Len(snapshots') # 0
      BY <1>1, <1>2, <2>5, <3>2 DEF RecordInv
    <3>9. QED
      BY <1>4, <3>3, <3>4, <3>7, <3>8 DEF RecordInv, EpisodeActive
  <2>6. QED
    BY <1>5, <2>1, <2>2, <2>3, <2>4, <2>5, WhoServes DEF Submitting
<1>6. CASE server' \notin Submitting
  <2>1. ASSUME (episode.status = "submitted")'
        PROVE  /\ (episode.submission \in DOMAIN snapshots)'
               /\ Before(<<"checkpoint", episode.submission>>, <<"submitted", episode.submission>>)'
    <3>1. CASE UNCHANGED episode
      <4>1. PICK n : n = episode.submission
        OBVIOUS
      <4>2. n \in DOMAIN snapshots /\ Before(<<"checkpoint", n>>, <<"submitted", n>>)'
        BY <1>1, <1>2, <2>1, <3>1, <4>1 DEF RecordInv
      <4>3. n \in DOMAIN snapshots'
        <5>1. snapshots \in Seq(Saved)
          BY <1>1 DEF EpisodeTypes
        <5>2. \/ DOMAIN snapshots' = DOMAIN snapshots
              \/ snapshots' = Append(snapshots, work)
          BY WhoRecords
        <5>3. QED
          BY ONLY <4>2, <5>1, <5>2
      <4>4. QED
        BY <3>1, <4>1, <4>2, <4>3 DEF Before
    <3>2. CASE WriteSubmission
      <4>1. PICK n \in Nat : n = Len(snapshots)
        BY <1>3
      <4>2. /\ episode' = [episode EXCEPT !.status = "submitted", !.submission = n]
            /\ server = "submitted" /\ UNCHANGED snapshots
        BY <3>2, <4>1 DEF WriteSubmission
      <4>3. episode'.submission = n
        BY <1>1, <4>2 DEF EpisodeTypes
      <4>4. Before(<<"checkpoint", n>>, <<"submitted", n>>)' /\ n # 0
        BY <1>1, <1>2, <4>1, <4>2 DEF RecordInv, Submitting
      <4>5. QED
        BY <1>3, <4>1, <4>2, <4>3, <4>4 DEF Before
    <3>3. QED
      BY <2>1, <3>1, <3>2, WhoRecords
  <2>2. QED
    BY <1>4, <1>6, <2>1 DEF RecordInv, Submitting
<1>7. QED
  BY <1>5, <1>6

-----------------------------------------------------------------------------
(* The episode: its verdict and what is reported of it *)

\* Steps of the runner, its client and the export; the others leave what they write alone.
RunnerSteps ==
  \/ Reset \/ StartClient \/ ClientLeaves \/ KillClient \/ RunnerDies \/ ReadOutcome
  \/ Grade \/ RecordVerification \/ WriteOutcome \/ ExportRun

LEMMA WhoRuns ==
  ASSUME EpisodeInv, [EpisodeNext]_episodeVars
  PROVE  /\ UNCHANGED <<runnerVars, exported>> \/ RunnerSteps
         /\ server = "off" /\ client # "running" /\ runner # "start" => server' = "off"
<1>1. CASE RunnerSteps
  BY <1>1 DEF RunnerSteps, Reset, StartClient, ClientLeaves, KillClient, RunnerDies, ReadOutcome,
    Grade, RecordVerification, WriteOutcome, ExportRun, serverVars
<1>2. CASE UNCHANGED episodeVars
  BY <1>2 DEF episodeVars, serverVars
<1>3. CASE WriteAssets \/ SealBundle \/ CallRaises \/ BeginAction \/ ActionWrites \/ ActionReturns
  BY <1>3 DEF WriteAssets, SealBundle, CallRaises, BeginAction, ActionWrites, ActionReturns, MayCall,
    serverVars
<1>4. CASE ContainerEnds \/ WriteAnswer \/ StartServer \/ ServerStops \/ ServerDies
  BY <1>4 DEF ContainerEnds, WriteAnswer, StartServer, ServerStops, ServerDies, MayCall
<1>5. CASE Observe \/ ConcludeCall
  BY <1>5 DEF Observe, ConcludeCall, MayCall
<1>6. CASE RecordCheckpoint \/ RecordSubmitted \/ CopyCheckpoint \/ WriteSubmission \/ Tamper
  BY <1>6 DEF RecordCheckpoint, RecordSubmitted, CopyCheckpoint, WriteSubmission, Tamper, serverVars
<1>7. QED
  BY <1>1, <1>2, <1>3, <1>4, <1>5, <1>6 DEF EpisodeNext, RunnerSteps

\* A submission is final, and nothing is submitted once the client was killed.
LEMMA SubmissionStays ==
  ASSUME EpisodeInv, [EpisodeNext]_episodeVars
  PROVE  /\ episode.status = "submitted" =>
              /\ episode' = episode
              /\ \A k \in DOMAIN snapshots : snapshots'[k] \in {snapshots[k], "tampered"}
         /\ client = "killed" /\ episode.status # "submitted" => episode'.status # "submitted"
         /\ runner = "start" => episode'.status # "submitted"
<1>1. EpisodeTypes /\ RecordInv /\ RunnerInv
  BY DEF EpisodeInv
<1>2. WriteSubmission => server = "submitted" /\ EpisodeActive
  BY <1>1 DEF WriteSubmission, RecordInv, Submitting
<1>3. CopyCheckpoint => EpisodeActive
  BY <1>1 DEF CopyCheckpoint, RecordInv, Submitting
<1>4. Reset => runner = "start"
  BY DEF Reset
<1>5. QED
  BY <1>1, <1>2, <1>3, <1>4, WhoRecords DEF RunnerInv, EpisodeActive

LEMMA RunnerKept ==
  ASSUME EpisodeInv, [EpisodeNext]_episodeVars
  PROVE  RunnerInv'
<1>1. EpisodeTypes /\ RunnerInv /\ VerdictIsEarned
  BY DEF EpisodeInv
<1>2. CASE UNCHANGED <<runnerVars, exported>>
  <2>1. UNCHANGED <<runner, client, grading>>
    BY <1>2 DEF runnerVars
  <2>2. runner = "start" => episode'.status = "absent"
    <3>1. ~Reset
      BY <2>1 DEF Reset
    <3>2. runner = "start" => UNCHANGED episode
      BY <1>1, <3>1, WhoRecords DEF WriteSubmission, EpisodeInv, RecordInv, EpisodeActive, Submitting,
        RunnerInv
    <3>3. QED
      BY <1>1, <3>2 DEF RunnerInv
  <2>3. client = "killed" => server' = "off"
    BY <1>1, WhoRuns DEF RunnerInv
  <2>4. QED
    BY <1>1, <2>1, <2>2, <2>3, SubmissionStays DEF RunnerInv
<1>3. CASE Reset \/ StartClient
  BY <1>1, <1>3 DEF Reset, StartClient, taskVars, serverVars, RunnerInv
<1>4. CASE ClientLeaves \/ RunnerDies \/ ExportRun
  BY <1>1, <1>4 DEF ClientLeaves, RunnerDies, ExportRun, CutShort, taskVars, serverVars, runnerVars,
    RunnerInv
<1>5. CASE KillClient
  BY <1>1, <1>5 DEF KillClient, CutShort, RunnerInv
<1>6. CASE ReadOutcome
  BY <1>1, <1>6 DEF ReadOutcome, taskVars, serverVars, RunnerInv
<1>7. CASE Grade
  <2>1. CASE SubmissionIsSound
    <3>1. grading'.passed = Judged(bundle.assets, snapshots[episode.submission])
          /\ runner' = "recording"
      BY <1>7, <2>1 DEF Grade
    <3>2. grading'.passed # "none"
      BY <3>1, JudgedIs DEF Outcomes
    <3>3. QED
      BY <1>1, <1>7, <3>1, <3>2 DEF Grade, taskVars, serverVars, RunnerInv
  <2>2. CASE ~SubmissionIsSound
    BY <1>1, <1>7, <2>2 DEF Grade, taskVars, serverVars, RunnerInv
  <2>3. QED
    BY <2>1, <2>2
<1>8. CASE RecordVerification \/ WriteOutcome
  BY <1>1, <1>8 DEF RecordVerification, WriteOutcome, taskVars, serverVars, RunnerInv
<1>9. QED
  BY <1>2, <1>3, <1>4, <1>5, <1>6, <1>7, <1>8, WhoRuns DEF RunnerSteps

LEMMA VerdictKept ==
  ASSUME EpisodeInv, [EpisodeNext]_episodeVars
  PROVE  /\ VerdictIsEarned'
         /\ grading.passed # "none" => grading' = grading
         /\ grading'.passed # "none" => grading'.content # "none"
<1>1. EpisodeTypes /\ RecordInv /\ RunnerInv /\ VerdictIsEarned /\ ReportInv
  BY DEF EpisodeInv
<1>2. CASE Grade /\ SubmissionIsSound
  <2>1. PICK n \in Nat, content \in Saved, task \in Nat :
          n = episode.submission /\ content = snapshots[n] /\ task = episode.task
    <3>1. episode.submission \in DOMAIN snapshots
      BY <1>1, <1>2 DEF SubmissionIsSound, RecordInv
    <3>2. snapshots[episode.submission] \in Saved /\ episode.submission \in Nat /\ episode.task \in Nat
      BY <1>1, <3>1 DEF EpisodeTypes
    <3>3. QED
      BY <3>2
  <2>2. /\ content # "tampered" /\ bundle.assets = task /\ episode.status = "submitted"
        /\ runner = "judging"
    BY <1>2, <2>1 DEF Grade, SubmissionIsSound, TaskIsBound, BundleIsValid
  <2>3. PICK judgement : judgement = Judged(task, content)
    OBVIOUS
  <2>4. grading' = [passed |-> judgement, of |-> n, content |-> content, task |-> task]
    BY <1>2, <2>1, <2>2, <2>3 DEF Grade
  <2>5. UNCHANGED <<episode, snapshots>>
    BY <1>2 DEF Grade, taskVars
  <2>6. /\ grading'.passed = Judged(task, content) /\ grading'.of = n
        /\ grading'.content = content /\ grading'.task = task
    BY <2>3, <2>4
  <2>7. VerdictIsEarned'
    BY <2>1, <2>2, <2>5, <2>6 DEF VerdictIsEarned
  <2>8. grading.passed = "none"
    BY <1>1, <2>2 DEF RunnerInv
  <2>9. grading'.content # "none"
    BY <2>1, <2>6 DEF Saved, Contents
  <2>10. QED
    BY <2>7, <2>8, <2>9
<1>3. CASE ~(Grade /\ SubmissionIsSound)
  <2>1. UNCHANGED grading
    BY <1>3, WhoRuns DEF runnerVars, RunnerSteps, Reset, StartClient, ClientLeaves, KillClient,
      RunnerDies, ReadOutcome, Grade, RecordVerification, WriteOutcome, ExportRun
  <2>2. CASE grading.passed = "none"
    BY <2>1, <2>2 DEF VerdictIsEarned
  <2>3. CASE grading.passed # "none"
    <3>1. /\ episode.status = "submitted" /\ episode' = episode
          /\ grading.of \in DOMAIN snapshots
      BY <1>1, <2>3, SubmissionStays DEF VerdictIsEarned, RecordInv
    <3>2. snapshots'[grading.of] \in {snapshots[grading.of], "tampered"}
      BY <3>1, SubmissionStays
    <3>3. QED
      BY <1>1, <2>1, <2>3, <3>1, <3>2 DEF VerdictIsEarned, ReportInv
  <2>4. QED
    BY <2>2, <2>3
<1>4. QED
  BY <1>2, <1>3

LEMMA ReportKept ==
  ASSUME EpisodeInv, [EpisodeNext]_episodeVars
  PROVE  /\ ReportInv'
         /\ record.status \notin {"absent", "running"} => record' = record
<1>1. EpisodeTypes /\ RecordInv /\ RunnerInv /\ VerdictIsEarned /\ ReportInv
  BY DEF EpisodeInv
<1>2. ASSUME UNCHANGED <<client, record, exported>>, runner = "done" => runner' = "done",
             grading.passed \in {"yes", "no"} => grading' = grading
      PROVE  ReportInv' /\ record' = record
  BY <1>1, <1>2, SubmissionStays, VerdictKept DEF ReportInv
<1>3. grading.passed \in {"yes", "no"} => grading' = grading
  BY VerdictKept
<1>4. CASE UNCHANGED <<runnerVars, exported>>
  BY <1>2, <1>3, <1>4 DEF runnerVars
<1>5. CASE Reset \/ RunnerDies \/ ReadOutcome \/ Grade \/ RecordVerification
  BY <1>2, <1>3, <1>5 DEF Reset, RunnerDies, ReadOutcome, Grade, RecordVerification
<1>6. CASE ClientLeaves \/ KillClient
  <2>1. client # "killed" /\ UNCHANGED <<record, exported, runner, grading>>
    BY <1>6 DEF ClientLeaves, KillClient
  <2>2. QED
    BY <1>1, <2>1 DEF ReportInv
<1>7. CASE StartClient
  <2>1. /\ runner = "preparing" /\ record' = [record EXCEPT !.status = "running"]
        /\ UNCHANGED <<exported, grading>>
    BY <1>7 DEF StartClient
  <2>2. record'.status = "running" /\ record'.passed = record.passed
    BY <1>1, <2>1 DEF EpisodeTypes
  <2>3. QED
    BY <1>1, <2>1, <2>2 DEF ReportInv
<1>8. CASE WriteOutcome
  <2>1. runner = "concluding" /\ UNCHANGED <<client, grading, exported, episode>>
    BY <1>8 DEF WriteOutcome, taskVars
  <2>2. CASE UNCHANGED record
    BY <1>1, <2>1, <2>2 DEF ReportInv
  <2>3. CASE runner' = "done" /\ record' = OutcomeOfRun
    <3>1. grading.passed \in Outcomes \union {"none"}
      BY <1>1 DEF EpisodeTypes
    <3>2. /\ OutcomeOfRun.status = "timeout" => grading.passed = "none" /\ client = "killed"
          /\ OutcomeOfRun.status = "graded" => OutcomeOfRun.passed \in {"yes", "no"}
          /\ OutcomeOfRun.passed \in {"yes", "no"} => OutcomeOfRun.passed = grading.passed
      BY <3>1 DEF OutcomeOfRun, Outcomes
    <3>3. record.status \in {"absent", "running"}
      BY <1>1, <2>1 DEF ReportInv
    <3>4. QED
      BY <1>1, <2>1, <2>3, <3>2, <3>3 DEF ReportInv, RunnerInv
  <2>4. QED
    BY <1>8, <2>2, <2>3 DEF WriteOutcome
<1>9. CASE ExportRun
  <2>1. UNCHANGED <<client, record, runner, grading, episode>>
    BY <1>9 DEF ExportRun, taskVars, runnerVars
  <2>2. /\ exported'.passed = record.passed
        /\ exported'.answer = IF episode.status = "submitted" THEN snapshots[episode.submission]
                              ELSE "none"
        /\ episode.status = "submitted" => snapshots[episode.submission] # "tampered"
    BY <1>9 DEF ExportRun
  <2>3. record.passed \in {"yes", "no"} =>
          record.passed = grading.passed /\ exported'.answer = grading.content
    BY <1>1, <2>2 DEF ReportInv, VerdictIsEarned
  <2>4. QED
    BY <1>1, <2>1, <2>2, <2>3 DEF ReportInv
<1>10. QED
  BY <1>4, <1>5, <1>6, <1>7, <1>8, <1>9, WhoRuns DEF RunnerSteps

-----------------------------------------------------------------------------
(* The episode: the theorems *)

\* Every state of an episode, whatever dies, is cut short or is tampered with, satisfies the
\* inductive invariant.
THEOREM EpisodeInvariance == EpisodeSpec => []EpisodeInv
<1>1. EpisodeInv /\ [EpisodeNext]_episodeVars => EpisodeInv'
  BY EpisodeTypesKept, RecordKept, RunnerKept, VerdictKept, ReportKept DEF EpisodeInv
<1>2. QED
  BY <1>1, EpisodeStarts, PTL DEF EpisodeSpec

\* An episode is graded for what its agent submitted, of the task it was given, and what is
\* reported of it is that verdict, for any numbers of calls, processes and changed files.
THEOREM HonestEpisode == EpisodeSpec => []EpisodeIsHonest
<1>1. EpisodeInv => EpisodeIsHonest
  <2>1. SUFFICES ASSUME EpisodeInv PROVE EpisodeIsHonest
    OBVIOUS
  <2>2. EpisodeTypes /\ RecordInv /\ VerdictIsEarned /\ ReportInv
    BY <2>1 DEF EpisodeInv
  <2>3. EventsAreGrounded
    <3>1. ASSUME NEW n \in Recorded("conclusion")
          PROVE  Before(<<"observation", n>>, <<"conclusion", n>>)
      <4>1. PICK j \in DOMAIN events : events[j] = <<"conclusion", n>>
        BY DEF Recorded, Range
      <4>2. PICK i \in DOMAIN events : i < j /\ events[i] = <<"observation", events[j][2]>>
        BY <2>2, <4>1 DEF RecordInv
      <4>3. QED
        BY <4>1, <4>2 DEF Before
    <3>2. QED
      BY <2>2, <3>1 DEF EventsAreGrounded, RecordInv
  <2>4. RecordIsBacked
    BY <2>2 DEF RecordIsBacked, ReportInv
  <2>5. grading.passed \in {"yes", "no"} => grading.content # "none"
    BY <2>2 DEF ReportInv
  <2>6. RowIsBacked
    <3>1. RawOutcome \in {"agree", "disagree"} =>
            /\ RawOutcome = (IF grading.passed = "yes" THEN "agree" ELSE "disagree")
            /\ exported.answer = grading.content /\ exported.answer # "none"
      BY <2>2, <2>5 DEF RawOutcome, ReportInv
    <3>2. ASSUME NEW people \in SUBSET Overrides, NEW assessment \in {"none", "agree", "disagree"},
                 Collected(people, assessment, "second") \in {"agree", "disagree"}
          PROVE  exported.answer # "none"
      <4>1. SUFFICES ASSUME exported.answer = "none" PROVE FALSE
        OBVIOUS
      <4>2. CASE people # {} \/ assessment # "none"
        BY <3>2, <4>1, <4>2 DEF Collected
      <4>3. CASE people = {} /\ assessment = "none"
        <5>1. Collected(people, assessment, "second") = RawOutcome
          BY <4>3 DEF Collected
        <5>2. QED
          BY <3>1, <3>2, <4>1, <5>1
      <4>4. QED
        BY <4>2, <4>3
    <3>3. QED
      BY <3>1, <3>2 DEF RowIsBacked
  <2>7. QED
    BY <2>2, <2>3, <2>4, <2>6 DEF EpisodeIsHonest
<1>2. QED
  BY <1>1, EpisodeInvariance, PTL

\* What an episode has recorded, its submission, its verdict and its end are never changed.
THEOREM LastingEpisode == EpisodeSpec => EpisodeLasts
<1>1. EpisodeInv /\ [EpisodeNext]_episodeVars =>
        [ /\ IsPrefix(events, events')
          /\ episode.status = "submitted" => episode' = episode
          /\ grading.passed # "none" => grading' = grading
          /\ record.status \notin {"absent", "running"} => record' = record ]_episodeVars
  <2>1. SUFFICES ASSUME EpisodeInv, [EpisodeNext]_episodeVars
                 PROVE  /\ IsPrefix(events, events')
                        /\ episode.status = "submitted" => episode' = episode
                        /\ grading.passed # "none" => grading' = grading
                        /\ record.status \notin {"absent", "running"} => record' = record
    OBVIOUS
  <2>2. EpisodeTypes /\ EpisodeTypes'
    BY <2>1, EpisodeTypesKept DEF EpisodeInv
  <2>3. UNCHANGED events \/ \E type, n : AppendEvent(type, n)
    BY <2>1, WhoRecords
  <2>4. IsPrefix(events, events')
    <3>1. /\ events \in Seq(EventTypes \X Nat) /\ events' \in Seq(EventTypes \X Nat)
          /\ Len(events) <= Len(events')
          /\ \A i \in 1..Len(events) : events'[i] = events[i]
      <4>1. events \in Seq(EventTypes \X Nat) /\ events' \in Seq(EventTypes \X Nat)
        BY <2>2 DEF EpisodeTypes
      <4>2. Len(events) \in Nat /\ DOMAIN events = 1..Len(events)
        BY <4>1
      <4>3. CASE UNCHANGED events
        BY <4>1, <4>2, <4>3
      <4>4. CASE \E type, n : AppendEvent(type, n)
        BY <2>2, <4>1, <4>2, <4>4, EventsGrow
      <4>5. QED
        BY <2>3, <4>3, <4>4
    <3>2. SubSeq(events, 1, Len(events)) = SubSeq(events', 1, Len(events))
      BY <3>1
    <3>3. QED
      BY <3>1, <3>2 DEF IsPrefix
  <2>5. QED
    BY <2>1, <2>4, SubmissionStays, VerdictKept, ReportKept
<1>2. QED
  BY <1>1, EpisodeInvariance, PTL DEF EpisodeSpec, EpisodeLasts

-----------------------------------------------------------------------------
(* The artifacts: types and the invariant *)

Calls ==
  [at : {"off", "looking", "opening", "copying", "moving", "appending"},
   id : ArtifactIds \union {Missing}, digest : Bodies \union {Missing},
   writes : {Missing, "temporary", "stored"}]

ArtifactTypes ==
  /\ sourceOf \in [ArtifactIds -> Bodies]
  /\ temporary \in [Bodies -> Bodies \union {Missing, Damaged}]
  /\ stored \in [Bodies -> Bodies \union {Missing, Damaged}]
  /\ registrar \in [Registrars -> Calls]
  /\ \A r \in Registrars : Call(r).at # "off" => Call(r).id \in ArtifactIds /\ Digest(r) \in Bodies
  /\ \A r \in Registrars : Call(r).at = "copying" <=> Call(r).writes # Missing

Copies(r) == Call(r).at \in {"copying", "moving"}

\* A content that was not disturbed is copied by one registrar at a time, into the temporary
\* file, from a source that still holds it.
Undisturbed(r) ==
  LET c == Digest(r)
  IN  /\ Copies(r) => \A other \in Registrars : Digest(other) = c /\ Copies(other) => other = r
      /\ Call(r).at \in {"looking", "opening", "copying"} => sourceOf[Call(r).id] = c
      /\ Call(r).writes # "stored"
      /\ Call(r).at = "moving" => temporary[c] = c

CopyInv ==
  /\ \A r \in Registrars : Call(r).at # "off" /\ Digest(r) \notin disturbed => Undisturbed(r)
  /\ \A r \in Registrars : Call(r).at = "appending" => stored[Digest(r)] # Missing
  /\ \A event \in registered : event.digest \in Bodies

ArtifactInv == ArtifactTypes /\ CopyInv /\ ArtifactsAreTheirDigest

LEMMA ArtifactStarts == ArtifactInit => ArtifactInv
<1>1. SUFFICES ASSUME ArtifactInit PROVE ArtifactInv
  OBVIOUS
<1>2. ArtifactTypes
  BY <1>1 DEF ArtifactInit, ArtifactTypes, Calls, NoCall, Call, Digest, Missing
<1>3. CopyInv /\ ArtifactsAreTheirDigest
  BY <1>1 DEF ArtifactInit, CopyInv, ArtifactsAreTheirDigest, NoCall, Call
<1>4. QED
  BY <1>2, <1>3 DEF ArtifactInv

-----------------------------------------------------------------------------
(* The artifacts: the steps *)

\* A registrar that copies nothing goes on to something else that copies nothing.
LEMMA StepsAside ==
  ASSUME ArtifactInv, NEW r \in Registrars, NEW new \in Calls,
         registrar' = [registrar EXCEPT ![r] = new],
         UNCHANGED <<sourceOf, temporary, stored, disturbed>>,
         new.at \notin {"copying", "moving"}, new.writes = Missing,
         new.at # "off" => new.id \in ArtifactIds /\ new.digest \in Bodies,
         new.at \in {"looking", "opening"} /\ new.digest \notin disturbed =>
           sourceOf[new.id] = new.digest,
         new.at = "appending" => stored[new.digest] # Missing,
         \A event \in registered' : \/ event \in registered
                                    \/ /\ event.digest \in Bodies /\ stored[event.digest] # Missing
                                       /\ event.digest \notin disturbed => event.size = event.digest
  PROVE  ArtifactInv'
<1>1. ArtifactTypes /\ CopyInv /\ ArtifactsAreTheirDigest
  BY DEF ArtifactInv
<1>2. /\ registrar' \in [Registrars -> Calls] /\ registrar'[r] = new
      /\ \A s \in Registrars \ {r} : registrar'[s] = registrar[s]
  BY <1>1 DEF ArtifactTypes
<1>3. ArtifactTypes'
  BY <1>1, <1>2 DEF ArtifactTypes, Call, Digest
<1>4. ASSUME NEW s \in Registrars, (Call(s).at # "off")', Digest(s)' \notin disturbed'
      PROVE  Undisturbed(s)'
  <2>1. CASE s = r
    BY <1>2, <1>4, <2>1 DEF Undisturbed, Copies, Call, Digest, Missing
  <2>2. CASE s # r
    <3>1. Undisturbed(s)
      BY <1>1, <1>2, <1>4, <2>2 DEF CopyInv, Call, Digest
    <3>2. QED
      BY <1>2, <2>2, <3>1 DEF Undisturbed, Copies, Call, Digest
  <2>3. QED
    BY <2>1, <2>2
<1>5. CopyInv'
  BY <1>1, <1>2, <1>4 DEF CopyInv, Call, Digest
<1>6. ArtifactsAreTheirDigest'
  BY <1>1 DEF ArtifactsAreTheirDigest, CopyInv
<1>7. QED
  BY <1>3, <1>5, <1>6 DEF ArtifactInv

LEMMA CallIs ==
  ASSUME ArtifactInv, NEW r \in Registrars, Call(r).at # "off"
  PROVE  /\ registrar[r] \in Calls /\ Call(r).id \in ArtifactIds /\ Digest(r) \in Bodies
         /\ Call(r).digest = Digest(r)
         /\ Digest(r) \notin disturbed => Undisturbed(r)
         /\ Call(r).at # "copying" => Call(r).writes = Missing
BY DEF ArtifactInv, ArtifactTypes, CopyInv, Call, Digest

LEMMA GivesUp ==
  ASSUME ArtifactInv, NEW r \in Registrars, Raises(r),
         UNCHANGED <<sourceOf, temporary, stored, registered, disturbed>>
  PROVE  ArtifactInv'
<1>1. NoCall \in Calls /\ NoCall.at = "off" /\ NoCall.writes = Missing
  BY DEF NoCall, Calls
<1>2. QED
  BY <1>1, StepsAside DEF Raises

LEMMA HashKeeps ==
  ASSUME ArtifactInv, NEW r \in Registrars, NEW id \in ArtifactIds, HashSource(r, id)
  PROVE  ArtifactInv'
<1>1. PICK c \in Bodies : c = sourceOf[id]
  BY DEF ArtifactInv, ArtifactTypes
<1>2. PICK new \in Calls : new = [at |-> "looking", id |-> id, digest |-> c, writes |-> Missing]
  BY DEF Calls
<1>3. /\ registrar' = [registrar EXCEPT ![r] = new]
      /\ UNCHANGED <<sourceOf, temporary, stored, registered, disturbed>>
  BY <1>1, <1>2 DEF HashSource
<1>4. /\ new.at = "looking" /\ new.id = id /\ new.digest = c /\ new.writes = Missing
  BY <1>2
<1>5. QED
  BY <1>1, <1>3, <1>4, StepsAside

LEMMA LookKeeps ==
  ASSUME ArtifactInv, NEW r \in Registrars, LookForFile(r)
  PROVE  ArtifactInv'
<1>1. /\ Call(r).at = "looking" /\ UNCHANGED <<sourceOf, temporary, stored, registered, disturbed>>
  BY DEF LookForFile
<1>2. CASE Raises(r)
  BY <1>1, <1>2, GivesUp
<1>3. PICK c \in Bodies, id \in ArtifactIds : c = Digest(r) /\ id = Call(r).id
  BY <1>1, CallIs
<1>4. c # Missing
  BY ArtifactAssumption DEF Missing
<1>5. ASSUME NEW at \in {"opening", "appending"}, Proceeds(r, at),
             at = "appending" => stored[c] # Missing
      PROVE  ArtifactInv'
  <2>1. PICK new \in Calls : new = [registrar[r] EXCEPT !.at = at]
    BY <1>1, CallIs DEF Calls
  <2>2. registrar' = [registrar EXCEPT ![r] = new]
    BY <1>5, <2>1 DEF Proceeds
  <2>3. /\ new.at = at /\ new.id = id /\ new.digest = c /\ new.writes = Missing
    BY <1>1, <1>3, <2>1, CallIs DEF Call, Digest, Calls
  <2>4. c \notin disturbed => sourceOf[id] = c
    BY <1>1, <1>3, CallIs DEF Undisturbed
  <2>5. QED
    BY <1>1, <1>5, <2>2, <2>3, <2>4, StepsAside
<1>6. \/ stored[c] = Missing /\ Proceeds(r, "opening")
      \/ stored[c] = c /\ Proceeds(r, "appending")
      \/ Raises(r)
  BY <1>3, <1>4 DEF LookForFile
<1>7. QED
  BY <1>2, <1>4, <1>5, <1>6

LEMMA AppendKeeps ==
  ASSUME ArtifactInv, NEW r \in Registrars, AppendRegistration(r)
  PROVE  ArtifactInv'
<1>1. Call(r).at = "appending" /\ UNCHANGED <<sourceOf, temporary, stored, disturbed>> /\ Raises(r)
  BY DEF AppendRegistration
<1>2. PICK c \in Bodies, id \in ArtifactIds : c = Digest(r) /\ id = Call(r).id
  BY <1>1, CallIs
<1>3. NoCall \in Calls /\ NoCall.at = "off" /\ NoCall.writes = Missing
  BY DEF NoCall, Calls
<1>4. stored[c] # Missing /\ (c \notin disturbed => stored[c] = c)
  BY <1>1, <1>2 DEF ArtifactInv, CopyInv, ArtifactsAreTheirDigest
<1>5. ASSUME NEW event \in registered', event \notin registered
      PROVE  event.digest = c /\ event.size = stored[c]
  <2>1. event = [id |-> Call(r).id, digest |-> Digest(r), size |-> stored[Digest(r)]]
    BY <1>5 DEF AppendRegistration
  <2>2. QED
    BY <1>2, <2>1
<1>6. \A event \in registered' : \/ event \in registered
                                 \/ /\ event.digest \in Bodies /\ stored[event.digest] # Missing
                                    /\ event.digest \notin disturbed => event.size = event.digest
  BY <1>4, <1>5
<1>7. QED
  BY <1>1, <1>3, <1>6, StepsAside DEF Raises

LEMMA OpenKeeps ==
  ASSUME ArtifactInv, NEW r \in Registrars, OpenTemporary(r)
  PROVE  ArtifactInv'
<1>1. /\ ArtifactTypes /\ CopyInv /\ ArtifactsAreTheirDigest
      /\ Call(r).at = "opening" /\ UNCHANGED <<sourceOf, stored, registered>>
  BY DEF ArtifactInv, OpenTemporary
<1>2. PICK c \in Bodies, id \in ArtifactIds : c = Digest(r) /\ id = Call(r).id
  BY <1>1, CallIs
<1>3. PICK new \in Calls : new = [registrar[r] EXCEPT !.at = "copying", !.writes = "temporary"]
  BY <1>1, CallIs DEF Calls
<1>4. /\ new.at = "copying" /\ new.id = id /\ new.digest = c /\ new.writes = "temporary"
  BY <1>1, <1>2, <1>3, CallIs DEF Call, Digest, Calls
<1>5. registrar' = [registrar EXCEPT ![r] = new]
  BY <1>3 DEF OpenTemporary
<1>6. /\ registrar' \in [Registrars -> Calls] /\ registrar'[r] = new
      /\ \A s \in Registrars \ {r} : registrar'[s] = registrar[s]
  BY ONLY <1>1, <1>5 DEF ArtifactTypes
<1>7. /\ temporary' \in [Bodies -> Bodies \union {Missing, Damaged}]
      /\ \A d \in Bodies \ {c} : temporary'[d] = temporary[d]
  BY <1>1, <1>2 DEF OpenTemporary, ArtifactTypes
<1>8. /\ disturbed \subseteq disturbed' /\ disturbed' \subseteq disturbed \union {c}
      /\ c \notin disturbed' => c \notin disturbed /\ Copiers(c) = {}
  BY <1>2 DEF OpenTemporary
<1>9. ArtifactTypes'
  BY <1>1, <1>4, <1>6, <1>7 DEF ArtifactTypes, Call, Digest, Missing
<1>10. ASSUME NEW s \in Registrars, (Call(s).at # "off")', Digest(s)' \notin disturbed'
       PROVE  Undisturbed(s)'
  <2>1. CASE s = r
    <3>1. c \notin disturbed /\ Copiers(c) = {}
      BY <1>4, <1>6, <1>8, <1>10, <2>1 DEF Digest
    <3>2. sourceOf[id] = c
      BY <1>1, <1>2, <3>1, CallIs DEF Undisturbed
    <3>3. \A other \in Registrars \ {r} : ~(Digest(other) = c /\ Copies(other))
      BY <3>1 DEF Copiers, Copies
    <3>4. QED
      BY <1>1, <1>4, <1>6, <2>1, <3>2, <3>3 DEF Undisturbed, Copies, Call, Digest
  <2>2. CASE s # r
    <3>1. registrar'[s] = registrar[s] /\ Digest(s) \notin disturbed /\ Call(s).at # "off"
      BY <1>6, <1>8, <1>10, <2>2 DEF Call, Digest
    <3>2. Undisturbed(s) /\ Digest(s) \in Bodies
      BY <1>1, <3>1 DEF CopyInv, ArtifactTypes
    <3>3. ~(Copies(s) /\ Digest(s) = c)
      BY <1>6, <1>8, <1>10, <2>2, <3>1 DEF Copiers, Copies, Call, Digest
    <3>4. QED
      BY <1>1, <1>4, <1>6, <1>7, <2>2, <3>1, <3>2, <3>3 DEF Undisturbed, Copies, Call, Digest
  <2>3. QED
    BY <2>1, <2>2
<1>11. CopyInv'
  BY <1>1, <1>4, <1>6, <1>10 DEF CopyInv, Call, Digest
<1>12. ArtifactsAreTheirDigest'
  BY <1>1, <1>8 DEF ArtifactsAreTheirDigest
<1>13. QED
  BY <1>9, <1>11, <1>12 DEF ArtifactInv

LEMMA FinishKeeps ==
  ASSUME ArtifactInv, NEW r \in Registrars, FinishCopy(r)
  PROVE  ArtifactInv'
<1>1. /\ ArtifactTypes /\ CopyInv /\ ArtifactsAreTheirDigest
      /\ Call(r).at = "copying" /\ UNCHANGED <<sourceOf, registered, disturbed>>
  BY DEF ArtifactInv, FinishCopy
<1>2. PICK c \in Bodies, id \in ArtifactIds : c = Digest(r) /\ id = Call(r).id
  BY <1>1, CallIs
<1>3. PICK new \in Calls : new = [registrar[r] EXCEPT !.at = "moving", !.writes = Missing]
  BY <1>1, CallIs DEF Calls
<1>4. /\ new.at = "moving" /\ new.id = id /\ new.digest = c /\ new.writes = Missing
  BY <1>1, <1>2, <1>3, CallIs DEF Call, Digest, Calls
<1>5. registrar' = [registrar EXCEPT ![r] = new]
  BY <1>3 DEF FinishCopy
<1>6. /\ registrar' \in [Registrars -> Calls] /\ registrar'[r] = new
      /\ \A s \in Registrars \ {r} : registrar'[s] = registrar[s]
  BY ONLY <1>1, <1>5 DEF ArtifactTypes
<1>7. PICK content : /\ content \in Bodies \union {Damaged}
                     /\ c \notin disturbed => content = sourceOf[id]
                     /\ \/ Call(r).writes = "temporary" /\ UNCHANGED stored
                             /\ temporary' = [temporary EXCEPT ![c] = content]
                        \/ Call(r).writes # "temporary" /\ UNCHANGED temporary
                             /\ stored' = [stored EXCEPT ![c] = content]
  BY <1>1, <1>2 DEF FinishCopy, ArtifactTypes
<1>8. content # Missing
  BY <1>7, ArtifactAssumption DEF Missing, Damaged
<1>9. /\ temporary' \in [Bodies -> Bodies \union {Missing, Damaged}]
      /\ stored' \in [Bodies -> Bodies \union {Missing, Damaged}]
      /\ \A d \in Bodies \ {c} : temporary'[d] = temporary[d] /\ stored'[d] = stored[d]
      /\ \A d \in Bodies : stored[d] # Missing => stored'[d] # Missing
  BY <1>1, <1>2, <1>7, <1>8 DEF ArtifactTypes
<1>10. ArtifactTypes'
  BY <1>1, <1>4, <1>6, <1>9 DEF ArtifactTypes, Call, Digest, Missing
<1>11. c \notin disturbed => /\ Call(r).writes = "temporary" /\ content = c
                             /\ temporary'[c] = c /\ UNCHANGED stored
  <2>1. SUFFICES ASSUME c \notin disturbed
                 PROVE  /\ Call(r).writes = "temporary" /\ content = c
                        /\ temporary'[c] = c /\ UNCHANGED stored
    OBVIOUS
  <2>2. Undisturbed(r)
    BY <1>1, <1>2, <2>1, CallIs
  <2>3. content = c
    BY <1>1, <1>2, <1>7, <2>1, <2>2 DEF Undisturbed
  <2>4. Call(r).writes \in {Missing, "temporary", "stored"} /\ Call(r).writes # Missing
    BY <1>1 DEF ArtifactTypes, Calls, Call
  <2>5. Call(r).writes = "temporary"
    BY <2>2, <2>4 DEF Undisturbed
  <2>6. QED
    BY <1>1, <1>2, <1>7, <2>3, <2>5 DEF ArtifactTypes
<1>12. ASSUME NEW s \in Registrars, (Call(s).at # "off")', Digest(s)' \notin disturbed'
       PROVE  Undisturbed(s)'
  <2>1. CASE s = r
    <3>1. c \notin disturbed
      BY <1>1, <1>4, <1>6, <1>12, <2>1 DEF Digest
    <3>2. Undisturbed(r)
      BY <1>1, <1>2, <3>1, CallIs
    <3>3. \A other \in Registrars \ {r} : ~(Digest(other) = c /\ Copies(other))
      BY <1>1, <1>2, <3>2 DEF Undisturbed, Copies
    <3>4. QED
      BY <1>1, <1>4, <1>6, <1>11, <2>1, <3>1, <3>3 DEF Undisturbed, Copies, Call, Digest, Missing
  <2>2. CASE s # r
    <3>1. registrar'[s] = registrar[s] /\ Digest(s) \notin disturbed /\ Call(s).at # "off"
      BY <1>1, <1>6, <1>12, <2>2 DEF Call, Digest
    <3>2. Undisturbed(s) /\ Digest(s) \in Bodies
      BY <1>1, <3>1 DEF CopyInv, ArtifactTypes
    <3>3. ~(Copies(s) /\ Digest(s) = c)
      BY <1>1, <1>2, <2>2, <3>2 DEF Undisturbed, Copies
    <3>4. QED
      BY <1>1, <1>4, <1>6, <1>9, <2>2, <3>1, <3>2, <3>3 DEF Undisturbed, Copies, Call, Digest
  <2>3. QED
    BY <2>1, <2>2
<1>13. CopyInv'
  BY <1>1, <1>4, <1>6, <1>9, <1>12 DEF CopyInv, Call, Digest, ArtifactTypes
<1>14. ArtifactsAreTheirDigest'
  BY <1>1, <1>9, <1>11 DEF ArtifactsAreTheirDigest, CopyInv
<1>15. QED
  BY <1>10, <1>13, <1>14 DEF ArtifactInv

\* The file of another registrar is still written after the move only when the content was
\* disturbed: one that is not has no second copier.
LEMMA MoveKeeps ==
  ASSUME ArtifactInv, NEW r \in Registrars, MoveIntoPlace(r)
  PROVE  ArtifactInv'
<1>1. /\ ArtifactTypes /\ CopyInv /\ ArtifactsAreTheirDigest
      /\ Call(r).at = "moving" /\ UNCHANGED <<sourceOf, registered, disturbed>>
  BY DEF ArtifactInv, MoveIntoPlace
<1>2. CASE Raises(r) /\ UNCHANGED <<temporary, stored>>
  BY <1>1, <1>2, GivesUp
<1>3. PICK c \in Bodies, id \in ArtifactIds : c = Digest(r) /\ id = Call(r).id
  BY <1>1, CallIs
<1>4. ASSUME temporary[c] # Missing,
             stored' = [stored EXCEPT ![c] = temporary[c]],
             temporary' = [temporary EXCEPT ![c] = Missing],
             registrar' = [other \in Registrars |->
               IF other = r THEN [registrar[r] EXCEPT !.at = "appending"]
               ELSE IF other \in StillWrites(c)
                      THEN [registrar[other] EXCEPT !.writes = "stored"]
               ELSE registrar[other]]
      PROVE  ArtifactInv'
  <2>1. PICK new \in Calls : new = [registrar[r] EXCEPT !.at = "appending"]
    BY <1>1, CallIs DEF Calls
  <2>2. /\ new.at = "appending" /\ new.id = id /\ new.digest = c /\ new.writes = Missing
    BY <1>1, <1>3, <2>1, CallIs DEF Call, Digest, Calls
  <2>3. registrar'[r] = new
    BY <1>4, <2>1
  <2>4. ASSUME NEW s \in Registrars \ {r}
        PROVE  /\ registrar'[s] \in Calls /\ registrar'[s].at = registrar[s].at
               /\ registrar'[s].id = registrar[s].id /\ registrar'[s].digest = registrar[s].digest
               /\ registrar'[s].writes # Missing <=> registrar[s].writes # Missing
               /\ s \notin StillWrites(c) => registrar'[s] = registrar[s]
    <3>1. registrar[s] \in Calls
      BY <1>1 DEF ArtifactTypes
    <3>2. CASE s \in StillWrites(c)
      <4>1. registrar'[s] = [registrar[s] EXCEPT !.writes = "stored"]
        BY <1>4, <3>2
      <4>2. registrar[s].writes = "temporary"
        BY <3>2 DEF StillWrites, Call
      <4>3. QED
        BY <3>1, <3>2, <4>1, <4>2 DEF Calls, Missing
    <3>3. CASE s \notin StillWrites(c)
      <4>1. registrar'[s] = registrar[s]
        BY <1>4, <3>3
      <4>2. QED
        BY <3>1, <3>3, <4>1
    <3>4. QED
      BY <3>2, <3>3
  <2>5. registrar' \in [Registrars -> Calls]
    <3>1. \A s \in Registrars : registrar'[s] \in Calls
      BY <2>3, <2>4
    <3>2. QED
      BY <1>4, <3>1
  <2>6. /\ temporary' \in [Bodies -> Bodies \union {Missing, Damaged}]
        /\ stored' \in [Bodies -> Bodies \union {Missing, Damaged}]
        /\ \A d \in Bodies \ {c} : temporary'[d] = temporary[d] /\ stored'[d] = stored[d]
        /\ stored'[c] = temporary[c]
    BY <1>1, <1>3, <1>4 DEF ArtifactTypes
  <2>7. ArtifactTypes'
    <3>1. \A s \in Registrars : (Call(s).at # "off")' =>
              Call(s).id' \in ArtifactIds /\ Digest(s)' \in Bodies
      BY <1>1, <2>2, <2>3, <2>4 DEF ArtifactTypes, Call, Digest
    <3>2. \A s \in Registrars : (Call(s).at = "copying")' <=> (Call(s).writes # Missing)'
      BY <1>1, <2>2, <2>3, <2>4 DEF ArtifactTypes, Call
    <3>3. QED
      BY <1>1, <2>5, <2>6, <3>1, <3>2 DEF ArtifactTypes
  <2>8. c \notin disturbed => /\ temporary[c] = c
                              /\ \A s \in Registrars \ {r} : ~(Digest(s) = c /\ Copies(s))
    <3>1. SUFFICES ASSUME c \notin disturbed
                   PROVE  /\ temporary[c] = c
                          /\ \A s \in Registrars \ {r} : ~(Digest(s) = c /\ Copies(s))
      OBVIOUS
    <3>2. Undisturbed(r)
      BY <1>1, <1>3, <3>1, CallIs
    <3>3. QED
      BY <1>1, <1>3, <3>2 DEF Undisturbed, Copies
  <2>9. ASSUME NEW s \in Registrars, (Call(s).at # "off")', Digest(s)' \notin disturbed'
        PROVE  Undisturbed(s)'
    <3>1. CASE s = r
      BY <2>2, <2>3, <3>1 DEF Undisturbed, Copies, Call, Digest, Missing
    <3>2. CASE s # r
      <4>1. Digest(s) \notin disturbed /\ Call(s).at # "off"
        BY <1>1, <2>4, <2>9, <3>2 DEF Call, Digest
      <4>2. Undisturbed(s) /\ Digest(s) \in Bodies
        BY <1>1, <4>1 DEF CopyInv, ArtifactTypes
      <4>3. ~(Copies(s) /\ Digest(s) = c)
        BY <2>8, <3>2, <4>1
      <4>4. registrar'[s] = registrar[s]
        BY <2>4, <3>2, <4>3 DEF StillWrites, Copiers, Copies
      <4>5. \A other \in Registrars : (Digest(other) = Digest(s) /\ Copies(other))' =>
                Digest(other) = Digest(s) /\ Copies(other)
        BY <2>2, <2>3, <2>4, <4>4 DEF Copies, Call, Digest
      <4>6. QED
        BY <1>1, <2>6, <4>2, <4>3, <4>4, <4>5 DEF Undisturbed, Copies, Call, Digest
    <3>3. QED
      BY <3>1, <3>2
  <2>10. \A d \in Bodies : stored[d] # Missing => stored'[d] # Missing
    BY <1>4, <2>6
  <2>11. CopyInv'
    <3>1. \A s \in Registrars : (Call(s).at = "appending")' => stored'[Digest(s)'] # Missing
      <4>1. TAKE s \in Registrars
      <4>2. CASE s = r
        BY <1>4, <2>2, <2>3, <2>6, <4>2 DEF Digest
      <4>3. CASE s # r
        BY <1>1, <2>4, <2>10, <4>3 DEF CopyInv, ArtifactTypes, Call, Digest
      <4>4. QED
        BY <4>2, <4>3
    <3>2. QED
      BY <1>1, <2>9, <3>1 DEF CopyInv
  <2>12. ArtifactsAreTheirDigest'
    BY <1>1, <2>6, <2>8, <2>10 DEF ArtifactsAreTheirDigest, CopyInv
  <2>13. QED
    BY <2>7, <2>11, <2>12 DEF ArtifactInv
<1>5. QED
  BY <1>1, <1>2, <1>3, <1>4 DEF MoveIntoPlace

LEMMA RewriteKeeps ==
  ASSUME ArtifactInv, NEW id \in ArtifactIds, NEW content \in Bodies, RewriteSource(id, content)
  PROVE  ArtifactInv'
<1>1. /\ ArtifactTypes /\ CopyInv /\ ArtifactsAreTheirDigest
      /\ UNCHANGED <<temporary, stored, registered, registrar>>
      /\ sourceOf' \in [ArtifactIds -> Bodies]
      /\ \A other \in ArtifactIds \ {id} : sourceOf'[other] = sourceOf[other]
  BY DEF ArtifactInv, RewriteSource, ArtifactTypes
<1>2. /\ disturbed \subseteq disturbed'
      /\ \A s \in Registrars : Call(s).id = id /\ Call(s).at \in {"looking", "opening", "copying"}
           => Digest(s) \in disturbed'
  BY DEF RewriteSource
<1>3. ArtifactTypes'
  BY <1>1 DEF ArtifactTypes, Call, Digest
<1>4. ASSUME NEW s \in Registrars, (Call(s).at # "off")', Digest(s)' \notin disturbed'
      PROVE  Undisturbed(s)'
  <2>1. Undisturbed(s) /\ Call(s).at # "off" /\ Digest(s) \notin disturbed'
    BY <1>1, <1>2, <1>4 DEF CopyInv, Call, Digest
  <2>2. Call(s).id \in ArtifactIds
    BY <1>1, <2>1 DEF ArtifactTypes
  <2>3. QED
    BY <1>1, <1>2, <2>1, <2>2 DEF Undisturbed, Copies, Call, Digest
<1>5. CopyInv'
  BY <1>1, <1>4 DEF CopyInv, Call, Digest
<1>6. ArtifactsAreTheirDigest'
  BY <1>1, <1>2 DEF ArtifactsAreTheirDigest
<1>7. QED
  BY <1>3, <1>5, <1>6 DEF ArtifactInv

-----------------------------------------------------------------------------
(* The artifacts: theorems *)

\* The invariant: of a content nobody disturbed there is one copy at a time, from a source
\* that still holds it, and what is about to be registered is there.
THEOREM ArtifactInvariance == ArtifactSpec => []ArtifactInv
<1>1. ArtifactInv /\ [ArtifactNext]_artifactVars => ArtifactInv'
  <2>1. SUFFICES ASSUME ArtifactInv, [ArtifactNext]_artifactVars PROVE ArtifactInv'
    OBVIOUS
  <2>2. CASE UNCHANGED artifactVars
    BY <2>1, <2>2 DEF artifactVars, ArtifactInv, ArtifactTypes, CopyInv, Undisturbed, Copies,
                      ArtifactsAreTheirDigest, Call, Digest
  <2>3. ASSUME NEW r \in Registrars, RegistrarDies(r) PROVE ArtifactInv'
    BY <2>1, <2>3, GivesUp DEF RegistrarDies
  <2>4. QED
    BY <2>1, <2>2, <2>3, HashKeeps, LookKeeps, OpenKeeps, FinishKeeps, MoveKeeps, AppendKeeps,
       RewriteKeeps DEF ArtifactNext
<1>2. QED
  BY <1>1, ArtifactStarts, PTL DEF ArtifactSpec

\* Whoever dies in the middle of a copy, a place holds nothing or the content it is named for,
\* unless two copied it at once or a source changed; what is registered is there.
THEOREM StoredIsItsDigest == ArtifactSpec => []ArtifactsAreTheirDigest
<1>1. ArtifactInv => ArtifactsAreTheirDigest
  BY DEF ArtifactInv
<1>2. QED
  BY <1>1, ArtifactInvariance, PTL

LEMMA ArtifactStays ==
  ASSUME ArtifactInv, [ArtifactNext]_artifactVars
  PROVE  /\ registered \subseteq registered' /\ disturbed \subseteq disturbed'
         /\ \A c \in Bodies : stored[c] # Missing => stored'[c] # Missing
<1>1. /\ stored \in [Bodies -> Bodies \union {Missing, Damaged}]
      /\ sourceOf \in [ArtifactIds -> Bodies]
  BY DEF ArtifactInv, ArtifactTypes
<1>2. registered \subseteq registered' /\ disturbed \subseteq disturbed'
  BY DEF ArtifactNext, artifactVars, HashSource, LookForFile, OpenTemporary, FinishCopy,
         MoveIntoPlace, AppendRegistration, RegistrarDies, RewriteSource
<1>3. CASE UNCHANGED stored
  BY <1>2, <1>3
<1>4. ASSUME NEW r \in Registrars, FinishCopy(r)
      PROVE  \A c \in Bodies : stored[c] # Missing => stored'[c] # Missing
  <2>1. Call(r).at = "copying"
    BY <1>4 DEF FinishCopy
  <2>2. PICK content \in Bodies \union {Damaged} :
             UNCHANGED stored \/ stored' = [stored EXCEPT ![Digest(r)] = content]
    BY <1>1, <1>4, <2>1, CallIs DEF FinishCopy
  <2>3. content # Missing
    BY <2>2, ArtifactAssumption DEF Missing, Damaged
  <2>4. QED
    BY <1>1, <2>2, <2>3
<1>5. ASSUME NEW r \in Registrars, MoveIntoPlace(r)
      PROVE  \A c \in Bodies : stored[c] # Missing => stored'[c] # Missing
  BY <1>1, <1>5 DEF MoveIntoPlace
<1>6. UNCHANGED stored \/ \E r \in Registrars : FinishCopy(r) \/ MoveIntoPlace(r)
  BY DEF ArtifactNext, artifactVars, HashSource, LookForFile, OpenTemporary,
         AppendRegistration, RegistrarDies, RewriteSource
<1>7. QED
  BY <1>2, <1>3, <1>4, <1>5, <1>6

\* A registration is never withdrawn, and an artifact that was right is damaged by a later
\* registration only if another copied at the same time or a source changed.
THEOREM StoredLasts == ArtifactSpec => ArtifactsLast
<1>1. ArtifactInv /\ ArtifactInv' /\ [ArtifactNext]_artifactVars =>
        [registered \subseteq registered'
           /\ \A c \in Bodies \ disturbed' : stored[c] = c => stored'[c] = c]_artifactVars
  <2>1. SUFFICES ASSUME ArtifactInv, ArtifactInv', [ArtifactNext]_artifactVars
                 PROVE  /\ registered \subseteq registered'
                        /\ \A c \in Bodies \ disturbed' : stored[c] = c => stored'[c] = c
    OBVIOUS
  <2>2. \A c \in Bodies : c # Missing
    BY ArtifactAssumption DEF Missing
  <2>3. \A c \in Bodies \ disturbed' : stored'[c] \in {Missing, c}
    BY <2>1 DEF ArtifactInv, ArtifactsAreTheirDigest
  <2>4. QED
    BY <2>1, <2>2, <2>3, ArtifactStays
<1>2. QED
  BY <1>1, ArtifactInvariance, PTL DEF ArtifactSpec, ArtifactsLast

-----------------------------------------------------------------------------
(* The drawing questions: types and the invariant *)

Questions == [quality : Qualities, answer : Answers, wording : Nat, edition : Nat]
Sights == [wording : Nat, edition : Nat]
Replies ==
  [answer : Answers, doubt : {"none", "unsure", "imageless"}, evidence : {"local", "context"},
   shown : Sights]
PlanRecords ==
  [protocol : {"none", "verbose", "boxed", "contextual"}, evidence : SUBSET {"local", "context"}]
Publications == [edition : Nat, plan : PlanRecords, questions : Seq(Questions)]
Places == {"idle", "asking", "waiting", "binding", "building", "done", "dead"}
Processes ==
  [at : Places, edition : Nat, questions : Seq(Questions), answers : Seq(Replies)]

QATypes ==
  /\ sources \in [named : Nat, image : Nat]
  /\ plan \in PlanRecords
  /\ author \in Processes /\ auditor \in Processes /\ builder \in Processes
  /\ published \in Publications
  /\ audit \in [of : Publications, plan : PlanRecords, answers : Seq(Replies)]

\* What questions of an edition, the answers to them and a plan have to be like.
OfEdition(questions, edition) == \A i \in 1..Len(questions) : questions[i].edition = edition
Begins(part, whole) ==
  Len(part) <= Len(whole) /\ \A i \in 1..Len(part) : whole[i] = part[i]
AnswersTo(answers, questions, edition) ==
  /\ Len(answers) <= Len(questions)
  /\ \A i \in 1..Len(answers) : answers[i].shown = Shown(questions[i], edition)
AsAsked(p) == p.evidence = PlanOf(p.protocol).evidence

\* The author's plan is the one of its protocol or asks for less; questions.json is what it
\* has written so far, of one edition, as long as it writes.
AuthorInv ==
  /\ author.at = "idle" => author = Idle /\ published = Unpublished /\ plan = NoPlan
  /\ author.at # "idle" => plan.protocol # "none"
  /\ plan.protocol # "none" => AsAsked(plan) \/ plan.evidence = {"local", "context"}
  /\ published.edition = 0 => published = Unpublished
  /\ published.edition # 0 => published.plan = PlanOf(published.plan.protocol)
  /\ OfEdition(published.questions, published.edition)
  /\ Running(author) => /\ author.edition # 0
                        /\ published.questions = author.questions
                        /\ published.edition \in {0, author.edition}

\* What the auditor has read is part of what it binds its audit to, and it was shown what it
\* has answered.
AuditorInv ==
  /\ auditor.at \in {"idle", "binding"} => auditor.answers = <<>> /\ audit.answers = <<>>
  /\ auditor.at = "binding" => /\ published.edition # 0 /\ auditor.edition = published.edition
                               /\ Begins(auditor.questions, published.questions)
  /\ auditor.at \in {"asking", "waiting"} =>
       /\ audit.answers = auditor.answers /\ auditor.edition = audit.of.edition
       /\ Begins(auditor.questions, audit.of.questions)
  /\ auditor.at = "waiting" => Len(auditor.answers) + 1 <= Len(auditor.questions)
  /\ AnswersTo(audit.answers, audit.of.questions, audit.of.edition)

BuilderInv ==
  builder.at = "building" =>
    /\ author.at # "idle" /\ AsAsked(plan)
    /\ OfEdition(builder.questions, builder.edition)
    /\ AnswersTo(builder.answers, builder.questions, builder.edition)

QAInv == QATypes /\ AuthorInv /\ AuditorInv /\ BuilderInv /\ QuestionsAreAudited

LEMMA QAStarts == QAInit => QAInv
<1>1. SUFFICES ASSUME QAInit PROVE QAInv
  OBVIOUS
<1>2. /\ sources = [named |-> 0, image |-> 0] /\ plan = NoPlan /\ published = Unpublished
      /\ audit = [of |-> Unpublished, plan |-> NoPlan, answers |-> <<>>]
      /\ author = Idle /\ auditor = Idle /\ builder = Idle /\ tasks = {}
  BY <1>1 DEF QAInit
<1>3. NoPlan \in PlanRecords
  BY DEF NoPlan, PlanRecords
<1>4. Unpublished \in Publications
  BY <1>3 DEF Unpublished, Publications
<1>5. Idle \in Processes
  BY DEF Idle, Processes, Places
<1>6. QATypes
  BY <1>2, <1>3, <1>4, <1>5 DEF QATypes
<1>7. AuthorInv
  BY <1>2 DEF AuthorInv, Idle, Unpublished, NoPlan, OfEdition, Running
<1>8. AuditorInv /\ BuilderInv
  BY <1>2 DEF AuditorInv, BuilderInv, AnswersTo, Idle, Unpublished
<1>9. QED
  BY <1>2, <1>6, <1>7, <1>8 DEF QAInv, QuestionsAreAudited

-----------------------------------------------------------------------------
(* The drawing questions: their parts *)

LEMMA Parts ==
  ASSUME QAInv
  PROVE  /\ author.at \in Places /\ author.edition \in Nat /\ author.questions \in Seq(Questions)
         /\ auditor.at \in Places /\ auditor.edition \in Nat
         /\ auditor.questions \in Seq(Questions) /\ auditor.answers \in Seq(Replies)
         /\ builder.at \in Places /\ builder.edition \in Nat
         /\ builder.questions \in Seq(Questions) /\ builder.answers \in Seq(Replies)
         /\ published.edition \in Nat /\ published.plan \in PlanRecords
         /\ published.questions \in Seq(Questions)
         /\ audit.of \in Publications /\ audit.of.questions \in Seq(Questions)
         /\ audit.answers \in Seq(Replies) /\ audit.of.edition \in Nat
         /\ sources.named \in Nat /\ sources.image \in Nat
         /\ plan.protocol \in {"none", "verbose", "boxed", "contextual"}
         /\ plan.evidence \in SUBSET {"local", "context"}
<1>1. QATypes
  BY DEF QAInv
<1>2. /\ author \in Processes /\ auditor \in Processes /\ builder \in Processes
      /\ published \in Publications /\ plan \in PlanRecords
      /\ sources \in [named : Nat, image : Nat]
  BY <1>1 DEF QATypes
<1>3. audit.of \in Publications /\ audit.answers \in Seq(Replies)
  BY <1>1 DEF QATypes
<1>4. QED
  BY <1>2, <1>3 DEF Processes, Publications, PlanRecords

LEMMA BeginsItself ==
  ASSUME NEW S, NEW s \in Seq(S), NEW e \in S
  PROVE  Begins(s, s) /\ Begins(s, Append(s, e))
BY DEF Begins

\* A process that goes to another place and keeps what it has read.
LEMMA GoesTo ==
  ASSUME NEW part \in Processes, NEW at \in Places
  PROVE  /\ [part EXCEPT !.at = at] \in Processes
         /\ [part EXCEPT !.at = at].at = at
         /\ [part EXCEPT !.at = at].edition = part.edition
         /\ [part EXCEPT !.at = at].questions = part.questions
         /\ [part EXCEPT !.at = at].answers = part.answers
BY DEF Processes

-----------------------------------------------------------------------------
(* The drawing questions: the sources and the author *)

LEMMA PrepareKeeps == ASSUME QAInv, Prepare PROVE QAInv'
<1>1. /\ sources' = [named |-> 1, image |-> 1]
      /\ UNCHANGED <<plan, author, published, auditor, audit, builder, tasks>>
  BY DEF Prepare
<1>2. QATypes'
  BY <1>1 DEF QAInv, QATypes
<1>3. AuthorInv' /\ AuditorInv' /\ BuilderInv' /\ QuestionsAreAudited'
  BY <1>1 DEF QAInv, AuthorInv, AuditorInv, BuilderInv, QuestionsAreAudited, Running
<1>4. QED
  BY <1>2, <1>3 DEF QAInv

\* The protocols have plans of their own.
LEMMA PlansAreAsked ==
  ASSUME NEW protocol \in {"verbose", "boxed", "contextual"}
  PROVE  /\ PlanOf(protocol) \in PlanRecords /\ PlanOf(protocol).protocol = protocol
         /\ AsAsked(PlanOf(protocol))
BY DEF PlanOf, PlanRecords, AsAsked

LEMMA StartAuthorKeeps == ASSUME QAInv, StartAuthor PROVE QAInv'
<1>1. /\ author.at = "idle" /\ sources.named # 0
      /\ UNCHANGED <<sources, published, auditor, audit, builder, tasks>>
  BY DEF StartAuthor
<1>2. PICK protocol \in {"verbose", "boxed", "contextual"} : plan' = PlanOf(protocol)
  BY QAAssumption DEF StartAuthor
<1>3. author = Idle /\ published = Unpublished
  BY <1>1 DEF QAInv, AuthorInv
<1>4. PICK named \in Nat : named = sources.named /\ named # 0
  BY <1>1, Parts
<1>5. author' = [at |-> "asking", edition |-> named, questions |-> <<>>, answers |-> <<>>]
  BY <1>3, <1>4 DEF StartAuthor, Idle
<1>6. author' \in Processes
  BY <1>5 DEF Processes, Places
<1>7. QATypes'
  BY <1>1, <1>2, <1>6, PlansAreAsked DEF QAInv, QATypes
<1>8. AuthorInv'
  <2>1. author'.at = "asking" /\ author'.edition = named /\ author'.questions = <<>>
    BY <1>5
  <2>2. /\ published.edition = 0 /\ published.questions = <<>>
        /\ published'.edition = 0 /\ published'.questions = <<>>
    BY <1>1, <1>3 DEF Unpublished
  <2>3. /\ plan'.protocol # "none" /\ AsAsked(plan)'
    BY <1>2, PlansAreAsked DEF AsAsked
  <2>4. OfEdition(published.questions, published.edition)'
    BY <2>2 DEF OfEdition
  <2>5. QED
    BY <1>1, <1>3, <1>4, <2>1, <2>2, <2>3, <2>4 DEF AuthorInv, Running
<1>9. AuditorInv' /\ QuestionsAreAudited'
  BY <1>1 DEF QAInv, AuditorInv, QuestionsAreAudited
<1>10. BuilderInv'
  BY <1>1 DEF QAInv, BuilderInv
<1>11. QED
  BY <1>7, <1>8, <1>9, <1>10 DEF QAInv

\* The author goes on and publishes nothing.
LEMMA AuthorGoes ==
  ASSUME QAInv, NEW at \in {"waiting", "dead"}, Running(author),
         author' = [author EXCEPT !.at = at],
         UNCHANGED <<sources, plan, published, auditor, audit, builder, tasks>>
  PROVE  QAInv'
<1>1. author \in Processes /\ at \in Places
  BY DEF QAInv, QATypes, Places
<1>2. /\ author' \in Processes /\ author'.at = at /\ author'.edition = author.edition
      /\ author'.questions = author.questions
  BY <1>1, GoesTo
<1>3. QATypes'
  BY <1>2 DEF QAInv, QATypes
<1>4. AuthorInv' /\ BuilderInv'
  BY <1>2 DEF QAInv, AuthorInv, BuilderInv, Running
<1>5. AuditorInv' /\ QuestionsAreAudited'
  BY DEF QAInv, AuditorInv, QuestionsAreAudited
<1>6. QED
  BY <1>3, <1>4, <1>5 DEF QAInv

LEMMA AuthorAsksKeeps == ASSUME QAInv, AuthorAsks PROVE QAInv'
<1>1. /\ Running(author) /\ UNCHANGED <<sources, plan, published, auditor, audit, builder, tasks>>
  BY DEF AuthorAsks, Running
<1>2. \E at \in {"waiting", "dead"} : author' = [author EXCEPT !.at = at]
  BY DEF AuthorAsks
<1>3. QED
  BY <1>1, <1>2, AuthorGoes

\* A publication adds a question to what was published before.
LEMMA PublishKeeps == ASSUME QAInv, AuthorPublishes PROVE QAInv'
<1>1. /\ author.at = "waiting" /\ UNCHANGED <<sources, plan, auditor, audit, builder, tasks>>
  BY DEF AuthorPublishes
<1>2. Running(author)
  BY <1>1 DEF Running
<1>3. /\ author.edition \in Nat /\ author.edition # 0
      /\ author.questions \in Seq(Questions) /\ published.questions = author.questions
      /\ published.edition \in {0, author.edition}
  BY <1>2, Parts DEF QAInv, AuthorInv
<1>4. PICK edition \in Nat, old \in Seq(Questions) :
           edition = author.edition /\ old = author.questions
  BY <1>3
<1>5. PICK quality \in Qualities :
        LET question == [quality |-> quality, answer |-> "x", wording |-> 1, edition |-> author.edition]
            questions == Append(author.questions, question)
        IN  /\ author' = [author EXCEPT !.questions = questions,
                            !.at = IF Len(questions) = Batches THEN "done" ELSE "asking"]
            /\ published' = [edition |-> author.edition, questions |-> questions,
                             plan |-> PlanOf(plan.protocol)]
  BY DEF AuthorPublishes
<1>6. PICK question \in Questions :
        question = [quality |-> quality, answer |-> "x", wording |-> 1, edition |-> edition]
  BY DEF Questions, Answers
<1>7. PICK questions \in Seq(Questions) : questions = Append(old, question)
  <2>1. Append(old, question) \in Seq(Questions)
    BY ONLY <1>4, <1>6
  <2>2. QED
    BY <2>1
<1>8. PICK at \in {"done", "asking"} :
        author' = [author EXCEPT !.questions = questions, !.at = at]
  BY <1>4, <1>5, <1>6, <1>7
<1>9. published' = [edition |-> edition, questions |-> questions, plan |-> PlanOf(plan.protocol)]
  BY <1>4, <1>5, <1>6, <1>7
<1>10. plan.protocol \in {"verbose", "boxed", "contextual"}
  BY <1>1, Parts DEF QAInv, AuthorInv
<1>11. /\ author' \in Processes /\ author'.at = at /\ author'.edition = edition
       /\ author'.questions = questions
  <2>1. author \in Processes
    BY DEF QAInv, QATypes
  <2>2. QED
    BY <1>4, <1>8, <2>1 DEF Processes, Places
<1>12. /\ published' \in Publications /\ published'.edition = edition /\ published'.questions = questions
       /\ published'.plan = PlanOf(plan.protocol)
  BY <1>9, <1>10, PlansAreAsked DEF Publications
<1>13. QATypes'
  BY <1>1, <1>11, <1>12 DEF QAInv, QATypes
<1>14. OfEdition(questions, edition)
  <2>1. OfEdition(old, edition)
    BY <1>3, <1>4, Parts DEF QAInv, AuthorInv, OfEdition, Unpublished
  <2>2. question.edition = edition
    BY <1>6
  <2>3. QED
    BY <1>7, <2>1, <2>2 DEF OfEdition
<1>15. AuthorInv'
  <2>1. OfEdition(published.questions, published.edition)'
    BY <1>12, <1>14
  <2>2. published'.plan = PlanOf(published'.plan.protocol)
    BY <1>10, <1>12, PlansAreAsked
  <2>3. edition # 0
    BY <1>3, <1>4
  <2>4. QED
    BY <1>1, <1>11, <1>12, <2>1, <2>2, <2>3 DEF QAInv, AuthorInv, Running, AsAsked
<1>16. AuditorInv'
  <2>1. auditor.at = "binding" => Begins(auditor.questions, questions) /\ auditor.edition = edition
    <3>1. SUFFICES ASSUME auditor.at = "binding"
                   PROVE  Begins(auditor.questions, questions) /\ auditor.edition = edition
      OBVIOUS
    <3>2. /\ published.edition # 0 /\ auditor.edition = published.edition
          /\ Begins(auditor.questions, old)
      BY <1>3, <1>4, <3>1 DEF QAInv, AuditorInv
    <3>3. auditor.questions \in Seq(Questions)
      BY Parts
    <3>4. QED
      BY <1>3, <1>4, <1>7, <3>2, <3>3 DEF Begins
  <2>2. edition # 0
    BY <1>3, <1>4
  <2>3. QED
    BY <1>1, <1>12, <2>1, <2>2 DEF QAInv, AuditorInv
<1>17. BuilderInv' /\ QuestionsAreAudited'
  BY <1>1, <1>11 DEF QAInv, BuilderInv, QuestionsAreAudited, AsAsked
<1>18. QED
  BY <1>13, <1>15, <1>16, <1>17 DEF QAInv

LEMMA AuthorDiesKeeps == ASSUME QAInv, AuthorDies PROVE QAInv'
<1>1. /\ Running(author) /\ author' = [author EXCEPT !.at = "dead"]
      /\ UNCHANGED <<sources, plan, published, auditor, audit, builder, tasks>>
  BY DEF AuthorDies
<1>2. QED
  BY <1>1, AuthorGoes

-----------------------------------------------------------------------------
(* The drawing questions: the auditor *)

\* The auditor goes on without reading or recording anything.
LEMMA AuditorGoes ==
  ASSUME QAInv, NEW at \in {"waiting", "dead"}, auditor.at # "idle",
         at = "waiting" => auditor.at = "asking" /\ Len(auditor.answers) + 1 <= Len(auditor.questions),
         auditor' = [auditor EXCEPT !.at = at],
         UNCHANGED <<sources, plan, published, author, audit, builder, tasks>>
  PROVE  QAInv'
<1>1. auditor \in Processes /\ at \in Places
  BY DEF QAInv, QATypes, Places
<1>2. /\ auditor' \in Processes /\ auditor'.at = at /\ auditor'.edition = auditor.edition
      /\ auditor'.questions = auditor.questions /\ auditor'.answers = auditor.answers
  BY <1>1, GoesTo
<1>3. QATypes'
  BY <1>2 DEF QAInv, QATypes
<1>4. AuditorInv'
  BY <1>2 DEF QAInv, AuditorInv
<1>5. AuthorInv' /\ BuilderInv' /\ QuestionsAreAudited'
  BY DEF QAInv, AuthorInv, BuilderInv, QuestionsAreAudited, Running
<1>6. QED
  BY <1>3, <1>4, <1>5 DEF QAInv

LEMMA AuditorReadsKeeps == ASSUME QAInv, AuditorReads PROVE QAInv'
<1>1. /\ auditor.at = "idle" /\ published # Unpublished
      /\ UNCHANGED <<sources, plan, published, author, audit, builder, tasks>>
  BY DEF AuditorReads
<1>2. /\ auditor \in Processes /\ auditor.answers = <<>> /\ audit.answers = <<>>
      /\ published.edition # 0
  BY <1>1 DEF QAInv, QATypes, AuditorInv, AuthorInv
<1>3. PICK named \in Nat, questions \in Seq(Questions) :
           named = sources.named /\ questions = published.questions
  BY Parts
<1>4. PICK at \in {"binding", "dead"} :
           /\ auditor' = [auditor EXCEPT !.questions = questions, !.edition = named, !.at = at]
           /\ at = "binding" => published.edition = named
  BY <1>3 DEF AuditorReads, SameEdition
<1>5. /\ auditor' \in Processes /\ auditor'.at = at /\ auditor'.edition = named
      /\ auditor'.questions = questions /\ auditor'.answers = auditor.answers
  BY <1>2, <1>4 DEF Processes, Places
<1>6. QATypes'
  BY <1>1, <1>5 DEF QAInv, QATypes
<1>7. AuditorInv'
  <2>1. Begins(questions, published.questions)
    BY <1>3, Parts, BeginsItself DEF Begins
  <2>2. QED
    BY <1>1, <1>2, <1>4, <1>5, <2>1 DEF QAInv, AuditorInv
<1>8. AuthorInv' /\ BuilderInv' /\ QuestionsAreAudited'
  BY <1>1 DEF QAInv, AuthorInv, BuilderInv, QuestionsAreAudited, Running
<1>9. QED
  BY <1>6, <1>7, <1>8 DEF QAInv

LEMMA AuditorBindsKeeps == ASSUME QAInv, AuditorBinds PROVE QAInv'
<1>1. /\ auditor.at = "binding" /\ UNCHANGED <<sources, plan, published, author, builder, tasks>>
      /\ auditor' = [auditor EXCEPT !.at = "asking"]
      /\ audit' = [audit EXCEPT !.of = published, !.plan = plan]
  BY DEF AuditorBinds
<1>2. /\ auditor \in Processes /\ published \in Publications /\ plan \in PlanRecords
      /\ audit \in [of : Publications, plan : PlanRecords, answers : Seq(Replies)]
  BY DEF QAInv, QATypes
<1>3. /\ auditor' \in Processes /\ auditor'.at = "asking" /\ auditor'.edition = auditor.edition
      /\ auditor'.questions = auditor.questions /\ auditor'.answers = auditor.answers
  BY <1>1, <1>2, GoesTo DEF Places
<1>4. /\ audit' \in [of : Publications, plan : PlanRecords, answers : Seq(Replies)]
      /\ audit'.of = published /\ audit'.answers = audit.answers
  BY <1>1, <1>2
<1>5. /\ auditor.answers = <<>> /\ audit.answers = <<>> /\ auditor.edition = published.edition
      /\ Begins(auditor.questions, published.questions)
  BY <1>1 DEF QAInv, AuditorInv
<1>6. QATypes'
  BY <1>1, <1>3, <1>4 DEF QAInv, QATypes
<1>7. AuditorInv'
  <2>1. AnswersTo(<<>>, published.questions, published.edition)
    BY Parts DEF AnswersTo
  <2>2. QED
    BY <1>3, <1>4, <1>5, <2>1 DEF AuditorInv
<1>8. AuthorInv' /\ BuilderInv' /\ QuestionsAreAudited'
  BY <1>1 DEF QAInv, AuthorInv, BuilderInv, QuestionsAreAudited, Running
<1>9. QED
  BY <1>6, <1>7, <1>8 DEF QAInv

LEMMA AuditorAsksKeeps == ASSUME QAInv, AuditorAsks PROVE QAInv'
<1>1. auditor.at = "asking" /\ UNCHANGED <<sources, plan, published, author, audit, builder, tasks>>
  BY DEF AuditorAsks
<1>2. PICK at \in {"waiting", "dead"} :
           /\ auditor' = [auditor EXCEPT !.at = at]
           /\ at = "waiting" => Len(auditor.answers) + 1 <= Len(auditor.questions)
  BY DEF AuditorAsks
<1>3. QED
  BY <1>1, <1>2, AuditorGoes

\* The next answer is to the question of the batch, in the published ones too.
LEMMA AuditorRecordsKeeps == ASSUME QAInv, AuditorRecords PROVE QAInv'
<1>1. auditor.at = "waiting" /\ UNCHANGED <<sources, plan, published, author, builder, tasks>>
  BY DEF AuditorRecords
<1>2. /\ auditor \in Processes /\ audit.answers = auditor.answers
      /\ auditor.edition = audit.of.edition /\ Begins(auditor.questions, audit.of.questions)
      /\ Len(auditor.answers) + 1 <= Len(auditor.questions)
      /\ AnswersTo(audit.answers, audit.of.questions, audit.of.edition)
      /\ audit \in [of : Publications, plan : PlanRecords, answers : Seq(Replies)]
  BY <1>1 DEF QAInv, QATypes, AuditorInv
<1>3. PICK old \in Seq(Replies), questions \in Seq(Questions), edition \in Nat,
           whole \in Seq(Questions) :
           /\ old = auditor.answers /\ questions = auditor.questions
           /\ edition = auditor.edition /\ whole = audit.of.questions
  BY Parts
<1>4. PICK n \in Nat : n = Len(old) + 1 /\ n <= Len(questions) /\ n \in 1..Len(questions)
  BY <1>2, <1>3
<1>5. PICK question \in Questions : question = questions[n]
  BY <1>3, <1>4
<1>6. PICK answer \in Answers, doubt \in {"none", "unsure", "imageless"},
           evidence \in {"local", "context"} :
        \E more :
          /\ more = Append(old, [answer |-> answer, doubt |-> doubt, evidence |-> evidence,
                                 shown |-> Shown(question, edition)])
          /\ auditor' = [auditor EXCEPT !.answers = more,
                           !.at = IF Len(more) = Batches THEN "done" ELSE "asking"]
          /\ audit' = [audit EXCEPT !.answers = more]
  <2>1. question = auditor.questions[Len(auditor.answers) + 1]
    BY <1>3, <1>4, <1>5
  <2>2. QED
    BY <1>3, <2>1 DEF AuditorRecords
<1>7. PICK reply \in Replies :
        reply = [answer |-> answer, doubt |-> doubt, evidence |-> evidence,
                 shown |-> Shown(question, edition)]
  <2>1. Shown(question, edition) \in Sights
    BY <1>3, <1>5 DEF Shown, Sights, Questions
  <2>2. QED
    BY <1>6, <2>1 DEF Replies
<1>8. PICK answers \in Seq(Replies) : answers = Append(old, reply)
  <2>1. Append(old, reply) \in Seq(Replies)
    BY ONLY <1>3, <1>7
  <2>2. QED
    BY <2>1
<1>9. PICK at \in {"done", "asking"} :
           auditor' = [auditor EXCEPT !.answers = answers, !.at = at]
  BY <1>6, <1>7, <1>8
<1>10. audit' = [audit EXCEPT !.answers = answers]
  BY <1>6, <1>7, <1>8
<1>11. /\ auditor' \in Processes /\ auditor'.at = at /\ auditor'.answers = answers
       /\ auditor'.edition = edition /\ auditor'.questions = questions
  BY <1>2, <1>3, <1>9 DEF Processes, Places
<1>12. /\ audit' \in [of : Publications, plan : PlanRecords, answers : Seq(Replies)]
       /\ audit'.of = audit.of /\ audit'.answers = answers
  BY <1>2, <1>10
<1>13. QATypes'
  BY <1>1, <1>11, <1>12 DEF QAInv, QATypes
<1>14. AnswersTo(answers, whole, edition)
  <2>1. AnswersTo(old, whole, edition) /\ Begins(questions, whole)
    BY <1>2, <1>3
  <2>2. reply.shown = Shown(whole[n], edition) /\ n <= Len(whole)
    BY <1>3, <1>4, <1>5, <1>7, <2>1 DEF Begins
  <2>3. /\ Len(answers) = n /\ answers[n] = reply
        /\ \A i \in 1..Len(old) : answers[i] = old[i]
    BY <1>3, <1>4, <1>8
  <2>4. ASSUME NEW i \in 1..Len(answers)
        PROVE  answers[i].shown = Shown(whole[i], edition)
    <3>1. CASE i = n
      BY <2>2, <2>3, <3>1
    <3>2. CASE i # n
      <4>1. i \in 1..Len(old)
        BY <1>3, <1>4, <2>3, <3>2
      <4>2. QED
        BY <2>1, <2>3, <4>1 DEF AnswersTo
    <3>3. QED
      BY <3>1, <3>2
  <2>5. QED
    BY <1>3, <2>2, <2>3, <2>4 DEF AnswersTo
<1>15. AuditorInv'
  BY <1>2, <1>3, <1>11, <1>12, <1>14 DEF AuditorInv
<1>16. AuthorInv' /\ BuilderInv' /\ QuestionsAreAudited'
  BY <1>1 DEF QAInv, AuthorInv, BuilderInv, QuestionsAreAudited, Running
<1>17. QED
  BY <1>13, <1>15, <1>16 DEF QAInv

LEMMA AuditorDiesKeeps == ASSUME QAInv, AuditorDies PROVE QAInv'
<1>1. /\ auditor.at # "idle" /\ auditor' = [auditor EXCEPT !.at = "dead"]
      /\ UNCHANGED <<sources, plan, published, author, audit, builder, tasks>>
  BY DEF AuditorDies, Running
<1>2. QED
  BY <1>1, AuditorGoes

-----------------------------------------------------------------------------
(* The drawing questions: the builder *)

LEMMA TailIs ==
  ASSUME NEW S, NEW s \in Seq(S), s # <<>>
  PROVE  /\ Head(s) = s[1] /\ s[1] \in S /\ 1 \in 1..Len(s)
         /\ Tail(s) \in Seq(S) /\ Len(Tail(s)) = Len(s) - 1 /\ Len(s) \in Nat
         /\ \A i \in 1..Len(Tail(s)) : i + 1 \in 1..Len(s) /\ Tail(s)[i] = s[i + 1]
OBVIOUS

LEMMA BuilderReadsKeeps == ASSUME QAInv, BuilderReads PROVE QAInv'
<1>1. /\ builder.at = "idle" /\ published # Unpublished
      /\ UNCHANGED <<sources, plan, published, author, auditor, audit, tasks>>
  BY DEF BuilderReads
<1>2. builder \in Processes
  BY DEF QAInv, QATypes
<1>3. CASE AuditIsBound
  <2>1. builder' = [at |-> "building", edition |-> sources.named,
                    questions |-> published.questions, answers |-> audit.answers]
    BY <1>3 DEF BuilderReads
  <2>2. builder' \in Processes
    BY <2>1, Parts DEF Processes, Places
  <2>3. /\ builder'.at = "building" /\ builder'.edition = published.edition
        /\ builder'.questions = published.questions /\ builder'.answers = audit.answers
    BY <1>3, <2>1 DEF AuditIsBound, SameEdition
  <2>4. audit.of = published
    BY <1>3 DEF AuditIsBound
  <2>5. /\ OfEdition(published.questions, published.edition)
        /\ AnswersTo(audit.answers, published.questions, published.edition)
    BY <2>4 DEF QAInv, AuthorInv, AuditorInv
  <2>6. author.at # "idle" /\ published.edition # 0
    BY <1>1 DEF QAInv, AuthorInv
  <2>7. AsAsked(plan)
    <3>1. CASE plan.protocol = "contextual"
      <4>1. published.plan = plan /\ published.plan = PlanOf(published.plan.protocol)
        BY <1>3, <2>6, <3>1 DEF QAInv, AuthorInv, AuditIsBound
      <4>2. QED
        BY <3>1, <4>1, PlansAreAsked
    <3>2. CASE plan.protocol # "contextual"
      BY <2>6, <3>2, Parts DEF QAInv, AuthorInv, AsAsked, PlanOf
    <3>3. QED
      BY <3>1, <3>2
  <2>8. BuilderInv'
    BY <1>1, <2>3, <2>5, <2>6, <2>7 DEF BuilderInv, AsAsked
  <2>9. QATypes' /\ AuthorInv' /\ AuditorInv' /\ QuestionsAreAudited'
    BY <1>1, <2>2 DEF QAInv, QATypes, AuthorInv, AuditorInv, QuestionsAreAudited, Running
  <2>10. QED
    BY <2>8, <2>9 DEF QAInv
<1>4. CASE ~AuditIsBound
  <2>1. builder' = [builder EXCEPT !.at = "dead"]
    BY <1>4 DEF BuilderReads
  <2>2. builder' \in Processes /\ builder'.at = "dead"
    BY <1>2, <2>1, GoesTo DEF Places
  <2>3. QED
    BY <1>1, <2>2
    DEF QAInv, QATypes, AuthorInv, AuditorInv, BuilderInv, QuestionsAreAudited, Running
<1>5. QED
  BY <1>3, <1>4

\* The builder goes on and builds no task.
LEMMA BuilderGoes ==
  ASSUME QAInv, NEW at \in {"done", "dead"},
         builder' = [builder EXCEPT !.at = at],
         UNCHANGED <<sources, plan, published, author, auditor, audit, tasks>>
  PROVE  QAInv'
<1>1. builder \in Processes /\ at \in Places
  BY DEF QAInv, QATypes, Places
<1>2. builder' \in Processes /\ builder'.at = at
  BY <1>1, GoesTo
<1>3. QED
  BY <1>2 DEF QAInv, QATypes, AuthorInv, AuditorInv, BuilderInv, QuestionsAreAudited, Running

\* A task is built of the first question that is left and its answer, which was given to
\* that question and on that image.
LEMMA BuilderBuildsKeeps == ASSUME QAInv, BuilderBuilds PROVE QAInv'
<1>1. /\ builder.at = "building" /\ builder.questions # <<>>
      /\ UNCHANGED <<sources, plan, published, author, auditor, audit>>
  BY DEF BuilderBuilds
<1>2. PICK questions \in Seq(Questions), answers \in Seq(Replies), edition \in Nat :
           questions = builder.questions /\ answers = builder.answers /\ edition = builder.edition
  BY Parts
<1>3. questions # <<>>
  BY <1>1, <1>2
<1>4. CASE ~MayBuild(Head(questions))
  <2>1. builder' = [builder EXCEPT !.at = "dead"] /\ UNCHANGED tasks
    BY <1>2, <1>4 DEF BuilderBuilds
  <2>2. QED
    BY <1>1, <2>1, BuilderGoes
<1>5. CASE MayBuild(Head(questions))
  <2>1. answers # <<>>
    BY <1>2, <1>5 DEF MayBuild
  <2>2. PICK question \in Questions, reply \in Replies :
             /\ question = Head(questions) /\ question = questions[1]
             /\ reply = Head(answers) /\ reply = answers[1]
    BY <1>2, <1>3, <2>1, TailIs
  <2>3. PICK moreQuestions \in Seq(Questions), moreAnswers \in Seq(Replies) :
             moreQuestions = Tail(questions) /\ moreAnswers = Tail(answers)
    BY <1>2, <1>3, <2>1, TailIs
  <2>4. builder' = [builder EXCEPT !.questions = moreQuestions, !.answers = moreAnswers]
    BY <1>2, <1>5, <2>3 DEF BuilderBuilds
  <2>5. builder \in Processes /\ OfEdition(questions, edition) /\ AnswersTo(answers, questions, edition)
        /\ author.at # "idle" /\ AsAsked(plan)
    BY <1>1, <1>2 DEF QAInv, QATypes, BuilderInv
  <2>6. /\ builder' \in Processes /\ builder'.at = "building" /\ builder'.edition = edition
        /\ builder'.questions = moreQuestions /\ builder'.answers = moreAnswers
    BY <1>1, <1>2, <2>4, <2>5 DEF Processes
  <2>7. OfEdition(moreQuestions, edition) /\ AnswersTo(moreAnswers, moreQuestions, edition)
    <3>1. /\ Len(moreQuestions) = Len(questions) - 1 /\ Len(moreAnswers) = Len(answers) - 1
          /\ Len(questions) \in Nat /\ Len(answers) \in Nat
          /\ \A i \in 1..Len(moreQuestions) :
               i + 1 \in 1..Len(questions) /\ moreQuestions[i] = questions[i + 1]
          /\ \A i \in 1..Len(moreAnswers) :
               i + 1 \in 1..Len(answers) /\ moreAnswers[i] = answers[i + 1]
      BY <1>2, <1>3, <2>1, <2>3, TailIs
    <3>2. OfEdition(moreQuestions, edition)
      BY <2>5, <3>1 DEF OfEdition
    <3>3. Len(moreAnswers) <= Len(moreQuestions)
      BY <2>5, <3>1 DEF AnswersTo
    <3>4. ASSUME NEW i \in 1..Len(moreAnswers)
          PROVE  moreAnswers[i].shown = Shown(moreQuestions[i], edition)
      <4>1. i \in 1..Len(moreQuestions)
        BY <3>1, <3>3
      <4>2. answers[i + 1].shown = Shown(questions[i + 1], edition)
        BY <2>5, <3>1 DEF AnswersTo
      <4>3. QED
        BY <3>1, <4>1, <4>2
    <3>5. QED
      BY <3>2, <3>3, <3>4 DEF AnswersTo
  <2>8. BuilderInv'
    BY <1>1, <2>5, <2>6, <2>7 DEF BuilderInv, AsAsked
  <2>9. PICK task : /\ tasks' \subseteq tasks \union {task}
                    /\ task.question = question /\ task.reply = reply
                    /\ task.image = sources.image /\ task.protocol = plan.protocol
                    /\ task.eligible => Eligible(question, reply)
    <3>1. PICK task : task = [question |-> question, reply |-> reply, image |-> sources.image,
                              eligible |-> Eligible(question, reply), protocol |-> plan.protocol]
      OBVIOUS
    <3>2. question = Head(builder.questions) /\ reply = Head(builder.answers)
      BY <1>2, <2>2
    <3>3. tasks' = tasks \/ tasks' = tasks \union {task}
      BY <1>2, <1>5, <3>1, <3>2 DEF BuilderBuilds
    <3>4. tasks' \subseteq tasks \union {task}
      BY <3>3
    <3>5. /\ task.question = question /\ task.reply = reply
          /\ task.image = sources.image /\ task.protocol = plan.protocol
      BY <3>1
    <3>6. task.eligible => Eligible(question, reply)
      BY <3>1, Zenon
    <3>7. QED
      BY <3>4, <3>5, <3>6
  <2>10. Eligible(question, reply) =>
           /\ reply.shown = [wording |-> question.wording, edition |-> sources.image]
           /\ question.edition = sources.image
           /\ reply.answer = question.answer /\ reply.doubt = "none"
           /\ question.quality = "sound"
           /\ reply.evidence \in PlanOf(plan.protocol).evidence
    <3>1. SUFFICES ASSUME Eligible(question, reply)
                   PROVE  /\ reply.shown = [wording |-> question.wording, edition |-> sources.image]
                          /\ question.edition = sources.image
                          /\ reply.evidence \in PlanOf(plan.protocol).evidence
      BY DEF Eligible
    <3>2. question.quality = "sound"
      BY <3>1 DEF Eligible
    <3>3. ImageIsAudited(reply)
      BY <1>2, <1>5, <2>1, <2>2, <3>2 DEF MayBuild
    <3>4. sources.image = edition
      BY <1>2, <3>3 DEF ImageIsAudited
    <3>5. 1 \in 1..Len(questions) /\ 1 \in 1..Len(answers)
      BY <1>2, <1>3, <2>1
    <3>6. question.edition = edition /\ reply.shown = Shown(question, edition)
      BY <2>2, <2>5, <3>5 DEF OfEdition, AnswersTo
    <3>7. reply.evidence \in PlanOf(plan.protocol).evidence
      BY <2>5, <3>1 DEF Eligible, AsAsked
    <3>8. QED
      BY <3>4, <3>6, <3>7 DEF Shown
  <2>11. QuestionsAreAudited'
    BY <2>9, <2>10 DEF QAInv, QuestionsAreAudited
  <2>12. QATypes' /\ AuthorInv' /\ AuditorInv'
    BY <1>1, <2>6 DEF QAInv, QATypes, AuthorInv, AuditorInv, Running
  <2>13. QED
    BY <2>8, <2>11, <2>12 DEF QAInv
<1>6. QED
  BY <1>4, <1>5

LEMMA BuilderEndsKeeps == ASSUME QAInv, BuilderEnds PROVE QAInv'
BY BuilderGoes DEF BuilderEnds

LEMMA BuilderDiesKeeps == ASSUME QAInv, BuilderDies PROVE QAInv'
BY BuilderGoes DEF BuilderDies

-----------------------------------------------------------------------------
(* The drawing questions: what is changed by hand *)

LEMMA ChangeKeeps == ASSUME QAInv, Change PROVE QAInv'
<1>1. auditor.at # "binding" /\ UNCHANGED <<author, auditor, audit, builder, tasks>>
  BY DEF Change
<1>2. CASE /\ sources' \in {[sources EXCEPT !.image = 2], [named |-> 2, image |-> 2]}
           /\ UNCHANGED <<plan, published>>
  <2>1. sources' \in [named : Nat, image : Nat]
    BY <1>2 DEF QAInv, QATypes
  <2>2. QED
    BY <1>1, <1>2, <2>1
    DEF QAInv, QATypes, AuthorInv, AuditorInv, BuilderInv, QuestionsAreAudited, Running
<1>3. CASE /\ plan # NoPlan /\ builder.at # "building"
           /\ plan' = [plan EXCEPT !.evidence = {"local", "context"}]
           /\ UNCHANGED <<sources, published>>
  <2>1. plan \in PlanRecords
    BY DEF QAInv, QATypes
  <2>2. /\ plan' \in PlanRecords /\ plan'.protocol = plan.protocol
        /\ plan'.evidence = {"local", "context"}
    BY <1>3, <2>1 DEF PlanRecords
  <2>3. author.at # "idle"
    BY <1>3 DEF QAInv, AuthorInv
  <2>4. QATypes'
    BY <1>1, <1>3, <2>2 DEF QAInv, QATypes
  <2>5. AuthorInv'
    BY <1>1, <1>3, <2>2, <2>3 DEF QAInv, AuthorInv, Running
  <2>6. AuditorInv' /\ BuilderInv' /\ QuestionsAreAudited'
    BY <1>1, <1>3 DEF QAInv, AuditorInv, BuilderInv, QuestionsAreAudited
  <2>7. QED
    BY <2>4, <2>5, <2>6 DEF QAInv
<1>4. ASSUME ~Running(author), UNCHANGED <<sources, plan>>,
             NEW b \in DOMAIN published.questions,
             published' = [published EXCEPT !.questions[b].wording = 2]
      PROVE  QAInv'
  <2>1. PICK old \in Seq(Questions) : old = published.questions
    BY Parts
  <2>2. PICK question \in Questions : question = [old[b] EXCEPT !.wording = 2]
    <3>1. old[b] \in Questions
      BY <1>4, <2>1
    <3>2. QED
      BY <3>1 DEF Questions
  <2>3. question.edition = old[b].edition
    <3>1. old[b] \in Questions
      BY <1>4, <2>1
    <3>2. QED
      BY <2>2, <3>1 DEF Questions
  <2>4. PICK questions \in Seq(Questions) : questions = [old EXCEPT ![b] = question]
    <3>1. [old EXCEPT ![b] = question] \in Seq(Questions)
      BY ONLY <2>1, <2>2
    <3>2. QED
      BY <3>1
  <2>5. published' = [published EXCEPT !.questions = questions]
    BY <1>4, <2>1, <2>2, <2>4
  <2>6. published \in Publications
    BY DEF QAInv, QATypes
  <2>7. /\ published' \in Publications /\ published'.edition = published.edition
        /\ published'.plan = published.plan /\ published'.questions = questions
    BY <2>5, <2>6 DEF Publications
  <2>8. /\ Len(questions) = Len(old)
        /\ \A i \in 1..Len(old) : questions[i].edition = old[i].edition
    BY <1>4, <2>1, <2>3, <2>4
  <2>9. published.edition # 0
    <3>1. old # <<>>
      BY <1>4, <2>1
    <3>2. QED
      BY <2>1, <3>1 DEF QAInv, AuthorInv, Unpublished
  <2>10. author.at # "idle"
    BY <2>9 DEF QAInv, AuthorInv, Unpublished
  <2>11. OfEdition(published.questions, published.edition)'
    <3>1. OfEdition(old, published.edition)
      BY <2>1 DEF QAInv, AuthorInv
    <3>2. OfEdition(questions, published.edition)
      BY <2>8, <3>1 DEF OfEdition
    <3>3. QED
      BY <2>7, <3>2
  <2>12. QATypes'
    BY <1>1, <1>4, <2>7 DEF QAInv, QATypes
  <2>13. AuthorInv'
    BY <1>1, <1>4, <2>7, <2>9, <2>10, <2>11 DEF QAInv, AuthorInv, Running, AsAsked
  <2>14. AuditorInv' /\ BuilderInv' /\ QuestionsAreAudited'
    BY <1>1, <1>4 DEF QAInv, AuditorInv, BuilderInv, QuestionsAreAudited, AsAsked
  <2>15. QED
    BY <2>12, <2>13, <2>14 DEF QAInv
<1>5. QED
  BY <1>2, <1>3, <1>4 DEF Change

-----------------------------------------------------------------------------
(* The drawing questions: theorems *)

\* The invariant: the three processes, the files they hand over and their hashes agree, in
\* whatever order they run and whatever is changed by hand.
THEOREM QAInvariance == QASpec => []QAInv
<1>1. QAInv /\ [QANext]_qaVars => QAInv'
  <2>1. SUFFICES ASSUME QAInv, [QANext]_qaVars PROVE QAInv'
    OBVIOUS
  <2>2. CASE UNCHANGED qaVars
    BY <2>1, <2>2 DEF qaVars, QAInv, QATypes, AuthorInv, AuditorInv, BuilderInv,
                      QuestionsAreAudited, Running
  <2>3. CASE QANext
    BY <2>1, <2>3, PrepareKeeps, StartAuthorKeeps, AuthorAsksKeeps, PublishKeeps, AuthorDiesKeeps,
       AuditorReadsKeeps, AuditorBindsKeeps, AuditorAsksKeeps, AuditorRecordsKeeps,
       AuditorDiesKeeps, BuilderReadsKeeps, BuilderBuildsKeeps, BuilderEndsKeeps,
       BuilderDiesKeeps, ChangeKeeps
    DEF QANext
  <2>4. QED
    BY <2>1, <2>2, <2>3
<1>2. QED
  BY <1>1, QAStarts, PTL DEF QASpec

\* A question that is counted was answered by the blind auditor as it stands and on the image
\* it was drawn from, for any number of batches and of files changed by hand.
THEOREM QuestionsAudited == QASpec => []QuestionsAreAudited
<1>1. QAInv => QuestionsAreAudited
  BY DEF QAInv
<1>2. QED
  BY <1>1, QAInvariance, PTL

-----------------------------------------------------------------------------
(* The replay: types and the invariant *)

Rows == [job : JobNumbers, by : {1, 2}, judged : {0, 1, 2}]
Lines == Rows \union {TornLine, GluedLine}
RecordsOf ==
  [status : {"absent", "failed", "completed"}, of : {0, 1, 2}, judged : {0, 1, 2}, by : {0, 1, 2}]

Steps == {"off", "loading", "writing", "working", "judging", "checking", "taking", "scoring",
          "recording"}
Works ==
  [at : Steps, implementation : {0, 1, 2}, rows : Seq(Rows), job : {0} \union JobNumbers,
   of : {0, 1, 2}, judged : {0, 1, 2}]

ReplayTypes ==
  /\ flavour \in {"replay", "backfill"}
  /\ candidate \in [JobNumbers -> {1, 2}]
  /\ implementation \in {1, 2} /\ pinned \in {0, 1, 2}
  /\ rows \in Seq(Rows) /\ history \in Seq(Lines)
  /\ records \in [JobNumbers -> RecordsOf]
  /\ process \in Works

\* Rows of the pinned sources and the ledger's candidates, one for a job.
Frozen(list) ==
  \A i \in 1..Len(list) :
    /\ list[i].judged \in {Incomplete, 1} /\ list[i].by = pinned
    /\ \A k \in 1..Len(list) : list[k].job = list[i].job => k = i

\* A row is in the history, or what is there of it was glued to a line that was cut short.
Has(list, row) == \E i \in 1..Len(list) : list[i] = row
Traced(row) == Has(history, row) \/ Has(history, GluedLine)

\* A row is among those the process holds, or is tried again and traced.
RowsAreHeld ==
  \A i \in 1..Len(rows) :
    Has(process.rows, rows[i]) \/ (Retryable(rows[i]) /\ Traced(rows[i]))

JudgedOfJob(j) ==
  /\ j \in JobNumbers /\ process.of = 1
  /\ \A i \in 1..Len(process.rows) : process.rows[i].job # j
  /\ process.at = "checking" /\ candidate[j] = 1 => process.judged \in {Incomplete, 1}

\* A candidate that was looked at is the first one, or the other is there for good.
Looked(of, j) == of \in {1, 2} /\ (of = 2 => candidate[j] = 2)

ScoredOfJob(j) ==
  /\ j \in JobNumbers /\ records[j].status # "completed"
  /\ Looked(process.of, j)
  /\ process.at = "recording" =>
       process.judged \in {Incomplete, process.of} \/ process.of # candidate[j]

BackfillInv(j) ==
  records[j].status = "completed" =>
    /\ Looked(records[j].of, j)
    /\ records[j].judged = records[j].of \/ records[j].of # candidate[j]
    /\ records[j].by = pinned

ProcessInv ==
  /\ pinned = 0 => /\ rows = <<>> /\ process.at = "off"
                   /\ \A j \in JobNumbers : records[j].status = "absent"
  /\ process.at # "off" => process.implementation = pinned
  /\ Frozen(rows) /\ Frozen(process.rows)
  /\ process.at \in {"writing", "working", "judging", "checking"} => RowsAreHeld
  /\ process.at \in {"judging", "checking"} => JudgedOfJob(process.job)
  /\ process.at \in {"scoring", "recording"} => ScoredOfJob(process.job)
  /\ \A j \in JobNumbers : BackfillInv(j)

ReplayInv == ReplayTypes /\ ProcessInv

-----------------------------------------------------------------------------
(* The replay: what is in order of a sequence *)

\* The places are counted one by one, so that every number up to theirs is the rank of one.
LEMMA RankIs ==
  ASSUME NEW n \in Nat, NEW places \in SUBSET (1..n)
  PROVE  /\ IsFiniteSet(places) /\ Cardinality(places) \in Nat
         /\ \A p \in places : Rank(p, places) \in 1..Cardinality(places)
         /\ \A p, q \in places : Rank(p, places) = Rank(q, places) => p = q
         /\ \A m \in 1..Cardinality(places) : \E p \in places : Rank(p, places) = m
<1>0. \A p \in places : p \in 1..n /\ p \in Int
  OBVIOUS
<1>1. IsFiniteSet(1..n)
  BY FS_Interval
<1>2. IsFiniteSet(places)
  BY <1>1, FS_Subset
<1>3. Cardinality(places) \in Nat
  BY <1>2, FS_CardinalityType
<1>4. ASSUME NEW p \in places
      PROVE  /\ IsFiniteSet({q \in places : q <= p})
             /\ Rank(p, places) \in Nat /\ Rank(p, places) <= Cardinality(places)
  <2>1. {q \in places : q <= p} \in SUBSET places
    OBVIOUS
  <2>2. /\ IsFiniteSet({q \in places : q <= p})
        /\ Cardinality({q \in places : q <= p}) <= Cardinality(places)
    BY <1>2, <2>1, FS_Subset
  <2>3. Cardinality({q \in places : q <= p}) \in Nat
    BY <2>2, FS_CardinalityType
  <2>4. QED
    BY <2>2, <2>3 DEF Rank
<1>5. ASSUME NEW p \in places PROVE Rank(p, places) # 0
  <2>1. p \in {q \in places : q <= p}
    OBVIOUS
  <2>2. {q \in places : q <= p} # {}
    BY <2>1
  <2>3. QED
    BY <1>4, <2>2, FS_EmptySet DEF Rank
<1>6. ASSUME NEW p \in places, NEW q \in places, p < q
      PROVE  Rank(p, places) # Rank(q, places)
  <2>1. {o \in places : o <= p} \in SUBSET {o \in places : o <= q}
    <3>1. \A o \in places : o <= p => o <= q
      BY <1>0, <1>6
    <3>2. QED
      BY <3>1
  <2>2. q \in {o \in places : o <= q} /\ q \notin {o \in places : o <= p}
    BY <1>6
  <2>3. {o \in places : o <= p} # {o \in places : o <= q}
    BY <2>2
  <2>4. QED
    BY <1>4, <2>1, <2>3, FS_Subset DEF Rank
<1>7. \A p, q \in places : Rank(p, places) = Rank(q, places) => p = q
  <2>1. \A p, q \in places : p < q \/ q < p \/ p = q
    OBVIOUS
  <2>2. QED
    BY <1>6, <2>1
<1>8. ASSUME NEW p \in places PROVE Rank(p, places) \in 1..Cardinality(places)
  <2>1. PICK rank \in Nat : rank = Rank(p, places) /\ rank <= Cardinality(places) /\ rank # 0
    BY <1>4, <1>5
  <2>2. QED
    BY <1>3, <2>1
<1>9. \A m \in 1..Cardinality(places) : \E p \in places : Rank(p, places) = m
  <2> DEFINE f == [p \in places |-> Rank(p, places)]
             T == 1..Cardinality(places)
  <2>1. f \in [places -> T]
    BY <1>8
  <2>2. f \in Injection(places, T)
    BY <1>7, <2>1 DEF Injection, IsInjective
  <2>3. IsFiniteSet(T) /\ Cardinality(T) = Cardinality(places)
    BY <1>3, FS_Interval
  <2>4. f \in Surjection(places, T)
    BY <2>2, <2>3, FS_Injection
  <2>5. QED
    BY <2>4 DEF Surjection
<1>10. QED
  BY <1>2, <1>3, <1>7, <1>8, <1>9

\* The elements of a sequence at some places, once each.
LEMMA InOrderIs ==
  ASSUME NEW S, NEW seq \in Seq(S), NEW places \in SUBSET (1..Len(seq))
  PROVE  /\ InOrder(seq, places) \in Seq(S)
         /\ \A i \in 1..Len(InOrder(seq, places)) : \E p \in places :
              /\ InOrder(seq, places)[i] = seq[p]
              /\ \A k \in 1..Len(InOrder(seq, places)) :
                   InOrder(seq, places)[k] = seq[p] => \/ k = i
                                                       \/ \E q \in places \ {p} : seq[q] = seq[p]
         /\ \A p \in places : \E i \in 1..Len(InOrder(seq, places)) : InOrder(seq, places)[i] = seq[p]
<1> DEFINE size == Cardinality(places)
           at(m) == CHOOSE p \in places : Rank(p, places) = m
           s == InOrder(seq, places)
<1>1. Len(seq) \in Nat
  OBVIOUS
<1>2. /\ size \in Nat
      /\ \A p \in places : Rank(p, places) \in 1..size
      /\ \A p, q \in places : Rank(p, places) = Rank(q, places) => p = q
      /\ \A m \in 1..size : \E p \in places : Rank(p, places) = m
  BY <1>1, RankIs
<1>3. \A m \in 1..size : at(m) \in places /\ Rank(at(m), places) = m
  BY <1>2
<1>4. \A p \in places : at(Rank(p, places)) = p
  BY <1>2, <1>3
<1>5. s = [m \in 1..size |-> seq[at(m)]]
  BY DEF InOrder
<1> HIDE DEF at, s, size
<1>6. ASSUME NEW m \in 1..size PROVE seq[at(m)] \in S
  <2>1. at(m) \in 1..Len(seq)
    BY <1>3
  <2>2. QED
    BY <2>1
<1>7. s \in Seq(S) /\ Len(s) = size /\ \A m \in 1..size : s[m] = seq[at(m)]
  BY <1>2, <1>5, <1>6
<1>8. ASSUME NEW i \in 1..size
      PROVE  \E p \in places :
               /\ s[i] = seq[p]
               /\ \A k \in 1..size : s[k] = seq[p] => \/ k = i
                                                      \/ \E q \in places \ {p} : seq[q] = seq[p]
  <2>1. at(i) \in places /\ s[i] = seq[at(i)]
    BY <1>3, <1>7
  <2>2. ASSUME NEW k \in 1..size, s[k] = seq[at(i)], k # i
        PROVE  \E q \in places \ {at(i)} : seq[q] = seq[at(i)]
    <3>1. at(k) \in places /\ at(k) # at(i) /\ seq[at(k)] = seq[at(i)]
      BY <1>3, <1>7, <2>2
    <3>2. QED
      BY <3>1
  <2>3. QED
    BY <2>1, <2>2
<1>9. ASSUME NEW p \in places PROVE \E i \in 1..size : s[i] = seq[p]
  BY <1>2, <1>4, <1>7
<1>10. QED
  BY <1>7, <1>8, <1>9 DEF s

-----------------------------------------------------------------------------
(* The replay: its parts *)

LEMMA WorkIs ==
  ASSUME ReplayInv
  PROVE  /\ process \in Works /\ process.at \in Steps /\ process.implementation \in {0, 1, 2}
         /\ process.rows \in Seq(Rows) /\ process.job \in {0} \union JobNumbers
         /\ process.of \in {0, 1, 2} /\ process.judged \in {0, 1, 2}
         /\ rows \in Seq(Rows) /\ history \in Seq(Lines) /\ records \in [JobNumbers -> RecordsOf]
         /\ candidate \in [JobNumbers -> {1, 2}] /\ implementation \in {1, 2} /\ pinned \in {0, 1, 2}
         /\ Len(rows) \in Nat /\ Len(history) \in Nat /\ Len(process.rows) \in Nat
<1>1. /\ process \in Works /\ rows \in Seq(Rows) /\ history \in Seq(Lines)
      /\ records \in [JobNumbers -> RecordsOf] /\ candidate \in [JobNumbers -> {1, 2}]
      /\ implementation \in {1, 2} /\ pinned \in {0, 1, 2}
  BY DEF ReplayInv, ReplayTypes
<1>2. /\ process.at \in Steps /\ process.implementation \in {0, 1, 2}
      /\ process.rows \in Seq(Rows) /\ process.job \in {0} \union JobNumbers
      /\ process.of \in {0, 1, 2} /\ process.judged \in {0, 1, 2}
  BY <1>1 DEF Works
<1>3. QED
  BY <1>1, <1>2

LEMMA NoWork == NoProcess \in Works /\ NoProcess.at = "off" /\ NoProcess.rows = <<>>
BY DEF NoProcess, Works, Steps

LEMMA ReplayBegins == ReplayInit => ReplayInv
<1>1. SUFFICES ASSUME ReplayInit PROVE ReplayInv
  OBVIOUS
<1>2. /\ flavour \in {"replay", "backfill"} /\ candidate = [j \in JobNumbers |-> 1]
      /\ implementation = 1 /\ pinned = 0 /\ rows = <<>> /\ history = <<>>
      /\ records = [j \in JobNumbers |-> NoRecord] /\ process = NoProcess
  BY <1>1 DEF ReplayInit
<1>3. NoRecord \in RecordsOf /\ NoRecord.status = "absent"
  BY DEF NoRecord, RecordsOf
<1>4. ReplayTypes
  BY <1>2, <1>3, NoWork DEF ReplayTypes
<1>5. Frozen(<<>>)
  BY DEF Frozen
<1>6. ProcessInv
  BY <1>2, <1>3, <1>5, NoWork DEF ProcessInv, BackfillInv
<1>7. QED
  BY <1>4, <1>6 DEF ReplayInv

\* What is in order of rows that are frozen is frozen.
LEMMA PartIsFrozen ==
  ASSUME NEW list \in Seq(Rows), NEW places \in SUBSET (1..Len(list)), Frozen(list)
  PROVE  Frozen(InOrder(list, places))
<1> DEFINE s == InOrder(list, places)
<1>2. \A i \in 1..Len(s) : \E p \in places :
        /\ s[i] = list[p]
        /\ \A k \in 1..Len(s) : s[k] = list[p] =>
             \/ k = i
             \/ \E q \in places \ {p} : list[q] = list[p]
  BY InOrderIs
<1> HIDE DEF s
<1>3. ASSUME NEW i \in 1..Len(s)
      PROVE  /\ s[i].judged \in {Incomplete, 1} /\ s[i].by = pinned
             /\ \A k \in 1..Len(s) : s[k].job = s[i].job => k = i
  <2>1. PICK p \in places :
          /\ s[i] = list[p]
          /\ \A k \in 1..Len(s) : s[k] = list[p] =>
               \/ k = i
               \/ \E q \in places \ {p} : list[q] = list[p]
    BY <1>2
  <2>2. /\ list[p].judged \in {Incomplete, 1} /\ list[p].by = pinned
        /\ \A q \in 1..Len(list) : list[q].job = list[p].job => q = p
    BY DEF Frozen
  <2>3. ASSUME NEW k \in 1..Len(s), s[k].job = s[i].job PROVE k = i
    <3>1. PICK q \in places : s[k] = list[q]
      BY <1>2
    <3>2. q = p
      BY <2>1, <2>2, <2>3, <3>1
    <3>3. QED
      BY <2>1, <2>2, <3>1, <3>2
  <2>4. QED
    BY <2>1, <2>2, <2>3
<1>4. Frozen(s)
  BY <1>3 DEF Frozen
<1>5. QED
  BY <1>4 DEF s

\* Of the rows of results.json, those that are completed are kept and the others archived.
LEMMA LoadedRows ==
  ASSUME ReplayInv
  PROVE  /\ CompletedRows \in Seq(Rows) /\ RetryableRows \in Seq(Rows)
         /\ Frozen(CompletedRows)
         /\ \A i \in 1..Len(rows) : \/ Has(CompletedRows, rows[i])
                                    \/ Retryable(rows[i]) /\ Has(RetryableRows, rows[i])
<1> DEFINE Done == {i \in DOMAIN rows : ~Retryable(rows[i])}
           Undone == {i \in DOMAIN rows : Retryable(rows[i])}
<1>1. rows \in Seq(Rows) /\ DOMAIN rows = 1..Len(rows)
  BY WorkIs
<1>2. Done \in SUBSET (1..Len(rows)) /\ Undone \in SUBSET (1..Len(rows))
  BY <1>1
<1>3. CompletedRows = InOrder(rows, Done) /\ RetryableRows = InOrder(rows, Undone)
  BY DEF CompletedRows, RetryableRows
<1> HIDE DEF Done, Undone
<1>4. /\ CompletedRows \in Seq(Rows) /\ RetryableRows \in Seq(Rows)
      /\ \A p \in Done : \E i \in 1..Len(CompletedRows) : CompletedRows[i] = rows[p]
      /\ \A p \in Undone : \E i \in 1..Len(RetryableRows) : RetryableRows[i] = rows[p]
  <2>1. /\ InOrder(rows, Done) \in Seq(Rows)
        /\ \A p \in Done : \E i \in 1..Len(InOrder(rows, Done)) : InOrder(rows, Done)[i] = rows[p]
    BY <1>1, <1>2, InOrderIs
  <2>2. /\ InOrder(rows, Undone) \in Seq(Rows)
        /\ \A p \in Undone :
             \E i \in 1..Len(InOrder(rows, Undone)) : InOrder(rows, Undone)[i] = rows[p]
    BY <1>1, <1>2, InOrderIs
  <2>3. QED
    BY <1>3, <2>1, <2>2
<1>5. Frozen(CompletedRows)
  BY <1>1, <1>2, <1>3, PartIsFrozen DEF ReplayInv, ProcessInv
<1>6. ASSUME NEW i \in 1..Len(rows)
      PROVE  \/ Has(CompletedRows, rows[i])
             \/ Retryable(rows[i]) /\ Has(RetryableRows, rows[i])
  <2>1. CASE Retryable(rows[i])
    <3>1. i \in Undone
      BY <1>1, <2>1 DEF Undone
    <3>2. QED
      BY <1>4, <2>1, <3>1 DEF Has
  <2>2. CASE ~Retryable(rows[i])
    <3>1. i \in Done
      BY <1>1, <2>2 DEF Done
    <3>2. QED
      BY <1>4, <3>1 DEF Has
  <2>3. QED
    BY <2>1, <2>2
<1>7. QED
  BY <1>4, <1>5, <1>6

-----------------------------------------------------------------------------
(* The replay: its history *)

LEMMA RowsAreLines == Seq(Rows) \subseteq Seq(Lines) /\ {TornLine, GluedLine} \subseteq Lines
BY DEF Lines

LEMMA NoRowIsTorn == \A row \in Rows : row # TornLine
<1>1. \A row \in Rows : row.job \in JobNumbers
  BY DEF Rows
<1>2. 0 \notin JobNumbers /\ TornLine.job = 0
  BY ReplayAssumption DEF JobNumbers, TornLine
<1>3. QED
  BY <1>1, <1>2

\* Lines stay where they are, as they are but for those that were cut short.
LinesLast(before, after) ==
  \A i \in DOMAIN before :
    i \in DOMAIN after /\ after[i] \in {before[i]} \union
      (IF before[i] = TornLine THEN {GluedLine} ELSE {})

\* What is appended is there, unless it was glued to a line that was cut short.
LEMMA HistoryGrows ==
  ASSUME history \in Seq(Lines), NEW lines \in Seq(Lines)
  PROVE  /\ HistoryWith(lines) \in Seq(Lines)
         /\ LinesLast(history, HistoryWith(lines))
         /\ (\A k \in 1..Len(lines) : lines[k] # TornLine) =>
              \A k \in 1..Len(lines) : \/ Has(HistoryWith(lines), lines[k])
                                      \/ Has(HistoryWith(lines), GluedLine)
<1> DEFINE after == HistoryWith(lines)
<1>1. /\ Len(history) \in Nat /\ DOMAIN history = 1..Len(history)
      /\ Len(lines) \in Nat /\ DOMAIN lines = 1..Len(lines)
  OBVIOUS
<1>2. CASE lines # <<>> /\ history # <<>> /\ Last(history) = TornLine
  <2>1. PICK n \in 1..Len(history) : n = Len(history) /\ history[n] = TornLine
    <3>1. Len(history) \in 1..Len(history)
      BY <1>1, <1>2
    <3>2. QED
      BY <1>2, <3>1 DEF Last
  <2>2. PICK glued \in {TornLine, GluedLine} :
             glued = IF Head(lines) = TornLine THEN TornLine ELSE GluedLine
    OBVIOUS
  <2>3. PICK front \in Seq(Lines) :
          /\ front = [history EXCEPT ![n] = glued] /\ Len(front) = Len(history)
          /\ \A i \in 1..Len(history) : front[i] = IF i = n THEN glued ELSE history[i]
    <3>1. glued \in Lines
      BY <2>2, RowsAreLines
    <3>2. history \in Seq(Lines)
      OBVIOUS
    <3>3. /\ [history EXCEPT ![n] = glued] \in Seq(Lines)
          /\ Len([history EXCEPT ![n] = glued]) = Len(history)
          /\ \A i \in 1..Len(history) :
               [history EXCEPT ![n] = glued][i] = IF i = n THEN glued ELSE history[i]
      BY ONLY <2>1, <3>1, <3>2, ExceptSeq
    <3>4. QED
      BY ONLY <3>3
  <2>4. PICK rest \in Seq(Lines) :
          /\ rest = Tail(lines) /\ Len(rest) = Len(lines) - 1
          /\ \A k \in 1..Len(rest) : rest[k] = lines[k + 1]
    BY <1>2, HeadTailProperties
  <2>5. after = front \o rest
    BY <1>2, <2>1, <2>2, <2>3, <2>4 DEF HistoryWith
  <2> HIDE DEF after
  <2>6. /\ after \in Seq(Lines) /\ Len(after) = Len(history) + Len(rest)
        /\ \A i \in 1..Len(history) : after[i] = front[i]
        /\ \A k \in 1..Len(rest) : after[Len(history) + k] = rest[k]
    BY <2>3, <2>4, <2>5
  <2>7. DOMAIN after = 1..Len(after) /\ \A i \in 1..Len(history) : i \in 1..Len(after)
    BY <1>1, <2>4, <2>6
  <2>8. LinesLast(history, after)
    BY <1>1, <2>1, <2>2, <2>3, <2>6, <2>7 DEF LinesLast
  <2>9. ASSUME \A k \in 1..Len(lines) : lines[k] # TornLine
        PROVE  \A k \in 1..Len(lines) : Has(after, lines[k]) \/ Has(after, GluedLine)
    <3>1. Head(lines) # TornLine
      BY <1>1, <1>2, <2>9
    <3>2. after[n] = GluedLine /\ n \in 1..Len(after)
      BY <2>1, <2>2, <2>3, <2>6, <2>7, <3>1
    <3>3. QED
      BY <3>2 DEF Has
  <2>10. QED
    BY <2>6, <2>8, <2>9 DEF after
<1>3. CASE ~(lines # <<>> /\ history # <<>> /\ Last(history) = TornLine)
  <2>1. after = history \o lines
    BY <1>3 DEF HistoryWith
  <2> HIDE DEF after
  <2>2. /\ after \in Seq(Lines) /\ Len(after) = Len(history) + Len(lines)
        /\ \A i \in 1..Len(history) : after[i] = history[i]
        /\ \A k \in 1..Len(lines) : after[Len(history) + k] = lines[k]
    BY <2>1
  <2>3. DOMAIN after = 1..Len(after) /\ \A i \in 1..Len(history) : i \in 1..Len(after)
    BY <1>1, <2>2
  <2>4. LinesLast(history, after)
    BY <1>1, <2>2, <2>3 DEF LinesLast
  <2>5. ASSUME NEW k \in 1..Len(lines) PROVE Has(after, lines[k])
    <3>1. Len(history) + k \in 1..Len(after)
      BY <1>1, <2>2
    <3>2. QED
      BY <2>2, <3>1 DEF Has
  <2>6. QED
    BY <2>2, <2>4, <2>5 DEF after
<1>4. QED
  BY <1>2, <1>3

LEMMA CutHistoryGrows ==
  ASSUME ReplayInv, NEW cutHistory \in HistoryCut
  PROVE  cutHistory \in Seq(Lines) /\ LinesLast(history, cutHistory)
<1>1. PICK k \in 0..(Len(RetryableRows) - 1), tail \in {<<>>, <<TornLine>>} :
           cutHistory = HistoryWith(SubSeq(RetryableRows, 1, k) \o tail)
  BY DEF HistoryCut
<1>2. PICK undone \in Seq(Lines) : undone = RetryableRows /\ Len(undone) \in Nat
  BY LoadedRows, RowsAreLines
<1>3. SubSeq(undone, 1, k) \in Seq(Lines)
  BY <1>1, <1>2, SubSeqProperties
<1>4. tail \in Seq(Lines)
  <2>1. TornLine \in Lines
    BY DEF Lines
  <2>2. <<>> \in Seq(Lines) /\ <<TornLine>> \in Seq(Lines)
    BY <2>1
  <2>3. QED
    BY <1>1, <2>2
<1>5. SubSeq(undone, 1, k) \o tail \in Seq(Lines)
  BY ONLY <1>3, <1>4
<1>6. history \in Seq(Lines)
  BY WorkIs
<1>7. QED
  BY <1>1, <1>2, <1>5, <1>6, HistoryGrows

\* The history is only appended to, by whole lines or until the process dies.
LEMMA HistoryLasts ==
  ASSUME ReplayInv, [ReplayNext]_frozenVars
  PROVE  history' \in Seq(Lines) /\ LinesLast(history, history')
<1>1. history \in Seq(Lines) /\ RetryableRows \in Seq(Lines)
  BY WorkIs, LoadedRows, RowsAreLines
<1>2. CASE UNCHANGED history
  BY <1>1, <1>2 DEF LinesLast
<1>3. CASE history' = HistoryWith(RetryableRows)
  BY <1>1, <1>3, HistoryGrows
<1>4. CASE history' \in HistoryCut
  BY <1>4, CutHistoryGrows
<1>5. \/ UNCHANGED history \/ history' = HistoryWith(RetryableRows) \/ history' \in HistoryCut
  <2>1. LoadRows => UNCHANGED history \/ history' = HistoryWith(RetryableRows)
    BY DEF LoadRows
  <2>2. Dies => UNCHANGED history \/ history' \in HistoryCut
    BY DEF Dies
  <2>3. QED
    BY <2>1, <2>2
    DEF ReplayNext, frozenVars, StartReplay, WriteRows, TakeJob, JudgeJob, AddRow, Summarize,
        TakeRecord, Score, WriteRecord, Backfilled, Mishap, SecondPasses
<1>6. QED
  BY <1>2, <1>3, <1>4, <1>5

-----------------------------------------------------------------------------
(* The replay: its steps *)

\* The process ends or dies.
LEMMA ProcessEnds ==
  ASSUME ReplayInv, process' = NoProcess, history' \in Seq(Lines),
         UNCHANGED <<flavour, candidate, implementation, pinned, rows, records>>
  PROVE  ReplayInv'
<1>1. process' \in Works /\ process'.at = "off" /\ process'.rows = <<>>
  BY NoWork
<1>2. ReplayTypes'
  BY <1>1 DEF ReplayInv, ReplayTypes
<1>3. Frozen(process.rows)'
  BY <1>1 DEF Frozen
<1>4. Frozen(rows)'
  BY DEF ReplayInv, ProcessInv, Frozen
<1>5. ProcessInv'
  BY <1>1, <1>3, <1>4 DEF ReplayInv, ProcessInv, BackfillInv, Looked
<1>6. QED
  BY <1>2, <1>5 DEF ReplayInv

LEMMA StartReplayKeeps == ASSUME ReplayInv, StartReplay PROVE ReplayInv'
<1>1. UNCHANGED <<flavour, candidate, implementation, rows, history, records>>
  BY DEF StartReplay
<1>2. CASE UNCHANGED <<pinned, process>>
  <2>1. QED
    BY <1>1, <1>2 DEF ReplayInv, ReplayTypes, ProcessInv, Frozen, RowsAreHeld, Traced, Has,
                      JudgedOfJob, ScoredOfJob, BackfillInv, Looked
<1>3. CASE /\ ManifestIsSame
           /\ pinned' = IF pinned = 0 THEN implementation ELSE pinned
           /\ process' = [NoProcess EXCEPT !.implementation = implementation,
                            !.at = IF flavour = "replay" THEN "loading" ELSE "taking"]
  <2>1. /\ implementation \in {1, 2} /\ pinned \in {0, 1, 2}
        /\ Frozen(rows) /\ (pinned = 0 => rows = <<>>)
        /\ pinned = 0 => \A j \in JobNumbers : records[j].status = "absent"
    BY WorkIs DEF ReplayInv, ProcessInv
  <2>2. /\ pinned' = implementation /\ pinned' \in {1, 2} /\ (pinned = 0 \/ pinned' = pinned)
    BY <1>3, <2>1 DEF ManifestIsSame, ReplayManifestIsSame, BackfillManifestIsSame
  <2>3. PICK at \in {"loading", "taking"} :
             process' = [NoProcess EXCEPT !.implementation = implementation, !.at = at]
    BY <1>3
  <2>4. /\ process' \in Works /\ process'.at = at /\ process'.implementation = implementation
        /\ process'.rows = <<>>
    BY <2>1, <2>3, NoWork DEF NoProcess, Works, Steps
  <2>5. ReplayTypes'
    BY <1>1, <2>2, <2>4 DEF ReplayInv, ReplayTypes
  <2>6. Frozen(process.rows)'
    BY <2>4 DEF Frozen
  <2>7. Frozen(rows)'
    BY <1>1, <2>1, <2>2 DEF Frozen
  <2>8. \A j \in JobNumbers : BackfillInv(j)'
    BY <1>1, <2>1, <2>2 DEF ReplayInv, ProcessInv, BackfillInv, Looked
  <2>9. ProcessInv'
    BY <1>1, <2>2, <2>3, <2>4, <2>6, <2>7, <2>8 DEF ProcessInv
  <2>10. QED
    BY <2>5, <2>9 DEF ReplayInv
<1>4. QED
  BY <1>2, <1>3 DEF StartReplay

LEMMA LoadRowsKeeps == ASSUME ReplayInv, LoadRows PROVE ReplayInv'
<1>1. /\ process.at = "loading" /\ UNCHANGED workVars /\ UNCHANGED <<rows, records, cut>>
  BY DEF LoadRows
<1>2. CASE process' = NoProcess /\ UNCHANGED history
  BY <1>1, <1>2, WorkIs, ProcessEnds DEF workVars
<1>3. CASE /\ history' = HistoryWith(RetryableRows)
           /\ process' = [process EXCEPT !.rows = CompletedRows,
                            !.at = IF RetryableRows = <<>> THEN "working" ELSE "writing"]
  <2>1. PICK done \in Seq(Rows), undone \in Seq(Rows) :
             done = CompletedRows /\ undone = RetryableRows
    BY LoadedRows
  <2>2. PICK at \in {"working", "writing"} :
             process' = [process EXCEPT !.rows = done, !.at = at]
    BY <1>3, <2>1
  <2>3. /\ process' \in Works /\ process'.at = at /\ process'.implementation = process.implementation
        /\ process'.rows = done
    BY <2>1, <2>2, WorkIs DEF Works, Steps
  <2>4. history \in Seq(Lines) /\ undone \in Seq(Lines) /\ history' = HistoryWith(undone)
    BY <1>3, <2>1, WorkIs, RowsAreLines
  <2>5. /\ history' \in Seq(Lines)
        /\ \A row : Has(undone, row) => Has(history', row) \/ Has(history', GluedLine)
    <3>1. \A k \in 1..Len(undone) : undone[k] # TornLine
      BY <2>1, NoRowIsTorn
    <3>2. QED
      BY <2>4, <3>1, HistoryGrows DEF Has
  <2>6. ReplayTypes'
    BY <1>1, <2>3, <2>5 DEF ReplayInv, ReplayTypes, workVars
  <2>7. RowsAreHeld'
    <3>1. ASSUME NEW i \in 1..Len(rows)
          PROVE  \/ Has(done, rows[i])
                 \/ /\ Retryable(rows[i])
                    /\ Has(history', rows[i]) \/ Has(history', GluedLine)
      <4>1. Has(done, rows[i]) \/ (Retryable(rows[i]) /\ Has(undone, rows[i]))
        BY <2>1, LoadedRows
      <4>2. QED
        BY <2>5, <4>1
    <3>2. QED
      BY <1>1, <2>3, <3>1 DEF RowsAreHeld, Traced, Has
  <2>8. Frozen(rows)' /\ Frozen(process.rows)'
    <3>1. Frozen(rows) /\ Frozen(done)
      BY <2>1, LoadedRows DEF ReplayInv, ProcessInv
    <3>2. QED
      BY <1>1, <2>3, <3>1 DEF Frozen, workVars
  <2>9. ProcessInv'
    BY <1>1, <2>2, <2>3, <2>7, <2>8 DEF ReplayInv, ProcessInv, BackfillInv, Looked, workVars
  <2>10. QED
    BY <2>6, <2>9 DEF ReplayInv
<1>4. QED
  BY <1>1, <1>2, <1>3 DEF LoadRows

LEMMA WriteRowsKeeps == ASSUME ReplayInv, WriteRows PROVE ReplayInv'
<1>1. /\ process.at = "writing" /\ rows' = process.rows /\ process' = [process EXCEPT !.at = "working"]
      /\ UNCHANGED workVars /\ UNCHANGED <<history, records>>
  BY DEF WriteRows
<1>2. /\ process' \in Works /\ process'.at = "working" /\ process'.implementation = process.implementation
      /\ process'.rows = process.rows
  BY <1>1, WorkIs DEF Works, Steps
<1>3. ReplayTypes'
  BY <1>1, <1>2, WorkIs DEF ReplayInv, ReplayTypes, workVars
<1>4. Frozen(rows)' /\ Frozen(process.rows)'
  BY <1>1, <1>2 DEF ReplayInv, ProcessInv, Frozen, workVars
<1>5. RowsAreHeld'
  BY <1>1, <1>2 DEF RowsAreHeld, Traced, Has
<1>6. pinned # 0
  BY <1>1 DEF ReplayInv, ProcessInv
<1>7. ProcessInv'
  BY <1>1, <1>2, <1>4, <1>5, <1>6 DEF ReplayInv, ProcessInv, BackfillInv, Looked, workVars
<1>8. QED
  BY <1>3, <1>7 DEF ReplayInv

LEMMA TakeJobKeeps == ASSUME ReplayInv, TakeJob PROVE ReplayInv'
<1>1. process.at = "working" /\ UNCHANGED workVars /\ UNCHANGED <<rows, history, records>>
  BY DEF TakeJob
<1>2. CASE process' = NoProcess
  BY <1>1, <1>2, WorkIs, ProcessEnds DEF workVars
<1>3. ASSUME NEW j \in JobNumbers, ~HasRow(j), candidate[j] = 1,
             process' = [process EXCEPT !.at = "judging", !.job = j, !.of = candidate[j]]
      PROVE  ReplayInv'
  <2>1. /\ process' \in Works /\ process'.at = "judging" /\ process'.implementation = process.implementation
        /\ process'.rows = process.rows /\ process'.job = j /\ process'.of = 1
    <3>1. process' = [process EXCEPT !.at = "judging", !.job = j, !.of = 1]
      BY <1>3
    <3>2. QED
      BY <3>1, WorkIs DEF Works, Steps
  <2>2. ReplayTypes'
    BY <1>1, <2>1 DEF ReplayInv, ReplayTypes, workVars
  <2>3. \A i \in 1..Len(process.rows) : process.rows[i].job # j
    <3>1. DOMAIN process.rows = 1..Len(process.rows)
      BY WorkIs
    <3>2. QED
      BY <1>3, <3>1 DEF HasRow
  <2>4. JudgedOfJob(process.job)'
    BY <2>1, <2>3 DEF JudgedOfJob
  <2>5. RowsAreHeld' /\ Frozen(rows)' /\ Frozen(process.rows)'
    BY <1>1, <2>1 DEF ReplayInv, ProcessInv, RowsAreHeld, Traced, Has, Frozen, workVars
  <2>6. ProcessInv'
    BY <1>1, <2>1, <2>4, <2>5 DEF ReplayInv, ProcessInv, BackfillInv, Looked, workVars
  <2>7. QED
    BY <2>2, <2>6 DEF ReplayInv
<1>4. QED
  BY <1>2, <1>3 DEF TakeJob, IsLedgers

\* A verdict is of the edition that the candidate has now.
LEMMA JudgeJobKeeps == ASSUME ReplayInv, JudgeJob PROVE ReplayInv'
<1>1. process.at = "judging" /\ UNCHANGED workVars /\ UNCHANGED <<rows, history, records>>
  BY DEF JudgeJob
<1>2. PICK j \in JobNumbers : j = process.job /\ JudgedOfJob(j)
  BY <1>1 DEF ReplayInv, ProcessInv, JudgedOfJob
<1>3. PICK result \in {0, 1, 2} :
           /\ result \in {Incomplete, candidate[j]}
           /\ process' = [process EXCEPT !.at = "checking", !.judged = result]
  BY <1>2, WorkIs DEF JudgeJob, Incomplete
<1>4. /\ process' \in Works /\ process'.at = "checking" /\ process'.implementation = process.implementation
      /\ process'.rows = process.rows /\ process'.job = j /\ process'.of = process.of
      /\ process'.judged = result
  BY <1>2, <1>3, WorkIs DEF Works, Steps
<1>5. ReplayTypes'
  BY <1>1, <1>4 DEF ReplayInv, ReplayTypes, workVars
<1>6. JudgedOfJob(process.job)'
  <2>1. UNCHANGED candidate
    BY <1>1 DEF workVars
  <2>2. QED
    BY <1>2, <1>3, <1>4, <2>1 DEF JudgedOfJob
<1>7. RowsAreHeld' /\ Frozen(rows)' /\ Frozen(process.rows)'
  BY <1>1, <1>4 DEF ReplayInv, ProcessInv, RowsAreHeld, Traced, Has, Frozen, workVars
<1>8. ProcessInv'
  BY <1>1, <1>4, <1>6, <1>7 DEF ReplayInv, ProcessInv, BackfillInv, Looked, workVars
<1>9. QED
  BY <1>5, <1>8 DEF ReplayInv

\* The row is the job's first, and its verdict, if it has one, of the ledger's candidate.
LEMMA AddRowKeeps == ASSUME ReplayInv, AddRow PROVE ReplayInv'
<1>1. process.at = "checking" /\ UNCHANGED workVars /\ UNCHANGED <<rows, history, records>>
  BY DEF AddRow
<1>2. PICK j \in JobNumbers : j = process.job /\ JudgedOfJob(j)
  BY <1>1 DEF ReplayInv, ProcessInv, JudgedOfJob
<1>3. PICK by \in {1, 2} : by = process.implementation /\ by = pinned
  BY <1>1, WorkIs DEF ReplayInv, ProcessInv
<1>4. PICK judged \in {0, 1} : judged = IF Unchanged THEN process.judged ELSE Incomplete
  BY <1>1, <1>2 DEF Unchanged, JudgedOfJob, Incomplete
<1>5. PICK row \in Rows : row = [job |-> j, by |-> by, judged |-> judged]
  BY DEF Rows
<1>6. PICK old \in Seq(Rows) : old = process.rows
  BY WorkIs
<1>7. PICK list \in Seq(Rows) : list = Append(old, row)
  <2>1. Append(old, row) \in Seq(Rows)
    BY ONLY <1>5, <1>6
  <2>2. QED
    BY <2>1
<1>8. process' = [process EXCEPT !.at = "writing", !.rows = list]
  BY <1>2, <1>3, <1>4, <1>5, <1>6, <1>7 DEF AddRow
<1>9. /\ process' \in Works /\ process'.at = "writing" /\ process'.implementation = process.implementation
      /\ process'.rows = list
  BY <1>7, <1>8, WorkIs DEF Works, Steps
<1>10. /\ Len(old) \in Nat /\ Len(list) = Len(old) + 1 /\ list[Len(old) + 1] = row
       /\ \A i \in 1..Len(old) : list[i] = old[i]
  BY <1>6, <1>7
<1>11. Frozen(list)
  <2>1. Frozen(old) /\ \A i \in 1..Len(old) : old[i].job # j
    BY <1>2, <1>6 DEF ReplayInv, ProcessInv, JudgedOfJob
  <2>2. row.job = j /\ row.by = pinned /\ row.judged \in {Incomplete, 1}
    BY <1>3, <1>5 DEF Incomplete
  <2>3. ASSUME NEW i \in 1..Len(list)
        PROVE  /\ list[i].judged \in {Incomplete, 1} /\ list[i].by = pinned
               /\ \A k \in 1..Len(list) : list[k].job = list[i].job => k = i
    <3>1. \A k \in 1..Len(list) : k \in 1..Len(old) \/ k = Len(old) + 1
      BY <1>10
    <3>2. CASE i = Len(old) + 1
      BY <1>10, <2>1, <2>2, <3>1, <3>2
    <3>3. CASE i \in 1..Len(old)
      BY <1>10, <2>1, <2>2, <3>1, <3>3 DEF Frozen
    <3>4. QED
      BY <3>1, <3>2, <3>3
  <2>4. QED
    BY <2>3 DEF Frozen
<1>12. RowsAreHeld'
  <2>1. ASSUME NEW i \in 1..Len(rows)
        PROVE  Has(list, rows[i]) \/ (Retryable(rows[i]) /\ Traced(rows[i]))
    <3>1. \/ Has(old, rows[i]) \/ (Retryable(rows[i]) /\ Traced(rows[i]))
      BY <1>1, <1>6 DEF ReplayInv, ProcessInv, RowsAreHeld
    <3>2. Has(old, rows[i]) => Has(list, rows[i])
      <4>1. \A k \in 1..Len(old) : k \in 1..Len(list) /\ list[k] = old[k]
        BY <1>10
      <4>2. QED
        BY <4>1 DEF Has
    <3>3. QED
      BY <3>1, <3>2
  <2>2. QED
    BY <1>1, <1>9, <2>1 DEF RowsAreHeld, Traced, Has
<1>13. ReplayTypes'
  BY <1>1, <1>9 DEF ReplayInv, ReplayTypes, workVars
<1>14. Frozen(rows)' /\ Frozen(process.rows)'
  <2>1. Frozen(rows)
    BY DEF ReplayInv, ProcessInv
  <2>2. QED
    BY <1>1, <1>9, <1>11, <2>1 DEF Frozen, workVars
<1>15. ProcessInv'
  BY <1>1, <1>9, <1>12, <1>14 DEF ReplayInv, ProcessInv, BackfillInv, Looked, workVars
<1>16. QED
  BY <1>13, <1>15 DEF ReplayInv

-----------------------------------------------------------------------------
(* The replay: the backfill's steps *)

LEMMA TakeRecordKeeps == ASSUME ReplayInv, TakeRecord PROVE ReplayInv'
<1>1. /\ process.at = "taking" /\ process.job < JobCount
      /\ UNCHANGED workVars /\ UNCHANGED <<rows, history, records>>
  BY DEF TakeRecord
<1>2. CASE process' = NoProcess
  BY <1>1, <1>2, WorkIs, ProcessEnds DEF workVars
<1>3. PICK j \in JobNumbers : j = process.job + 1
  <2>1. process.job \in 0..JobCount /\ JobCount \in Nat
    BY WorkIs, ReplayAssumption DEF JobNumbers
  <2>2. process.job + 1 \in JobNumbers
    BY <1>1, <2>1 DEF JobNumbers
  <2>3. QED
    BY <2>2
<1>4. CASE process' = [process EXCEPT !.job = j]
  <2>1. /\ process' \in Works /\ process'.at = "taking" /\ process'.implementation = process.implementation
        /\ process'.rows = process.rows
    BY <1>1, <1>4, WorkIs DEF Works
  <2>2. ReplayTypes'
    BY <1>1, <2>1 DEF ReplayInv, ReplayTypes, workVars
  <2>3. Frozen(rows)' /\ Frozen(process.rows)'
    BY <1>1, <2>1 DEF ReplayInv, ProcessInv, Frozen, workVars
  <2>4. ProcessInv'
    BY <1>1, <2>1, <2>3 DEF ReplayInv, ProcessInv, BackfillInv, Looked, workVars
  <2>5. QED
    BY <2>2, <2>4 DEF ReplayInv
<1>5. CASE /\ records[j].status # "completed"
           /\ process' = [process EXCEPT !.job = j, !.at = "scoring", !.of = candidate[j]]
  <2>1. PICK of \in {1, 2} : of = candidate[j]
    BY WorkIs
  <2>2. process' = [process EXCEPT !.job = j, !.at = "scoring", !.of = of]
    BY <1>5, <2>1
  <2>3. /\ process' \in Works /\ process'.at = "scoring" /\ process'.implementation = process.implementation
        /\ process'.rows = process.rows /\ process'.job = j /\ process'.of = candidate[j]
    BY <2>1, <2>2, WorkIs DEF Works, Steps
  <2>4. ReplayTypes'
    BY <1>1, <2>3 DEF ReplayInv, ReplayTypes, workVars
  <2>5. Frozen(rows)' /\ Frozen(process.rows)'
    BY <1>1, <2>3 DEF ReplayInv, ProcessInv, Frozen, workVars
  <2>6. ScoredOfJob(process.job)'
    BY <1>1, <1>5, <2>1, <2>3 DEF ScoredOfJob, Looked, workVars
  <2>7. ProcessInv'
    BY <1>1, <2>3, <2>5, <2>6 DEF ReplayInv, ProcessInv, BackfillInv, Looked, workVars
  <2>8. QED
    BY <2>4, <2>7 DEF ReplayInv
<1>6. \/ process' = NoProcess \/ process' = [process EXCEPT !.job = j]
      \/ /\ records[j].status # "completed"
         /\ process' = [process EXCEPT !.job = j, !.at = "scoring", !.of = candidate[j]]
  BY <1>3 DEF TakeRecord
<1>7. QED
  BY <1>2, <1>4, <1>5, <1>6

LEMMA ScoreKeeps == ASSUME ReplayInv, Score PROVE ReplayInv'
<1>1. process.at = "scoring" /\ UNCHANGED workVars /\ UNCHANGED <<rows, history, records>>
  BY DEF Score
<1>2. PICK j \in JobNumbers : j = process.job /\ ScoredOfJob(j)
  BY <1>1 DEF ReplayInv, ProcessInv, ScoredOfJob
<1>3. PICK result \in {0, 1, 2} :
           /\ result \in {Incomplete, candidate[j]}
           /\ process' = [process EXCEPT !.at = "recording", !.judged = result]
  BY <1>2, WorkIs DEF Score, Incomplete
<1>4. /\ process' \in Works /\ process'.at = "recording" /\ process'.implementation = process.implementation
      /\ process'.rows = process.rows /\ process'.job = j /\ process'.of = process.of
      /\ process'.judged = result
  BY <1>2, <1>3, WorkIs DEF Works, Steps
<1>5. ReplayTypes'
  BY <1>1, <1>4 DEF ReplayInv, ReplayTypes, workVars
<1>6. ScoredOfJob(process.job)'
  <2>1. UNCHANGED candidate
    BY <1>1 DEF workVars
  <2>2. result = Incomplete \/ result = process.of \/ process.of # candidate[j]
    BY <1>3
  <2>3. QED
    BY <1>1, <1>2, <1>4, <2>1, <2>2 DEF ScoredOfJob, Looked
<1>7. Frozen(rows)' /\ Frozen(process.rows)'
  BY <1>1, <1>4 DEF ReplayInv, ProcessInv, Frozen, workVars
<1>8. ProcessInv'
  BY <1>1, <1>4, <1>6, <1>7 DEF ReplayInv, ProcessInv, BackfillInv, Looked, workVars
<1>9. QED
  BY <1>5, <1>8 DEF ReplayInv

LEMMA WriteRecordKeeps == ASSUME ReplayInv, WriteRecord PROVE ReplayInv'
<1>1. process.at = "recording" /\ UNCHANGED workVars /\ UNCHANGED <<rows, history>>
  BY DEF WriteRecord
<1>2. PICK j \in JobNumbers : j = process.job /\ ScoredOfJob(j)
  BY <1>1 DEF ReplayInv, ProcessInv, ScoredOfJob
<1>3. PICK word \in {"failed", "completed"} :
           /\ word = IF process.judged = Incomplete THEN "failed" ELSE "completed"
           /\ word = "completed" => process.judged # Incomplete
  OBVIOUS
<1> DEFINE entry == [status |-> word, of |-> process.of, judged |-> process.judged,
                     by |-> process.implementation]
<1>4. /\ entry \in RecordsOf /\ entry.status = word
      /\ entry.of = process.of /\ entry.judged = process.judged /\ entry.by = process.implementation
      /\ records' = [records EXCEPT ![j] = entry]
  BY <1>2, <1>3, WorkIs DEF WriteRecord, RecordsOf
<1> HIDE DEF entry
<1>5. /\ process' \in Works /\ process'.at = "taking" /\ process'.implementation = process.implementation
      /\ process'.rows = process.rows
  BY WorkIs DEF WriteRecord, Works, Steps
<1>6. ReplayTypes'
  BY <1>1, <1>2, <1>3, <1>4, <1>5, WorkIs DEF ReplayInv, ReplayTypes, workVars
<1>7. Frozen(rows)' /\ Frozen(process.rows)'
  BY <1>1, <1>5 DEF ReplayInv, ProcessInv, Frozen, workVars
<1>8. pinned # 0 /\ process.implementation = pinned
  BY <1>1 DEF ReplayInv, ProcessInv
<1>9. \A k \in JobNumbers : BackfillInv(k)'
  <2>1. TAKE k \in JobNumbers
  <2>2. UNCHANGED <<candidate, pinned>>
    BY <1>1 DEF workVars
  <2>3. CASE k = j
    <3>1. records'[k] = entry
      BY <1>4, <2>3, WorkIs
    <3>2. word = "completed" => entry.judged = entry.of \/ entry.of # candidate[j]
      BY <1>1, <1>2, <1>3, <1>4 DEF ScoredOfJob
    <3>3. Looked(entry.of, j)
      BY <1>2, <1>4 DEF ScoredOfJob
    <3>4. QED
      BY <1>3, <1>4, <1>8, <2>2, <2>3, <3>1, <3>2, <3>3 DEF BackfillInv, Looked
  <2>4. CASE k # j
    <3>1. records'[k] = records[k]
      BY <1>4, <2>4, WorkIs
    <3>2. QED
      BY <2>2, <3>1 DEF ReplayInv, ProcessInv, BackfillInv, Looked
  <2>5. QED
    BY <2>3, <2>4
<1>10. ProcessInv'
  BY <1>1, <1>5, <1>7, <1>8, <1>9 DEF ReplayInv, ProcessInv, BackfillInv, Looked, workVars
<1>11. QED
  BY <1>6, <1>10 DEF ReplayInv

-----------------------------------------------------------------------------
(* The replay: ends and mishaps *)

LEMMA SomeEnd ==
  ASSUME ReplayInv, Summarize \/ Backfilled \/ Dies
  PROVE  ReplayInv'
<1>1. /\ process' = NoProcess
      /\ UNCHANGED <<flavour, candidate, implementation, pinned, rows, records>>
  BY DEF Summarize, Backfilled, Dies, workVars
<1>2. history' \in Seq(Lines)
  BY HistoryLasts DEF ReplayNext
<1>3. QED
  BY <1>1, <1>2, ProcessEnds

\* A candidate that is changed stays so.
LEMMA MishapKeeps == ASSUME ReplayInv, Mishap PROVE ReplayInv'
<1>1. UNCHANGED <<flavour, pinned, rows, history, records, process>>
  BY DEF Mishap
<1>2. /\ candidate' \in [JobNumbers -> {1, 2}] /\ implementation' \in {1, 2}
      /\ \A j \in JobNumbers : candidate'[j] = 1 => candidate[j] = 1
      /\ \A j \in JobNumbers : candidate[j] = 2 => candidate'[j] = 2
  BY WorkIs DEF Mishap
<1>3. ReplayTypes'
  BY <1>1, <1>2 DEF ReplayInv, ReplayTypes
<1>4. process.at \in {"judging", "checking"} => JudgedOfJob(process.job)'
  BY <1>1, <1>2 DEF ReplayInv, ProcessInv, JudgedOfJob
<1>5. process.at \in {"scoring", "recording"} => ScoredOfJob(process.job)'
  BY <1>1, <1>2, WorkIs DEF ReplayInv, ProcessInv, ScoredOfJob, Looked
<1>6. Frozen(rows)' /\ Frozen(process.rows)' /\ (RowsAreHeld => RowsAreHeld')
  BY <1>1 DEF ReplayInv, ProcessInv, Frozen, RowsAreHeld, Traced, Has
<1>7. \A j \in JobNumbers : BackfillInv(j)'
  BY <1>1, <1>2, WorkIs DEF ReplayInv, ProcessInv, BackfillInv, Looked
<1>8. ProcessInv'
  BY <1>1, <1>4, <1>5, <1>6, <1>7 DEF ReplayInv, ProcessInv
<1>9. QED
  BY <1>3, <1>8 DEF ReplayInv

\* Steps that change nothing the invariant is about.
LEMMA NothingHappens ==
  ASSUME ReplayInv, UNCHANGED <<flavour, candidate, implementation, pinned, rows, history, records, process>>
  PROVE  ReplayInv'
<1>1. ReplayTypes'
  BY DEF ReplayInv, ReplayTypes
<1>2. Frozen(rows)' /\ Frozen(process.rows)' /\ (RowsAreHeld => RowsAreHeld')
  BY DEF ReplayInv, ProcessInv, Frozen, RowsAreHeld, Traced, Has
<1>3. ProcessInv'
  BY <1>2 DEF ReplayInv, ProcessInv, JudgedOfJob, ScoredOfJob, BackfillInv, Looked
<1>4. QED
  BY <1>1, <1>3 DEF ReplayInv

-----------------------------------------------------------------------------
(* The replay: theorems *)

LEMMA ReplayKept ==
  ASSUME ReplayInv, [ReplayNext]_frozenVars
  PROVE  ReplayInv'
<1>1. CASE UNCHANGED frozenVars
  BY <1>1, NothingHappens DEF frozenVars
<1>2. CASE SecondPasses
  BY <1>2, NothingHappens DEF SecondPasses
<1>3. QED
  BY <1>1, <1>2, StartReplayKeeps, LoadRowsKeeps, WriteRowsKeeps, TakeJobKeeps, JudgeJobKeeps,
     AddRowKeeps, TakeRecordKeeps, ScoreKeeps, WriteRecordKeeps, SomeEnd, MishapKeeps
  DEF ReplayNext

\* The invariant: what a replay or a backfill holds in memory agrees with what it has written,
\* with its manifest and with the candidates, wherever it is killed.
THEOREM ReplayInvariance == ReplaySpec => []ReplayInv
<1>1. QED
  BY ReplayBegins, ReplayKept, PTL DEF ReplaySpec

\* The results of a directory are of one edition of the sources that its manifest names, one
\* for a job, and of the candidate that was fixed or of one that is gone by now, for any
\* number of jobs, starts and changes, whenever they are changed.
THEOREM ReplayFrozen == ReplaySpec => []ReplayIsFrozen
<1>1. ReplayInv => ReplayIsFrozen
  <2>1. SUFFICES ASSUME ReplayInv PROVE ReplayIsFrozen
    OBVIOUS
  <2>2. Frozen(rows) /\ DOMAIN rows = 1..Len(rows)
    BY <2>1, WorkIs DEF ReplayInv, ProcessInv
  <2>3. QED
    BY <2>1, <2>2 DEF ReplayIsFrozen, Frozen, ReplayInv, ProcessInv, BackfillInv, RecordIsCurrent
<1>2. QED
  BY <1>1, ReplayInvariance, PTL

LEMMA RowsLeaveTraces ==
  ASSUME ReplayInv, [ReplayNext]_frozenVars
  PROVE  /\ \A i \in DOMAIN rows : rows[i] \notin Range(rows') =>
              Retryable(rows[i]) /\ (rows[i] \in Range(history) \/ GluedLine \in Range(history))
         /\ LinesLast(history, history')
         /\ \A j \in JobNumbers : records[j].status = "completed" => records'[j] = records[j]
<1>1. /\ rows \in Seq(Rows) /\ history \in Seq(Lines) /\ Len(history) \in Nat
      /\ DOMAIN rows = 1..Len(rows) /\ DOMAIN history = 1..Len(history)
  BY WorkIs
<1>2. UNCHANGED rows \/ WriteRows
  BY DEF ReplayNext, frozenVars, StartReplay, LoadRows, TakeJob, JudgeJob, AddRow, Summarize,
         TakeRecord, Score, WriteRecord, Backfilled, Dies, Mishap, SecondPasses
<1>3. ASSUME NEW i \in DOMAIN rows, rows[i] \notin Range(rows')
      PROVE  Retryable(rows[i]) /\ (rows[i] \in Range(history) \/ GluedLine \in Range(history))
  <2>1. CASE UNCHANGED rows
    BY <1>3, <2>1 DEF Range
  <2>2. CASE WriteRows
    <3>1. process.at = "writing" /\ rows' = process.rows /\ process.rows \in Seq(Rows)
      BY <2>2, WorkIs DEF WriteRows
    <3>2. Has(process.rows, rows[i]) \/ (Retryable(rows[i]) /\ Traced(rows[i]))
      BY <1>1, <1>3, <3>1 DEF ReplayInv, ProcessInv, RowsAreHeld
    <3>3. ~Has(process.rows, rows[i])
      <4>1. DOMAIN process.rows = 1..Len(process.rows)
        BY <3>1
      <4>2. QED
        BY <1>3, <3>1, <4>1 DEF Has, Range
    <3>4. QED
      BY <1>1, <3>2, <3>3 DEF Traced, Has, Range
  <2>3. QED
    BY <1>2, <2>1, <2>2
<1>4. LinesLast(history, history')
  BY HistoryLasts
<1>5. UNCHANGED records \/ WriteRecord
  BY DEF ReplayNext, frozenVars, StartReplay, LoadRows, WriteRows, TakeJob, JudgeJob, AddRow,
         Summarize, TakeRecord, Score, Backfilled, Dies, Mishap, SecondPasses
<1>6. ASSUME NEW j \in JobNumbers, records[j].status = "completed"
      PROVE  records'[j] = records[j]
  <2>1. CASE UNCHANGED records
    BY <2>1
  <2>2. CASE WriteRecord
    <3>1. process.at = "recording"
      BY <2>2 DEF WriteRecord
    <3>2. process.job # j
      BY <1>6, <3>1 DEF ReplayInv, ProcessInv, ScoredOfJob
    <3>3. QED
      BY <2>2, <3>2, WorkIs DEF WriteRecord
  <2>3. QED
    BY <1>5, <2>1, <2>2
<1>7. QED
  BY <1>3, <1>4, <1>6

\* What was completed is never done again, and a row that goes is in the history or glued to a
\* line of it that was cut short.
THEOREM ReplayLasts == ReplaySpec => ReplayRecordsLast
<1>1. ReplayInv /\ [ReplayNext]_frozenVars =>
        [ /\ \A i \in DOMAIN rows : rows[i] \notin Range(rows') =>
               Retryable(rows[i]) /\ (rows[i] \in Range(history) \/ GluedLine \in Range(history))
          /\ \A i \in DOMAIN history :
               i \in DOMAIN history' /\ history'[i] \in {history[i]} \union
                 (IF history[i] = TornLine THEN {GluedLine} ELSE {})
          /\ \A j \in JobNumbers :
               records[j].status = "completed" => records'[j] = records[j] ]_frozenVars
  BY RowsLeaveTraces DEF LinesLast
<1>2. QED
  BY <1>1, ReplayInvariance, PTL DEF ReplaySpec, ReplayRecordsLast

-----------------------------------------------------------------------------
(* The services side by side *)

ServicesVars ==
  <<scenario, brokerVars, episodeVars, qaVars, frozenVars, transportVars, artifactVars>>

LEMMA StepOfEachService ==
  ASSUME [ServicesNext]_ServicesVars
  PROVE  /\ [BrokerNext]_brokerVars /\ [EpisodeNext]_episodeVars /\ [QANext]_qaVars
         /\ [ReplayNext]_frozenVars /\ [TransportNext]_transportVars /\ [ArtifactNext]_artifactVars
BY DEF ServicesNext, ServicesVars

\* The composition implements each of its parts: what is proved of the broker, an episode, the
\* drawing questions, a replay, the transport or the artifacts alone holds in it.
THEOREM ServicesImplement ==
  ServicesSpec => /\ BrokerSpec /\ EpisodeSpec /\ QASpec
                  /\ ReplaySpec /\ TransportSpec /\ ArtifactSpec
<1>1. ServicesInit => /\ BrokerInit /\ EpisodeInit /\ QAInit
                      /\ ReplayInit /\ TransportInit /\ ArtifactInit
  BY DEF ServicesInit
<1>2. [ServicesNext]_ServicesVars
        => /\ [BrokerNext]_brokerVars /\ [EpisodeNext]_episodeVars /\ [QANext]_qaVars
           /\ [ReplayNext]_frozenVars /\ [TransportNext]_transportVars
           /\ [ArtifactNext]_artifactVars
  BY StepOfEachService
<1>3. QED
  BY <1>1, <1>2, PTL
  DEF ServicesSpec, ServicesVars, BrokerSpec, EpisodeSpec, QASpec, ReplaySpec, TransportSpec,
      ArtifactSpec

\* Tasks are built from the questions that were audited, a replay's rows are of one edition of
\* the sources that its manifest names and of the candidates that the ledger names (a
\* backfill's too, or its next start raises), and an artifact's file is what its digest says
\* (FixedThingsAreUsed).
THEOREM FixedThingsUsed == ServicesSpec => []FixedThingsAreUsed
<1>1. QuestionsAreAudited /\ ReplayIsFrozen /\ ArtifactsAreTheirDigest => FixedThingsAreUsed
  BY DEF FixedThingsAreUsed
<1>2. QED
  BY <1>1, ServicesImplement, QuestionsAudited, ReplayFrozen, StoredIsItsDigest, PTL

\* The end of an episode, its verdict, the rows and records of a replay and the artifacts of a
\* project are never changed once they are recorded (ServicesRecordsLast).
THEOREM ServicesLast == ServicesSpec => ServicesRecordsLast
BY ServicesImplement, LastingEpisode, ReplayLasts, StoredLasts DEF ServicesRecordsLast
================================================================================
