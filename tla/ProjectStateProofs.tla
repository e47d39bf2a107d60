------------------------- MODULE ProjectStateProofs -------------------------
(***************************************************************************)
(* Proofs about ProjectState for every set of units, contracts, plans,     *)
(* artifacts and operations, every requirement and every attempt limit;    *)
(* and about what the parts of a project say of each other: every          *)
(* identifier resolves, and dependencies never make units wait for each    *)
(* other, because a unit depends only on units that were added before it.  *)
(***************************************************************************)
EXTENDS ProjectState, FiniteSetTheorems, WellFoundedInduction, TLAPS

-----------------------------------------------------------------------------
(* Type correctness *)

LEMMA InitTypeOK == Init => TypeOK
BY DEF Init, TypeOK, ProjectStatuses, AbsentArtifact, ArtifactRecords, NoDefinition,
       Definitions, WorkStatuses, NoExecution, NoGate, Gates, AbsentOperation,
       OperationRecords

\* Project events touch nothing but the project's status.
LEMMA ProjectEventTypeOK == TypeOK /\ ProjectEvent => TypeOK'
BY DEF TypeOK, ProjectEvent, ProjectCreated, ProjectPaused, ProjectResumed,
       ProjectCompleted, ProjectAbandoned, ProjectStatuses, TerminalProjectStatuses,
       planVars, unitVars

LEMMA PlanningEventTypeOK == TypeOK /\ PlanningEvent => TypeOK'
<1> SUFFICES ASSUME TypeOK, PlanningEvent PROVE TypeOK'
  OBVIOUS
<1>1. ASSUME NEW p \in Plans, NEW parent \in Plans \union {None}, PlanRegistered(p, parent)
      PROVE  TypeOK'
  BY <1>1 DEF PlanRegistered, TypeOK, unitVars
<1>2. ASSUME NEW c \in Contracts, ContractRegistered(c)
      PROVE  TypeOK'
  BY <1>2 DEF ContractRegistered, TypeOK, unitVars
<1>3. ASSUME NEW a \in Artifacts, NEW kind \in Kinds, NEW producer \in Units \union {None},
             NEW parents \in SUBSET Artifacts, ArtifactRegistered(a, kind, producer, parents)
      PROVE  TypeOK'
  <2>1. artifacts' \in [Artifacts -> ArtifactRecords]
    BY <1>3 DEF ArtifactRegistered, TypeOK, ArtifactRecords
  <2>2. QED
    BY <1>3, <2>1 DEF ArtifactRegistered, TypeOK, unitVars
<1>4. ASSUME NEW u \in Units, NEW deps \in SUBSET Units,
             NEW contract \in Contracts \union {None}, NEW plan \in Plans \union {None},
             NEW inputs \in SUBSET Artifacts, NEW limit \in AttemptLimits,
             WorkUnitAdded(u, deps, contract, plan, inputs, limit)
      PROVE  TypeOK'
  <2>1. definition' \in [Units -> Definitions]
    BY <1>4 DEF WorkUnitAdded, AddUnit, TypeOK, Definitions
  <2>2. workOrder' \in Seq(Units)
    BY <1>4 DEF WorkUnitAdded, AddUnit, TypeOK
  <2>3. /\ status' \in [Units -> WorkStatuses \union {"absent"}]
        /\ maxAttempts' \in [Units -> Nat]
    BY <1>4, LimitAssumption DEF WorkUnitAdded, AddUnit, TypeOK, WorkStatuses
  <2>4. QED
    BY <1>4, <2>1, <2>2, <2>3 DEF WorkUnitAdded, AddUnit, TypeOK
<1>5. QED
  BY <1>1, <1>2, <1>3, <1>4 DEF PlanningEvent

LEMMA LeaveTypeOK ==
  ASSUME TypeOK, NEW u \in Units, NEW outcome \in WorkStatuses, Leave(u, outcome)
  PROVE  TypeOK'
BY DEF Leave, TypeOK, planVars, NoExecution

LEMMA UnitEventTypeOK == TypeOK /\ UnitEvent => TypeOK'
<1> SUFFICES ASSUME TypeOK, NEW u \in Units,
                    \/ WorkUnitStarted(u)
                    \/ \E additional \in 0..AttemptCap : WorkUnitReopened(u, additional)
                    \/ \E e \in 1..attempts[u] :
                         \/ \E verdict \in BOOLEAN : ContractEvaluated(u, e, verdict)
                         \/ WorkUnitSucceeded(u, e)
                         \/ WorkUnitReturned(u, e)
                         \/ \E outcome \in {"blocked", "failed", "cancelled"} :
                              WorkUnitStopped(u, e, outcome)
             PROVE  TypeOK'
  BY DEF UnitEvent
<1>1. CASE WorkUnitStarted(u)
  BY <1>1 DEF WorkUnitStarted, TypeOK, planVars, WorkStatuses
<1>2. ASSUME NEW additional \in 0..AttemptCap, WorkUnitReopened(u, additional)
      PROVE  TypeOK'
  <2>1. maxAttempts' \in [Units -> Nat]
    BY <1>2, LimitAssumption DEF WorkUnitReopened, TypeOK
  <2>2. gate' \in [Units -> Gates]
    BY <1>2 DEF WorkUnitReopened, TypeOK, NoGate, NoExecution, Gates
  <2>3. QED
    BY <1>2, <2>1, <2>2 DEF WorkUnitReopened, TypeOK, planVars, WorkStatuses
<1>3. ASSUME NEW e \in 1..attempts[u], NEW verdict \in BOOLEAN, ContractEvaluated(u, e, verdict)
      PROVE  TypeOK'
  <2>1. (InputsSatisfied(u) /\ OutputsSatisfied(u) /\ verdict) \in BOOLEAN
    BY Zenon
  <2>2. e \in Nat
    BY DEF TypeOK
  <2>3. gate' \in [Units -> Gates]
    BY <1>3, <2>1, <2>2 DEF ContractEvaluated, TypeOK, Gates
  <2>4. QED
    BY <1>3, <2>3 DEF ContractEvaluated, TypeOK, planVars
<1>4. ASSUME NEW e \in 1..attempts[u], WorkUnitSucceeded(u, e)
      PROVE  TypeOK'
  BY <1>4, LeaveTypeOK DEF WorkUnitSucceeded, WorkStatuses
<1>5. ASSUME NEW e \in 1..attempts[u], WorkUnitReturned(u, e)
      PROVE  TypeOK'
  BY <1>5, LeaveTypeOK DEF WorkUnitReturned, WorkStatuses
<1>6. ASSUME NEW e \in 1..attempts[u], NEW outcome \in {"blocked", "failed", "cancelled"},
             WorkUnitStopped(u, e, outcome)
      PROVE  TypeOK'
  BY <1>6, LeaveTypeOK DEF WorkUnitStopped, WorkStatuses
<1>7. QED
  BY <1>1, <1>2, <1>3, <1>4, <1>5, <1>6

LEMMA OperationEventTypeOK == TypeOK /\ OperationEvent => TypeOK'
<1> SUFFICES ASSUME TypeOK, NEW o \in Operations,
                    \/ \E u \in Units : \E e \in 1..attempts[u] :
                         OperationStarted(o, u, e) \/ OperationRetryStarted(o, u, e)
                    \/ \E outcome \in {"completed", "uncertain"} : OperationEnded(o, outcome)
                    \/ \E disposition \in {"adopt", "compensate", "retry"} :
                         OperationReconciled(o, disposition)
             PROVE  TypeOK'
  BY DEF OperationEvent
<1>1. ASSUME NEW u \in Units, NEW e \in 1..attempts[u],
             OperationStarted(o, u, e) \/ OperationRetryStarted(o, u, e)
      PROVE  TypeOK'
  <2>1. e \in Nat
    BY DEF TypeOK
  <2>2. operations' \in [Operations -> OperationRecords]
    <3>1. operations[o].attempts + 1 \in Nat
      BY DEF TypeOK, OperationRecords
    <3>2. \A n \in Nat : [status |-> "running", attempts |-> n, unit |-> u, execution |-> e]
                            \in OperationRecords
      BY <2>1 DEF OperationRecords, OperationStatuses
    <3>3. CASE OperationStarted(o, u, e)
      BY <3>2, <3>3 DEF OperationStarted, TypeOK
    <3>4. CASE OperationRetryStarted(o, u, e)
      BY <3>1, <3>2, <3>4 DEF OperationRetryStarted, TypeOK
    <3>5. QED
      BY <1>1, <3>3, <3>4
  <2>3. QED
    BY <1>1, <2>2 DEF OperationStarted, OperationRetryStarted, TypeOK, planVars, unitVars
<1>2. ASSUME NEW outcome \in {"completed", "uncertain"}, OperationEnded(o, outcome)
      PROVE  TypeOK'
  <2>1. operations' \in [Operations -> OperationRecords]
    BY <1>2 DEF OperationEnded, Marked, TypeOK, OperationRecords, OperationStatuses
  <2>2. QED
    BY <1>2, <2>1 DEF OperationEnded, TypeOK, planVars, unitVars
<1>3. ASSUME NEW disposition \in {"adopt", "compensate", "retry"},
             OperationReconciled(o, disposition)
      PROVE  TypeOK'
  <2>1. ReconciledStatus(disposition) \in OperationStatuses
    BY DEF ReconciledStatus, OperationStatuses
  <2>2. operations' \in [Operations -> OperationRecords]
    BY <1>3, <2>1 DEF OperationReconciled, Marked, TypeOK, OperationRecords
  <2>3. QED
    BY <1>3, <2>2 DEF OperationReconciled, TypeOK, planVars, unitVars
<1>4. QED
  BY <1>1, <1>2, <1>3

LEMMA StutterTypeOK == TypeOK /\ UNCHANGED vars => TypeOK'
BY DEF TypeOK, vars, planVars, unitVars

\* Every variable always has its type.
THEOREM TypeCorrect == Spec => []TypeOK
<1>1. TypeOK /\ [Next]_vars => TypeOK'
  BY ProjectEventTypeOK, PlanningEventTypeOK, UnitEventTypeOK, OperationEventTypeOK,
     StutterTypeOK DEF Next
<1>2. QED
  BY InitTypeOK, <1>1, PTL DEF Spec

-----------------------------------------------------------------------------
(* The inductive invariant, proved one group of events at a time *)

IInv ==
  /\ TypeOK
  /\ ExecutionBinding
  /\ PendingHasBudget
  /\ DependenciesHonoured
  /\ CompletionIsSound
  /\ HistoryInv
  /\ SuccessIsGated

\* More artifacts never undo a satisfied requirement.
LEMMA MoreArtifactsSatisfy ==
  ASSUME TypeOK, NEW required \in [Kinds -> Nat],
         NEW ids \in SUBSET Artifacts, NEW ids2 \in SUBSET Artifacts,
         RequirementsSatisfied(required, ids),
         \A k \in Kinds : OfKind(ids, k) \subseteq OfKind(ids2, k)'
  PROVE  RequirementsSatisfied(required, ids2)'
<1> SUFFICES ASSUME NEW k \in Kinds
             PROVE  Cardinality(OfKind(ids2, k)') >= required[k]
  BY DEF RequirementsSatisfied
<1>1. IsFiniteSet(OfKind(ids2, k)')
  BY FiniteAssumption, FS_Subset DEF OfKind
<1>2. OfKind(ids, k) \subseteq OfKind(ids2, k)'
  OBVIOUS
<1>3. /\ IsFiniteSet(OfKind(ids, k))
      /\ Cardinality(OfKind(ids, k)) <= Cardinality(OfKind(ids2, k)')
  BY <1>1, <1>2, FS_Subset
<1>4. /\ Cardinality(OfKind(ids, k)) \in Nat
      /\ Cardinality(OfKind(ids2, k)') \in Nat
  BY <1>1, <1>3, FS_CardinalityType
<1>5. Cardinality(OfKind(ids, k)) >= required[k] /\ required[k] \in Nat
  BY DEF RequirementsSatisfied
<1>6. QED
  BY <1>3, <1>4, <1>5

LEMMA ArtifactsOnlyAdded ==
  ASSUME TypeOK, [Next]_vars, NEW a \in Registered
  PROVE  artifacts'[a] = artifacts[a]
<1>1. CASE PlanningEvent
  <2>1. ASSUME NEW b \in Artifacts, NEW kind \in Kinds, NEW producer \in Units \union {None},
               NEW parents \in SUBSET Artifacts, ArtifactRegistered(b, kind, producer, parents)
        PROVE  artifacts'[a] = artifacts[a]
    BY <2>1 DEF ArtifactRegistered, TypeOK, Registered
  <2>2. QED
    BY <1>1, <2>1 DEF PlanningEvent, PlanRegistered, ContractRegistered, WorkUnitAdded, AddUnit
<1>2. CASE ProjectEvent
  BY <1>2 DEF ProjectEvent, ProjectCreated, ProjectPaused, ProjectResumed, ProjectCompleted,
              ProjectAbandoned, planVars
<1>3. CASE UnitEvent
  BY <1>3 DEF UnitEvent, WorkUnitStarted, WorkUnitReopened, ContractEvaluated,
              WorkUnitSucceeded, WorkUnitReturned, WorkUnitStopped, Leave, planVars
<1>4. CASE OperationEvent
  BY <1>4 DEF OperationEvent, OperationStarted, OperationRetryStarted, OperationEnded,
              OperationReconciled, planVars
<1>5. CASE UNCHANGED vars
  BY <1>5 DEF vars, planVars
<1>6. QED
  BY <1>1, <1>2, <1>3, <1>4, <1>5 DEF Next

LEMMA DefinitionsNeverChange ==
  ASSUME TypeOK, [Next]_vars, NEW u \in Added
  PROVE  definition'[u] = definition[u]
<1>1. CASE PlanningEvent
  <2>1. ASSUME NEW v \in Units, NEW deps \in SUBSET Units,
               NEW contract \in Contracts \union {None}, NEW plan \in Plans \union {None},
               NEW inputs \in SUBSET Artifacts, NEW limit \in AttemptLimits,
               WorkUnitAdded(v, deps, contract, plan, inputs, limit)
        PROVE  definition'[u] = definition[u]
    BY <2>1 DEF WorkUnitAdded, AddUnit, TypeOK, Added
  <2>2. QED
    BY <1>1, <2>1 DEF PlanningEvent, PlanRegistered, ContractRegistered, ArtifactRegistered
<1>2. CASE ProjectEvent
  BY <1>2 DEF ProjectEvent, ProjectCreated, ProjectPaused, ProjectResumed, ProjectCompleted,
              ProjectAbandoned, planVars
<1>3. CASE UnitEvent
  BY <1>3 DEF UnitEvent, WorkUnitStarted, WorkUnitReopened, ContractEvaluated,
              WorkUnitSucceeded, WorkUnitReturned, WorkUnitStopped, Leave, planVars
<1>4. CASE OperationEvent
  BY <1>4 DEF OperationEvent, OperationStarted, OperationRetryStarted, OperationEnded,
              OperationReconciled, planVars
<1>5. CASE UNCHANGED vars
  BY <1>5 DEF vars, planVars
<1>6. QED
  BY <1>1, <1>2, <1>3, <1>4, <1>5 DEF Next

\* Once the contract of an added unit is met on one side, it stays met on that side.
LEMMA EvidencePersists ==
  ASSUME TypeOK, TypeOK', [Next]_vars, NEW u \in Added
  PROVE  /\ InputsSatisfied(u) => InputsSatisfied(u)'
         /\ OutputsSatisfied(u) => OutputsSatisfied(u)'
<1> PICK c \in Contracts \union {None} : c = definition[u].contract
  BY DEF TypeOK, Definitions, Added
<1>1. /\ definition'[u] = definition[u]
      /\ u \in Units
      /\ definition[u] \in Definitions
  BY DefinitionsNeverChange DEF Added, TypeOK
<1>2. \A a \in Registered : a \in Artifacts /\ a \in Registered' /\ artifacts'[a] = artifacts[a]
  BY ArtifactsOnlyAdded DEF Registered
<1>3. \A ids \in SUBSET Artifacts, k \in Kinds : OfKind(ids, k) \subseteq Registered
  BY NoneAssumption DEF OfKind, Registered
<1>4. ASSUME InputsSatisfied(u), c # None
      PROVE  InputsSatisfied(u)'
  <2>1. /\ UnitInputArtifacts(u) \in SUBSET Artifacts
        /\ UnitInputArtifacts(u)' \in SUBSET Artifacts
    BY <1>1 DEF UnitInputArtifacts, Registered, Definitions
  <2>2. UnitInputArtifacts(u) \subseteq UnitInputArtifacts(u)'
    BY <1>1, <1>2 DEF UnitInputArtifacts
  <2>3. \A k \in Kinds : OfKind(UnitInputArtifacts(u), k) \subseteq OfKind(UnitInputArtifacts(u), k)'
    BY <1>2, <1>3, <2>1, <2>2 DEF OfKind
  <2>4. InputRequirements[c] \in [Kinds -> Nat]
    BY <1>4, RequirementAssumption
  <2>5. RequirementsSatisfied(InputRequirements[c], UnitInputArtifacts(u))
    BY <1>4 DEF InputsSatisfied
  <2>6. PICK ids2 \in SUBSET Artifacts : ids2 = UnitInputArtifacts(u)'
    BY <2>1
  <2>7. \A k \in Kinds : OfKind(UnitInputArtifacts(u), k) \subseteq OfKind(ids2, k)'
    BY <2>3, <2>6 DEF OfKind
  <2>8. RequirementsSatisfied(InputRequirements[c], ids2)'
    BY <2>1, <2>4, <2>5, <2>7, MoreArtifactsSatisfy
  <2>9. RequirementsSatisfied(InputRequirements[c], UnitInputArtifacts(u))'
    BY <2>6, <2>8 DEF RequirementsSatisfied, OfKind
  <2>10. QED
    BY <1>1, <2>9 DEF InputsSatisfied
<1>5. ASSUME OutputsSatisfied(u), c # None
      PROVE  OutputsSatisfied(u)'
  <2>1. /\ ArtifactsOf(u) \in SUBSET Artifacts
        /\ ArtifactsOf(u)' \in SUBSET Artifacts
    BY DEF ArtifactsOf, Registered
  <2>2. ArtifactsOf(u) \subseteq ArtifactsOf(u)'
    BY <1>2 DEF ArtifactsOf
  <2>3. \A k \in Kinds : OfKind(ArtifactsOf(u), k) \subseteq OfKind(ArtifactsOf(u), k)'
    BY <1>2, <1>3, <2>1, <2>2 DEF OfKind
  <2>4. OutputRequirements[c] \in [Kinds -> Nat]
    BY <1>5, RequirementAssumption
  <2>5. RequirementsSatisfied(OutputRequirements[c], ArtifactsOf(u))
    BY <1>5 DEF OutputsSatisfied
  <2>6. PICK ids2 \in SUBSET Artifacts : ids2 = ArtifactsOf(u)'
    BY <2>1
  <2>7. \A k \in Kinds : OfKind(ArtifactsOf(u), k) \subseteq OfKind(ids2, k)'
    BY <2>3, <2>6 DEF OfKind
  <2>8. RequirementsSatisfied(OutputRequirements[c], ids2)'
    BY <2>1, <2>4, <2>5, <2>7, MoreArtifactsSatisfy
  <2>9. RequirementsSatisfied(OutputRequirements[c], ArtifactsOf(u))'
    BY <2>6, <2>8 DEF RequirementsSatisfied, OfKind
  <2>10. QED
    BY <1>1, <2>9 DEF OutputsSatisfied
<1>6. c = None => InputsSatisfied(u)' /\ OutputsSatisfied(u)'
  BY <1>1 DEF InputsSatisfied, OutputsSatisfied
<1>7. QED
  BY <1>4, <1>5, <1>6

LEMMA InitInvariant == Init => IInv
<1> SUFFICES ASSUME Init PROVE IInv
  OBVIOUS
<1>1. TypeOK
  BY InitTypeOK
<1>2. /\ ExecutionBinding
      /\ PendingHasBudget
      /\ DependenciesHonoured
      /\ CompletionIsSound
      /\ HistoryInv
      /\ SuccessIsGated
  BY DEF Init, ExecutionBinding, PendingHasBudget, DependenciesHonoured, CompletionIsSound,
         HistoryInv, SuccessIsGated, Exhausted, NoGate, NoExecution
<1>3. QED
  BY <1>1, <1>2 DEF IInv

\* A step that touches no unit and completes the project only when everything succeeded.
LEMMA UnitsUntouchedInvariant ==
  ASSUME IInv, TypeOK', [Next]_vars,
         UNCHANGED <<definition, status, attempts, maxAttempts, execution, gate>>,
         projectStatus' = "completed" => projectStatus = "completed" \/ AllSucceeded
  PROVE  IInv'
<1>1. ExecutionBinding' /\ PendingHasBudget' /\ DependenciesHonoured'
  BY DEF IInv, ExecutionBinding, PendingHasBudget, DependenciesHonoured, Exhausted,
         DependenciesSucceeded
<1>2. CompletionIsSound'
  BY DEF IInv, CompletionIsSound, AllSucceeded, Added
<1>3. ASSUME NEW u \in Units, status[u] # "absent"
      PROVE  /\ InputsSatisfied(u) => InputsSatisfied(u)'
             /\ OutputsSatisfied(u) => OutputsSatisfied(u)'
  BY <1>3, EvidencePersists DEF IInv, Added
<1>4. HistoryInv'
  <2> SUFFICES ASSUME NEW u \in Units
               PROVE  /\ status[u] = "absent" => attempts[u] = 0 /\ gate[u] = NoGate
                      /\ gate[u].passed => InputsSatisfied(u)' /\ OutputsSatisfied(u)'
    BY DEF HistoryInv, NoGate
  <2>1. status[u] = "absent" => ~gate[u].passed
    BY DEF IInv, HistoryInv, NoGate
  <2>2. QED
    BY <1>3, <2>1 DEF IInv, HistoryInv
<1>5. SuccessIsGated'
  BY <1>3 DEF IInv, SuccessIsGated, GatePassed
<1>6. QED
  BY <1>1, <1>2, <1>4, <1>5 DEF IInv

LEMMA ProjectEventInvariant == IInv /\ TypeOK' /\ ProjectEvent => IInv'
<1> SUFFICES ASSUME IInv, TypeOK', ProjectEvent PROVE IInv'
  OBVIOUS
<1>1. UNCHANGED <<definition, status, attempts, maxAttempts, execution, gate>>
  BY DEF ProjectEvent, ProjectCreated, ProjectPaused, ProjectResumed, ProjectCompleted,
         ProjectAbandoned, planVars, unitVars
<1>2. projectStatus' = "completed" => AllSucceeded
  BY DEF ProjectEvent, ProjectCreated, ProjectPaused, ProjectResumed, ProjectCompleted,
         ProjectAbandoned
<1>3. QED
  BY <1>1, <1>2, UnitsUntouchedInvariant DEF Next

LEMMA OperationEventInvariant == IInv /\ TypeOK' /\ OperationEvent => IInv'
<1> SUFFICES ASSUME IInv, TypeOK', OperationEvent PROVE IInv'
  OBVIOUS
<1>1. UNCHANGED <<projectStatus, definition, status, attempts, maxAttempts, execution, gate>>
  BY DEF OperationEvent, OperationStarted, OperationRetryStarted, OperationEnded,
         OperationReconciled, planVars, unitVars
<1>2. QED
  BY <1>1, UnitsUntouchedInvariant DEF Next

LEMMA WorkUnitAddedInvariant ==
  ASSUME IInv, TypeOK', [Next]_vars, NEW u \in Units, NEW deps, NEW contract, NEW plan,
         NEW inputs, NEW limit \in AttemptLimits,
         WorkUnitAdded(u, deps, contract, plan, inputs, limit)
  PROVE  IInv'
<1> USE DEF IInv
<1>1. /\ status' = [status EXCEPT ![u] = "pending"]
      /\ maxAttempts' = [maxAttempts EXCEPT ![u] = limit]
      /\ UNCHANGED <<projectStatus, attempts, execution, gate>>
      /\ status[u] = "absent" /\ attempts[u] = 0 /\ gate[u] = NoGate
      /\ limit \in Nat \ {0}
      /\ Active
  BY LimitAssumption DEF WorkUnitAdded, AddUnit, Added, HistoryInv
<1>2. ASSUME NEW v \in Units, v # u
      PROVE  status'[v] = status[v] /\ definition'[v] = definition[v]
             /\ maxAttempts'[v] = maxAttempts[v]
  BY <1>1, <1>2 DEF WorkUnitAdded, AddUnit, TypeOK
<1>3. status'[u] = "pending" /\ maxAttempts'[u] = limit
  BY <1>1 DEF TypeOK
<1>4. ExecutionBinding'
  BY <1>1, <1>2, <1>3 DEF ExecutionBinding
<1>5. PendingHasBudget'
  BY <1>1, <1>2, <1>3 DEF PendingHasBudget, Exhausted
<1>6. DependenciesHonoured'
  BY <1>1, <1>2, <1>3 DEF DependenciesHonoured, DependenciesSucceeded, TypeOK, Definitions
<1>7. CompletionIsSound'
  BY <1>1 DEF CompletionIsSound, Active
<1>8. ASSUME NEW v \in Units, v # u, status[v] # "absent"
      PROVE  /\ InputsSatisfied(v) => InputsSatisfied(v)'
             /\ OutputsSatisfied(v) => OutputsSatisfied(v)'
  BY <1>8, EvidencePersists DEF Added
<1>9. HistoryInv'
  BY <1>1, <1>2, <1>3, <1>8 DEF HistoryInv, NoGate
<1>10. SuccessIsGated'
  BY <1>1, <1>2, <1>3, <1>8 DEF SuccessIsGated, GatePassed
<1>11. QED
  BY <1>4, <1>5, <1>6, <1>7, <1>9, <1>10

LEMMA PlanningEventInvariant == IInv /\ TypeOK' /\ PlanningEvent => IInv'
<1> SUFFICES ASSUME IInv, TypeOK', PlanningEvent PROVE IInv'
  OBVIOUS
<1>1. [Next]_vars
  BY DEF Next
<1>2. ASSUME UNCHANGED <<projectStatus, definition, unitVars>>
      PROVE  IInv'
  BY <1>1, <1>2, UnitsUntouchedInvariant DEF unitVars
<1>3. CASE \E p \in Plans, parent \in Plans \union {None} : PlanRegistered(p, parent)
  BY <1>2, <1>3 DEF PlanRegistered
<1>4. CASE \E c \in Contracts : ContractRegistered(c)
  BY <1>2, <1>4 DEF ContractRegistered
<1>5. CASE \E a \in Artifacts, kind \in Kinds, producer \in Units \union {None},
              parents \in SUBSET Artifacts : ArtifactRegistered(a, kind, producer, parents)
  BY <1>2, <1>5 DEF ArtifactRegistered
<1>6. ASSUME NEW u \in Units, NEW deps \in SUBSET Units,
             NEW contract \in Contracts \union {None}, NEW plan \in Plans \union {None},
             NEW inputs \in SUBSET Artifacts, NEW limit \in AttemptLimits,
             WorkUnitAdded(u, deps, contract, plan, inputs, limit)
      PROVE  IInv'
  BY <1>1, <1>6, WorkUnitAddedInvariant
<1>7. QED
  BY <1>3, <1>4, <1>5, <1>6 DEF PlanningEvent

\* A unit's own events leave its definition and all artifacts as they were.
LEMMA EvidenceUnchanged ==
  ASSUME UNCHANGED planVars, NEW v \in Units
  PROVE  InputsSatisfied(v)' = InputsSatisfied(v) /\ OutputsSatisfied(v)' = OutputsSatisfied(v)
BY DEF planVars, InputsSatisfied, OutputsSatisfied, UnitInputArtifacts, ArtifactsOf,
       RequirementsSatisfied, OfKind, Registered

LEMMA StartedInvariant ==
  ASSUME IInv, TypeOK', NEW u \in Units, WorkUnitStarted(u)
  PROVE  IInv'
<1> USE DEF IInv
<1>1. /\ status[u] = "pending" /\ DependenciesSucceeded(u) /\ Active
      /\ attempts[u] < maxAttempts[u]
      /\ status' = [status EXCEPT ![u] = "running"]
      /\ attempts' = [attempts EXCEPT ![u] = @ + 1]
      /\ execution' = [execution EXCEPT ![u] = attempts[u] + 1]
      /\ UNCHANGED <<projectStatus, planVars, maxAttempts, gate>>
  BY DEF WorkUnitStarted, Ready
<1>2. ExecutionBinding'
  BY <1>1 DEF ExecutionBinding, TypeOK
<1>3. PendingHasBudget'
  BY <1>1 DEF PendingHasBudget, Exhausted, TypeOK
<1>4. DependenciesHonoured'
  BY <1>1 DEF DependenciesHonoured, DependenciesSucceeded, TypeOK, planVars, Definitions
<1>5. CompletionIsSound'
  BY <1>1 DEF CompletionIsSound, Active
<1>6. HistoryInv'
  BY <1>1, EvidenceUnchanged DEF HistoryInv, NoGate, TypeOK
<1>7. SuccessIsGated'
  BY <1>1, EvidenceUnchanged DEF SuccessIsGated, GatePassed, TypeOK, planVars
<1>8. QED
  BY <1>2, <1>3, <1>4, <1>5, <1>6, <1>7

LEMMA ReopenedInvariant ==
  ASSUME IInv, TypeOK', NEW u \in Units, NEW additional \in 0..AttemptCap,
         WorkUnitReopened(u, additional)
  PROVE  IInv'
<1> USE DEF IInv
<1>1. /\ status[u] \in {"blocked", "failed", "cancelled"} /\ Active
      /\ Exhausted(u) => additional >= 1
      /\ status' = [status EXCEPT ![u] = "pending"]
      /\ gate' = [gate EXCEPT ![u] = NoGate]
      /\ maxAttempts' = [maxAttempts EXCEPT ![u] = IF Exhausted(u) THEN @ + additional ELSE @]
      /\ UNCHANGED <<projectStatus, planVars, attempts, execution>>
  BY DEF WorkUnitReopened
<1>2. ExecutionBinding'
  BY <1>1 DEF ExecutionBinding, TypeOK
<1>3. PendingHasBudget'
  BY <1>1 DEF PendingHasBudget, Exhausted, TypeOK
<1>4. DependenciesHonoured'
  BY <1>1 DEF DependenciesHonoured, DependenciesSucceeded, TypeOK, planVars, Definitions
<1>5. CompletionIsSound'
  BY <1>1 DEF CompletionIsSound, Active
<1>6. HistoryInv'
  BY <1>1, EvidenceUnchanged DEF HistoryInv, NoGate, TypeOK
<1>7. SuccessIsGated'
  BY <1>1, EvidenceUnchanged DEF SuccessIsGated, GatePassed, TypeOK, planVars
<1>8. QED
  BY <1>2, <1>3, <1>4, <1>5, <1>6, <1>7

LEMMA EvaluatedInvariant ==
  ASSUME IInv, TypeOK', NEW u \in Units, NEW e \in 1..attempts[u], NEW verdict \in BOOLEAN,
         ContractEvaluated(u, e, verdict)
  PROVE  IInv'
<1> USE DEF IInv
<1>1. /\ status[u] = "running"
      /\ gate' = [gate EXCEPT ![u] =
           [execution |-> e, passed |-> InputsSatisfied(u) /\ OutputsSatisfied(u) /\ verdict]]
      /\ UNCHANGED <<projectStatus, planVars, status, attempts, maxAttempts, execution>>
  BY DEF ContractEvaluated, OwnsUnit
<1>2. ExecutionBinding' /\ PendingHasBudget' /\ DependenciesHonoured' /\ CompletionIsSound'
  BY <1>1 DEF ExecutionBinding, PendingHasBudget, Exhausted, DependenciesHonoured,
              DependenciesSucceeded, CompletionIsSound, AllSucceeded, Added, planVars
<1>3. /\ gate'[u].passed => InputsSatisfied(u) /\ OutputsSatisfied(u)
      /\ \A v \in Units \ {u} : gate'[v] = gate[v]
  BY <1>1 DEF TypeOK
<1>4. HistoryInv'
  BY <1>1, <1>3, EvidenceUnchanged DEF HistoryInv, NoGate
<1>5. SuccessIsGated'
  BY <1>1, <1>3, EvidenceUnchanged DEF SuccessIsGated, GatePassed, planVars
<1>6. QED
  BY <1>2, <1>4, <1>5

\* All six outcome events: the unit leaves "running" for the outcome.
LEMMA LeaveInvariant ==
  ASSUME IInv, TypeOK', NEW u \in Units, NEW e, OwnsUnit(u, e),
         NEW outcome \in WorkStatuses \ {"running"}, Leave(u, outcome),
         outcome = "succeeded" => GatePassed(u, e),
         outcome = "pending" => ~Exhausted(u)
  PROVE  IInv'
<1> USE DEF IInv
<1>1. /\ status[u] = "running" /\ e = execution[u] /\ e = attempts[u]
      /\ status' = [status EXCEPT ![u] = outcome]
      /\ execution' = [execution EXCEPT ![u] = NoExecution]
      /\ UNCHANGED <<projectStatus, planVars, attempts, maxAttempts, gate>>
  BY DEF Leave, OwnsUnit, ExecutionBinding
<1>2. ExecutionBinding'
  BY <1>1 DEF ExecutionBinding, TypeOK
<1>3. PendingHasBudget'
  BY <1>1 DEF PendingHasBudget, Exhausted, TypeOK
<1>4. DependenciesHonoured'
  BY <1>1 DEF DependenciesHonoured, DependenciesSucceeded, TypeOK, planVars, Definitions
<1>5. CompletionIsSound'
  BY <1>1 DEF CompletionIsSound, AllSucceeded, Added
<1>6. HistoryInv'
  BY <1>1, EvidenceUnchanged DEF HistoryInv, WorkStatuses, TypeOK
<1>7. SuccessIsGated'
  <2>1. outcome = "succeeded" => InputsSatisfied(u) /\ OutputsSatisfied(u)
    BY <1>1 DEF HistoryInv, GatePassed, InputsSatisfied, OutputsSatisfied
  <2>2. QED
    BY <1>1, <2>1, EvidenceUnchanged DEF SuccessIsGated, GatePassed, TypeOK, planVars
<1>8. QED
  BY <1>2, <1>3, <1>4, <1>5, <1>6, <1>7

LEMMA UnitEventInvariant == IInv /\ TypeOK' /\ UnitEvent => IInv'
<1> SUFFICES ASSUME IInv, TypeOK', NEW u \in Units,
                    \/ WorkUnitStarted(u)
                    \/ \E additional \in 0..AttemptCap : WorkUnitReopened(u, additional)
                    \/ \E e \in 1..attempts[u] :
                         \/ \E verdict \in BOOLEAN : ContractEvaluated(u, e, verdict)
                         \/ WorkUnitSucceeded(u, e)
                         \/ WorkUnitReturned(u, e)
                         \/ \E outcome \in {"blocked", "failed", "cancelled"} :
                              WorkUnitStopped(u, e, outcome)
             PROVE  IInv'
  BY DEF UnitEvent
<1>1. CASE WorkUnitStarted(u)
  BY <1>1, StartedInvariant
<1>2. CASE \E additional \in 0..AttemptCap : WorkUnitReopened(u, additional)
  BY <1>2, ReopenedInvariant
<1>3. ASSUME NEW e \in 1..attempts[u], NEW verdict \in BOOLEAN, ContractEvaluated(u, e, verdict)
      PROVE  IInv'
  BY <1>3, EvaluatedInvariant
<1>4. ASSUME NEW e \in 1..attempts[u], WorkUnitSucceeded(u, e)
      PROVE  IInv'
  BY <1>4, LeaveInvariant DEF WorkUnitSucceeded, WorkStatuses
<1>5. ASSUME NEW e \in 1..attempts[u], WorkUnitReturned(u, e)
      PROVE  IInv'
  BY <1>5, LeaveInvariant DEF WorkUnitReturned, WorkStatuses
<1>6. ASSUME NEW e \in 1..attempts[u], NEW outcome \in {"blocked", "failed", "cancelled"},
             WorkUnitStopped(u, e, outcome)
      PROVE  IInv'
  BY <1>6, LeaveInvariant DEF WorkUnitStopped, WorkStatuses
<1>7. QED
  BY <1>1, <1>2, <1>3, <1>4, <1>5, <1>6

LEMMA StutterInvariant == IInv /\ TypeOK' /\ UNCHANGED vars => IInv'
BY UnitsUntouchedInvariant DEF vars, planVars, unitVars

LEMMA InductiveStep == IInv /\ [Next]_vars => IInv'
<1> SUFFICES ASSUME IInv, [Next]_vars PROVE IInv'
  OBVIOUS
<1>1. TypeOK'
  BY ProjectEventTypeOK, PlanningEventTypeOK, UnitEventTypeOK, OperationEventTypeOK,
     StutterTypeOK DEF IInv, Next
<1>2. QED
  BY <1>1, ProjectEventInvariant, PlanningEventInvariant, UnitEventInvariant,
     OperationEventInvariant, StutterInvariant DEF Next

LEMMA InductiveInvariant == Spec => []IInv
BY InitInvariant, InductiveStep, PTL DEF Spec

-----------------------------------------------------------------------------
(* The invariants TLC checks, for every value of the constants *)

\* A completed project stays complete, whatever receipts arrive afterwards.
THEOREM Completion == Spec => []CompletionIsSound
<1>1. IInv => CompletionIsSound
  BY DEF IInv
<1>2. QED
  BY <1>1, InductiveInvariant, PTL

\* Whatever runs or has succeeded rests on succeeded dependencies.
THEOREM Dependencies == Spec => []DependenciesHonoured
<1>1. IInv => DependenciesHonoured
  BY DEF IInv
<1>2. QED
  BY <1>1, InductiveInvariant, PTL

\* A contract-bound unit succeeds only through a gate its last execution passed, and the
\* evidence of that gate never disappears.
THEOREM Gating == Spec => []SuccessIsGated
<1>1. IInv => SuccessIsGated
  BY DEF IInv
<1>2. QED
  BY <1>1, InductiveInvariant, PTL

\* No pending unit has used up its attempts.
THEOREM Budget == Spec => []PendingHasBudget
<1>1. IInv => PendingHasBudget
  BY DEF IInv
<1>2. QED
  BY <1>1, InductiveInvariant, PTL

-----------------------------------------------------------------------------
(* Action properties *)

\* How the life cycle of each unit may change in a step; everything else about units
\* follows from this.
LifeCycleStep(u) ==
  \/ UNCHANGED <<status[u], attempts[u], execution[u], gate[u]>>
  \/ status[u] = "absent" /\ status'[u] = "pending"
     /\ UNCHANGED <<attempts[u], execution[u], gate[u]>>
  \/ status[u] = "pending" /\ status'[u] = "running" /\ DependenciesSucceeded(u) /\ Active
     /\ execution'[u] = attempts[u] + 1
  \/ status[u] = "running" /\ status'[u] # "absent" /\ execution'[u] = NoExecution
  \/ status[u] = "running" /\ UNCHANGED <<status[u], attempts[u], execution[u]>>
  \/ status[u] \in {"blocked", "failed", "cancelled"} /\ status'[u] = "pending"
     /\ UNCHANGED <<attempts[u], execution[u]>>

LEMMA LifeCycle ==
  ASSUME TypeOK, [Next]_vars, NEW u \in Units
  PROVE  LifeCycleStep(u)
<1>1. CASE UNCHANGED <<status, attempts, execution, gate>>
  BY <1>1 DEF LifeCycleStep
<1>2. CASE ProjectEvent \/ OperationEvent \/ UNCHANGED vars
  BY <1>1, <1>2
     DEF ProjectEvent, ProjectCreated, ProjectPaused, ProjectResumed, ProjectCompleted,
         ProjectAbandoned, OperationEvent, OperationStarted, OperationRetryStarted,
         OperationEnded, OperationReconciled, vars, unitVars
<1>3. CASE PlanningEvent
  <2>1. ASSUME NEW v \in Units, NEW deps \in SUBSET Units,
               NEW contract \in Contracts \union {None}, NEW plan \in Plans \union {None},
               NEW inputs \in SUBSET Artifacts, NEW limit \in AttemptLimits,
               WorkUnitAdded(v, deps, contract, plan, inputs, limit)
        PROVE  LifeCycleStep(u)
    BY <2>1 DEF WorkUnitAdded, AddUnit, Added, TypeOK, LifeCycleStep
  <2>2. QED
    BY <1>1, <1>3, <2>1
       DEF PlanningEvent, PlanRegistered, ContractRegistered, ArtifactRegistered, unitVars
<1>4. CASE UnitEvent
  <2> PICK v \in Units :
        \/ WorkUnitStarted(v)
        \/ \E additional \in 0..AttemptCap : WorkUnitReopened(v, additional)
        \/ \E e \in 1..attempts[v] :
             \/ \E verdict \in BOOLEAN : ContractEvaluated(v, e, verdict)
             \/ WorkUnitSucceeded(v, e)
             \/ WorkUnitReturned(v, e)
             \/ \E outcome \in {"blocked", "failed", "cancelled"} :
                  WorkUnitStopped(v, e, outcome)
    BY <1>4 DEF UnitEvent
  <2>1. CASE WorkUnitStarted(v)
    BY <2>1 DEF WorkUnitStarted, Ready, TypeOK, LifeCycleStep
  <2>2. CASE \E additional \in 0..AttemptCap : WorkUnitReopened(v, additional)
    BY <2>2 DEF WorkUnitReopened, TypeOK, LifeCycleStep
  <2>3. ASSUME NEW e, NEW verdict, ContractEvaluated(v, e, verdict)
        PROVE  LifeCycleStep(u)
    BY <2>3 DEF ContractEvaluated, OwnsUnit, TypeOK, LifeCycleStep
  <2>4. ASSUME NEW e, NEW outcome, outcome # "absent", OwnsUnit(v, e), Leave(v, outcome)
        PROVE  LifeCycleStep(u)
    BY <2>4 DEF OwnsUnit, Leave, TypeOK, LifeCycleStep
  <2>5. QED
    BY <2>1, <2>2, <2>3, <2>4 DEF WorkUnitSucceeded, WorkUnitReturned, WorkUnitStopped
<1>5. QED
  BY <1>2, <1>3, <1>4 DEF Next

\* An execution that has ended never becomes the active one again.
THEOREM NoResumption == Spec => ExecutionsNeverResume
<1>1. TypeOK /\ [Next]_vars =>
        [\A u \in Units :
           execution'[u] # execution[u] =>
             \/ execution'[u] = NoExecution
             \/ execution'[u] > attempts[u]]_vars
  <2> SUFFICES ASSUME TypeOK, [Next]_vars, NEW u \in Units, execution'[u] # execution[u]
               PROVE  execution'[u] = NoExecution \/ execution'[u] > attempts[u]
    OBVIOUS
  <2>1. attempts[u] \in Nat
    BY DEF TypeOK
  <2>2. QED
    BY <2>1, LifeCycle DEF LifeCycleStep
<1>2. QED
  BY <1>1, TypeCorrect, PTL DEF Spec, ExecutionsNeverResume

\* A unit that succeeded keeps its status, its attempt and its gate for good.
THEOREM SuccessLasts == Spec => SuccessIsFinal
<1>1. TypeOK /\ [Next]_vars =>
        [\A u \in Units : status[u] = "succeeded" =>
           status'[u] = "succeeded" /\ attempts'[u] = attempts[u] /\ gate'[u] = gate[u]]_vars
  BY LifeCycle DEF LifeCycleStep
<1>2. QED
  BY <1>1, TypeCorrect, PTL DEF Spec, SuccessIsFinal

-----------------------------------------------------------------------------
(* Refinement *)

LEMMA Stages ==
  /\ StageOf("absent") = "unknown" /\ StageOf("running") = "executing"
  /\ StageOf("succeeded") = "done"
  /\ \A s \in {"pending", "blocked", "failed", "cancelled"} : StageOf(s) = "open"
  /\ \A s \in WorkStatuses \union {"absent"} :
       (StageOf(s) = "unknown" => s = "absent") /\ (StageOf(s) = "done" => s = "succeeded")
BY DEF StageOf, WorkStatuses

\* The status of one unit changes: so does its stage.
LEMMA StageUpdate ==
  ASSUME TypeOK, NEW u \in Units, NEW s, status' = [status EXCEPT ![u] = s]
  PROVE  AbstractStage' = [AbstractStage EXCEPT ![u] = StageOf(s)]
BY DEF AbstractStage, TypeOK

\* Every event is a step of the GoalGraph or leaves it as it is.
LEMMA RefinementStep ==
  ASSUME IInv, [Next]_vars
  PROVE  [GoalGraph!Next]_GoalGraph!goalGraphVars
<1> USE DEF GoalGraph!Known
<1>1. CASE ProjectEvent
  <2>1. AbstractStage' = AbstractStage /\ AbstractNeeds' = AbstractNeeds
    BY <1>1 DEF ProjectEvent, ProjectCreated, ProjectPaused, ProjectResumed, ProjectCompleted,
                ProjectAbandoned, AbstractStage, AbstractNeeds, planVars, unitVars
  <2>2. CASE ProjectCreated \/ ProjectPaused \/ ProjectResumed
    <3>1. AbstractGoal' = AbstractGoal
      BY <2>2 DEF ProjectCreated, ProjectPaused, ProjectResumed, Active, AbstractGoal
    <3>2. QED
      BY <2>1, <3>1 DEF GoalGraph!goalGraphVars
  <2>3. CASE ProjectCompleted
    <3>1. AbstractGoal = "open" /\ AbstractGoal' = "achieved"
      BY <2>3 DEF ProjectCompleted, TerminalProjectStatuses, AbstractGoal
    <3>2. \A u \in GoalGraph!Known : AbstractStage[u] = "done"
      BY <2>3, Stages DEF ProjectCompleted, AllSucceeded, Added, AbstractStage
    <3>3. QED
      BY <2>1, <3>1, <3>2 DEF GoalGraph!Achieve, GoalGraph!Next
  <2>4. CASE \E target \in {"failed", "cancelled"} : ProjectAbandoned(target)
    <3>1. AbstractGoal = "open" /\ AbstractGoal' = "abandoned"
      BY <2>4 DEF ProjectAbandoned, TerminalProjectStatuses, AbstractGoal
    <3>2. QED
      BY <2>1, <3>1 DEF GoalGraph!Abandon, GoalGraph!Next
  <2>5. QED
    BY <1>1, <2>2, <2>3, <2>4 DEF ProjectEvent
<1>2. ASSUME UNCHANGED <<projectStatus, definition, status>>
      PROVE  [GoalGraph!Next]_GoalGraph!goalGraphVars
  BY <1>2 DEF GoalGraph!goalGraphVars, AbstractGoal, AbstractStage, AbstractNeeds
<1>3. CASE PlanningEvent
  <2>1. ASSUME NEW u \in Units, NEW deps \in SUBSET Units,
               NEW contract \in Contracts \union {None}, NEW plan \in Plans \union {None},
               NEW inputs \in SUBSET Artifacts, NEW limit \in AttemptLimits,
               WorkUnitAdded(u, deps, contract, plan, inputs, limit)
        PROVE  GoalGraph!Ask(u, deps)
    <3>1. AbstractGoal = "open" /\ AbstractGoal' = AbstractGoal
      BY <2>1 DEF WorkUnitAdded, AddUnit, Active, AbstractGoal
    <3>2. u \notin GoalGraph!Known /\ deps \subseteq GoalGraph!Known
      BY <2>1, Stages DEF WorkUnitAdded, AddUnit, Added, AbstractStage, IInv, TypeOK
    <3>3. AbstractStage' = [AbstractStage EXCEPT ![u] = "open"]
      <4>1. status' = [status EXCEPT ![u] = "pending"]
        BY <2>1 DEF WorkUnitAdded, AddUnit
      <4>2. AbstractStage' = [AbstractStage EXCEPT ![u] = StageOf("pending")]
        BY <4>1, StageUpdate DEF IInv
      <4>3. StageOf("pending") = "open"
        BY Stages DEF WorkStatuses
      <4>4. QED
        BY <4>2, <4>3
    <3>4. AbstractNeeds' = [AbstractNeeds EXCEPT ![u] = deps]
      <4>1. \A v \in Units : definition'[v].dependencies =
                               IF v = u THEN deps ELSE definition[v].dependencies
        BY <2>1 DEF WorkUnitAdded, AddUnit, IInv, TypeOK
      <4>2. QED
        BY <4>1 DEF AbstractNeeds
    <3>5. QED
      BY <3>1, <3>2, <3>3, <3>4 DEF GoalGraph!Ask
  <2>2. QED
    BY <1>2, <1>3, <2>1
       DEF PlanningEvent, PlanRegistered, ContractRegistered, ArtifactRegistered, unitVars,
           GoalGraph!Next
<1>4. CASE UnitEvent
  <2> PICK u \in Units :
        \/ WorkUnitStarted(u)
        \/ \E additional \in 0..AttemptCap : WorkUnitReopened(u, additional)
        \/ \E e \in 1..attempts[u] :
             \/ \E verdict \in BOOLEAN : ContractEvaluated(u, e, verdict)
             \/ WorkUnitSucceeded(u, e)
             \/ WorkUnitReturned(u, e)
             \/ \E outcome \in {"blocked", "failed", "cancelled"} :
                  WorkUnitStopped(u, e, outcome)
    BY <1>4 DEF UnitEvent
  <2>1. CASE WorkUnitStarted(u)
    <3>1. AbstractGoal = "open" /\ AbstractGoal' = AbstractGoal /\ AbstractNeeds' = AbstractNeeds
      BY <2>1 DEF WorkUnitStarted, Ready, Active, planVars, AbstractGoal, AbstractNeeds
    <3>2. AbstractStage[u] = "open" /\ \A d \in AbstractNeeds[u] : AbstractStage[d] = "done"
      BY <2>1, Stages DEF WorkUnitStarted, Ready, DependenciesSucceeded, AbstractStage,
                          AbstractNeeds, IInv, TypeOK, Definitions
    <3>3. AbstractStage' = [AbstractStage EXCEPT ![u] = "executing"]
      <4>1. status' = [status EXCEPT ![u] = "running"]
        BY <2>1 DEF WorkUnitStarted
      <4>2. AbstractStage' = [AbstractStage EXCEPT ![u] = StageOf("running")]
        BY <4>1, StageUpdate DEF IInv
      <4>3. StageOf("running") = "executing"
        BY Stages DEF WorkStatuses
      <4>4. QED
        BY <4>2, <4>3
    <3>4. QED
      BY <3>1, <3>2, <3>3 DEF GoalGraph!Execute, GoalGraph!Next
  <2>2. ASSUME NEW additional \in 0..AttemptCap, WorkUnitReopened(u, additional)
        PROVE  [GoalGraph!Next]_GoalGraph!goalGraphVars
    <3>1. AbstractGoal' = AbstractGoal /\ AbstractNeeds' = AbstractNeeds
      BY <2>2 DEF WorkUnitReopened, planVars, AbstractGoal, AbstractNeeds
    <3>2. AbstractStage' = AbstractStage
      <4>1. \A v \in Units : StageOf(status'[v]) = StageOf(status[v])
        BY <2>2, Stages DEF WorkUnitReopened, IInv, TypeOK
      <4>2. QED
        BY <4>1 DEF AbstractStage
    <3>3. QED
      BY <3>1, <3>2 DEF GoalGraph!goalGraphVars
  <2>3. ASSUME NEW e, NEW verdict, ContractEvaluated(u, e, verdict)
        PROVE  [GoalGraph!Next]_GoalGraph!goalGraphVars
    BY <1>2, <2>3 DEF ContractEvaluated, planVars
  <2>4. ASSUME NEW e, OwnsUnit(u, e),
               NEW outcome \in WorkStatuses \ {"running"}, Leave(u, outcome)
        PROVE  [GoalGraph!Next]_GoalGraph!goalGraphVars
    <3>1. AbstractGoal' = AbstractGoal /\ AbstractNeeds' = AbstractNeeds
      BY <2>4 DEF Leave, planVars, AbstractGoal, AbstractNeeds
    <3>2. AbstractStage[u] = "executing"
      BY <2>4, Stages DEF OwnsUnit, AbstractStage
    <3>3. AbstractStage' = [AbstractStage EXCEPT
             ![u] = IF outcome = "succeeded" THEN "done" ELSE "open"]
      <4>1. status' = [status EXCEPT ![u] = outcome]
        BY <2>4 DEF Leave
      <4>2. AbstractStage' = [AbstractStage EXCEPT ![u] = StageOf(outcome)]
        BY <4>1, StageUpdate DEF IInv
      <4>3. StageOf(outcome) = IF outcome = "succeeded" THEN "done" ELSE "open"
        BY Stages DEF WorkStatuses
      <4>4. QED
        BY <4>2, <4>3
    <3>4. QED
      BY <3>1, <3>2, <3>3 DEF GoalGraph!Finish, GoalGraph!Release, GoalGraph!Next
  <2>5. QED
    BY <2>1, <2>2, <2>3, <2>4
       DEF WorkUnitSucceeded, WorkUnitReturned, WorkUnitStopped, WorkStatuses
<1>5. CASE OperationEvent
  BY <1>2, <1>5 DEF OperationEvent, OperationStarted, OperationRetryStarted, OperationEnded,
                    OperationReconciled, planVars, unitVars
<1>6. CASE UNCHANGED vars
  BY <1>2, <1>6 DEF vars, planVars, unitVars
<1>7. QED
  BY <1>1, <1>3, <1>4, <1>5, <1>6 DEF Next

\* What is over stays over.
THEOREM NoRevival == Spec => WorkNeverRevives
BY NoResumption, SuccessLasts DEF WorkNeverRevives

\* The reducer implements the GoalGraph.
THEOREM Refinement == Spec => ImplementsGoalGraph
<1>1. Init => GoalGraph!Init
  BY Stages DEF Init, GoalGraph!Init, AbstractGoal, AbstractStage, AbstractNeeds, NoDefinition
<1>2. QED
  BY <1>1, RefinementStep, InductiveInvariant, PTL DEF Spec, ImplementsGoalGraph, GoalGraph!Spec

-----------------------------------------------------------------------------
(* What is there stays there *)

LEMMA StateOnlyGrows ==
  ASSUME TypeOK, [Next]_vars
  PROVE  /\ Added \subseteq Added'
         /\ contracts \subseteq contracts'
         /\ plans \subseteq plans'
         /\ Registered \subseteq Registered'
         /\ \A u \in Units : attempts'[u] \in Nat /\ attempts[u] <= attempts'[u]
<1>1. Registered \subseteq Registered'
  BY ArtifactsOnlyAdded DEF Registered
<1>2. CASE PlanningEvent
  BY <1>1, <1>2 DEF PlanningEvent, PlanRegistered, ContractRegistered, ArtifactRegistered,
     WorkUnitAdded, AddUnit, TypeOK, Added, unitVars
<1>3. CASE ProjectEvent \/ OperationEvent \/ UNCHANGED vars
  BY <1>1, <1>3 DEF ProjectEvent, ProjectCreated, ProjectPaused, ProjectResumed,
     ProjectCompleted, ProjectAbandoned, OperationEvent, OperationStarted,
     OperationRetryStarted, OperationEnded, OperationReconciled, vars, planVars, unitVars,
     TypeOK, Added
<1>4. CASE UnitEvent
  <2> USE DEF TypeOK, Added, planVars
  <2>1. ASSUME NEW u \in Units, NEW outcome \in WorkStatuses, Leave(u, outcome)
        PROVE  /\ Added \subseteq Added' /\ UNCHANGED <<contracts, plans>>
               /\ \A v \in Units : attempts'[v] \in Nat /\ attempts[v] <= attempts'[v]
    BY <2>1 DEF Leave, WorkStatuses
  <2>2. ASSUME NEW u \in Units, NEW e \in 1..attempts[u],
               \/ WorkUnitSucceeded(u, e) \/ WorkUnitReturned(u, e)
               \/ \E outcome \in {"blocked", "failed", "cancelled"} :
                    WorkUnitStopped(u, e, outcome)
        PROVE  \E outcome \in WorkStatuses : Leave(u, outcome)
    BY <2>2 DEF WorkUnitSucceeded, WorkUnitReturned, WorkUnitStopped, WorkStatuses
  <2>3. ASSUME NEW u \in Units, WorkUnitStarted(u)
        PROVE  /\ Added \subseteq Added' /\ UNCHANGED <<contracts, plans>>
               /\ \A v \in Units : attempts'[v] \in Nat /\ attempts[v] <= attempts'[v]
    BY <2>3 DEF WorkUnitStarted
  <2>4. ASSUME NEW u \in Units,
               \/ \E additional \in 0..AttemptCap : WorkUnitReopened(u, additional)
               \/ \E e \in 1..attempts[u], verdict \in BOOLEAN : ContractEvaluated(u, e, verdict)
        PROVE  /\ Added \subseteq Added' /\ UNCHANGED <<contracts, plans>>
               /\ \A v \in Units : attempts'[v] \in Nat /\ attempts[v] <= attempts'[v]
    BY <2>4 DEF WorkUnitReopened, ContractEvaluated
  <2>5. QED
    BY <1>1, <1>4, <2>1, <2>2, <2>3, <2>4 DEF UnitEvent
<1>5. QED
  BY <1>2, <1>3, <1>4 DEF Next

-----------------------------------------------------------------------------
(* References *)

UnitResolves(u) ==
  /\ definition[u].dependencies \subseteq Added \ {u}
  /\ definition[u].contract \in contracts \union {None}
  /\ definition[u].plan \in plans \union {None}
  /\ definition[u].inputs \subseteq Registered
ArtifactResolves(a) ==
  /\ artifacts[a].producer \in Added \union {None}
  /\ artifacts[a].parents \subseteq Registered \ {a}
OperationResolves(o) ==
  operations[o].status # "absent" =>
    /\ operations[o].unit \in Added
    /\ operations[o].execution \in 1..attempts[operations[o].unit]

\* A unit that is new refers to what was there; what an older one refers to is still there.
LEMMA UnitsResolve ==
  ASSUME TypeOK, TypeOK', [Next]_vars, ReferencesResolve, NEW u \in Added'
  PROVE  UnitResolves(u)'
<1>1. CASE u \in Added
  <2>1. definition'[u] = definition[u]
    BY <1>1, DefinitionsNeverChange
  <2>2. UnitResolves(u)
    BY <1>1 DEF ReferencesResolve, UnitResolves
  <2>3. QED
    BY <2>1, <2>2, StateOnlyGrows DEF UnitResolves
<1>2. CASE u \notin Added
  <2>1. u \in Units /\ status[u] = "absent" /\ status'[u] # "absent"
    BY <1>2 DEF Added
  <2>2. CASE PlanningEvent
    <3>1. ASSUME NEW v \in Units, NEW deps \in SUBSET Units,
                 NEW contract \in Contracts \union {None}, NEW plan \in Plans \union {None},
                 NEW inputs \in SUBSET Artifacts, NEW limit \in AttemptLimits,
                 WorkUnitAdded(v, deps, contract, plan, inputs, limit)
          PROVE  UnitResolves(u)'
      <4>1. v = u
        BY <2>1, <3>1 DEF WorkUnitAdded, AddUnit, TypeOK
      <4>2. definition'[u] = [dependencies |-> deps, contract |-> contract, plan |-> plan,
                              inputs |-> inputs]
        BY <2>1, <3>1, <4>1 DEF WorkUnitAdded, AddUnit, TypeOK
      <4>3. deps \subseteq Added \ {u} /\ contract \in contracts \union {None}
            /\ plan \in plans \union {None} /\ inputs \subseteq Registered
        BY <1>2, <3>1, <4>1 DEF WorkUnitAdded
      <4>4. QED
        BY <4>2, <4>3, StateOnlyGrows DEF UnitResolves
    <3>2. QED
      BY <2>1, <2>2, <3>1 DEF PlanningEvent, PlanRegistered, ContractRegistered,
         ArtifactRegistered, unitVars
  <2>3. CASE ProjectEvent \/ OperationEvent \/ UNCHANGED vars
    BY <2>1, <2>3 DEF ProjectEvent, ProjectCreated, ProjectPaused, ProjectResumed,
       ProjectCompleted, ProjectAbandoned, OperationEvent, OperationStarted,
       OperationRetryStarted, OperationEnded, OperationReconciled, vars, unitVars
  <2>4. CASE UnitEvent
    <3>2. ASSUME NEW v \in Units, NEW outcome \in WorkStatuses, status[v] # "absent",
                 status' = [status EXCEPT ![v] = outcome]
          PROVE  FALSE
      BY <2>1, <3>2 DEF TypeOK
    <3>3. QED
      BY <2>1, <2>4, <3>2 DEF UnitEvent, WorkUnitStarted, Ready, WorkUnitReopened, ContractEvaluated,
         WorkUnitSucceeded, WorkUnitReturned, WorkUnitStopped, Leave, OwnsUnit, WorkStatuses
  <2>5. QED
    BY <2>2, <2>3, <2>4 DEF Next
<1>3. QED
  BY <1>1, <1>2

LEMMA ArtifactsResolve ==
  ASSUME TypeOK, TypeOK', [Next]_vars, ReferencesResolve, NEW a \in Registered'
  PROVE  ArtifactResolves(a)'
<1>1. CASE a \in Registered
  <2>1. artifacts'[a] = artifacts[a]
    BY <1>1, ArtifactsOnlyAdded
  <2>2. ArtifactResolves(a)
    BY <1>1 DEF ReferencesResolve, ArtifactResolves
  <2>3. QED
    BY <2>1, <2>2, StateOnlyGrows DEF ArtifactResolves
<1>2. CASE a \notin Registered
  <2>1. a \in Artifacts /\ artifacts'[a] # artifacts[a]
    BY <1>2 DEF Registered
  <2>2. CASE PlanningEvent
    <3>1. ASSUME NEW b \in Artifacts, NEW kind \in Kinds, NEW producer \in Units \union {None},
                 NEW parents \in SUBSET Artifacts, ArtifactRegistered(b, kind, producer, parents)
          PROVE  ArtifactResolves(a)'
      <4>1. b = a
        BY <2>1, <3>1 DEF ArtifactRegistered, TypeOK
      <4>2. artifacts'[a] = [kind |-> kind, producer |-> producer, parents |-> parents]
        BY <2>1, <3>1, <4>1 DEF ArtifactRegistered, TypeOK
      <4>3. producer \in Added \union {None} /\ parents \subseteq Registered \ {a}
        BY <1>2, <3>1, <4>1 DEF ArtifactRegistered
      <4>4. QED
        BY <4>2, <4>3, StateOnlyGrows DEF ArtifactResolves
    <3>2. QED
      BY <2>1, <2>2, <3>1 DEF PlanningEvent, PlanRegistered, ContractRegistered,
         WorkUnitAdded, AddUnit
  <2>3. CASE ProjectEvent \/ UnitEvent \/ OperationEvent \/ UNCHANGED vars
    BY <2>1, <2>3 DEF ProjectEvent, ProjectCreated, ProjectPaused, ProjectResumed,
       ProjectCompleted, ProjectAbandoned, OperationEvent, OperationStarted,
       OperationRetryStarted, OperationEnded, OperationReconciled, UnitEvent, WorkUnitStarted,
       WorkUnitReopened, ContractEvaluated, WorkUnitSucceeded, WorkUnitReturned,
       WorkUnitStopped, Leave, vars, planVars
  <2>4. QED
    BY <2>2, <2>3 DEF Next
<1>3. QED
  BY <1>1, <1>2

\* The execution of a receipt is one its unit has had.
LEMMA OperationsResolve ==
  ASSUME TypeOK, TypeOK', [Next]_vars, ReferencesResolve, NEW o \in Operations
  PROVE  OperationResolves(o)'
<1> DEFINE Old == operations[o]
<1>1. CASE operations'[o].status = "absent" \/ operations'[o] = Old
  <2>1. OperationResolves(o)
    BY DEF ReferencesResolve, OperationResolves
  <2>2. operations[o].unit \in Added =>
          /\ operations[o].unit \in Units
          /\ attempts[operations[o].unit] \in Nat
          /\ attempts'[operations[o].unit] \in Nat
          /\ attempts[operations[o].unit] <= attempts'[operations[o].unit]
    BY StateOnlyGrows DEF Added, TypeOK
  <2>3. QED
    BY <1>1, <2>1, <2>2, StateOnlyGrows DEF OperationResolves
<1>2. CASE operations'[o].status # "absent" /\ operations'[o] # Old
  <2>1. PICK p \in Operations :
          \/ \E u \in Units : \E e \in 1..attempts[u] :
               OperationStarted(p, u, e) \/ OperationRetryStarted(p, u, e)
          \/ \E outcome \in {"completed", "uncertain"} : OperationEnded(p, outcome)
          \/ \E disposition \in {"adopt", "compensate", "retry"} :
               OperationReconciled(p, disposition)
    BY <1>2 DEF Next, OperationEvent, ProjectEvent, ProjectCreated, ProjectPaused,
       ProjectResumed, ProjectCompleted, ProjectAbandoned, PlanningEvent, PlanRegistered,
       ContractRegistered, ArtifactRegistered, WorkUnitAdded, AddUnit, UnitEvent,
       WorkUnitStarted, WorkUnitReopened, ContractEvaluated, WorkUnitSucceeded,
       WorkUnitReturned, WorkUnitStopped, Leave, vars
  <2>2. p = o
    BY <1>2, <2>1 DEF OperationStarted, OperationRetryStarted, OperationEnded,
       OperationReconciled, TypeOK
  <2>3. UNCHANGED <<status, attempts>>
    BY <2>1 DEF OperationStarted, OperationRetryStarted, OperationEnded,
       OperationReconciled, unitVars
  <2>4. ASSUME NEW u \in Units, NEW e \in 1..attempts[u],
               OperationStarted(o, u, e) \/ OperationRetryStarted(o, u, e)
        PROVE  OperationResolves(o)'
    <3>1. operations'[o].unit = u /\ operations'[o].execution = e
      BY <2>4 DEF OperationStarted, OperationRetryStarted, TypeOK
    <3>2. status[u] = "running"
      BY <2>4 DEF OperationStarted, OperationRetryStarted, OwnsUnit
    <3>3. QED
      BY <2>3, <3>1, <3>2 DEF OperationResolves, Added
  <2>5. ASSUME NEW outcome, operations' = [operations EXCEPT ![o] = Marked(o, outcome)],
               operations[o].status # "absent"
        PROVE  OperationResolves(o)'
    <3>1. operations'[o].unit = Old.unit /\ operations'[o].execution = Old.execution
      BY <2>5 DEF TypeOK, Marked
    <3>2. Old.unit \in Added /\ Old.execution \in 1..attempts[Old.unit]
      BY <2>5 DEF ReferencesResolve
    <3>3. Old.unit \in Added'
      BY <2>3, <3>2 DEF Added
    <3>4. Old.execution \in 1..attempts'[Old.unit]
      BY <2>3, <3>2
    <3>5. QED
      BY <3>1, <3>3, <3>4 DEF OperationResolves
  <2>6. QED
    BY <2>1, <2>2, <2>4, <2>5 DEF OperationEnded, OperationReconciled
<1>3. QED
  BY <1>1, <1>2

LEMMA InitReferences == Init => ReferencesResolve
BY DEF Init, ReferencesResolve, Added, Registered, AbsentArtifact, AbsentOperation

LEMMA ReferencesStep == TypeOK /\ TypeOK' /\ ReferencesResolve /\ [Next]_vars => ReferencesResolve'
<1> SUFFICES ASSUME TypeOK, TypeOK', ReferencesResolve, [Next]_vars PROVE ReferencesResolve'
  OBVIOUS
<1>1. \A u \in Added' : UnitResolves(u)'
  BY UnitsResolve
<1>2. \A a \in Registered' : ArtifactResolves(a)'
  BY ArtifactsResolve
<1>3. \A o \in Operations : OperationResolves(o)'
  BY OperationsResolve
<1>4. QED
  BY <1>1, <1>2, <1>3 DEF ReferencesResolve, UnitResolves, ArtifactResolves, OperationResolves

\* Every identifier the state holds resolves, whatever events apply_event accepted and in
\* whatever order: units, gates, artifacts and operations name only what is registered.
THEOREM References == Spec => []ReferencesResolve
BY InitReferences, ReferencesStep, TypeCorrect, PTL DEF Spec

-----------------------------------------------------------------------------
(* Dependencies *)

\* Units depend on units that are before them in work_order, which holds all of them.
OrderInv ==
  /\ \A i \in 1..Len(workOrder) : workOrder[i] \in Added
  /\ \A u \in Added : \E i \in 1..Len(workOrder) : workOrder[i] = u
  /\ \A i \in 1..Len(workOrder) : \A d \in definition[workOrder[i]].dependencies :
       \E j \in 1..(i - 1) : workOrder[j] = d

LEMMA InitOrder == Init => OrderInv
BY DEF Init, OrderInv, Added

\* What is not an addition changes neither the order nor who is in it.
LEMMA OrderUntouched ==
  ASSUME TypeOK, TypeOK', [Next]_vars, OrderInv, UNCHANGED workOrder, Added' \subseteq Added
  PROVE  OrderInv'
<1>1. Added' = Added
  BY StateOnlyGrows
<1>2. \A u \in Added : definition'[u] = definition[u]
  BY DefinitionsNeverChange
<1>3. \A i \in 1..Len(workOrder) : definition'[workOrder[i]] = definition[workOrder[i]]
  BY <1>2 DEF OrderInv
<1>4. workOrder' = workOrder
  OBVIOUS
<1>5. /\ \A i \in 1..Len(workOrder') : workOrder'[i] \in Added'
      /\ \A u \in Added' : \E i \in 1..Len(workOrder') : workOrder'[i] = u
  BY <1>1, <1>4 DEF OrderInv
<1>6. ASSUME NEW i \in 1..Len(workOrder'), NEW d \in definition'[workOrder'[i]].dependencies
      PROVE  \E j \in 1..(i - 1) : workOrder'[j] = d
  <2>1. i \in 1..Len(workOrder) /\ workOrder'[i] = workOrder[i]
    BY <1>4
  <2>2. d \in definition[workOrder[i]].dependencies
    BY <1>3, <1>6, <2>1
  <2>3. PICK j \in 1..(i - 1) : workOrder[j] = d
    BY <2>1, <2>2 DEF OrderInv
  <2>4. QED
    BY <1>4, <2>3
<1>7. QED
  BY <1>5, <1>6 DEF OrderInv

LEMMA OrderExtended ==
  ASSUME TypeOK, TypeOK', [Next]_vars, OrderInv,
         NEW u \in Units, NEW deps \in SUBSET Units, NEW contract \in Contracts \union {None},
         NEW plan \in Plans \union {None}, NEW inputs \in SUBSET Artifacts,
         NEW limit \in AttemptLimits, WorkUnitAdded(u, deps, contract, plan, inputs, limit)
  PROVE  OrderInv'
<1> DEFINE n == Len(workOrder)
<1>1. /\ n \in Nat /\ Len(workOrder') = n + 1
      /\ workOrder'[n + 1] = u
      /\ \A i \in 1..n : workOrder'[i] = workOrder[i]
  BY DEF WorkUnitAdded, AddUnit, TypeOK
<1>2. Added' = Added \union {u}
  BY DEF WorkUnitAdded, AddUnit, TypeOK, Added
<1>3. \A v \in Added : definition'[v] = definition[v]
  BY DefinitionsNeverChange
<1>4. definition'[u].dependencies = deps /\ deps \subseteq Added
  BY DEF WorkUnitAdded, AddUnit, TypeOK
<1>5. \A i \in 1..(n + 1) : workOrder'[i] \in Added'
  BY <1>1, <1>2 DEF OrderInv
<1>6. \A v \in Added' : \E i \in 1..(n + 1) : workOrder'[i] = v
  BY <1>1, <1>2 DEF OrderInv
<1>7. ASSUME NEW i \in 1..(n + 1), NEW d \in definition'[workOrder'[i]].dependencies
      PROVE  \E j \in 1..(i - 1) : workOrder'[j] = d
  <2>1. CASE i = n + 1
    <3>1. d \in Added
      BY <1>1, <1>4, <1>7, <2>1
    <3>2. PICK j \in 1..n : workOrder[j] = d
      BY <3>1 DEF OrderInv
    <3>3. QED
      BY <1>1, <2>1, <3>2
  <2>2. CASE i \in 1..n
    <3>1. d \in definition[workOrder[i]].dependencies
      BY <1>1, <1>3, <1>7, <2>2 DEF OrderInv
    <3>2. PICK j \in 1..(i - 1) : workOrder[j] = d
      BY <2>2, <3>1 DEF OrderInv
    <3>3. j \in 1..n
      BY <1>1, <2>2
    <3>4. QED
      BY <1>1, <3>2, <3>3
  <2>3. QED
    BY <1>1, <2>1, <2>2
<1>8. QED
  BY <1>1, <1>5, <1>6, <1>7 DEF OrderInv

LEMMA OrderStep == TypeOK /\ TypeOK' /\ OrderInv /\ [Next]_vars => OrderInv'
<1> SUFFICES ASSUME TypeOK, TypeOK', OrderInv, [Next]_vars PROVE OrderInv'
  OBVIOUS
<1>1. CASE UNCHANGED workOrder /\ Added' \subseteq Added
  BY <1>1, OrderUntouched
<1>2. CASE PlanningEvent
  <2>1. ASSUME \/ \E p \in Plans, parent \in Plans \union {None} : PlanRegistered(p, parent)
               \/ \E c \in Contracts : ContractRegistered(c)
               \/ \E a \in Artifacts, kind \in Kinds, producer \in Units \union {None},
                    parents \in SUBSET Artifacts : ArtifactRegistered(a, kind, producer, parents)
        PROVE  UNCHANGED workOrder /\ Added' \subseteq Added
    BY <2>1 DEF PlanRegistered, ContractRegistered, ArtifactRegistered, unitVars, Added
  <2>2. QED
    BY <1>1, <1>2, <2>1, OrderExtended DEF PlanningEvent
<1>3. CASE ProjectEvent \/ OperationEvent \/ UNCHANGED vars
  <2>1. UNCHANGED workOrder /\ Added' \subseteq Added
    BY <1>3 DEF ProjectEvent, ProjectCreated, ProjectPaused, ProjectResumed, ProjectCompleted,
       ProjectAbandoned, OperationEvent, OperationStarted, OperationRetryStarted,
       OperationEnded, OperationReconciled, vars, planVars, unitVars, Added
  <2>2. QED
    BY <1>1, <2>1
<1>4. CASE UnitEvent
  <2>1. UNCHANGED workOrder
    BY <1>4 DEF UnitEvent, WorkUnitStarted, WorkUnitReopened, ContractEvaluated,
       WorkUnitSucceeded, WorkUnitReturned, WorkUnitStopped, Leave, planVars
  <2>2. PICK u \in Units : status[u] # "absent" /\ \A v \in Units \ {u} : status'[v] = status[v]
    BY <1>4 DEF UnitEvent, WorkUnitStarted, Ready, WorkUnitReopened, ContractEvaluated,
       WorkUnitSucceeded, WorkUnitReturned, WorkUnitStopped, Leave, OwnsUnit, TypeOK
  <2>3. Added' \subseteq Added
    BY <2>2 DEF Added
  <2>4. QED
    BY <1>1, <2>1, <2>3
<1>5. QED
  BY <1>2, <1>3, <1>4 DEF Next

\* Of the pending units the one that was added first waits for nothing that is pending.
LEMMA FirstPendingIsFree == TypeOK /\ OrderInv => NoDependencyDeadlock
<1> SUFFICES ASSUME TypeOK, OrderInv, NEW w \in Units, status[w] = "pending",
                    \A u \in Units : status[u] \notin {"running", "blocked", "failed", "cancelled"}
             PROVE  \E u \in Units : status[u] = "pending" /\ DependenciesSucceeded(u)
  BY DEF NoDependencyDeadlock
<1> DEFINE Waiting == {i \in 1..Len(workOrder) : status[workOrder[i]] = "pending"}
<1>1. Waiting \subseteq Nat /\ Waiting # {}
  <2>1. Len(workOrder) \in Nat
    BY DEF TypeOK
  <2>2. PICK k \in 1..Len(workOrder) : workOrder[k] = w
    BY DEF OrderInv, Added
  <2>3. QED
    BY <2>1, <2>2
<1>2. PICK i \in Waiting : \A k \in Waiting : ~(<<k, i>> \in OpToRel(<, Nat))
  <2> HIDE DEF Waiting
  <2>1. QED
    BY <1>1, NatLessThanWellFounded, WFMin
<1>3. \A k \in Waiting : ~(k < i)
  BY <1>1, <1>2 DEF OpToRel
<1>4. ASSUME NEW d \in definition[workOrder[i]].dependencies
      PROVE  status[d] = "succeeded"
  <2>1. PICK j \in 1..(i - 1) : workOrder[j] = d
    BY <1>4 DEF OrderInv
  <2>2. j \in 1..Len(workOrder) /\ j < i
    BY DEF TypeOK
  <2>3. d \in Units /\ status[d] # "absent"
    BY <2>1, <2>2 DEF OrderInv, Added
  <2>4. status[d] # "pending"
    BY <1>3, <2>1, <2>2
  <2>5. QED
    BY <2>3, <2>4 DEF TypeOK, WorkStatuses
<1>5. workOrder[i] \in Units
  BY DEF OrderInv, Added
<1>6. QED
  BY <1>4, <1>5 DEF DependenciesSucceeded

\* Dependencies never make units wait for each other: while a unit is pending, one that is
\* pending can be started, or one runs or has stopped (apply_event adds a unit only to units
\* that are there).
THEOREM NoDeadlock == Spec => []NoDependencyDeadlock
BY InitOrder, OrderStep, FirstPendingIsFree, TypeCorrect, PTL DEF Spec
=============================================================================
