----------------------------- MODULE EvolutionProofs -----------------------------
(***************************************************************************)
(* Proofs about the six components that MCEvolution runs side by side, for *)
(* any number of processes, jobs, attempts and deaths: the inductive       *)
(* invariant of each, what follows from it, and at the end that the         *)
(* composed specification implements each of them.                         *)
(***************************************************************************)
EXTENDS MCEvolution, FiniteSetTheorems, WellFoundedInduction, TLAPS

(***************************************************************************)
(* The run ledger                                                          *)
(***************************************************************************)

-----------------------------------------------------------------------------
(* Books and manifests *)

Manifests == [exists : BOOLEAN, book : Books, artifacts : Nat, count : Nat]

LEMMA EmptyManifest == NoRun \in Manifests
BY DEF NoRun, Manifests, Books, EmptyBook

LEMMA BookUpdates ==
  ASSUME NEW book \in Books
  PROVE  /\ WithAttempt(book) \in Books
         /\ \A a \in Attempts(book), verdict \in Verdicts : WithVerdict(book, a, verdict) \in Books
         /\ \A a \in Attempts(book) : WithSelection(book, a) \in Books
<1>1. /\ book.attempts \in Seq(Verdicts \union {Unverified})
      /\ book.result \in Verdicts \union {Unverified} /\ book.selected \in Nat
  BY DEF Books
<1>2. WithAttempt(book) \in Books
  <2>1. Append(book.attempts, Unverified) \in Seq(Verdicts \union {Unverified})
    BY <1>1
  <2>2. QED
    BY <2>1 DEF Books, WithAttempt
<1>3. ASSUME NEW a \in Attempts(book), NEW verdict \in Verdicts
      PROVE  WithVerdict(book, a, verdict) \in Books
  <2>1. [book.attempts EXCEPT ![a] = verdict] \in Seq(Verdicts \union {Unverified})
    BY <1>1 DEF Attempts
  <2>2. QED
    BY <1>1, <2>1 DEF Books, WithVerdict
<1>4. ASSUME NEW a \in Attempts(book) PROVE WithSelection(book, a) \in Books
  <2>1. book.attempts[a] \in Verdicts \union {Unverified} /\ a \in Nat
    BY <1>1, <1>4 DEF Attempts
  <2>2. QED
    BY <2>1 DEF Books, WithSelection
<1>5. QED
  BY <1>2, <1>3, <1>4

LEMMA CallFields ==
  ASSUME NEW c \in Calls
  PROVE  /\ c.kind \in {"event", "attempt", "artifact", "select", "verdict", "finish"}
         /\ c.kind = "event" => c.source \in AuditEvents \union {None}
         /\ c.kind \in {"artifact", "select", "verdict", "finish"} => c.attempt \in 1..AttemptCap
         /\ c.kind \in {"verdict", "finish"} => c.verdict \in Verdicts
BY DEF Calls

\* What a call makes of a manifest.
LEMMA UpdatedManifest ==
  ASSUME NEW m \in Manifests, NEW c \in Calls, c.kind # "event", ~Refused(m, c)
  PROVE  /\ Updated(m, c) \in Manifests
         /\ Updated(m, c).exists = m.exists /\ Updated(m, c).count = m.count
         /\ \/ /\ c.kind = "attempt" /\ Updated(m, c).book = WithAttempt(m.book)
               /\ Updated(m, c).artifacts = m.artifacts
            \/ /\ c.kind = "finish" /\ c.attempt \in Attempts(m.book) /\ c.verdict \in Verdicts
               /\ Updated(m, c).book = WithVerdict(m.book, c.attempt, c.verdict)
               /\ Updated(m, c).artifacts = m.artifacts
            \/ /\ c.kind = "select" /\ Verified(m.book, c.attempt)
               /\ Updated(m, c).book = WithSelection(m.book, c.attempt)
               /\ Updated(m, c).artifacts = m.artifacts
            \/ /\ c.kind \in {"artifact", "verdict"} /\ Updated(m, c).book = m.book
               /\ Updated(m, c).artifacts = m.artifacts + 1
<1>1. m.book \in Books
  BY DEF Manifests
<1>2. CASE c.kind = "attempt"
  <2>1. WithAttempt(m.book) \in Books
    BY <1>1, BookUpdates
  <2>2. Updated(m, c) = [m EXCEPT !.book = WithAttempt(m.book)]
    BY <1>2 DEF Updated
  <2>3. QED
    BY <1>2, <2>1, <2>2 DEF Manifests
<1>3. CASE c.kind = "finish"
  <2>1. c.attempt \in Attempts(m.book) /\ c.verdict \in Verdicts
    BY <1>3, CallFields DEF Refused
  <2>2. WithVerdict(m.book, c.attempt, c.verdict) \in Books
    BY <1>1, <2>1, BookUpdates
  <2>3. Updated(m, c) = [m EXCEPT !.book = WithVerdict(m.book, c.attempt, c.verdict)]
    BY <1>3 DEF Updated
  <2>4. QED
    BY <1>3, <2>1, <2>2, <2>3 DEF Manifests
<1>4. CASE c.kind = "select"
  <2>1. Verified(m.book, c.attempt) /\ c.attempt \in Attempts(m.book)
    BY <1>4 DEF Refused, Verified
  <2>2. WithSelection(m.book, c.attempt) \in Books
    BY <1>1, <2>1, BookUpdates
  <2>3. Updated(m, c) = [m EXCEPT !.book = WithSelection(m.book, c.attempt)]
    BY <1>4 DEF Updated
  <2>4. QED
    BY <1>4, <2>1, <2>2, <2>3 DEF Manifests
<1>5. CASE c.kind \in {"artifact", "verdict"}
  <2>1. Updated(m, c) = [m EXCEPT !.artifacts = @ + 1]
    BY <1>5 DEF Updated
  <2>2. QED
    BY <1>5, <2>1 DEF Manifests
<1>6. QED
  BY <1>2, <1>3, <1>4, <1>5, CallFields

-----------------------------------------------------------------------------
(* Types, and what each step does *)

InCall == {"waiting", "updating", "appending", "counting", "indexing"}
Holding == InCall \ {"waiting"}
Labels == InCall \union {"idle", "importing", "reindexing", "inserting"}
Lines == [sequence : Nat, told : {Told(c) : c \in Calls}]

StoreTypes ==
  /\ manifest \in Manifests
  /\ trajectory \in Seq(Lines)
  /\ index \in Verdicts \union {Unverified}
  /\ lock \in Processes \union {None}
  /\ beside \subseteq {"ingest", "reindex"}
  /\ crashes \in Nat

ProcessTypes ==
  /\ pc \in [Processes -> Labels]
  /\ call \in [Processes -> Calls \union {NoCall}]
  /\ copy \in [Processes -> Manifests]
  /\ pending \in [Processes -> SUBSET AuditEvents]
  /\ \A p \in Processes :
       /\ IF pc[p] \in InCall THEN call[p] \in Calls ELSE call[p] = NoCall
       /\ pc[p] = "updating" => call[p].kind # "event"

LedgerTypes == StoreTypes /\ ProcessTypes

LEMMA InitialTypes == LedgerInit => LedgerTypes
BY EmptyManifest
DEF LedgerInit, LedgerTypes, StoreTypes, ProcessTypes, Labels, InCall, Lines

Elsewhere(p) ==
  \A q \in Processes \ {p} : /\ pc'[q] = pc[q] /\ call'[q] = call[q]
                             /\ copy'[q] = copy[q] /\ pending'[q] = pending[q]

AtRest(p) == pc[p] = "idle" /\ call[p] = NoCall /\ copy[p] = NoRun /\ pending[p] = {}

LEMMA IdleEffect ==
  ASSUME ProcessTypes, NEW p \in Processes, Idle(p)
  PROVE  ProcessTypes' /\ Elsewhere(p) /\ AtRest(p)'
BY EmptyManifest
DEF ProcessTypes, Idle, Goto, Elsewhere, AtRest, Labels, InCall

LEMMA StartEffect ==
  ASSUME LedgerTypes, NEW p \in Processes, Start(p)
  PROVE  /\ LedgerTypes' /\ Elsewhere(p)
         /\ pc[p] = "idle" /\ ~manifest.exists
         /\ manifest'.exists /\ manifest'.book = EmptyBook
         /\ manifest'.artifacts = 0 /\ manifest'.count = 0
         /\ pc'[p] = "waiting" /\ call'[p].kind = "event" /\ call'[p].source = None
         /\ UNCHANGED <<trajectory, index, lock, copy, pending, beside, crashes>>
<1> USE DEF LedgerTypes
<1>1. /\ pc[p] = "idle" /\ ~manifest.exists
      /\ manifest' = [NoRun EXCEPT !.exists = TRUE]
      /\ call' = [call EXCEPT ![p] = [kind |-> "event", source |-> None]]
      /\ pc' = [pc EXCEPT ![p] = "waiting"]
      /\ UNCHANGED <<trajectory, index, lock, copy, pending, beside, crashes>>
  BY DEF Start, Goto
<1>2. /\ manifest' \in Manifests
      /\ manifest'.exists /\ manifest'.book = EmptyBook
      /\ manifest'.artifacts = 0 /\ manifest'.count = 0
  BY <1>1, EmptyManifest DEF NoRun, Manifests
<1>3. [kind |-> "event", source |-> None] \in Calls
  BY DEF Calls
<1>4. ProcessTypes' /\ Elsewhere(p)
  BY <1>1, <1>3 DEF ProcessTypes, Elsewhere, Labels, InCall
<1>5. StoreTypes'
  BY <1>1, <1>2 DEF StoreTypes
<1>6. QED
  BY <1>1, <1>2, <1>4, <1>5 DEF ProcessTypes

LEMMA CallEffect ==
  ASSUME LedgerTypes, NEW p \in Processes, Call(p)
  PROVE  /\ LedgerTypes' /\ Elsewhere(p)
         /\ pc[p] = "idle" /\ manifest.exists
         /\ pc'[p] = "waiting" /\ call'[p] \in Calls /\ call'[p].kind # "finish"
         /\ call'[p].kind = "event" => call'[p].source = None
         /\ beside' = Beside(p, "call")
         /\ UNCHANGED <<Stores, lock, copy, pending, crashes>>
<1> USE DEF LedgerTypes
<1>1. PICK c \in Calls : /\ c.kind # "finish" /\ (c.kind = "event" => c.source = None)
                         /\ call' = [call EXCEPT ![p] = c]
  BY DEF Call
<1>2. /\ pc[p] = "idle" /\ manifest.exists
      /\ pc' = [pc EXCEPT ![p] = "waiting"]
      /\ beside' = Beside(p, "call")
      /\ UNCHANGED <<Stores, lock, copy, pending, crashes>>
  BY DEF Call, Goto
<1>3. ProcessTypes' /\ Elsewhere(p) /\ call'[p] = c /\ pc'[p] = "waiting"
  BY <1>1, <1>2 DEF ProcessTypes, Elsewhere, Labels, InCall
<1>4. StoreTypes'
  BY <1>2 DEF StoreTypes, Stores, Beside
<1>5. QED
  BY <1>1, <1>2, <1>3, <1>4

LEMMA AcquireEffect ==
  ASSUME LedgerTypes, NEW p \in Processes, Acquire(p)
  PROVE  /\ LedgerTypes' /\ Elsewhere(p)
         /\ pc[p] = "waiting" /\ lock = None /\ lock' = p
         /\ copy'[p] = manifest
         /\ pc'[p] = IF call[p].kind = "event" THEN "appending" ELSE "updating"
         /\ UNCHANGED <<Stores, call, pending, beside, crashes>>
<1> USE DEF LedgerTypes
<1>1. PICK label \in {"appending", "updating"} :
        label = IF call[p].kind = "event" THEN "appending" ELSE "updating"
  OBVIOUS
<1>2. /\ pc[p] = "waiting" /\ lock = None /\ lock' = p
      /\ copy' = [copy EXCEPT ![p] = manifest]
      /\ pc' = [pc EXCEPT ![p] = label]
      /\ UNCHANGED <<Stores, call, pending, beside, crashes>>
  BY <1>1 DEF Acquire, Reading, Goto
<1>3. pc'[p] = label /\ copy'[p] = manifest /\ Elsewhere(p)
  BY <1>2 DEF ProcessTypes, Elsewhere
<1>4. ProcessTypes'
  BY <1>1, <1>2 DEF ProcessTypes, StoreTypes, Labels, InCall
<1>5. StoreTypes'
  BY <1>2 DEF StoreTypes, Stores
<1>6. QED
  BY <1>1, <1>2, <1>3, <1>4, <1>5

LEMMA RefuseEffect ==
  ASSUME LedgerTypes, NEW p \in Processes, Refuse(p)
  PROVE  /\ LedgerTypes' /\ Elsewhere(p)
         /\ pc[p] = "updating" /\ lock' = None /\ AtRest(p)'
         /\ UNCHANGED <<Stores, beside, crashes>>
<1>1. pc[p] = "updating" /\ lock' = None /\ Idle(p) /\ UNCHANGED <<Stores, beside, crashes>>
  BY DEF Refuse
<1>2. StoreTypes'
  BY <1>1 DEF LedgerTypes, StoreTypes, Stores
<1>3. QED
  BY <1>1, <1>2, IdleEffect DEF LedgerTypes

LEMMA WriteManifestEffect ==
  ASSUME LedgerTypes, NEW p \in Processes, WriteManifest(p)
  PROVE  /\ LedgerTypes' /\ Elsewhere(p)
         /\ pc[p] = "updating" /\ call[p] \in Calls /\ call[p].kind # "event"
         /\ ~Refused(copy[p], call[p]) /\ manifest' = Updated(copy[p], call[p])
         /\ pc'[p] = "appending"
         /\ UNCHANGED <<trajectory, index, lock, call, copy, pending, beside, crashes>>
<1> USE DEF LedgerTypes
<1>1. /\ pc[p] = "updating" /\ ~Refused(copy[p], call[p])
      /\ manifest' = Updated(copy[p], call[p])
      /\ pc' = [pc EXCEPT ![p] = "appending"]
      /\ UNCHANGED <<trajectory, index, lock, call, copy, pending, beside, crashes>>
  BY DEF WriteManifest, Goto
<1>2. call[p] \in Calls /\ call[p].kind # "event" /\ copy[p] \in Manifests
  BY <1>1 DEF ProcessTypes, InCall
<1>3. manifest' \in Manifests
  BY <1>1, <1>2, UpdatedManifest
<1>4. ProcessTypes' /\ Elsewhere(p) /\ pc'[p] = "appending"
  BY <1>1, <1>2 DEF ProcessTypes, Elsewhere, Labels, InCall
<1>5. StoreTypes'
  BY <1>1, <1>3 DEF StoreTypes
<1>6. QED
  BY <1>1, <1>2, <1>4, <1>5

LEMMA AppendLineEffect ==
  ASSUME LedgerTypes, NEW p \in Processes, AppendLine(p)
  PROVE  /\ LedgerTypes' /\ Elsewhere(p)
         /\ pc[p] = "appending" /\ pc'[p] = "counting" /\ copy'[p] = manifest
         /\ [sequence |-> manifest.count + 1, told |-> Told(call[p])] \in Lines
         /\ trajectory' =
              Append(trajectory, [sequence |-> manifest.count + 1, told |-> Told(call[p])])
         /\ UNCHANGED <<manifest, index, lock, call, pending, beside, crashes>>
<1> USE DEF LedgerTypes
<1>1. /\ pc[p] = "appending" /\ copy' = [copy EXCEPT ![p] = manifest]
      /\ trajectory' =
           Append(trajectory, [sequence |-> manifest.count + 1, told |-> Told(call[p])])
      /\ pc' = [pc EXCEPT ![p] = "counting"]
      /\ UNCHANGED <<manifest, index, lock, call, pending, beside, crashes>>
  BY DEF AppendLine, Goto
<1>2. call[p] \in Calls /\ manifest \in Manifests
  BY <1>1 DEF ProcessTypes, StoreTypes, InCall
<1>3. manifest.count + 1 \in Nat
  BY <1>2 DEF Manifests
<1>4. [sequence |-> manifest.count + 1, told |-> Told(call[p])] \in Lines
  BY <1>2, <1>3 DEF Lines
<1>5. ProcessTypes' /\ Elsewhere(p) /\ pc'[p] = "counting" /\ copy'[p] = manifest
  BY <1>1, <1>2 DEF ProcessTypes, Elsewhere, Labels, InCall
<1>6. StoreTypes'
  BY <1>1, <1>4 DEF StoreTypes
<1>7. QED
  BY <1>1, <1>4, <1>5, <1>6

LEMMA WriteCountEffect ==
  ASSUME LedgerTypes, NEW p \in Processes, WriteCount(p)
  PROVE  /\ LedgerTypes' /\ Elsewhere(p)
         /\ pc[p] = "counting" /\ pc'[p] = "indexing"
         /\ manifest'.exists = copy[p].exists /\ manifest'.book = copy[p].book
         /\ manifest'.artifacts = copy[p].artifacts /\ manifest'.count = copy[p].count + 1
         /\ copy'[p] = manifest'
         /\ UNCHANGED <<trajectory, index, lock, call, pending, beside, crashes>>
<1> USE DEF LedgerTypes
<1>1. /\ pc[p] = "counting" /\ manifest' = [copy[p] EXCEPT !.count = @ + 1]
      /\ copy' = [copy EXCEPT ![p] = manifest']
      /\ pc' = [pc EXCEPT ![p] = "indexing"]
      /\ UNCHANGED <<trajectory, index, lock, call, pending, beside, crashes>>
  BY DEF WriteCount, Goto
<1>2. PICK m \in Manifests : m = copy[p]
  BY DEF ProcessTypes
<1>3. /\ manifest' \in Manifests
      /\ manifest'.exists = m.exists /\ manifest'.book = m.book
      /\ manifest'.artifacts = m.artifacts /\ manifest'.count = m.count + 1
  BY <1>1, <1>2 DEF Manifests
<1>4. ProcessTypes' /\ Elsewhere(p) /\ pc'[p] = "indexing" /\ copy'[p] = manifest'
  BY <1>1, <1>3 DEF ProcessTypes, Elsewhere, Labels, InCall
<1>5. StoreTypes'
  BY <1>1, <1>3 DEF StoreTypes
<1>6. QED
  BY <1>1, <1>2, <1>3, <1>4, <1>5

LEMMA UpdateIndexEffect ==
  ASSUME LedgerTypes, NEW p \in Processes, UpdateIndex(p)
  PROVE  /\ LedgerTypes' /\ Elsewhere(p)
         /\ pc[p] = "indexing" /\ lock' = None /\ index' = copy[p].book.result
         /\ \/ /\ pc'[p] = "waiting" /\ call'[p].kind = "finish"
               /\ copy'[p] = copy[p] /\ pending'[p] = pending[p]
            \/ /\ pc'[p] = "importing" /\ call[p].kind = "event" /\ call[p].source # None
               /\ copy'[p] = copy[p] /\ pending'[p] = pending[p]
            \/ ~Importing(p) /\ AtRest(p)'
         /\ UNCHANGED <<manifest, trajectory, beside, crashes>>
<1> USE DEF LedgerTypes
<1>1. /\ pc[p] = "indexing" /\ lock' = None /\ index' = copy[p].book.result
      /\ UNCHANGED <<manifest, trajectory, beside, crashes>>
  BY DEF UpdateIndex, Return
<1>2. copy[p].book.result \in Verdicts \union {Unverified}
  BY DEF ProcessTypes, Manifests, Books
<1>3. StoreTypes'
  BY <1>1, <1>2 DEF StoreTypes
<1>4. CASE /\ call[p].kind = "verdict"
           /\ call' = [call EXCEPT ![p] = [@ EXCEPT !.kind = "finish"]]
           /\ Goto(p, "waiting") /\ UNCHANGED <<copy, pending>>
  <2>1. PICK c \in Calls : c = call[p] /\ c.kind = "verdict"
    BY <1>1, <1>4 DEF ProcessTypes, InCall
  <2>2. PICK d \in Calls : d = [c EXCEPT !.kind = "finish"] /\ d.kind = "finish"
    <3>1. c \in [kind : {"verdict", "finish"}, attempt : 1..AttemptCap, verdict : Verdicts]
      BY <2>1 DEF Calls
    <3>2. [c EXCEPT !.kind = "finish"] \in
            [kind : {"verdict", "finish"}, attempt : 1..AttemptCap, verdict : Verdicts]
      BY <3>1
    <3>3. [c EXCEPT !.kind = "finish"].kind = "finish"
      BY <3>1
    <3>4. QED
      BY <3>2, <3>3 DEF Calls
  <2>3. call' = [call EXCEPT ![p] = d] /\ pc' = [pc EXCEPT ![p] = "waiting"]
    BY <1>4, <2>1, <2>2 DEF Goto
  <2>4. ProcessTypes' /\ Elsewhere(p) /\ pc'[p] = "waiting" /\ call'[p] = d
    BY <1>4, <2>3 DEF ProcessTypes, Elsewhere, Labels, InCall
  <2>5. QED
    BY <1>1, <1>3, <1>4, <2>2, <2>4
<1>5. CASE /\ Importing(p)
           /\ call' = [call EXCEPT ![p] = NoCall]
           /\ Goto(p, "importing") /\ UNCHANGED <<copy, pending>>
  <2>1. ProcessTypes' /\ Elsewhere(p) /\ pc'[p] = "importing"
    BY <1>5 DEF ProcessTypes, Elsewhere, Goto, Labels, InCall
  <2>2. call[p].kind = "event" /\ call[p].source # None
    BY <1>1, <1>5 DEF Importing
  <2>3. QED
    BY <1>1, <1>3, <1>5, <2>1, <2>2
<1>6. CASE ~Importing(p) /\ Idle(p)
  BY <1>1, <1>3, <1>6, IdleEffect
<1>7. QED
  BY <1>4, <1>5, <1>6 DEF UpdateIndex, Return

LEMMA IngestEffect ==
  ASSUME LedgerTypes, NEW p \in Processes, Ingest(p)
  PROVE  /\ LedgerTypes' /\ Elsewhere(p)
         /\ pc[p] = "idle" /\ pc'[p] = "importing" /\ trajectory # <<>>
         /\ pending'[p] = NotImported /\ beside' = Beside(p, "ingest")
         /\ UNCHANGED <<Stores, lock, call, copy, crashes>>
<1> USE DEF LedgerTypes
<1>1. /\ pc[p] = "idle" /\ pc' = [pc EXCEPT ![p] = "importing"] /\ trajectory # <<>>
      /\ pending' = [pending EXCEPT ![p] = NotImported] /\ beside' = Beside(p, "ingest")
      /\ UNCHANGED <<Stores, lock, call, copy, crashes>>
  BY DEF Ingest, Goto
<1>2. NotImported \subseteq AuditEvents
  BY DEF NotImported
<1>3. ProcessTypes' /\ Elsewhere(p) /\ pc'[p] = "importing" /\ pending'[p] = NotImported
  BY <1>1, <1>2 DEF ProcessTypes, Elsewhere, Labels, InCall
<1>4. StoreTypes'
  BY <1>1 DEF StoreTypes, Stores, Beside
<1>5. QED
  BY <1>1, <1>3, <1>4

LEMMA ImportNextEffect ==
  ASSUME LedgerTypes, NEW p \in Processes, ImportNext(p)
  PROVE  /\ LedgerTypes' /\ Elsewhere(p)
         /\ pc[p] = "importing" /\ pc'[p] = "waiting"
         /\ call'[p].kind = "event" /\ call'[p].source \in pending[p]
         /\ pending'[p] = pending[p] \ {call'[p].source}
         /\ UNCHANGED <<Stores, lock, copy, beside, crashes>>
<1> USE DEF LedgerTypes
<1>1. PICK e \in pending[p] : /\ call' = [call EXCEPT ![p] = [kind |-> "event", source |-> e]]
                              /\ pending' = [pending EXCEPT ![p] = @ \ {e}]
  BY DEF ImportNext
<1>2. /\ pc[p] = "importing" /\ pc' = [pc EXCEPT ![p] = "waiting"]
      /\ UNCHANGED <<Stores, lock, copy, beside, crashes>>
  BY DEF ImportNext, Goto
<1>3. PICK c \in Calls : c = [kind |-> "event", source |-> e]
  BY DEF ProcessTypes, Calls
<1>4. call' = [call EXCEPT ![p] = c] /\ c.kind = "event" /\ c.source = e
  BY <1>1, <1>3
<1>5. /\ ProcessTypes' /\ Elsewhere(p) /\ pc'[p] = "waiting" /\ call'[p] = c
      /\ pending'[p] = pending[p] \ {e}
  BY <1>1, <1>2, <1>4 DEF ProcessTypes, Elsewhere, Labels, InCall
<1>6. StoreTypes'
  BY <1>2 DEF StoreTypes, Stores
<1>7. QED
  BY <1>2, <1>4, <1>5, <1>6

LEMMA IngestEndsEffect ==
  ASSUME LedgerTypes, NEW p \in Processes, IngestEnds(p)
  PROVE  /\ LedgerTypes' /\ Elsewhere(p)
         /\ pc[p] = "importing" /\ AtRest(p)'
         /\ UNCHANGED <<Stores, lock, beside, crashes>>
<1>1. pc[p] = "importing" /\ Idle(p) /\ UNCHANGED <<Stores, lock, beside, crashes>>
  BY DEF IngestEnds
<1>2. StoreTypes'
  BY <1>1 DEF LedgerTypes, StoreTypes, Stores
<1>3. QED
  BY <1>1, <1>2, IdleEffect DEF LedgerTypes

LEMMA ReindexEffect ==
  ASSUME LedgerTypes, NEW p \in Processes, Reindex(p)
  PROVE  /\ LedgerTypes' /\ Elsewhere(p)
         /\ pc[p] = "idle" /\ manifest.exists /\ pc'[p] = "reindexing"
         /\ beside' = Beside(p, "reindex")
         /\ UNCHANGED <<manifest, trajectory, lock, call, copy, pending, crashes>>
<1> USE DEF LedgerTypes
<1>1. /\ pc[p] = "idle" /\ manifest.exists /\ pc' = [pc EXCEPT ![p] = "reindexing"]
      /\ index' = Unverified /\ beside' = Beside(p, "reindex")
      /\ UNCHANGED <<manifest, trajectory, lock, call, copy, pending, crashes>>
  BY DEF Reindex, Goto
<1>2. ProcessTypes' /\ Elsewhere(p) /\ pc'[p] = "reindexing"
  BY <1>1 DEF ProcessTypes, Elsewhere, Labels, InCall
<1>3. StoreTypes'
  BY <1>1 DEF StoreTypes, Beside
<1>4. QED
  BY <1>1, <1>2, <1>3

LEMMA ReadRunEffect ==
  ASSUME LedgerTypes, NEW p \in Processes, ReadRun(p)
  PROVE  /\ LedgerTypes' /\ Elsewhere(p)
         /\ pc[p] = "reindexing" /\ pc'[p] = "inserting" /\ copy'[p] = manifest
         /\ UNCHANGED <<Stores, lock, call, pending, beside, crashes>>
<1> USE DEF LedgerTypes
<1>1. /\ pc[p] = "reindexing" /\ pc' = [pc EXCEPT ![p] = "inserting"]
      /\ copy' = [copy EXCEPT ![p] = manifest]
      /\ UNCHANGED <<Stores, lock, call, pending, beside, crashes>>
  BY DEF ReadRun, Goto
<1>2. ProcessTypes' /\ Elsewhere(p) /\ pc'[p] = "inserting" /\ copy'[p] = manifest
  BY <1>1 DEF ProcessTypes, StoreTypes, Elsewhere, Labels, InCall
<1>3. StoreTypes'
  BY <1>1 DEF StoreTypes, Stores
<1>4. QED
  BY <1>1, <1>2, <1>3

LEMMA InsertRowEffect ==
  ASSUME LedgerTypes, NEW p \in Processes, InsertRow(p)
  PROVE  /\ LedgerTypes' /\ Elsewhere(p)
         /\ pc[p] = "inserting" /\ index' = copy[p].book.result /\ AtRest(p)'
         /\ UNCHANGED <<manifest, trajectory, lock, beside, crashes>>
<1> USE DEF LedgerTypes
<1>1. /\ pc[p] = "inserting" /\ index' = copy[p].book.result /\ Idle(p)
      /\ UNCHANGED <<manifest, trajectory, lock, beside, crashes>>
  BY DEF InsertRow
<1>2. copy[p].book.result \in Verdicts \union {Unverified}
  BY DEF ProcessTypes, Manifests, Books
<1>3. StoreTypes'
  BY <1>1, <1>2 DEF StoreTypes
<1>4. QED
  BY <1>1, <1>3, IdleEffect

LEMMA CrashEffect ==
  ASSUME LedgerTypes, NEW p \in Processes, Crash(p)
  PROVE  /\ LedgerTypes' /\ Elsewhere(p)
         /\ pc[p] # "idle" /\ AtRest(p)' /\ crashes' = crashes + 1
         /\ lock' = IF lock = p THEN None ELSE lock
         /\ UNCHANGED <<Stores, beside>>
<1>1. /\ pc[p] # "idle" /\ Idle(p) /\ crashes' = crashes + 1
      /\ lock' = IF lock = p THEN None ELSE lock
      /\ UNCHANGED <<Stores, beside>>
  BY DEF Crash
<1>2. StoreTypes'
  BY <1>1 DEF LedgerTypes, StoreTypes, Stores
<1>3. QED
  BY <1>1, <1>2, IdleEffect DEF LedgerTypes

LEMMA TypesKept == LedgerTypes /\ [LedgerNext]_ledgerVars => LedgerTypes'
<1> SUFFICES ASSUME LedgerTypes, [LedgerNext]_ledgerVars PROVE LedgerTypes'
  OBVIOUS
<1>1. CASE UNCHANGED ledgerVars
  BY <1>1 DEF ledgerVars, Stores, LedgerTypes, StoreTypes, ProcessTypes
<1>2. ASSUME NEW p \in Processes,
             Start(p) \/ Call(p) \/ Ingest(p) \/ Reindex(p) \/ Acquire(p) \/ Step(p) \/ Crash(p)
      PROVE  LedgerTypes'
  BY <1>2, StartEffect, CallEffect, IngestEffect, ReindexEffect, AcquireEffect, CrashEffect,
     RefuseEffect, WriteManifestEffect, AppendLineEffect, WriteCountEffect, UpdateIndexEffect,
     ImportNextEffect, IngestEndsEffect, ReadRunEffect, InsertRowEffect DEF Step
<1>3. QED
  BY <1>1, <1>2 DEF LedgerNext

-----------------------------------------------------------------------------
(* The lock *)

\* Who is past the lock holds it, and knows the manifest whenever it is about to write it.
LockInv ==
  \A p \in Processes :
    /\ pc[p] \in Holding => lock = p
    /\ pc[p] \in {"updating", "counting", "indexing"} => copy[p] = manifest

\* Nothing happens before the run is there.
ExistsInv ==
  ~manifest.exists =>
    /\ manifest.book = EmptyBook /\ manifest.artifacts = 0 /\ manifest.count = 0
    /\ trajectory = <<>>
    /\ \A p \in Processes : pc[p] = "idle"

BaseInv == LedgerTypes /\ LockInv /\ ExistsInv

LEMMA InitialBase == LedgerInit => BaseInv
BY InitialTypes
DEF LedgerInit, BaseInv, LockInv, ExistsInv, Holding, InCall, NoRun

LEMMA LockStep ==
  ASSUME BaseInv, NEW p \in Processes,
         Start(p) \/ Call(p) \/ Ingest(p) \/ Reindex(p) \/ Acquire(p) \/ Step(p) \/ Crash(p)
  PROVE  LockInv' /\ ExistsInv'
<1> USE LedgerAssumption DEF BaseInv, Holding, InCall
<1>1. CASE Start(p)
  BY <1>1, StartEffect DEF LockInv, ExistsInv, Elsewhere
<1>2. CASE Call(p)
  BY <1>2, CallEffect DEF LockInv, ExistsInv, Elsewhere, Stores
<1>3. CASE Ingest(p)
  BY <1>3, IngestEffect DEF LockInv, ExistsInv, Elsewhere, Stores
<1>4. CASE Reindex(p)
  BY <1>4, ReindexEffect DEF LockInv, ExistsInv, Elsewhere
<1>5. CASE Acquire(p)
  BY <1>5, AcquireEffect DEF LockInv, ExistsInv, Elsewhere, Stores
<1>6. CASE Crash(p)
  BY <1>6, CrashEffect DEF LockInv, ExistsInv, Elsewhere, Stores, AtRest
<1>7. CASE Refuse(p)
  BY <1>7, RefuseEffect DEF LockInv, ExistsInv, Elsewhere, Stores, AtRest
<1>8. CASE WriteManifest(p)
  <2>1. copy[p] \in Manifests /\ copy[p] = manifest /\ manifest.exists
    BY <1>8, WriteManifestEffect DEF LockInv, ExistsInv, LedgerTypes, ProcessTypes
  <2>2. manifest'.exists
    BY <1>8, <2>1, WriteManifestEffect, UpdatedManifest
  <2>3. QED
    BY <1>8, <2>2, WriteManifestEffect DEF LockInv, ExistsInv, Elsewhere
<1>9. CASE AppendLine(p)
  BY <1>9, AppendLineEffect DEF LockInv, ExistsInv, Elsewhere
<1>10. CASE WriteCount(p)
  BY <1>10, WriteCountEffect DEF LockInv, ExistsInv, Elsewhere
<1>11. CASE UpdateIndex(p)
  BY <1>11, UpdateIndexEffect DEF LockInv, ExistsInv, Elsewhere, AtRest
<1>12. CASE ImportNext(p)
  BY <1>12, ImportNextEffect DEF LockInv, ExistsInv, Elsewhere, Stores
<1>13. CASE IngestEnds(p)
  BY <1>13, IngestEndsEffect DEF LockInv, ExistsInv, Elsewhere, Stores, AtRest
<1>14. CASE ReadRun(p)
  BY <1>14, ReadRunEffect DEF LockInv, ExistsInv, Elsewhere, Stores
<1>15. CASE InsertRow(p)
  BY <1>15, InsertRowEffect DEF LockInv, ExistsInv, Elsewhere, AtRest
<1>16. QED
  BY <1>1, <1>2, <1>3, <1>4, <1>5, <1>6, <1>7, <1>8, <1>9, <1>10, <1>11, <1>12, <1>13,
     <1>14, <1>15 DEF Step

LEMMA BaseKept == BaseInv /\ [LedgerNext]_ledgerVars => BaseInv'
<1> SUFFICES ASSUME BaseInv, [LedgerNext]_ledgerVars PROVE BaseInv'
  OBVIOUS
<1>1. LedgerTypes'
  BY TypesKept DEF BaseInv
<1>2. CASE UNCHANGED ledgerVars
  BY <1>1, <1>2 DEF BaseInv, LockInv, ExistsInv, ledgerVars, Stores
<1>3. CASE LedgerNext
  BY <1>1, <1>3, LockStep DEF BaseInv, LedgerNext
<1>4. QED
  BY <1>2, <1>3

-----------------------------------------------------------------------------
(* The book of attempts *)

BookNext == [Promise!AddAttempt \/ Promise!Finish \/ Promise!Select]_(manifest.book)

\* Only a call that has read the manifest under the lock writes another book.
LEMMA BookStep ==
  ASSUME BaseInv, NEW p \in Processes, WriteManifest(p)
  PROVE  BookNext
<1> USE DEF BaseInv
<1>1. /\ copy[p] = manifest /\ manifest \in Manifests
      /\ call[p] \in Calls /\ call[p].kind # "event" /\ ~Refused(manifest, call[p])
      /\ manifest' = Updated(manifest, call[p])
  BY WriteManifestEffect DEF LockInv, LedgerTypes, StoreTypes
<1>2. CASE call[p].kind = "attempt" /\ manifest'.book = WithAttempt(manifest.book)
  BY <1>2 DEF BookNext, Promise!AddAttempt, Promise!WithAttempt, WithAttempt
<1>3. CASE /\ call[p].attempt \in Attempts(manifest.book) /\ call[p].verdict \in Verdicts
           /\ manifest'.book = WithVerdict(manifest.book, call[p].attempt, call[p].verdict)
  BY <1>3 DEF BookNext, Promise!Finish, Promise!WithVerdict, WithVerdict, Promise!Attempts, Attempts
<1>4. CASE /\ Verified(manifest.book, call[p].attempt)
           /\ manifest'.book = WithSelection(manifest.book, call[p].attempt)
  BY <1>4 DEF BookNext, Promise!Select, Promise!WithSelection, WithSelection, Promise!Verified,
     Verified, Promise!Attempts, Attempts
<1>5. CASE manifest'.book = manifest.book
  BY <1>5 DEF BookNext
<1>6. QED
  BY <1>1, <1>2, <1>3, <1>4, <1>5, UpdatedManifest

LEMMA BookKept == BaseInv /\ [LedgerNext]_ledgerVars => BookNext
<1> SUFFICES ASSUME BaseInv, [LedgerNext]_ledgerVars PROVE BookNext
  OBVIOUS
<1> USE DEF BaseInv
<1>1. CASE manifest'.book = manifest.book
  BY <1>1 DEF BookNext
<1>2. CASE UNCHANGED ledgerVars
  BY <1>1, <1>2 DEF ledgerVars, Stores
<1>3. ASSUME NEW p \in Processes,
             Start(p) \/ Call(p) \/ Ingest(p) \/ Reindex(p) \/ Acquire(p) \/ Step(p) \/ Crash(p)
      PROVE  BookNext
  <2>1. CASE WriteManifest(p)
    BY <2>1, BookStep
  <2>2. CASE Start(p)
    BY <1>1, <2>2, StartEffect DEF ExistsInv
  <2>3. CASE WriteCount(p)
    BY <1>1, <2>3, WriteCountEffect DEF LockInv
  <2>4. CASE Call(p) \/ Ingest(p) \/ Reindex(p) \/ Acquire(p) \/ Crash(p) \/ Refuse(p)
    BY <1>1, <2>4, CallEffect, IngestEffect, ReindexEffect, AcquireEffect, CrashEffect,
       RefuseEffect DEF Stores
  <2>5. CASE \/ AppendLine(p) \/ UpdateIndex(p) \/ ImportNext(p) \/ IngestEnds(p)
             \/ ReadRun(p) \/ InsertRow(p)
    BY <1>1, <2>5, AppendLineEffect, UpdateIndexEffect, ImportNextEffect, IngestEndsEffect,
       ReadRunEffect, InsertRowEffect DEF Stores
  <2>6. QED
    BY <1>3, <2>1, <2>2, <2>3, <2>4, <2>5 DEF Step
<1>4. QED
  BY <1>2, <1>3 DEF LedgerNext

\* The ledger implements AttemptBook: no attempt and no verdict is lost between processes.
THEOREM BookRefinement == LedgerSpec => ImplementsAttemptBook
<1>1. LedgerInit => BaseInv
  BY InitialBase
<1>2. BaseInv /\ [LedgerNext]_ledgerVars => BaseInv'
  BY BaseKept
<1>3. LedgerInit => Promise!BookInit
  BY DEF LedgerInit, NoRun, Promise!BookInit, Promise!EmptyBook, EmptyBook
<1>4. BaseInv /\ [LedgerNext]_ledgerVars =>
        [Promise!AddAttempt \/ Promise!Finish \/ Promise!Select]_(manifest.book)
  BY BookKept DEF BookNext
<1>5. QED
  BY <1>1, <1>2, <1>3, <1>4, PTL DEF LedgerSpec, ImplementsAttemptBook, Promise!BookSpec

-----------------------------------------------------------------------------
(* The lines are counted *)

SomeoneCounts == \E p \in Processes : pc[p] = "counting"

CountInv ==
  /\ ~SomeoneCounts =>
       manifest.count <= Len(trajectory) /\ Len(trajectory) <= manifest.count + crashes
  /\ SomeoneCounts =>
       manifest.count + 1 <= Len(trajectory) /\ Len(trajectory) <= manifest.count + crashes + 1
  /\ \A i \in 1..Len(trajectory) :
       /\ trajectory[i].sequence <= manifest.count + 1
       /\ i <= trajectory[i].sequence + crashes /\ trajectory[i].sequence <= i
       /\ \A j \in 1..(i - 1) : trajectory[j].sequence <= trajectory[i].sequence

LEMMA CountNumbers ==
  ASSUME LedgerTypes
  PROVE  /\ manifest.count \in Nat /\ crashes \in Nat /\ Len(trajectory) \in Nat
         /\ \A i \in 1..Len(trajectory) : trajectory[i].sequence \in Nat
<1>1. manifest \in Manifests /\ crashes \in Nat /\ trajectory \in Seq(Lines)
  BY DEF LedgerTypes, StoreTypes
<1>2. \A i \in 1..Len(trajectory) : trajectory[i] \in Lines
  BY <1>1
<1>3. \A line \in Lines : line.sequence \in Nat
  BY DEF Lines
<1>4. QED
  BY <1>1, <1>2, <1>3 DEF Manifests

LEMMA CountUntouched ==
  ASSUME BaseInv, CountInv, UNCHANGED trajectory, manifest'.count = manifest.count,
         SomeoneCounts' <=> SomeoneCounts, UNCHANGED crashes
  PROVE  CountInv'
BY DEF CountInv

LEMMA CountStep ==
  ASSUME BaseInv, CountInv, NEW p \in Processes,
         Start(p) \/ Call(p) \/ Ingest(p) \/ Reindex(p) \/ Acquire(p) \/ Step(p) \/ Crash(p)
  PROVE  CountInv'
<1> USE DEF BaseInv
<1>1. CASE AppendLine(p)
  <2>1. ~SomeoneCounts
    BY <1>1, AppendLineEffect DEF SomeoneCounts, LockInv, Holding, InCall
  <2>2. SomeoneCounts'
    BY <1>1, AppendLineEffect DEF SomeoneCounts
  <2>3. PICK line \in Lines : /\ line.sequence = manifest.count + 1
                              /\ trajectory' = Append(trajectory, line)
    BY <1>1, AppendLineEffect DEF Lines
  <2>4. /\ Len(trajectory') = Len(trajectory) + 1
        /\ trajectory'[Len(trajectory) + 1] = line
        /\ \A i \in 1..Len(trajectory) : trajectory'[i] = trajectory[i]
    BY <2>3 DEF LedgerTypes, StoreTypes
  <2>5. UNCHANGED <<manifest, crashes>>
    BY <1>1, AppendLineEffect
  <2>6. ASSUME NEW i \in 1..Len(trajectory')
        PROVE  /\ trajectory'[i].sequence <= manifest.count + 1
               /\ i <= trajectory'[i].sequence + crashes /\ trajectory'[i].sequence <= i
               /\ \A j \in 1..(i - 1) : trajectory'[j].sequence <= trajectory'[i].sequence
    <3>1. CASE i = Len(trajectory) + 1
      <4>1. trajectory'[i].sequence = manifest.count + 1
        BY <2>3, <2>4, <3>1
      <4>2. manifest.count <= Len(trajectory) /\ Len(trajectory) <= manifest.count + crashes
        BY <2>1 DEF CountInv
      <4>3. \A j \in 1..(i - 1) : trajectory'[j].sequence <= manifest.count + 1
        <5>1. 1..(i - 1) = 1..Len(trajectory)
          BY <3>1, CountNumbers
        <5>2. QED
          BY <2>4, <5>1 DEF CountInv
      <4>4. QED
        BY <3>1, <4>1, <4>2, <4>3, CountNumbers
    <3>2. CASE i \in 1..Len(trajectory)
      <4>1. 1..(i - 1) \subseteq 1..Len(trajectory)
        BY <3>2, CountNumbers
      <4>2. /\ trajectory'[i] = trajectory[i]
            /\ \A j \in 1..(i - 1) : trajectory'[j] = trajectory[j]
        BY <2>4, <3>2, <4>1
      <4>3. QED
        BY <3>2, <4>2 DEF CountInv
    <3>3. QED
      BY <2>4, <3>1, <3>2, CountNumbers
  <2>7. manifest.count + 1 <= Len(trajectory') /\ Len(trajectory') <= manifest.count + crashes + 1
    BY <2>1, <2>4, CountNumbers DEF CountInv
  <2>8. QED
    BY <2>2, <2>5, <2>6, <2>7 DEF CountInv
<1>2. CASE WriteCount(p)
  <2>1. SomeoneCounts /\ ~SomeoneCounts' /\ copy[p] = manifest
    BY <1>2, WriteCountEffect, LedgerAssumption
    DEF SomeoneCounts, LockInv, Holding, InCall, Elsewhere
  <2>2. manifest'.count = manifest.count + 1 /\ UNCHANGED <<trajectory, crashes>>
    BY <1>2, <2>1, WriteCountEffect
  <2>3. \A i \in 1..Len(trajectory) : trajectory[i].sequence <= manifest'.count + 1
    BY <2>2, CountNumbers DEF CountInv
  <2>4. manifest'.count <= Len(trajectory) /\ Len(trajectory) <= manifest'.count + crashes
    BY <2>1, <2>2, CountNumbers DEF CountInv
  <2>5. \A i \in 1..Len(trajectory) :
          /\ i <= trajectory[i].sequence + crashes /\ trajectory[i].sequence <= i
          /\ \A j \in 1..(i - 1) : trajectory[j].sequence <= trajectory[i].sequence
    BY DEF CountInv
  <2>6. \A i \in 1..Len(trajectory') :
          /\ trajectory'[i].sequence <= manifest'.count + 1
          /\ i <= trajectory'[i].sequence + crashes' /\ trajectory'[i].sequence <= i
          /\ \A j \in 1..(i - 1) : trajectory'[j].sequence <= trajectory'[i].sequence
    BY <2>2, <2>3, <2>5
  <2>7. manifest'.count <= Len(trajectory') /\ Len(trajectory') <= manifest'.count + crashes'
    BY <2>2, <2>4
  <2>8. ~(SomeoneCounts')
    BY <2>1
  <2>9. QED
    BY ONLY <2>6, <2>7, <2>8 DEF CountInv
<1>3. CASE Crash(p)
  <2>1. UNCHANGED <<manifest, trajectory>> /\ crashes' = crashes + 1
    BY <1>3, CrashEffect DEF Stores
  <2>2. SomeoneCounts' => SomeoneCounts
    BY <1>3, CrashEffect DEF SomeoneCounts, AtRest, Elsewhere
  <2>3. /\ ~(SomeoneCounts') =>
             manifest.count <= Len(trajectory) /\ Len(trajectory) <= manifest.count + crashes'
        /\ SomeoneCounts' =>
             /\ manifest.count + 1 <= Len(trajectory)
             /\ Len(trajectory) <= manifest.count + crashes' + 1
    BY <2>1, <2>2, CountNumbers DEF CountInv
  <2>4. \A i \in 1..Len(trajectory) : i <= trajectory[i].sequence + crashes'
    BY <2>1, CountNumbers DEF CountInv
  <2>5. QED
    BY <2>1, <2>3, <2>4 DEF CountInv
<1>4. CASE Start(p)
  <2>1. UNCHANGED <<trajectory, crashes>> /\ manifest'.count = manifest.count
    BY <1>4, StartEffect DEF ExistsInv
  <2>2. SomeoneCounts' <=> SomeoneCounts
    BY <1>4, StartEffect DEF SomeoneCounts, Elsewhere
  <2>3. QED
    BY <2>1, <2>2, CountUntouched
<1>5. CASE WriteManifest(p)
  <2>1. UNCHANGED <<trajectory, crashes>> /\ manifest'.count = manifest.count
    BY <1>5, WriteManifestEffect, UpdatedManifest DEF LockInv, LedgerTypes, StoreTypes
  <2>2. SomeoneCounts' <=> SomeoneCounts
    BY <1>5, WriteManifestEffect DEF SomeoneCounts, Elsewhere
  <2>3. QED
    BY <2>1, <2>2, CountUntouched
<1>6. CASE Call(p) \/ Ingest(p) \/ Reindex(p) \/ Acquire(p) \/ Refuse(p)
  <2>1. UNCHANGED <<manifest, trajectory, crashes>>
    BY <1>6, CallEffect, IngestEffect, ReindexEffect, AcquireEffect, RefuseEffect DEF Stores
  <2>2. SomeoneCounts' <=> SomeoneCounts
    BY <1>6, CallEffect, IngestEffect, ReindexEffect, AcquireEffect, RefuseEffect
    DEF SomeoneCounts, Elsewhere, AtRest
  <2>3. QED
    BY <2>1, <2>2, CountUntouched
<1>7. CASE UpdateIndex(p) \/ ImportNext(p) \/ IngestEnds(p) \/ ReadRun(p) \/ InsertRow(p)
  <2>1. UNCHANGED <<manifest, trajectory, crashes>>
    BY <1>7, UpdateIndexEffect, ImportNextEffect, IngestEndsEffect, ReadRunEffect,
       InsertRowEffect DEF Stores
  <2>2. SomeoneCounts' <=> SomeoneCounts
    BY <1>7, UpdateIndexEffect, ImportNextEffect, IngestEndsEffect, ReadRunEffect,
       InsertRowEffect DEF SomeoneCounts, Elsewhere, AtRest
  <2>3. QED
    BY <2>1, <2>2, CountUntouched
<1>8. QED
  BY <1>1, <1>2, <1>3, <1>4, <1>5, <1>6, <1>7 DEF Step

LEMMA CountKept == BaseInv /\ CountInv /\ [LedgerNext]_ledgerVars => CountInv'
<1> SUFFICES ASSUME BaseInv, CountInv, [LedgerNext]_ledgerVars PROVE CountInv'
  OBVIOUS
<1>1. CASE UNCHANGED ledgerVars
  BY <1>1 DEF CountInv, SomeoneCounts, ledgerVars, Stores
<1>2. CASE LedgerNext
  BY <1>2, CountStep DEF LedgerNext
<1>3. QED
  BY <1>1, <1>2

LEMMA CountsAgree == BaseInv /\ CountInv => CountIsBehind
<1> SUFFICES ASSUME BaseInv, CountInv PROVE CountIsBehind
  OBVIOUS
<1> DEFINE counting == {p \in Processes : pc[p] = "counting"}
<1>1. CASE SomeoneCounts
  <2>1. PICK p \in Processes : pc[p] = "counting"
    BY <1>1 DEF SomeoneCounts
  <2>2. counting = {p}
    BY <2>1 DEF BaseInv, LockInv, Holding, InCall
  <2>3. Cardinality(counting) = 1
    BY <2>2, FS_Singleton
  <2>4. QED
    BY <1>1, <2>3, CountNumbers DEF CountIsBehind, CountInv, BaseInv
<1>2. CASE ~SomeoneCounts
  <2>1. counting = {}
    BY <1>2 DEF SomeoneCounts
  <2>2. Cardinality(counting) = 0
    BY <2>1, FS_EmptySet
  <2>3. QED
    BY <1>2, <2>2, CountNumbers DEF CountIsBehind, CountInv, BaseInv
<1>3. QED
  BY <1>1, <1>2

-----------------------------------------------------------------------------
(* What the lines tell *)

LEMMA ToldKinds ==
  ASSUME NEW c \in Calls
  PROVE  /\ Told(c) = <<"attempt", None>> <=> c.kind = "attempt"
         /\ Told(c) = <<"artifact", None>> <=> c.kind \in {"artifact", "verdict"}
         /\ \A a : Told(c) = <<"finish", a>> <=> c.kind = "finish" /\ c.attempt = a
         /\ \A a : Told(c) = <<"select", a>> <=> c.kind = "select" /\ c.attempt = a
         /\ \A e : Told(c) = <<"event", e>> <=> c.kind = "event" /\ c.source = e
BY CallFields DEF Told

LEMMA TellingIsFinite ==
  ASSUME LedgerTypes, NEW what
  PROVE  IsFiniteSet(Telling(what)) /\ Len(trajectory) + 1 \notin Telling(what)
<1>1. Len(trajectory) \in Nat
  BY DEF LedgerTypes, StoreTypes
<1>2. IsFiniteSet(1..Len(trajectory))
  BY <1>1, FS_Interval
<1>3. Telling(what) \subseteq 1..Len(trajectory)
  BY DEF Telling
<1>4. QED
  BY <1>1, <1>2, <1>3, FS_Subset

\* An append adds the new line to what tells the same.
LEMMA TellingMore ==
  ASSUME LedgerTypes, NEW line \in Lines, trajectory' = Append(trajectory, line), NEW what
  PROVE  /\ Telling(what)' = IF line.told = what THEN Telling(what) \union {Len(trajectory) + 1}
                                                 ELSE Telling(what)
         /\ Cardinality(Telling(what)) \in Nat
         /\ Cardinality(Telling(what)') =
              IF line.told = what THEN Cardinality(Telling(what)) + 1
                                  ELSE Cardinality(Telling(what))
<1>1. /\ Len(trajectory) \in Nat
      /\ Len(trajectory') = Len(trajectory) + 1
      /\ trajectory'[Len(trajectory) + 1] = line
      /\ \A i \in 1..Len(trajectory) : trajectory'[i] = trajectory[i]
  BY DEF LedgerTypes, StoreTypes
<1>2. 1..Len(trajectory') = 1..Len(trajectory) \union {Len(trajectory) + 1}
  BY <1>1
<1>3. Telling(what)' = IF line.told = what THEN Telling(what) \union {Len(trajectory) + 1}
                                           ELSE Telling(what)
  BY <1>1, <1>2 DEF Telling
<1>4. IsFiniteSet(Telling(what)) /\ Len(trajectory) + 1 \notin Telling(what)
  BY TellingIsFinite
<1>5. Cardinality(Telling(what)) \in Nat
  BY <1>4, FS_CardinalityType
<1>6. Cardinality(Telling(what) \union {Len(trajectory) + 1}) = Cardinality(Telling(what)) + 1
  BY <1>4, FS_AddElement
<1>7. QED
  BY <1>3, <1>5, <1>6

LEMMA TellingCount == ASSUME LedgerTypes, NEW what PROVE Cardinality(Telling(what)) \in Nat
BY TellingIsFinite, FS_CardinalityType

Numbered(what) == Cardinality(Telling(what))

\* What is written about a change is written after it and before the next one.
TellInv ==
  /\ Numbered(<<"attempt", None>>) <= Len(manifest.book.attempts)
  /\ Numbered(<<"artifact", None>>) <= manifest.artifacts
  /\ \A a \in 1..AttemptCap :
       Telling(<<"finish", a>>) \union Telling(<<"select", a>>) # {} => Verified(manifest.book, a)
  /\ \A p \in Processes : pc[p] = "appending" =>
       /\ call[p].kind = "attempt" =>
            Numbered(<<"attempt", None>>) < Len(manifest.book.attempts)
       /\ call[p].kind \in {"artifact", "verdict"} =>
            Numbered(<<"artifact", None>>) < manifest.artifacts
       /\ call[p].kind \in {"finish", "select"} => Verified(manifest.book, call[p].attempt)

\* A book that another one became has the attempts of the first, and the verdicts.
Follows(book, other) ==
  /\ Len(book.attempts) <= Len(other.attempts)
  /\ \A a : Verified(book, a) => Verified(other, a)

LEMMA BookFollows ==
  ASSUME NEW book \in Books
  PROVE  /\ Follows(book, WithAttempt(book))
         /\ Len(WithAttempt(book).attempts) = Len(book.attempts) + 1
         /\ \A a \in Attempts(book), verdict \in Verdicts :
              /\ Follows(book, WithVerdict(book, a, verdict))
              /\ Verified(WithVerdict(book, a, verdict), a)
         /\ \A a \in Attempts(book) : Follows(book, WithSelection(book, a))
<1>1. book.attempts \in Seq(Verdicts \union {Unverified}) /\ Len(book.attempts) \in Nat
  BY DEF Books
<1>2. WithAttempt(book).attempts = Append(book.attempts, Unverified)
  BY DEF WithAttempt, Books
<1>3. /\ Len(WithAttempt(book).attempts) = Len(book.attempts) + 1
      /\ \A a \in 1..Len(book.attempts) : WithAttempt(book).attempts[a] = book.attempts[a]
  BY <1>1, <1>2
<1>4. Follows(book, WithAttempt(book))
  BY <1>1, <1>3 DEF Follows, Verified, Attempts
<1>5. ASSUME NEW a \in Attempts(book), NEW verdict \in Verdicts
      PROVE  /\ Follows(book, WithVerdict(book, a, verdict))
             /\ Verified(WithVerdict(book, a, verdict), a)
  <2>1. WithVerdict(book, a, verdict).attempts = [book.attempts EXCEPT ![a] = verdict]
    BY DEF WithVerdict
  <2>2. /\ Len([book.attempts EXCEPT ![a] = verdict]) = Len(book.attempts)
        /\ \A b \in 1..Len(book.attempts) :
             [book.attempts EXCEPT ![a] = verdict][b] = IF b = a THEN verdict ELSE book.attempts[b]
    BY <1>1
  <2>3. QED
    BY <1>1, <2>1, <2>2, VerdictAssumption DEF Follows, Verified, Attempts
<1>6. ASSUME NEW a \in Attempts(book) PROVE Follows(book, WithSelection(book, a))
  <2>1. WithSelection(book, a).attempts = book.attempts
    BY DEF WithSelection, Books
  <2>2. QED
    BY <1>1, <2>1 DEF Follows, Verified, Attempts
<1>7. QED
  BY <1>3, <1>4, <1>5, <1>6

LEMMA TellUntouched ==
  ASSUME TellInv, UNCHANGED trajectory,
         manifest'.book = manifest.book, manifest'.artifacts = manifest.artifacts,
         \A q \in Processes : pc'[q] = "appending" =>
           (pc[q] = "appending" /\ call'[q] = call[q]) \/ call'[q].kind = "event"
  PROVE  TellInv'
<1>1. \A what : Telling(what)' = Telling(what)
  BY DEF Telling
<1>2. \A what : Numbered(what)' = Numbered(what)
  BY <1>1 DEF Numbered
<1>3. QED
  BY <1>1, <1>2 DEF TellInv

LEMMA TellAppend ==
  ASSUME BaseInv, TellInv, NEW p \in Processes, AppendLine(p)
  PROVE  TellInv'
<1> USE DEF BaseInv
<1>1. /\ pc[p] = "appending" /\ lock = p /\ call[p] \in Calls
      /\ pc'[p] = "counting" /\ Elsewhere(p) /\ UNCHANGED <<manifest, call>>
  BY AppendLineEffect DEF LockInv, Holding, InCall, LedgerTypes, ProcessTypes
<1>2. PICK c \in Calls : c = call[p]
  BY <1>1
<1>3. PICK line \in Lines : /\ line.told = Told(c)
                            /\ trajectory' = Append(trajectory, line)
  BY <1>2, AppendLineEffect DEF Lines
<1>4. \A q \in Processes : pc'[q] # "appending"
  BY <1>1 DEF Elsewhere, LockInv, Holding, InCall
<1>5. /\ c.kind = "attempt" => Numbered(<<"attempt", None>>) < Len(manifest.book.attempts)
      /\ c.kind \in {"artifact", "verdict"} => Numbered(<<"artifact", None>>) < manifest.artifacts
      /\ c.kind \in {"finish", "select"} => Verified(manifest.book, c.attempt)
  BY <1>1, <1>2 DEF TellInv
<1>6. manifest.artifacts \in Nat /\ Len(manifest.book.attempts) \in Nat
  BY DEF LedgerTypes, StoreTypes, Manifests, Books
<1>7. Numbered(<<"attempt", None>>)' <= Len(manifest.book.attempts)
  BY <1>3, <1>5, <1>6, TellingMore, ToldKinds DEF Numbered, TellInv
<1>8. Numbered(<<"artifact", None>>)' <= manifest.artifacts
  <2>1. line.told = <<"artifact", None>> <=> c.kind \in {"artifact", "verdict"}
    BY <1>3, ToldKinds
  <2>2. /\ Numbered(<<"artifact", None>>) \in Nat
        /\ Numbered(<<"artifact", None>>)' =
             IF line.told = <<"artifact", None>> THEN Numbered(<<"artifact", None>>) + 1
                                                 ELSE Numbered(<<"artifact", None>>)
    BY <1>3, TellingMore DEF Numbered
  <2>3. Numbered(<<"artifact", None>>) <= manifest.artifacts
    BY DEF TellInv
  <2>4. QED
    BY <1>5, <1>6, <2>1, <2>2, <2>3
<1>9. ASSUME NEW a \in 1..AttemptCap,
             Telling(<<"finish", a>>)' \union Telling(<<"select", a>>)' # {}
      PROVE  Verified(manifest.book, a)
  <2>1. CASE Telling(<<"finish", a>>) \union Telling(<<"select", a>>) # {}
    BY <2>1 DEF TellInv
  <2>2. CASE Telling(<<"finish", a>>) \union Telling(<<"select", a>>) = {}
    <3>1. line.told = <<"finish", a>> \/ line.told = <<"select", a>>
      BY <1>3, <1>9, <2>2, TellingMore
    <3>2. QED
      BY <1>3, <1>5, <3>1, ToldKinds
  <2>3. QED
    BY <2>1, <2>2
<1>10. QED
  BY <1>1, <1>4, <1>7, <1>8, <1>9 DEF TellInv

LEMMA TellWrite ==
  ASSUME BaseInv, TellInv, NEW p \in Processes, WriteManifest(p)
  PROVE  TellInv'
<1> USE DEF BaseInv
<1>1. /\ pc[p] = "updating" /\ lock = p /\ copy[p] = manifest /\ call[p] \in Calls
      /\ pc'[p] = "appending" /\ Elsewhere(p) /\ UNCHANGED <<trajectory, call>>
  BY WriteManifestEffect DEF LockInv, Holding, InCall
<1>2. PICK m \in Manifests, c \in Calls : m = manifest /\ c = call[p]
  BY <1>1 DEF LedgerTypes, StoreTypes
<1>3. c.kind # "event" /\ ~Refused(m, c) /\ manifest' = Updated(m, c)
  BY <1>1, <1>2, WriteManifestEffect
<1>4. m.book \in Books /\ m.artifacts \in Nat /\ Len(m.book.attempts) \in Nat
  BY DEF Manifests, Books
<1>5. /\ Follows(m.book, manifest'.book) /\ m.artifacts <= manifest'.artifacts
      /\ c.kind = "attempt" => Len(manifest'.book.attempts) = Len(m.book.attempts) + 1
      /\ c.kind \in {"artifact", "verdict"} => manifest'.artifacts = m.artifacts + 1
      /\ c.kind \in {"finish", "select"} => Verified(manifest'.book, c.attempt)
  <2>1. CASE c.kind = "attempt"
    BY <1>3, <1>4, <2>1, UpdatedManifest, BookFollows
  <2>2. CASE c.kind = "finish"
    BY <1>3, <1>4, <2>2, UpdatedManifest, BookFollows
  <2>3. CASE c.kind = "select"
    <3>1. /\ Verified(m.book, c.attempt) /\ manifest'.artifacts = m.artifacts
          /\ manifest'.book = WithSelection(m.book, c.attempt)
      BY <1>3, <2>3, UpdatedManifest
    <3>2. Follows(m.book, manifest'.book)
      BY <1>4, <3>1, BookFollows DEF Verified
    <3>3. QED
      BY <1>4, <2>3, <3>1, <3>2 DEF Follows
  <2>4. CASE c.kind \in {"artifact", "verdict"}
    BY <1>3, <1>4, <2>4, UpdatedManifest DEF Follows
  <2>5. QED
    BY <1>3, <2>1, <2>2, <2>3, <2>4, CallFields
<1>6. manifest' \in Manifests
  BY <1>3, UpdatedManifest
<1>7. manifest'.artifacts \in Nat /\ Len(manifest'.book.attempts) \in Nat
  BY <1>6 DEF Manifests, Books
<1>8. \A what : Telling(what)' = Telling(what) /\ Numbered(what) \in Nat
  BY <1>1, TellingCount DEF Telling, Numbered
<1>9. \A what : Numbered(what)' = Numbered(what)
  BY <1>8 DEF Numbered
<1>10. /\ Numbered(<<"attempt", None>>) <= Len(m.book.attempts)
       /\ Numbered(<<"artifact", None>>) <= m.artifacts
       /\ \A a \in 1..AttemptCap :
            Telling(<<"finish", a>>) \union Telling(<<"select", a>>) # {} => Verified(m.book, a)
  BY <1>2 DEF TellInv
<1>11. \A q \in Processes : pc'[q] = "appending" => q = p
  BY <1>1 DEF Elsewhere, LockInv, Holding, InCall
<1>12. /\ Numbered(<<"attempt", None>>) <= Len(manifest'.book.attempts)
       /\ c.kind = "attempt" => Numbered(<<"attempt", None>>) < Len(manifest'.book.attempts)
  BY <1>4, <1>5, <1>7, <1>8, <1>10 DEF Follows
<1>13. /\ Numbered(<<"artifact", None>>) <= manifest'.artifacts
       /\ c.kind \in {"artifact", "verdict"} => Numbered(<<"artifact", None>>) < manifest'.artifacts
  BY <1>4, <1>5, <1>7, <1>8, <1>10
<1>14. \A a \in 1..AttemptCap :
         Telling(<<"finish", a>>) \union Telling(<<"select", a>>) # {} =>
           Verified(manifest'.book, a)
  BY <1>5, <1>10 DEF Follows
<1>15. QED
  BY <1>1, <1>2, <1>5, <1>8, <1>9, <1>11, <1>12, <1>13, <1>14 DEF TellInv

LEMMA TellStep ==
  ASSUME BaseInv, TellInv, NEW p \in Processes,
         Start(p) \/ Call(p) \/ Ingest(p) \/ Reindex(p) \/ Acquire(p) \/ Step(p) \/ Crash(p)
  PROVE  TellInv'
<1> USE DEF BaseInv
<1>1. CASE AppendLine(p)
  BY <1>1, TellAppend
<1>2. CASE WriteManifest(p)
  BY <1>2, TellWrite
<1>3. CASE WriteCount(p)
  <2>1. /\ UNCHANGED trajectory /\ manifest'.book = manifest.book
        /\ manifest'.artifacts = manifest.artifacts
    BY <1>3, WriteCountEffect DEF LockInv
  <2>2. QED
    BY <1>3, <2>1, WriteCountEffect, TellUntouched DEF Elsewhere
<1>4. CASE Start(p)
  <2>1. /\ UNCHANGED trajectory /\ manifest'.book = manifest.book
        /\ manifest'.artifacts = manifest.artifacts
    BY <1>4, StartEffect DEF ExistsInv
  <2>2. QED
    BY <1>4, <2>1, StartEffect, TellUntouched DEF Elsewhere
<1>5. CASE Call(p) \/ Ingest(p) \/ Reindex(p) \/ Refuse(p) \/ Crash(p)
  <2>1. UNCHANGED <<manifest, trajectory>>
    BY <1>5, CallEffect, IngestEffect, ReindexEffect, RefuseEffect, CrashEffect DEF Stores
  <2>2. \A q \in Processes : pc'[q] = "appending" => pc[q] = "appending" /\ call'[q] = call[q]
    BY <1>5, CallEffect, IngestEffect, ReindexEffect, RefuseEffect, CrashEffect
    DEF Elsewhere, AtRest
  <2>3. QED
    BY <2>1, <2>2, TellUntouched
<1>6. CASE Acquire(p)
  <2>1. UNCHANGED <<manifest, trajectory, call>>
    BY <1>6, AcquireEffect DEF Stores
  <2>2. \A q \in Processes : pc'[q] = "appending" => pc[q] = "appending" \/ call[q].kind = "event"
    BY <1>6, AcquireEffect DEF Elsewhere
  <2>3. QED
    BY <2>1, <2>2, TellUntouched
<1>7. CASE UpdateIndex(p) \/ ImportNext(p) \/ IngestEnds(p) \/ ReadRun(p) \/ InsertRow(p)
  <2>1. UNCHANGED <<manifest, trajectory>>
    BY <1>7, UpdateIndexEffect, ImportNextEffect, IngestEndsEffect, ReadRunEffect,
       InsertRowEffect DEF Stores
  <2>2. \A q \in Processes : pc'[q] = "appending" => pc[q] = "appending" /\ call'[q] = call[q]
    BY <1>7, UpdateIndexEffect, ImportNextEffect, IngestEndsEffect, ReadRunEffect,
       InsertRowEffect DEF Elsewhere, AtRest
  <2>3. QED
    BY <2>1, <2>2, TellUntouched
<1>8. QED
  BY <1>1, <1>2, <1>3, <1>4, <1>5, <1>6, <1>7 DEF Step

LEMMA TellKept == BaseInv /\ TellInv /\ [LedgerNext]_ledgerVars => TellInv'
<1> SUFFICES ASSUME BaseInv, TellInv, [LedgerNext]_ledgerVars PROVE TellInv'
  OBVIOUS
<1>1. CASE UNCHANGED ledgerVars
  BY <1>1, TellUntouched DEF ledgerVars, Stores
<1>2. CASE LedgerNext
  BY <1>2, TellStep DEF LedgerNext
<1>3. QED
  BY <1>1, <1>2

LEMMA TellingAgrees == TellInv => LinesAreTrue
BY DEF TellInv, LinesAreTrue, Numbered

-----------------------------------------------------------------------------
(* The import of the audit file *)

Imports(e) == Telling(<<"event", e>>)

\* A lone importer looked up what it imports before anybody else could have imported it.
ImportInv ==
  "ingest" \notin beside =>
    /\ \A p, q \in Processes : Importing(p) /\ Importing(q) => p = q
    /\ \A e \in AuditEvents : Cardinality(Imports(e)) <= 1
    /\ \A p \in Processes : Importing(p) =>
         /\ \A e \in pending[p] : Imports(e) = {}
         /\ pc[p] \in InCall => call[p].source \notin pending[p]
         /\ pc[p] \in {"waiting", "appending"} => Imports(call[p].source) = {}

LEMMA ImportUntouched ==
  ASSUME ImportInv, UNCHANGED trajectory, "ingest" \in beside => "ingest" \in beside',
         \A q \in Processes : Importing(q)' =>
           /\ Importing(q) /\ pending'[q] = pending[q]
           /\ pc'[q] \in InCall => pc[q] \in InCall /\ call'[q] = call[q]
           /\ pc'[q] \in {"waiting", "appending"} => pc[q] \in {"waiting", "appending"}
  PROVE  ImportInv'
<1>1. \A e : Imports(e)' = Imports(e)
  BY DEF Imports, Telling
<1>2. QED
  BY <1>1 DEF ImportInv, InCall

LEMMA ImportAppend ==
  ASSUME BaseInv, ImportInv, NEW p \in Processes, AppendLine(p)
  PROVE  ImportInv'
<1> USE DEF BaseInv
<1> SUFFICES ASSUME "ingest" \notin beside'
             PROVE  ImportInv'
  BY DEF ImportInv
<1>1. /\ pc[p] = "appending" /\ pc'[p] = "counting" /\ call[p] \in Calls /\ Elsewhere(p)
      /\ UNCHANGED <<call, pending, beside>>
  BY AppendLineEffect DEF LedgerTypes, ProcessTypes, InCall
<1>2. PICK c \in Calls : c = call[p]
  BY <1>1
<1>3. PICK line \in Lines : /\ line.told = Told(c)
                            /\ trajectory' = Append(trajectory, line)
  BY <1>2, AppendLineEffect DEF Lines
<1>4. \A q \in Processes : Importing(q)' <=> Importing(q)
  BY <1>1 DEF Importing, Elsewhere
<1>5. \A e : line.told = <<"event", e>> <=> c.kind = "event" /\ c.source = e
  BY <1>3, ToldKinds
<1>6. \A e \in AuditEvents : line.told = <<"event", e>> => Importing(p) /\ call[p].source = e
  BY <1>2, <1>5, LedgerAssumption DEF Importing
<1>7. \A e : line.told # <<"event", e>> => Imports(e)' = Imports(e)
  BY <1>3, TellingMore DEF Imports
<1>8. ASSUME NEW e \in AuditEvents PROVE Cardinality(Imports(e)') <= 1
  <2>1. CASE line.told = <<"event", e>>
    <3>1. Imports(e) = {}
      BY <1>1, <1>6, <2>1 DEF ImportInv
    <3>2. Cardinality(Imports(e)) = 0
      BY <3>1, FS_EmptySet
    <3>3. Cardinality(Imports(e)') = Cardinality(Imports(e)) + 1
      BY <1>3, <2>1, TellingMore DEF Imports
    <3>4. QED
      BY <3>2, <3>3
  <2>2. CASE line.told # <<"event", e>>
    BY <1>1, <1>7, <2>2 DEF ImportInv
  <2>3. QED
    BY <2>1, <2>2
<1>9. ASSUME NEW q \in Processes, Importing(q)
      PROVE  /\ \A e \in pending[q] : Imports(e)' = {}
             /\ pc'[q] \in InCall => call[q].source \notin pending[q]
             /\ pc'[q] \in {"waiting", "appending"} => Imports(call[q].source)' = {}
  <2>1. pending[q] \subseteq AuditEvents
    BY DEF LedgerTypes, ProcessTypes
  <2>2. pc[p] \in InCall
    BY <1>1 DEF InCall
  <2>3. \A e \in pending[q] : Imports(e)' = {}
    <3> SUFFICES ASSUME NEW e \in pending[q] PROVE Imports(e)' = {}
      OBVIOUS
    <3>1. Imports(e) = {}
      BY <1>1, <1>9 DEF ImportInv
    <3>2. line.told # <<"event", e>>
      BY <1>1, <1>6, <1>9, <2>1, <2>2 DEF ImportInv
    <3>3. QED
      BY <1>7, <3>1, <3>2
  <2>4. pc'[q] \in InCall => call[q].source \notin pending[q]
    BY <1>1, <1>9, <2>2 DEF ImportInv, Elsewhere
  <2>5. ASSUME pc'[q] \in {"waiting", "appending"} PROVE Imports(call[q].source)' = {}
    <3>1. q # p /\ pc[q] \in {"waiting", "appending"}
      BY <1>1, <2>5 DEF Elsewhere
    <3>2. Imports(call[q].source) = {} /\ ~Importing(p)
      BY <1>1, <1>9, <3>1 DEF ImportInv
    <3>3. call[q].source \in AuditEvents
      BY <1>9, <3>1, CallFields DEF Importing, LedgerTypes, ProcessTypes, InCall
    <3>4. PICK e \in AuditEvents : e = call[q].source
      BY <3>3
    <3>5. Imports(e)' = {}
      BY <1>6, <1>7, <3>2, <3>4
    <3>6. call'[q].source = e
      BY <1>1, <3>4
    <3>7. QED
      BY <3>4, <3>5, <3>6 DEF Imports, Telling
  <2>6. QED
    BY <2>3, <2>4, <2>5
<1>10. \A q, r \in Processes : Importing(q) /\ Importing(r) => q = r
  BY <1>1 DEF ImportInv
<1>11. QED
  BY <1>1, <1>4, <1>8, <1>9, <1>10 DEF ImportInv

LEMMA ImportBegins ==
  ASSUME BaseInv, ImportInv, NEW p \in Processes, Ingest(p)
  PROVE  ImportInv'
<1> USE DEF BaseInv
<1> SUFFICES ASSUME "ingest" \notin beside' PROVE ImportInv'
  BY DEF ImportInv
<1>1. /\ pc[p] = "idle" /\ pc'[p] = "importing" /\ pending'[p] = NotImported /\ Elsewhere(p)
      /\ beside' = Beside(p, "ingest") /\ UNCHANGED <<trajectory, call>>
  BY IngestEffect DEF Stores
<1>2. "ingest" \notin beside /\ \A q \in Processes \ {p} : ~Importing(q)
  BY <1>1 DEF Beside
<1>3. \A e : Imports(e)' = Imports(e)
  BY <1>1 DEF Imports, Telling
<1>4. \A q \in Processes : Importing(q)' => q = p
  BY <1>1, <1>2 DEF Importing, Elsewhere
<1>5. \A e \in pending'[p] : Imports(e)' = {}
  BY <1>1, <1>3 DEF NotImported, Imports
<1>6. \A e \in AuditEvents : Cardinality(Imports(e)') <= 1
  BY <1>2, <1>3 DEF ImportInv
<1>7. pc'[p] \notin InCall
  BY <1>1 DEF InCall
<1>8. pc'[p] \notin {"waiting", "appending"}
  BY <1>1
<1>9. QED
  BY <1>4, <1>5, <1>6, <1>7, <1>8 DEF ImportInv

LEMMA ImportGoesOn ==
  ASSUME BaseInv, ImportInv, NEW p \in Processes, ImportNext(p)
  PROVE  ImportInv'
<1> USE DEF BaseInv
<1> SUFFICES ASSUME "ingest" \notin beside' PROVE ImportInv'
  BY DEF ImportInv
<1>1. /\ pc[p] = "importing" /\ pc'[p] = "waiting" /\ Elsewhere(p)
      /\ call'[p].kind = "event" /\ call'[p].source \in pending[p]
      /\ pending'[p] = pending[p] \ {call'[p].source}
      /\ UNCHANGED <<trajectory, beside>>
  BY ImportNextEffect DEF Stores
<1>2. Importing(p)
  BY <1>1 DEF Importing
<1>3. \A q \in Processes : Importing(q)' => q = p
  BY <1>1, <1>2 DEF ImportInv, Importing, Elsewhere
<1>4. \A e : Imports(e)' = Imports(e)
  BY <1>1 DEF Imports, Telling
<1>5. \A e \in pending[p] : Imports(e) = {}
  BY <1>1, <1>2 DEF ImportInv
<1>6. PICK source : source = call'[p].source
  OBVIOUS
<1>7. Imports(source)' = {}
  BY <1>1, <1>4, <1>5, <1>6
<1>8. Imports(call[p].source)' = {}
  BY <1>6, <1>7 DEF Imports, Telling
<1>9. QED
  BY <1>1, <1>3, <1>4, <1>5, <1>8 DEF ImportInv

LEMMA ImportStep ==
  ASSUME BaseInv, ImportInv, NEW p \in Processes,
         Start(p) \/ Call(p) \/ Ingest(p) \/ Reindex(p) \/ Acquire(p) \/ Step(p) \/ Crash(p)
  PROVE  ImportInv'
<1> USE DEF BaseInv
<1>1. CASE AppendLine(p)
  BY <1>1, ImportAppend
<1>2. CASE Ingest(p)
  BY <1>2, ImportBegins
<1>3. CASE ImportNext(p)
  BY <1>3, ImportGoesOn
<1>4. CASE Start(p)
  BY <1>4, StartEffect, ImportUntouched DEF Importing, Elsewhere
<1>5. CASE Call(p)
  <2>1. UNCHANGED trajectory /\ ("ingest" \in beside => "ingest" \in beside')
    BY <1>5, CallEffect DEF Stores, Beside
  <2>2. Elsewhere(p) /\ ~Importing(p)'
    BY <1>5, CallEffect DEF Importing
  <2>3. QED
    BY <2>1, <2>2, ImportUntouched DEF Importing, Elsewhere
<1>6. CASE Reindex(p)
  <2>1. UNCHANGED trajectory /\ ("ingest" \in beside => "ingest" \in beside')
    BY <1>6, ReindexEffect DEF Beside
  <2>2. Elsewhere(p) /\ ~Importing(p)'
    BY <1>6, ReindexEffect DEF Importing, LedgerTypes, ProcessTypes, NoCall, InCall
  <2>3. QED
    BY <2>1, <2>2, ImportUntouched DEF Importing, Elsewhere
<1>7. CASE Acquire(p)
  BY <1>7, AcquireEffect, ImportUntouched DEF Importing, Elsewhere, Stores, InCall
<1>8. CASE Refuse(p)
  BY <1>8, RefuseEffect, ImportUntouched DEF Importing, Elsewhere, Stores, AtRest, NoCall
<1>9. CASE WriteManifest(p)
  BY <1>9, WriteManifestEffect, ImportUntouched DEF Importing, Elsewhere
<1>10. CASE WriteCount(p)
  BY <1>10, WriteCountEffect, ImportUntouched DEF Importing, Elsewhere, InCall
<1>11. CASE UpdateIndex(p)
  BY <1>11, UpdateIndexEffect, ImportUntouched
  DEF Importing, Elsewhere, InCall, AtRest, NoCall
<1>12. CASE IngestEnds(p)
  BY <1>12, IngestEndsEffect, ImportUntouched DEF Importing, Elsewhere, Stores, AtRest, NoCall
<1>13. CASE ReadRun(p)
  BY <1>13, ReadRunEffect, ImportUntouched DEF Importing, Elsewhere, Stores, InCall
<1>14. CASE InsertRow(p)
  BY <1>14, InsertRowEffect, ImportUntouched DEF Importing, Elsewhere, AtRest, NoCall
<1>15. CASE Crash(p)
  BY <1>15, CrashEffect, ImportUntouched DEF Importing, Elsewhere, Stores, AtRest, NoCall
<1>16. QED
  BY <1>1, <1>2, <1>3, <1>4, <1>5, <1>6, <1>7, <1>8, <1>9, <1>10, <1>11, <1>12, <1>13,
     <1>14, <1>15 DEF Step

LEMMA ImportKept == BaseInv /\ ImportInv /\ [LedgerNext]_ledgerVars => ImportInv'
<1> SUFFICES ASSUME BaseInv, ImportInv, [LedgerNext]_ledgerVars PROVE ImportInv'
  OBVIOUS
<1>1. CASE UNCHANGED ledgerVars
  BY <1>1, ImportUntouched DEF Importing, ledgerVars, Stores
<1>2. CASE LedgerNext
  BY <1>2, ImportStep DEF LedgerNext
<1>3. QED
  BY <1>1, <1>2

-----------------------------------------------------------------------------
(* The index *)

IndexIsLate ==
  \E p \in Processes :
    pc[p] \in {"appending", "counting", "indexing", "reindexing", "inserting"}

\* Who rebuilds the index is alone, and in between every call brings it up to date.
IndexInv ==
  crashes = 0 /\ "reindex" \notin beside =>
    /\ \A p, q \in Processes : Reindexing(p) /\ pc[q] # "idle" => p = q
    /\ \A p \in Processes : pc[p] = "inserting" => copy[p] = manifest
    /\ ~IndexIsLate => index = manifest.book.result

LEMMA IndexStep ==
  ASSUME BaseInv, IndexInv, NEW p \in Processes,
         Start(p) \/ Call(p) \/ Ingest(p) \/ Reindex(p) \/ Acquire(p) \/ Step(p) \/ Crash(p)
  PROVE  IndexInv'
<1> USE DEF BaseInv
<1> SUFFICES ASSUME crashes' = 0, "reindex" \notin beside' PROVE IndexInv'
  BY DEF IndexInv
<1>1. CASE Crash(p)
  <2>1. crashes \in Nat /\ crashes' = crashes + 1
    BY <1>1, CrashEffect DEF LedgerTypes, StoreTypes
  <2>2. QED
    BY <2>1
<1>2. CASE Start(p)
  <2>1. \A q \in Processes : pc[q] = "idle"
    BY <1>2, StartEffect DEF ExistsInv
  <2>2. index = manifest.book.result /\ manifest'.book = manifest.book
    BY <1>2, <2>1, StartEffect DEF IndexInv, IndexIsLate, ExistsInv
  <2>3. QED
    BY <1>2, <2>1, <2>2, StartEffect DEF IndexInv, Elsewhere, Reindexing
<1>3. CASE Call(p)
  <2>1. /\ "reindex" \notin beside /\ \A q \in Processes \ {p} : ~Reindexing(q)
        /\ UNCHANGED <<manifest, index, crashes>>
    BY <1>3, CallEffect DEF Beside, Stores
  <2>2. IndexIsLate' <=> IndexIsLate
    BY <1>3, CallEffect DEF IndexIsLate, Elsewhere
  <2>3. QED
    BY <1>3, <2>1, <2>2, CallEffect DEF IndexInv, Elsewhere, Reindexing
<1>4. CASE Ingest(p)
  <2>1. /\ "reindex" \notin beside /\ \A q \in Processes \ {p} : ~Reindexing(q)
        /\ UNCHANGED <<manifest, index, crashes>>
    BY <1>4, IngestEffect DEF Beside, Stores
  <2>2. IndexIsLate' <=> IndexIsLate
    BY <1>4, IngestEffect DEF IndexIsLate, Elsewhere
  <2>3. QED
    BY <1>4, <2>1, <2>2, IngestEffect DEF IndexInv, Elsewhere, Reindexing
<1>5. CASE Reindex(p)
  <2>1. \A q \in Processes \ {p} : pc[q] = "idle"
    BY <1>5, ReindexEffect DEF Beside
  <2>2. IndexIsLate'
    BY <1>5, ReindexEffect DEF IndexIsLate
  <2>3. QED
    BY <1>5, <2>1, <2>2, ReindexEffect DEF IndexInv, Elsewhere, Reindexing
<1>6. CASE ReadRun(p)
  <2>1. /\ pc'[p] = "inserting" /\ copy'[p] = manifest' /\ Reindexing(p) /\ pc[p] # "idle"
        /\ Elsewhere(p) /\ UNCHANGED <<crashes, beside>>
    BY <1>6, ReadRunEffect DEF Stores, Reindexing
  <2>2. \A q \in Processes \ {p} : pc[q] = "idle"
    BY <2>1 DEF IndexInv
  <2>3. IndexIsLate'
    BY <2>1 DEF IndexIsLate
  <2>4. QED
    BY <2>1, <2>2, <2>3 DEF IndexInv, Elsewhere, Reindexing
<1>7. CASE InsertRow(p)
  <2>1. /\ pc[p] = "inserting" /\ AtRest(p)' /\ index' = copy[p].book.result /\ Elsewhere(p)
        /\ UNCHANGED <<manifest, crashes, beside>>
    BY <1>7, InsertRowEffect
  <2>2. copy[p] = manifest /\ \A q \in Processes \ {p} : pc[q] = "idle"
    BY <2>1 DEF IndexInv, Reindexing
  <2>3. QED
    BY <2>1, <2>2 DEF IndexInv, Elsewhere, Reindexing, AtRest
<1>8. CASE Acquire(p) \/ (Step(p) /\ ~ReadRun(p) /\ ~InsertRow(p))
  <2>1. /\ pc[p] \notin {"idle", "reindexing", "inserting"}
        /\ pc'[p] \notin {"reindexing", "inserting"}
        /\ Elsewhere(p) /\ UNCHANGED <<crashes, beside>>
    BY <1>8, AcquireEffect, RefuseEffect, WriteManifestEffect, AppendLineEffect,
       WriteCountEffect, UpdateIndexEffect, ImportNextEffect, IngestEndsEffect
    DEF Step, Stores, AtRest
  <2>2. \A q \in Processes : ~Reindexing(q)
    BY <2>1 DEF IndexInv, Reindexing
  <2>3. \A q \in Processes : ~Reindexing(q)'
    BY <2>1, <2>2 DEF Reindexing, Elsewhere
  <2>4. ~(IndexIsLate') => index' = manifest'.book.result
    <3> SUFFICES ASSUME ~(IndexIsLate') PROVE index' = manifest'.book.result
      OBVIOUS
    <3>1. CASE UpdateIndex(p)
      BY <3>1, UpdateIndexEffect DEF LockInv
    <3>2. CASE WriteManifest(p) \/ AppendLine(p) \/ WriteCount(p)
      BY <3>2, WriteManifestEffect, AppendLineEffect, WriteCountEffect DEF IndexIsLate
    <3>3. CASE Acquire(p) \/ Refuse(p) \/ ImportNext(p) \/ IngestEnds(p)
      <4>1. /\ pc[p] \notin {"appending", "counting", "indexing", "reindexing", "inserting"}
            /\ UNCHANGED <<manifest, index>>
        BY <3>3, AcquireEffect, RefuseEffect, ImportNextEffect, IngestEndsEffect DEF Stores
      <4>2. ~IndexIsLate
        BY <2>1, <4>1 DEF IndexIsLate, Elsewhere
      <4>3. QED
        BY <2>1, <4>1, <4>2 DEF IndexInv
    <3>4. QED
      BY <1>8, <3>1, <3>2, <3>3 DEF Step
  <2>5. QED
    BY <2>3, <2>4 DEF IndexInv, Reindexing
<1>9. QED
  BY <1>1, <1>2, <1>3, <1>4, <1>5, <1>6, <1>7, <1>8

LEMMA IndexKept == BaseInv /\ IndexInv /\ [LedgerNext]_ledgerVars => IndexInv'
<1> SUFFICES ASSUME BaseInv, IndexInv, [LedgerNext]_ledgerVars PROVE IndexInv'
  OBVIOUS
<1>1. CASE UNCHANGED ledgerVars
  BY <1>1 DEF IndexInv, IndexIsLate, Reindexing, ledgerVars, Stores
<1>2. CASE LedgerNext
  BY <1>2, IndexStep DEF LedgerNext
<1>3. QED
  BY <1>1, <1>2

-----------------------------------------------------------------------------
(* The theorem *)

LedgerInv == BaseInv /\ CountInv /\ TellInv /\ ImportInv /\ IndexInv

LEMMA InitialLedger == LedgerInit => LedgerInv
<1> SUFFICES ASSUME LedgerInit PROVE LedgerInv
  OBVIOUS
<1>1. BaseInv
  BY InitialBase
<1>2. /\ Len(trajectory) = 0 /\ manifest.count = 0 /\ crashes = 0 /\ index = Unverified
      /\ manifest.book = EmptyBook /\ manifest.artifacts = 0
      /\ \A p \in Processes : pc[p] = "idle" /\ call[p] = NoCall
  BY DEF LedgerInit, NoRun
<1>3. \A what : Telling(what) = {} /\ Cardinality(Telling(what)) = 0
  BY <1>2, FS_EmptySet DEF Telling
<1>4. CountInv
  BY <1>2 DEF CountInv, SomeoneCounts
<1>5. TellInv
  BY <1>2, <1>3 DEF TellInv, Numbered, EmptyBook
<1>6. ImportInv
  BY <1>2, <1>3 DEF ImportInv, Importing, Imports, NoCall
<1>7. IndexInv
  BY <1>2 DEF IndexInv, Reindexing, EmptyBook
<1>8. QED
  BY <1>1, <1>4, <1>5, <1>6, <1>7 DEF LedgerInv

LEMMA UnhurtAgrees == LedgerInv => UnhurtRunIsSound
<1> SUFFICES ASSUME LedgerInv, crashes = 0, \A p \in Processes : pc[p] = "idle"
             PROVE  IntegrityHolds /\ ("reindex" \notin beside => index = manifest.book.result)
  BY DEF UnhurtRunIsSound
<1> USE DEF LedgerInv
<1>1. "reindex" \notin beside => index = manifest.book.result
  BY DEF IndexInv, IndexIsLate
<1>2. DOMAIN trajectory = 1..Len(trajectory)
  BY DEF BaseInv, LedgerTypes, StoreTypes
<1>3. Len(trajectory) = manifest.count
  BY CountNumbers DEF CountInv, SomeoneCounts, BaseInv
<1>4. \A i \in 1..Len(trajectory) : trajectory[i].sequence = i
  BY CountNumbers DEF CountInv, BaseInv
<1>5. QED
  BY <1>1, <1>2, <1>3, <1>4 DEF IntegrityHolds

\* StoresAgree holds of every behaviour of the ledger: trajectory, manifest and index only
\* disagree as far as a death in between explains.
THEOREM Agreement == LedgerSpec => []StoresAgree
<1>1. LedgerInit => LedgerInv
  BY InitialLedger
<1>2. LedgerInv /\ [LedgerNext]_ledgerVars => LedgerInv'
  BY BaseKept, CountKept, TellKept, ImportKept, IndexKept DEF LedgerInv
<1>3. LedgerInv => StoresAgree
  <2> SUFFICES ASSUME LedgerInv PROVE StoresAgree
    OBVIOUS
  <2>1. CountIsBehind /\ LinesAreTrue /\ UnhurtRunIsSound
    BY CountsAgree, TellingAgrees, UnhurtAgrees DEF LedgerInv
  <2>2. ImportedOnce
    BY DEF LedgerInv, ImportInv, ImportedOnce, Imports
  <2>3. QED
    BY <2>1, <2>2 DEF StoresAgree
<1>4. QED
  BY <1>1, <1>2, <1>3, PTL DEF LedgerSpec

(***************************************************************************)
(* Batch campaigns and their sessions                                      *)
(***************************************************************************)

-----------------------------------------------------------------------------
(* The batch campaign: types *)

Contents == {"recorded", "edited", "missing"}
ActionNames ==
  PatchNames \union
    {"none", "retry_tool", "restart_mcp", "add_test", "stop", "retry_verifier", "repair_drawing"}
Nameable == UNION {NameableFiles(n) : n \in PatchNames \union {"add_test"}}
ActionType == [name : ActionNames, files : SUBSET Nameable]
Stages ==
  {"idle", "planning", "chosen", "undecided", "modifying", "escaped", "validating", "restoring",
   "recording", "answered"}
Requests ==
  [stage : Stages, offered : SUBSET ActionNames, action : ActionType,
   before : [Files -> Contents], changed : SUBSET Files, strayed : SUBSET Files,
   passed : BOOLEAN]

SessionTypes ==
  /\ workspace \in [Files -> Contents] /\ tests \in SUBSET Files
  /\ request \in Requests /\ loose \in SUBSET Files

Levels == 0..TopLevel
AttemptRecords == [drawing : Nat, level : Levels, covered : BOOLEAN, infra : BOOLEAN]
Diagnostics ==
  [outcome : {"none", "infrastructure_error", "agent_error", "coverage_gap", "success",
              "evaluation_failure"},
   component : {"none", "verifier", "harness", "drawing"}
                 \union {ComponentOf(n) : n \in ActionNames}]
Runs ==
  [attempts : Seq(AttemptRecords), best : Nat, canonical : Nat,
   pending : ActionNames \union {"fresh_modeling"}, unchanged : Nat, asked : Nat,
   over : BOOLEAN, disturbed : BOOLEAN, interrupted : BOOLEAN, failedCode : BOOLEAN,
   diagnostic : Diagnostics]
Trials ==
  [drawing : Nat, interrupted : BOOLEAN, timedOut : BOOLEAN, failedCode : BOOLEAN,
   level : Levels, passed : BOOLEAN, covered : BOOLEAN, infra : BOOLEAN, visualFailed : BOOLEAN]
RowStatuses == {"none", "harness-error", "failed", "coverage-insufficient", "passed"}
RowType == [status : RowStatuses, settled : BOOLEAN, infra : BOOLEAN]

BatchTypes ==
  /\ results \in [torn : BOOLEAN, rows : [1..Jobs -> RowType]]
  /\ run \in Runs /\ trial \in Trials

-----------------------------------------------------------------------------
(* The batch campaign: its session *)

\* Every file is what the manifest says, but for some.
Accounted(w, butFor) ==
  \A f \in Files \ butFor : w[f] = IF f \in Known THEN "recorded" ELSE "missing"

\* What the checks of a patch and its tests leave: it changed what it may, and the rest is
\* accounted for.
Judged ==
  /\ request.changed \subseteq Known \union AllowedNew
  /\ Accounted(workspace, loose \union request.changed \union request.strayed)

SessionInv ==
  /\ request.passed => request.stage \in {"recording", "answered"}
  /\ request.stage \notin {"restoring", "recording"} => request.strayed = {}
  /\ ~Editing => Accounted(workspace, loose)
  /\ request.stage \in {"modifying", "validating", "restoring"} => Accounted(request.before, loose)
  /\ request.stage = "validating" \/ (request.stage = "recording" /\ request.passed) => Judged
  /\ request.stage = "recording" /\ ~request.passed => Accounted(workspace, loose)

LEMMA NoRequestType ==
  /\ NoRequest \in Requests /\ NoRequest.stage = "idle" /\ ~NoRequest.passed
  /\ NoRequest.strayed = {}
BY DEF NoRequest, Requests, NoAction, ActionType, ActionNames, InitialWorkspace, Contents, Stages

LEMMA NamesAvailable ==
  ASSUME NEW outcome, NEW component
  PROVE  AvailableActions(outcome, component) \in SUBSET ActionNames
BY DEF AvailableActions, ActionNames, PatchNames

\* A call that ends outside a patch leaves no request.
LEMMA EndsQuietly ==
  ASSUME SessionTypes, SessionInv, ~Editing, request' = NoRequest,
         UNCHANGED <<workspace, tests, loose>>
  PROVE  SessionTypes' /\ SessionInv'
BY NoRequestType DEF SessionTypes, SessionInv, Editing, Accounted, Known

LEMMA BeginDecisionKeeps ==
  ASSUME SessionTypes, SessionInv, NEW offered \in SUBSET ActionNames, BeginDecision(offered)
  PROVE  SessionTypes' /\ SessionInv'
<1>1. /\ request.stage = "idle" /\ UNCHANGED <<workspace, tests, loose>>
      /\ request' = [NoRequest EXCEPT !.stage = "planning", !.offered = offered]
  BY DEF BeginDecision, Stage
<1>2. /\ request' \in Requests /\ request'.stage = "planning" /\ ~request'.passed
      /\ request'.strayed = {}
  BY ONLY <1>1, NoRequestType, offered \in SUBSET ActionNames DEF Requests, Stages
<1>3. QED
  BY <1>1, <1>2 DEF SessionTypes, SessionInv, Editing, Accounted, Known

\* An exception keeps nothing of the request but the action.
LEMMA EscapesEffect ==
  ASSUME SessionTypes, Escapes
  PROVE  /\ request' \in Requests /\ request'.stage = "escaped" /\ ~request'.passed
         /\ request'.strayed = {}
<1>1. request.action \in ActionType
  BY DEF SessionTypes, Requests
<1>2. PICK action \in ActionType :
           request' = [NoRequest EXCEPT !.stage = "escaped", !.action = action]
  BY <1>1 DEF Escapes
<1>3. QED
  BY ONLY <1>2, NoRequestType DEF Requests, Stages

\* Steps of a stage that are not part of an edit.
LEMMA PlanningKeeps ==
  ASSUME SessionTypes, SessionInv, PlannerChooses \/ PlannerFails \/ SnapshotRaises
  PROVE  SessionTypes' /\ SessionInv'
<1>1. UNCHANGED <<workspace, tests, loose>> /\ request.stage \in {"planning", "chosen"}
  BY DEF PlannerChooses, PlannerFails, SnapshotRaises, Stage
<1>2. request \in Requests /\ ~request.passed /\ request.strayed = {}
  BY <1>1 DEF SessionTypes, SessionInv
<1>3. /\ request' \in Requests /\ request'.stage \in {"chosen", "undecided", "escaped"}
      /\ ~request'.passed /\ request'.strayed = {}
  <2>1. CASE SnapshotRaises
    BY <2>1, EscapesEffect DEF SnapshotRaises
  <2>2. CASE PlannerFails
    BY <1>2, <2>2 DEF PlannerFails, Requests, Stages
  <2>3. CASE PlannerChooses
    <3>1. PICK action \in ValidActions(request.offered) :
            request' = [request EXCEPT !.stage = "chosen", !.offered = {}, !.action = action]
      BY <2>3 DEF PlannerChooses
    <3>2. request.offered \subseteq ActionNames
      BY <1>2 DEF Requests
    <3>3. action \in ActionType
      <4>1. CASE \E n \in request.offered : action = [name |-> n, files |-> {}]
        BY <3>2, <4>1 DEF ActionType
      <4>2. CASE \E n \in request.offered : /\ EditsSystem(n)
                   /\ \E fs \in SUBSET NameableFiles(n) : action = [name |-> n, files |-> fs]
        BY <3>2, <4>2 DEF ActionType, Nameable, EditsSystem
      <4>3. QED
        BY <3>1, <4>1, <4>2 DEF ValidActions
    <3>4. QED
      BY ONLY <1>2, <3>1, <3>3 DEF Requests, Stages
  <2>4. QED
    BY <2>1, <2>2, <2>3
<1>4. QED
  BY <1>1, <1>3 DEF SessionTypes, SessionInv, Editing, Accounted, Known

LEMMA TakeSnapshotKeeps ==
  ASSUME SessionTypes, SessionInv, TakeSnapshot
  PROVE  SessionTypes' /\ SessionInv'
<1>1. /\ request.stage = "chosen" /\ UNCHANGED <<workspace, tests, loose>>
      /\ request' = [request EXCEPT !.stage = "modifying", !.before = workspace]
  BY DEF TakeSnapshot, Stage
<1>2. /\ request' \in Requests /\ request'.stage = "modifying"
      /\ request'.before = workspace /\ request'.passed = request.passed
      /\ request'.strayed = request.strayed
  BY <1>1 DEF SessionTypes, Requests, Stages
<1>3. QED
  BY <1>1, <1>2 DEF SessionTypes, SessionInv, Editing, Accounted, Known

LEMMA ModifierEndsKeeps ==
  ASSUME SessionTypes, SessionInv, ModifierEnds
  PROVE  SessionTypes' /\ SessionInv'
<1>1. request.stage = "modifying" /\ UNCHANGED <<tests, loose>>
  BY DEF ModifierEnds, Stage
<1>2. PICK w \in EditedFrom(request.before), succeeded \in BOOLEAN :
        \E touched \in SUBSET {f \in Files : w[f] = "edited" /\ request.before[f] = "edited"} :
          /\ workspace' = w
          /\ request' = [request EXCEPT
               !.changed = Changed(w, touched),
               !.stage = IF succeeded /\ BoundaryHolds(w, Changed(w, touched))
                           THEN "validating" ELSE "restoring"]
  BY DEF ModifierEnds
<1>3. PICK touched \in SUBSET {f \in Files : w[f] = "edited" /\ request.before[f] = "edited"} :
          /\ workspace' = w
          /\ request' = [request EXCEPT
               !.changed = Changed(w, touched),
               !.stage = IF succeeded /\ BoundaryHolds(w, Changed(w, touched))
                           THEN "validating" ELSE "restoring"]
  BY <1>2
<1> DEFINE changed == Changed(w, touched)
<1>4. /\ changed \in SUBSET Files /\ changed \subseteq Known \union AllowedNew
      /\ \A f \in Known \ changed : f \in Files => w[f] = request.before[f]
      /\ \A f \in (AllowedNew \ Known) \ changed : f \in Files => w[f] = "missing"
  <2>1. Known \subseteq Files
    BY DEF SessionTypes, Known, Files
  <2>2. QED
    BY <2>1 DEF Changed, Present
<1>5. PICK stage \in {"validating", "restoring"} :
        /\ request' = [request EXCEPT !.changed = changed, !.stage = stage]
        /\ stage = "validating" => BoundaryHolds(w, changed)
  BY <1>3
<1> HIDE DEF changed
<1>6. w \in [Files -> Contents]
  BY DEF EditedFrom, Contents
<1>7. /\ request' \in Requests /\ request'.stage = stage /\ request'.changed = changed
      /\ request'.before = request.before /\ request'.passed = request.passed
      /\ request'.action = request.action /\ request'.strayed = request.strayed
  BY <1>4, <1>5 DEF SessionTypes, Requests, Stages
<1>8. SessionTypes'
  BY <1>1, <1>3, <1>6, <1>7 DEF SessionTypes
<1>9. ~request'.passed
  BY <1>1, <1>7 DEF SessionInv
<1>10. Accounted(request.before, loose)'
  BY <1>1, <1>7 DEF SessionInv, Accounted, Known
<1>11. ASSUME stage = "validating" PROVE Judged'
  <2>1. Accounted(request.before, loose)
    BY <1>1 DEF SessionInv
  <2>2. Present(w) \subseteq Known \union AllowedNew
    BY <1>5, <1>11 DEF BoundaryHolds
  <2>3. ASSUME NEW f \in Files \ (loose \union changed)
        PROVE  w[f] = IF f \in Known THEN "recorded" ELSE "missing"
    <3>1. CASE f \in Known
      BY <1>4, <2>1, <2>3, <3>1 DEF Accounted
    <3>2. CASE f \in AllowedNew \ Known
      BY <1>4, <2>3, <3>2
    <3>3. CASE f \notin Known \union AllowedNew
      BY <2>2, <3>3 DEF Present
    <3>4. QED
      BY <3>1, <3>2, <3>3
  <2>4. Known' = Known /\ AllowedNew' = AllowedNew
    BY <1>1, <1>7 DEF Known, AllowedNew
  <2>5. Accounted(workspace, loose \union request.changed \union request.strayed)'
    BY <1>1, <1>3, <1>7, <2>3, <2>4 DEF Accounted
  <2>6. QED
    BY <1>4, <1>7, <2>4, <2>5 DEF Judged
<1>12. request'.stage = "validating" => request'.strayed = {}
  BY <1>1, <1>7 DEF SessionInv
<1>13. QED
  BY <1>1, <1>5, <1>7, <1>8, <1>9, <1>10, <1>11, <1>12 DEF SessionInv, Editing

\* Tests write what they may and leave the other files alone.
LEMMA TestsLeave ==
  ASSUME SessionTypes, NEW written \in SUBSET TestsMayWrite, workspace' \in LeftByTests(written)
  PROVE  /\ written \in SUBSET Files /\ workspace' \in [Files -> Contents]
         /\ \A f \in Files \ written : workspace'[f] = workspace[f]
<1>1. written \in SUBSET Files
  BY DEF TestsMayWrite
<1>2. QED
  BY <1>1 DEF LeftByTests, Contents

LEMMA LeavingKeeps ==
  ASSUME SessionTypes, SessionInv, ModifierTimesOut \/ ValidationRaises
  PROVE  SessionTypes' /\ SessionInv'
<1>1. loose' = Unaccounted(workspace)' /\ tests' = tests /\ Escapes
  BY DEF ModifierTimesOut, ValidationRaises, Unaccounted, Known
<1>2. workspace' \in [Files -> Contents]
  <2>1. CASE ModifierTimesOut
    BY <2>1 DEF ModifierTimesOut, EditedFrom, Contents
  <2>2. CASE ValidationRaises
    BY <2>2, TestsLeave DEF ValidationRaises
  <2>3. QED
    BY <2>1, <2>2
<1>3. /\ request' \in Requests /\ request'.stage = "escaped" /\ ~request'.passed
      /\ request'.strayed = {}
  BY <1>1, EscapesEffect
<1>4. QED
  BY <1>1, <1>2, <1>3 DEF SessionTypes, SessionInv, Accounted, Unaccounted

\* The tests leave alone what the checks saw, but for what they write.
LEMMA ValidateKeeps ==
  ASSUME SessionTypes, SessionInv, Validate
  PROVE  SessionTypes' /\ SessionInv'
<1>1. request.stage = "validating" /\ UNCHANGED <<tests, loose>>
  BY DEF Validate, Stage
<1>2. PICK passed \in BOOLEAN, written \in SUBSET TestsMayWrite :
        /\ workspace' \in LeftByTests(written)
        /\ request' = [request EXCEPT !.passed = passed, !.strayed = written,
                                      !.stage = IF passed THEN "recording" ELSE "restoring"]
  BY DEF Validate
<1>3. /\ written \in SUBSET Files /\ workspace' \in [Files -> Contents]
      /\ \A f \in Files \ written : workspace'[f] = workspace[f]
  BY <1>2, TestsLeave
<1>4. PICK stage \in {"recording", "restoring"} :
        /\ request' = [request EXCEPT !.passed = passed, !.strayed = written, !.stage = stage]
        /\ passed <=> stage = "recording"
  BY <1>2
<1>5. /\ request' \in Requests /\ request'.stage = stage /\ request'.passed = passed
      /\ request'.changed = request.changed /\ request'.before = request.before
      /\ request'.action = request.action /\ request'.strayed = written
  BY <1>3, <1>4 DEF SessionTypes, Requests, Stages
<1>6. SessionTypes'
  BY <1>1, <1>3, <1>5 DEF SessionTypes
<1>7. Known' = Known /\ AllowedNew' = AllowedNew
  BY <1>1, <1>5 DEF Known, AllowedNew
<1>8. Accounted(request.before, loose)'
  BY <1>1, <1>5, <1>7 DEF SessionInv, Accounted
<1>9. Judged'
  <2>1. Judged /\ request.strayed = {}
    BY <1>1 DEF SessionInv
  <2>2. Accounted(workspace, loose \union request.changed \union request.strayed)'
    BY <1>1, <1>3, <1>5, <1>7, <2>1 DEF Judged, Accounted
  <2>3. QED
    BY <1>5, <1>7, <2>1, <2>2 DEF Judged
<1>10. QED
  BY <1>4, <1>5, <1>6, <1>8, <1>9 DEF SessionInv, Editing

LEMMA RestoreKeeps ==
  ASSUME SessionTypes, SessionInv, Restore
  PROVE  SessionTypes' /\ SessionInv'
<1>1. /\ request.stage = "restoring" /\ UNCHANGED tests
      /\ workspace' = Restored
      /\ loose' = (loose \intersect Known) \union LeftOver
      /\ request' = [request EXCEPT !.stage = "recording", !.before = InitialWorkspace,
                                    !.changed = {}, !.strayed = {}]
  BY DEF Restore, Stage
<1>2. /\ request' \in Requests /\ request'.stage = "recording"
      /\ request'.passed = request.passed
  BY <1>1 DEF SessionTypes, Requests, Stages, InitialWorkspace, Contents
<1>3. ~request.passed
  BY <1>1 DEF SessionInv
<1>4. /\ request.before \in [Files -> Contents] /\ workspace \in [Files -> Contents]
      /\ LeftOver \in SUBSET Files /\ loose \in SUBSET Files
  BY DEF SessionTypes, Requests, LeftOver
<1>5. Restored \in [Files -> Contents]
  BY <1>4 DEF Restored, Contents
<1>6. Known' = Known
  BY <1>1 DEF Known
<1>7. Accounted(workspace, loose)'
  <2>1. Accounted(request.before, loose)
    BY <1>1 DEF SessionInv
  <2>2. ASSUME NEW f \in Files, f \notin loose'
        PROVE  Restored[f] = IF f \in Known THEN "recorded" ELSE "missing"
    <3>1. CASE f \in Known
      BY <1>1, <2>1, <2>2, <3>1 DEF Restored, Accounted
    <3>2. CASE f \notin Known
      BY <1>1, <2>2, <3>2 DEF Restored
    <3>3. QED
      BY <3>1, <3>2
  <2>3. QED
    BY <1>1, <1>6, <2>2 DEF Accounted
<1>8. SessionTypes'
  BY <1>1, <1>2, <1>4, <1>5 DEF SessionTypes
<1>9. QED
  BY <1>2, <1>3, <1>7, <1>8 DEF SessionInv, Editing

LEMMA RecordVersionKeeps ==
  ASSUME SessionTypes, SessionInv, RecordVersion
  PROVE  SessionTypes' /\ SessionInv'
<1>1. /\ request.stage = "recording"
      /\ request' = [request EXCEPT !.stage = "answered", !.before = InitialWorkspace,
                                    !.changed = {}, !.strayed = {}]
  BY DEF RecordVersion, Stage
<1>2. InitialWorkspace \in [Files -> Contents]
  BY DEF InitialWorkspace, Contents
<1>3. request' \in Requests /\ request'.stage = "answered" /\ request'.strayed = {}
  BY <1>1, <1>2 DEF SessionTypes, Requests, Stages
<1>4. /\ request.changed \in SUBSET Files /\ workspace \in [Files -> Contents]
      /\ tests \in SUBSET Files /\ loose \in SUBSET Files /\ request.strayed \in SUBSET Files
  BY DEF SessionTypes, Requests
<1>5. CASE ~request.passed
  <2>1. workspace' = workspace /\ tests' = tests /\ loose' = loose
    BY <1>5 DEF RecordVersion
  <2>2. QED
    BY <1>1, <1>3, <1>5, <2>1 DEF SessionTypes, SessionInv, Editing, Accounted, Known
<1>6. CASE request.passed
  <2>1. /\ workspace' = [f \in Files |->
             IF f \in request.changed \ request.strayed THEN "recorded" ELSE workspace[f]]
        /\ tests' = IF request.action.name = "add_test" THEN tests \union request.changed
                                                        ELSE tests
        /\ loose' = (loose \ request.changed) \union request.strayed
    BY <1>6 DEF RecordVersion
  <2>2. /\ workspace' \in [Files -> Contents] /\ tests' \in SUBSET Files
        /\ loose' \in SUBSET Files
    BY <1>4, <2>1 DEF Contents
  <2>3. Accounted(workspace, loose)'
    <3>1. Judged
      BY <1>1, <1>6 DEF SessionInv
    <3>2. Known' = IF request.action.name = "add_test" THEN Known \union request.changed ELSE Known
      BY <2>1 DEF Known
    <3>3. request.action.name # "add_test" => request.changed \subseteq Known
      BY <3>1 DEF Judged, AllowedNew
    <3>4. ASSUME NEW f \in Files, f \notin loose'
          PROVE  workspace'[f] = IF f \in Known' THEN "recorded" ELSE "missing"
      <4>1. CASE f \in request.changed
        BY <2>1, <3>2, <3>3, <3>4, <4>1
      <4>2. CASE f \notin request.changed
        BY <2>1, <3>1, <3>2, <3>4, <4>2 DEF Judged, Accounted
      <4>3. QED
        BY <4>1, <4>2
    <3>5. QED
      BY <3>4 DEF Accounted
  <2>4. QED
    BY <1>1, <1>3, <2>2, <2>3 DEF SessionTypes, SessionInv, Editing
<1>7. QED
  BY <1>5, <1>6

LEMMA SessionDiesKeeps ==
  ASSUME SessionTypes, SessionInv, SessionDies
  PROVE  SessionTypes' /\ SessionInv'
<1>1. request' = NoRequest /\ tests' = tests /\ loose' \in {Unaccounted(workspace)', loose}
  BY DEF SessionDies, Unaccounted, Known
<1>2. workspace' \in [Files -> Contents]
  <2>1. request.before \in [Files -> Contents] /\ workspace \in [Files -> Contents]
    BY DEF SessionTypes, Requests
  <2>2. CASE workspace' \in EditedFrom(request.before) \/ workspace' = workspace
    BY <2>1, <2>2 DEF EditedFrom, Contents
  <2>3. ASSUME NEW written \in SUBSET TestsMayWrite, workspace' \in LeftByTests(written)
        PROVE  workspace' \in [Files -> Contents]
    BY <2>3, TestsLeave
  <2>4. ASSUME NEW copied \in SUBSET Files,
               workspace' = [f \in Files |-> IF f \in copied THEN Restored[f] ELSE workspace[f]]
        PROVE  workspace' \in [Files -> Contents]
    BY <2>1, <2>4 DEF Restored, Contents
  <2>5. QED
    BY <2>2, <2>3, <2>4 DEF SessionDies
<1>3. Accounted(workspace, loose)'
  <2>1. CASE loose' = Unaccounted(workspace)'
    BY <2>1 DEF Accounted, Unaccounted
  <2>2. CASE /\ loose' = loose /\ request.stage \notin {"modifying", "validating", "restoring"}
             /\ ~(request.stage = "recording" /\ request.passed)
    <3>1. workspace' = workspace
      BY <2>2 DEF SessionDies, Stage
    <3>2. Accounted(workspace, loose)
      BY <2>2 DEF SessionInv, Editing
    <3>3. QED
      BY <1>1, <2>2, <3>1, <3>2 DEF Accounted, Known
  <2>3. QED
    BY <2>1, <2>2 DEF SessionDies, Stage, Unaccounted, Known
<1>4. QED
  BY <1>1, <1>2, <1>3, NoRequestType DEF SessionTypes, SessionInv, Editing, Unaccounted

LEMMA SessionStepKeeps ==
  ASSUME SessionTypes, SessionInv, SessionStep
  PROVE  SessionTypes' /\ SessionInv'
BY PlanningKeeps, TakeSnapshotKeeps, ModifierEndsKeeps, LeavingKeeps, ValidateKeeps, RestoreKeeps,
   RecordVersionKeeps DEF SessionStep

\* Whatever a step of the campaign does, its session stays accounted for.
LEMMA SessionKept ==
  ASSUME SessionTypes, SessionInv, [BatchNext]_batchAll
  PROVE  SessionTypes' /\ SessionInv'
<1>1. CASE UNCHANGED sessionVars
  BY <1>1 DEF sessionVars, SessionTypes, SessionInv, Editing, Accounted, Known, Judged, AllowedNew
<1>2. CASE BatchDies
  BY <1>2, SessionDiesKeeps DEF BatchDies
<1>3. CASE Consult
  BY <1>1, <1>3, NamesAvailable, BeginDecisionKeeps DEF Consult
<1>4. CASE Supervise
  BY <1>4, SessionStepKeeps DEF Supervise
<1>5. CASE TakeAction \/ PatchAccepted \/ PatchRejected
  <2>1. ~Editing /\ request' = NoRequest /\ UNCHANGED <<workspace, tests, loose>>
    BY <1>5 DEF TakeAction, PatchAccepted, PatchRejected, Answered, Stage, Editing
  <2>2. QED
    BY <2>1, EndsQuietly
<1>6. CASE JobRaises
  <2>1. CASE request' = request
    BY <1>1, <1>6, <2>1 DEF JobRaises, sessionVars
  <2>2. CASE request' # request
    <3>1. ~Editing /\ request' = NoRequest /\ UNCHANGED <<workspace, tests, loose>>
      BY <1>6, <2>2 DEF JobRaises, Stage, Editing
    <3>2. QED
      BY <3>1, EndsQuietly
  <2>3. QED
    BY <2>1, <2>2
<1>7. CASE SkipJob \/ BeginJob \/ EndCampaign \/ RunAgent \/ AssertionFails \/ Verify \/ Judge
           \/ NextAttempt \/ EndAttempts \/ Conclude \/ StartOver \/ GiveUpJob
           \/ StartCampaign \/ DiesLoading
  BY <1>1, <1>7
  DEF SkipJob, BeginJob, EndCampaign, RunAgent, AssertionFails, Verify, Judge, NextAttempt,
      EndAttempts, Conclude, StartOver, GiveUpJob, WriteRow, StartCampaign, DiesLoading
<1>8. CASE UNCHANGED batchAll
  BY <1>1, <1>8 DEF batchAll
<1>9. QED
  BY <1>2, <1>3, <1>4, <1>5, <1>6, <1>7, <1>8 DEF BatchNext, BatchStep

-----------------------------------------------------------------------------
(* The batch campaign: its jobs *)

\* The attempts of the job at hand: the one selected is one of them, and the best.
BestInv ==
  /\ run.best \in 0..Len(run.attempts)
  /\ BestIsKept

\* main is at a job it has to do.
MainInv ==
  /\ mainAt = "next" => at \in Nat \ {0}
  /\ mainAt \notin {"off", "next"} => at \in 1..Jobs /\ ~results.rows[at].settled

LEMMA NewRunIsGood ==
  /\ NewRun \in Runs /\ NewRun.attempts = <<>> /\ NewRun.best = 0
  /\ NoTrial \in Trials
BY BatchAssumption
DEF NewRun, NoTrial, Runs, Trials, ActionNames, Diagnostics, NoDiagnostic, Levels

LEMMA NewRunIsBest ==
  ASSUME run' = NewRun
  PROVE  run' \in Runs /\ BestInv'
BY NewRunIsGood DEF BestInv, BestIsKept

\* What is selected stays the best as long as no attempt is added.
LEMMA SameAttempts ==
  ASSUME BatchTypes, BestInv,
         run'.attempts = run.attempts, run'.best = run.best,
         run'.canonical = run.canonical \/ run.attempts = <<>>
  PROVE  BestInv'
<1>1. run.attempts = <<>> => run.best = 0
  BY DEF BestInv
<1>2. QED
  BY <1>1 DEF BestInv, BestIsKept, BestLevel

LEMMA JudgeEffect ==
  ASSUME BatchTypes, BestInv, Judge
  PROVE  /\ run' \in Runs /\ trial' \in Trials
         /\ run'.attempts = Append(run.attempts,
              [drawing |-> trial.drawing, level |-> trial.level,
               covered |-> trial.covered, infra |-> trial.infra])
         /\ run'.best = IF Selects THEN Number ELSE run.best
         /\ run'.canonical = IF Selects THEN trial.drawing ELSE run.canonical
         /\ mainAt = "judging" /\ mainAt' \in {"consulting", "deciding"}
         /\ UNCHANGED <<results, at>>
<1> DEFINE attempt == [drawing |-> trial.drawing, level |-> trial.level,
                       covered |-> trial.covered, infra |-> trial.infra]
<1>1. run \in Runs /\ trial \in Trials
  BY DEF BatchTypes
<1>2. attempt \in AttemptRecords
  BY <1>1 DEF Trials, AttemptRecords
<1>3. Append(run.attempts, attempt) \in Seq(AttemptRecords) /\ Number \in Nat
  BY <1>1, <1>2 DEF Runs, Number
<1> DEFINE stagnant == \E k \in DOMAIN run.attempts : trial.level <= run.attempts[k].level
           consults == adaptive /\ (~Success \/ CoverageGap) /\ ~trial.interrupted
           best == IF Selects THEN Number ELSE run.best
           canonical == IF Selects THEN trial.drawing ELSE run.canonical
           unchanged == IF stagnant THEN run.unchanged + 1 ELSE 0
           ahead == IF trial.visualFailed /\ trial.passed THEN "retry_verifier"
                                                            ELSE "repair_drawing"
           over == \/ Success /\ ~CoverageGap
                   \/ trial.interrupted
                   \/ ~adaptive /\ (trial.infra \/ (~HasPrevious /\ ~Selects))
           disturbed == run.disturbed \/ trial.timedOut \/ trial.interrupted
           diagnostic == IF consults
                           THEN [outcome |-> Outcome, component |-> DiagnosedComponent]
                           ELSE NoDiagnostic
           tried == Append(run.attempts, attempt)
           judged == [run EXCEPT !.attempts = tried, !.best = best, !.canonical = canonical]
           planned == [judged EXCEPT !.unchanged = unchanged, !.pending = ahead, !.over = over]
           noted == [planned EXCEPT !.disturbed = disturbed, !.interrupted = trial.interrupted,
                                    !.failedCode = trial.failedCode]
<1>4. run' = [noted EXCEPT !.diagnostic = diagnostic]
  BY DEF Judge
<1>5. /\ best \in Nat /\ canonical \in Nat /\ unchanged \in Nat
      /\ ahead \in ActionNames \union {"fresh_modeling"}
      /\ over \in BOOLEAN /\ disturbed \in BOOLEAN
      /\ trial.interrupted \in BOOLEAN /\ trial.failedCode \in BOOLEAN
      /\ diagnostic \in Diagnostics
  <2>1. best \in Nat /\ canonical \in Nat /\ unchanged \in Nat
    BY <1>1, <1>3 DEF Runs, Trials
  <2>2. ahead \in ActionNames
    BY DEF ActionNames
  <2>3. over \in BOOLEAN /\ disturbed \in BOOLEAN
    OBVIOUS
  <2>4. trial.interrupted \in BOOLEAN /\ trial.failedCode \in BOOLEAN
    BY <1>1 DEF Trials
  <2>5. diagnostic \in Diagnostics
    <3>1. /\ Outcome \in {"infrastructure_error", "agent_error", "coverage_gap", "success",
                           "evaluation_failure"}
          /\ DiagnosedComponent \in {"verifier", "harness", "drawing"}
      BY DEF Outcome, DiagnosedComponent
    <3>2. QED
      BY <3>1 DEF NoDiagnostic, Diagnostics
  <2> HIDE DEF best, canonical, unchanged, ahead, over, disturbed, diagnostic
  <2>6. QED
    BY <2>1, <2>2, <2>3, <2>4, <2>5
<1>6. /\ run' \in Runs /\ run'.attempts = tried /\ run'.best = best
      /\ run'.canonical = canonical
  <2> HIDE DEF best, canonical, unchanged, ahead, over, disturbed, diagnostic, tried
  <2>1. tried \in Seq(AttemptRecords)
    BY <1>3 DEF tried
  <2>2. /\ judged \in Runs /\ judged.attempts = tried /\ judged.best = best
        /\ judged.canonical = canonical
    BY ONLY <1>1, <1>5, <2>1 DEF Runs
  <2> HIDE DEF judged
  <2>3. /\ planned \in Runs /\ planned.attempts = tried /\ planned.best = best
        /\ planned.canonical = canonical
    BY ONLY <1>5, <2>2 DEF Runs
  <2> HIDE DEF planned
  <2>4. /\ noted \in Runs /\ noted.attempts = tried /\ noted.best = best
        /\ noted.canonical = canonical
    BY ONLY <1>5, <2>3 DEF Runs
  <2> HIDE DEF noted
  <2>5. QED
    BY ONLY <1>4, <1>5, <2>4 DEF Runs
<1> HIDE DEF stagnant, consults, unchanged, ahead, over, disturbed, diagnostic
<1>7. trial' \in Trials
  BY NewRunIsGood DEF Judge
<1>8. mainAt = "judging" /\ mainAt' \in {"consulting", "deciding"} /\ UNCHANGED <<results, at>>
  BY DEF Judge, MainGoes
<1>9. QED
  BY <1>6, <1>7, <1>8

LEMMA JudgeKeepsBest ==
  ASSUME BatchTypes, BestInv, Judge
  PROVE  BestInv'
<1>1. /\ run.attempts \in Seq(AttemptRecords) /\ run.best \in 0..Len(run.attempts)
      /\ trial.drawing \in Nat /\ trial.level \in Levels
  BY DEF BatchTypes, BestInv, Runs, Trials
<1>0. TopLevel \in Nat
  BY BatchAssumption
<1>2. \A k \in 1..Len(run.attempts) : run.attempts[k].level \in Nat
  <2> TAKE k \in 1..Len(run.attempts)
  <2>1. run.attempts[k] \in AttemptRecords
    BY <1>1
  <2>2. QED
    BY <1>0, <2>1 DEF AttemptRecords, Levels
<1> DEFINE n == Len(run.attempts)
           attempt == [drawing |-> trial.drawing, level |-> trial.level,
                       covered |-> trial.covered, infra |-> trial.infra]
<1>3. /\ Len(run'.attempts) = n + 1 /\ run'.attempts[n + 1] = attempt
      /\ \A k \in 1..n : run'.attempts[k] = run.attempts[k]
      /\ DOMAIN run'.attempts = 1..(n + 1) /\ DOMAIN run.attempts = 1..n /\ n \in Nat
  BY <1>1, JudgeEffect
<1>4. attempt.drawing = trial.drawing /\ attempt.level = trial.level
  OBVIOUS
<1> HIDE DEF n, attempt
<1>5. CASE Selects
  <2>1. /\ run'.best = n + 1 /\ run'.canonical = trial.drawing
        /\ trial.drawing # 0 /\ (run.best = 0 \/ trial.level > BestLevel)
    BY <1>5, JudgeEffect DEF Selects, Number, n
  <2>2. BestLevel' = trial.level
    BY <1>1, <1>3, <1>4, <2>1 DEF BestLevel, n
  <2>3. ASSUME NEW k \in 1..n, run.attempts[k].drawing # 0
        PROVE  run.attempts[k].level < trial.level
    <3>1. run.best # 0 /\ run.attempts[k].level <= BestLevel
      BY <1>3, <2>3 DEF BestInv, BestIsKept
    <3>2. BestLevel \in Nat /\ trial.level > BestLevel
      BY <1>1, <1>2, <2>1, <3>1 DEF BestLevel
    <3>3. trial.level \in Nat /\ run.attempts[k].level \in Nat
      BY <1>0, <1>1, <1>2, <1>3 DEF Levels, n
    <3>4. QED
      BY <3>1, <3>2, <3>3
  <2>4. ASSUME NEW k \in DOMAIN run'.attempts, run'.attempts[k].drawing # 0
        PROVE  /\ run'.attempts[k].level <= trial.level
               /\ (k < n + 1 => run'.attempts[k].level < trial.level)
    <3>1. CASE k = n + 1
      BY <1>1, <1>3, <1>4, <3>1 DEF Levels
    <3>2. CASE k \in 1..n
      BY <1>1, <1>2, <1>3, <2>3, <2>4, <3>2 DEF Levels, n
    <3>3. QED
      BY <1>3, <3>1, <3>2
  <2>5. QED
    BY <1>3, <1>4, <2>1, <2>2, <2>4 DEF BestInv, BestIsKept
<1>6. CASE ~Selects
  <2>1. run'.best = run.best /\ run'.canonical = run.canonical
    BY <1>6, JudgeEffect
  <2>2. BestLevel' = BestLevel
    BY <1>1, <1>3, <2>1 DEF BestLevel, n
  <2>3. BestLevel \in Nat
    BY <1>1, <1>2 DEF BestLevel
  <2>4. trial.drawing # 0 => run.best # 0 /\ trial.level <= BestLevel
    BY <1>1, <1>6, <2>3 DEF Selects, Levels
  <2>5. ASSUME NEW k \in DOMAIN run'.attempts, run'.attempts[k].drawing # 0
        PROVE  /\ run.best # 0 /\ run'.attempts[k].level <= BestLevel
               /\ (k < run.best => run'.attempts[k].level < BestLevel)
    <3>1. CASE k = n + 1
      BY <1>1, <1>3, <1>4, <2>4, <2>5, <3>1 DEF n
    <3>2. CASE k \in 1..n
      BY <1>3, <2>5, <3>2 DEF BestInv, BestIsKept
    <3>3. QED
      BY <1>3, <3>1, <3>2
  <2>6. run.best # 0 => run'.canonical = run'.attempts[run.best].drawing
    BY <1>1, <1>3, <2>1 DEF BestInv, BestIsKept, n
  <2>7. QED
    BY <1>1, <1>3, <2>1, <2>2, <2>5, <2>6 DEF BestInv, BestIsKept, n
<1>7. QED
  BY <1>5, <1>6

\* A row that main writes: it goes to the job at hand, which had none to keep.
LEMMA WriteRowKeeps ==
  ASSUME BatchTypes, MainInv, NEW row \in RowType, NEW stop, WriteRow(row, stop),
         mainAt \notin {"off", "next"}
  PROVE  /\ BatchTypes' /\ BestInv' /\ MainInv'
         /\ \A j \in 1..Jobs : Resumable(results.rows[j]) => results'.rows[j] = results.rows[j]
<1>1. /\ results' = [results EXCEPT !.rows[at] = row] /\ at' = at + 1
      /\ mainAt' \in {"off", "next"} /\ run' = NewRun /\ trial' = trial
  BY DEF WriteRow, MainGoes
<1>2. at \in 1..Jobs /\ ~results.rows[at].settled
  BY DEF MainInv
<1>3. results \in [torn : BOOLEAN, rows : [1..Jobs -> RowType]]
  BY DEF BatchTypes
<1>4. /\ results' \in [torn : BOOLEAN, rows : [1..Jobs -> RowType]]
      /\ \A j \in 1..Jobs : j # at => results'.rows[j] = results.rows[j]
  BY ONLY <1>1, <1>2, <1>3, row \in RowType
<1>5. QED
  BY <1>1, <1>2, <1>4, NewRunIsBest DEF BatchTypes, MainInv, Resumable

LEMMA RowStatusType == RowStatus \in RowStatuses
BY DEF RowStatus, RowStatuses

\* A step of main or of run_job, but for the verdict of an attempt and the rows.
LEMMA MainKeeps ==
  ASSUME BatchTypes, MainInv, BestInv,
         \/ SkipJob \/ BeginJob \/ EndCampaign \/ AssertionFails \/ Verify
         \/ JobRaises \/ NextAttempt \/ EndAttempts \/ StartOver
  PROVE  BatchTypes' /\ BestInv' /\ MainInv' /\ results' = results
<1>1. results' = results
  BY DEF SkipJob, BeginJob, EndCampaign, AssertionFails, Verify, JobRaises, NextAttempt, EndAttempts,
         StartOver
<1>2. run' \in Runs /\ BestInv'
  <2>1. CASE run' = NewRun
    BY <2>1, NewRunIsBest
  <2>2. CASE run' = run
    BY <2>2 DEF BatchTypes, BestInv, BestIsKept, BestLevel
  <2>3. QED
    BY <2>1, <2>2
    DEF SkipJob, BeginJob, EndCampaign, AssertionFails, Verify, JobRaises, NextAttempt, EndAttempts,
        StartOver
<1>3. trial' \in Trials
  <2>1. trial \in Trials /\ NoTrial \in Trials
    BY NewRunIsGood DEF BatchTypes
  <2>2. CASE Verify
    <3>1. CASE trial' = trial
      BY <2>1, <3>1
    <3>2. CASE trial' = [trial EXCEPT !.infra = TRUE]
      BY <2>1, <3>2 DEF Trials
    <3>3. ASSUME NEW v \in VerifierVerdicts,
                 trial' = [trial EXCEPT !.level = v.level, !.passed = v.passed,
                                        !.covered = v.covered, !.visualFailed = v.visualFailed]
          PROVE  trial' \in Trials
      <4>1. v.level \in Levels /\ v.passed \in BOOLEAN /\ v.covered \in BOOLEAN
            /\ v.visualFailed \in BOOLEAN
        BY DEF VerifierVerdicts, Levels
      <4>2. QED
        BY ONLY <2>1, <3>3, <4>1 DEF Trials
    <3>4. QED
      BY <2>2, <3>1, <3>2, <3>3 DEF Verify
  <2>3. CASE trial' = trial \/ trial' = NoTrial
    BY <2>1, <2>3
  <2>4. QED
    BY <2>2, <2>3
    DEF SkipJob, BeginJob, EndCampaign, AssertionFails, JobRaises, NextAttempt, EndAttempts, StartOver
<1>4. MainInv'
  <2>1. Jobs \in Nat
    BY BatchAssumption
  <2>2. CASE SkipJob \/ BeginJob \/ EndCampaign
    BY <1>1, <2>1, <2>2 DEF SkipJob, BeginJob, EndCampaign, MainInv, MainGoes
  <2>3. CASE \/ AssertionFails \/ Verify \/ JobRaises \/ NextAttempt \/ EndAttempts \/ StartOver
    <3>1. at' = at /\ mainAt \notin {"off", "next"} /\ mainAt' \notin {"off", "next"}
      BY <2>3 DEF AssertionFails, Verify, JobRaises, NextAttempt, EndAttempts, StartOver, MainGoes
    <3>2. QED
      BY <1>1, <3>1 DEF MainInv
  <2>4. QED
    BY <2>2, <2>3
<1>5. QED
  BY <1>1, <1>2, <1>3, <1>4 DEF BatchTypes

LEMMA RunAgentKeeps ==
  ASSUME BatchTypes, MainInv, BestInv, RunAgent
  PROVE  BatchTypes' /\ BestInv' /\ MainInv' /\ results' = results
<1>1. results' = results /\ at' = at /\ mainAt = "modeling" /\ mainAt' = "verifying"
  BY DEF RunAgent, MainGoes
<1>2. run \in Runs /\ NoTrial \in Trials /\ run.canonical \in Nat /\ Number \in Nat
  BY NewRunIsGood DEF BatchTypes, Runs, Number
<1>3. CASE VerifierOnly
  <2>1. run' = run /\ trial' = [NoTrial EXCEPT !.drawing = run.canonical]
    BY <1>3 DEF RunAgent
  <2>2. trial' \in Trials
    BY ONLY <1>2, <2>1 DEF Trials
  <2>3. QED
    BY <1>1, <2>1, <2>2, SameAttempts DEF BatchTypes, MainInv
<1>4. CASE ~VerifierOnly
  <2>1. PICK left, timedOut, interrupted, failedCode \in BOOLEAN :
          /\ trial' = [NoTrial EXCEPT !.drawing = IF left THEN Number ELSE 0,
                         !.timedOut = timedOut, !.interrupted = interrupted,
                         !.failedCode = failedCode]
          /\ run' = [run EXCEPT !.canonical =
                       IF Number = 1 /\ left THEN 1 ELSE run.canonical]
    BY <1>4 DEF RunAgent
  <2>2. trial' \in Trials
    <3>1. PICK drawing \in Nat :
            trial' = [NoTrial EXCEPT !.drawing = drawing, !.timedOut = timedOut,
                        !.interrupted = interrupted, !.failedCode = failedCode]
      BY <1>2, <2>1
    <3>2. QED
      BY ONLY <1>2, <3>1, drawing \in Nat, timedOut \in BOOLEAN, interrupted \in BOOLEAN,
         failedCode \in BOOLEAN DEF Trials
  <2>3. PICK canonical \in Nat : /\ run' = [run EXCEPT !.canonical = canonical]
                                 /\ canonical = run.canonical \/ Number = 1
    BY <1>2, <2>1
  <2>4. /\ run' \in Runs /\ run'.attempts = run.attempts /\ run'.best = run.best
        /\ run'.canonical = canonical
    BY <1>2, <2>3 DEF Runs
  <2>5. Number = 1 => run.attempts = <<>>
    BY <1>2 DEF Runs, Number
  <2>6. QED
    BY <1>1, <2>2, <2>3, <2>4, <2>5, SameAttempts DEF BatchTypes, MainInv
<1>5. QED
  BY <1>3, <1>4

\* A step of the supervisor.
LEMMA SuperviseKeeps ==
  ASSUME SessionTypes, BatchTypes, MainInv, BestInv,
         Consult \/ Supervise \/ TakeAction \/ PatchAccepted \/ PatchRejected
  PROVE  BatchTypes' /\ BestInv' /\ MainInv' /\ results' = results
<1>1. /\ results' = results /\ at' = at /\ trial' = trial
      /\ mainAt \notin {"off", "next"} /\ mainAt' \notin {"off", "next"}
  BY DEF Consult, Supervise, TakeAction, PatchAccepted, PatchRejected, Answered, MainGoes
<1>2. run \in Runs /\ request.action.name \in ActionNames
  BY DEF BatchTypes, SessionTypes, Requests, ActionType
<1>3. /\ run' \in Runs /\ run'.attempts = run.attempts /\ run'.best = run.best
      /\ run'.canonical = run.canonical
  <2>1. ASSUME NEW ahead \in ActionNames \union {"fresh_modeling"}, NEW diagnostic \in Diagnostics,
               run' = [run EXCEPT !.pending = ahead, !.diagnostic = diagnostic]
        PROVE  /\ run' \in Runs /\ run'.attempts = run.attempts /\ run'.best = run.best
               /\ run'.canonical = run.canonical
    BY ONLY <1>2, <2>1 DEF Runs
  <2>2. CASE Consult
    <3>1. NoDiagnostic \in Diagnostics /\ "stop" \in ActionNames
      BY DEF NoDiagnostic, Diagnostics, ActionNames
    <3>2. CASE run' = [run EXCEPT !.asked = @ + 1, !.diagnostic = NoDiagnostic]
      <4> DEFINE asked == run.asked + 1
      <4>1. asked \in Nat
        BY <1>2 DEF Runs
      <4>2. run' = [run EXCEPT !.asked = asked, !.diagnostic = NoDiagnostic]
        BY <3>2
      <4> HIDE DEF asked
      <4>3. QED
        BY ONLY <1>2, <3>1, <4>1, <4>2 DEF Runs
    <3>3. CASE run' = [run EXCEPT !.pending = "stop", !.diagnostic = NoDiagnostic]
      BY <2>1, <3>1, <3>3
    <3>4. QED
      BY <2>2, <3>2, <3>3 DEF Consult
  <2>3. CASE Supervise
    BY <1>2, <2>3 DEF Supervise
  <2>4. CASE TakeAction
    <3>1. NoDiagnostic \in Diagnostics
      BY DEF NoDiagnostic, Diagnostics
    <3>2. QED
      BY <1>2, <2>1, <2>4, <3>1 DEF TakeAction, Answered
  <2>5. CASE PatchAccepted
    <3>1. NoDiagnostic \in Diagnostics /\ {"retry_verifier", "repair_drawing"} \subseteq ActionNames
      BY DEF NoDiagnostic, Diagnostics, ActionNames
    <3>2. QED
      BY <2>1, <2>5, <3>1 DEF PatchAccepted, Answered
  <2>6. CASE PatchRejected
    <3>1. [outcome |-> "infrastructure_error", component |-> ComponentOf(request.action.name)]
            \in Diagnostics
      BY <1>2 DEF Diagnostics
    <3>2. run.pending \in ActionNames \union {"fresh_modeling"}
      BY <1>2 DEF Runs
    <3>3. QED
      BY <2>1, <2>6, <3>1, <3>2 DEF PatchRejected, Answered
  <2>7. QED
    BY <2>2, <2>3, <2>4, <2>5, <2>6
<1>4. BestInv'
  BY <1>3, SameAttempts
<1>5. QED
  BY <1>1, <1>3, <1>4 DEF BatchTypes, MainInv

\* The campaign starts, or a process dies.
LEMMA StartKeeps ==
  ASSUME BatchTypes, MainInv, BestInv, StartCampaign \/ BatchDies \/ DiesLoading
  PROVE  /\ BatchTypes' /\ BestInv' /\ MainInv'
         /\ \A j \in 1..Jobs : Resumable(results.rows[j]) => results'.rows[j] = results.rows[j]
<1>1. results \in [torn : BOOLEAN, rows : [1..Jobs -> RowType]] /\ NoResult \in RowType
  BY DEF BatchTypes, NoResult, RowType, RowStatuses
<1>2. /\ results' \in [torn : BOOLEAN, rows : [1..Jobs -> RowType]]
      /\ \A j \in 1..Jobs : Resumable(results.rows[j]) => results'.rows[j] = results.rows[j]
  <2>1. CASE results' = results
    BY <1>1, <2>1
  <2>2. CASE results' = [results EXCEPT !.torn = TRUE]
    BY ONLY <1>1, <2>2
  <2>3. CASE results' = [results EXCEPT !.rows =
               [j \in 1..Jobs |-> IF Resumable(results.rows[j]) THEN results.rows[j] ELSE NoResult]]
    <3> DEFINE rows == [j \in 1..Jobs |->
                         IF Resumable(results.rows[j]) THEN results.rows[j] ELSE NoResult]
    <3>1. rows \in [1..Jobs -> RowType]
      BY <1>1
    <3>2. \A j \in 1..Jobs : Resumable(results.rows[j]) => rows[j] = results.rows[j]
      OBVIOUS
    <3>3. results' = [results EXCEPT !.rows = rows]
      BY <2>3
    <3> HIDE DEF rows
    <3>4. QED
      BY <1>1, <3>1, <3>2, <3>3
  <2>4. QED
    BY <2>1, <2>2, <2>3 DEF StartCampaign, BatchDies, DiesLoading
<1>3. run' \in Runs /\ trial' \in Trials /\ BestInv'
  <2>1. CASE run' = NewRun /\ trial' = NoTrial
    BY <2>1, NewRunIsBest, NewRunIsGood
  <2>2. CASE run' = run /\ trial' = trial
    BY <2>2 DEF BatchTypes, BestInv, BestIsKept, BestLevel
  <2>3. QED
    BY <2>1, <2>2 DEF StartCampaign, BatchDies, DiesLoading
<1>4. MainInv'
  BY DEF StartCampaign, BatchDies, DiesLoading, MainGoes, MainInv
<1>5. QED
  BY <1>2, <1>3, <1>4 DEF BatchTypes

-----------------------------------------------------------------------------
(* The batch campaign: the theorems *)

BatchInv == SessionTypes /\ SessionInv /\ BatchTypes /\ BestInv /\ MainInv

LEMMA BatchStart == BatchInit => BatchInv
<1> SUFFICES ASSUME BatchInit PROVE BatchInv
  OBVIOUS
<1>1. SessionTypes /\ SessionInv
  BY NoRequestType
  DEF BatchInit, SessionInit, SessionTypes, SessionInv, InitialWorkspace, Contents, Accounted, Known,
      Editing
<1>2. NoResult \in RowType
  BY DEF NoResult, RowType, RowStatuses
<1>3. BatchTypes /\ BestInv /\ MainInv
  BY <1>2, NewRunIsGood DEF BatchInit, BatchTypes, BestInv, BestIsKept, MainInv
<1>4. QED
  BY <1>1, <1>3 DEF BatchInv

LEMMA BatchKeeps ==
  ASSUME BatchInv, [BatchNext]_batchAll
  PROVE  /\ BatchInv'
         /\ \A j \in 1..Jobs : Resumable(results.rows[j]) => results'.rows[j] = results.rows[j]
<1>1. SessionTypes /\ SessionInv /\ BatchTypes /\ BestInv /\ MainInv
  BY DEF BatchInv
<1>2. SessionTypes' /\ SessionInv'
  BY <1>1, SessionKept
<1>3. /\ BatchTypes' /\ BestInv' /\ MainInv'
      /\ \A j \in 1..Jobs : Resumable(results.rows[j]) => results'.rows[j] = results.rows[j]
  <2>1. CASE UNCHANGED batchAll
    BY <1>1, <2>1 DEF batchAll, batchVars, BatchTypes, BestInv, BestIsKept, BestLevel, MainInv
  <2>2. CASE \/ SkipJob \/ BeginJob \/ EndCampaign \/ AssertionFails \/ Verify
             \/ JobRaises \/ NextAttempt \/ EndAttempts \/ StartOver
    BY <1>1, <2>2, MainKeeps
  <2>3. CASE RunAgent
    BY <1>1, <2>3, RunAgentKeeps
  <2>4. CASE Judge
    BY <1>1, <2>4, JudgeEffect, JudgeKeepsBest DEF BatchTypes, MainInv
  <2>5. CASE Consult \/ Supervise \/ TakeAction \/ PatchAccepted \/ PatchRejected
    BY <1>1, <2>5, SuperviseKeeps
  <2>6. CASE Conclude
    <3>1. run \in Runs
      BY <1>1 DEF BatchTypes
    <3> DEFINE row == [status |-> RowStatus,
                       settled |-> RowStatus # "harness-error" /\ ~run.disturbed
                                     /\ ~run.failedCode,
                       infra |-> run.best # 0 /\ run.attempts[run.best].infra]
    <3>2. row \in RowType
      <4>1. (run.best # 0 /\ run.attempts[run.best].infra) \in BOOLEAN
        OBVIOUS
      <4>2. QED
        BY <4>1, RowStatusType DEF RowType
    <3>3. /\ WriteRow(row, run.interrupted \/ RowStatus = "harness-error")
          /\ mainAt = "concluding"
      BY <2>6 DEF Conclude
    <3> HIDE DEF row
    <3>4. QED
      BY <1>1, <3>2, <3>3, WriteRowKeeps
  <2>7. CASE GiveUpJob
    <3>1. [status |-> "harness-error", settled |-> FALSE, infra |-> FALSE] \in RowType
      BY DEF RowType, RowStatuses
    <3>2. QED
      BY <1>1, <2>7, <3>1, WriteRowKeeps DEF GiveUpJob
  <2>8. CASE StartCampaign \/ BatchDies \/ DiesLoading
    BY <1>1, <2>8, StartKeeps
  <2>9. QED
    BY <2>1, <2>2, <2>3, <2>4, <2>5, <2>6, <2>7, <2>8 DEF BatchNext, BatchStep
<1>4. QED
  BY <1>2, <1>3 DEF BatchInv

\* The invariant of a batch campaign and its session holds in every state, whatever raises,
\* dies and is started again.
THEOREM BatchInvariance == BatchSpec => []BatchInv
<1>1. BatchInv /\ [BatchNext]_batchAll => BatchInv'
  BY BatchKeeps
<1>2. QED
  BY <1>1, BatchStart, PTL DEF BatchSpec

\* candidate.dwg is the drawing of the first attempt that reached the highest level, for
\* any number of attempts and levels, however often the campaign is started.
THEOREM BestKept == BatchSpec => []BestIsKept
<1>1. BatchInv => BestIsKept
  BY DEF BatchInv, BestInv
<1>2. QED
  BY <1>1, BatchInvariance, PTL

\* Outside an edit every file of the workspace is what the manifest says, but for those that an
\* edit left which was cut off, and those that tests wrote, for any files, components and tests,
\* and whatever the tests write.
THEOREM WorkspaceAccounted == BatchSpec => []WorkspaceIsAccounted
<1>1. BatchInv => WorkspaceIsAccounted
  BY DEF BatchInv, SessionInv, Accounted, WorkspaceIsAccounted, Unaccounted
<1>2. QED
  BY <1>1, BatchInvariance, PTL

\* A settled result that rests on a verdict is neither lost nor replaced.
THEOREM SettledLast == BatchSpec => SettledRowsLast
<1>1. BatchInv /\ [BatchNext]_batchAll
        => [\A j \in 1..Jobs : Resumable(results.rows[j]) => results'.rows[j] = results.rows[j]]_batchAll
  BY BatchKeeps
<1>2. QED
  BY <1>1, BatchInvariance, PTL DEF BatchSpec, SettledRowsLast

(***************************************************************************)
(* The improvement manager                                                 *)
(***************************************************************************)

Versions == [Sources -> Nat]
ProposalStatuses ==
  {"absent", "torn", "draft", "no-change", "proposed", "invalid", "gate-passed",
   "gate-rejected", "promoted"}
ProposalTypes == [status : ProposalStatuses, before : Versions, work : Versions, after : Versions]
ReleaseTypes ==
  [state : {"absent", "partial", "complete"}, before : Versions, source : Versions]
Commands ==
  [name : {"promote", "rollback"}, id : Proposals, left : SUBSET Sources, wrote : BOOLEAN]

ImprovementTypes ==
  /\ production \in Versions /\ edits \in Nat /\ cutShort \in BOOLEAN
  /\ proposal \in [Proposals -> ProposalTypes]
  /\ release \in [Proposals -> ReleaseTypes]
  /\ current \in [kind : {"none"}, id : {"none"}]
                   \union [kind : {"release", "rollback"}, id : Proposals]
  /\ command \in {NoCommand} \union Commands

\* The content is the first one, or a gate that passed saw it, or a command was cut short in it.
Seen(f, content) == content = 0 \/ <<f, content>> \in gated \/ (content = Torn /\ cutShort)

\* What a proposal that passed has, what a promotion has archived, and what a release may
\* bring back, a gate saw.
PassedWereSeen ==
  \A p \in Proposals : proposal[p].status = "gate-passed" =>
    \A f \in Scope[p] : Seen(f, proposal[p].after[f])
ReleasesWereSeen ==
  \A p \in Proposals : release[p].state = "complete" =>
    \A f \in Scope[p] : Seen(f, release[p].before[f])
PromotedWereSeen ==
  command.name = "promote" =>
    \A f \in Scope[command.id] :
      /\ Seen(f, proposal[command.id].after[f])
      /\ f \notin command.left => Seen(f, release[command.id].before[f])
SeenInv == ProductionIsGated /\ PassedWereSeen /\ ReleasesWereSeen /\ PromotedWereSeen

\* A promotion works on a release of its own until that is complete; a rollback on a
\* complete one.
CommandInv ==
  /\ command.name = "promote" =>
       /\ command.left \subseteq Scope[command.id]
       /\ release[command.id].state # "absent"
       /\ release[command.id].state = "complete" => command.left = {}
       /\ release[command.id].state = "partial" =>
            current.kind = "none" \/ current.id # command.id
  /\ command.name = "rollback" =>
       command.left \subseteq Scope[command.id] /\ release[command.id].state = "complete"
  /\ command.name # "none" /\ ~command.wrote => command.left = Scope[command.id]
  /\ current.kind # "none" => release[current.id].state = "complete"

\* What current.json tells of production.
Live ==
  /\ current.kind = "none" => \A f \in Sources : production[f] = 0
  /\ current.kind = "release" =>
       \A f \in Scope[current.id] : production[f] = release[current.id].source[f]
  /\ current.kind = "rollback" =>
       \A f \in Scope[current.id] : production[f] = release[current.id].before[f]

\* It does until a command replaced a file, which leaves those it has replaced as it will
\* leave them all.
LiveInv ==
  ~cutShort =>
    /\ ~command.wrote => Live
    /\ command.name = "promote" =>
         \A f \in Scope[command.id] \ command.left :
           production[f] = release[command.id].source[f]
    /\ command.name = "rollback" =>
         \A f \in Scope[command.id] \ command.left :
           production[f] = release[command.id].before[f]

ImprovementInv == ImprovementTypes /\ SeenInv /\ CommandInv /\ LiveInv

LEMMA ScopeFiles == ASSUME NEW p \in Proposals PROVE Scope[p] \subseteq Sources
BY ImprovementAssumption

\* What is known of a command, by its name.
LEMMA CommandFields ==
  ASSUME ImprovementTypes
  PROVE  /\ command.name \in {"none", "promote", "rollback"}
         /\ command.name = "none" <=> command = NoCommand
         /\ command.name # "none" => command \in Commands
         /\ NoCommand.name = "none" /\ NoCommand.wrote = FALSE
BY DEF ImprovementTypes, NoCommand, Commands

LEMMA ImprovementStarts == ImprovementInit => ImprovementInv
<1>1. SUFFICES ASSUME ImprovementInit PROVE ImprovementInv
  OBVIOUS
<1>2. NoFiles \in Versions /\ NoContent \in Nat
  BY ImprovementAssumption DEF NoFiles, NoContent, Versions
<1>3. Absent \in ProposalTypes /\ NoRelease \in ReleaseTypes
  BY <1>2 DEF Absent, NoRelease, ProposalTypes, ProposalStatuses, ReleaseTypes
<1>4. ImprovementTypes
  BY <1>1, <1>3 DEF ImprovementInit, ImprovementTypes, Versions
<1>5. SeenInv
  BY <1>1 DEF ImprovementInit, SeenInv, Seen, ProductionIsGated, PassedWereSeen,
     ReleasesWereSeen, PromotedWereSeen, NoCommand, Absent, NoRelease
<1>6. CommandInv /\ LiveInv
  BY <1>1 DEF ImprovementInit, CommandInv, LiveInv, Live, NoCommand
<1>7. QED
  BY <1>4, <1>5, <1>6 DEF ImprovementInv

\* The steps that touch proposals and reports only.
ProposalStep(p) ==
  \/ CreateProposal(p) \/ RunImprovementAgent(p) \/ ImprovementAgentCutOff(p)
  \/ BuildReports(p) \/ Gate(p)

\* What an edit leaves are versions.
LEMMA EditedVersions ==
  ASSUME ImprovementTypes, NEW p \in Proposals, NEW touched \in SUBSET Scope[p]
  PROVE  Edited(p, touched) \in Versions
<1>1. proposal[p].work \in Versions /\ edits + 1 \in Nat
  BY DEF ImprovementTypes, ProposalTypes
<1>2. QED
  BY <1>1 DEF Edited, Versions

\* A step of a proposal passes it only when a gate sees what it has, and it forgets
\* nothing that a gate saw.
LEMMA ProposalEffect ==
  ASSUME ImprovementTypes, NEW p \in Proposals, ProposalStep(p)
  PROVE  /\ NoCommandRuns
         /\ proposal' \in [Proposals -> ProposalTypes] /\ edits' \in Nat
         /\ UNCHANGED <<production, release, current, command, cutShort>>
         /\ gated \subseteq gated'
         /\ \A q \in Proposals : proposal'[q].status = "gate-passed" =>
              \/ proposal[q].status = "gate-passed" /\ proposal'[q].after = proposal[q].after
              \/ \A f \in Scope[q] : <<f, proposal'[q].after[f]>> \in gated'
<1>1. proposal \in [Proposals -> ProposalTypes] /\ edits \in Nat /\ production \in Versions
  BY DEF ImprovementTypes
<1>2. NoFiles \in Versions /\ NoContent \in Nat
  BY ImprovementAssumption DEF NoFiles, NoContent, Versions
<1>3. CASE CreateProposal(p)
  <2> DEFINE taken == [f \in Sources |-> IF f \in Scope[p] THEN production[f] ELSE NoContent]
             draft == [status |-> "draft", before |-> taken, work |-> taken, after |-> NoFiles]
  <2>1. taken \in Versions
    BY <1>1, <1>2 DEF Versions
  <2>2. draft \in ProposalTypes /\ draft.status = "draft"
    BY <1>2, <2>1 DEF ProposalTypes, ProposalStatuses
  <2>3. \/ proposal' = [proposal EXCEPT ![p] = draft]
        \/ proposal' = [proposal EXCEPT ![p].status = "torn"]
    BY <1>3 DEF CreateProposal, SetStatus
  <2>4. /\ NoCommandRuns
        /\ UNCHANGED <<production, release, current, command, edits, gated, cutShort>>
    BY <1>3 DEF CreateProposal
  <2> HIDE DEF draft
  <2>5. CASE proposal' = [proposal EXCEPT ![p] = draft]
    BY ONLY <1>1, <2>2, <2>4, <2>5, p \in Proposals
  <2>6. CASE proposal' = [proposal EXCEPT ![p].status = "torn"]
    <3>1. proposal' \in [Proposals -> ProposalTypes]
      BY ONLY <1>1, <2>6, p \in Proposals DEF ProposalTypes, ProposalStatuses
    <3>2. \A q \in Proposals : proposal'[q].status = "gate-passed" => proposal'[q] = proposal[q]
      BY ONLY <1>1, <2>6, p \in Proposals DEF ProposalTypes, ProposalStatuses
    <3>3. QED
      BY <1>1, <2>4, <3>1, <3>2
  <2>7. QED
    BY ONLY <2>3, <2>5, <2>6
<1>4. CASE RunImprovementAgent(p)
  <2>1. PICK touched \in SUBSET Scope[p], honest \in BOOLEAN :
          LET work == Edited(p, touched)
          IN  proposal' = [proposal EXCEPT ![p] =
                IF honest
                  THEN [@ EXCEPT !.work = work, !.after = work,
                          !.status = IF work = proposal[p].before THEN "no-change" ELSE "proposed"]
                  ELSE [@ EXCEPT !.work = work, !.status = "invalid"]]
    BY <1>4 DEF RunImprovementAgent
  <2> DEFINE work == Edited(p, touched)
             status == IF work = proposal[p].before THEN "no-change" ELSE "proposed"
             done == [proposal[p] EXCEPT !.work = work, !.after = work, !.status = status]
             broken == [proposal[p] EXCEPT !.work = work, !.status = "invalid"]
  <2>2. work \in Versions
    BY EditedVersions
  <2>3. status \in {"no-change", "proposed"}
    OBVIOUS
  <2>4. proposal' = [proposal EXCEPT ![p] = IF honest THEN done ELSE broken]
    BY <1>1, <2>1
  <2> HIDE DEF work, status
  <2>5. /\ done \in ProposalTypes /\ done.status # "gate-passed"
        /\ broken \in ProposalTypes /\ broken.status # "gate-passed"
    BY ONLY <1>1, <2>2, <2>3, p \in Proposals DEF ProposalTypes, ProposalStatuses
  <2>6. /\ NoCommandRuns /\ edits' = edits + 1
        /\ UNCHANGED <<production, release, current, command, gated, cutShort>>
    BY <1>4 DEF RunImprovementAgent
  <2> HIDE DEF done, broken
  <2>7. QED
    BY ONLY <1>1, <2>4, <2>5, <2>6, p \in Proposals, honest \in BOOLEAN
<1>5. CASE ImprovementAgentCutOff(p)
  <2>1. PICK touched \in SUBSET Scope[p] :
          proposal' = [proposal EXCEPT ![p].work = Edited(p, touched)]
    BY <1>5 DEF ImprovementAgentCutOff
  <2> DEFINE work == Edited(p, touched)
  <2>2. work \in Versions
    BY EditedVersions
  <2>3. proposal' = [proposal EXCEPT ![p].work = work]
    BY <2>1
  <2>4. /\ NoCommandRuns /\ edits' = edits + 1
        /\ UNCHANGED <<production, release, current, command, gated, cutShort>>
    BY <1>5 DEF ImprovementAgentCutOff
  <2> HIDE DEF work
  <2>5. /\ proposal' \in [Proposals -> ProposalTypes]
        /\ \A q \in Proposals : /\ proposal'[q].status = proposal[q].status
                                /\ proposal'[q].after = proposal[q].after
    BY ONLY <1>1, <2>2, <2>3, p \in Proposals DEF ProposalTypes, ProposalStatuses
  <2>6. QED
    BY <1>1, <2>4, <2>5
<1>6. CASE BuildReports(p)
  BY <1>1, <1>6 DEF BuildReports
<1>7. CASE Gate(p)
  <2>1. PICK better \in BOOLEAN, approved \in BOOLEAN :
          LET passed == better /\ (VerifierChanged(p) => approved)
          IN  /\ SetStatus(p, IF passed THEN "gate-passed" ELSE "gate-rejected")
              /\ gated' = IF passed THEN gated \union {<<f, proposal[p].after[f]>> : f \in Scope[p]}
                                    ELSE gated
    BY <1>7 DEF Gate
  <2> DEFINE seen == {<<f, proposal[p].after[f]>> : f \in Scope[p]}
  <2>2. \/ /\ proposal' = [proposal EXCEPT ![p].status = "gate-passed"]
           /\ gated' = gated \union seen
        \/ /\ proposal' = [proposal EXCEPT ![p].status = "gate-rejected"]
           /\ gated' = gated
    BY <2>1 DEF SetStatus
  <2>3. /\ NoCommandRuns
        /\ UNCHANGED <<production, release, current, command, edits, cutShort>>
    BY <1>7 DEF Gate
  <2>4. \A f \in Scope[p] : <<f, proposal[p].after[f]>> \in seen
    OBVIOUS
  <2> HIDE DEF seen
  <2>5. CASE /\ proposal' = [proposal EXCEPT ![p].status = "gate-passed"]
             /\ gated' = gated \union seen
    <3>1. /\ proposal' \in [Proposals -> ProposalTypes]
          /\ proposal'[p].after = proposal[p].after
          /\ \A q \in Proposals : q # p => proposal'[q] = proposal[q]
      BY ONLY <1>1, <2>5, p \in Proposals DEF ProposalTypes, ProposalStatuses
    <3>2. QED
      BY <1>1, <2>3, <2>4, <2>5, <3>1
  <2>6. CASE /\ proposal' = [proposal EXCEPT ![p].status = "gate-rejected"]
             /\ gated' = gated
    <3>1. /\ proposal' \in [Proposals -> ProposalTypes]
          /\ \A q \in Proposals : proposal'[q].status = "gate-passed" => proposal'[q] = proposal[q]
      BY ONLY <1>1, <2>6, p \in Proposals DEF ProposalTypes, ProposalStatuses
    <3>2. QED
      BY <1>1, <2>3, <2>6, <3>1
  <2>7. QED
    BY ONLY <2>2, <2>5, <2>6
<1>8. QED
  BY <1>3, <1>4, <1>5, <1>6, <1>7 DEF ProposalStep

LEMMA ProposalKeeps ==
  ASSUME ImprovementInv, NEW p \in Proposals, ProposalStep(p)
  PROVE  ImprovementInv'
<1>1. ImprovementTypes
  BY DEF ImprovementInv
<1>2. /\ NoCommandRuns
      /\ proposal' \in [Proposals -> ProposalTypes] /\ edits' \in Nat
      /\ UNCHANGED <<production, release, current, command, cutShort>>
      /\ gated \subseteq gated'
      /\ \A q \in Proposals : proposal'[q].status = "gate-passed" =>
           \/ proposal[q].status = "gate-passed" /\ proposal'[q].after = proposal[q].after
           \/ \A f \in Scope[q] : <<f, proposal'[q].after[f]>> \in gated'
  BY <1>1, ProposalEffect
<1>3. command.name = "none"
  BY <1>2 DEF NoCommandRuns, NoCommand
<1>4. ImprovementTypes'
  BY <1>1, <1>2 DEF ImprovementTypes
<1>5. SeenInv'
  BY <1>2, <1>3 DEF ImprovementInv, SeenInv, Seen, ProductionIsGated, PassedWereSeen,
     ReleasesWereSeen, PromotedWereSeen
<1>6. CommandInv' /\ LiveInv'
  BY <1>2 DEF ImprovementInv, CommandInv, LiveInv, Live
<1>7. QED
  BY <1>4, <1>5, <1>6 DEF ImprovementInv

LEMMA BeginPromotionKeeps ==
  ASSUME ImprovementInv, NEW p \in Proposals, BeginPromotion(p)
  PROVE  ImprovementInv'
<1>1. /\ command = NoCommand /\ proposal[p].status = "gate-passed" /\ release[p].state = "absent"
      /\ release' = [release EXCEPT ![p].state = "partial"]
      /\ command' = [name |-> "promote", id |-> p, left |-> Scope[p], wrote |-> FALSE]
      /\ UNCHANGED <<production, proposal, current, report, edits, gated, cutShort>>
  BY DEF BeginPromotion, NoCommandRuns
<1>2. release \in [Proposals -> ReleaseTypes] /\ Scope[p] \subseteq Sources
  BY ScopeFiles DEF ImprovementInv, ImprovementTypes
<1>3. /\ release' \in [Proposals -> ReleaseTypes] /\ release'[p].state = "partial"
      /\ release'[p].before = release[p].before /\ release'[p].source = release[p].source
      /\ \A q \in Proposals : q # p => release'[q] = release[q]
  BY ONLY <1>1, <1>2, p \in Proposals DEF ReleaseTypes
<1>4. /\ command' \in Commands /\ command'.name = "promote" /\ command'.id = p
      /\ command'.left = Scope[p] /\ command'.wrote = FALSE
  BY <1>1, <1>2 DEF Commands
<1>5. ImprovementTypes'
  BY <1>1, <1>3, <1>4 DEF ImprovementInv, ImprovementTypes
<1>6. current.kind # "none" => current.id \in Proposals /\ current.id # p
  BY <1>1 DEF ImprovementInv, ImprovementTypes, CommandInv
<1>7. SeenInv'
  <2>1. \A f \in Scope[p] : Seen(f, proposal[p].after[f])
    BY <1>1 DEF ImprovementInv, SeenInv, PassedWereSeen
  <2>2. \A q \in Proposals : release'[q].state = "complete" => release'[q] = release[q]
    BY <1>3
  <2>3. QED
    BY <1>1, <1>4, <2>1, <2>2 DEF ImprovementInv, SeenInv, Seen, ProductionIsGated, PassedWereSeen,
     ReleasesWereSeen, PromotedWereSeen
<1>8. CommandInv'
  BY <1>1, <1>3, <1>4, <1>6 DEF ImprovementInv, ImprovementTypes, CommandInv
<1>9. LiveInv'
  <2>1. ~cutShort => Live
    BY <1>1 DEF ImprovementInv, LiveInv, NoCommand
  <2>2. ~cutShort => Live'
    BY <1>1, <1>3, <1>6, <2>1 DEF Live, ImprovementInv, ImprovementTypes
  <2>3. QED
    BY <1>1, <1>4, <2>2 DEF LiveInv
<1>10. QED
  BY <1>5, <1>7, <1>8, <1>9 DEF ImprovementInv

LEMMA BeginRollbackKeeps ==
  ASSUME ImprovementInv, NEW p \in Proposals, BeginRollback(p)
  PROVE  ImprovementInv'
<1>1. /\ command = NoCommand /\ release[p].state = "complete"
      /\ command' = [name |-> "rollback", id |-> p, left |-> Scope[p], wrote |-> FALSE]
      /\ UNCHANGED <<production, proposal, release, current, report, edits, gated, cutShort>>
  BY DEF BeginRollback, NoCommandRuns
<1>2. /\ command' \in Commands /\ command'.name = "rollback" /\ command'.id = p
      /\ command'.left = Scope[p] /\ command'.wrote = FALSE
  BY <1>1, ScopeFiles DEF Commands
<1>3. ImprovementTypes'
  BY <1>1, <1>2 DEF ImprovementInv, ImprovementTypes
<1>4. SeenInv'
  BY <1>1, <1>2 DEF ImprovementInv, SeenInv, Seen, ProductionIsGated, PassedWereSeen,
     ReleasesWereSeen, PromotedWereSeen
<1>5. CommandInv'
  BY <1>1, <1>2 DEF ImprovementInv, CommandInv
<1>6. LiveInv'
  <2>1. ~cutShort => Live'
    BY <1>1 DEF ImprovementInv, LiveInv, NoCommand, Live
  <2>2. QED
    BY <1>1, <1>2, <2>1 DEF LiveInv
<1>7. QED
  BY <1>3, <1>4, <1>5, <1>6 DEF ImprovementInv

LEMMA PromoteFileKeeps ==
  ASSUME ImprovementInv, PromoteFile
  PROVE  ImprovementInv'
<1> DEFINE p == command.id
<1>1. PICK f \in command.left :
        /\ proposal[p].work[f] = proposal[p].after[f]
        /\ release' = [release EXCEPT ![p].before[f] = production[f],
                                      ![p].source[f] = proposal[p].work[f]]
        /\ production' = [production EXCEPT ![f] = proposal[p].work[f]]
        /\ command' = [command EXCEPT !.left = @ \ {f}, !.wrote = TRUE]
  BY DEF PromoteFile
<1>2. command.name = "promote" /\ UNCHANGED <<proposal, current, report, edits, gated, cutShort>>
  BY DEF PromoteFile
<1>3. command \in Commands
  BY <1>2, CommandFields DEF ImprovementInv
<1>4. p \in Proposals /\ Scope[p] \subseteq Sources /\ command.left \subseteq Scope[p]
  BY <1>2, <1>3, ScopeFiles DEF Commands, ImprovementInv, CommandInv
<1>5. /\ release \in [Proposals -> ReleaseTypes] /\ production \in Versions
      /\ proposal[p] \in ProposalTypes
  BY <1>4 DEF ImprovementInv, ImprovementTypes
<1>6. /\ f \in Sources /\ f \in Scope[p]
      /\ production[f] \in Nat /\ proposal[p].work[f] \in Nat
  BY <1>4, <1>5 DEF ProposalTypes, Versions
<1>7. /\ production' \in Versions /\ production'[f] = proposal[p].work[f]
      /\ \A g \in Sources : g # f => production'[g] = production[g]
  BY <1>1, <1>5, <1>6 DEF Versions
<1>8. /\ command' \in Commands /\ command'.name = "promote" /\ command'.id = p
      /\ command'.left = command.left \ {f} /\ command'.wrote = TRUE
  BY <1>1, <1>2, <1>3 DEF Commands
<1>9. /\ release' \in [Proposals -> ReleaseTypes] /\ release'[p].state = release[p].state
      /\ release'[p].before[f] = production[f] /\ release'[p].source[f] = proposal[p].work[f]
      /\ \A g \in Sources : g # f => /\ release'[p].before[g] = release[p].before[g]
                                    /\ release'[p].source[g] = release[p].source[g]
      /\ \A q \in Proposals : q # p => release'[q] = release[q]
  <2> DEFINE old == production[f]
             new == proposal[p].work[f]
             before == [release[p].before EXCEPT ![f] = old]
             source == [release[p].source EXCEPT ![f] = new]
             record == [release[p] EXCEPT !.before = before, !.source = source]
  <2>1. release[p] \in ReleaseTypes /\ release[p].before \in Versions /\ release[p].source \in Versions
    BY <1>4, <1>5 DEF ReleaseTypes
  <2>2. release' = [release EXCEPT ![p] = record]
    BY <1>1, <1>4, <1>5, <2>1 DEF ReleaseTypes
  <2>3. old \in Nat /\ new \in Nat
    BY <1>6
  <2> HIDE DEF old, new, p
  <2>4. /\ before \in Versions /\ before[f] = old
        /\ \A g \in Sources : g # f => before[g] = release[p].before[g]
        /\ source \in Versions /\ source[f] = new
        /\ \A g \in Sources : g # f => source[g] = release[p].source[g]
    BY <1>6, <2>1, <2>3 DEF Versions
  <2> HIDE DEF before, source
  <2>5. /\ record \in ReleaseTypes /\ record.state = release[p].state
        /\ record.before = before /\ record.source = source
    BY ONLY <2>1, <2>4 DEF ReleaseTypes
  <2> HIDE DEF record
  <2>6. release' \in [Proposals -> ReleaseTypes] /\ release'[p] = record
        /\ \A q \in Proposals : q # p => release'[q] = release[q]
    BY ONLY <2>2, <2>5, <1>4, <1>5
  <2>7. QED
    BY <2>4, <2>5, <2>6 DEF old, new
<1>10. p' = p
  BY <1>8
<1>11. ImprovementTypes'
  BY <1>2, <1>7, <1>8, <1>9 DEF ImprovementInv, ImprovementTypes
<1>12. release[p].state # "complete"
  BY <1>1, <1>2 DEF ImprovementInv, CommandInv
<1>13. SeenInv'
  <2>1. Seen(f, production[f])
    BY <1>6 DEF ImprovementInv, SeenInv, ProductionIsGated, Seen
  <2>2. \A g \in Scope[p] :
          /\ Seen(g, proposal[p].after[g])
          /\ g \notin command.left => Seen(g, release[p].before[g])
    BY <1>2 DEF ImprovementInv, SeenInv, PromotedWereSeen
  <2> HIDE DEF p
  <2>3. ProductionIsGated'
    <3>1. Seen(f, production'[f])
      BY <1>1, <1>6, <1>7, <2>2
    <3>2. \A g \in Sources : g # f => Seen(g, production'[g])
      BY <1>7 DEF ImprovementInv, SeenInv, ProductionIsGated, Seen
    <3>3. QED
      BY <1>2, <3>1, <3>2 DEF ProductionIsGated, Seen
  <2>4. PassedWereSeen'
    BY <1>2 DEF ImprovementInv, SeenInv, PassedWereSeen, Seen
  <2>5. ReleasesWereSeen'
    <3>1. \A q \in Proposals : release'[q].state = "complete" =>
            /\ release[q].state = "complete" /\ release'[q] = release[q]
      BY <1>4, <1>9, <1>12
    <3>2. QED
      BY <1>2, <3>1 DEF ImprovementInv, SeenInv, ReleasesWereSeen, Seen
  <2>6. PromotedWereSeen'
    <3>1. ASSUME NEW g \in Scope[p], g \notin command'.left
          PROVE  Seen(g, release'[p].before[g])
      <4>1. CASE g = f
        BY <1>9, <2>1, <4>1
      <4>2. CASE g # f
        BY <1>4, <1>8, <1>9, <2>2, <3>1, <4>2
      <4>3. QED
        BY <4>1, <4>2
    <3>2. QED
      BY <1>2, <1>8, <2>2, <3>1 DEF PromotedWereSeen, Seen
  <2>7. QED
    BY <2>3, <2>4, <2>5, <2>6 DEF SeenInv
<1>14. CommandInv'
  <2>1. \A q \in Proposals : release'[q].state = release[q].state
    BY <1>9
  <2>2. QED
    BY <1>2, <1>4, <1>8, <1>12, <2>1 DEF ImprovementInv, ImprovementTypes, CommandInv
<1>15. LiveInv'
  BY <1>2, <1>4, <1>7, <1>8, <1>9 DEF ImprovementInv, LiveInv
<1>16. QED
  BY <1>11, <1>13, <1>14, <1>15 DEF ImprovementInv

LEMMA WriteReleaseKeeps ==
  ASSUME ImprovementInv, WriteRelease
  PROVE  ImprovementInv'
<1> DEFINE p == command.id
<1>1. /\ command.name = "promote" /\ command.left = {}
      /\ UNCHANGED <<production, report, edits, gated, cutShort>>
  BY DEF WriteRelease
<1>2. command \in Commands /\ p \in Proposals /\ Scope[p] \subseteq Sources
  BY <1>1, CommandFields, ScopeFiles DEF ImprovementInv, Commands
<1>3. /\ release \in [Proposals -> ReleaseTypes] /\ proposal \in [Proposals -> ProposalTypes]
  BY DEF ImprovementInv, ImprovementTypes
<1>4. CASE /\ release[p].state = "partial"
           /\ release' = [release EXCEPT ![p].state = "complete"]
           /\ UNCHANGED <<current, proposal, command>>
  <2>1. /\ release' \in [Proposals -> ReleaseTypes] /\ release'[p].state = "complete"
        /\ \A q \in Proposals : /\ release'[q].before = release[q].before
                                /\ release'[q].source = release[q].source
                                /\ q # p => release'[q] = release[q]
    BY ONLY <1>2, <1>3, <1>4 DEF ReleaseTypes
  <2>2. ImprovementTypes'
    BY <1>1, <1>4, <2>1 DEF ImprovementInv, ImprovementTypes
  <2>3. SeenInv'
    <3>1. \A f \in Scope[p] : Seen(f, release[p].before[f])
      BY <1>1 DEF ImprovementInv, SeenInv, PromotedWereSeen
    <3>2. ReleasesWereSeen'
      BY <1>1, <1>2, <1>4, <2>1, <3>1 DEF ImprovementInv, SeenInv, ReleasesWereSeen, Seen
    <3>3. ProductionIsGated' /\ PassedWereSeen' /\ PromotedWereSeen'
      BY <1>1, <1>2, <1>4, <2>1 DEF ImprovementInv, SeenInv, Seen, ProductionIsGated,
         PassedWereSeen, PromotedWereSeen
    <3>4. QED
      BY <3>2, <3>3 DEF SeenInv
  <2>4. CommandInv'
    BY <1>1, <1>4, <2>1 DEF ImprovementInv, ImprovementTypes, CommandInv
  <2>5. ~cutShort /\ ~command.wrote => Live'
    BY <1>1, <1>4, <2>1 DEF ImprovementInv, ImprovementTypes, LiveInv, Live
  <2>6. LiveInv'
    BY <1>1, <1>2, <1>4, <2>1, <2>5 DEF ImprovementInv, LiveInv
  <2>7. QED
    BY <2>2, <2>3, <2>4, <2>6 DEF ImprovementInv
<1>5. CASE /\ release[p].state = "complete"
           /\ current' = [kind |-> "release", id |-> p]
           /\ UNCHANGED <<release, proposal, command>>
  <2>1. ImprovementTypes'
    BY <1>1, <1>2, <1>5 DEF ImprovementInv, ImprovementTypes
  <2>2. SeenInv'
    BY <1>1, <1>5 DEF ImprovementInv, SeenInv, Seen, ProductionIsGated, PassedWereSeen,
     ReleasesWereSeen, PromotedWereSeen
  <2>3. CommandInv'
    BY <1>1, <1>5 DEF ImprovementInv, CommandInv
  <2>4. ~cutShort => \A f \in Scope[p] : production[f] = release[p].source[f]
    BY <1>1 DEF ImprovementInv, LiveInv
  <2>5. LiveInv'
    BY <1>1, <1>5, <2>4 DEF ImprovementInv, LiveInv, Live
  <2>6. QED
    BY <2>1, <2>2, <2>3, <2>5 DEF ImprovementInv
<1>6. CASE /\ current = [kind |-> "release", id |-> p]
           /\ SetStatus(p, "promoted")
           /\ command' = NoCommand
           /\ UNCHANGED <<release, current>>
  <2>1. proposal' = [proposal EXCEPT ![p].status = "promoted"]
    BY <1>6 DEF SetStatus
  <2>2. /\ proposal' \in [Proposals -> ProposalTypes] /\ proposal'[p].status = "promoted"
        /\ \A q \in Proposals : q # p => proposal'[q] = proposal[q]
    BY ONLY <1>2, <1>3, <2>1 DEF ProposalTypes, ProposalStatuses
  <2>3. NoCommand.name = "none" /\ NoCommand.wrote = FALSE
    BY DEF NoCommand
  <2>4. ImprovementTypes'
    BY <1>1, <1>6, <2>2 DEF ImprovementInv, ImprovementTypes
  <2>5. SeenInv'
    BY <1>1, <1>6, <2>2, <2>3 DEF ImprovementInv, SeenInv, Seen, ProductionIsGated, PassedWereSeen,
     ReleasesWereSeen, PromotedWereSeen
  <2>6. CommandInv'
    BY <1>1, <1>6, <2>3 DEF ImprovementInv, CommandInv
  <2>7. ~cutShort => Live'
    <3>1. ~cutShort => \A f \in Scope[p] : production[f] = release[p].source[f]
      BY <1>1 DEF ImprovementInv, LiveInv
    <3>2. current'.kind = "release" /\ current'.id = p
      BY <1>6
    <3>3. QED
      BY <1>1, <1>6, <3>1, <3>2 DEF Live
  <2>8. LiveInv'
    BY <1>1, <1>6, <2>3, <2>7 DEF LiveInv
  <2>9. QED
    BY <2>4, <2>5, <2>6, <2>8 DEF ImprovementInv
<1>7. QED
  BY <1>4, <1>5, <1>6 DEF WriteRelease

LEMMA RollBackFileKeeps ==
  ASSUME ImprovementInv, RollBackFile
  PROVE  ImprovementInv'
<1> DEFINE r == command.id
<1>1. PICK f \in command.left :
        /\ production' = [production EXCEPT ![f] = release[r].before[f]]
        /\ command' = [command EXCEPT !.left = @ \ {f}, !.wrote = TRUE]
  BY DEF RollBackFile
<1>2. /\ command.name = "rollback"
      /\ UNCHANGED <<proposal, release, current, report, edits, gated, cutShort>>
  BY DEF RollBackFile
<1>3. command \in Commands /\ r \in Proposals /\ Scope[r] \subseteq Sources
  BY <1>2, CommandFields, ScopeFiles DEF ImprovementInv, Commands
<1>4. /\ release[r].state = "complete" /\ release[r] \in ReleaseTypes
      /\ command.left \subseteq Scope[r] /\ production \in Versions
  BY <1>2, <1>3 DEF ImprovementInv, ImprovementTypes, CommandInv
<1>5. f \in Sources /\ f \in Scope[r] /\ release[r].before[f] \in Nat
  BY <1>3, <1>4 DEF ReleaseTypes, Versions
<1>6. /\ production' \in Versions /\ production'[f] = release[r].before[f]
      /\ \A g \in Sources : g # f => production'[g] = production[g]
  BY <1>1, <1>4, <1>5 DEF Versions
<1>7. /\ command' \in Commands /\ command'.name = "rollback" /\ command'.id = r
      /\ command'.left = command.left \ {f} /\ command'.wrote = TRUE
  BY <1>1, <1>2, <1>3 DEF Commands
<1>8. ImprovementTypes'
  BY <1>2, <1>6, <1>7 DEF ImprovementInv, ImprovementTypes
<1>9. SeenInv'
  <2>1. Seen(f, release[r].before[f])
    BY <1>3, <1>4, <1>5 DEF ImprovementInv, SeenInv, ReleasesWereSeen
  <2>2. ProductionIsGated'
    BY <1>2, <1>6, <2>1 DEF ImprovementInv, SeenInv, ProductionIsGated, Seen, PassedWereSeen,
     ReleasesWereSeen, PromotedWereSeen
  <2>3. QED
    BY <1>2, <1>7, <2>2 DEF ImprovementInv, SeenInv, Seen, ProductionIsGated, PassedWereSeen,
     ReleasesWereSeen, PromotedWereSeen
<1>10. CommandInv'
  BY <1>2, <1>4, <1>7 DEF ImprovementInv, CommandInv
<1>11. LiveInv'
  BY <1>2, <1>3, <1>6, <1>7 DEF ImprovementInv, LiveInv
<1>12. QED
  BY <1>8, <1>9, <1>10, <1>11 DEF ImprovementInv

LEMMA WriteRollbackKeeps ==
  ASSUME ImprovementInv, WriteRollback
  PROVE  ImprovementInv'
<1> DEFINE r == command.id
<1>1. /\ command.name = "rollback" /\ command.left = {}
      /\ current' = [kind |-> "rollback", id |-> r]
      /\ command' = NoCommand
      /\ UNCHANGED <<production, proposal, release, report, edits, gated, cutShort>>
  BY DEF WriteRollback
<1>2. r \in Proposals
  BY <1>1, CommandFields DEF ImprovementInv, Commands
<1>3. NoCommand.name = "none" /\ NoCommand.wrote = FALSE
  BY DEF NoCommand
<1>4. current'.kind = "rollback" /\ current'.id = r
  BY <1>1
<1>5. ImprovementTypes'
  BY <1>1, <1>2 DEF ImprovementInv, ImprovementTypes
<1>6. SeenInv'
  BY <1>1, <1>3 DEF ImprovementInv, SeenInv, Seen, ProductionIsGated, PassedWereSeen,
     ReleasesWereSeen, PromotedWereSeen
<1>7. CommandInv'
  BY <1>1, <1>3, <1>4 DEF ImprovementInv, CommandInv
<1>8. ~cutShort => \A f \in Scope[r] : production[f] = release[r].before[f]
  BY <1>1 DEF ImprovementInv, LiveInv
<1>9. LiveInv'
  BY <1>1, <1>3, <1>4, <1>8 DEF LiveInv, Live
<1>10. QED
  BY <1>5, <1>6, <1>7, <1>9 DEF ImprovementInv

\* A command that ends early: production is as current.json tells, unless it is cut short.
LEMMA CommandStopsKeeps ==
  ASSUME ImprovementInv, PromotionRaises \/ CommandDies
  PROVE  ImprovementInv'
<1>1. /\ command' = NoCommand
      /\ UNCHANGED <<production, proposal, release, current, report, edits, gated>>
      /\ command.name # "none"
      /\ \/ cutShort' = (cutShort \/ command.wrote)
         \/ cutShort' = (cutShort \/ command.wrote \/ command.left = {})
  BY CommandFields DEF PromotionRaises, CommandDies, NoCommandRuns, ImprovementInv
<1>2. NoCommand.name = "none" /\ NoCommand.wrote = FALSE
  BY DEF NoCommand
<1>3. cutShort \in BOOLEAN /\ command.wrote \in BOOLEAN
  BY <1>1, CommandFields DEF ImprovementInv, ImprovementTypes, Commands
<1>4. cutShort' \in BOOLEAN /\ (~cutShort' => ~cutShort /\ ~command.wrote)
  BY <1>1, <1>3
<1>5. ImprovementTypes'
  BY <1>1, <1>4 DEF ImprovementInv, ImprovementTypes
<1>6. SeenInv'
  BY <1>1, <1>2 DEF ImprovementInv, SeenInv, Seen, ProductionIsGated, PassedWereSeen,
     ReleasesWereSeen, PromotedWereSeen
<1>7. CommandInv'
  BY <1>1, <1>2 DEF ImprovementInv, CommandInv
<1>8. LiveInv'
  BY <1>1, <1>2, <1>4 DEF ImprovementInv, LiveInv, Live
<1>9. QED
  BY <1>5, <1>6, <1>7, <1>8 DEF ImprovementInv

\* A production file that is cut short is what the exception of ProductionIsGated is about.
LEMMA CommandTearsKeeps ==
  ASSUME ImprovementInv, CommandTears
  PROVE  ImprovementInv'
<1>1. PICK f \in command.left :
        /\ production' = [production EXCEPT ![f] = Torn]
        /\ command' = NoCommand /\ cutShort' = TRUE
        /\ UNCHANGED <<proposal, release, current, report, edits, gated>>
  BY DEF CommandTears
<1>2. command \in Commands /\ command.name \in {"promote", "rollback"}
  BY CommandFields DEF CommandTears, NoCommandRuns, ImprovementInv
<1>3. f \in Sources
  BY <1>1, <1>2 DEF Commands
<1>4. production \in Versions /\ Torn \in Nat
  BY ImprovementAssumption DEF ImprovementInv, ImprovementTypes, Torn
<1>5. /\ production' \in Versions /\ production'[f] = Torn
      /\ \A g \in Sources : g # f => production'[g] = production[g]
  BY <1>1, <1>3, <1>4 DEF Versions
<1>6. NoCommand.name = "none" /\ NoCommand.wrote = FALSE
  BY DEF NoCommand
<1>7. ImprovementTypes'
  BY <1>1, <1>5 DEF ImprovementInv, ImprovementTypes
<1>8. ProductionIsGated'
  BY <1>1, <1>5 DEF ImprovementInv, SeenInv, ProductionIsGated
<1>9. SeenInv'
  BY <1>1, <1>6, <1>8 DEF ImprovementInv, SeenInv, Seen, PassedWereSeen, ReleasesWereSeen,
     PromotedWereSeen
<1>10. CommandInv' /\ LiveInv'
  BY <1>1, <1>6 DEF ImprovementInv, CommandInv, LiveInv
<1>11. QED
  BY <1>7, <1>9, <1>10 DEF ImprovementInv

LEMMA ImprovementKept == ImprovementInv /\ [ImprovementNext]_improvementVars => ImprovementInv'
<1>1. SUFFICES ASSUME ImprovementInv, [ImprovementNext]_improvementVars PROVE ImprovementInv'
  OBVIOUS
<1>2. CASE UNCHANGED improvementVars
  <2>1. UNCHANGED <<production, proposal, release, current, command, edits, gated, cutShort>>
    BY <1>2 DEF improvementVars
  <2>2. ImprovementTypes'
    BY <1>1, <2>1 DEF ImprovementInv, ImprovementTypes
  <2>3. SeenInv'
    BY <1>1, <2>1 DEF ImprovementInv, SeenInv, Seen, ProductionIsGated, PassedWereSeen,
         ReleasesWereSeen, PromotedWereSeen
  <2>4. CommandInv' /\ LiveInv'
    BY <1>1, <2>1 DEF ImprovementInv, CommandInv, LiveInv, Live
  <2>5. QED
    BY <2>2, <2>3, <2>4 DEF ImprovementInv
<1>3. ASSUME NEW p \in Proposals, ProposalStep(p) PROVE ImprovementInv'
  BY <1>1, <1>3, ProposalKeeps
<1>4. ASSUME NEW p \in Proposals, BeginPromotion(p) \/ BeginRollback(p) PROVE ImprovementInv'
  BY <1>1, <1>4, BeginPromotionKeeps, BeginRollbackKeeps
<1>5. QED
  BY <1>1, <1>2, <1>3, <1>4, PromoteFileKeeps, WriteReleaseKeeps, RollBackFileKeeps,
     WriteRollbackKeeps, CommandStopsKeeps, CommandTearsKeeps DEF ImprovementNext, ProposalStep

\* The manager's invariant: what passed, was archived or runs was seen by a gate, and a
\* command that was not cut short has replaced just the files it no longer lists.
THEOREM ImprovementInvariance == ImprovementSpec => []ImprovementInv
<1>1. QED
  BY ImprovementStarts, ImprovementKept, PTL DEF ImprovementSpec

\* For any proposals, sources and scopes: what runs in production was gated file by file, or
\* is what a copy that was cut short left, and current.json names what it is unless a command
\* was cut short.
THEOREM ProductionAccounted == ImprovementSpec => []ProductionIsAccounted
<1>1. ImprovementInv => ProductionIsAccounted
  <2>1. ImprovementInv => ProductionIsGated
    BY DEF ImprovementInv, SeenInv
  <2>2. ImprovementInv => CurrentIsLive
    BY DEF ImprovementInv, LiveInv, Live, CurrentIsLive, NoCommandRuns, NoCommand
  <2>3. QED
    BY <2>1, <2>2 DEF ProductionIsAccounted
<1>2. QED
  BY <1>1, ImprovementInvariance, PTL

(***************************************************************************)
(* A BenchCAD record                                                       *)
(***************************************************************************)

BenchTurns == {"builder", "action", "decision"}
Candidates == [by : Nat, version : Nat, tainted : SUBSET BenchTurns]
BenchAttempts == [candidate : Candidates, ran : BOOLEAN]
BenchResults ==
  [status : {"none", "torn", "scored", "score_failed", "invalid_information_access_audit",
             "invalid_gt_access_audit", "no_submission"},
   by : Nat, accesses : SUBSET Accesses]
BenchJobs ==
  [present : BOOLEAN, candidate : Candidates, attempts : [Iterations -> BenchAttempts],
   made : SUBSET Iterations, submitted : BenchAttempts, result : BenchResults]
ProcessPlaces ==
  {"none", "opening", "perceiving", "replaying", "acting", "executing", "deciding", "scoring",
   "writing", "rewriting", "ended", "failed"}
CampaignProcesses ==
  [id : Nat, at : ProcessPlaces, iteration : Nat, leakage : BOOLEAN, passed : BOOLEAN,
   submitted : BOOLEAN, saw : SUBSET BenchTurns, accesses : SUBSET Accesses, edits : Nat]

BenchTypes ==
  /\ benchMode \in {"shared", "specialist"} /\ auditor \in {"early", "present"}
  /\ supervisor \in [call : Nat, launch : Nat,
                     at : {"none", "archiving", "launching", "watching", "ended"}]
  /\ process \in CampaignProcesses /\ job \in BenchJobs /\ lost \in BOOLEAN

\* Nothing lies there that an earlier process has left, but for what it has decided.
NothingLeft ==
  job.result.status = "none" => job.candidate = NoCandidate /\ job.submitted = NoAttempt

\* A candidate that the process' agent wrote, from what its turns had seen.
Own(candidate) == candidate.by = process.id /\ candidate.tainted \subseteq process.saw

\* The supervisor clears the job before it launches a process, and none runs meanwhile.
ClearInv ==
  /\ supervisor.at \in {"archiving", "launching"} => ~Alive
  /\ supervisor.at = "launching" \/ process.at = "opening" => NothingLeft
  /\ ~job.present => job = EmptyJob
  /\ process.at \notin {"none", "opening", "ended", "failed"} => job.present
  /\ job.result.status = "none" => job.result = NoBenchResult

\* The process: whatever it has made is its own, and its leakage tells of all that it must
\* not have seen.
OwnInv ==
  /\ process.at \in {"opening", "replaying", "rewriting"} => ~process.leakage
  /\ process.at = "perceiving" => NothingLeft
  /\ process.at \in {"perceiving", "acting", "executing", "deciding", "scoring"} =>
       job.result.status = "none"
  /\ process.at \in {"acting", "executing", "deciding", "scoring", "writing"} =>
       /\ "action" \in process.saw => process.leakage /\ "shown" \in process.accesses
       /\ "decision" \in process.saw /\ benchMode = "specialist" => process.leakage
       /\ job.candidate = NoCandidate \/ Own(job.candidate)
  /\ process.at \in {"acting", "executing", "deciding"} =>
       process.iteration \in Iterations /\ job.submitted = NoAttempt
  /\ process.at = "executing" => job.attempts[process.iteration].candidate = job.candidate
  /\ process.at = "deciding" /\ job.attempts[process.iteration].ran =>
       Own(job.attempts[process.iteration].candidate)
  /\ process.at \in {"scoring", "writing"} =>
       IF process.submitted THEN Own(job.submitted.candidate) ELSE job.submitted = NoAttempt

\* A score is honest while no supervisor is called beside a process of an earlier one.
Honest == ScoredIsClean /\ NothingIsInherited /\ SubmittedWasRun

\* The result: of the process that submitted, with every access of the turns that could
\* have told its agent.
ResultInv ==
  /\ job.result.status # "none" =>
       /\ job.submitted # NoAttempt => job.submitted.candidate.by = job.result.by
       /\ "action" \in job.submitted.candidate.tainted => "shown" \in job.result.accesses
  /\ job.result.status = "invalid_gt_access_audit" => benchMode = "shared"
  /\ process.at = "replaying" => job.result.status = "invalid_gt_access_audit"
  /\ process.at = "rewriting" =>
       /\ job.result.status = "torn" /\ benchMode = "shared"
       /\ "shown" \notin job.result.accesses \/ lost
       /\ job.submitted.candidate # NoCandidate
  /\ process.at = "writing" => job.result.status = "torn" /\ job.result.by = process.id
  /\ Honest

BenchInv == BenchTypes /\ ClearInv /\ OwnInv /\ ResultInv

LEMMA EmptyTypes ==
  /\ NoCandidate \in Candidates /\ NoAttempt \in BenchAttempts /\ NoBenchResult \in BenchResults
  /\ EmptyJob \in BenchJobs
  /\ NoAttempt.candidate = NoCandidate /\ NoCandidate.tainted = {}
  /\ EmptyJob.result = NoBenchResult /\ NoBenchResult.status = "none"
  /\ EmptyJob.candidate = NoCandidate /\ EmptyJob.submitted = NoAttempt
<1>1. NoCandidate \in Candidates /\ NoCandidate.tainted = {}
  BY DEF NoCandidate, Candidates
<1>2. NoAttempt \in BenchAttempts /\ NoAttempt.candidate = NoCandidate
  BY <1>1 DEF NoAttempt, BenchAttempts
<1>3. NoBenchResult \in BenchResults /\ NoBenchResult.status = "none"
  BY DEF NoBenchResult, BenchResults
<1>4. [i \in Iterations |-> NoAttempt] \in [Iterations -> BenchAttempts]
  BY <1>2
<1>5. QED
  BY <1>1, <1>2, <1>3, <1>4 DEF EmptyJob, BenchJobs

LEMMA ProcessTypesHold ==
  ASSUME NEW id \in Nat, NEW place \in ProcessPlaces
  PROVE  /\ Process(id, place) \in CampaignProcesses
         /\ Process(id, place).id = id /\ Process(id, place).at = place
         /\ Process(id, place).saw = {} /\ Process(id, place).accesses = {}
         /\ Process(id, place).leakage = FALSE /\ Process(id, place).submitted = FALSE
BY DEF Process, CampaignProcesses

\* Going on, or ending.
LEMMA Goes ==
  ASSUME process \in CampaignProcesses, NEW label \in ProcessPlaces, Go(label)
  PROVE  /\ process' \in CampaignProcesses /\ process'.at = label /\ process'.id = process.id
         /\ label \notin {"ended", "failed"} =>
              /\ process'.iteration = process.iteration /\ process'.leakage = process.leakage
              /\ process'.submitted = process.submitted /\ process'.saw = process.saw
              /\ process'.accesses = process.accesses /\ process'.edits = process.edits
              /\ process'.passed = process.passed
<1>1. CASE label \in {"ended", "failed"}
  <2>1. process' = Process(process.id, label) /\ process.id \in Nat
    BY <1>1 DEF Go, CampaignProcesses
  <2>2. QED
    BY <1>1, <2>1, ProcessTypesHold
<1>2. CASE label \notin {"ended", "failed"}
  <2>1. process' = [process EXCEPT !.at = label]
    BY <1>2 DEF Go
  <2>2. QED
    BY ONLY <2>1, process \in CampaignProcesses, label \in ProcessPlaces DEF CampaignProcesses
<1>3. QED
  BY <1>1, <1>2

LEMMA BenchStarts == BenchInit => BenchInv
<1>1. SUFFICES ASSUME BenchInit PROVE BenchInv
  OBVIOUS
<1>2. process = Process(0, "none") /\ job = EmptyJob
  BY <1>1 DEF BenchInit
<1>3. process \in CampaignProcesses /\ process.at = "none"
  <2>1. "none" \in ProcessPlaces
    BY DEF ProcessPlaces
  <2>2. QED
    BY <1>2, <2>1, ProcessTypesHold
<1>4. BenchTypes
  BY <1>1, <1>2, <1>3, EmptyTypes DEF BenchInit, BenchTypes
<1>5. ClearInv
  BY <1>1, <1>2, <1>3, EmptyTypes DEF BenchInit, ClearInv, Alive
<1>6. OwnInv
  BY <1>3 DEF OwnInv
<1>7. ResultInv
  BY <1>2, <1>3, EmptyTypes
  DEF ResultInv, Honest, ScoredIsClean, NothingIsInherited, SubmittedWasRun
<1>8. QED
  BY <1>4, <1>5, <1>6, <1>7 DEF BenchInv

-----------------------------------------------------------------------------
(* The supervisor *)

\* A process that is over makes nothing of what was said about its own work.
LEMMA Over ==
  ASSUME BenchInv, process'.at \in {"none", "ended", "failed"}, UNCHANGED <<benchMode, job, lost>>
  PROVE  OwnInv' /\ ResultInv'
BY DEF BenchInv, OwnInv, ResultInv, Honest, ScoredIsClean, NothingIsInherited,
     SubmittedWasRun

LEMMA SupervisorMoves ==
  ASSUME BenchInv, UNCHANGED <<benchMode, process, job, lost>>,
         auditor' \in {"early", "present"},
         supervisor' \in [call : Nat, launch : Nat,
                          at : {"none", "archiving", "launching", "watching", "ended"}],
         supervisor'.at \in {"archiving", "launching"} => ~Alive,
         supervisor'.at = "launching" => supervisor.at = "launching"
  PROVE  BenchInv'
<1>1. BenchTypes'
  BY DEF BenchInv, BenchTypes
<1>2. ClearInv'
  BY DEF BenchInv, ClearInv, Alive, NothingLeft
<1>3. OwnInv'
  BY DEF BenchInv, OwnInv, NothingLeft, Own
<1>4. ResultInv'
  BY DEF BenchInv, ResultInv, Honest, ScoredIsClean, NothingIsInherited, SubmittedWasRun
<1>5. QED
  BY <1>1, <1>2, <1>3, <1>4 DEF BenchInv

LEMMA SupervisorKeeps ==
  ASSUME BenchInv, \/ CallSupervisor \/ ArchiveIncomplete \/ LaunchCampaign \/ SeeChildEnd
                   \/ ProgressRaises \/ SupervisorDies \/ AuditorIsCorrected,
         ~overlap'
  PROVE  BenchInv'
<1> DEFINE SupervisorCalls == [call : Nat, launch : Nat,
                     at : {"none", "archiving", "launching", "watching", "ended"}]
<1>1. supervisor \in SupervisorCalls /\ process \in CampaignProcesses /\ job \in BenchJobs
  BY DEF BenchInv, BenchTypes
<1>2. CASE CallSupervisor
  <2>1. /\ supervisor' = [call |-> supervisor.call + 1, at |-> "archiving", launch |-> 0]
        /\ UNCHANGED <<benchMode, auditor, process, job, lost>> /\ ~Alive
    BY <1>1, <1>2 DEF CallSupervisor, jobVars
  <2>2. supervisor' \in SupervisorCalls /\ supervisor'.at = "archiving"
    BY <1>1, <2>1
  <2>3. QED
    BY <2>1, <2>2, SupervisorMoves DEF BenchInv, BenchTypes
<1>3. CASE ArchiveIncomplete
  <2>1. /\ supervisor.at = "archiving"
        /\ supervisor' = [supervisor EXCEPT !.at = "launching"]
        /\ job' = IF job.present /\ job.result = NoBenchResult THEN EmptyJob ELSE job
        /\ UNCHANGED <<benchMode, auditor, process, lost>>
    BY <1>3 DEF ArchiveIncomplete
  <2>2. supervisor' \in SupervisorCalls /\ supervisor'.at = "launching"
    BY <1>1, <2>1
  <2>3. ~Alive /\ process.at \in {"none", "ended", "failed"}
    BY <2>1 DEF BenchInv, ClearInv, Alive
  <2>4. BenchTypes'
    BY <2>1, <2>2, EmptyTypes DEF BenchInv, BenchTypes
  <2>5. NothingLeft'
    BY <2>1, EmptyTypes DEF BenchInv, ClearInv, NothingLeft
  <2>6. ClearInv'
    BY <2>1, <2>2, <2>3, <2>5, EmptyTypes DEF BenchInv, ClearInv, Alive
  <2>7. OwnInv'
    BY <2>1, <2>3 DEF OwnInv
  <2>8. ResultInv'
    <3>1. CASE job' = job
      BY <2>1, <2>3, <3>1, Over
    <3>2. CASE job' = EmptyJob
      BY <2>1, <2>3, <3>2, EmptyTypes
      DEF ResultInv, Honest, ScoredIsClean, NothingIsInherited, SubmittedWasRun
    <3>3. QED
      BY <2>1, <3>1, <3>2
  <2>9. QED
    BY <2>4, <2>6, <2>7, <2>8 DEF BenchInv
<1>4. CASE LaunchCampaign
  <2>1. /\ supervisor.at = "launching"
        /\ process' = Process(process.id + 1, "opening")
        /\ supervisor' = [supervisor EXCEPT !.at = "watching", !.launch = @ + 1]
        /\ UNCHANGED <<benchMode, auditor, job, lost>>
    BY <1>4 DEF LaunchCampaign, jobVars
  <2> DEFINE launch == supervisor.launch + 1
  <2>0. launch \in Nat /\ supervisor' = [supervisor EXCEPT !.at = "watching", !.launch = launch]
    BY <1>1, <2>1
  <2> HIDE DEF launch
  <2>2. supervisor' \in SupervisorCalls /\ supervisor'.at = "watching"
    BY <1>1, <2>0
  <2>3. process.id + 1 \in Nat
    BY <1>1 DEF CampaignProcesses
  <2>4. process' \in CampaignProcesses /\ process'.at = "opening" /\ ~process'.leakage
    <3>1. "opening" \in ProcessPlaces
      BY DEF ProcessPlaces
    <3>2. QED
      BY <2>1, <2>3, <3>1, ProcessTypesHold
  <2>5. BenchTypes'
    BY <2>1, <2>2, <2>4 DEF BenchInv, BenchTypes
  <2>6. NothingLeft'
    BY <2>1 DEF BenchInv, ClearInv, NothingLeft
  <2>7. ClearInv'
    BY <2>1, <2>2, <2>4, <2>6 DEF BenchInv, ClearInv
  <2>8. OwnInv'
    BY <2>4 DEF OwnInv
  <2>9. ResultInv'
    BY <2>1, <2>4 DEF BenchInv, ResultInv, Honest, ScoredIsClean, NothingIsInherited,
       SubmittedWasRun
  <2>10. QED
    BY <2>5, <2>7, <2>8, <2>9 DEF BenchInv
<1>5. CASE SeeChildEnd
  <2> DEFINE place == IF process.at = "ended" \/ supervisor.launch = Launches
                     THEN "ended" ELSE "archiving"
  <2>1. /\ supervisor' = [supervisor EXCEPT !.at = place]
        /\ UNCHANGED <<benchMode, auditor, process, job, lost>> /\ ~Alive
    BY <1>5 DEF SeeChildEnd, jobVars
  <2>2. place \in {"ended", "archiving"}
    OBVIOUS
  <2> HIDE DEF place
  <2>3. supervisor' \in SupervisorCalls /\ supervisor'.at \in {"ended", "archiving"}
    BY <1>1, <2>1, <2>2
  <2>4. QED
    BY <2>1, <2>3, SupervisorMoves DEF BenchInv, BenchTypes
<1>6. CASE ProgressRaises
  <2>1. /\ supervisor' = [supervisor EXCEPT !.at = "ended"]
        /\ UNCHANGED <<benchMode, auditor, job, lost>>
        /\ Go(IF Alive THEN "failed" ELSE process.at)
    BY <1>6 DEF ProgressRaises, jobVars
  <2> DEFINE label == IF Alive THEN "failed" ELSE process.at
  <2>2. label \in {"none", "ended", "failed"}
    BY <1>1 DEF Alive
  <2>3. label \in ProcessPlaces
    BY <2>2 DEF ProcessPlaces
  <2>4. Go(label)
    BY <2>1
  <2> HIDE DEF label
  <2>5. process' \in CampaignProcesses /\ process'.at = label
    BY <1>1, <2>3, <2>4, Goes
  <2>6. supervisor' \in SupervisorCalls /\ supervisor'.at = "ended"
    BY <1>1, <2>1
  <2>7. BenchTypes'
    BY <2>1, <2>5, <2>6 DEF BenchInv, BenchTypes
  <2>8. ClearInv'
    BY <2>1, <2>2, <2>5, <2>6 DEF BenchInv, ClearInv
  <2>9. OwnInv' /\ ResultInv'
    BY <2>1, <2>2, <2>5, Over
  <2>10. QED
    BY <2>7, <2>8, <2>9 DEF BenchInv
<1>7. CASE SupervisorDies
  <2>1. /\ supervisor' = [supervisor EXCEPT !.at = "ended"]
        /\ UNCHANGED <<benchMode, auditor, process, job, lost>>
    BY <1>7 DEF SupervisorDies, jobVars
  <2>2. supervisor' \in SupervisorCalls /\ supervisor'.at = "ended"
    BY <1>1, <2>1
  <2>3. QED
    BY <2>1, <2>2, SupervisorMoves DEF BenchInv, BenchTypes
<1>8. CASE AuditorIsCorrected
  <2>1. auditor' = "present" /\ UNCHANGED <<benchMode, supervisor, process, job, lost>>
    BY <1>8 DEF AuditorIsCorrected, jobVars
  <2>2. supervisor'.at \in {"archiving", "launching"} => ~Alive
    BY <2>1 DEF BenchInv, ClearInv
  <2>3. QED
    BY <1>1, <2>1, <2>2, SupervisorMoves
<1>9. QED
  BY <1>2, <1>3, <1>4, <1>5, <1>6, <1>7, <1>8

-----------------------------------------------------------------------------
(* The process *)

\* A process that is alive, and the supervisor's part of the invariant after its step.
LEMMA ProcessMoves ==
  ASSUME BenchInv, Alive, UNCHANGED <<benchMode, auditor, supervisor>>, lost' \in BOOLEAN,
         process' \in CampaignProcesses, job' \in BenchJobs,
         process'.at # "opening",
         job'.present,
         job'.result.status = "none" => job'.result = NoBenchResult
  PROVE  BenchTypes' /\ ClearInv'
<1>1. BenchTypes'
  BY DEF BenchInv, BenchTypes
<1>2. supervisor.at \notin {"archiving", "launching"}
  BY DEF BenchInv, ClearInv
<1>3. QED
  BY <1>1, <1>2 DEF ClearInv

LEMMA OpenRecordKeeps ==
  ASSUME BenchInv, OpenRecord
  PROVE  BenchInv'
<1> DEFINE label == CASE job.result.status = "none" -> "perceiving"
                      [] job.result.status = "torn" -> "failed"
                      [] job.result.status = "invalid_gt_access_audit" -> "replaying"
                      [] OTHER -> "ended"
<1>1. /\ process.at = "opening" /\ job' = [job EXCEPT !.present = TRUE] /\ Go(label)
      /\ UNCHANGED <<benchMode, auditor, supervisor, lost>>
  BY DEF OpenRecord, jobVars
<1>2. process \in CampaignProcesses /\ job \in BenchJobs /\ lost \in BOOLEAN
  BY DEF BenchInv, BenchTypes
<1>3. /\ label \in {"perceiving", "failed", "replaying", "ended"}
      /\ label = "perceiving" <=> job.result.status = "none"
      /\ label = "replaying" => job.result.status = "invalid_gt_access_audit"
  <2>1. CASE job.result.status = "none"
    BY <2>1
  <2>2. CASE job.result.status = "torn"
    BY <2>2
  <2>3. CASE job.result.status = "invalid_gt_access_audit"
    BY <2>3
  <2>4. CASE job.result.status \notin {"none", "torn", "invalid_gt_access_audit"}
    BY <2>4
  <2>5. QED
    BY <2>1, <2>2, <2>3, <2>4
<1>4. label \in ProcessPlaces
  BY <1>3 DEF ProcessPlaces
<1> HIDE DEF label
<1>5. /\ process' \in CampaignProcesses /\ process'.at = label /\ process'.id = process.id
      /\ label \notin {"ended", "failed"} => process'.leakage = process.leakage
  BY <1>1, <1>2, <1>4, Goes
<1>6. NothingLeft /\ ~process.leakage
  BY <1>1 DEF BenchInv, ClearInv, OwnInv
<1>8. /\ job' \in BenchJobs /\ job'.present
      /\ job'.result = job.result /\ job'.candidate = job.candidate
      /\ job'.submitted = job.submitted /\ job'.attempts = job.attempts
  BY ONLY <1>1, <1>2 DEF BenchJobs
<1>9. NothingLeft'
  BY <1>6, <1>8 DEF NothingLeft
<1>10. BenchTypes' /\ ClearInv'
  BY <1>1, <1>2, <1>3, <1>5, <1>8, ProcessMoves DEF Alive, BenchInv, ClearInv
<1>11. OwnInv'
  BY <1>3, <1>5, <1>6, <1>8, <1>9 DEF OwnInv
<1>12. ResultInv'
  BY <1>1, <1>3, <1>5, <1>8 DEF BenchInv, ResultInv, Honest, ScoredIsClean,
     NothingIsInherited, SubmittedWasRun
<1>13. QED
  BY <1>10, <1>11, <1>12 DEF BenchInv

LEMMA ReplayAuditKeeps ==
  ASSUME BenchInv, ReplayAudit
  PROVE  BenchInv'
<1>0. PICK gone \in BOOLEAN :
        LET clean == gone \/ \A access \in job.result.accesses : ~Flagged(access)
        IN  IF clean /\ job.submitted.candidate # NoCandidate
              THEN /\ job' = [job EXCEPT !.result.status = "torn"]
                   /\ lost' = (lost \/ gone)
                   /\ Go("rewriting")
              ELSE UNCHANGED jobVars /\ Go("ended")
  BY DEF ReplayAudit
<1> DEFINE clean == gone \/ \A access \in job.result.accesses : ~Flagged(access)
<1>1. /\ process.at = "replaying" /\ UNCHANGED <<benchMode, auditor, supervisor>>
      /\ \/ /\ clean /\ job.submitted.candidate # NoCandidate
            /\ job' = [job EXCEPT !.result.status = "torn"] /\ lost' = (lost \/ gone)
            /\ Go("rewriting")
         \/ UNCHANGED <<job, lost>> /\ Go("ended")
  BY <1>0 DEF ReplayAudit, jobVars
<1>2. process \in CampaignProcesses /\ job \in BenchJobs /\ lost \in BOOLEAN
  BY DEF BenchInv, BenchTypes
<1>3. Alive /\ job.present /\ job.result.status = "invalid_gt_access_audit" /\ benchMode = "shared"
  BY <1>1 DEF Alive, BenchInv, ClearInv, ResultInv
<1>4. CASE UNCHANGED <<job, lost>> /\ Go("ended")
  <2>1. process' \in CampaignProcesses /\ process'.at = "ended"
    <3>1. "ended" \in ProcessPlaces
      BY DEF ProcessPlaces
    <3>2. QED
      BY <1>2, <1>4, <3>1, Goes
  <2>2. QED
    BY <1>1, <1>2, <1>3, <1>4, <2>1, Over, ProcessMoves DEF BenchInv, ClearInv
<1>5. CASE /\ clean /\ job.submitted.candidate # NoCandidate
           /\ job' = [job EXCEPT !.result.status = "torn"] /\ lost' = (lost \/ gone)
           /\ Go("rewriting")
  <2>1. process' \in CampaignProcesses /\ process'.at = "rewriting" /\ ~process'.leakage
    <3>1. "rewriting" \in ProcessPlaces
      BY DEF ProcessPlaces
    <3>2. ~process.leakage
      BY <1>1 DEF BenchInv, OwnInv
    <3>3. QED
      BY <1>2, <1>5, <3>1, <3>2, Goes
  <2> DEFINE result == [job.result EXCEPT !.status = "torn"]
  <2>2. job.result \in BenchResults /\ job' = [job EXCEPT !.result = result]
    BY <1>2, <1>5 DEF BenchJobs
  <2>3. /\ result \in BenchResults /\ result.status = "torn" /\ result.by = job.result.by
        /\ result.accesses = job.result.accesses
    BY ONLY <2>2 DEF BenchResults
  <2> HIDE DEF result
  <2>4. /\ job' \in BenchJobs /\ job'.result = result /\ job'.present = job.present
        /\ job'.submitted = job.submitted /\ job'.attempts = job.attempts
    BY ONLY <1>2, <2>2, <2>3 DEF BenchJobs
  <2>5. lost' \in BOOLEAN /\ ("shown" \notin job.result.accesses \/ lost')
    <3>1. gone \/ "shown" \notin job.result.accesses
      BY <1>5 DEF Flagged
    <3>2. QED
      BY <1>2, <1>5, <3>1
  <2>6. BenchTypes' /\ ClearInv'
    BY <1>1, <1>2, <1>3, <2>1, <2>3, <2>4, <2>5, ProcessMoves
  <2>7. OwnInv'
    BY <2>1 DEF OwnInv
  <2>8. ResultInv'
    BY <1>1, <1>3, <1>5, <2>1, <2>3, <2>4, <2>5 DEF BenchInv, ResultInv, Honest,
       ScoredIsClean, NothingIsInherited, SubmittedWasRun
  <2>9. QED
    BY <2>6, <2>7, <2>8 DEF BenchInv
<1>6. QED
  BY <1>1, <1>4, <1>5

LEMMA PerceiveKeeps ==
  ASSUME BenchInv, Perceive
  PROVE  BenchInv'
<1>1. /\ process.at = "perceiving" /\ UNCHANGED <<benchMode, auditor, supervisor, job, lost>>
  BY DEF Perceive, jobVars
<1>2. process \in CampaignProcesses /\ job \in BenchJobs /\ lost \in BOOLEAN
  BY DEF BenchInv, BenchTypes
<1>3. /\ Alive /\ job.present /\ NothingLeft
      /\ job.result.status = "none"
  BY <1>1 DEF Alive, BenchInv, ClearInv, OwnInv
<1>4. CASE Go("failed")
  <2>1. process' \in CampaignProcesses /\ process'.at = "failed"
    <3>1. "failed" \in ProcessPlaces
      BY DEF ProcessPlaces
    <3>2. QED
      BY <1>2, <1>4, <3>1, Goes
  <2>2. QED
    BY <1>1, <1>2, <1>3, <2>1, Over, ProcessMoves DEF BenchInv, ClearInv
<1>5. ASSUME NEW read \in BOOLEAN,
             process' = [process EXCEPT
               !.at = "acting", !.iteration = 1,
               !.saw = IF read /\ benchMode = "shared" THEN {"builder"} ELSE {}]
      PROVE  BenchInv'
  <2> DEFINE saw == IF read /\ benchMode = "shared" THEN {"builder"} ELSE {}
  <2>1. saw \in SUBSET BenchTurns /\ "action" \notin saw /\ "decision" \notin saw
    BY DEF BenchTurns
  <2>2. process' = [process EXCEPT !.at = "acting", !.iteration = 1, !.saw = saw]
    BY <1>5
  <2> HIDE DEF saw
  <2>3. /\ process' \in CampaignProcesses /\ process'.at = "acting" /\ process'.iteration = 1
        /\ process'.saw = saw
    BY ONLY <1>2, <2>1, <2>2 DEF CampaignProcesses, ProcessPlaces
  <2>4. 1 \in Iterations
    BY BenchCadAssumption DEF Iterations
  <2>5. BenchTypes' /\ ClearInv'
    BY <1>1, <1>2, <1>3, <2>3, ProcessMoves DEF BenchInv, ClearInv
  <2>6. OwnInv'
    BY <1>1, <1>3, <2>1, <2>3, <2>4 DEF OwnInv, NothingLeft
  <2>7. ResultInv'
    BY <1>1, <2>3 DEF BenchInv, ResultInv, Honest,
       ScoredIsClean, NothingIsInherited, SubmittedWasRun
  <2>8. QED
    BY <2>5, <2>6, <2>7 DEF BenchInv
<1>6. QED
  BY <1>4, <1>5 DEF Perceive

\* What a turn leaves as the candidate: what was there, or its agent's own.
LEMMA CandidateAfterTurn ==
  ASSUME BenchTypes, NEW saw \in SUBSET BenchTurns, NEW candidate \in CandidateAfter(saw)
  PROVE  /\ candidate \in Candidates
         /\ candidate = job.candidate \/ (candidate.by = process.id /\ candidate.tainted = saw)
<1>1. process.id \in Nat /\ process.edits \in Nat /\ job.candidate \in Candidates
  BY DEF BenchTypes, CampaignProcesses, BenchJobs
<1> DEFINE new == [by |-> process.id, version |-> process.edits + 1, tainted |-> saw]
<1>2. new \in Candidates /\ new.by = process.id /\ new.tainted = saw
  BY <1>1 DEF Candidates
<1>3. candidate \in {job.candidate, new}
  BY DEF CandidateAfter
<1> HIDE DEF new
<1>4. QED
  BY <1>1, <1>2, <1>3

\* What a process has made stays its own while its turns see more.
LEMMA StaysOwn ==
  ASSUME NEW candidate, Own(candidate), process'.id = process.id, process.saw \subseteq process'.saw
  PROVE  candidate.by = process'.id /\ candidate.tainted \subseteq process'.saw
BY DEF Own

LEMMA ActKeeps ==
  ASSUME BenchInv, Act
  PROVE  BenchInv'
<1> DEFINE i == process.iteration
<1>1. process.at = "acting" /\ UNCHANGED <<benchMode, auditor, supervisor, lost>>
  BY DEF Act, jobVars
<1>2. process \in CampaignProcesses /\ job \in BenchJobs /\ BenchTypes /\ lost \in BOOLEAN
  BY DEF BenchInv, BenchTypes
<1>3. /\ Alive /\ job.present /\ job.result.status = "none" /\ job.result = NoBenchResult
      /\ i \in Iterations /\ job.submitted = NoAttempt
      /\ "action" \in process.saw => process.leakage /\ "shown" \in process.accesses
      /\ "decision" \in process.saw /\ benchMode = "specialist" => process.leakage
      /\ job.candidate = NoCandidate \/ Own(job.candidate)
  BY <1>1 DEF Alive, BenchInv, ClearInv, OwnInv
<1>4. PICK access \in Accesses :
        LET saw == process.saw \union (IF access = "shown" THEN {"action"} ELSE {})
        IN \E candidate \in CandidateAfter(saw) :
             /\ job' = [job EXCEPT
                  !.candidate = candidate,
                  !.attempts[i] = IF i \in job.made THEN @
                                  ELSE [candidate |-> candidate, ran |-> FALSE],
                  !.made = @ \union {i}]
             /\ process' = IF i \in job.made THEN Process(process.id, "failed")
                  ELSE [process EXCEPT
                            !.at = "executing", !.leakage = Leaks(access), !.passed = ~Flagged(access),
                            !.saw = saw,
                            !.accesses = @ \union ({access} \intersect {"harmless", "shown"}),
                            !.edits = IF candidate = job.candidate THEN @ ELSE @ + 1]
  BY DEF Act, jobVars
<1> DEFINE saw == process.saw \union (IF access = "shown" THEN {"action"} ELSE {})
<1>5. PICK candidate \in CandidateAfter(saw) :
        /\ job' = [job EXCEPT
             !.candidate = candidate,
             !.attempts[i] = IF i \in job.made THEN @
                             ELSE [candidate |-> candidate, ran |-> FALSE],
             !.made = @ \union {i}]
        /\ process' = IF i \in job.made THEN Process(process.id, "failed")
             ELSE [process EXCEPT
                       !.at = "executing", !.leakage = Leaks(access), !.passed = ~Flagged(access),
                       !.saw = saw,
                       !.accesses = @ \union ({access} \intersect {"harmless", "shown"}),
                       !.edits = IF candidate = job.candidate THEN @ ELSE @ + 1]
  BY <1>4
<1>6. /\ saw \in SUBSET BenchTurns /\ process.saw \subseteq saw
      /\ "action" \in saw => "action" \in process.saw \/ access = "shown"
      /\ "decision" \in saw => "decision" \in process.saw
  BY <1>2 DEF BenchTurns, CampaignProcesses
<1> HIDE DEF saw
<1>7. /\ candidate \in Candidates
      /\ candidate = job.candidate \/ (candidate.by = process.id /\ candidate.tainted = saw)
  BY <1>2, <1>5, <1>6, CandidateAfterTurn
<1>8. candidate = NoCandidate \/ (candidate.by = process.id /\ candidate.tainted \subseteq saw)
  BY <1>3, <1>6, <1>7 DEF Own
<1> DEFINE attempt == IF i \in job.made THEN job.attempts[i]
                      ELSE [candidate |-> candidate, ran |-> FALSE]
           attempts == [job.attempts EXCEPT ![i] = attempt]
           made == job.made \union {i}
<1>9. attempt \in BenchAttempts /\ (i \notin job.made => attempt.candidate = candidate)
  BY <1>2, <1>3, <1>7 DEF BenchJobs, BenchAttempts
<1>10. made \in SUBSET Iterations
  BY <1>2, <1>3 DEF BenchJobs
<1>11. job' = [job EXCEPT !.candidate = candidate, !.attempts = attempts, !.made = made]
  BY <1>2, <1>5 DEF BenchJobs
<1>12. job.attempts \in [Iterations -> BenchAttempts]
  BY <1>2 DEF BenchJobs
<1> HIDE DEF attempt, made, i
<1>13. attempts \in [Iterations -> BenchAttempts] /\ attempts[i] = attempt
  BY <1>3, <1>9, <1>12
<1> HIDE DEF attempts
<1>14. /\ job' \in BenchJobs /\ job'.candidate = candidate /\ job'.attempts = attempts
       /\ job'.present = job.present /\ job'.submitted = job.submitted
       /\ job'.result = job.result
  BY ONLY <1>2, <1>7, <1>10, <1>11, <1>13 DEF BenchJobs
<1>15. CASE i \in job.made
  <2>1. process' = Process(process.id, "failed") /\ process.id \in Nat
    BY <1>2, <1>5, <1>15 DEF CampaignProcesses, i
  <2>2. "failed" \in ProcessPlaces
    BY DEF ProcessPlaces
  <2>3. process' \in CampaignProcesses /\ process'.at = "failed"
    BY <2>1, <2>2, ProcessTypesHold
  <2>4. BenchTypes' /\ ClearInv'
    BY <1>1, <1>2, <1>3, <1>14, <2>3, ProcessMoves
  <2>5. OwnInv' /\ ResultInv'
    BY <1>1, <1>3, <1>14, <2>3, EmptyTypes DEF OwnInv, BenchInv, ResultInv, Honest, ScoredIsClean,
       NothingIsInherited, SubmittedWasRun
  <2>6. QED
    BY <2>4, <2>5 DEF BenchInv
<1>16. CASE i \notin job.made
  <2> DEFINE leakage == Leaks(access)
             passed == ~Flagged(access)
             accesses == process.accesses \union ({access} \intersect {"harmless", "shown"})
             revisions == IF candidate = job.candidate THEN process.edits ELSE process.edits + 1
             first == [process EXCEPT !.at = "executing", !.leakage = leakage, !.passed = passed]
  <2>1. process' = [process EXCEPT
                      !.at = "executing", !.leakage = leakage, !.passed = passed,
                      !.saw = saw, !.accesses = accesses, !.edits = revisions]
    BY <1>2, <1>5, <1>16 DEF i, CampaignProcesses
  <2>2. leakage \in BOOLEAN /\ passed \in BOOLEAN
    BY <1>2 DEF Leaks, Flagged, CampaignProcesses
  <2>3. /\ accesses \in SUBSET Accesses /\ revisions \in Nat
        /\ access = "shown" => "shown" \in accesses
        /\ process.accesses \subseteq accesses
    <3>1. process.accesses \in SUBSET Accesses /\ process.edits \in Nat
      BY <1>2 DEF CampaignProcesses
    <3>2. {access} \intersect {"harmless", "shown"} \subseteq Accesses
      BY access \in Accesses
    <3>3. revisions \in Nat
      BY <3>1
    <3>4. QED
      BY <3>1, <3>2, <3>3
  <2>4. (process.leakage => leakage) /\ (access = "shown" => leakage)
    BY DEF Leaks, Flagged
  <2> HIDE DEF leakage, passed, accesses, revisions
  <2>5. /\ first \in CampaignProcesses /\ first.at = "executing" /\ first.leakage = leakage
        /\ first.id = process.id /\ first.iteration = process.iteration
    BY ONLY <1>2, <2>2 DEF CampaignProcesses, ProcessPlaces
  <2>6. process' = [first EXCEPT !.saw = saw, !.accesses = accesses, !.edits = revisions]
    BY <1>2, <2>1 DEF CampaignProcesses
  <2> HIDE DEF first
  <2>7. /\ process' \in CampaignProcesses /\ process'.at = "executing"
        /\ process'.leakage = leakage /\ process'.id = process.id
        /\ process'.iteration = process.iteration
        /\ process'.saw = saw /\ process'.accesses = accesses
    BY ONLY <1>6, <2>3, <2>5, <2>6 DEF CampaignProcesses
  <2>8. BenchTypes' /\ ClearInv'
    BY <1>1, <1>2, <1>3, <1>14, <2>7, ProcessMoves
  <2>9. OwnInv'
    <3>1. /\ "action" \in process'.saw => process'.leakage /\ "shown" \in process'.accesses
          /\ "decision" \in process'.saw /\ benchMode' = "specialist" => process'.leakage
      BY <1>1, <1>3, <1>6, <2>3, <2>4, <2>7
    <3>2. job'.candidate = NoCandidate \/ Own(job.candidate)'
      BY <1>8, <1>14, <2>7 DEF Own
    <3>3. process'.iteration = i /\ job'.attempts[i].candidate = job'.candidate
      BY <1>9, <1>13, <1>14, <1>16, <2>7 DEF i
    <3>4. QED
      BY <1>3, <1>14, <2>7, <3>1, <3>2, <3>3 DEF OwnInv
  <2>10. ResultInv'
    BY <1>1, <1>3, <1>14, <2>7, EmptyTypes DEF BenchInv, ResultInv, Honest,
       ScoredIsClean, NothingIsInherited, SubmittedWasRun
  <2>11. QED
    BY <2>8, <2>9, <2>10 DEF BenchInv
<1>17. QED
  BY <1>15, <1>16

LEMMA ExecuteKeeps ==
  ASSUME BenchInv, Execute
  PROVE  BenchInv'
<1> DEFINE i == process.iteration
<1>1. /\ process.at = "executing" /\ Go("deciding")
      /\ UNCHANGED <<benchMode, auditor, supervisor, lost>>
  BY DEF Execute, jobVars
<1>2. PICK ran \in BOOLEAN :
        /\ ran => job.candidate # NoCandidate /\ process.passed
        /\ job' = [job EXCEPT !.attempts[i].ran = ran]
  BY DEF Execute, jobVars
<1>3. process \in CampaignProcesses /\ job \in BenchJobs /\ lost \in BOOLEAN
  BY DEF BenchInv, BenchTypes
<1>4. /\ Alive /\ job.present /\ job.result.status = "none" /\ job.result = NoBenchResult
      /\ i \in Iterations /\ job.submitted = NoAttempt
      /\ "action" \in process.saw => process.leakage /\ "shown" \in process.accesses
      /\ "decision" \in process.saw /\ benchMode = "specialist" => process.leakage
      /\ job.candidate = NoCandidate \/ Own(job.candidate)
      /\ job.attempts[i].candidate = job.candidate
  BY <1>1 DEF Alive, BenchInv, ClearInv, OwnInv
<1> DEFINE attempt == [job.attempts[i] EXCEPT !.ran = ran]
           attempts == [job.attempts EXCEPT ![i] = attempt]
<1>5. job.attempts \in [Iterations -> BenchAttempts] /\ job.attempts[i] \in BenchAttempts
  BY <1>3, <1>4 DEF BenchJobs
<1>6. job' = [job EXCEPT !.attempts = attempts]
  BY <1>2, <1>3, <1>5 DEF BenchJobs
<1> HIDE DEF i
<1>7. /\ attempt \in BenchAttempts /\ attempt.candidate = job.attempts[i].candidate
      /\ attempt.ran = ran
  BY ONLY <1>5, ran \in BOOLEAN DEF BenchAttempts
<1> HIDE DEF attempt
<1>8. attempts \in [Iterations -> BenchAttempts] /\ attempts[i] = attempt
  BY <1>4, <1>5, <1>7
<1> HIDE DEF attempts
<1>9. /\ job' \in BenchJobs /\ job'.attempts = attempts /\ job'.candidate = job.candidate
      /\ job'.present = job.present /\ job'.submitted = job.submitted /\ job'.result = job.result
  BY ONLY <1>3, <1>6, <1>8 DEF BenchJobs
<1>10. /\ process' \in CampaignProcesses /\ process'.at = "deciding" /\ process'.id = process.id
       /\ process'.iteration = i /\ process'.leakage = process.leakage
       /\ process'.saw = process.saw /\ process'.accesses = process.accesses
  <2>1. "deciding" \in ProcessPlaces
    BY DEF ProcessPlaces
  <2>2. QED
    BY <1>1, <1>3, <2>1, Goes DEF i
<1>11. BenchTypes' /\ ClearInv'
  BY <1>1, <1>3, <1>4, <1>9, <1>10, ProcessMoves
<1>12. OwnInv'
  <2>1. job'.candidate = NoCandidate \/ Own(job.candidate)'
    BY <1>4, <1>9, <1>10 DEF Own
  <2>2. attempt.ran => Own(job.candidate)
    BY <1>2, <1>4, <1>7
  <2>3. job'.attempts[process'.iteration] = attempt
    BY <1>8, <1>9, <1>10
  <2>4. job'.attempts[process'.iteration].ran => Own(job.attempts[process.iteration].candidate)'
    BY <1>4, <1>7, <1>10, <2>2, <2>3 DEF Own
  <2>5. QED
    BY <1>1, <1>4, <1>9, <1>10, <2>1, <2>4 DEF OwnInv
<1>13. ResultInv'
  BY <1>1, <1>4, <1>9, <1>10, EmptyTypes DEF BenchInv, ResultInv, Honest,
     ScoredIsClean, NothingIsInherited, SubmittedWasRun
<1>14. QED
  BY <1>11, <1>12, <1>13 DEF BenchInv

LEMMA DecideKeeps ==
  ASSUME BenchInv, Decide
  PROVE  BenchInv'
<1> DEFINE i == process.iteration
<1>1. process.at = "deciding" /\ UNCHANGED <<benchMode, auditor, supervisor, lost>>
  BY DEF Decide, jobVars
<1>2. process \in CampaignProcesses /\ job \in BenchJobs /\ BenchTypes /\ lost \in BOOLEAN
  BY DEF BenchInv, BenchTypes
<1>3. /\ Alive /\ job.present /\ job.result.status = "none" /\ job.result = NoBenchResult
      /\ i \in Iterations /\ job.submitted = NoAttempt
      /\ "action" \in process.saw => process.leakage /\ "shown" \in process.accesses
      /\ "decision" \in process.saw /\ benchMode = "specialist" => process.leakage
      /\ job.candidate = NoCandidate \/ Own(job.candidate)
      /\ job.attempts[i].ran => Own(job.attempts[i].candidate)
  BY <1>1 DEF Alive, BenchInv, ClearInv, OwnInv
<1>4. PICK stop \in BOOLEAN, access \in Accesses :
        LET saw == process.saw \union (IF access = "shown" THEN {"decision"} ELSE {})
            submits == stop /\ MaySubmit
        IN \E candidate \in CandidateAfter(saw) :
             /\ job' = [job EXCEPT !.candidate = candidate,
                                   !.submitted = IF submits THEN Submission(candidate) ELSE @]
             /\ process' = [process EXCEPT
                            !.at = IF submits \/ i = MaxIterations THEN "scoring" ELSE "acting",
                            !.iteration = IF submits \/ i = MaxIterations THEN @ ELSE @ + 1,
                            !.leakage = IF benchMode = "specialist" THEN Leaks(access) ELSE @,
                            !.saw = saw, !.submitted = submits,
                            !.edits = IF candidate = job.candidate THEN @ ELSE @ + 1]
  BY DEF Decide, jobVars
<1> DEFINE saw == process.saw \union (IF access = "shown" THEN {"decision"} ELSE {})
           submits == stop /\ MaySubmit
<1>5. PICK candidate \in CandidateAfter(saw) :
        /\ job' = [job EXCEPT !.candidate = candidate,
                              !.submitted = IF submits THEN Submission(candidate) ELSE @]
        /\ process' = [process EXCEPT
                       !.at = IF submits \/ i = MaxIterations THEN "scoring" ELSE "acting",
                       !.iteration = IF submits \/ i = MaxIterations THEN @ ELSE @ + 1,
                       !.leakage = IF benchMode = "specialist" THEN Leaks(access) ELSE @,
                       !.saw = saw, !.submitted = submits,
                       !.edits = IF candidate = job.candidate THEN @ ELSE @ + 1]
  BY <1>4
<1>6. /\ saw \in SUBSET BenchTurns /\ process.saw \subseteq saw
      /\ "action" \in saw => "action" \in process.saw
      /\ "decision" \in saw => "decision" \in process.saw \/ access = "shown"
  BY <1>2 DEF BenchTurns, CampaignProcesses
<1>7. /\ candidate \in Candidates
      /\ candidate = job.candidate \/ (candidate.by = process.id /\ candidate.tainted = saw)
  <2> HIDE DEF saw
  <2>1. QED
    BY <1>2, <1>5, <1>6, CandidateAfterTurn
<1>8. /\ submits \in BOOLEAN
      /\ submits => job.attempts[i].ran
  <2>1. job.attempts[i].ran \in BOOLEAN /\ process.passed \in BOOLEAN
    BY <1>2, <1>3 DEF BenchJobs, BenchAttempts, CampaignProcesses
  <2>2. QED
    BY <2>1 DEF MaySubmit
<1> DEFINE place == IF submits \/ i = MaxIterations THEN "scoring" ELSE "acting"
           iteration == IF submits \/ i = MaxIterations THEN i ELSE i + 1
           leakage == IF benchMode = "specialist" THEN Leaks(access) ELSE process.leakage
           revisions == IF candidate = job.candidate THEN process.edits ELSE process.edits + 1
           submitted == IF submits THEN job.attempts[i] ELSE NoAttempt
           first == [process EXCEPT !.at = place, !.iteration = iteration, !.leakage = leakage]
<1>9. process' = [process EXCEPT !.at = place, !.iteration = iteration, !.leakage = leakage,
                                 !.saw = saw, !.submitted = submits, !.edits = revisions]
  BY <1>2, <1>5 DEF CampaignProcesses
<1>10. job' = [job EXCEPT !.candidate = candidate, !.submitted = submitted]
  BY <1>2, <1>3, <1>5 DEF BenchJobs, Submission
<1>11. /\ place \in {"scoring", "acting"} /\ (submits => place = "scoring")
       /\ iteration \in Nat /\ (place = "acting" => iteration \in Iterations)
  <2>1. i \in 1..MaxIterations /\ MaxIterations \in Nat
    BY <1>3, BenchCadAssumption DEF Iterations
  <2> HIDE DEF i, submits
  <2>2. QED
    BY <1>8, <2>1 DEF Iterations
<1>12. leakage \in BOOLEAN /\ revisions \in Nat
  <2>1. process.leakage \in BOOLEAN /\ process.edits \in Nat
    BY <1>2 DEF CampaignProcesses
  <2>2. leakage \in BOOLEAN
    BY <2>1 DEF Leaks, Flagged
  <2>3. revisions \in Nat
    BY <2>1
  <2>4. QED
    BY <2>2, <2>3
<1>13. /\ process.leakage => leakage
       /\ access = "shown" /\ benchMode = "specialist" => leakage
  BY DEF Leaks, Flagged
<1>14. submitted \in BenchAttempts
  BY <1>2, <1>3, EmptyTypes DEF BenchJobs
<1>15. IF submits THEN submitted = job.attempts[i] /\ Own(submitted.candidate)
                  ELSE submitted = NoAttempt
  BY <1>3, <1>8
<1> HIDE DEF saw, submits, place, iteration, leakage, revisions, submitted
<1>16. /\ first \in CampaignProcesses /\ first.id = process.id /\ first.at = place
       /\ first.iteration = iteration /\ first.leakage = leakage
       /\ first.accesses = process.accesses
  BY ONLY <1>2, <1>11, <1>12 DEF CampaignProcesses, ProcessPlaces
<1>17. process' = [first EXCEPT !.saw = saw, !.submitted = submits, !.edits = revisions]
  BY <1>2, <1>9 DEF CampaignProcesses
<1> HIDE DEF first
<1>18. /\ process' \in CampaignProcesses /\ process'.id = process.id /\ process'.at = place
       /\ process'.iteration = iteration /\ process'.leakage = leakage
       /\ process'.accesses = process.accesses
       /\ process'.saw = saw /\ process'.submitted = submits
  BY ONLY <1>6, <1>8, <1>12, <1>16, <1>17 DEF CampaignProcesses
<1>19. /\ job' \in BenchJobs /\ job'.candidate = candidate /\ job'.submitted = submitted
       /\ job'.present = job.present /\ job'.attempts = job.attempts /\ job'.result = job.result
  BY ONLY <1>2, <1>7, <1>10, <1>14 DEF BenchJobs
<1>20. BenchTypes' /\ ClearInv'
  BY <1>1, <1>2, <1>3, <1>11, <1>18, <1>19, ProcessMoves
<1>21. OwnInv'
  <2>1. /\ "action" \in process'.saw => process'.leakage /\ "shown" \in process'.accesses
        /\ "decision" \in process'.saw /\ benchMode' = "specialist" => process'.leakage
    BY <1>1, <1>3, <1>6, <1>13, <1>18
  <2>2. job'.candidate = NoCandidate \/ Own(job.candidate)'
    BY <1>3, <1>6, <1>7, <1>18, <1>19 DEF Own
  <2>3. IF process'.submitted THEN Own(job.submitted.candidate)' ELSE job'.submitted = NoAttempt
    BY <1>6, <1>15, <1>18, <1>19 DEF Own
  <2>4. process'.at = "acting" => process'.iteration \in Iterations /\ job'.submitted = NoAttempt
    BY <1>11, <1>15, <1>18, <1>19
  <2>5. QED
    BY <1>3, <1>11, <1>18, <1>19, <2>1, <2>2, <2>3, <2>4 DEF OwnInv
<1>22. ResultInv'
  <2>1. job'.submitted # NoAttempt => \E k \in Iterations : job'.attempts[k] = job'.submitted
    BY <1>3, <1>15, <1>19
  <2>2. QED
    BY <1>1, <1>3, <1>11, <1>18, <1>19, <2>1, EmptyTypes DEF ResultInv, Honest,
       ScoredIsClean, NothingIsInherited, SubmittedWasRun
<1>23. QED
  BY <1>20, <1>21, <1>22 DEF BenchInv

LEMMA ScoreKeeps ==
  ASSUME BenchInv, Score
  PROVE  BenchInv'
<1> DEFINE result == [status |-> "torn", by |-> process.id, accesses |-> process.accesses]
<1>1. /\ process.at = "scoring" /\ Go("writing") /\ job' = [job EXCEPT !.result = result]
      /\ UNCHANGED <<benchMode, auditor, supervisor, lost>>
  BY DEF Score, jobVars
<1>2. process \in CampaignProcesses /\ job \in BenchJobs /\ lost \in BOOLEAN
  BY DEF BenchInv, BenchTypes
<1>3. /\ Alive /\ job.present
      /\ "action" \in process.saw => process.leakage /\ "shown" \in process.accesses
      /\ "decision" \in process.saw /\ benchMode = "specialist" => process.leakage
      /\ job.candidate = NoCandidate \/ Own(job.candidate)
      /\ IF process.submitted THEN Own(job.submitted.candidate) ELSE job.submitted = NoAttempt
  BY <1>1 DEF Alive, BenchInv, ClearInv, OwnInv
<1>4. /\ process' \in CampaignProcesses /\ process'.at = "writing" /\ process'.id = process.id
      /\ process'.leakage = process.leakage /\ process'.submitted = process.submitted
      /\ process'.saw = process.saw /\ process'.accesses = process.accesses
  <2>1. "writing" \in ProcessPlaces
    BY DEF ProcessPlaces
  <2>2. QED
    BY <1>1, <1>2, <2>1, Goes
<1>5. /\ result \in BenchResults /\ result.status = "torn" /\ result.by = process.id
      /\ result.accesses = process.accesses
  BY <1>2 DEF BenchResults, CampaignProcesses
<1> HIDE DEF result
<1>6. /\ job' \in BenchJobs /\ job'.result = result /\ job'.candidate = job.candidate
      /\ job'.submitted = job.submitted /\ job'.attempts = job.attempts
      /\ job'.present = job.present
  BY ONLY <1>1, <1>2, <1>5 DEF BenchJobs
<1>7. BenchTypes' /\ ClearInv'
  BY <1>1, <1>2, <1>3, <1>4, <1>5, <1>6, ProcessMoves
<1>8. OwnInv'
  <2>1. job'.candidate = NoCandidate \/ Own(job.candidate)'
    BY <1>3, <1>4, <1>6 DEF Own
  <2>2. IF process'.submitted THEN Own(job.submitted.candidate)' ELSE job'.submitted = NoAttempt
    BY <1>3, <1>4, <1>6 DEF Own
  <2>3. QED
    BY <1>1, <1>3, <1>4, <1>6, <2>1, <2>2 DEF OwnInv
<1>9. ResultInv'
  <2>1. /\ job'.submitted # NoAttempt => job'.submitted.candidate.by = job'.result.by
        /\ "action" \in job'.submitted.candidate.tainted => "shown" \in job'.result.accesses
    BY <1>3, <1>5, <1>6, EmptyTypes DEF Own
  <2>2. QED
    BY <1>4, <1>5, <1>6, <2>1 DEF BenchInv, ResultInv, Honest,
       ScoredIsClean, NothingIsInherited, SubmittedWasRun
<1>10. QED
  BY <1>7, <1>8, <1>9 DEF BenchInv

LEMMA FinishResultKeeps ==
  ASSUME BenchInv, FinishResult
  PROVE  BenchInv'
<1>1. /\ process.at \in {"writing", "rewriting"} /\ Go("ended")
      /\ UNCHANGED <<benchMode, auditor, supervisor, lost>>
  BY DEF FinishResult, jobVars
<1>2. PICK status \in Statuses : job' = [job EXCEPT !.result.status = status]
  BY DEF FinishResult, jobVars
<1>3. process \in CampaignProcesses /\ job \in BenchJobs /\ lost \in BOOLEAN
  BY DEF BenchInv, BenchTypes
<1>4. /\ Alive /\ job.present /\ job.result.status = "torn"
      /\ job.submitted # NoAttempt => job.submitted.candidate.by = job.result.by
      /\ "action" \in job.submitted.candidate.tainted => "shown" \in job.result.accesses
      /\ SubmittedWasRun
  BY <1>1 DEF Alive, BenchInv, ClearInv, ResultInv, Honest
<1>5. process' \in CampaignProcesses /\ process'.at = "ended"
  <2>1. "ended" \in ProcessPlaces
    BY DEF ProcessPlaces
  <2>2. QED
    BY <1>1, <1>3, <2>1, Goes
<1>6. /\ status \in {"scored", "score_failed", "invalid_information_access_audit",
                      "invalid_gt_access_audit", "no_submission"}
      /\ status = "invalid_gt_access_audit" => benchMode = "shared"
      /\ status \in {"scored", "score_failed"} =>
           \/ process.at = "rewriting"
           \/ process.at = "writing" /\ process.submitted /\ ~process.leakage
  <2>1. CASE process.at = "rewriting" \/ (process.submitted /\ ~process.leakage)
    <3>1. ~process.leakage
      BY <1>1, <2>1 DEF BenchInv, OwnInv
    <3>2. status \in {"scored", "score_failed"}
      BY <1>2, <2>1, <3>1 DEF Statuses
    <3>3. QED
      BY <1>1, <2>1, <3>2
  <2>2. CASE ~(process.at = "rewriting" \/ (process.submitted /\ ~process.leakage)) /\ process.leakage
    <3>1. status = IF benchMode = "specialist" THEN "invalid_information_access_audit"
                   ELSE "invalid_gt_access_audit"
      BY <1>2, <2>2 DEF Statuses
    <3>2. QED
      BY <3>1 DEF BenchInv, BenchTypes
  <2>3. CASE ~(process.at = "rewriting" \/ (process.submitted /\ ~process.leakage)) /\ ~process.leakage
    BY <1>2, <2>3 DEF Statuses
  <2>4. QED
    BY <2>1, <2>2, <2>3
<1> DEFINE result == [job.result EXCEPT !.status = status]
<1>7. job.result \in BenchResults /\ job' = [job EXCEPT !.result = result]
  BY <1>2, <1>3 DEF BenchJobs
<1>8. /\ result \in BenchResults /\ result.status = status /\ result.by = job.result.by
      /\ result.accesses = job.result.accesses
  BY ONLY <1>6, <1>7 DEF BenchResults
<1> HIDE DEF result
<1>9. /\ job' \in BenchJobs /\ job'.result = result /\ job'.submitted = job.submitted
      /\ job'.attempts = job.attempts /\ job'.present = job.present
  BY ONLY <1>3, <1>7, <1>8 DEF BenchJobs
<1>10. BenchTypes' /\ ClearInv'
  BY <1>1, <1>3, <1>4, <1>5, <1>6, <1>8, <1>9, ProcessMoves
<1>11. OwnInv'
  BY <1>5 DEF OwnInv
<1>12. ResultInv'
  <2>1. status \in {"scored", "score_failed"} =>
          /\ job.submitted.candidate.by = job.result.by
          /\ lost \/ "action" \notin job.submitted.candidate.tainted
          /\ benchMode = "specialist" => "decision" \notin job.submitted.candidate.tainted
    <3>1. CASE process.at = "rewriting"
      BY <1>4, <3>1, EmptyTypes DEF BenchInv, ResultInv
    <3>2. CASE process.at = "writing" /\ process.submitted /\ ~process.leakage
      <4>1. Own(job.submitted.candidate) /\ job.result.by = process.id
        BY <3>2 DEF BenchInv, OwnInv, ResultInv
      <4>2. /\ "action" \notin process.saw
            /\ benchMode = "specialist" => "decision" \notin process.saw
        BY <3>2 DEF BenchInv, OwnInv
      <4>3. QED
        BY <4>1, <4>2 DEF Own
    <3>3. QED
      BY <1>6, <3>1, <3>2
  <2>2. QED
    BY <1>1, <1>4, <1>5, <1>6, <1>8, <1>9, <2>1 DEF ResultInv, Honest,
       ScoredIsClean, NothingIsInherited, SubmittedWasRun
<1>13. QED
  BY <1>10, <1>11, <1>12 DEF BenchInv

LEMMA ProcessDiesKeeps ==
  ASSUME BenchInv, ProcessDies
  PROVE  BenchInv'
<1>1. Alive /\ Go("failed") /\ UNCHANGED <<benchMode, auditor, supervisor, lost>>
  BY DEF ProcessDies, jobVars
<1>2. PICK candidate \in IF process.at \in {"acting", "deciding"}
                            THEN CandidateAfter(process.saw) ELSE {job.candidate} :
        job' = [job EXCEPT !.candidate = candidate]
  BY DEF ProcessDies, jobVars
<1>3. process \in CampaignProcesses /\ job \in BenchJobs /\ BenchTypes /\ lost \in BOOLEAN
  BY DEF BenchInv, BenchTypes
<1>4. process' \in CampaignProcesses /\ process'.at = "failed"
  <2>1. "failed" \in ProcessPlaces
    BY DEF ProcessPlaces
  <2>2. QED
    BY <1>1, <1>3, <2>1, Goes
<1>5. candidate \in Candidates /\ (process.at \notin {"acting", "deciding"} => candidate = job.candidate)
  <2>1. process.saw \in SUBSET BenchTurns /\ job.candidate \in Candidates
    BY <1>3 DEF CampaignProcesses, BenchJobs
  <2>2. QED
    BY <1>2, <1>3, <2>1, CandidateAfterTurn
<1>6. /\ job' \in BenchJobs /\ job'.candidate = candidate /\ job'.submitted = job.submitted
      /\ job'.attempts = job.attempts /\ job'.present = job.present /\ job'.result = job.result
      /\ candidate = job.candidate => job' = job
  BY ONLY <1>2, <1>3, <1>5 DEF BenchJobs
<1>7. BenchTypes'
  BY <1>1, <1>4, <1>6 DEF BenchInv, BenchTypes
<1>8. ClearInv'
  <2>1. process.at \in {"acting", "deciding"} => job.present
    BY DEF BenchInv, ClearInv
  <2>2. supervisor.at \notin {"archiving", "launching"}
    BY <1>1 DEF BenchInv, ClearInv
  <2>3. ~job'.present => job' = EmptyJob
    BY <1>5, <1>6, <2>1 DEF BenchInv, ClearInv
  <2>4. QED
    BY <1>1, <1>4, <1>6, <2>2, <2>3 DEF BenchInv, ClearInv
<1>9. OwnInv'
  BY <1>4 DEF OwnInv
<1>10. ResultInv'
  BY <1>1, <1>4, <1>6 DEF BenchInv, ResultInv, Honest,
     ScoredIsClean, NothingIsInherited, SubmittedWasRun
<1>11. QED
  BY <1>7, <1>8, <1>9, <1>10 DEF BenchInv

LEMMA BenchKept == BenchInv /\ [BenchNext]_benchVars /\ ~overlap' => BenchInv'
<1>1. SUFFICES ASSUME BenchInv, [BenchNext]_benchVars, ~overlap' PROVE BenchInv'
  OBVIOUS
<1>2. CASE UNCHANGED benchVars
  <2>1. UNCHANGED <<benchMode, auditor, supervisor, process, job, lost>>
    BY <1>2 DEF benchVars, jobVars
  <2>2. BenchTypes' /\ ClearInv'
    BY <1>1, <2>1 DEF BenchInv, BenchTypes, ClearInv, Alive, NothingLeft
  <2>3. OwnInv'
    BY <1>1, <2>1 DEF BenchInv, OwnInv, NothingLeft, Own
  <2>4. ResultInv'
    BY <1>1, <2>1 DEF BenchInv, ResultInv, Honest, ScoredIsClean, NothingIsInherited,
       SubmittedWasRun
  <2>5. QED
    BY <2>2, <2>3, <2>4 DEF BenchInv
<1>3. QED
  BY <1>1, <1>2, SupervisorKeeps, OpenRecordKeeps, ReplayAuditKeeps, PerceiveKeeps, ActKeeps,
     ExecuteKeeps, DecideKeeps, ScoreKeeps, FinishResultKeeps, ProcessDiesKeeps DEF BenchNext

\* Once processes overlap they have overlapped.
LEMMA OverlapLasts == overlap \in BOOLEAN /\ [BenchNext]_benchVars =>
                        overlap' \in BOOLEAN /\ (overlap => overlap')
BY DEF BenchNext, CallSupervisor, ArchiveIncomplete, LaunchCampaign, SeeChildEnd, ProgressRaises,
     SupervisorDies, AuditorIsCorrected, OpenRecord, ReplayAudit, Perceive, Act, Execute, Decide,
     Score, FinishResult, ProcessDies, benchVars, Alive

\* The record's invariant, as long as no supervisor is called while a process of an earlier
\* one is at work: a process is launched on a cleared job only, what it has there is its own,
\* and its accesses tell of every turn whose events show the ground truth.
THEOREM BenchInvariance == BenchSpec => [](~overlap => BenchInv)
<1> DEFINE Alone == overlap \in BOOLEAN /\ (~overlap => BenchInv)
<1>1. BenchInit => Alone
  BY BenchStarts DEF BenchInit
<1>2. Alone /\ [BenchNext]_benchVars => Alone'
  BY BenchKept, OverlapLasts
<1>3. Alone => (~overlap => BenchInv)
  OBVIOUS
<1> HIDE DEF Alone
<1>4. QED
  BY <1>1, <1>2, <1>3, PTL DEF BenchSpec

\* For any number of calls, launches, iterations and candidates, as long as supervisors and
\* processes do not overlap: what is scored its own process' agent wrote, it is the candidate
\* that was run, and no turn behind it had shown the ground truth in events that are still
\* there.
THEOREM ScoreHonest == BenchSpec => []ScoreIsHonest
<1>1. (~overlap => BenchInv) => ScoreIsHonest
  BY DEF BenchInv, ResultInv, Honest, ScoreIsHonest
<1>2. QED
  BY <1>1, BenchInvariance, PTL

(***************************************************************************)
(* A paper run                                                             *)
(***************************************************************************)

-----------------------------------------------------------------------------
(* The paper run: types and the invariant *)

Outputs == {"dwg", "jobDwg", "mesh", "report", "final"}
RunStates == {"none", "running", "completed", "incomplete", "execution_error"}
RunRecords == [state : RunStates, resumptions : Seq(Numbers)]
RunnerPlaces ==
  {"off", "staging", "resuming", "launching", "waiting", "closing", "reporting", "gone"}
RunnerTypes ==
  [at : RunnerPlaces, number : Numbers, record : RunRecords,
   agent : {"none", "running", "ok", "failed", "timed_out"}, text : BOOLEAN]

PaperTypes ==
  /\ script \in PaperScripts /\ folder \in BOOLEAN /\ indexed \in BOOLEAN
  /\ unreported \in BOOLEAN
  /\ runJson \in RunRecords /\ files \in SUBSET Outputs
  /\ events \in [Numbers -> RunnerIds \union {0}]
  /\ runner \in [RunnerIds -> RunnerTypes]

\* The outputs a run without resumptions, or with some, must have.
Backed(resumptions) ==
  CASE script = "package" -> {"dwg", "report"} \subseteq files
    [] script = "minimal" -> "final" \in files /\ files \intersect {"dwg", "jobDwg"} # {}
    [] OTHER ->
         /\ {"final", "dwg"} \subseteq files
         /\ script = "cae" /\ resumptions = <<>> => "mesh" \in files

\* What a runner that works knows of the folder.
Knows(h) ==
  /\ runner[h].at = "off" => runner[h] = NoRunner
  /\ runner[h].agent = "running" =>
       runner[h].at \in {"waiting", "gone"} /\ runJson.state # "completed"
  /\ RunnerIsLive(h) => folder
  /\ runner[h].at = "staging" => runner[h].number = 0 /\ \A n \in Numbers : events[n] = 0
  /\ runner[h].at = "resuming" => runner[h].number # 0 /\ script \in KimiScripts
  /\ runner[h].at \in {"resuming", "launching"} => events[runner[h].number] = 0
  /\ runner[h].at \in {"launching", "waiting", "closing"} =>
       /\ runJson.state # "completed"
       /\ runner[h].record.resumptions = runJson.resumptions
       /\ runner[h].number # 0 => /\ script \in KimiScripts
                                 /\ runner[h].number \in Range(runJson.resumptions)
  /\ runner[h].at \in {"launching", "waiting"} => runner[h].record.state # "completed"
  /\ runner[h].at = "closing" /\ runner[h].record.state = "completed" =>
       Backed(runner[h].record.resumptions)
  /\ runner[h].at = "reporting" => runner[h].record = runJson

PaperInv ==
  /\ PaperTypes
  /\ \A g, h \in RunnerIds : Working(g) /\ Working(h) => g = h
  /\ \A h \in RunnerIds : Knows(h)
  /\ ~folder => \A n \in Numbers : events[n] = 0
  /\ indexed => script \in KimiScripts
  /\ PaperRunIsAccounted

-----------------------------------------------------------------------------
(* The paper run: numbers of resumptions *)

\* No events file has the number of the next resumption, or a higher one.
LEMMA NextNumberIsFree ==
  ASSUME PaperTypes
  PROVE  NextResumeNumber \in Nat \ {0} /\ \A n \in Numbers : n >= NextResumeNumber => events[n] = 0
<1> DEFINE used == {0} \union {n \in Numbers \ {0} : events[n] # 0}
           rest == {Runners - n : n \in used}
<1>1. Runners \in Nat /\ used \subseteq 0..Runners
  BY RunnersAssumption DEF Numbers
<1>2. rest \subseteq Nat /\ rest # {}
  BY <1>1
<1>3. PICK m \in rest : \A x \in rest : ~(<<x, m>> \in OpToRel(<, Nat))
  BY <1>2, NatLessThanWellFounded, WFMin
<1>4. \A x \in rest : ~(x < m)
  BY <1>2, <1>3 DEF OpToRel
<1>5. PICK top \in used : m = Runners - top
  BY <1>3
<1>6. \A n \in used : top >= n
  <2> TAKE n \in used
  <2>1. Runners - n \in rest
    OBVIOUS
  <2> HIDE DEF used, rest
  <2>2. n \in Nat /\ n <= Runners /\ top \in Nat /\ top <= Runners
    BY <1>1, <1>5
  <2>3. ~(Runners - n < Runners - top)
    BY <1>4, <1>5, <2>1
  <2>4. QED
    BY <1>1, <2>2, <2>3
<1>7. Max(used) \in used /\ \A n \in used : Max(used) >= n
  BY <1>6 DEF Max
<1>8. QED
  BY <1>1, <1>7 DEF NextResumeNumber, Numbers

-----------------------------------------------------------------------------
(* The paper run: what a step leaves alone *)

\* Whoever else there is does not work.
LEMMA OthersKnow ==
  ASSUME PaperInv, NEW h \in RunnerIds, Working(h) \/ NobodyWorks,
         runner' \in [RunnerIds -> RunnerTypes], \A g \in RunnerIds : g # h => runner'[g] = runner[g]
  PROVE  /\ \A g \in RunnerIds : g # h => Knows(g)'
         /\ \A f, g \in RunnerIds : Working(f)' /\ Working(g)' => f = g
<1>1. ASSUME NEW g \in RunnerIds, g # h
      PROVE  ~Working(g) /\ Working(g)' = Working(g) /\ Knows(g)'
  <2>1. ~Working(g)
    BY <1>1 DEF PaperInv, NobodyWorks
  <2>2. runner'[g] = runner[g]
    BY <1>1
  <2>3. runner[g].at \in {"off", "gone"} /\ runner[g].agent # "running"
    BY <2>1 DEF Working, RunnerIsLive
  <2>4. runner[g].at = "off" => runner[g] = NoRunner
    BY DEF PaperInv, Knows
  <2>5. QED
    BY <2>1, <2>2, <2>3, <2>4 DEF Working, RunnerIsLive, Knows
<1>2. QED
  BY <1>1

\* A step that writes neither run.json nor result.json, and removes no file of a run that
\* is complete.
LEMMA StillAccounted ==
  ASSUME PaperRunIsAccounted,
         UNCHANGED <<script, runJson, resultJson, events>>,
         unreported' \/ unreported' = unreported,
         runJson.state = "completed" => files \subseteq files',
         ~unreported' => \A h \in RunnerIds : runner[h].at = "reporting" => runner'[h].at = "reporting"
  PROVE  PaperRunIsAccounted'
<1>1. CompletionIsBacked'
  BY DEF PaperRunIsAccounted, CompletionIsBacked
<1>2. ResultFollowsRun'
  BY DEF PaperRunIsAccounted, ResultFollowsRun
<1>3. ResumptionsAreRecorded'
  BY DEF PaperRunIsAccounted, ResumptionsAreRecorded
<1>4. QED
  BY <1>1, <1>2, <1>3 DEF PaperRunIsAccounted

\* A runner that goes on, or is left: its fields.
LEMMA RunnerGoesEffect ==
  ASSUME runner \in [RunnerIds -> RunnerTypes], NEW h \in RunnerIds, NEW to \in RunnerPlaces,
         RunnerGoes(h, to)
  PROVE  /\ runner' \in [RunnerIds -> RunnerTypes] /\ runner'[h].at = to
         /\ runner'[h].number = runner[h].number /\ runner'[h].record = runner[h].record
         /\ runner'[h].agent = runner[h].agent
         /\ \A g \in RunnerIds : g # h => runner'[g] = runner[g]
BY DEF RunnerGoes, RunnerTypes

LEMMA NoRunnerType == NoRunner \in RunnerTypes /\ NoRunJson \in RunRecords
BY RunnersAssumption
DEF NoRunner, NoRunJson, RunnerTypes, RunnerPlaces, RunRecords, RunStates, Numbers

LEMMA RunnerLeavesEffect ==
  ASSUME runner \in [RunnerIds -> RunnerTypes], NEW h \in RunnerIds, RunnerLeaves(h)
  PROVE  /\ runner' \in [RunnerIds -> RunnerTypes] /\ runner'[h].at = "gone"
         /\ runner'[h].agent = IF runner[h].agent = "running" THEN "running" ELSE "none"
         /\ \A g \in RunnerIds : g # h => runner'[g] = runner[g]
<1> DEFINE agent == IF runner[h].agent = "running" THEN "running" ELSE "none"
<1>1. agent \in {"running", "none"}
  OBVIOUS
<1>2. runner' = [runner EXCEPT ![h] = [NoRunner EXCEPT !.at = "gone", !.agent = agent]]
  BY DEF RunnerLeaves
<1> HIDE DEF agent
<1>3. [NoRunner EXCEPT !.at = "gone", !.agent = agent] \in RunnerTypes
  BY ONLY <1>1, NoRunnerType DEF RunnerTypes, RunnerPlaces
<1>4. /\ [NoRunner EXCEPT !.at = "gone", !.agent = agent].at = "gone"
      /\ [NoRunner EXCEPT !.at = "gone", !.agent = agent].agent = agent
  BY ONLY <1>1, NoRunnerType DEF RunnerTypes, RunnerPlaces
<1>5. QED
  BY <1>2, <1>3, <1>4 DEF agent

-----------------------------------------------------------------------------
(* The paper run: starting and resuming *)

LEMMA MakeFolderKeeps ==
  ASSUME PaperInv, NEW h \in RunnerIds, MakeFolder(h)
  PROVE  PaperInv' /\ events' = events
<1>1. /\ runner[h].at = "off" /\ NobodyWorks /\ ~folder /\ folder' = TRUE
      /\ RunnerGoes(h, "staging") /\ events' = events
      /\ UNCHANGED <<script, runJson, resultJson, files, indexed, unreported>>
  BY DEF MakeFolder
<1>2. /\ runner' \in [RunnerIds -> RunnerTypes] /\ runner'[h].at = "staging"
      /\ runner'[h].number = runner[h].number /\ runner'[h].agent = runner[h].agent
      /\ \A g \in RunnerIds : g # h => runner'[g] = runner[g]
  BY <1>1, RunnerGoesEffect DEF PaperInv, PaperTypes, RunnerPlaces
<1>3. runner[h].number = 0 /\ runner[h].agent = "none"
  BY <1>1 DEF PaperInv, Knows, NoRunner
<1>4. Knows(h)'
  BY <1>1, <1>2, <1>3 DEF PaperInv, Knows
<1>5. PaperTypes'
  BY <1>1, <1>2 DEF PaperInv, PaperTypes
<1>6. PaperRunIsAccounted'
  <2>1. \A g \in RunnerIds : runner[g].at = "reporting" => runner'[g].at = "reporting"
    BY <1>1, <1>2
  <2>2. QED
    BY <1>1, <2>1, StillAccounted DEF PaperInv
<1>7. QED
  BY <1>1, <1>2, <1>4, <1>5, <1>6, OthersKnow DEF PaperInv

LEMMA WriteStartKeeps ==
  ASSUME PaperInv, NEW h \in RunnerIds, WriteStart(h)
  PROVE  PaperInv' /\ events' = events
<1>1. /\ runner[h].at = "staging" /\ runJson' = [NoRunJson EXCEPT !.state = "running"]
      /\ runner' = [runner EXCEPT ![h].at = "launching", ![h].record = runJson']
      /\ events' = events
      /\ UNCHANGED <<script, folder, resultJson, files, indexed, unreported>>
  BY DEF WriteStart
<1>2. runJson' \in RunRecords /\ runJson'.state = "running" /\ runJson'.resumptions = <<>>
  BY <1>1, NoRunnerType DEF NoRunJson, RunRecords, RunStates
<1>3. runner \in [RunnerIds -> RunnerTypes]
  BY DEF PaperInv, PaperTypes
<1>4. /\ runner' \in [RunnerIds -> RunnerTypes] /\ runner'[h].at = "launching"
      /\ runner'[h].number = runner[h].number /\ runner'[h].agent = runner[h].agent
      /\ runner'[h].record = runJson'
      /\ \A g \in RunnerIds : g # h => runner'[g] = runner[g]
  BY ONLY <1>1, <1>2, <1>3, h \in RunnerIds DEF RunnerTypes, RunnerPlaces
<1>5. /\ runner[h].number = 0 /\ runner[h].agent # "running" /\ Working(h) /\ folder
      /\ \A n \in Numbers : events[n] = 0
  BY <1>1 DEF PaperInv, Knows, Working, RunnerIsLive
<1>6. Knows(h)'
  <2>1. 0 \in Numbers
    BY RunnersAssumption DEF Numbers
  <2>2. QED
    BY <1>1, <1>2, <1>4, <1>5, <2>1 DEF Knows
<1>7. PaperTypes'
  BY <1>1, <1>2, <1>4 DEF PaperInv, PaperTypes
<1>8. PaperRunIsAccounted'
  BY <1>1, <1>2, <1>5
  DEF PaperRunIsAccounted, CompletionIsBacked, ResultFollowsRun, ResumptionsAreRecorded
<1>9. QED
  BY <1>1, <1>4, <1>5, <1>6, <1>7, <1>8, OthersKnow DEF PaperInv

LEMMA ChooseResumptionKeeps ==
  ASSUME PaperInv, NEW h \in RunnerIds, ChooseResumption(h)
  PROVE  PaperInv' /\ events' = events
<1>1. /\ runner[h].at = "off" /\ NobodyWorks /\ folder /\ indexed
      /\ NextResumeNumber \in Numbers
      /\ runner' = [runner EXCEPT ![h].at = "resuming", ![h].number = NextResumeNumber]
      /\ events' = events
      /\ UNCHANGED <<script, folder, runJson, resultJson, files, indexed, unreported>>
  BY DEF ChooseResumption
<1>2. runner \in [RunnerIds -> RunnerTypes] /\ PaperTypes
  BY DEF PaperInv, PaperTypes
<1>3. /\ runner' \in [RunnerIds -> RunnerTypes] /\ runner'[h].at = "resuming"
      /\ runner'[h].number = NextResumeNumber /\ runner'[h].agent = runner[h].agent
      /\ \A g \in RunnerIds : g # h => runner'[g] = runner[g]
  BY ONLY <1>1, <1>2, h \in RunnerIds DEF RunnerTypes, RunnerPlaces
<1>4. runner[h].agent = "none" /\ script \in KimiScripts
  BY <1>1 DEF PaperInv, Knows, NoRunner
<1>5. NextResumeNumber # 0 /\ events[NextResumeNumber] = 0
  BY <1>1, <1>2, NextNumberIsFree DEF Numbers
<1>6. Knows(h)'
  BY <1>1, <1>3, <1>4, <1>5 DEF Knows
<1>7. PaperTypes'
  BY <1>1, <1>2, <1>3 DEF PaperTypes
<1>8. PaperRunIsAccounted'
  <2>1. \A g \in RunnerIds : runner[g].at = "reporting" => runner'[g].at = "reporting"
    BY <1>1, <1>3
  <2>2. QED
    BY <1>1, <2>1, StillAccounted DEF PaperInv
<1>9. QED
  BY <1>1, <1>3, <1>6, <1>7, <1>8, OthersKnow DEF PaperInv

\* A runner that is gone: its agent may work on.
LEMMA LeavingKnows ==
  ASSUME PaperInv, NEW h \in RunnerIds, RunnerLeaves(h), runner[h].at \notin {"off", "gone"},
         runner[h].agent = "running" => runJson'.state # "completed"
  PROVE  /\ runner' \in [RunnerIds -> RunnerTypes] /\ runner'[h].at = "gone"
         /\ \A g \in RunnerIds : g # h => runner'[g] = runner[g]
         /\ \A g \in RunnerIds : Knows(g)'
         /\ \A f, g \in RunnerIds : Working(f)' /\ Working(g)' => f = g
<1>1. /\ runner' \in [RunnerIds -> RunnerTypes] /\ runner'[h].at = "gone"
      /\ runner'[h].agent = IF runner[h].agent = "running" THEN "running" ELSE "none"
      /\ \A g \in RunnerIds : g # h => runner'[g] = runner[g]
  BY RunnerLeavesEffect DEF PaperInv, PaperTypes
<1>2. Working(h)
  BY DEF Working, RunnerIsLive
<1>3. Knows(h)'
  BY <1>1 DEF Knows, RunnerIsLive
<1>4. QED
  BY <1>1, <1>2, <1>3, OthersKnow

LEMMA WriteResumptionKeeps ==
  ASSUME PaperInv, NEW h \in RunnerIds, WriteResumption(h)
  PROVE  PaperInv' /\ events' = events
<1>1. /\ runner[h].at = "resuming" /\ events' = events
      /\ UNCHANGED <<script, folder, resultJson, files, indexed, unreported>>
  BY DEF WriteResumption
<1>2. /\ runner[h].number # 0 /\ script \in KimiScripts /\ runner[h].agent # "running" /\ folder
      /\ events[runner[h].number] = 0 /\ Working(h)
  BY <1>1 DEF PaperInv, Knows, Working, RunnerIsLive
<1>3. CASE runJson.state = "none"
  <2>1. RunnerLeaves(h) /\ runJson' = runJson
    BY <1>3 DEF WriteResumption
  <2>2. /\ runner' \in [RunnerIds -> RunnerTypes] /\ runner'[h].at = "gone"
        /\ \A g \in RunnerIds : g # h => runner'[g] = runner[g]
        /\ \A g \in RunnerIds : Knows(g)'
        /\ \A f, g \in RunnerIds : Working(f)' /\ Working(g)' => f = g
    BY <1>1, <1>2, <2>1, LeavingKnows
  <2>3. PaperTypes'
    BY <1>1, <2>1, <2>2 DEF PaperInv, PaperTypes
  <2>4. \A g \in RunnerIds : runner[g].at = "reporting" => runner'[g].at = "reporting"
    BY <1>1, <2>2
  <2>5. PaperRunIsAccounted'
    BY <1>1, <2>1, <2>4, StillAccounted DEF PaperInv
  <2>6. QED
    BY <1>1, <2>2, <2>3, <2>5 DEF PaperInv
<1>4. CASE runJson.state # "none"
  <2>1. /\ runJson' = [state |-> "running",
                       resumptions |-> Append(runJson.resumptions, runner[h].number)]
        /\ runner' = [runner EXCEPT ![h].at = "launching", ![h].record = runJson']
    BY <1>4 DEF WriteResumption, Resumed
  <2>2. runner \in [RunnerIds -> RunnerTypes] /\ runJson \in RunRecords
    BY DEF PaperInv, PaperTypes
  <2>3. runner[h].number \in Numbers /\ runJson.resumptions \in Seq(Numbers)
    BY <2>2 DEF RunnerTypes, RunRecords
  <2>4. /\ runJson' \in RunRecords /\ runJson'.state = "running"
        /\ runJson'.resumptions = Append(runJson.resumptions, runner[h].number)
    BY <2>1, <2>3 DEF RunRecords, RunStates
  <2>5. /\ Range(runJson.resumptions) \subseteq Range(runJson'.resumptions)
        /\ runner[h].number \in Range(runJson'.resumptions)
    <3> DEFINE old == runJson.resumptions
               new == Append(old, runner[h].number)
    <3>1. /\ DOMAIN old = 1..Len(old) /\ DOMAIN new = 1..(Len(old) + 1) /\ Len(old) \in Nat
          /\ \A i \in 1..Len(old) : new[i] = old[i]
          /\ new[Len(old) + 1] = runner[h].number
      BY <2>3
    <3> HIDE DEF old, new
    <3>2. Range(old) \subseteq Range(new) /\ runner[h].number \in Range(new)
      BY <3>1 DEF Range
    <3>3. QED
      BY <2>4, <3>2 DEF old, new
  <2>6. /\ runner' \in [RunnerIds -> RunnerTypes] /\ runner'[h].at = "launching"
        /\ runner'[h].number = runner[h].number /\ runner'[h].agent = runner[h].agent
        /\ runner'[h].record = runJson'
        /\ \A g \in RunnerIds : g # h => runner'[g] = runner[g]
    BY ONLY <2>1, <2>2, <2>4, h \in RunnerIds DEF RunnerTypes, RunnerPlaces
  <2>7. Knows(h)'
    BY <1>1, <1>2, <2>4, <2>5, <2>6 DEF Knows
  <2>8. PaperTypes'
    BY <1>1, <2>4, <2>6 DEF PaperInv, PaperTypes
  <2>9. PaperRunIsAccounted'
    BY <1>1, <2>4, <2>5
    DEF PaperInv, PaperRunIsAccounted, CompletionIsBacked, ResultFollowsRun, ResumptionsAreRecorded
  <2>10. QED
    BY <1>1, <1>2, <2>6, <2>7, <2>8, <2>9, OthersKnow DEF PaperInv
<1>5. QED
  BY <1>3, <1>4

-----------------------------------------------------------------------------
(* The paper run: the agent *)

LEMMA LaunchAgentKeeps ==
  ASSUME PaperInv, NEW h \in RunnerIds, LaunchAgent(h)
  PROVE  /\ PaperInv'
         /\ \A n \in Numbers : events[n] # 0 => events'[n] = events[n]
<1>1. /\ runner[h].at = "launching" /\ events' = [events EXCEPT ![runner[h].number] = h]
      /\ UNCHANGED <<script, folder, runJson, resultJson, files, indexed, unreported>>
  BY DEF LaunchAgent
<1>2. runner \in [RunnerIds -> RunnerTypes] /\ events \in [Numbers -> RunnerIds \union {0}]
  BY DEF PaperInv, PaperTypes
<1>3. runner[h].number \in Numbers
  BY <1>2 DEF RunnerTypes
<1>4. /\ events[runner[h].number] = 0 /\ Working(h) /\ folder
      /\ runJson.state # "completed"
      /\ runner[h].record.resumptions = runJson.resumptions
      /\ runner[h].number # 0 => /\ script \in KimiScripts
                                /\ runner[h].number \in Range(runJson.resumptions)
      /\ runner[h].record.state # "completed"
  BY <1>1 DEF PaperInv, Knows, Working, RunnerIsLive
<1>5. /\ events' \in [Numbers -> RunnerIds \union {0}]
      /\ \A n \in Numbers : n # runner[h].number => events'[n] = events[n]
  BY <1>1, <1>2, <1>3
<1>6. /\ runner' \in [RunnerIds -> RunnerTypes] /\ runner'[h].at \in {"waiting", "closing"}
      /\ runner'[h].number = runner[h].number
      /\ runner'[h].agent = "running" => runner'[h].at = "waiting"
      /\ runner'[h].record.resumptions = runner[h].record.resumptions
      /\ runner'[h].record.state # "completed"
      /\ \A g \in RunnerIds : g # h => runner'[g] = runner[g]
  <2>1. CASE runner' = [runner EXCEPT ![h].at = "waiting", ![h].agent = "running"]
    BY ONLY <1>2, <1>4, <2>1, h \in RunnerIds DEF RunnerTypes, RunnerPlaces
  <2>2. CASE runner' = [runner EXCEPT ![h].at = "closing", ![h].record.state = "execution_error"]
    <3> DEFINE record == [runner[h].record EXCEPT !.state = "execution_error"]
    <3>1. record \in RunRecords /\ record.state = "execution_error"
          /\ record.resumptions = runner[h].record.resumptions
      BY <1>2 DEF RunnerTypes, RunRecords, RunStates
    <3>2. runner' = [runner EXCEPT ![h].at = "closing", ![h].record = record]
      BY <1>2, <2>2
    <3>3. runner[h].agent # "running"
      BY <1>1 DEF PaperInv, Knows
    <3> HIDE DEF record
    <3>4. /\ runner' \in [RunnerIds -> RunnerTypes] /\ runner'[h].at = "closing"
          /\ runner'[h].number = runner[h].number /\ runner'[h].agent = runner[h].agent
          /\ runner'[h].record = record
          /\ \A g \in RunnerIds : g # h => runner'[g] = runner[g]
      BY ONLY <1>2, <3>1, <3>2, h \in RunnerIds DEF RunnerTypes, RunnerPlaces
    <3>5. QED
      BY <3>1, <3>3, <3>4
  <2>3. QED
    BY <2>1, <2>2 DEF LaunchAgent
<1>7. Knows(h)'
  BY <1>1, <1>4, <1>6 DEF Knows
<1>8. PaperTypes'
  BY <1>1, <1>5, <1>6 DEF PaperInv, PaperTypes
<1>9. PaperRunIsAccounted'
  BY <1>1, <1>4, <1>5
  DEF PaperInv, PaperRunIsAccounted, CompletionIsBacked, ResultFollowsRun, ResumptionsAreRecorded
<1>10. QED
  BY <1>1, <1>4, <1>5, <1>6, <1>7, <1>8, <1>9, OthersKnow DEF PaperInv

\* The steps of an agent, of its time and of what is left of it.
LEMMA AgentWorksKeeps ==
  ASSUME PaperInv, NEW h \in RunnerIds, AgentWorks(h)
  PROVE  PaperInv' /\ events' = events
<1>1. /\ runner[h].agent = "running" /\ runner' = runner /\ events' = events
      /\ UNCHANGED <<script, folder, runJson, resultJson, unreported>>
      /\ indexed' \in BOOLEAN
      /\ indexed' => script \in KimiScripts
  <2>1. indexed \in BOOLEAN /\ (indexed => script \in KimiScripts)
    BY DEF PaperInv, PaperTypes
  <2>2. \/ indexed' = (script \in KimiScripts)
        \/ indexed' = indexed
    BY DEF AgentWorks
  <2>3. indexed' \in BOOLEAN /\ (indexed' => script \in KimiScripts)
    <3>1. CASE indexed' = (script \in KimiScripts)
      <4>1. CASE script \in KimiScripts
        <5>1. (script \in KimiScripts) = TRUE
          BY <4>1
        <5>2. indexed' = TRUE
          BY <3>1, <5>1
        <5>3. QED
          BY <5>2, <4>1
      <4>2. CASE script \notin KimiScripts
        <5>1. (script \in KimiScripts) = FALSE
          BY <4>2
        <5>2. indexed' = FALSE
          BY <3>1, <5>1
        <5>3. QED
          BY <5>2
      <4>3. QED
        BY <4>1, <4>2
    <3>2. CASE indexed' = indexed
      BY ONLY <2>1, <3>2
    <3>3. QED
      BY ONLY <2>2, <3>1, <3>2
  <2>4. QED
    BY <2>3 DEF AgentWorks
<1>2. files' \in SUBSET Outputs
  <2>1. files \in SUBSET Outputs /\ OutputsOf(script) \subseteq Outputs
    BY DEF PaperInv, PaperTypes, OutputsOf, Outputs
  <2>2. QED
    BY <2>1 DEF AgentWorks
<1>3. Working(h) /\ runJson.state # "completed"
  BY <1>1 DEF Working, PaperInv, Knows
<1>4. runner[h].at # "closing"
  BY <1>1 DEF PaperInv, Knows
<1>5. Knows(h)'
  <2>1. Knows(h)
    BY DEF PaperInv
  <2>2. QED
    BY <1>1, <1>4, <2>1 DEF Knows, RunnerIsLive
<1>6. PaperTypes'
  BY <1>1, <1>2 DEF PaperInv, PaperTypes
<1>7. PaperRunIsAccounted'
  BY <1>1, <1>3, StillAccounted DEF PaperInv
<1>8. \A g \in RunnerIds : g # h => runner'[g] = runner[g]
  BY <1>1
<1>9. runner' \in [RunnerIds -> RunnerTypes]
  BY <1>6 DEF PaperTypes
<1>10. QED
  BY <1>1, <1>3, <1>5, <1>6, <1>7, <1>8, <1>9, OthersKnow DEF PaperInv

LEMMA AgentEndsKeeps ==
  ASSUME PaperInv, NEW h \in RunnerIds, AgentEnds(h)
  PROVE  PaperInv' /\ events' = events
<1>1. /\ runner[h].agent = "running" /\ events' = events
      /\ UNCHANGED <<script, folder, runJson, resultJson, indexed, unreported>>
      /\ files' \in {files, files \union {"final"}}
  BY DEF AgentEnds
<1>2. runner \in [RunnerIds -> RunnerTypes] /\ files \in SUBSET Outputs
  BY DEF PaperInv, PaperTypes
<1>3. /\ runner' \in [RunnerIds -> RunnerTypes] /\ runner'[h].at = runner[h].at
      /\ runner'[h].number = runner[h].number /\ runner'[h].record = runner[h].record
      /\ runner'[h].agent # "running"
      /\ \A g \in RunnerIds : g # h => runner'[g] = runner[g]
  <2>1. PICK end \in {"ok", "failed"}, text \in BOOLEAN :
          runner' = IF RunnerIsLive(h)
                    THEN [runner EXCEPT ![h].agent = end, ![h].text = text]
                    ELSE [runner EXCEPT ![h].agent = "none"]
    BY DEF AgentEnds
  <2>2. CASE runner' = [runner EXCEPT ![h].agent = end, ![h].text = text]
    BY ONLY <1>2, <2>2, h \in RunnerIds, end \in {"ok", "failed"}, text \in BOOLEAN DEF RunnerTypes
  <2>3. CASE runner' = [runner EXCEPT ![h].agent = "none"]
    BY ONLY <1>2, <2>3, h \in RunnerIds DEF RunnerTypes
  <2>4. QED
    BY <2>1, <2>2, <2>3
<1>4. /\ Working(h) /\ runJson.state # "completed" /\ runner[h].at \in {"waiting", "gone"}
      /\ Knows(h)
  BY <1>1 DEF Working, PaperInv, Knows
<1>5. Knows(h)'
  BY <1>1, <1>3, <1>4 DEF Knows, RunnerIsLive
<1>6. PaperTypes'
  BY <1>1, <1>2, <1>3 DEF PaperInv, PaperTypes, Outputs
<1>7. PaperRunIsAccounted'
  <2>1. \A g \in RunnerIds : runner[g].at = "reporting" => runner'[g].at = "reporting"
    BY <1>3
  <2>2. QED
    BY <1>1, <1>4, <2>1, StillAccounted DEF PaperInv
<1>8. QED
  BY <1>1, <1>3, <1>4, <1>5, <1>6, <1>7, OthersKnow DEF PaperInv

LEMMA AgentTimesOutKeeps ==
  ASSUME PaperInv, NEW h \in RunnerIds, AgentTimesOut(h)
  PROVE  PaperInv' /\ events' = events
<1>1. /\ runner[h].agent = "running" /\ runner[h].at = "waiting" /\ events' = events
      /\ UNCHANGED <<script, folder, runJson, resultJson, files, indexed, unreported>>
  BY DEF AgentTimesOut
<1>2. runner \in [RunnerIds -> RunnerTypes]
  BY DEF PaperInv, PaperTypes
<1>3. /\ runner' \in [RunnerIds -> RunnerTypes] /\ runner'[h].at = runner[h].at
      /\ runner'[h].number = runner[h].number /\ runner'[h].record = runner[h].record
      /\ runner'[h].agent # "running"
      /\ \A g \in RunnerIds : g # h => runner'[g] = runner[g]
  <2>1. PICK text \in BOOLEAN :
          runner' = [runner EXCEPT ![h].agent = "timed_out", ![h].text = text]
    BY DEF AgentTimesOut
  <2>2. QED
    BY ONLY <1>2, <2>1, h \in RunnerIds, text \in BOOLEAN DEF RunnerTypes
<1>4. Working(h) /\ runJson.state # "completed" /\ Knows(h)
  BY <1>1 DEF Working, PaperInv, Knows
<1>5. Knows(h)'
  BY <1>1, <1>3, <1>4 DEF Knows, RunnerIsLive
<1>6. PaperTypes'
  BY <1>1, <1>2, <1>3 DEF PaperInv, PaperTypes
<1>7. PaperRunIsAccounted'
  <2>1. \A g \in RunnerIds : runner[g].at = "reporting" => runner'[g].at = "reporting"
    BY <1>3
  <2>2. QED
    BY <1>1, <1>4, <2>1, StillAccounted DEF PaperInv
<1>8. QED
  BY <1>1, <1>3, <1>4, <1>5, <1>6, <1>7, OthersKnow DEF PaperInv

LEMMA StragglerKeeps ==
  ASSUME PaperInv, StragglerSaves
  PROVE  PaperInv' /\ events' = events
<1>1. /\ files' = files \union {"dwg"} /\ runner' = runner /\ events' = events
      /\ UNCHANGED <<script, folder, runJson, resultJson, indexed, unreported>>
  BY DEF StragglerSaves
<1>2. PaperTypes'
  BY <1>1 DEF PaperInv, PaperTypes, Outputs
<1>3. \A h \in RunnerIds : Knows(h)'
  <2> TAKE h \in RunnerIds
  <2>1. Knows(h)
    BY DEF PaperInv
  <2>2. Backed(runner[h].record.resumptions) => Backed(runner[h].record.resumptions)'
    BY <1>1 DEF Backed
  <2>3. QED
    BY <1>1, <2>1, <2>2 DEF Knows, RunnerIsLive
<1>4. \A f, g \in RunnerIds : Working(f)' /\ Working(g)' => f = g
  BY <1>1 DEF PaperInv, Working, RunnerIsLive
<1>5. PaperRunIsAccounted'
  BY <1>1, StillAccounted DEF PaperInv
<1>6. QED
  BY <1>1, <1>2, <1>3, <1>4, <1>5 DEF PaperInv

-----------------------------------------------------------------------------
(* The paper run: the end *)

LEMMA ClosesKeeps ==
  ASSUME PaperInv, NEW h \in RunnerIds, CloseKimi(h) \/ CloseCae(h) \/ CloseResumption(h) \/ CloseCodex(h)
  PROVE  PaperInv' /\ events' = events
<1>1. PICK there \in BOOLEAN : Closes(h, there)
  BY DEF CloseKimi, CloseCae, CloseResumption, CloseCodex
<1>2. /\ runner[h].at = "waiting" /\ runner[h].agent # "running" /\ events' = events
      /\ UNCHANGED <<script, folder, runJson, resultJson, indexed, unreported>>
  BY <1>1 DEF Closes
<1>3. runner \in [RunnerIds -> RunnerTypes] /\ files \in SUBSET Outputs /\ script \in PaperScripts
  BY DEF PaperInv, PaperTypes
<1>4. files \subseteq files' /\ files' \in SUBSET Outputs
  BY <1>3 DEF CloseKimi, CloseCae, CloseResumption, CloseCodex, SaveFinal, Outputs
<1>5. /\ Working(h) /\ runJson.state # "completed" /\ folder
      /\ runner[h].record.resumptions = runJson.resumptions
      /\ runner[h].number # 0 => /\ script \in KimiScripts
                                /\ runner[h].number \in Range(runJson.resumptions)
  BY <1>2 DEF Working, RunnerIsLive, PaperInv, Knows
<1>6. PICK state \in RunStates :
        /\ runner' = [runner EXCEPT ![h].at = "closing", ![h].record.state = state]
        /\ state = "completed" => Backed(runJson.resumptions)'
  <2>2. runner[h].number \in Nat /\ (runner[h].number # 0 => runJson.resumptions # <<>>)
    BY <1>3, <1>5 DEF RunnerTypes, Numbers, Range
  <2>3. CASE CloseKimi(h)
    <3>1. Closes(h, runner[h].text /\ "dwg" \in files) /\ script = "kimi" /\ SaveFinal(h)
      BY <2>3 DEF CloseKimi
    <3>2. runner[h].text /\ "dwg" \in files => Backed(runJson.resumptions)'
      BY <1>2, <1>3, <1>4, <3>1 DEF SaveFinal, Backed
    <3>3. QED
      BY <3>1, <3>2 DEF Closes, RunStates
  <2>4. CASE CloseCae(h)
    <3>1. /\ Closes(h, runner[h].text /\ {"dwg", "mesh"} \subseteq files)
          /\ script = "cae" /\ SaveFinal(h)
      BY <2>4 DEF CloseCae
    <3>2. runner[h].text /\ {"dwg", "mesh"} \subseteq files => Backed(runJson.resumptions)'
      BY <1>2, <1>3, <1>4, <3>1 DEF SaveFinal, Backed
    <3>3. QED
      BY <3>1, <3>2 DEF Closes, RunStates
  <2>5. CASE CloseResumption(h)
    <3>1. /\ Closes(h, runner[h].text /\ "dwg" \in files) /\ SaveFinal(h)
          /\ runner[h].number # 0
      BY <2>2, <2>5 DEF CloseResumption
    <3>2. runner[h].text /\ "dwg" \in files => Backed(runJson.resumptions)'
      BY <1>2, <1>3, <1>4, <1>5, <2>2, <3>1 DEF SaveFinal, Backed, KimiScripts
    <3>3. QED
      BY <3>1, <3>2 DEF Closes, RunStates
  <2>6. CASE CloseCodex(h)
    <3> DEFINE all == IF script = "package" THEN {"dwg", "report"} \subseteq files
                      ELSE "final" \in files /\ files \intersect {"dwg", "jobDwg"} # {}
    <3>1. Closes(h, all) /\ script \notin KimiScripts /\ files' = files
      BY <2>6 DEF CloseCodex
    <3>2. all => Backed(runJson.resumptions)'
      BY <1>2, <1>3, <3>1 DEF Backed, KimiScripts, PaperScripts
    <3> HIDE DEF all
    <3>3. QED
      BY <3>1, <3>2 DEF Closes, RunStates
  <2>7. QED
    BY <2>3, <2>4, <2>5, <2>6
<1>7. /\ runner' \in [RunnerIds -> RunnerTypes] /\ runner'[h].at = "closing"
      /\ runner'[h].number = runner[h].number /\ runner'[h].agent = runner[h].agent
      /\ runner'[h].record.resumptions = runner[h].record.resumptions
      /\ runner'[h].record.state = state
      /\ \A g \in RunnerIds : g # h => runner'[g] = runner[g]
  <2> DEFINE record == [runner[h].record EXCEPT !.state = state]
  <2>1. record \in RunRecords /\ record.state = state
        /\ record.resumptions = runner[h].record.resumptions
    BY <1>3 DEF RunnerTypes, RunRecords
  <2>2. runner' = [runner EXCEPT ![h].at = "closing", ![h].record = record]
    BY <1>3, <1>6
  <2> HIDE DEF record
  <2>3. /\ runner' \in [RunnerIds -> RunnerTypes] /\ runner'[h].at = "closing"
        /\ runner'[h].number = runner[h].number /\ runner'[h].agent = runner[h].agent
        /\ runner'[h].record = record
        /\ \A g \in RunnerIds : g # h => runner'[g] = runner[g]
    BY ONLY <1>3, <2>1, <2>2, h \in RunnerIds DEF RunnerTypes, RunnerPlaces
  <2>4. QED
    BY <2>1, <2>3
<1>8. Knows(h)'
  <2>1. state = "completed" => Backed(runner[h].record.resumptions)'
    BY <1>2, <1>5, <1>6, <1>7 DEF Backed
  <2>2. QED
    BY <1>2, <1>5, <1>7, <2>1 DEF Knows, RunnerIsLive
<1>9. PaperTypes'
  BY <1>2, <1>4, <1>7 DEF PaperInv, PaperTypes
<1>10. PaperRunIsAccounted'
  <2>1. \A g \in RunnerIds : runner[g].at = "reporting" => runner'[g].at = "reporting"
    BY <1>2, <1>7
  <2>2. QED
    BY <1>2, <1>5, <2>1, StillAccounted DEF PaperInv
<1>11. QED
  BY <1>2, <1>5, <1>7, <1>8, <1>9, <1>10, OthersKnow DEF PaperInv

LEMMA WriteEndKeeps ==
  ASSUME PaperInv, NEW h \in RunnerIds, WriteEndOfRun(h)
  PROVE  PaperInv' /\ events' = events
<1>1. /\ runner[h].at = "closing" /\ runJson' = runner[h].record /\ RunnerGoes(h, "reporting")
      /\ events' = events
      /\ UNCHANGED <<script, folder, resultJson, files, indexed, unreported>>
  BY DEF WriteEndOfRun
<1>2. runner \in [RunnerIds -> RunnerTypes]
  BY DEF PaperInv, PaperTypes
<1>3. /\ runner' \in [RunnerIds -> RunnerTypes] /\ runner'[h].at = "reporting"
      /\ runner'[h].number = runner[h].number /\ runner'[h].record = runner[h].record
      /\ runner'[h].agent = runner[h].agent
      /\ \A g \in RunnerIds : g # h => runner'[g] = runner[g]
  BY <1>1, <1>2, RunnerGoesEffect DEF RunnerPlaces
<1>4. /\ Working(h) /\ folder /\ runner[h].agent # "running"
      /\ runner[h].record.resumptions = runJson.resumptions
      /\ runner[h].record.state = "completed" => Backed(runner[h].record.resumptions)
  BY <1>1 DEF Working, RunnerIsLive, PaperInv, Knows
<1>5. runJson' \in RunRecords
  BY <1>1, <1>2 DEF RunnerTypes
<1>6. Knows(h)'
  BY <1>1, <1>3, <1>4 DEF Knows, RunnerIsLive
<1>7. PaperTypes'
  BY <1>1, <1>3, <1>5 DEF PaperInv, PaperTypes
<1>8. PaperRunIsAccounted'
  <2>1. CompletionIsBacked'
    BY <1>1, <1>4 DEF CompletionIsBacked, Backed
  <2>2. ResultFollowsRun'
    BY <1>3 DEF ResultFollowsRun
  <2>3. ResumptionsAreRecorded'
    BY <1>1, <1>4 DEF PaperInv, PaperRunIsAccounted, ResumptionsAreRecorded
  <2>4. QED
    BY <2>1, <2>2, <2>3 DEF PaperRunIsAccounted
<1>9. QED
  BY <1>1, <1>3, <1>4, <1>6, <1>7, <1>8, OthersKnow DEF PaperInv

LEMMA WriteResultKeeps ==
  ASSUME PaperInv, NEW h \in RunnerIds, WriteResult(h)
  PROVE  PaperInv' /\ events' = events
<1>1. /\ runner[h].at = "reporting" /\ RunnerLeaves(h) /\ events' = events
      /\ runner[h].record.state = "completed" => resultJson' = "artifacts_ready_for_human_review"
      /\ UNCHANGED <<script, folder, runJson, files, indexed, unreported>>
  BY DEF WriteResult
<1>2. runner[h].agent # "running" /\ runner[h].record = runJson
  BY <1>1 DEF PaperInv, Knows
<1>3. /\ runner' \in [RunnerIds -> RunnerTypes] /\ runner'[h].at = "gone"
      /\ \A g \in RunnerIds : g # h => runner'[g] = runner[g]
      /\ \A g \in RunnerIds : Knows(g)'
      /\ \A f, g \in RunnerIds : Working(f)' /\ Working(g)' => f = g
  BY <1>1, <1>2, LeavingKnows
<1>4. PaperTypes'
  BY <1>1, <1>3 DEF PaperInv, PaperTypes
<1>5. PaperRunIsAccounted'
  BY <1>1, <1>2
  DEF PaperInv, PaperRunIsAccounted, CompletionIsBacked, ResultFollowsRun, ResumptionsAreRecorded
<1>6. QED
  BY <1>1, <1>3, <1>4, <1>5 DEF PaperInv

LEMMA RunnerDiesKeeps ==
  ASSUME PaperInv, NEW h \in RunnerIds, RunnerDies(h)
  PROVE  PaperInv' /\ events' = events
<1>1. /\ runner[h].at \notin {"off", "gone"} /\ RunnerLeaves(h) /\ events' = events
      /\ unreported' = (unreported \/ runner[h].at = "reporting")
      /\ UNCHANGED <<script, folder, runJson, resultJson, files, indexed>>
  BY DEF RunnerDies, RunnerIsLive
<1>2. runner[h].agent = "running" => runJson'.state # "completed"
  BY <1>1 DEF PaperInv, Knows
<1>3. /\ runner' \in [RunnerIds -> RunnerTypes] /\ runner'[h].at = "gone"
      /\ \A g \in RunnerIds : g # h => runner'[g] = runner[g]
      /\ \A g \in RunnerIds : Knows(g)'
      /\ \A f, g \in RunnerIds : Working(f)' /\ Working(g)' => f = g
  BY <1>1, <1>2, LeavingKnows
<1>4. unreported \in BOOLEAN
  BY DEF PaperInv, PaperTypes
<1>5. PaperTypes'
  BY <1>1, <1>3, <1>4 DEF PaperInv, PaperTypes
<1>6. PaperRunIsAccounted'
  <2>1. ~unreported' => \A g \in RunnerIds : runner[g].at = "reporting" => runner'[g].at = "reporting"
    BY <1>1, <1>3
  <2>2. unreported' \/ unreported' = unreported
    BY <1>1, <1>4
  <2>3. QED
    BY <1>1, <2>1, <2>2, StillAccounted DEF PaperInv
<1>7. QED
  BY <1>1, <1>3, <1>5, <1>6 DEF PaperInv

-----------------------------------------------------------------------------
(* The paper run: the theorems *)

LEMMA PaperStart == PaperInit => PaperInv
<1> SUFFICES ASSUME PaperInit PROVE PaperInv
  OBVIOUS
<1>1. PaperTypes
  BY NoRunnerType, RunnersAssumption DEF PaperInit, PaperTypes, Numbers, Outputs
<1>2. \A h \in RunnerIds : Knows(h) /\ ~Working(h)
  BY DEF PaperInit, Knows, Working, RunnerIsLive, NoRunner
<1>3. PaperRunIsAccounted
  BY DEF PaperInit, NoRunJson, PaperRunIsAccounted, CompletionIsBacked, ResultFollowsRun,
         ResumptionsAreRecorded
<1>4. QED
  BY <1>1, <1>2, <1>3 DEF PaperInit, PaperInv

LEMMA PaperKeeps ==
  ASSUME PaperInv, [PaperNext]_paperVars
  PROVE  PaperInv' /\ \A n \in Numbers : events[n] # 0 => events'[n] = events[n]
<1>1. CASE UNCHANGED paperVars
  BY <1>1
  DEF paperVars, PaperInv, PaperTypes, Knows, Backed, Working, RunnerIsLive, PaperRunIsAccounted,
      CompletionIsBacked, ResultFollowsRun, ResumptionsAreRecorded
<1>2. CASE StragglerSaves
  BY <1>2, StragglerKeeps
<1>3. ASSUME NEW h \in RunnerIds,
             \/ MakeFolder(h) \/ WriteStart(h) \/ ChooseResumption(h) \/ WriteResumption(h)
             \/ LaunchAgent(h) \/ AgentWorks(h) \/ AgentEnds(h) \/ AgentTimesOut(h)
             \/ CloseKimi(h) \/ CloseCae(h) \/ CloseResumption(h) \/ CloseCodex(h)
             \/ WriteEndOfRun(h) \/ WriteResult(h) \/ RunnerDies(h)
      PROVE  PaperInv' /\ \A n \in Numbers : events[n] # 0 => events'[n] = events[n]
  BY <1>3, MakeFolderKeeps, WriteStartKeeps, ChooseResumptionKeeps, WriteResumptionKeeps,
     LaunchAgentKeeps, AgentWorksKeeps, AgentEndsKeeps, AgentTimesOutKeeps, ClosesKeeps,
     WriteEndKeeps, WriteResultKeeps, RunnerDiesKeeps
<1>4. QED
  BY <1>1, <1>2, <1>3 DEF PaperNext

\* The invariant of a paper run holds in every state, however often it dies and is resumed.
THEOREM PaperInvariance == PaperSpec => []PaperInv
<1>1. PaperInv /\ [PaperNext]_paperVars => PaperInv'
  BY PaperKeeps
<1>2. QED
  BY <1>1, PaperStart, PTL DEF PaperSpec

\* No resumption takes an event of an earlier one away (EventsAreKept).
THEOREM EventsKept == PaperSpec => EventsAreKept
<1>1. PaperInv /\ [PaperNext]_paperVars
        => [\A n \in Numbers : events[n] # 0 => events'[n] = events[n]]_paperVars
  BY PaperKeeps
<1>2. QED
  BY <1>1, PaperInvariance, PTL DEF PaperSpec, EventsAreKept

(***************************************************************************)
(* A registered trial                                                      *)
(***************************************************************************)

Inputs == [image : Nat, rest : Nat]
Configs ==
  [state : {"none", "prepared", "running", "evaluating", "completed", "execution_error"},
   seals : Inputs, done : Nat]
NativePlaces == {"registering", "conversing", "evaluating", "scoring", "reporting", "completing"}
LoopPlaces == {"selecting", "recording", "exporting", "publishing", "failing"}
LauncherPlaces == {"off", "gone", "staging", "launching"} \union NativePlaces \union LoopPlaces
LauncherTypes == [at : LauncherPlaces, config : Configs, catalog : Seq(Nat)]

TrialTypes ==
  /\ trialScript \in TrialScripts /\ inputs \in Inputs /\ trialDir \in BOOLEAN
  /\ config \in Configs /\ ledgerRun \in BOOLEAN /\ verdicts \in Nat
  /\ modelRuns \in Seq(Inputs) /\ trialResults \in Nat /\ trialResults <= Drawings
  /\ catalog \in Seq(Nat) /\ exported \subseteq Nat
  /\ launcher \in [Launchers -> LauncherTypes]

\* What a process that may launch knows of the inputs that lie there.
Agree(seals) ==
  /\ trialScript = "codex" => inputs.image \in {NoImage, seals.image}
  /\ trialScript = "kimi" => inputs = seals

\* Only one process prepares, and nothing changes what it sealed while one is at work.
Sealed(p) ==
  /\ launcher[p].at = "staging" => trialDir /\ config = NoConfig
  /\ LauncherIsLive(p) /\ launcher[p].at # "staging" =>
       /\ config.state # "none" /\ Agree(config.seals)
       /\ launcher[p].config.seals = config.seals /\ launcher[p].config.state \notin {"none", "completed"}
  /\ launcher[p].at = "launching" => launcher[p].config.done = 0
  /\ launcher[p].at \in NativePlaces => trialScript # "evo"
  /\ launcher[p].at \in LoopPlaces =>
       trialScript = "evo" /\ launcher[p].config.state # "prepared"

SealInv ==
  /\ ~trialDir => config = NoConfig
  /\ config.state = "none" => modelRuns = <<>>
  /\ config.state = "prepared" => config.done = 0
  /\ \A p \in Launchers : launcher[p].at = "staging" =>
       \A q \in Launchers : LauncherIsLive(q) => q = p
  /\ \A p \in Launchers : Sealed(p)
  /\ ModelSawSealed

\* The process that took the directory in the ledger.
Converses(p) == launcher[p].at \in NativePlaces \ {"registering"}

\* Only one does, and the counts tell how far it came.
ConversationInv ==
  /\ \A p, q \in Launchers : Converses(p) /\ Converses(q) => p = q
  /\ trialScript # "evo" /\ ~ledgerRun => modelRuns = <<>> /\ verdicts = 0
  /\ \A p \in Launchers :
       /\ Converses(p) => ledgerRun
       /\ launcher[p].at = "conversing" => modelRuns = <<>> /\ verdicts = 0
       /\ launcher[p].at \in {"evaluating", "scoring"} => Len(modelRuns) = 1 /\ verdicts = 0
       /\ launcher[p].at \in {"reporting", "completing"} => Len(modelRuns) = 1 /\ verdicts = 1
       /\ launcher[p].at = "completing" => trialResults = 1
  /\ ModelIsAskedOnce
  /\ trialScript # "evo" /\ config.state = "completed" =>
       /\ trialResults = 1 /\ verdicts = 1 /\ ledgerRun
       /\ \A p \in Launchers : ~Converses(p)

Listed(entries) == {entries[k] : k \in DOMAIN entries}

\* The process that exported the first drawing: all others fail there.
Owns(p) ==
  \/ launcher[p].at \in {"selecting", "recording"} /\ launcher[p].config.done >= 1
  \/ launcher[p].at = "exporting" /\ launcher[p].config.done >= 2
  \/ launcher[p].at = "publishing"

\* What it published, while it goes through the drawings.
Published(p) ==
  /\ launcher[p].at \in {"selecting", "recording", "exporting", "publishing"} =>
       launcher[p].config.done <= trialResults
  /\ launcher[p].at = "recording" => launcher[p].config.done + 1 <= trialResults
  /\ launcher[p].at \in {"exporting", "publishing"} => launcher[p].config.done >= 1
  /\ launcher[p].at = "publishing" => launcher[p].catalog = catalog
  /\ Owns(p) =>
       /\ 1 \in exported
       /\ Listed(catalog) = IF launcher[p].at \in {"selecting", "recording"}
                              THEN 1..launcher[p].config.done
                              ELSE 1..(launcher[p].config.done - 1)

CatalogInv ==
  /\ \A p, q \in Launchers : Owns(p) /\ Owns(q) => p = q
  /\ 1 \notin exported => catalog = <<>>
  /\ \A p \in Launchers : Published(p)
  /\ \A k, l \in DOMAIN catalog : catalog[k] = catalog[l] => k = l
  /\ trialScript = "evo" /\ config.state = "completed" =>
       /\ trialResults = Drawings /\ Listed(catalog) = 1..Drawings /\ 1 \in exported
       /\ \A p \in Launchers : ~Owns(p)

TrialInv == TrialTypes /\ SealInv /\ ConversationInv /\ CatalogInv

LEMMA NothingYet ==
  /\ NoConfig \in Configs /\ NoConfig.state = "none"
  /\ NoLauncher \in LauncherTypes /\ NoLauncher.at = "off"
<1>1. NoConfig \in Configs /\ NoConfig.state = "none"
  <2>1. StagedInputs \in Inputs
    BY DEF StagedInputs, Inputs
  <2>2. QED
    BY <2>1 DEF NoConfig, Configs
<1>2. <<>> \in Seq(Nat) /\ "off" \in LauncherPlaces
  BY DEF LauncherPlaces
<1>3. QED
  BY <1>1, <1>2 DEF NoLauncher, LauncherTypes

LEMMA TrialStarts == TrialInit => TrialInv
<1>1. SUFFICES ASSUME TrialInit PROVE TrialInv
  OBVIOUS
<1>2. /\ NoConfig \in Configs /\ NoConfig.state = "none"
      /\ NoLauncher \in LauncherTypes /\ NoLauncher.at = "off"
  BY NothingYet
<1>3. TrialTypes
  <2>1. launcher \in [Launchers -> LauncherTypes]
    BY <1>1, <1>2 DEF TrialInit
  <2>2. Drawings \in Nat /\ 0 <= Drawings
    BY TrialAssumption
  <2>3. trialScript \in TrialScripts /\ config \in Configs
    BY <1>1, <1>2 DEF TrialInit
  <2>4. modelRuns \in Seq(Inputs) /\ catalog \in Seq(Nat) /\ exported \subseteq Nat
    BY <1>1 DEF TrialInit
  <2>5. /\ inputs \in Inputs /\ trialDir \in BOOLEAN /\ ledgerRun \in BOOLEAN /\ verdicts \in Nat
        /\ trialResults \in Nat /\ trialResults <= Drawings
    BY <1>1, <2>2 DEF TrialInit, StagedInputs, Inputs
  <2>6. QED
    BY <2>1, <2>3, <2>4, <2>5 DEF TrialTypes
<1>4. \A p \in Launchers : launcher[p].at = "off"
  BY <1>1, <1>2 DEF TrialInit
<1>5. SealInv
  BY <1>1, <1>2, <1>4
  DEF TrialInit, SealInv, Sealed, LauncherIsLive, NativePlaces, LoopPlaces, ModelSawSealed, Agree
<1>6. ConversationInv
  BY <1>1, <1>2, <1>4 DEF TrialInit, ConversationInv, Converses, NativePlaces, ModelIsAskedOnce
<1>7. CatalogInv
  BY <1>1, <1>2, <1>4 DEF TrialInit, CatalogInv, Owns, Published
<1>8. QED
  BY <1>3, <1>5, <1>6, <1>7 DEF TrialInv

-----------------------------------------------------------------------------
(* Moves of a process *)

LEMMA Moves ==
  ASSUME launcher \in [Launchers -> LauncherTypes], NEW p \in Launchers,
         NEW to \in LauncherPlaces, NEW record \in Configs, Proceeds(p, to, record)
  PROVE  /\ launcher' \in [Launchers -> LauncherTypes]
         /\ launcher'[p].at = to /\ launcher'[p].config = record
         /\ launcher'[p].catalog = launcher[p].catalog
         /\ \A q \in Launchers : q # p => launcher'[q] = launcher[q]
<1>1. launcher' = [launcher EXCEPT ![p].at = to, ![p].config = record]
  BY DEF Proceeds
<1> DEFINE moved == [launcher[p] EXCEPT !.at = to, !.config = record]
<1>2. launcher[p] \in LauncherTypes /\ launcher' = [launcher EXCEPT ![p] = moved]
  BY <1>1 DEF LauncherTypes
<1>3. /\ moved \in LauncherTypes /\ moved.at = to /\ moved.config = record
      /\ moved.catalog = launcher[p].catalog
  BY ONLY <1>2, to \in LauncherPlaces, record \in Configs DEF LauncherTypes
<1> HIDE DEF moved
<1>4. QED
  BY ONLY <1>2, <1>3, p \in Launchers, launcher \in [Launchers -> LauncherTypes]

LEMMA Gone ==
  ASSUME launcher \in [Launchers -> LauncherTypes], NEW p \in Launchers, Stops(p)
  PROVE  /\ launcher' \in [Launchers -> LauncherTypes] /\ launcher'[p].at = "gone"
         /\ \A q \in Launchers : q # p => launcher'[q] = launcher[q]
<1> DEFINE gone == [NoLauncher EXCEPT !.at = "gone"]
<1>1. launcher' = [launcher EXCEPT ![p] = gone]
  BY DEF Stops
<1>2. gone \in LauncherTypes /\ gone.at = "gone"
  <2>1. NoLauncher \in LauncherTypes /\ "gone" \in LauncherPlaces
    BY NothingYet DEF LauncherPlaces
  <2>2. QED
    BY ONLY <2>1 DEF LauncherTypes
<1> HIDE DEF gone
<1>3. QED
  BY ONLY <1>1, <1>2, p \in Launchers, launcher \in [Launchers -> LauncherTypes]

\* What a process has, by its type.
LEMMA LauncherFields ==
  ASSUME TrialTypes, NEW p \in Launchers
  PROVE  /\ launcher[p].at \in LauncherPlaces /\ launcher[p].config \in Configs
         /\ launcher[p].catalog \in Seq(Nat)
         /\ launcher[p].config.done \in Nat /\ launcher[p].config.seals \in Inputs
BY DEF TrialTypes, LauncherTypes, Configs

\* A process that stops, whatever it had done, and leaves everything as it is.
LEMMA StopKeeps ==
  ASSUME TrialInv, NEW p \in Launchers, Stops(p), UNCHANGED <<setupVars, config, runVars, catalogVars>>
  PROVE  TrialInv'
<1>1. /\ launcher' \in [Launchers -> LauncherTypes] /\ launcher'[p].at = "gone"
      /\ \A q \in Launchers : q # p => launcher'[q] = launcher[q]
  BY Gone DEF TrialInv, TrialTypes
<1>2. UNCHANGED <<trialScript, inputs, trialDir, config, ledgerRun, verdicts, modelRuns,
                  trialResults, exported, catalog>>
  BY DEF setupVars, runVars, catalogVars
<1>3. TrialTypes'
  BY <1>1, <1>2 DEF TrialInv, TrialTypes
<1>4. SealInv'
  BY <1>1, <1>2 DEF TrialInv, SealInv, Sealed, LauncherIsLive, NativePlaces, LoopPlaces, ModelSawSealed, Agree
<1>5. ConversationInv'
  BY <1>1, <1>2 DEF TrialInv, ConversationInv, Converses, NativePlaces, ModelIsAskedOnce
<1>6. CatalogInv'
  <2>1. ~Owns(p)' /\ Published(p)'
    BY <1>1 DEF Owns, Published
  <2>2. \A q \in Launchers : q # p => (Owns(q)' <=> Owns(q)) /\ (Published(q)' <=> Published(q))
    BY <1>1, <1>2 DEF Owns, Published
  <2>3. QED
    BY <1>2, <2>1, <2>2 DEF TrialInv, CatalogInv
<1>7. QED
  BY <1>3, <1>4, <1>5, <1>6 DEF TrialInv

\* The parts of the invariant about the catalog do not see the steps of others.
LEMMA CatalogUntouched ==
  ASSUME CatalogInv, NEW p \in Launchers,
         \A q \in Launchers : q # p => launcher'[q] = launcher[q],
         launcher'[p].at \notin {"selecting", "recording", "exporting", "publishing"},
         UNCHANGED <<trialScript, exported, catalog>>,
         trialScript = "evo" => trialResults' = trialResults /\ config'.state # "completed",
         trialResults' = trialResults \/ \A q \in Launchers : launcher[q].at \notin LoopPlaces
  PROVE  CatalogInv'
<1>1. ~Owns(p)' /\ Published(p)'
  BY DEF Owns, Published
<1>2. \A q \in Launchers : q # p => (Owns(q)' <=> Owns(q)) /\ Published(q)'
  BY DEF Owns, Published, CatalogInv, LoopPlaces
<1>3. QED
  BY <1>1, <1>2 DEF CatalogInv

\* Nor do those about the conversation see the loop's.
LEMMA ConversationUntouched ==
  ASSUME ConversationInv, NEW p \in Launchers,
         \A q \in Launchers : q # p => launcher'[q] = launcher[q],
         launcher'[p].at \notin NativePlaces \ {"registering"},
         UNCHANGED <<trialScript, ledgerRun, verdicts, modelRuns>>,
         trialScript # "evo" => trialResults' = trialResults /\ config'.state # "completed",
         trialScript = "evo" => \A q \in Launchers : launcher[q].at \notin NativePlaces
  PROVE  ConversationInv'
<1>1. ~Converses(p)'
  BY DEF Converses
<1>2. \A q \in Launchers : q # p => (Converses(q)' <=> Converses(q))
  BY DEF Converses
<1>3. CASE trialScript # "evo"
  BY <1>1, <1>2, <1>3 DEF ConversationInv, Converses, NativePlaces, ModelIsAskedOnce
<1>4. CASE trialScript = "evo"
  BY <1>1, <1>2, <1>4 DEF ConversationInv, Converses, NativePlaces, ModelIsAskedOnce
<1>5. QED
  BY <1>3, <1>4

-----------------------------------------------------------------------------
(* Preparing and launching *)

LEMMA MakeTrialDirKeeps ==
  ASSUME TrialInv, NEW p \in Launchers, MakeTrialDir(p)
  PROVE  TrialInv'
<1>1. /\ launcher[p].at = "off" /\ ~trialDir /\ trialDir' = TRUE
      /\ Proceeds(p, "staging", NoConfig)
      /\ UNCHANGED <<trialScript, inputs, config, ledgerRun, verdicts, modelRuns, trialResults,
                     exported, catalog>>
  BY DEF MakeTrialDir, runVars, catalogVars
<1>2. "staging" \in LauncherPlaces /\ NoConfig \in Configs
  BY NothingYet DEF LauncherPlaces
<1>3. /\ launcher' \in [Launchers -> LauncherTypes] /\ launcher'[p].at = "staging"
      /\ \A q \in Launchers : q # p => launcher'[q] = launcher[q]
  BY <1>1, <1>2, Moves DEF TrialInv, TrialTypes
<1>4. config = NoConfig /\ config.state = "none"
  BY <1>1 DEF TrialInv, SealInv, Sealed, NoConfig
<1>5. \A q \in Launchers : ~LauncherIsLive(q)
  BY <1>1, <1>4 DEF TrialInv, SealInv, Sealed
<1>6. TrialTypes'
  BY <1>1, <1>3 DEF TrialInv, TrialTypes
<1>7. SealInv'
  BY <1>1, <1>3, <1>4, <1>5
  DEF TrialInv, SealInv, Sealed, LauncherIsLive, NativePlaces, LoopPlaces, ModelSawSealed, Agree
<1>8. ConversationInv'
  BY <1>1, <1>3, <1>4, <1>5, ConversationUntouched
  DEF TrialInv, NativePlaces, LauncherIsLive
<1>9. CatalogInv'
  BY <1>1, <1>3, <1>4, CatalogUntouched DEF TrialInv
<1>10. QED
  BY <1>6, <1>7, <1>8, <1>9 DEF TrialInv

\* A step that writes the record and goes on, or stops, as a native or a prepared process.
LEMMA PrepareKeeps ==
  ASSUME TrialInv, NEW p \in Launchers, Prepare(p)
  PROVE  TrialInv'
<1> DEFINE state == IF trialScript = "kimi" THEN "running" ELSE "prepared"
<1>1. /\ launcher[p].at = "staging"
      /\ config' = [NoConfig EXCEPT !.seals = inputs, !.state = state]
      /\ UNCHANGED <<trialScript, inputs, trialDir, ledgerRun, verdicts, modelRuns, trialResults,
                     exported, catalog>>
      /\ \/ Stops(p)
         \/ trialScript = "codex" /\ Proceeds(p, "launching", config')
         \/ trialScript = "kimi" /\ Proceeds(p, "registering", config')
  BY DEF Prepare, setupVars, runVars, catalogVars
<1>2. state \in {"running", "prepared"}
  OBVIOUS
<1> HIDE DEF state
<1>3. /\ config' \in Configs /\ config'.state \in {"running", "prepared"}
      /\ config'.seals = inputs /\ config'.done = 0
  <2>1. NoConfig \in Configs /\ inputs \in Inputs
    BY NothingYet DEF TrialInv, TrialTypes
  <2>2. config' = [NoConfig EXCEPT !.seals = inputs, !.state = state]
    BY <1>1
  <2>3. QED
    BY ONLY <1>2, <2>1, <2>2 DEF Configs, NoConfig
<1>4. /\ trialDir /\ config = NoConfig /\ config.state = "none" /\ modelRuns = <<>>
      /\ \A q \in Launchers : q # p => ~LauncherIsLive(q)
  BY <1>1, NothingYet DEF TrialInv, SealInv, Sealed
<1>5. /\ launcher' \in [Launchers -> LauncherTypes]
      /\ \A q \in Launchers : q # p => launcher'[q] = launcher[q]
      /\ \/ launcher'[p].at = "gone"
         \/ /\ launcher'[p].at \in {"launching", "registering"}
            /\ launcher'[p].config = config' /\ trialScript # "evo"
  <2>1. "launching" \in LauncherPlaces /\ "registering" \in LauncherPlaces
    BY DEF LauncherPlaces, NativePlaces
  <2>2. launcher \in [Launchers -> LauncherTypes]
    BY DEF TrialInv, TrialTypes
  <2>3. CASE Stops(p)
    BY <2>2, <2>3, Gone
  <2>4. CASE trialScript = "codex" /\ Proceeds(p, "launching", config')
    BY <1>3, <2>1, <2>2, <2>4, Moves
  <2>5. CASE trialScript = "kimi" /\ Proceeds(p, "registering", config')
    BY <1>3, <2>1, <2>2, <2>5, Moves
  <2>6. QED
    BY <1>1, <2>3, <2>4, <2>5
<1>6. TrialTypes'
  BY <1>1, <1>3, <1>5 DEF TrialInv, TrialTypes
<1>7. SealInv'
  <2>1. Sealed(p)'
    BY <1>1, <1>3, <1>4, <1>5 DEF Sealed, LauncherIsLive, NativePlaces, LoopPlaces, Agree
  <2>2. \A q \in Launchers : q # p => Sealed(q)' /\ ~LauncherIsLive(q)'
    BY <1>4, <1>5 DEF Sealed, LauncherIsLive, NativePlaces, LoopPlaces, Agree
  <2>3. QED
    BY <1>1, <1>3, <1>4, <1>5, <2>1, <2>2 DEF SealInv, ModelSawSealed, LauncherIsLive
<1>8. ConversationInv'
  BY <1>1, <1>3, <1>4, <1>5, ConversationUntouched
  DEF TrialInv, NativePlaces, LauncherIsLive
<1>9. CatalogInv'
  BY <1>1, <1>3, <1>5, CatalogUntouched DEF TrialInv
<1>10. QED
  BY <1>6, <1>7, <1>8, <1>9 DEF TrialInv

LEMMA InputsChangeKeeps ==
  ASSUME TrialInv, InputsChange
  PROVE  TrialInv'
<1>1. /\ \A p \in Launchers : ~LauncherIsLive(p)
      /\ inputs' \in Inputs
      /\ UNCHANGED <<trialScript, trialDir, config, ledgerRun, verdicts, modelRuns, trialResults,
                     exported, catalog, launcher>>
  <2>1. inputs \in Inputs
    BY DEF TrialInv, TrialTypes
  <2>2. inputs' \in Inputs
    BY <2>1 DEF InputsChange, Inputs, NoImage
  <2>3. QED
    BY <2>2 DEF InputsChange, runVars, catalogVars
<1>2. TrialTypes'
  BY <1>1 DEF TrialInv, TrialTypes
<1>3. SealInv'
  BY <1>1 DEF TrialInv, SealInv, Sealed, LauncherIsLive, ModelSawSealed
<1>4. ConversationInv'
  BY <1>1 DEF TrialInv, ConversationInv, Converses, ModelIsAskedOnce
<1>5. CatalogInv'
  BY <1>1 DEF TrialInv, CatalogInv, Owns, Published
<1>6. QED
  BY <1>2, <1>3, <1>4, <1>5 DEF TrialInv

LEMMA ExecutePreparedKeeps ==
  ASSUME TrialInv, NEW p \in Launchers, ExecutePrepared(p)
  PROVE  TrialInv'
<1>1. /\ launcher[p].at = "off" /\ config.state = "prepared" /\ Agree(config.seals)
      /\ Proceeds(p, "launching", config)
      /\ UNCHANGED <<trialScript, inputs, trialDir, config, ledgerRun, verdicts, modelRuns,
                     trialResults, exported, catalog>>
  BY DEF ExecutePrepared, MayExecute, Agree, setupVars, runVars, catalogVars
<1>2. config # NoConfig
  BY <1>1, NothingYet
<1>3. /\ launcher' \in [Launchers -> LauncherTypes] /\ launcher'[p].at = "launching"
      /\ launcher'[p].config = config
      /\ \A q \in Launchers : q # p => launcher'[q] = launcher[q]
  <2>1. "launching" \in LauncherPlaces
    BY DEF LauncherPlaces
  <2>2. QED
    BY <1>1, <2>1, Moves DEF TrialInv, TrialTypes
<1>4. TrialTypes'
  BY <1>1, <1>3 DEF TrialInv, TrialTypes
<1>5. SealInv'
  BY <1>1, <1>2, <1>3
  DEF TrialInv, SealInv, Sealed, LauncherIsLive, NativePlaces, LoopPlaces, ModelSawSealed, Agree
<1>6. ConversationInv'
  BY <1>1, <1>3, ConversationUntouched DEF TrialInv, SealInv, Sealed, NativePlaces
<1>7. CatalogInv'
  BY <1>1, <1>3, CatalogUntouched DEF TrialInv
<1>8. QED
  BY <1>4, <1>5, <1>6, <1>7 DEF TrialInv

\* A record that a process writes from its own copy.
LEMMA RecordWritten ==
  ASSUME TrialInv, NEW p \in Launchers, LauncherIsLive(p), launcher[p].at # "staging",
         NEW state \in {"running", "evaluating", "completed", "execution_error"},
         config' = [launcher[p].config EXCEPT !.state = state]
  PROVE  /\ config' \in Configs /\ config'.state = state /\ config'.seals = config.seals
         /\ config'.done = launcher[p].config.done /\ config' # NoConfig /\ trialDir
         /\ config.state # "none" /\ Agree(config.seals)
         /\ \A q \in Launchers : launcher[q].at # "staging"
<1>1. launcher[p].config \in Configs /\ launcher[p].config.seals = config.seals
  BY LauncherFields DEF TrialInv, SealInv, Sealed
<1>2. /\ config' \in Configs /\ config'.state = state
      /\ config'.seals = launcher[p].config.seals /\ config'.done = launcher[p].config.done
  BY ONLY <1>1, state \in {"running", "evaluating", "completed", "execution_error"},
     config' = [launcher[p].config EXCEPT !.state = state] DEF Configs
<1>3. config.state # "none" /\ Agree(config.seals)
  BY DEF TrialInv, SealInv, Sealed
<1>4. QED
  BY <1>1, <1>2, <1>3, NothingYet DEF TrialInv, SealInv, Sealed

\* A step of a process at work that keeps to what is sealed.
LEMMA SealKept ==
  ASSUME TrialInv, NEW p \in Launchers, LauncherIsLive(p), launcher[p].at # "staging",
         \A q \in Launchers : q # p => launcher'[q] = launcher[q],
         UNCHANGED <<trialScript, inputs, trialDir>>,
         config'.state # "none" /\ config'.seals = config.seals,
         config'.state = "prepared" => config'.done = 0,
         \/ modelRuns' = modelRuns
         \/ modelRuns' = Append(modelRuns, inputs) /\ launcher[p].at \in NativePlaces,
         \/ launcher'[p].at = "gone"
         \/ /\ launcher'[p].config.seals = config.seals
            /\ launcher'[p].config.state \notin {"none", "completed"}
            /\ \/ launcher'[p].at \in NativePlaces /\ trialScript # "evo"
               \/ /\ launcher'[p].at \in LoopPlaces /\ trialScript = "evo"
                  /\ launcher'[p].config.state # "prepared"
  PROVE  SealInv'
<1>1. trialDir
  BY NothingYet DEF TrialInv, SealInv, Sealed
<1>2. /\ Agree(config.seals)
      /\ \A q \in Launchers : launcher[q].at # "staging"
  BY DEF TrialInv, SealInv, Sealed
<1>3. launcher'[p].at # "staging"
  BY DEF NativePlaces, LoopPlaces
<1>4. Sealed(p)'
  BY <1>2 DEF Sealed, LauncherIsLive, NativePlaces, LoopPlaces, Agree
<1>5. \A q \in Launchers : q # p => Sealed(q)'
  BY <1>1, <1>2 DEF TrialInv, SealInv, Sealed, LauncherIsLive, Agree
<1>6. ModelSawSealed'
  <2>1. /\ modelRuns \in Seq(Inputs) /\ ModelSawSealed
        /\ trialScript' = trialScript /\ config'.seals = config.seals
    BY DEF TrialInv, TrialTypes, SealInv
  <2>2. CASE modelRuns' = modelRuns
    BY <2>1, <2>2 DEF ModelSawSealed
  <2>3. CASE modelRuns' = Append(modelRuns, inputs) /\ launcher[p].at \in NativePlaces
    <3>1. /\ inputs \in Inputs /\ inputs.image \in {NoImage, config.seals.image}
          /\ trialScript = "kimi" => inputs = config.seals
      <4>1. trialScript \in {"codex", "kimi"}
        BY <2>3 DEF TrialInv, TrialTypes, SealInv, Sealed, TrialScripts
      <4>2. Agree(config.seals) /\ inputs \in Inputs
        BY <1>2 DEF TrialInv, TrialTypes
      <4>3. QED
        BY <4>1, <4>2 DEF Agree
    <3>2. \A k \in DOMAIN modelRuns' : \/ modelRuns'[k] = inputs
                                       \/ k \in DOMAIN modelRuns /\ modelRuns'[k] = modelRuns[k]
      BY <2>1, <2>3, <3>1
    <3>3. QED
      BY <2>1, <3>1, <3>2 DEF ModelSawSealed
  <2>4. QED
    BY <2>2, <2>3
<1>7. \A q \in Launchers : launcher'[q].at # "staging"
  BY <1>2, <1>3
<1>8. QED
  BY <1>1, <1>4, <1>5, <1>6, <1>7 DEF SealInv

LEMMA WriteLaunchKeeps ==
  ASSUME TrialInv, NEW p \in Launchers, WriteLaunch(p)
  PROVE  TrialInv'
<1> DEFINE to == IF trialScript = "evo" THEN "selecting" ELSE "registering"
<1>1. /\ launcher[p].at = "launching"
      /\ config' = [launcher[p].config EXCEPT !.state = "running"]
      /\ Proceeds(p, to, config')
      /\ UNCHANGED <<trialScript, inputs, trialDir, ledgerRun, verdicts, modelRuns,
                     trialResults, exported, catalog>>
  BY DEF WriteLaunch, setupVars, runVars, catalogVars
<1>2. LauncherIsLive(p) /\ launcher[p].at # "staging" /\ launcher[p].config.done = 0
  BY <1>1 DEF LauncherIsLive, TrialInv, SealInv, Sealed
<1>3. /\ config' \in Configs /\ config'.state = "running" /\ config'.seals = config.seals
      /\ config'.done = 0
  BY <1>1, <1>2, RecordWritten
<1>4. /\ launcher' \in [Launchers -> LauncherTypes] /\ launcher'[p].at = to
      /\ launcher'[p].config = config'
      /\ \A q \in Launchers : q # p => launcher'[q] = launcher[q]
  <2>1. to \in LauncherPlaces
    BY DEF LauncherPlaces, NativePlaces, LoopPlaces
  <2> HIDE DEF to
  <2>2. QED
    BY <1>1, <1>3, <2>1, Moves DEF TrialInv, TrialTypes
<1>5. TrialTypes'
  BY <1>1, <1>3, <1>4 DEF TrialInv, TrialTypes
<1>6. SealInv'
  BY <1>1, <1>2, <1>3, <1>4, SealKept DEF NativePlaces, LoopPlaces
<1>7. \A q \in Launchers : /\ launcher[q].at \in NativePlaces => trialScript # "evo"
                           /\ launcher[q].at \in LoopPlaces => trialScript = "evo"
  BY DEF TrialInv, SealInv, Sealed
<1>8. ConversationInv'
  BY <1>1, <1>3, <1>4, <1>7, ConversationUntouched DEF TrialInv, NativePlaces
<1>9. CatalogInv'
  <2>1. ~Owns(p)' /\ Published(p)'
    BY <1>1, <1>3, <1>4 DEF Owns, Published, TrialInv, TrialTypes
  <2>2. \A q \in Launchers : q # p => (Owns(q)' <=> Owns(q)) /\ Published(q)'
    BY <1>1, <1>4 DEF Owns, Published, TrialInv, CatalogInv
  <2>3. QED
    BY <1>1, <1>3, <2>1, <2>2 DEF TrialInv, CatalogInv
<1>10. QED
  BY <1>5, <1>6, <1>8, <1>9 DEF TrialInv

-----------------------------------------------------------------------------
(* One conversation *)

\* A native process that goes on with the record it has, or stops.
LEMMA NativeMoves ==
  ASSUME TrialInv, NEW p \in Launchers, NEW to \in NativePlaces,
         launcher[p].at \in NativePlaces,
         Proceeds(p, to, launcher[p].config) \/ Stops(p)
  PROVE  /\ launcher' \in [Launchers -> LauncherTypes]
         /\ \A q \in Launchers : q # p => launcher'[q] = launcher[q]
         /\ LauncherIsLive(p) /\ launcher[p].at # "staging" /\ trialScript # "evo"
         /\ config.state # "none" /\ Agree(config.seals)
         /\ Proceeds(p, to, launcher[p].config) => launcher'[p].at = to
         /\ Stops(p) => launcher'[p].at = "gone"
         /\ \/ launcher'[p].at = "gone"
            \/ /\ launcher'[p].at = to /\ launcher'[p].config.seals = config.seals
               /\ launcher'[p].config.state \notin {"none", "completed"}
               /\ launcher'[p].config = launcher[p].config
<1>1. /\ LauncherIsLive(p) /\ launcher[p].at # "staging"
  BY DEF LauncherIsLive, NativePlaces
<1>2. /\ trialScript # "evo" /\ config.state # "none" /\ Agree(config.seals)
      /\ launcher[p].config.seals = config.seals /\ launcher[p].config.state \notin {"none", "completed"}
  BY <1>1 DEF TrialInv, SealInv, Sealed
<1>3. /\ launcher \in [Launchers -> LauncherTypes] /\ launcher[p].config \in Configs
      /\ to \in LauncherPlaces
  BY LauncherFields DEF TrialInv, TrialTypes, LauncherPlaces
<1>4. CASE Proceeds(p, to, launcher[p].config)
  <2>1. /\ launcher' \in [Launchers -> LauncherTypes]
        /\ launcher'[p].at = to /\ launcher'[p].config = launcher[p].config
        /\ \A q \in Launchers : q # p => launcher'[q] = launcher[q]
    BY <1>3, <1>4, Moves
  <2>2. Stops(p) => launcher'[p].at = "gone"
    BY <1>3, Gone
  <2>3. QED
    BY <1>1, <1>2, <2>1, <2>2
<1>5. CASE Stops(p)
  <2>1. /\ launcher' \in [Launchers -> LauncherTypes] /\ launcher'[p].at = "gone"
        /\ \A q \in Launchers : q # p => launcher'[q] = launcher[q]
    BY <1>3, <1>5, Gone
  <2>2. Proceeds(p, to, launcher[p].config) => launcher'[p].at = to
    BY <1>3, Moves
  <2>3. QED
    BY <1>1, <1>2, <2>1, <2>2
<1>6. QED
  BY <1>4, <1>5

\* The catalog's part of the invariant after a native step.
LEMMA NativeCatalog ==
  ASSUME TrialInv, NEW p \in Launchers, trialScript # "evo",
         \A q \in Launchers : q # p => launcher'[q] = launcher[q],
         launcher'[p].at = "gone" \/ launcher'[p].at \in NativePlaces,
         UNCHANGED <<trialScript, exported, catalog>>
  PROVE  CatalogInv'
<1>1. \A q \in Launchers : launcher[q].at \notin LoopPlaces
  BY DEF TrialInv, SealInv, Sealed
<1>2. launcher'[p].at \notin {"selecting", "recording", "exporting", "publishing"}
  BY DEF NativePlaces
<1>3. QED
  BY <1>1, <1>2, CatalogUntouched DEF TrialInv

LEMMA RegisterKeeps ==
  ASSUME TrialInv, NEW p \in Launchers, Register(p)
  PROVE  TrialInv'
<1>1. /\ launcher[p].at = "registering" /\ ledgerRun' = TRUE
      /\ IF ledgerRun THEN Stops(p) ELSE Proceeds(p, "conversing", launcher[p].config)
      /\ UNCHANGED <<trialScript, inputs, trialDir, config, verdicts, modelRuns, trialResults,
                     exported, catalog>>
  <2>1. launcher[p].at = "registering" /\ ledgerRun' = TRUE
        /\ UNCHANGED <<trialScript, inputs, trialDir, config, verdicts, modelRuns, trialResults,
                       exported, catalog>>
    BY DEF Register, setupVars, catalogVars
  <2>2. IF LedgerIsFree THEN Proceeds(p, "conversing", launcher[p].config) ELSE Stops(p)
    BY DEF Register
  <2>3. QED
    BY <2>1, <2>2 DEF LedgerIsFree
<1>2. launcher[p].at \in NativePlaces /\ "conversing" \in NativePlaces
  BY <1>1 DEF NativePlaces
<1>3. /\ launcher' \in [Launchers -> LauncherTypes] /\ trialScript # "evo"
      /\ \A q \in Launchers : q # p => launcher'[q] = launcher[q]
      /\ LauncherIsLive(p) /\ launcher[p].at # "staging"
      /\ config.state # "none" /\ Agree(config.seals)
      /\ \/ launcher'[p].at = "gone"
         \/ /\ launcher'[p].at = "conversing" /\ launcher'[p].config.seals = config.seals
            /\ launcher'[p].config.state \notin {"none", "completed"}
      /\ ledgerRun => launcher'[p].at = "gone"
  BY <1>1, <1>2, NativeMoves
<1>4. TrialTypes'
  BY <1>1, <1>3 DEF TrialInv, TrialTypes
<1>5. SealInv'
  <2>1. config'.state = "prepared" => config'.done = 0
    BY <1>1 DEF TrialInv, SealInv
  <2>2. QED
    BY <1>1, <1>2, <1>3, <2>1, SealKept
<1>6. ConversationInv'
  <2>1. \A q \in Launchers : q # p => (Converses(q)' <=> Converses(q))
    BY <1>3 DEF Converses
  <2>2. CASE ledgerRun
    <3>1. ~Converses(p)'
      BY <1>3, <2>2 DEF Converses, NativePlaces
    <3>2. QED
      BY <1>1, <1>3, <2>1, <2>2, <3>1
      DEF TrialInv, ConversationInv, ModelIsAskedOnce
  <2>3. CASE ~ledgerRun
    <3>1. \A q \in Launchers : ~Converses(q)
      BY <2>3 DEF TrialInv, ConversationInv
    <3>2. modelRuns = <<>> /\ verdicts = 0 /\ config.state # "completed"
      BY <1>3, <2>3 DEF TrialInv, ConversationInv
    <3>3. QED
      BY <1>1, <1>3, <2>1, <2>3, <3>1, <3>2
      DEF TrialInv, ConversationInv, Converses, NativePlaces, ModelIsAskedOnce
  <2>4. QED
    BY <2>2, <2>3
<1>7. CatalogInv'
  BY <1>1, <1>2, <1>3, NativeCatalog
<1>8. QED
  BY <1>4, <1>5, <1>6, <1>7 DEF TrialInv

\* The one that converses, and what it has done so far.
LEMMA TheOne ==
  ASSUME TrialInv, NEW p \in Launchers, Converses(p)
  PROVE  /\ ledgerRun /\ trialScript # "evo" /\ config.state # "completed"
         /\ \A q \in Launchers : q # p => ~Converses(q)
         /\ launcher[p].at = "conversing" => modelRuns = <<>> /\ verdicts = 0
         /\ launcher[p].at \in {"evaluating", "scoring"} => Len(modelRuns) = 1 /\ verdicts = 0
         /\ launcher[p].at \in {"reporting", "completing"} => Len(modelRuns) = 1 /\ verdicts = 1
         /\ launcher[p].at = "completing" => trialResults = 1
<1>1. trialScript # "evo"
  BY DEF Converses, TrialInv, SealInv, Sealed
<1>2. QED
  BY <1>1 DEF TrialInv, ConversationInv

\* What its next step must leave.
LEMMA TheOneKeeps ==
  ASSUME TrialInv, NEW p \in Launchers, Converses(p), trialScript' = trialScript,
         ledgerRun' = ledgerRun,
         \A q \in Launchers : q # p => launcher'[q] = launcher[q],
         Len(modelRuns') <= 1, verdicts' <= Len(modelRuns'),
         config'.state = "completed" =>
           trialResults' = 1 /\ verdicts' = 1 /\ launcher'[p].at = "gone",
         launcher'[p].at # "conversing",
         launcher'[p].at \in {"evaluating", "scoring"} => Len(modelRuns') = 1 /\ verdicts' = 0,
         launcher'[p].at \in {"reporting", "completing"} => Len(modelRuns') = 1 /\ verdicts' = 1,
         launcher'[p].at = "completing" => trialResults' = 1
  PROVE  ConversationInv'
<1>1. /\ ledgerRun /\ trialScript # "evo"
      /\ \A q \in Launchers : q # p => ~Converses(q)
  BY TheOne
<1>2. \A q \in Launchers : q # p => ~Converses(q)'
  BY <1>1 DEF Converses
<1>3. \A q \in Launchers : q # p => launcher'[q].at \notin NativePlaces \ {"registering"}
  BY <1>2 DEF Converses
<1>4. launcher'[p].at = "gone" => ~Converses(p)'
  BY DEF Converses, NativePlaces
<1>5. QED
  BY <1>1, <1>2, <1>3, <1>4 DEF ConversationInv, ModelIsAskedOnce, NativePlaces

LEMMA ConverseKeeps ==
  ASSUME TrialInv, NEW p \in Launchers, Converse(p)
  PROVE  TrialInv'
<1> DEFINE to == IF trialScript = "codex" THEN "evaluating" ELSE "scoring"
<1>1. /\ launcher[p].at = "conversing" /\ modelRuns' = Append(modelRuns, inputs)
      /\ Proceeds(p, to, launcher[p].config)
      /\ UNCHANGED <<trialScript, inputs, trialDir, config, ledgerRun, verdicts, trialResults,
                     exported, catalog>>
  BY DEF Converse, setupVars, catalogVars
<1>2. /\ launcher[p].at \in NativePlaces /\ Converses(p)
      /\ to \in {"evaluating", "scoring"} /\ to \in NativePlaces
  BY <1>1 DEF NativePlaces, Converses
<1> HIDE DEF to
<1>3. /\ launcher' \in [Launchers -> LauncherTypes] /\ trialScript # "evo"
      /\ \A q \in Launchers : q # p => launcher'[q] = launcher[q]
      /\ LauncherIsLive(p) /\ launcher[p].at # "staging"
      /\ config.state # "none" /\ Agree(config.seals)
      /\ launcher'[p].at = to
      /\ \/ launcher'[p].at = "gone"
         \/ /\ launcher'[p].at = to /\ launcher'[p].config.seals = config.seals
            /\ launcher'[p].config.state \notin {"none", "completed"}
  BY <1>1, <1>2, NativeMoves
<1>4. modelRuns = <<>> /\ verdicts = 0 /\ config.state # "completed" /\ inputs \in Inputs
  BY <1>1, <1>2, TheOne DEF TrialInv, TrialTypes
<1>5. modelRuns' \in Seq(Inputs) /\ Len(modelRuns') = 1
  BY <1>1, <1>4
<1>6. TrialTypes'
  BY <1>1, <1>3, <1>5 DEF TrialInv, TrialTypes
<1>7. SealInv'
  <2>1. config'.state = "prepared" => config'.done = 0
    BY <1>1 DEF TrialInv, SealInv
  <2>2. QED
    BY <1>1, <1>2, <1>3, <2>1, SealKept
<1>8. ConversationInv'
  BY <1>1, <1>2, <1>3, <1>4, <1>5, TheOneKeeps
<1>9. CatalogInv'
  BY <1>1, <1>2, <1>3, NativeCatalog
<1>10. QED
  BY <1>6, <1>7, <1>8, <1>9 DEF TrialInv

LEMMA WriteEvaluatingKeeps ==
  ASSUME TrialInv, NEW p \in Launchers, WriteEvaluating(p)
  PROVE  TrialInv'
<1>1. /\ launcher[p].at = "evaluating"
      /\ config' = [launcher[p].config EXCEPT !.state = "evaluating"]
      /\ Proceeds(p, "scoring", config')
      /\ UNCHANGED <<trialScript, inputs, trialDir, ledgerRun, verdicts, modelRuns, trialResults,
                     exported, catalog>>
  BY DEF WriteEvaluating, setupVars, runVars, catalogVars
<1>2. LauncherIsLive(p) /\ launcher[p].at # "staging" /\ Converses(p)
  BY <1>1 DEF LauncherIsLive, Converses, NativePlaces
<1>3. config' \in Configs /\ config'.state = "evaluating" /\ config'.seals = config.seals
  BY <1>1, <1>2, RecordWritten
<1>4. /\ launcher' \in [Launchers -> LauncherTypes] /\ launcher'[p].at = "scoring"
      /\ launcher'[p].config = config'
      /\ \A q \in Launchers : q # p => launcher'[q] = launcher[q]
  <2>1. "scoring" \in LauncherPlaces
    BY DEF LauncherPlaces, NativePlaces
  <2>2. QED
    BY <1>1, <1>3, <2>1, Moves DEF TrialInv, TrialTypes
<1>5. trialScript # "evo" /\ Len(modelRuns) = 1 /\ verdicts = 0
  BY <1>1, <1>2, TheOne
<1>6. TrialTypes'
  BY <1>1, <1>3, <1>4 DEF TrialInv, TrialTypes
<1>7. SealInv'
  BY <1>1, <1>2, <1>3, <1>4, <1>5, SealKept DEF NativePlaces
<1>8. ConversationInv'
  BY <1>1, <1>2, <1>3, <1>4, <1>5, TheOneKeeps
<1>9. CatalogInv'
  BY <1>1, <1>4, <1>5, NativeCatalog DEF NativePlaces
<1>10. QED
  BY <1>6, <1>7, <1>8, <1>9 DEF TrialInv

LEMMA FinishLedgerKeeps ==
  ASSUME TrialInv, NEW p \in Launchers, FinishLedger(p)
  PROVE  TrialInv'
<1>1. /\ launcher[p].at = "scoring" /\ verdicts' = verdicts + 1
      /\ Proceeds(p, "reporting", launcher[p].config)
      /\ UNCHANGED <<trialScript, inputs, trialDir, config, ledgerRun, modelRuns, trialResults,
                     exported, catalog>>
  BY DEF FinishLedger, setupVars, catalogVars
<1>2. launcher[p].at \in NativePlaces /\ Converses(p) /\ "reporting" \in NativePlaces
  BY <1>1 DEF NativePlaces, Converses
<1>3. /\ launcher' \in [Launchers -> LauncherTypes] /\ trialScript # "evo"
      /\ \A q \in Launchers : q # p => launcher'[q] = launcher[q]
      /\ LauncherIsLive(p) /\ launcher[p].at # "staging"
      /\ config.state # "none" /\ Agree(config.seals)
      /\ launcher'[p].at = "reporting"
      /\ \/ launcher'[p].at = "gone"
         \/ /\ launcher'[p].at = "reporting" /\ launcher'[p].config.seals = config.seals
            /\ launcher'[p].config.state \notin {"none", "completed"}
  BY <1>1, <1>2, NativeMoves
<1>4. Len(modelRuns) = 1 /\ verdicts' = 1 /\ config.state # "completed"
  BY <1>1, <1>2, TheOne
<1>5. TrialTypes'
  BY <1>1, <1>3, <1>4 DEF TrialInv, TrialTypes
<1>6. SealInv'
  <2>1. config'.state = "prepared" => config'.done = 0
    BY <1>1 DEF TrialInv, SealInv
  <2>2. QED
    BY <1>1, <1>2, <1>3, <2>1, SealKept
<1>7. ConversationInv'
  BY <1>1, <1>2, <1>3, <1>4, TheOneKeeps
<1>8. CatalogInv'
  BY <1>1, <1>2, <1>3, NativeCatalog
<1>9. QED
  BY <1>5, <1>6, <1>7, <1>8 DEF TrialInv

LEMMA WriteTrialResultKeeps ==
  ASSUME TrialInv, NEW p \in Launchers, WriteTrialResult(p)
  PROVE  TrialInv'
<1>1. /\ launcher[p].at = "reporting" /\ trialResults' = 1
      /\ Proceeds(p, "completing", launcher[p].config) \/ Stops(p)
      /\ UNCHANGED <<trialScript, inputs, trialDir, config, ledgerRun, verdicts, modelRuns,
                     exported, catalog>>
  BY DEF WriteTrialResult, setupVars, catalogVars
<1>2. launcher[p].at \in NativePlaces /\ Converses(p) /\ "completing" \in NativePlaces
  BY <1>1 DEF NativePlaces, Converses
<1>3. /\ launcher' \in [Launchers -> LauncherTypes] /\ trialScript # "evo"
      /\ \A q \in Launchers : q # p => launcher'[q] = launcher[q]
      /\ LauncherIsLive(p) /\ launcher[p].at # "staging"
      /\ config.state # "none" /\ Agree(config.seals)
      /\ \/ launcher'[p].at = "gone"
         \/ /\ launcher'[p].at = "completing" /\ launcher'[p].config.seals = config.seals
            /\ launcher'[p].config.state \notin {"none", "completed"}
  BY <1>1, <1>2, NativeMoves
<1>4. Len(modelRuns) = 1 /\ verdicts = 1 /\ config.state # "completed"
  BY <1>1, <1>2, TheOne
<1>5. TrialTypes'
  BY <1>1, <1>3, TrialAssumption DEF TrialInv, TrialTypes
<1>6. SealInv'
  <2>1. config'.state = "prepared" => config'.done = 0
    BY <1>1 DEF TrialInv, SealInv
  <2>2. QED
    BY <1>1, <1>2, <1>3, <2>1, SealKept
<1>7. ConversationInv'
  BY <1>1, <1>2, <1>3, <1>4, TheOneKeeps
<1>8. CatalogInv'
  BY <1>1, <1>2, <1>3, NativeCatalog
<1>9. QED
  BY <1>5, <1>6, <1>7, <1>8 DEF TrialInv

LEMMA WriteCompletedKeeps ==
  ASSUME TrialInv, NEW p \in Launchers, WriteCompleted(p)
  PROVE  TrialInv'
<1>1. /\ launcher[p].at = "completing" /\ Stops(p)
      /\ config' = [launcher[p].config EXCEPT !.state = "completed"]
      /\ UNCHANGED <<trialScript, inputs, trialDir, ledgerRun, verdicts, modelRuns, trialResults,
                     exported, catalog>>
  BY DEF WriteCompleted, setupVars, runVars, catalogVars
<1>2. LauncherIsLive(p) /\ launcher[p].at # "staging" /\ Converses(p)
  BY <1>1 DEF LauncherIsLive, Converses, NativePlaces
<1>3. config' \in Configs /\ config'.state = "completed" /\ config'.seals = config.seals
  BY <1>1, <1>2, RecordWritten
<1>4. /\ launcher' \in [Launchers -> LauncherTypes] /\ launcher'[p].at = "gone"
      /\ \A q \in Launchers : q # p => launcher'[q] = launcher[q]
  BY <1>1, Gone DEF TrialInv, TrialTypes
<1>5. trialScript # "evo" /\ Len(modelRuns) = 1 /\ verdicts = 1 /\ trialResults = 1
  BY <1>1, <1>2, TheOne
<1>6. TrialTypes'
  BY <1>1, <1>3, <1>4 DEF TrialInv, TrialTypes
<1>7. SealInv'
  BY <1>1, <1>2, <1>3, <1>4, <1>5, SealKept
<1>8. ConversationInv'
  BY <1>1, <1>2, <1>3, <1>4, <1>5, TheOneKeeps
<1>9. CatalogInv'
  BY <1>1, <1>4, <1>5, NativeCatalog
<1>10. QED
  BY <1>6, <1>7, <1>8, <1>9 DEF TrialInv

-----------------------------------------------------------------------------
(* The loop over the drawings *)

\* What is known of a process in the loop.
LEMMA InTheLoop ==
  ASSUME TrialInv, NEW p \in Launchers, launcher[p].at \in LoopPlaces
  PROVE  /\ LauncherIsLive(p) /\ launcher[p].at # "staging" /\ trialScript = "evo"
         /\ config.state # "none" /\ Agree(config.seals)
         /\ launcher[p].config \in Configs /\ launcher[p].config.seals = config.seals
         /\ launcher[p].config.done \in Nat
         /\ launcher[p].config.state \notin {"none", "completed", "prepared"}
         /\ \A q \in Launchers : launcher[q].at \notin NativePlaces
<1>1. LauncherIsLive(p) /\ launcher[p].at # "staging"
  BY DEF LauncherIsLive, LoopPlaces
<1>2. trialScript = "evo"
  BY DEF TrialInv, SealInv, Sealed
<1>3. QED
  BY <1>1, <1>2, LauncherFields DEF TrialInv, SealInv, Sealed

\* The conversation's part after a step in the loop.
LEMMA LoopConversation ==
  ASSUME TrialInv, NEW p \in Launchers, launcher[p].at \in LoopPlaces,
         launcher'[p].at = "gone" \/ launcher'[p].at \in LoopPlaces,
         \A q \in Launchers : q # p => launcher'[q] = launcher[q],
         UNCHANGED <<trialScript, ledgerRun, verdicts, modelRuns>>
  PROVE  ConversationInv'
<1>1. launcher'[p].at \notin NativePlaces \ {"registering"}
  BY DEF NativePlaces, LoopPlaces
<1>2. QED
  BY <1>1, InTheLoop, ConversationUntouched DEF TrialInv

\* The catalog's part after a step that leaves the catalog and makes nobody its owner.
LEMMA CatalogKept ==
  ASSUME TrialInv, NEW p \in Launchers,
         \A q \in Launchers : q # p => launcher'[q] = launcher[q],
         UNCHANGED <<trialScript, exported, catalog>>,
         trialResults' \in Nat, trialResults <= trialResults', trialResults' <= Drawings,
         config'.state = "completed" => config.state = "completed",
         Owns(p)' => Owns(p), Published(p)'
  PROVE  CatalogInv'
<1>1. trialResults \in Nat /\ Drawings \in Nat /\ \A q \in Launchers : launcher[q].config.done \in Nat
  BY TrialAssumption, LauncherFields DEF TrialInv, TrialTypes
<1>2. \A q \in Launchers : q # p => (Owns(q)' <=> Owns(q))
  BY DEF Owns
<1>3. \A q \in Launchers : q # p => Published(q)'
  <2>1. TAKE q \in Launchers
  <2>2. HAVE q # p
  <2>3. Published(q) /\ launcher'[q] = launcher[q]
    BY <2>2 DEF TrialInv, CatalogInv
  <2>4. launcher[q].config.done <= trialResults => launcher[q].config.done <= trialResults'
    BY <1>1
  <2>5. launcher[q].config.done + 1 <= trialResults => launcher[q].config.done + 1 <= trialResults'
    BY <1>1
  <2>6. QED
    BY <1>2, <2>2, <2>3, <2>4, <2>5 DEF Published
<1>4. trialResults = Drawings => trialResults' = Drawings
  BY <1>1
<1>5. QED
  BY <1>2, <1>3, <1>4 DEF TrialInv, CatalogInv

LEMMA RunDrawingKeeps ==
  ASSUME TrialInv, NEW p \in Launchers, RunDrawing(p)
  PROVE  TrialInv'
<1> DEFINE to == IF NextDrawing(p) <= trialResults' THEN "recording" ELSE "failing"
<1>1. /\ launcher[p].at = "selecting"
      /\ \/ trialResults < Drawings /\ trialResults' = trialResults + 1
         \/ trialResults' = trialResults
      /\ Proceeds(p, to, launcher[p].config)
      /\ UNCHANGED <<trialScript, inputs, trialDir, config, ledgerRun, verdicts, modelRuns,
                     exported, catalog>>
  BY DEF RunDrawing, setupVars, catalogVars
<1>2. launcher[p].at \in LoopPlaces
  BY <1>1 DEF LoopPlaces
<1>3. /\ LauncherIsLive(p) /\ launcher[p].at # "staging" /\ trialScript = "evo"
      /\ config.state # "none" /\ Agree(config.seals)
      /\ launcher[p].config \in Configs /\ launcher[p].config.seals = config.seals
      /\ launcher[p].config.done \in Nat
      /\ launcher[p].config.state \notin {"none", "completed", "prepared"}
  BY <1>2, InTheLoop
<1>4. /\ trialResults' \in Nat /\ trialResults <= trialResults' /\ trialResults' <= Drawings
  BY <1>1, TrialAssumption DEF TrialInv, TrialTypes
<1>5. /\ to \in {"recording", "failing"} /\ to \in LoopPlaces /\ to \in LauncherPlaces
      /\ to = "recording" => launcher[p].config.done + 1 <= trialResults'
  BY DEF LoopPlaces, LauncherPlaces, NextDrawing
<1> HIDE DEF to
<1>6. /\ launcher' \in [Launchers -> LauncherTypes] /\ launcher'[p].at = to
      /\ launcher'[p].config = launcher[p].config
      /\ \A q \in Launchers : q # p => launcher'[q] = launcher[q]
  BY <1>1, <1>3, <1>5, Moves DEF TrialInv, TrialTypes
<1>7. TrialTypes'
  BY <1>1, <1>4, <1>6 DEF TrialInv, TrialTypes
<1>8. SealInv'
  <2>1. config'.state = "prepared" => config'.done = 0
    BY <1>1 DEF TrialInv, SealInv
  <2>2. QED
    BY <1>1, <1>3, <1>5, <1>6, <2>1, SealKept
<1>9. ConversationInv'
  BY <1>1, <1>2, <1>5, <1>6, LoopConversation
<1>10. Owns(p)' => Owns(p)
  BY <1>1, <1>5, <1>6 DEF Owns
<1>11. Published(p)'
  <2>1. Published(p) /\ trialResults \in Nat
    BY DEF TrialInv, CatalogInv, TrialTypes
  <2>2. launcher[p].config.done <= trialResults'
    BY <1>1, <1>3, <1>4, <2>1 DEF Published
  <2>3. Owns(p)' => 1 \in exported /\ Listed(catalog) = 1..launcher[p].config.done
    BY <1>1, <1>10, <2>1 DEF Published
  <2>4. /\ launcher'[p].at \in {"recording", "failing"}
        /\ launcher'[p].at = "recording" => launcher'[p].config.done + 1 <= trialResults'
        /\ launcher'[p].config.done <= trialResults'
    BY <1>5, <1>6, <2>2
  <2>5. Owns(p)' => /\ 1 \in exported' /\ launcher'[p].at = "recording"
                    /\ Listed(catalog') = 1..launcher'[p].config.done
    BY <1>1, <1>6, <2>3, <2>4 DEF Owns
  <2>6. QED
    BY <2>4, <2>5 DEF Published
<1>12. CatalogInv'
  BY <1>1, <1>4, <1>6, <1>10, <1>11, CatalogKept
<1>13. QED
  BY <1>7, <1>8, <1>9, <1>12 DEF TrialInv

LEMMA RecordDrawingKeeps ==
  ASSUME TrialInv, NEW p \in Launchers, RecordDrawing(p)
  PROVE  TrialInv'
<1> DEFINE drawing == NextDrawing(p)
<1>1. /\ launcher[p].at = "recording"
      /\ config' = [launcher[p].config EXCEPT !.done = drawing]
      /\ Proceeds(p, "exporting", config')
      /\ UNCHANGED <<trialScript, inputs, trialDir, ledgerRun, verdicts, modelRuns, trialResults,
                     exported, catalog>>
  BY DEF RecordDrawing, setupVars, runVars, catalogVars
<1>2. launcher[p].at \in LoopPlaces /\ "exporting" \in LoopPlaces /\ "exporting" \in LauncherPlaces
  BY <1>1 DEF LoopPlaces, LauncherPlaces
<1>3. /\ LauncherIsLive(p) /\ launcher[p].at # "staging" /\ trialScript = "evo"
      /\ config.state # "none" /\ Agree(config.seals)
      /\ launcher[p].config \in Configs /\ launcher[p].config.seals = config.seals
      /\ launcher[p].config.done \in Nat
      /\ launcher[p].config.state \notin {"none", "completed", "prepared"}
  BY <1>2, InTheLoop
<1>4. drawing \in Nat /\ drawing = launcher[p].config.done + 1
  BY <1>3 DEF NextDrawing
<1> HIDE DEF drawing
<1>5. /\ config' \in Configs /\ config'.done = drawing /\ config'.seals = config.seals
      /\ config'.state = launcher[p].config.state
  BY ONLY <1>1, <1>3, <1>4 DEF Configs
<1>6. /\ launcher' \in [Launchers -> LauncherTypes] /\ launcher'[p].at = "exporting"
      /\ launcher'[p].config = config'
      /\ \A q \in Launchers : q # p => launcher'[q] = launcher[q]
  BY <1>1, <1>2, <1>5, Moves DEF TrialInv, TrialTypes
<1>7. TrialTypes'
  BY <1>1, <1>5, <1>6 DEF TrialInv, TrialTypes
<1>8. SealInv'
  BY <1>1, <1>2, <1>3, <1>5, <1>6, SealKept
<1>9. ConversationInv'
  BY <1>1, <1>2, <1>6, LoopConversation
<1>10. Owns(p)' => Owns(p)
  <2>1. drawing >= 2 => launcher[p].config.done >= 1
    BY <1>3, <1>4
  <2>2. QED
    BY <1>1, <1>5, <1>6, <2>1 DEF Owns
<1>11. Published(p)'
  <2>1. Published(p)
    BY DEF TrialInv, CatalogInv
  <2>2. drawing <= trialResults' /\ drawing >= 1 /\ drawing - 1 = launcher[p].config.done
    BY <1>1, <1>3, <1>4, <2>1 DEF Published
  <2>3. Owns(p)' => 1 \in exported /\ Listed(catalog) = 1..launcher[p].config.done
    BY <1>1, <1>10, <2>1 DEF Published
  <2>4. Owns(p)' => 1 \in exported' /\ Listed(catalog') = 1..(launcher'[p].config.done - 1)
    BY <1>1, <1>5, <1>6, <2>2, <2>3
  <2>5. /\ launcher'[p].at = "exporting" /\ launcher'[p].config.done <= trialResults'
        /\ launcher'[p].config.done >= 1
    BY <1>5, <1>6, <2>2
  <2>6. QED
    BY <2>4, <2>5 DEF Published
<1>12. CatalogInv'
  <2>1. trialResults \in Nat /\ trialResults <= Drawings /\ trialResults <= trialResults
    BY DEF TrialInv, TrialTypes
  <2>2. QED
    BY <1>1, <1>3, <1>5, <1>6, <1>10, <1>11, <2>1, CatalogKept
<1>13. QED
  BY <1>7, <1>8, <1>9, <1>12 DEF TrialInv

\* Its owner stops being one, without a word in the record.
LEMMA FailingKeeps ==
  ASSUME TrialInv, NEW p \in Launchers, launcher[p].at \in LoopPlaces,
         Proceeds(p, "failing", launcher[p].config),
         UNCHANGED <<setupVars, config, runVars, catalogVars>>
  PROVE  TrialInv'
<1>1. UNCHANGED <<trialScript, inputs, trialDir, config, ledgerRun, verdicts, modelRuns,
                  trialResults, exported, catalog>>
  BY DEF setupVars, runVars, catalogVars
<1>2. "failing" \in LoopPlaces /\ "failing" \in LauncherPlaces
  BY DEF LoopPlaces, LauncherPlaces
<1>3. /\ LauncherIsLive(p) /\ launcher[p].at # "staging" /\ trialScript = "evo"
      /\ config.state # "none" /\ Agree(config.seals)
      /\ launcher[p].config \in Configs /\ launcher[p].config.seals = config.seals
      /\ launcher[p].config.state \notin {"none", "completed", "prepared"}
  BY InTheLoop
<1>4. /\ launcher' \in [Launchers -> LauncherTypes] /\ launcher'[p].at = "failing"
      /\ launcher'[p].config = launcher[p].config
      /\ \A q \in Launchers : q # p => launcher'[q] = launcher[q]
  BY <1>2, <1>3, Moves DEF TrialInv, TrialTypes
<1>5. TrialTypes'
  BY <1>1, <1>4 DEF TrialInv, TrialTypes
<1>6. SealInv'
  <2>1. config'.state = "prepared" => config'.done = 0
    BY <1>1 DEF TrialInv, SealInv
  <2>2. QED
    BY <1>1, <1>2, <1>3, <1>4, <2>1, SealKept
<1>7. ConversationInv'
  BY <1>1, <1>2, <1>4, LoopConversation
<1>8. ~Owns(p)' /\ Published(p)'
  BY <1>4 DEF Owns, Published
<1>9. trialResults \in Nat /\ trialResults <= Drawings /\ trialResults <= trialResults
  BY DEF TrialInv, TrialTypes
<1>10. CatalogInv'
  BY <1>1, <1>4, <1>8, <1>9, CatalogKept
<1>11. QED
  BY <1>5, <1>6, <1>7, <1>10 DEF TrialInv

\* The catalog as it was read, and as it is written back.
LEMMA PutInFront ==
  ASSUME NEW read \in Seq(Nat), NEW drawing \in Nat,
         ~\E k \in DOMAIN read : read[k] = drawing,
         \A k, l \in DOMAIN read : read[k] = read[l] => k = l
  PROVE  /\ <<drawing>> \o read \in Seq(Nat)
         /\ Listed(<<drawing>> \o read) = Listed(read) \union {drawing}
         /\ \A k, l \in DOMAIN (<<drawing>> \o read) :
              (<<drawing>> \o read)[k] = (<<drawing>> \o read)[l] => k = l
<1> DEFINE all == <<drawing>> \o read
<1>1. all \in Seq(Nat) /\ Len(all) = Len(read) + 1 /\ Len(read) \in Nat
  OBVIOUS
<1>2. all[1] = drawing /\ \A k \in 1..Len(read) : all[k + 1] = read[k]
  OBVIOUS
<1>3. DOMAIN all = 1..(Len(read) + 1) /\ DOMAIN read = 1..Len(read)
  BY <1>1
<1> HIDE DEF all
<1>4. \A k \in DOMAIN all : k = 1 \/ (k - 1 \in DOMAIN read /\ all[k] = read[k - 1])
  <2>1. TAKE k \in DOMAIN all
  <2>2. CASE k = 1
    BY <2>2
  <2>3. CASE k # 1
    <3>1. k - 1 \in 1..Len(read) /\ (k - 1) + 1 = k
      BY <1>1, <1>3, <2>3
    <3>2. QED
      BY <1>2, <1>3, <3>1
  <2>4. QED
    BY <2>2, <2>3
<1>5. \A k \in DOMAIN read : k + 1 \in DOMAIN all /\ all[k + 1] = read[k]
  BY <1>1, <1>2, <1>3
<1>6. Listed(all) = Listed(read) \union {drawing}
  <2>1. 1 \in DOMAIN all
    BY <1>1, <1>3
  <2>2. Listed(all) \subseteq Listed(read) \union {drawing}
    BY <1>2, <1>4 DEF Listed
  <2>3. Listed(read) \union {drawing} \subseteq Listed(all)
    BY <1>2, <1>5, <2>1 DEF Listed
  <2>4. QED
    BY <2>2, <2>3
<1>7. ASSUME NEW k \in DOMAIN all, NEW l \in DOMAIN all, all[k] = all[l] PROVE k = l
  <2>1. k \in Nat /\ l \in Nat
    BY <1>1, <1>3
  <2>2. CASE k = 1 /\ l = 1
    BY <2>2
  <2>3. CASE k = 1 /\ l # 1
    BY <1>2, <1>4, <1>7, <2>3
  <2>4. CASE k # 1 /\ l = 1
    BY <1>2, <1>4, <1>7, <2>4
  <2>5. CASE k # 1 /\ l # 1
    <3>1. k - 1 = l - 1
      BY <1>4, <1>7, <2>5
    <3>2. QED
      BY <2>1, <3>1
  <2>6. QED
    BY <2>2, <2>3, <2>4, <2>5
<1>8. QED
  BY <1>1, <1>6, <1>7 DEF all

LEMMA ExportKeeps ==
  ASSUME TrialInv, NEW p \in Launchers, Export(p)
  PROVE  TrialInv'
<1> DEFINE drawing == launcher[p].config.done
<1>1. /\ launcher[p].at = "exporting"
      /\ UNCHANGED <<trialScript, inputs, trialDir, config, ledgerRun, verdicts, modelRuns,
                     trialResults, catalog>>
      /\ IF drawing \in exported
         THEN Proceeds(p, "failing", launcher[p].config) /\ UNCHANGED exported
         ELSE /\ exported' = exported \union {drawing}
              /\ launcher' = [launcher EXCEPT ![p].at = "publishing", ![p].catalog = catalog]
  BY DEF Export, setupVars, runVars
<1>2. launcher[p].at \in LoopPlaces /\ "publishing" \in LoopPlaces /\ "publishing" \in LauncherPlaces
  BY <1>1 DEF LoopPlaces, LauncherPlaces
<1>3. CASE drawing \in exported
  BY <1>1, <1>2, <1>3, FailingKeeps DEF setupVars, runVars, catalogVars
<1>4. CASE drawing \notin exported
  <2>1. /\ exported' = exported \union {drawing}
        /\ launcher' = [launcher EXCEPT ![p].at = "publishing", ![p].catalog = catalog]
    BY <1>1, <1>4
  <2>2. /\ LauncherIsLive(p) /\ launcher[p].at # "staging" /\ trialScript = "evo"
        /\ config.state # "none" /\ Agree(config.seals)
        /\ launcher[p].config \in Configs /\ launcher[p].config.seals = config.seals
        /\ launcher[p].config.done \in Nat
        /\ launcher[p].config.state \notin {"none", "completed", "prepared"}
    BY <1>2, InTheLoop
  <2>3. /\ launcher \in [Launchers -> LauncherTypes] /\ catalog \in Seq(Nat)
        /\ launcher[p] \in LauncherTypes
    BY DEF TrialInv, TrialTypes
  <2> DEFINE moved == [launcher[p] EXCEPT !.at = "publishing", !.catalog = catalog]
  <2>4. launcher' = [launcher EXCEPT ![p] = moved]
    BY <2>1, <2>3 DEF LauncherTypes
  <2>5. /\ moved \in LauncherTypes /\ moved.at = "publishing" /\ moved.catalog = catalog
        /\ moved.config = launcher[p].config
    BY ONLY <1>2, <2>3 DEF LauncherTypes
  <2> HIDE DEF moved
  <2>6. /\ launcher' \in [Launchers -> LauncherTypes] /\ launcher'[p].at = "publishing"
        /\ launcher'[p].config = launcher[p].config /\ launcher'[p].catalog = catalog
        /\ \A q \in Launchers : q # p => launcher'[q] = launcher[q]
    BY ONLY <2>3, <2>4, <2>5, p \in Launchers
  <2>7. TrialTypes'
    BY <1>1, <2>1, <2>2, <2>6 DEF TrialInv, TrialTypes
  <2>8. SealInv'
    <3>1. config'.state = "prepared" => config'.done = 0
      BY <1>1 DEF TrialInv, SealInv
    <3>2. QED
      BY <1>1, <1>2, <2>2, <2>6, <3>1, SealKept
  <2>9. ConversationInv'
    BY <1>1, <1>2, <2>6, LoopConversation
  <2>10. CatalogInv'
    <3>1. Published(p) /\ drawing >= 1 /\ drawing <= trialResults
      BY <1>1 DEF TrialInv, CatalogInv, Published
    <3>2. \A q \in Launchers : q # p => (Owns(q)' <=> Owns(q)) /\ Published(q)'
      BY <1>1, <2>1, <2>6 DEF Owns, Published, TrialInv, CatalogInv
    <3>3. CASE drawing = 1
      <4>1. /\ 1 \notin exported /\ catalog = <<>> /\ \A q \in Launchers : ~Owns(q)
            /\ config.state # "completed" /\ 1 \in exported'
        BY <1>4, <2>1, <2>2, <3>3 DEF TrialInv, CatalogInv, Published
      <4>2. Listed(catalog) = {} /\ 1..(drawing - 1) = {}
        BY <3>3, <4>1 DEF Listed
      <4>3. Published(p)'
        BY <1>1, <2>6, <3>1, <4>1, <4>2 DEF Published
      <4>4. QED
        BY <1>1, <2>6, <3>2, <4>1, <4>3 DEF TrialInv, CatalogInv
    <3>4. CASE drawing >= 2
      <4>1. Owns(p) /\ 1 \in exported /\ Listed(catalog) = 1..(drawing - 1)
        BY <1>1, <3>1, <3>4 DEF Owns, Published
      <4>2. Published(p)'
        BY <1>1, <2>1, <2>6, <3>1, <4>1 DEF Published
      <4>3. QED
        BY <1>1, <2>1, <2>6, <3>2, <4>1, <4>2 DEF TrialInv, CatalogInv
    <3>5. QED
      BY <2>2, <3>1, <3>3, <3>4
  <2>11. QED
    BY <2>7, <2>8, <2>9, <2>10 DEF TrialInv
<1>5. QED
  BY <1>3, <1>4

LEMMA PublishKeeps ==
  ASSUME TrialInv, NEW p \in Launchers, Publish(p)
  PROVE  TrialInv'
<1> DEFINE drawing == launcher[p].config.done
           read == launcher[p].catalog
<1>1. /\ launcher[p].at = "publishing"
      /\ UNCHANGED <<trialScript, inputs, trialDir, ledgerRun, verdicts, modelRuns,
                     trialResults, exported>>
      /\ IF \E k \in DOMAIN read : read[k] = drawing
         THEN Proceeds(p, "failing", launcher[p].config) /\ UNCHANGED <<catalog, config>>
         ELSE /\ catalog' = <<drawing>> \o read
              /\ config' = launcher[p].config
              /\ launcher' = [launcher EXCEPT ![p].at = "selecting", ![p].catalog = <<>>]
  BY DEF Publish, setupVars, runVars
<1>2. launcher[p].at \in LoopPlaces /\ "selecting" \in LoopPlaces /\ "selecting" \in LauncherPlaces
  BY <1>1 DEF LoopPlaces, LauncherPlaces
<1>3. CASE \E k \in DOMAIN read : read[k] = drawing
  BY <1>1, <1>2, <1>3, FailingKeeps DEF setupVars, runVars, catalogVars
<1>4. CASE ~\E k \in DOMAIN read : read[k] = drawing
  <2>1. /\ catalog' = <<drawing>> \o read /\ config' = launcher[p].config
        /\ launcher' = [launcher EXCEPT ![p].at = "selecting", ![p].catalog = <<>>]
    BY <1>1, <1>4
  <2>2. /\ LauncherIsLive(p) /\ launcher[p].at # "staging" /\ trialScript = "evo"
        /\ config.state # "none" /\ Agree(config.seals)
        /\ launcher[p].config \in Configs /\ launcher[p].config.seals = config.seals
        /\ launcher[p].config.done \in Nat
        /\ launcher[p].config.state \notin {"none", "completed", "prepared"}
    BY <1>2, InTheLoop
  <2>3. /\ launcher \in [Launchers -> LauncherTypes] /\ read \in Seq(Nat)
        /\ launcher[p] \in LauncherTypes /\ <<>> \in Seq(Nat)
    BY DEF TrialInv, TrialTypes, LauncherTypes
  <2> DEFINE moved == [launcher[p] EXCEPT !.at = "selecting", !.catalog = <<>>]
  <2>4. launcher' = [launcher EXCEPT ![p] = moved]
    BY <2>1, <2>3 DEF LauncherTypes
  <2>5. moved \in LauncherTypes /\ moved.at = "selecting" /\ moved.config = launcher[p].config
    BY ONLY <1>2, <2>3 DEF LauncherTypes
  <2> HIDE DEF moved
  <2>6. /\ launcher' \in [Launchers -> LauncherTypes] /\ launcher'[p].at = "selecting"
        /\ launcher'[p].config = launcher[p].config
        /\ \A q \in Launchers : q # p => launcher'[q] = launcher[q]
    BY ONLY <2>3, <2>4, <2>5, p \in Launchers
  <2>7. /\ Published(p) /\ Owns(p) /\ read = catalog /\ drawing >= 1 /\ drawing <= trialResults
        /\ 1 \in exported /\ Listed(catalog) = 1..(drawing - 1)
        /\ \A k, l \in DOMAIN catalog : catalog[k] = catalog[l] => k = l
    BY <1>1 DEF TrialInv, CatalogInv, Published, Owns
  <2>8. /\ catalog' \in Seq(Nat) /\ Listed(catalog') = Listed(catalog) \union {drawing}
        /\ \A k, l \in DOMAIN catalog' : catalog'[k] = catalog'[l] => k = l
    <3> HIDE DEF drawing, read
    <3>1. drawing \in Nat
      BY <2>2 DEF drawing
    <3>2. /\ <<drawing>> \o read \in Seq(Nat)
          /\ Listed(<<drawing>> \o read) = Listed(read) \union {drawing}
          /\ \A k, l \in DOMAIN (<<drawing>> \o read) :
               (<<drawing>> \o read)[k] = (<<drawing>> \o read)[l] => k = l
      BY <1>4, <2>3, <2>7, <3>1, PutInFront
    <3>3. catalog' = <<drawing>> \o read /\ Listed(read) = Listed(catalog)
      BY <2>1, <2>7
    <3>4. QED
      BY <3>2, <3>3
  <2>9. Listed(catalog') = 1..drawing
    BY <2>2, <2>7, <2>8
  <2>10. TrialTypes'
    BY <1>1, <2>1, <2>2, <2>6, <2>8 DEF TrialInv, TrialTypes
  <2>11. SealInv'
    <3>1. config'.state # "none" /\ config'.seals = config.seals /\ config'.state # "prepared"
      BY <2>1, <2>2
    <3>2. QED
      BY <1>1, <1>2, <2>2, <2>6, <3>1, SealKept
  <2>12. ConversationInv'
    BY <1>1, <1>2, <2>6, LoopConversation
  <2>13. CatalogInv'
    <3>1. \A q \in Launchers : q # p => ~Owns(q) /\ ~Owns(q)'
      BY <2>6, <2>7 DEF TrialInv, CatalogInv, Owns
    <3>2. \A q \in Launchers : q # p => launcher[q].at # "publishing"
      BY <3>1 DEF Owns
    <3>3. \A q \in Launchers : q # p => Published(q)'
      BY <1>1, <2>6, <3>1, <3>2 DEF TrialInv, CatalogInv, Published
    <3>4. Published(p)'
      BY <1>1, <2>6, <2>7, <2>9 DEF Published
    <3>5. QED
      BY <1>1, <2>1, <2>2, <2>7, <2>8, <3>1, <3>3, <3>4 DEF CatalogInv
  <2>14. QED
    BY <2>10, <2>11, <2>12, <2>13 DEF TrialInv
<1>5. QED
  BY <1>3, <1>4

LEMMA WriteEndOfLoopKeeps ==
  ASSUME TrialInv, NEW p \in Launchers, WriteEndOfLoop(p)
  PROVE  TrialInv'
<1> DEFINE state == IF launcher[p].at = "failing" THEN "execution_error" ELSE "completed"
<1>1. /\ \/ launcher[p].at = "failing"
         \/ launcher[p].at = "selecting" /\ NextDrawing(p) > Drawings
      /\ config' = [launcher[p].config EXCEPT !.state = state]
      /\ Stops(p)
      /\ UNCHANGED <<trialScript, inputs, trialDir, ledgerRun, verdicts, modelRuns,
                     trialResults, exported, catalog>>
  BY DEF WriteEndOfLoop, setupVars, runVars, catalogVars
<1>2. launcher[p].at \in LoopPlaces
  BY <1>1 DEF LoopPlaces
<1>3. LauncherIsLive(p) /\ launcher[p].at # "staging" /\ trialScript = "evo"
      /\ launcher[p].config.done \in Nat
  BY <1>2, InTheLoop
<1>4. state \in {"execution_error", "completed"} /\ (state = "completed" => launcher[p].at # "failing")
  OBVIOUS
<1> HIDE DEF state
<1>5. /\ config' \in Configs /\ config'.state = state /\ config'.seals = config.seals
  BY <1>1, <1>3, <1>4, RecordWritten
<1>6. /\ launcher' \in [Launchers -> LauncherTypes] /\ launcher'[p].at = "gone"
      /\ \A q \in Launchers : q # p => launcher'[q] = launcher[q]
  BY <1>1, Gone DEF TrialInv, TrialTypes
<1>7. TrialTypes'
  BY <1>1, <1>5, <1>6 DEF TrialInv, TrialTypes
<1>8. SealInv'
  BY <1>1, <1>3, <1>4, <1>5, <1>6, SealKept
<1>9. ConversationInv'
  BY <1>1, <1>2, <1>6, LoopConversation
<1>10. CatalogInv'
  <2>1. ~Owns(p)' /\ Published(p)'
    BY <1>6 DEF Owns, Published
  <2>2. \A q \in Launchers : q # p => (Owns(q)' <=> Owns(q)) /\ Published(q)'
    BY <1>1, <1>6 DEF Owns, Published, TrialInv, CatalogInv
  <2>3. config'.state = "completed" =>
          /\ trialResults = Drawings /\ Listed(catalog) = 1..Drawings /\ 1 \in exported
          /\ \A q \in Launchers : ~Owns(q)'
    <3>1. HAVE config'.state = "completed"
    <3>2. launcher[p].at = "selecting" /\ launcher[p].config.done + 1 > Drawings
      BY <1>1, <1>4, <1>5, <3>1 DEF NextDrawing
    <3>3. /\ trialResults \in Nat /\ trialResults <= Drawings /\ Drawings \in Nat \ {0}
          /\ launcher[p].config.done <= trialResults
      BY <3>2, TrialAssumption DEF TrialInv, TrialTypes, CatalogInv, Published
    <3>4. trialResults = Drawings /\ launcher[p].config.done = Drawings /\ Drawings >= 1
      BY <1>3, <3>2, <3>3
    <3>5. Owns(p) /\ 1 \in exported /\ Listed(catalog) = 1..Drawings
      BY <3>2, <3>4 DEF TrialInv, CatalogInv, Owns, Published
    <3>6. QED
      BY <2>1, <2>2, <3>4, <3>5 DEF TrialInv, CatalogInv
  <2>4. QED
    BY <1>1, <2>1, <2>2, <2>3 DEF TrialInv, CatalogInv
<1>11. QED
  BY <1>7, <1>8, <1>9, <1>10 DEF TrialInv

LEMMA TrialKept ==
  ASSUME TrialInv, [TrialNext]_trialVars
  PROVE  TrialInv'
<1>1. ASSUME NEW p \in Launchers, LoopRaises(p) PROVE TrialInv'
  <2>1. launcher[p].at \in LoopPlaces
    BY <1>1 DEF LoopRaises, LoopPlaces
  <2>2. QED
    BY <1>1, <2>1, FailingKeeps DEF LoopRaises
<1>2. ASSUME NEW p \in Launchers, LauncherDies(p) PROVE TrialInv'
  BY <1>2, StopKeeps DEF LauncherDies
<1>3. ASSUME UNCHANGED trialVars PROVE TrialInv'
  <2>1. UNCHANGED <<trialScript, inputs, trialDir, config, ledgerRun, verdicts, modelRuns,
                    trialResults, exported, catalog, launcher>>
    BY <1>3 DEF trialVars, setupVars, runVars, catalogVars
  <2>2. TrialTypes'
    BY <2>1 DEF TrialInv, TrialTypes
  <2>3. SealInv'
    BY <2>1 DEF TrialInv, SealInv, Sealed, LauncherIsLive, ModelSawSealed, Agree
  <2>4. ConversationInv'
    BY <2>1 DEF TrialInv, ConversationInv, Converses, ModelIsAskedOnce
  <2>5. CatalogInv'
    BY <2>1 DEF TrialInv, CatalogInv, Owns, Published
  <2>6. QED
    BY <2>2, <2>3, <2>4, <2>5 DEF TrialInv
<1>4. QED
  BY <1>1, <1>2, <1>3, MakeTrialDirKeeps, PrepareKeeps, ExecutePreparedKeeps, WriteLaunchKeeps,
     RegisterKeeps, ConverseKeeps, WriteEvaluatingKeeps, FinishLedgerKeeps,
     WriteTrialResultKeeps, WriteCompletedKeeps, RunDrawingKeeps, RecordDrawingKeeps,
     ExportKeeps, PublishKeeps, WriteEndOfLoopKeeps, InputsChangeKeeps DEF TrialNext

\* The invariant of a trial holds in every state the launchers reach, however many of them
\* are started and wherever they die.
THEOREM TrialInvariance == TrialSpec => []TrialInv
<1>1. TrialInit => TrialInv
  BY TrialStarts
<1>2. TrialInv /\ [TrialNext]_trialVars => TrialInv'
  BY TrialKept
<1>3. QED
  BY <1>1, <1>2, PTL DEF TrialSpec

\* A trial reports one measurement: the model is asked once, on no image other than the one
\* that was registered (the Codex script may find none; the Kimi script's inputs are all as
\* registered), and "completed" is written only over all the results, each drawing once in
\* the catalog that several launchers read and replace (TrialIsHonest).
THEOREM TrialHonest == TrialSpec => []TrialIsHonest
<1>1. TrialInv => TrialIsHonest
  BY DEF TrialInv, SealInv, ConversationInv, CatalogInv, Listed, TrialIsHonest, CompletedIsThere
<1>2. QED
  BY <1>1, TrialInvariance, PTL

(***************************************************************************)
(* The six side by side                                                    *)
(***************************************************************************)

\* A step of the composition is a step of each part, or leaves it alone.
LEMMA StepOfEach ==
  ASSUME [EvolutionNext]_<<scenario, batchAll, improvementVars, benchVars, ledgerVars, paperVars,
                           trialVars>>
  PROVE  /\ [BatchNext]_batchAll /\ [ImprovementNext]_improvementVars /\ [BenchNext]_benchVars
         /\ [LedgerNext]_ledgerVars /\ [PaperNext]_paperVars /\ [TrialNext]_trialVars
BY DEF EvolutionNext

\* The composition implements each of its parts: what is proved of a batch campaign, a release,
\* a benchmark record, a run of the ledger, a paper run or a trial alone holds in it.
THEOREM EvolutionImplements ==
  EvolutionSpec => /\ BatchSpec /\ ImprovementSpec /\ BenchSpec
                   /\ LedgerSpec /\ PaperSpec /\ TrialSpec
<1>1. EvolutionInit => /\ BatchInit /\ ImprovementInit /\ BenchInit
                       /\ LedgerInit /\ PaperInit /\ TrialInit
  BY DEF EvolutionInit
<1>2. [EvolutionNext]_<<scenario, batchAll, improvementVars, benchVars, ledgerVars, paperVars,
                        trialVars>>
        => /\ [BatchNext]_batchAll /\ [ImprovementNext]_improvementVars /\ [BenchNext]_benchVars
           /\ [LedgerNext]_ledgerVars /\ [PaperNext]_paperVars /\ [TrialNext]_trialVars
  BY StepOfEach
<1>3. QED
  BY <1>1, <1>2, PTL
  DEF EvolutionSpec, BatchSpec, ImprovementSpec, BenchSpec, LedgerSpec, PaperSpec, TrialSpec

\* What is on record of a paper run and of a registered trial is so, however often they die
\* and are started again (RunsAreAccounted).
THEOREM RunsAccounted == EvolutionSpec => []RunsAreAccounted
<1>1. PaperInv => PaperRunIsAccounted
  BY DEF PaperInv
<1>2. PaperSpec => []PaperRunIsAccounted
  BY <1>1, PaperInvariance, PTL
<1>3. PaperRunIsAccounted /\ TrialIsHonest => RunsAreAccounted
  BY DEF RunsAreAccounted
<1>4. QED
  BY <1>2, <1>3, EvolutionImplements, TrialHonest, PTL

\* No row of a batch campaign that was settled changes, and no event of a paper run is lost
\* (RecordsLast).
THEOREM RecordsAreLasting == EvolutionSpec => RecordsLast
BY EvolutionImplements, SettledLast, EventsKept DEF RecordsLast

==================================================================================
