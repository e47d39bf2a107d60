------------------------------ MODULE EventLog ------------------------------
(***************************************************************************)
(* What the project store promises its callers: an append-only log that    *)
(* takes each keyed request at most once, whoever submits it and however   *)
(* often, and whose answers can be trusted.  A call takes effect at one    *)
(* instant between its submission and its answer; a call that is lost      *)
(* may have taken effect or not.  Nothing is promised of a log that was    *)
(* damaged.                                                                *)
(***************************************************************************)
EXTENDS Naturals, Sequences

CONSTANTS
  Callers,   \* whoever submits events
  Requests,  \* what can be submitted: [key, body]
  Nothing,   \* no call in flight
  Unkeyed    \* the key of a request that was given none

VARIABLES
  events,  \* the log
  call,    \* of each caller: its request in flight and whether it is in the log
  answer,  \* of each caller: what it was told about its last request
  damaged  \* whether a line was damaged on its way to the disk

eventLogVars == <<events, call, answer, damaged>>

Holds(request) == \E i \in 1..Len(events) : events[i] = request
KeyTaken(request) ==
  /\ request.key # Unkeyed
  /\ \E i \in 1..Len(events) : events[i].key = request.key

Init ==
  /\ events = <<>>
  /\ call = [c \in Callers |-> Nothing]
  /\ answer = [c \in Callers |-> "none"]
  /\ damaged = FALSE

Submit(c) ==
  /\ call[c] = Nothing
  /\ \E request \in Requests :
       call' = [call EXCEPT ![c] = [request |-> request, recorded |-> FALSE]]
  /\ answer' = [answer EXCEPT ![c] = "none"]
  /\ UNCHANGED events

Record(c) ==
  /\ call[c] # Nothing
  /\ ~call[c].recorded
  /\ ~KeyTaken(call[c].request)
  /\ events' = Append(events, call[c].request)
  /\ call' = [call EXCEPT ![c] = [request |-> call[c].request, recorded |-> TRUE]]
  /\ UNCHANGED answer

Answered(c, told) ==
  /\ call[c] # Nothing
  /\ call' = [call EXCEPT ![c] = Nothing]
  /\ answer' = [answer EXCEPT ![c] = told]
  /\ UNCHANGED events

\* A request is only answered with success when the log holds it.
Accept(c) == Answered(c, "accepted") /\ Holds(call[c].request)

\* A request is only refused when it left no trace.
Refuse(c) == Answered(c, "refused") /\ ~call[c].recorded

\* The caller dies, or is told nothing of use, perhaps in the very instant its request takes effect.
Lose(c) ==
  \/ Answered(c, "lost")
  \/ /\ call[c] # Nothing
     /\ ~call[c].recorded
     /\ ~KeyTaken(call[c].request)
     /\ events' = Append(events, call[c].request)
     /\ call' = [call EXCEPT ![c] = Nothing]
     /\ answer' = [answer EXCEPT ![c] = "lost"]

\* The caller turns to something else.
Forget(c) ==
  /\ call[c] = Nothing
  /\ answer' = [answer EXCEPT ![c] = "none"]
  /\ UNCHANGED <<events, call>>

Operate ==
  /\ \E c \in Callers :
       Submit(c) \/ Record(c) \/ Accept(c) \/ Refuse(c) \/ Lose(c) \/ Forget(c)
  /\ UNCHANGED damaged

Damage == damaged'

Next == Operate \/ Damage

Spec == Init /\ [][Next]_eventLogVars
=============================================================================
