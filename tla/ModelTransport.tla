---------------------------- MODULE ModelTransport ----------------------------
(***************************************************************************)
(* How a geometry job talks to its model: one process of a command line     *)
(* client per turn, through agent/models/kimi_geometry.py or codex_cli.py,  *)
(* and the files a turn leaves in the directory of the attempt.  A client   *)
(* whose job dies runs on.  What is asked, and what becomes of the answer,  *)
(* is modelled by GeometryJob and EvidenceFlow.                             *)
(***************************************************************************)
EXTENDS Naturals, Sequences, FiniteSets

CONSTANTS
  DecisionTries,  \* DECISION_RETRY_LIMIT + 1
  ClientCap,      \* bound: how many clients are started
  AttemptsOfJob   \* max_iterations

ASSUME TransportAssumption ==
  DecisionTries \in Nat \ {0} /\ ClientCap \in Nat /\ AttemptsOfJob \in Nat \ {0}

VARIABLES
  transport, \* "kimi" or "codex"
  sessions,  \* session_index.jsonl of the job's home; a session is the client that made it
  clients,   \* of each client: what it was asked for, where it runs, what it said
  progress,  \* recovery-state.json: phase and number of the attempt, the conversation
  action,    \* the files of the action turn of the attempt
  decisions, \* the directories of its decision turns
  turn,      \* the call of run_geometry_job that is under way
  heeded     \* history: the clients whose decision was taken

transportVars ==
  <<transport, sessions, clients, progress, action, decisions, turn, heeded>>

Nobody == 0
NoTurn == [at |-> "off", thread |-> Nobody, named |-> Nobody, tries |-> 0]

\* The client that wrote the events, the one whose text is the final message, and the
\* session that transport.json names.
NoFiles == [events |-> Nobody, message |-> Nobody, closed |-> FALSE, session |-> Nobody]

TransportInit ==
  /\ transport \in {"kimi", "codex"}
  /\ sessions = {} /\ clients = <<>>
  /\ progress = [phase |-> "none", attempt |-> 1, thread |-> Nobody]
  /\ action = NoFiles /\ decisions = <<>>
  /\ turn = NoTurn
  /\ heeded = {}

TurnRaises == turn' = NoTurn

\* The turn at hand is the action, or the newest decision.
IsAction == progress.phase = "running"
Files == IF IsAction THEN action ELSE decisions[Len(decisions)]
WriteFiles(files) ==
  IF IsAction THEN action' = files /\ UNCHANGED decisions
  ELSE decisions' = [decisions EXCEPT ![Len(decisions)] = files] /\ UNCHANGED action

-----------------------------------------------------------------------------
(* The job *)

CallTransport ==
  /\ turn.at = "off"
  /\ turn' = [NoTurn EXCEPT !.thread = progress.thread,
                            !.at = IF progress.phase = "none" THEN "between"
                                   ELSE IF IsAction THEN "archiving" ELSE "deciding"]
  /\ UNCHANGED <<transport, sessions, clients, progress, action, decisions, heeded>>

\* The files of an attempt lie in a directory of its own.
BeginAttempt ==
  /\ turn.at = "between" /\ progress.attempt <= AttemptsOfJob
  /\ progress' = [progress EXCEPT !.phase = "running"]
  /\ action' = NoFiles /\ decisions' = <<>>
  /\ turn' = [turn EXCEPT !.at = "archiving"]
  /\ UNCHANGED <<transport, sessions, clients, heeded>>

\* Mutant of ArchiveInterrupted: what an interrupted action left stays.
ArchiveInNoDirectory ==
  /\ turn.at = "archiving"
  /\ turn' = [turn EXCEPT !.at = "asking"]
  /\ UNCHANGED <<transport, sessions, clients, progress, action, decisions, heeded>>

\* What an interrupted action left is moved away; a client that still writes its events
\* writes them there.
ArchiveInterrupted ==
  /\ turn.at = "archiving"
  /\ action' = NoFiles
  /\ turn' = [turn EXCEPT !.at = "asking"]
  /\ UNCHANGED <<transport, sessions, clients, progress, decisions, heeded>>

Client(asked) ==
  [asked |-> asked, session |-> Nobody, live |-> TRUE, words |-> "none",
   attempt |-> progress.attempt, place |-> IF IsAction THEN 0 ELSE Len(decisions')]

RunClient(asked) ==
  /\ Len(clients) < ClientCap
  /\ clients' = Append(clients, Client(asked))
  /\ turn' = [turn EXCEPT !.at = "waiting"]

\* Mutant of TheSession: any session of the job will do.
AnySession(expected) ==
  IF expected # Nobody THEN {expected} \intersect sessions
  ELSE IF sessions = {} THEN {}
  ELSE {CHOOSE s \in sessions : \A other \in sessions : s <= other}

\* _session: the one that was asked for if it is there, the only one if none was.
TheSession(expected) ==
  IF expected # Nobody THEN {expected} \intersect sessions
  ELSE IF Cardinality(sessions) = 1 THEN sessions ELSE {}

\* start_command: a job that already has a session goes on with it, if it has just one.
MayStart == transport = "kimi" /\ sessions # {} => TheSession(Nobody) # {}
Started ==
  IF transport = "kimi" /\ sessions # {} THEN CHOOSE s \in TheSession(Nobody) : TRUE
  ELSE Nobody

StartAction ==
  /\ turn.at = "asking" /\ turn.thread = Nobody
  /\ IF MayStart
       THEN RunClient(Started) /\ action' = [action EXCEPT !.events = Len(clients')]
       ELSE TurnRaises /\ UNCHANGED <<clients, action>>
  /\ UNCHANGED <<transport, sessions, progress, decisions, heeded>>

ResumeAction ==
  /\ turn.at = "asking" /\ turn.thread # Nobody
  /\ RunClient(turn.thread)
  /\ action' = [action EXCEPT !.events = Len(clients')]
  /\ UNCHANGED <<transport, sessions, progress, decisions, heeded>>

-----------------------------------------------------------------------------
(* A client; it is not part of the repository *)

\* It makes a session, or enters the one it was asked for.
ClientEnters(c) ==
  /\ clients[c].live /\ clients[c].session = Nobody
  /\ IF clients[c].asked = Nobody
       THEN /\ sessions' = sessions \union {c}
            /\ clients' = [clients EXCEPT ![c].session = c]
       ELSE /\ clients[c].asked \in sessions
            /\ clients' = [clients EXCEPT ![c].session = clients[c].asked]
            /\ UNCHANGED sessions
  /\ UNCHANGED <<transport, progress, action, decisions, turn, heeded>>

\* Its last message is a valid decision, or something else.  Codex writes it to the path
\* it was given.
ClientSpeaks(c) ==
  /\ clients[c].live /\ clients[c].session # Nobody /\ clients[c].words = "none"
  /\ \E words \in {"valid", "other"} : clients' = [clients EXCEPT ![c].words = words]
  /\ IF transport = "codex" /\ clients[c].attempt = progress.attempt
       THEN IF clients[c].place = 0
              THEN action' = [action EXCEPT !.message = c] /\ UNCHANGED decisions
              ELSE decisions' = [decisions EXCEPT ![clients[c].place].message = c]
                     /\ UNCHANGED action
       ELSE UNCHANGED <<action, decisions>>
  /\ UNCHANGED <<transport, sessions, progress, turn, heeded>>

ClientEnds(c) ==
  /\ clients[c].live
  /\ clients' = [clients EXCEPT ![c].live = FALSE]
  /\ UNCHANGED <<transport, sessions, progress, action, decisions, turn, heeded>>

-----------------------------------------------------------------------------
(* run_process *)

\* wait() returns, or the time is over and the client is killed.
ClientIsOver == clients' = [clients EXCEPT ![Files.events].live = FALSE]

\* The session is looked up in the index; that it is not found is only recorded.
AwaitKimi ==
  /\ turn.at = "waiting" /\ transport = "kimi"
  /\ ClientIsOver
  /\ LET asked == clients[Files.events].asked
         found == TheSession(asked)
         session == IF found = {} THEN asked ELSE CHOOSE s \in found : TRUE
     IN  turn' = [turn EXCEPT !.at = "message", !.named = session]
  /\ UNCHANGED <<transport, sessions, progress, action, decisions, heeded>>

\* parse_codex_events: the session that the client's own events name.
SessionOfEvents == clients[Files.events].session

AwaitCodex ==
  /\ turn.at = "waiting" /\ transport = "codex"
  /\ ClientIsOver
  /\ turn' = [turn EXCEPT !.at = "closed", !.named = SessionOfEvents]
  /\ UNCHANGED <<transport, sessions, progress, action, decisions, heeded>>

\* The last text of the events; of a decision only what is valid.
Said(c) == clients[c].words = "valid" \/ (IsAction /\ clients[c].words = "other")

WriteMessage ==
  /\ turn.at = "message"
  /\ IF Said(Files.events)
       THEN WriteFiles([Files EXCEPT !.message = Files.events])
       ELSE UNCHANGED <<action, decisions>>
  /\ turn' = [turn EXCEPT !.at = "metadata"]
  /\ UNCHANGED <<transport, sessions, clients, progress, heeded>>

WriteTransport ==
  /\ turn.at = "metadata"
  /\ WriteFiles([Files EXCEPT !.closed = TRUE, !.session = turn.named])
  /\ turn' = [turn EXCEPT !.at = "closed"]
  /\ UNCHANGED <<transport, sessions, clients, progress, heeded>>

-----------------------------------------------------------------------------
(* What the job makes of a turn *)

\* action_completed: the first conversation that got a name is kept.
CheckpointTurn ==
  /\ turn.at = "closed" /\ IsAction
  /\ LET thread == IF turn.thread # Nobody THEN turn.thread ELSE turn.named
     IN  /\ progress' = [progress EXCEPT !.phase = "acted", !.thread = thread]
         /\ turn' = [turn EXCEPT !.at = "deciding", !.thread = thread]
  /\ UNCHANGED <<transport, sessions, clients, action, decisions, heeded>>

Valid(files) == files.message # Nobody /\ clients[files.message].words = "valid"

\* A decision turn has a directory of its own, and goes on with the conversation.
AskForDecision ==
  /\ turn.at = "deciding" /\ turn.thread # Nobody /\ turn.tries < DecisionTries
  /\ turn.tries = 0 => \A n \in DOMAIN decisions : ~Valid(decisions[n])
  /\ decisions' = Append(decisions, [NoFiles EXCEPT !.events = Len(clients) + 1])
  /\ Len(clients) < ClientCap
  /\ clients' = Append(clients, Client(turn.thread))
  /\ turn' = [turn EXCEPT !.at = "waiting", !.tries = @ + 1]
  /\ UNCHANGED <<transport, sessions, progress, action, heeded>>

Heed(client) ==
  /\ heeded' = heeded \union {client}
  /\ progress' = [progress EXCEPT !.phase = "none", !.attempt = @ + 1]
  /\ turn' = [turn EXCEPT !.at = "between"]

\* The first valid one that an interrupted call left; the decision is to go on.
RecoverDecision ==
  /\ turn.at = "deciding" /\ turn.tries = 0
  /\ \E n \in DOMAIN decisions :
       /\ Valid(decisions[n]) /\ \A earlier \in 1..(n - 1) : ~Valid(decisions[earlier])
       /\ Heed(decisions[n].message)
  /\ UNCHANGED <<transport, sessions, clients, action, decisions>>

\* Of a live turn the exit of the client counts as well.
TakeDecision ==
  /\ turn.at = "closed" /\ ~IsAction
  /\ \/ Valid(Files) /\ Heed(Files.message)
     \/ turn' = [turn EXCEPT !.at = "deciding"] /\ UNCHANGED <<progress, heeded>>
  /\ UNCHANGED <<transport, sessions, clients, action, decisions>>

\* The process dies, or stops without a decision; the next call finds what it left.
TransportDies ==
  /\ turn.at # "off"
  /\ TurnRaises
  /\ UNCHANGED <<transport, sessions, clients, progress, action, decisions, heeded>>

TransportNext ==
  \/ CallTransport \/ BeginAttempt \/ ArchiveInterrupted \/ StartAction \/ ResumeAction
  \/ AwaitKimi \/ AwaitCodex \/ WriteMessage \/ WriteTransport \/ CheckpointTurn
  \/ AskForDecision \/ RecoverDecision \/ TakeDecision \/ TransportDies
  \/ \E c \in DOMAIN clients : ClientEnters(c) \/ ClientSpeaks(c) \/ ClientEnds(c)

TransportSpec == TransportInit /\ [][TransportNext]_transportVars

-----------------------------------------------------------------------------
(* Properties *)

\* Every decision that was heeded came from the conversation that is on record, and so
\* did the words of the action it is about, whoever else made a session meanwhile.
DecisionsAreOfTheThread ==
  /\ \A c \in heeded : clients[c].session = progress.thread
  /\ progress.phase = "acted" /\ progress.thread # Nobody =>
       (clients[action.events].words # "none" =>
          clients[action.events].session = progress.thread)

\* A final message that Kimi's adapter wrote is the one of the turn whose events lie
\* beside it, and the session it is filed under is that turn's, or none.
MessagesAreOwn ==
  transport = "kimi" =>
    \A files \in {action} \union {decisions[n] : n \in DOMAIN decisions} :
      files.message # Nobody =>
        /\ files.message = files.events
        /\ files.closed => files.session \in {Nobody, clients[files.events].session}

TurnsAreOneConversation == DecisionsAreOfTheThread /\ MessagesAreOwn
=============================================================================
