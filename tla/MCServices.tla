------------------------------ MODULE MCServices ------------------------------
(***************************************************************************)
(* Instances of six modules that share no state, checked in one run: the   *)
(* operation broker, an episode of the post-training environment, the      *)
(* drawing questions, the replay of frozen candidates, the model transport *)
(* and the artifacts of a project.  A behaviour is one of one module,      *)
(* which scenario names; the variables of the others keep their initial    *)
(* values.                                                                 *)
(***************************************************************************)
EXTENDS OperationBroker, TaskEpisode, DrawingQA, FrozenReplay, ModelTransport,
        ArtifactStore

VARIABLE scenario

\* What all sources hold at first.
MCContent == CHOOSE c \in Bodies : TRUE

MCRequirements == [c \in Contracts |-> [k \in Kinds |-> 0]]

\* The initial states of a module that does not run would only multiply those of the
\* one that does.
ServicesInit ==
  /\ scenario \in {"broker", "episode", "questions", "replay", "transport", "artifacts"}
  /\ BrokerInit /\ EpisodeInit /\ QAInit /\ ReplayInit /\ TransportInit /\ ArtifactInit
  /\ scenario # "episode" => driver = "client"
  /\ scenario # "replay" => flavour = "replay"
  /\ scenario # "transport" => transport = "kimi"
  /\ sourceOf = [id \in ArtifactIds |-> MCContent]

ServicesNext ==
  /\ UNCHANGED scenario
  /\ \/ /\ scenario = "broker" /\ BrokerNext
        /\ UNCHANGED <<episodeVars, qaVars, frozenVars, transportVars, artifactVars>>
     \/ /\ scenario = "episode" /\ EpisodeNext
        /\ UNCHANGED <<brokerVars, qaVars, frozenVars, transportVars, artifactVars>>
     \/ /\ scenario = "questions" /\ QANext
        /\ UNCHANGED <<brokerVars, episodeVars, frozenVars, transportVars, artifactVars>>
     \/ /\ scenario = "replay" /\ ReplayNext
        /\ UNCHANGED <<brokerVars, episodeVars, qaVars, transportVars, artifactVars>>
     \/ /\ scenario = "transport" /\ TransportNext
        /\ UNCHANGED <<brokerVars, episodeVars, qaVars, frozenVars, artifactVars>>
     \/ /\ scenario = "artifacts" /\ ArtifactNext
        /\ UNCHANGED <<brokerVars, episodeVars, qaVars, frozenVars, transportVars>>

ServicesSpec ==
  ServicesInit
    /\ [][ServicesNext]_<<scenario, brokerVars, episodeVars, qaVars, frozenVars, transportVars,
                          artifactVars>>

-----------------------------------------------------------------------------
(* Properties *)

\* Tasks are built from the questions that were audited; a replay's rows are of one edition of
\* the sources that its manifest names and of the candidates that the ledger names (a
\* backfill's too, or its next start raises); and an artifact's file is what its digest says.
FixedThingsAreUsed == QuestionsAreAudited /\ ReplayIsFrozen /\ ArtifactsAreTheirDigest

\* What was recorded lasts: the end of an episode and its verdict, the rows and the
\* records of a replay, the artifacts of a project.
ServicesRecordsLast == EpisodeLasts /\ ReplayRecordsLast /\ ArtifactsLast
=============================================================================
