---------------------------- MODULE ArtifactStore ----------------------------
(***************************************************************************)
(* ProjectStore.register_artifact: a file is copied to the place that its   *)
(* digest names, and its registration is appended to the event log.  No     *)
(* lock is held until the append, so registrars of one content (kernels     *)
(* that work on a unit at the same time, a submitter beside a kernel) share *)
(* one temporary file; they may die, and a source may be rewritten by the   *)
(* job it comes from.  A digest is the content it is of; the append is one  *)
(* step, as ProjectStore shows.                                             *)
(***************************************************************************)
EXTENDS Naturals, FiniteSets

CONSTANTS
  Registrars, ArtifactIds, Bodies,
  RewriteCap  \* bound: how often a source is rewritten

ASSUME ArtifactAssumption ==
  RewriteCap \in Nat /\ Bodies \intersect {"missing", "damaged"} = {}

VARIABLES
  sourceOf,    \* of each artifact: what its source file holds
  temporary,   \* of each content: <digest>.tmp
  stored,      \* of each content: the file at its place
  registered,  \* artifact.registered events
  registrar,   \* of each registrar: its call
  disturbed,   \* history: contents two registrars copied at once, or whose source changed
  rewrites     \* history: how often a source was rewritten

artifactVars ==
  <<sourceOf, temporary, stored, registered, registrar, disturbed, rewrites>>

Missing == "missing"
Damaged == "damaged"
NoCall == [at |-> "off", id |-> Missing, digest |-> Missing, writes |-> Missing]

ArtifactInit ==
  /\ sourceOf \in [ArtifactIds -> Bodies]
  /\ temporary = [c \in Bodies |-> Missing]
  /\ stored = [c \in Bodies |-> Missing]
  /\ registered = {}
  /\ registrar = [r \in Registrars |-> NoCall]
  /\ disturbed = {} /\ rewrites = 0

Call(r) == registrar[r]
Digest(r) == registrar[r].digest
Proceeds(r, at) == registrar' = [registrar EXCEPT ![r].at = at]
Raises(r) == registrar' = [registrar EXCEPT ![r] = NoCall]

\* Those whose copy is under way, or done and not yet moved.
Copiers(c) == {r \in Registrars : Digest(r) = c /\ Call(r).at \in {"copying", "moving"}}

-----------------------------------------------------------------------------
(* register_artifact *)

HashSource(r, id) ==
  /\ Call(r).at = "off"
  /\ registrar' = [registrar EXCEPT ![r] =
       [at |-> "looking", id |-> id, digest |-> sourceOf[id], writes |-> Missing]]
  /\ UNCHANGED <<sourceOf, temporary, stored, registered, disturbed, rewrites>>

\* What is there already must have the digest.
LookForFile(r) ==
  /\ Call(r).at = "looking"
  /\ CASE stored[Digest(r)] = Missing -> Proceeds(r, "opening")
       [] stored[Digest(r)] = Digest(r) -> Proceeds(r, "appending")
       [] OTHER -> Raises(r)
  /\ UNCHANGED <<sourceOf, temporary, stored, registered, disturbed, rewrites>>

\* Mutant of OpenTemporary: a temporary file that is there is taken for a finished copy.
TakeTemporary(r) ==
  /\ Call(r).at = "opening"
  /\ IF temporary[Digest(r)] = Missing
       THEN /\ temporary' = [temporary EXCEPT ![Digest(r)] = Damaged]
            /\ registrar' = [registrar EXCEPT ![r].at = "copying", ![r].writes = "temporary"]
       ELSE Proceeds(r, "moving") /\ UNCHANGED temporary
  /\ disturbed' = IF Copiers(Digest(r)) = {} THEN disturbed
                  ELSE disturbed \union {Digest(r)}
  /\ UNCHANGED <<sourceOf, stored, registered, rewrites>>

\* copy2 truncates what is there, a copy of somebody else's too.
OpenTemporary(r) ==
  /\ Call(r).at = "opening"
  /\ temporary' = [temporary EXCEPT ![Digest(r)] = Damaged]
  /\ registrar' = [registrar EXCEPT ![r].at = "copying", ![r].writes = "temporary"]
  /\ disturbed' = IF Copiers(Digest(r)) = {} THEN disturbed
                  ELSE disturbed \union {Digest(r)}
  /\ UNCHANGED <<sourceOf, stored, registered, rewrites>>

\* The source is copied as it is now.  Two copies into one file at once leave it whole or
\* not, and so may a source that changes under them.  A file that was moved is written at its new place.
FinishCopy(r) ==
  /\ Call(r).at = "copying"
  /\ \E content \in {sourceOf[Call(r).id]} \union
                    (IF Digest(r) \in disturbed THEN {Damaged} ELSE {}) :
       IF Call(r).writes = "temporary"
         THEN temporary' = [temporary EXCEPT ![Digest(r)] = content] /\ UNCHANGED stored
         ELSE stored' = [stored EXCEPT ![Digest(r)] = content] /\ UNCHANGED temporary
  /\ registrar' = [registrar EXCEPT ![r].at = "moving", ![r].writes = Missing]
  /\ UNCHANGED <<sourceOf, registered, disturbed, rewrites>>

StillWrites(c) == {r \in Copiers(c) : Call(r).writes = "temporary"}

\* os.replace raises if the file is gone; while somebody writes it, it raises on Windows
\* and takes the file with it elsewhere.
MoveIntoPlace(r) ==
  /\ Call(r).at = "moving"
  /\ \/ /\ temporary[Digest(r)] = Missing \/ StillWrites(Digest(r)) # {}
        /\ Raises(r)
        /\ UNCHANGED <<temporary, stored>>
     \/ /\ temporary[Digest(r)] # Missing
        /\ stored' = [stored EXCEPT ![Digest(r)] = temporary[Digest(r)]]
        /\ temporary' = [temporary EXCEPT ![Digest(r)] = Missing]
        /\ registrar' = [other \in Registrars |->
             IF other = r THEN [registrar[r] EXCEPT !.at = "appending"]
             ELSE IF other \in StillWrites(Digest(r))
                    THEN [registrar[other] EXCEPT !.writes = "stored"]
             ELSE registrar[other]]
  /\ UNCHANGED <<sourceOf, registered, disturbed, rewrites>>

\* The event carries the size of what is there now.  One of the same id that says
\* something else is an error.
AppendRegistration(r) ==
  /\ Call(r).at = "appending"
  /\ LET known == {event \in registered : event.id = Call(r).id}
         event == [id |-> Call(r).id, digest |-> Digest(r), size |-> stored[Digest(r)]]
     IN  registered' = IF known = {} THEN registered \union {event} ELSE registered
  /\ Raises(r)
  /\ UNCHANGED <<sourceOf, temporary, stored, disturbed, rewrites>>

-----------------------------------------------------------------------------
(* What happens around it *)

RegistrarDies(r) ==
  /\ Call(r).at # "off"
  /\ Raises(r)
  /\ UNCHANGED <<sourceOf, temporary, stored, registered, disturbed, rewrites>>

RewriteSource(id, content) ==
  /\ rewrites < RewriteCap /\ sourceOf[id] # content
  /\ sourceOf' = [sourceOf EXCEPT ![id] = content]
  /\ rewrites' = rewrites + 1
  /\ disturbed' = disturbed \union
       {Digest(r) : r \in {s \in Registrars :
          Call(s).id = id /\ Call(s).at \in {"looking", "opening", "copying"}}}
  /\ UNCHANGED <<temporary, stored, registered, registrar>>

ArtifactNext ==
  \/ \E r \in Registrars :
       \/ \E id \in ArtifactIds : HashSource(r, id)
       \/ LookForFile(r) \/ OpenTemporary(r) \/ FinishCopy(r) \/ MoveIntoPlace(r)
       \/ AppendRegistration(r) \/ RegistrarDies(r)
  \/ \E id \in ArtifactIds, content \in Bodies : RewriteSource(id, content)

ArtifactSpec == ArtifactInit /\ [][ArtifactNext]_artifactVars

-----------------------------------------------------------------------------
(* Properties *)

\* A place holds nothing or the content it is named for, whoever died in the middle of a
\* copy: unless two copied the content at once or a source changed after it was hashed.
\* What is registered is there, with its size.
ArtifactsAreTheirDigest ==
  /\ \A c \in Bodies \ disturbed : stored[c] \in {Missing, c}
  /\ \A event \in registered :
       /\ stored[event.digest] # Missing
       /\ event.digest \notin disturbed => event.size = event.digest

\* An artifact that was right is never damaged by a registration that comes later, unless
\* that one's source changed under it or another copied at the same time.
ArtifactsLast ==
  [][ /\ registered \subseteq registered'
      /\ \A c \in Bodies \ disturbed' : stored[c] = c => stored'[c] = c ]_artifactVars
=============================================================================
