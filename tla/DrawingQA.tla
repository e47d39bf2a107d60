------------------------------ MODULE DrawingQA -----------------------------
(***************************************************************************)
(* How real drawing questions are made                                     *)
(* (src/src/cad_evoloop/posttrain/drawing_qa.py): sources are prepared, an *)
(* author writes questions with their answers batch by batch, a blind      *)
(* auditor answers them, and tasks are built from what both have written.  *)
(*                                                                         *)
(* Each is a process of its own that is started by hand, once, as its      *)
(* directory must be new: none waits for the one before, which may still   *)
(* be writing or have died, and somebody may change a file in between.     *)
(* What binds them are hashes; a file's hash is its content here.          *)
(***************************************************************************)
EXTENDS Naturals, Sequences, SequencesExt

CONSTANTS
  Batches,      \* number of batches of the plan, of one question each
  Protocols,    \* of "verbose", "boxed" and "contextual"
  ChangeCap     \* bound: files changed by hand

ASSUME QAAssumption ==
  /\ Batches \in Nat \ {0}
  /\ Protocols \subseteq {"verbose", "boxed", "contextual"}
  /\ ChangeCap \in Nat

VARIABLES
  sources,    \* edition of the image that sources.json names, and of the image
  plan,       \* plan.json of the author: its protocol, and the evidence it asks for
  author,     \* where the author is, and the edition and the questions it holds
  published,  \* questions.json: edition and plan it was made from, and the questions
  auditor,    \* where the auditor is, and the questions it has read
  audit,      \* audit.json: the questions and the plan it is bound to, and the answers
  builder,    \* where the builder is, and the questions and the answers it has read
  tasks,      \* the tasks it has sealed
  changed     \* history: files changed by hand so far

qaVars == <<sources, plan, author, published, auditor, audit, builder, tasks, changed>>

Answers == {"x", "y"}

\* What validate_question and the author himself say of a question.
Qualities == {"sound", "invalid", "unsure"}
NoPlan == [protocol |-> "none", evidence |-> {}]
Unpublished == [edition |-> 0, plan |-> NoPlan, questions |-> <<>>]
Idle == [at |-> "idle", edition |-> 0, questions |-> <<>>, answers |-> <<>>]
Running(process) == process.at \notin {"idle", "done", "dead"}

QAInit ==
  /\ sources = [named |-> 0, image |-> 0]
  /\ plan = NoPlan
  /\ published = Unpublished
  /\ audit = [of |-> Unpublished, plan |-> NoPlan, answers |-> <<>>]
  /\ author = Idle /\ auditor = Idle /\ builder = Idle
  /\ tasks = {}
  /\ changed = 0

\* prepare_sources: the images, then the manifest that names them.
Prepare ==
  /\ sources.named = 0
  /\ sources' = [named |-> 1, image |-> 1]
  /\ UNCHANGED <<plan, author, published, auditor, audit, builder, tasks, changed>>

-----------------------------------------------------------------------------
(* The author *)

\* What the plan asks for: a contextual one wants evidence that is not merely local.
PlanOf(protocol) ==
  [protocol |-> protocol,
   evidence |-> IF protocol = "contextual" THEN {"context"} ELSE {"local", "context"}]

StartAuthor ==
  /\ author.at = "idle" /\ sources.named # 0
  /\ \E protocol \in Protocols : plan' = PlanOf(protocol)
  /\ author' = [author EXCEPT !.at = "asking", !.edition = sources.named]
  /\ UNCHANGED <<sources, published, auditor, audit, builder, tasks, changed>>

\* The images of a batch are compared with the manifest before the model is called.
AuthorAsks ==
  /\ author.at = "asking"
  /\ author' = [author EXCEPT !.at = IF sources.image = author.edition THEN "waiting" ELSE "dead"]
  /\ UNCHANGED <<sources, plan, published, auditor, audit, builder, tasks, changed>>

\* Questions that are not valid are published as such.  edition is the one of the images
\* that the author was shown, wording the one of the question.
AuthorPublishes ==
  /\ author.at = "waiting"
  /\ \E quality \in Qualities :
       LET question == [quality |-> quality, answer |-> "x", wording |-> 1, edition |-> author.edition]
           questions == Append(author.questions, question)
       IN  /\ author' = [author EXCEPT !.questions = questions,
                           !.at = IF Len(questions) = Batches THEN "done" ELSE "asking"]
           /\ published' = [edition |-> author.edition, questions |-> questions,
                            plan |-> PlanOf(plan.protocol)]
  /\ UNCHANGED <<sources, plan, auditor, audit, builder, tasks, changed>>

-----------------------------------------------------------------------------
(* The blind auditor *)

\* Mutant of SameEdition: the manifest may have been made anew.
AnyEdition == published.edition # 0

SameEdition == published.edition = sources.named

\* audit_questions reads the questions and takes their file's hash later, when the author
\* may have published another batch.
AuditorReads ==
  /\ auditor.at = "idle" /\ published # Unpublished
  /\ auditor' = [auditor EXCEPT !.questions = published.questions, !.edition = sources.named,
                   !.at = IF /\ SameEdition
                             /\ plan.protocol = "contextual" => published.plan = plan
                          THEN "binding" ELSE "dead"]
  /\ UNCHANGED <<sources, plan, author, published, audit, builder, tasks, changed>>

AuditorBinds ==
  /\ auditor.at = "binding"
  /\ auditor' = [auditor EXCEPT !.at = "asking"]
  /\ audit' = [audit EXCEPT !.of = published, !.plan = plan]
  /\ UNCHANGED <<sources, plan, author, published, builder, tasks, changed>>

\* A batch without questions gets no answers; a boxed question must be valid.
AuditorAsks ==
  /\ auditor.at = "asking"
  /\ LET batch == Len(auditor.answers) + 1
         asks == /\ sources.image = auditor.edition
                 /\ batch <= Len(auditor.questions)
                 /\ plan.protocol = "boxed" => auditor.questions[batch].quality # "invalid"
     IN  auditor' = [auditor EXCEPT !.at = IF asks THEN "waiting" ELSE "dead"]
  /\ UNCHANGED <<sources, plan, author, published, audit, builder, tasks, changed>>

\* What the auditor is shown: the wording without its answer, and the image, of which
\* boxed_image_hashes keeps the hash.
Shown(question, edition) == [wording |-> question.wording, edition |-> edition]

AuditorRecords ==
  /\ auditor.at = "waiting"
  /\ \E answer \in Answers, doubt \in {"none", "unsure", "imageless"},
        evidence \in {"local", "context"} :
       LET question == auditor.questions[Len(auditor.answers) + 1]
           answers == Append(auditor.answers,
             [answer |-> answer, doubt |-> doubt, evidence |-> evidence,
              shown |-> Shown(question, auditor.edition)])
       IN  /\ plan.protocol # "contextual" => evidence = "local"
           /\ auditor' = [auditor EXCEPT !.answers = answers,
                            !.at = IF Len(answers) = Batches THEN "done" ELSE "asking"]
           /\ audit' = [audit EXCEPT !.answers = answers]
  /\ UNCHANGED <<sources, plan, author, published, builder, tasks, changed>>

-----------------------------------------------------------------------------
(* The builder *)

\* Mutant of AuditIsBound: any audit of as many questions.
AuditIsThere == audit.answers # <<>>

\* build_tasks raises unless the audit is of these questions, made from this manifest and,
\* in a contextual pilot, from this plan.
AuditIsBound ==
  /\ audit.answers # <<>>
  /\ audit.of = published
  /\ SameEdition
  /\ plan.protocol = "contextual" => published.plan = plan /\ audit.plan = plan

BuilderReads ==
  /\ builder.at = "idle" /\ published # Unpublished
  /\ builder' = IF AuditIsBound
                THEN [at |-> "building", edition |-> sources.named,
                      questions |-> published.questions, answers |-> audit.answers]
                ELSE [builder EXCEPT !.at = "dead"]
  /\ UNCHANGED <<sources, plan, author, published, auditor, audit, tasks, changed>>

\* What keeps a question out of the diagnostic pilot.
Eligible(question, reply) ==
  /\ question.quality = "sound"
  /\ reply.answer = question.answer
  /\ reply.doubt = "none"
  /\ reply.evidence \in plan.evidence

\* The image is compared with the manifest, and a boxed one with the one that was audited.
ImageIsAudited(reply) ==
  /\ sources.image = builder.edition
  /\ plan.protocol = "boxed" => reply.shown.edition = sources.image

\* One question: an invalid one is quarantined without a task, one without an answer raises.
MayBuild(question) ==
  IF builder.answers = <<>> THEN FALSE
  ELSE question.quality = "invalid" \/ ImageIsAudited(Head(builder.answers))

BuilderBuilds ==
  /\ builder.at = "building" /\ builder.questions # <<>>
  /\ LET question == Head(builder.questions)
         reply == Head(builder.answers)
         task == [question |-> question, reply |-> reply, image |-> sources.image,
                  eligible |-> Eligible(question, reply), protocol |-> plan.protocol]
     IN  IF MayBuild(question)
         THEN /\ builder' = [builder EXCEPT !.questions = Tail(@), !.answers = Tail(@)]
              /\ tasks' = IF question.quality = "invalid" THEN tasks ELSE tasks \union {task}
         ELSE builder' = [builder EXCEPT !.at = "dead"] /\ UNCHANGED tasks
  /\ UNCHANGED <<sources, plan, author, published, auditor, audit, changed>>

BuilderEnds ==
  /\ builder.at = "building" /\ builder.questions = <<>>
  /\ builder' = [builder EXCEPT !.at = "done"]
  /\ UNCHANGED <<sources, plan, author, published, auditor, audit, tasks, changed>>

-----------------------------------------------------------------------------
(* Deaths and changes *)

\* call_astra raises, or the process is killed.
AuthorDies ==
  /\ Running(author)
  /\ author' = [author EXCEPT !.at = "dead"]
  /\ UNCHANGED <<sources, plan, published, auditor, audit, builder, tasks, changed>>

AuditorDies ==
  /\ Running(auditor)
  /\ auditor' = [auditor EXCEPT !.at = "dead"]
  /\ UNCHANGED <<sources, plan, author, published, audit, builder, tasks, changed>>

BuilderDies ==
  /\ Running(builder)
  /\ builder' = [builder EXCEPT !.at = "dead"]
  /\ UNCHANGED <<sources, plan, author, published, auditor, audit, tasks, changed>>

\* Not in the moments between the reading of a file and its hash, not questions.json while
\* its author writes it and not the plan while tasks are built; nobody changes audit.json.
Change ==
  /\ changed < ChangeCap /\ changed' = changed + 1
  /\ auditor.at # "binding"
  /\ \/ /\ sources.named # 0
        /\ sources' \in {[sources EXCEPT !.image = 2], [named |-> 2, image |-> 2]}
        /\ UNCHANGED <<plan, published>>
     \/ /\ plan # NoPlan /\ builder.at # "building"
        /\ plan' = [plan EXCEPT !.evidence = {"local", "context"}]
        /\ UNCHANGED <<sources, published>>
     \/ /\ ~Running(author)
        /\ \E b \in DOMAIN published.questions :
             published' = [published EXCEPT !.questions[b].wording = 2]
        /\ UNCHANGED <<sources, plan>>
  /\ UNCHANGED <<author, auditor, audit, builder, tasks>>

QANext ==
  \/ Prepare
  \/ StartAuthor \/ AuthorAsks \/ AuthorPublishes \/ AuthorDies
  \/ AuditorReads \/ AuditorBinds \/ AuditorAsks \/ AuditorRecords \/ AuditorDies
  \/ BuilderReads \/ BuilderBuilds \/ BuilderEnds \/ BuilderDies
  \/ Change

QASpec == QAInit /\ [][QANext]_qaVars

-----------------------------------------------------------------------------
(* Properties *)

\* A question that is counted shows the wording and the image that the author drew it from
\* and the blind auditor answered it on, was answered as the author did, without doubt,
\* and needs the evidence that the author was asked to make it need.
QuestionsAreAudited ==
  \A task \in tasks : task.eligible =>
    /\ task.reply.shown = [wording |-> task.question.wording, edition |-> task.image]
    /\ task.question.edition = task.image
    /\ task.reply.answer = task.question.answer /\ task.reply.doubt = "none"
    /\ task.question.quality = "sound"
    /\ task.reply.evidence \in PlanOf(task.protocol).evidence
=============================================================================
