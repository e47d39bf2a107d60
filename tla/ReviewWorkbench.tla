--------------------------- MODULE ReviewWorkbench ---------------------------
(***************************************************************************)
(* Human review: the review bundle (geometry_review.py), the store with    *)
(* its hash-chained ledger and its threaded HTTP server (human_review.py,   *)
(* review_catalog.py), and the page in which reviewers work                *)
(* (apps/geometry-review/app.js).                                          *)
(* An edition is a bundle_sha256, a presentation a presentation_sha256; a  *)
(* record is named by its place in the ledger, which stands for its        *)
(* review_id and its record_sha256.                                        *)
(***************************************************************************)
EXTENDS Naturals, Sequences, FiniteSets

CONSTANTS
  Settings,      \* bound: the settings that are looked at, each with a catalog or not, its
                 \* reviewers, the attempts of the bundle's runs (the same in all
                 \* editions) and how often the bundle is built
  Presentations, \* bound: this many versions of the page
  ReviewCap      \* bound: how many reviews are submitted

VARIABLES
  setting,      \* the one of Settings
  bundle,       \* on disk: the edition of review-data.json and that of the assets, 0 while
                \* they are being replaced
  reviewServer, \* what it loaded when it was started
  ledger,       \* reviews.jsonl
  torn,         \* its last line is cut off
  writer,       \* the request that holds the ledger's lock, or none
  post,         \* of each reviewer: the request that is under way
  page,         \* of each reviewer: the page
  drafts,       \* of each reviewer: sessionStorage, by edition and attempt
  submitted     \* how many reviews were submitted

reviewVars ==
  <<setting, bundle, reviewServer, ledger, torn, writer, post, page, drafts, submitted>>

Reviewers == setting.reviewers
Attempts == setting.attempts
Editions == setting.editions
HasCatalog == setting.catalog

Nobody == "nobody"
NoDraft == [kept |-> FALSE, supersedes |-> 0]
Form(supersedes, dirty) == [supersedes |-> supersedes, dirty |-> dirty]
EmptyForm == Form(0, FALSE)
BlankPage ==
  [state |-> "blank", edition |-> 0, presentation |-> 0, attempt |-> "none", form |-> EmptyForm,
   records |-> 0, incoming |-> 0]
NoPost ==
  [stage |-> "none", edition |-> 0, presentation |-> 0, attempt |-> "none", supersedes |-> 0,
   bound |-> 0, previous |-> 0]

\* A bundle is built at least once, and the lock's holder is a reviewer or nobody.
ASSUME SettingsAssumption ==
  \A s \in Settings : s.editions \in Nat \ {0} /\ Nobody \notin s.reviewers

ReviewInit ==
  /\ setting \in Settings
  /\ bundle = [data |-> 1, assets |-> 1]
  /\ reviewServer = [up |-> FALSE, edition |-> 0, presentation |-> 0]
  /\ ledger = <<>> /\ torn = FALSE
  /\ writer = Nobody
  /\ post = [r \in Reviewers |-> NoPost]
  /\ page = [r \in Reviewers |-> BlankPage]
  /\ drafts = [r \in Reviewers |-> [e \in 1..Editions |-> [a \in Attempts |-> NoDraft]]]
  /\ submitted = 0

-----------------------------------------------------------------------------
(* The bundle and the server *)

\* The assets are replaced first.
BeginRebuild ==
  /\ bundle.data = bundle.assets /\ bundle.data < Editions
  /\ bundle' = [bundle EXCEPT !.assets = 0]
  /\ UNCHANGED <<setting, reviewServer, ledger, torn, writer, post, page, drafts, submitted>>

\* review-data.json comes last.
FinishRebuild ==
  /\ bundle.assets = 0
  /\ bundle' = [data |-> bundle.data + 1, assets |-> bundle.data + 1]
  /\ UNCHANGED <<setting, reviewServer, ledger, torn, writer, post, page, drafts, submitted>>

\* verify_bundle: the assets are those of the edition in memory.
BundleIntact(edition) == bundle.assets = edition

\* HumanReviewStore and ReviewCatalog: the bundle is read and verified once; the page
\* of the catalog is a snapshot of the app at that time.
StartServer ==
  /\ ~reviewServer.up /\ BundleIntact(bundle.data)
  /\ \E p \in 1..Presentations :
       /\ p >= reviewServer.presentation
       /\ reviewServer' = [up |-> TRUE, edition |-> bundle.data, presentation |-> p]
  /\ UNCHANGED <<setting, bundle, ledger, torn, writer, post, page, drafts, submitted>>

\* Requests that are under way get no answer; one that was writing may leave half a
\* line, or all of it.
StopServer ==
  /\ reviewServer.up
  /\ reviewServer' = [reviewServer EXCEPT !.up = FALSE]
  /\ writer' = Nobody
  /\ torn' \in {torn, torn \/ writer # Nobody}
  /\ post' = [r \in Reviewers |-> IF post[r].stage = "none" THEN NoPost
                                  ELSE [post[r] EXCEPT !.stage = "failed"]]
  /\ UNCHANGED <<setting, bundle, ledger, page, drafts, submitted>>

-----------------------------------------------------------------------------
(* do_POST and HumanReviewStore.append *)

\* With a catalog the page must be of the server's edition and presentation; the
\* assets are verified in any case.
MayPost(r) ==
  /\ HasCatalog => /\ post[r].edition = reviewServer.edition
                    /\ post[r].presentation = reviewServer.presentation
  /\ BundleIntact(reviewServer.edition)

\* The review is bound to the evidence of that name in the store's bundle.
AcceptPost(r) ==
  /\ reviewServer.up /\ post[r].stage = "sent"
  /\ post' = [post EXCEPT ![r] =
       IF MayPost(r) THEN [@ EXCEPT !.stage = "bound", !.bound = reviewServer.edition]
                     ELSE [@ EXCEPT !.stage = "failed"]]
  /\ UNCHANGED <<setting, bundle, reviewServer, ledger, torn, writer, page, drafts, submitted>>

\* Only a review of the same evidence can be superseded.
MaySupersede(r) ==
  post[r].supersedes # 0 =>
    /\ post[r].supersedes \in DOMAIN ledger
    /\ ledger[post[r].supersedes].edition = post[r].bound
    /\ ledger[post[r].supersedes].attempt = post[r].attempt

\* Mutant of ReadLedger: the ledger is read before the lock is taken.
ReadLedgerUnlocked(r) ==
  /\ post[r].stage = "bound"
  /\ IF ~torn /\ MaySupersede(r)
       THEN post' = [post EXCEPT ![r].stage = "writing", ![r].previous = Len(ledger)]
       ELSE post' = [post EXCEPT ![r].stage = "failed"]
  /\ UNCHANGED <<setting, bundle, reviewServer, ledger, torn, writer, page, drafts, submitted>>

\* Under the lock: the whole ledger is read; half a line is an error.
ReadLedger(r) ==
  /\ post[r].stage = "bound" /\ writer = Nobody
  /\ IF ~torn /\ MaySupersede(r)
       THEN /\ post' = [post EXCEPT ![r].stage = "writing", ![r].previous = Len(ledger)]
            /\ writer' = r
       ELSE post' = [post EXCEPT ![r].stage = "failed"] /\ UNCHANGED writer
  /\ UNCHANGED <<setting, bundle, reviewServer, ledger, torn, page, drafts, submitted>>

\* seen is history: the edition that the reviewer's page showed.
AppendReview(r) ==
  /\ post[r].stage = "writing"
  /\ ledger' = Append(ledger,
       [edition |-> post[r].bound, attempt |-> post[r].attempt,
        supersedes |-> post[r].supersedes, previous |-> post[r].previous,
        reviewer |-> r, seen |-> post[r].edition])
  /\ writer' = Nobody
  /\ post' = [post EXCEPT ![r].stage = "saved"]
  /\ UNCHANGED <<setting, bundle, reviewServer, torn, page, drafts, submitted>>

-----------------------------------------------------------------------------
(* The page *)

Ready(r) == page[r].state = "ready"
KeepDraft(r, supersedes) ==
  drafts' = [drafts EXCEPT ![r][page[r].edition][page[r].attempt] =
               [kept |-> TRUE, supersedes |-> supersedes]]

\* start and loadBundle: a page is loaded anew; its drafts outlive it.
OpenPage(r) ==
  /\ reviewServer.up
  /\ page' = [page EXCEPT ![r] = [BlankPage EXCEPT !.state = "loading",
                                    !.presentation = reviewServer.presentation]]
  /\ post' = [post EXCEPT ![r] = IF post[r].stage \in {"none", "saved", "failed"}
                                   THEN NoPost ELSE post[r]]
  /\ UNCHANGED <<setting, bundle, reviewServer, ledger, torn, writer, drafts, submitted>>

\* review-data.json is served from the disk.
FetchData(r) ==
  /\ reviewServer.up /\ page[r].state = "loading" /\ page[r].incoming = 0
  /\ page' = [page EXCEPT ![r].incoming = bundle.data]
  /\ UNCHANGED <<setting, bundle, reviewServer, ledger, torn, writer, post, drafts, submitted>>

FormOf(draft) == IF draft.kept THEN Form(draft.supersedes, TRUE) ELSE EmptyForm

\* The reviews come from the store in memory: both must be of one edition.
ShowBundle(r) ==
  /\ reviewServer.up /\ page[r].state = "loading" /\ page[r].incoming # 0
  /\ \E a \in Attempts :
       page' = [page EXCEPT ![r] =
         IF page[r].incoming = reviewServer.edition /\ ~torn
           THEN [@ EXCEPT !.state = "ready", !.edition = page[r].incoming, !.attempt = a,
                   !.records = Len(ledger), !.incoming = 0,
                   !.form = FormOf(drafts[r][page[r].incoming][a])]
           ELSE BlankPage]
  /\ UNCHANGED <<setting, bundle, reviewServer, ledger, torn, writer, post, drafts, submitted>>

\* Mutant of MaySelect: the list is not inert while a review is being saved.
MaySelectAny(r) == page[r].state \in {"ready", "saving"}

MaySelect(r) == page[r].state = "ready"

\* selectRun, selectAttempt: the draft was kept with each change; the form is reset,
\* and the draft of what is selected is restored.
SelectAttempt(r) ==
  /\ MaySelect(r)
  /\ \E a \in Attempts \ {page[r].attempt} :
       page' = [page EXCEPT ![r].attempt = a,
                            ![r].form = FormOf(drafts[r][page[r].edition][a])]
  /\ UNCHANGED <<setting, bundle, reviewServer, ledger, torn, writer, post, drafts, submitted>>

EditForm(r) ==
  /\ Ready(r) /\ ~page[r].form.dirty
  /\ page' = [page EXCEPT ![r].form.dirty = TRUE]
  /\ KeepDraft(r, page[r].form.supersedes)
  /\ UNCHANGED <<setting, bundle, reviewServer, ledger, torn, writer, post, submitted>>

\* activeReviews and targetReviews, of the records the page knows.
Superseded(known) == {ledger[n].supersedes : n \in 1..known}
ActiveFor(r) ==
  {n \in 1..page[r].records :
     /\ n \notin Superseded(page[r].records)
     /\ ledger[n].edition = page[r].edition /\ ledger[n].attempt = page[r].attempt}

\* populateRevision
Revise(r) ==
  /\ Ready(r)
  /\ \E n \in ActiveFor(r) :
       /\ page[r].form # Form(n, TRUE)
       /\ page' = [page EXCEPT ![r].form = Form(n, TRUE)]
       /\ KeepDraft(r, n)
  /\ UNCHANGED <<setting, bundle, reviewServer, ledger, torn, writer, post, submitted>>

\* submitReview, up to the request.
Submit(r) ==
  /\ Ready(r) /\ post[r].stage = "none" /\ submitted < ReviewCap
  /\ page' = [page EXCEPT ![r].state = "saving"]
  /\ post' = [post EXCEPT ![r] = [NoPost EXCEPT
       !.stage = "sent", !.edition = page[r].edition, !.presentation = page[r].presentation,
       !.attempt = page[r].attempt, !.supersedes = page[r].form.supersedes]]
  /\ submitted' = submitted + 1
  /\ UNCHANGED <<setting, bundle, reviewServer, ledger, torn, writer, drafts>>

\* The answer: the draft of what is selected goes, the form is reset, and the reviews
\* are fetched again.
SaveSucceeds(r) ==
  /\ page[r].state = "saving" /\ post[r].stage = "saved"
  /\ page' = [page EXCEPT ![r].state = "ready", ![r].form = EmptyForm,
                          ![r].records = Len(ledger)]
  /\ drafts' = [drafts EXCEPT ![r][page[r].edition][page[r].attempt] = NoDraft]
  /\ post' = [post EXCEPT ![r] = NoPost]
  /\ UNCHANGED <<setting, bundle, reviewServer, ledger, torn, writer, submitted>>

\* An error, or no answer at all: also when the review was saved.
SaveFails(r) ==
  /\ page[r].state = "saving" /\ post[r].stage \in {"saved", "failed"}
  /\ page' = [page EXCEPT ![r].state = "ready"]
  /\ post' = [post EXCEPT ![r] = NoPost]
  /\ UNCHANGED <<setting, bundle, reviewServer, ledger, torn, writer, drafts, submitted>>

ReviewNext ==
  \/ BeginRebuild \/ FinishRebuild \/ StartServer \/ StopServer
  \/ \E r \in Reviewers :
       \/ AcceptPost(r) \/ ReadLedger(r) \/ AppendReview(r)
       \/ OpenPage(r) \/ FetchData(r) \/ ShowBundle(r) \/ SelectAttempt(r) \/ EditForm(r)
       \/ Revise(r) \/ Submit(r) \/ SaveSucceeds(r) \/ SaveFails(r)

ReviewSpec == ReviewInit /\ [][ReviewNext]_reviewVars

-----------------------------------------------------------------------------
(* Properties *)

\* Every record names the hash of the one before it: requests that are served at the
\* same time do not fork the chain.
LedgerIsChained == \A n \in DOMAIN ledger : ledger[n].previous = n - 1

\* With a catalog a review is bound to the edition of the evidence that its reviewer
\* had on the page, whatever was rebuilt or restarted meanwhile.
CatalogBindsWhatWasSeen ==
  HasCatalog => \A n \in DOMAIN ledger : ledger[n].edition = ledger[n].seen

\* The ledger is evidence: its chain is whole and each record is about what its reviewer
\* looked at.
LedgerIsEvidence == LedgerIsChained /\ CatalogBindsWhatWasSeen

\* A draft goes only when a review of the same edition and attempt was saved.
DraftsAreKept ==
  [][\A r \in Reviewers, e \in 1..Editions, a \in Attempts :
       drafts[r][e][a].kept /\ ~drafts'[r][e][a].kept =>
         post[r].stage = "saved" /\ post[r].edition = e /\ post[r].attempt = a]_reviewVars

=============================================================================
