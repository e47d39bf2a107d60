----------------------------- MODULE AttemptBook -----------------------------
(***************************************************************************)
(* What the ledger promises about a run: its attempts are numbered without *)
(* gaps, every verdict that was accepted is kept, and its result is one of *)
(* those verdicts.  Each call takes effect at once or not at all.          *)
(***************************************************************************)
EXTENDS RunManifest

VARIABLE book

BookInit == book = EmptyBook

AddAttempt == book' = WithAttempt(book)

Finish ==
  \E a \in Attempts(book), verdict \in Verdicts : book' = WithVerdict(book, a, verdict)

Select == \E a \in Attempts(book) : Verified(book, a) /\ book' = WithSelection(book, a)

BookSpec == BookInit /\ [][AddAttempt \/ Finish \/ Select]_book
=============================================================================
