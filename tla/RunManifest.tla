----------------------------- MODULE RunManifest -----------------------------
(***************************************************************************)
(* What run.json says of the attempts of a run, and how the ledger's calls *)
(* change it (src/src/cad_evoloop/ledger/ledger.py).  An attempt is its    *)
(* number: attempt_id is the letter a and that number.                     *)
(***************************************************************************)
EXTENDS Naturals, Sequences

CONSTANTS
  Verdicts,    \* what a verifier can say of an attempt
  Unverified   \* no verdict

ASSUME VerdictAssumption == Unverified \notin Verdicts

Books == [attempts : Seq(Verdicts \union {Unverified}),
          result : Verdicts \union {Unverified},
          selected : Nat]

EmptyBook == [attempts |-> <<>>, result |-> Unverified, selected |-> 0]

Attempts(book) == 1..Len(book.attempts)

Verified(book, a) == a \in Attempts(book) /\ book.attempts[a] # Unverified

\* add_attempt: the next number is the number of attempts so far and one.
WithAttempt(book) == [book EXCEPT !.attempts = Append(@, Unverified)]

\* finish: the latest verdict is the result, whatever was selected before.
WithVerdict(book, a, verdict) ==
  [attempts |-> [book.attempts EXCEPT ![a] = verdict],
   result |-> verdict,
   selected |-> book.selected]

\* select_attempt
WithSelection(book, a) ==
  [book EXCEPT !.result = book.attempts[a], !.selected = a]
=============================================================================
