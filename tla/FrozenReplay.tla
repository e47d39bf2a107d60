---------------------------- MODULE FrozenReplay ----------------------------
(***************************************************************************)
(* Work that is done again on a campaign that is over, without touching    *)
(* it: the verifier is replayed on its candidates (evaluation/replay.py),  *)
(* or its features are derived anew                                        *)
(* (evaluation/geometry_feature_backfill.py).  Both may be killed at any   *)
(* step, in the middle of a file too, and are then started again on the    *)
(* same directory; one process works at a time.  Candidates and sources    *)
(* may be changed by hand at any step, for good: nobody puts the old ones  *)
(* back.  Of the program only the sources that a manifest names are        *)
(* modelled; what it does not name (the replay's campaign.py, the          *)
(* backfill's geometry_campaign.py, its topology exporter and a plugin     *)
(* given by hand) may differ from start to start, and no row tells.  A     *)
(* file's hash is its content here.                                        *)
(***************************************************************************)
EXTENDS Naturals, Sequences, SequencesExt, FiniteSets

CONSTANTS
  JobCount,      \* jobs of the campaign
  ReplayStarts,  \* bound: starts of the process
  MishapCap      \* bound: changes of a candidate, or of the sources

ASSUME ReplayAssumption ==
  JobCount \in Nat \ {0} /\ ReplayStarts \in Nat /\ MishapCap \in Nat

VARIABLES
  flavour,     \* "replay" or "backfill"
  candidate,   \* of each job: edition of its candidate; the ledger has the first
  implementation,  \* edition of the sources that the manifest names
  pinned,      \* the edition it gives, 0 before it is there
  sameSecond,  \* the second in which that manifest was made has not passed
  rows,        \* replay: results.json, the rows in it
  history,     \* replay: retry-history.jsonl
  records,     \* backfill: of each job, record.json
  cut,         \* files that were cut short
  process,     \* where the process is, its implementation, rows, job and result
  starts,      \* history: starts so far
  mishaps      \* history: changes so far

frozenVars ==
  <<flavour, candidate, implementation, pinned, sameSecond, rows, history, records, cut, process,
    starts, mishaps>>
workVars == <<flavour, candidate, implementation, pinned, sameSecond, starts, mishaps>>

JobNumbers == 1..JobCount
ResultsFile == 0  \* in cut; a number is the record of that job
Incomplete == 0
\* Lines of the history that are no rows: one that was cut short, and one to which the next
\* row was appended, which cannot be read either.
TornLine == [job |-> 0, by |-> 0, judged |-> 0]
GluedLine == [job |-> 0, by |-> 0, judged |-> 1]
NoRecord == [status |-> "absent", of |-> 0, judged |-> 0, by |-> 0]
NoProcess == [at |-> "off", implementation |-> 0, rows |-> <<>>, job |-> 0, of |-> 0, judged |-> 0]

ReplayInit ==
  /\ flavour \in {"replay", "backfill"}
  /\ candidate = [j \in JobNumbers |-> 1]
  /\ implementation = 1 /\ pinned = 0 /\ sameSecond = FALSE
  /\ rows = <<>> /\ history = <<>>
  /\ records = [j \in JobNumbers |-> NoRecord]
  /\ cut = {}
  /\ process = NoProcess
  /\ starts = 0 /\ mishaps = 0

-----------------------------------------------------------------------------
(* The start *)

\* ledger_candidate_snapshot raises unless the candidate is the ledger's.
IsLedgers(j) == candidate[j] = 1

\* Mutant of ManifestIsSame: the manifest of an earlier start is taken as it is.
ManifestIsThere == TRUE

\* The manifest names some of the sources and, of the replay, the candidates.  The replay's
\* names the second it was made in; the backfill's takes over the created_at of the one that
\* is there.
ReplayManifestIsSame == pinned = implementation /\ sameSecond
BackfillManifestIsSame == pinned = implementation

\* write_immutable_manifest raises where the one that is there is not this start's.
ManifestIsSame ==
  \/ pinned = 0
  \/ IF flavour = "replay" THEN ReplayManifestIsSame ELSE BackfillManifestIsSame

\* A start that raises changes nothing.  The backfill's manifest names no candidates.
StartReplay ==
  /\ process.at = "off" /\ starts < ReplayStarts
  /\ starts' = starts + 1
  /\ IF ManifestIsSame /\ (flavour = "replay" => \A j \in JobNumbers : IsLedgers(j))
     THEN /\ pinned' = IF pinned = 0 THEN implementation ELSE pinned
          /\ sameSecond' = (pinned = 0 \/ sameSecond)
          /\ process' = [NoProcess EXCEPT !.implementation = implementation,
                           !.at = IF flavour = "replay" THEN "loading" ELSE "taking"]
     ELSE UNCHANGED <<pinned, sameSecond, process>>
  /\ UNCHANGED <<flavour, candidate, implementation, rows, history, records, cut, mishaps>>

-----------------------------------------------------------------------------
(* Replay *)

Retryable(row) == row.judged = Incomplete

\* What a sequence has at some of its places, in its order.
Rank(p, places) == Cardinality({q \in places : q <= p})
InOrder(seq, places) ==
  [n \in 1..Cardinality(places) |-> seq[CHOOSE p \in places : Rank(p, places) = n]]

CompletedRows == InOrder(rows, {i \in DOMAIN rows : ~Retryable(rows[i])})
RetryableRows == InOrder(rows, {i \in DOMAIN rows : Retryable(rows[i])})

\* Mutant of LoadRows: what is tried again leaves no trace.
LoadRowsOnly ==
  /\ process.at = "loading" /\ ResultsFile \notin cut
  /\ process' = [process EXCEPT !.rows = CompletedRows, !.at = "writing"]
  /\ UNCHANGED <<workVars, rows, history, records, cut>>

\* The history after these lines were appended to the file.
HistoryWith(lines) ==
  IF lines # <<>> /\ history # <<>> /\ Last(history) = TornLine
  THEN [history EXCEPT ![Len(history)] = IF Head(lines) = TornLine THEN TornLine ELSE GluedLine]
         \o Tail(lines)
  ELSE history \o lines

\* retain_completed_results: rows without a result go to the history, then the file is
\* written without them.
LoadRows ==
  /\ process.at = "loading"
  /\ IF ResultsFile \in cut
     THEN process' = NoProcess /\ UNCHANGED history
     ELSE /\ history' = HistoryWith(RetryableRows)
          /\ process' = [process EXCEPT !.rows = CompletedRows,
                           !.at = IF RetryableRows = <<>> THEN "working"
                                  ELSE "writing"]
  /\ UNCHANGED <<workVars, rows, records, cut>>

WriteRows ==
  /\ process.at = "writing"
  /\ rows' = process.rows
  /\ process' = [process EXCEPT !.at = "working"]
  /\ UNCHANGED <<workVars, history, records, cut>>

HasRow(j) == \E i \in DOMAIN process.rows : process.rows[i].job = j

\* The next job that has no row; its candidate is looked up again.
TakeJob ==
  /\ process.at = "working"
  /\ \E j \in JobNumbers :
       /\ ~HasRow(j) /\ \A i \in 1..(j - 1) : HasRow(i)
       /\ process' = IF IsLedgers(j)
                       THEN [process EXCEPT !.at = "judging", !.job = j, !.of = candidate[j]]
                       ELSE NoProcess
  /\ UNCHANGED <<workVars, rows, history, records, cut>>

\* Extraction, the deterministic and the visual verdict; any of them may raise.
JudgeJob ==
  /\ process.at = "judging"
  /\ process' \in {[process EXCEPT !.at = "checking", !.judged = result] :
                     result \in {Incomplete, candidate[process.job]}}
  /\ UNCHANGED <<workVars, rows, history, records, cut>>

\* Mutant of Unchanged: the candidate is not looked at again.
NotLookedAt == TRUE

\* The candidate is compared with the ledger's once more, whatever came of it.
Unchanged == candidate[process.job] = process.of

AddRow ==
  /\ process.at = "checking"
  /\ LET row == [job |-> process.job, by |-> process.implementation,
                 judged |-> IF Unchanged THEN process.judged ELSE Incomplete]
     IN  process' = [process EXCEPT !.at = "writing", !.rows = Append(@, row)]
  /\ UNCHANGED <<workVars, rows, history, records, cut>>

Summarize ==
  /\ process.at = "working" /\ \A j \in JobNumbers : HasRow(j)
  /\ process' = NoProcess
  /\ UNCHANGED <<workVars, rows, history, records, cut>>

-----------------------------------------------------------------------------
(* Backfill *)

\* _validate_cached_record: what the record names has not changed.
RecordIsCurrent(j) == records[j].of = candidate[j]

\* A record that is completed is kept or raises; every other job is worked on again.
TakeRecord ==
  /\ process.at = "taking" /\ process.job < JobCount
  /\ LET j == process.job + 1
         kept == records[j].status = "completed"
         raises == j \in cut \/ (kept /\ ~RecordIsCurrent(j))
     IN  process' = CASE raises -> NoProcess
                      [] ~raises /\ kept -> [process EXCEPT !.job = j]
                      [] OTHER -> [process EXCEPT !.job = j, !.at = "scoring",
                                     !.of = candidate[j]]
  /\ UNCHANGED <<workVars, rows, history, records, cut>>

Score ==
  /\ process.at = "scoring"
  /\ process' \in {[process EXCEPT !.at = "recording", !.judged = result] :
                     result \in {Incomplete, candidate[process.job]}}
  /\ UNCHANGED <<workVars, rows, history, records, cut>>

WriteRecord ==
  /\ process.at = "recording"
  /\ records' = [records EXCEPT ![process.job] =
       [status |-> IF process.judged = Incomplete THEN "failed" ELSE "completed",
        of |-> process.of, judged |-> process.judged, by |-> process.implementation]]
  /\ process' = [process EXCEPT !.at = "taking"]
  /\ UNCHANGED <<workVars, rows, history, cut>>

Backfilled ==
  /\ process.at = "taking" /\ process.job = JobCount
  /\ process' = NoProcess
  /\ UNCHANGED <<workVars, rows, history, records, cut>>

-----------------------------------------------------------------------------
(* Deaths and changes *)

\* What may be in the history when the process dies: some of the rows, the last of them
\* perhaps cut short.
HistoryCut ==
  {HistoryWith(SubSeq(RetryableRows, 1, k) \o tail) :
     k \in 0..(Len(RetryableRows) - 1), tail \in {<<>>, <<TornLine>>}}

\* The files are written in place.
Dies ==
  /\ process.at # "off"
  /\ process' = NoProcess
  /\ cut' \in {cut, CASE process.at = "writing" -> cut \union {ResultsFile}
                      [] process.at = "recording" -> cut \union {process.job}
                      [] OTHER -> cut}
  /\ history' \in {history} \union
       (IF process.at = "loading" /\ ResultsFile \notin cut THEN HistoryCut ELSE {})
  /\ UNCHANGED <<workVars, rows, records>>

\* The candidate that is being judged is no exception.
Mishap ==
  /\ mishaps < MishapCap /\ mishaps' = mishaps + 1
  /\ \/ /\ \E j \in JobNumbers : candidate' = [candidate EXCEPT ![j] = 2]
        /\ UNCHANGED implementation
     \/ implementation' = 2 /\ UNCHANGED candidate
  /\ UNCHANGED <<flavour, pinned, sameSecond, rows, history, records, cut, process, starts>>

SecondPasses ==
  /\ sameSecond /\ sameSecond' = FALSE
  /\ UNCHANGED <<flavour, candidate, implementation, pinned, rows, history, records, cut, process,
                 starts, mishaps>>

ReplayNext ==
  \/ StartReplay \/ LoadRows \/ WriteRows \/ TakeJob \/ JudgeJob \/ AddRow \/ Summarize
  \/ TakeRecord \/ Score \/ WriteRecord \/ Backfilled
  \/ Dies \/ Mishap \/ SecondPasses

ReplaySpec == ReplayInit /\ [][ReplayNext]_frozenVars

-----------------------------------------------------------------------------
(* Properties *)

\* Every result of one directory is of one edition of the sources that its manifest names,
\* there is one for a job, and a replayed one is of the candidate that the ledger names.  A
\* backfilled one is of the candidate that its record names, or that candidate is gone by
\* now, and the next start raises at the record.
ReplayIsFrozen ==
  /\ \A i \in DOMAIN rows :
       /\ rows[i].judged \in {Incomplete, 1} /\ rows[i].by = pinned
       /\ \A k \in DOMAIN rows : rows[k].job = rows[i].job => k = i
  /\ \A j \in JobNumbers : records[j].status = "completed" =>
       (records[j].judged = records[j].of \/ ~RecordIsCurrent(j)) /\ records[j].by = pinned

\* What was completed is never done again, and what was not is in the history before its
\* row goes, unless a death left a line cut short that the row was glued to.
ReplayRecordsLast ==
  [][ /\ \A i \in DOMAIN rows : rows[i] \notin Range(rows') =>
           Retryable(rows[i]) /\ (rows[i] \in Range(history) \/ GluedLine \in Range(history))
      /\ \A i \in DOMAIN history :
           i \in DOMAIN history' /\ history'[i] \in {history[i]} \union
             (IF history[i] = TornLine THEN {GluedLine} ELSE {})
      /\ \A j \in JobNumbers : records[j].status = "completed" => records'[j] = records[j] ]_frozenVars
=============================================================================
