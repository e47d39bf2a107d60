------------------------------ MODULE TrialRun ------------------------------
(***************************************************************************)
(* A registered trial of the geometry benchmark: one conversation of a      *)
(* native agent that is scored once (direct_codex_trial, which may be       *)
(* prepared first, and direct_kimi_trial), or the EvoCAD loop over a list   *)
(* of drawings whose results go to the review catalog (evo_kimi_trial).     *)
(* Several processes may be started for one trial, at any time, and die     *)
(* anywhere.                                                                *)
(***************************************************************************)
EXTENDS Naturals, Sequences, FiniteSets

CONSTANTS
  Launchers,    \* processes that are started for the trial
  Drawings      \* how many drawings the EvoCAD trial goes through

ASSUME TrialAssumption == Drawings \in Nat \ {0}

TrialScripts == {"codex", "kimi", "evo"}

VARIABLES
  trialScript,
  inputs,       \* what lies there now: the image, or none, and the version of the rest
                \* (task.json and the script that makes the prompt)
  trialDir,     \* the campaign's directory exists
  config,       \* trial-config.json: its state, the version it the inputs it seals, what is done
  ledgerRun,    \* the directory of the run in the ledger exists
  verdicts,     \* the verdicts the run has there
  modelRuns,    \* what each conversation with the model was given
  trialResults, \* drawings with a result.json
  exported,     \* drawings with an export directory
  catalog,      \* the entries of the review catalog, in order
  launcher      \* the processes

setupVars == <<trialScript, inputs, trialDir>>
runVars == <<ledgerRun, verdicts, modelRuns, trialResults>>
catalogVars == <<exported, catalog>>
trialVars == <<setupVars, config, runVars, catalogVars, launcher>>

StagedInputs == [image |-> 1, rest |-> 1]
NoImage == 0
NoConfig == [state |-> "none", seals |-> StagedInputs, done |-> 0]
NoLauncher == [at |-> "off", config |-> NoConfig, catalog |-> <<>>]
LauncherIsLive(p) == launcher[p].at \notin {"off", "gone"}

TrialInit ==
  /\ trialScript \in TrialScripts
  /\ inputs = StagedInputs /\ trialDir = FALSE /\ config = NoConfig /\ ledgerRun = FALSE
  /\ verdicts = 0
  /\ modelRuns = <<>> /\ trialResults = 0 /\ exported = {} /\ catalog = <<>>
  /\ launcher = [p \in Launchers |-> NoLauncher]

\* The process goes on, with its own copy of the record.
Proceeds(p, to, record) ==
  launcher' = [launcher EXCEPT ![p].at = to, ![p].config = record]
Stops(p) == launcher' = [launcher EXCEPT ![p] = [NoLauncher EXCEPT !.at = "gone"]]

-----------------------------------------------------------------------------
(* Preparing and launching *)

\* The campaign's directory is made, which only one process can.
MakeTrialDir(p) ==
  /\ launcher[p].at = "off" /\ ~trialDir
  /\ trialDir' = TRUE
  /\ Proceeds(p, "staging", NoConfig)
  /\ UNCHANGED <<trialScript, inputs, config, runVars, catalogVars>>

\* The inputs are staged and sealed in the record.  The Codex script may leave it at that,
\* the EvoCAD script does; the Kimi script has no such stage.
Prepare(p) ==
  /\ launcher[p].at = "staging"
  /\ config' = [NoConfig EXCEPT !.seals = inputs,
                                !.state = IF trialScript = "kimi" THEN "running"
                                          ELSE "prepared"]
  /\ \/ trialScript # "kimi" /\ Stops(p)
     \/ trialScript = "codex" /\ Proceeds(p, "launching", config')
     \/ trialScript = "kimi" /\ Proceeds(p, "registering", config')
  /\ UNCHANGED <<setupVars, runVars, catalogVars>>

\* Between two processes an image is edited or removed, or the task or the script is edited.
InputsChange ==
  /\ \A p \in Launchers : ~LauncherIsLive(p)
  /\ \/ /\ inputs.image = 1
        /\ \E image \in {NoImage, 2} : inputs' = [inputs EXCEPT !.image = image]
     \/ /\ inputs.rest = 1
        /\ inputs' = [inputs EXCEPT !.rest = 2]
  /\ UNCHANGED <<trialScript, trialDir, config, runVars, catalogVars, launcher>>

\* Mutant of MayExecute: the hashes are not compared.
MayExecuteAny == config.state = "prepared"

\* Only a trial that was prepared may be launched, by the Codex script if the images that
\* are still there are those of the record, by the EvoCAD script if the script is.
MayExecute ==
  /\ config.state = "prepared"
  /\ IF trialScript = "codex" THEN inputs.image \in {NoImage, config.seals.image}
                             ELSE inputs.rest = config.seals.rest

\* The record is read and compared; the launcher goes on with its copy.
ExecutePrepared(p) ==
  /\ launcher[p].at = "off" /\ trialScript # "kimi"
  /\ MayExecute
  /\ Proceeds(p, "launching", config)
  /\ UNCHANGED <<setupVars, config, runVars, catalogVars>>

\* The record says "running", whatever it says by now.
WriteLaunch(p) ==
  /\ launcher[p].at = "launching"
  /\ config' = [launcher[p].config EXCEPT !.state = "running"]
  /\ Proceeds(p, IF trialScript = "evo" THEN "selecting" ELSE "registering", config')
  /\ UNCHANGED <<setupVars, runVars, catalogVars>>

-----------------------------------------------------------------------------
(* One conversation, scored once *)

\* Mutant of LedgerIsFree: the directory of an earlier start is used again.
LedgerIsReused == TRUE

\* The run's directory must not exist.
LedgerIsFree == ~ledgerRun

\* The run and its attempt are entered in the ledger, or the process stops there.
Register(p) ==
  /\ launcher[p].at = "registering"
  /\ ledgerRun' = TRUE
  /\ IF LedgerIsFree THEN Proceeds(p, "conversing", launcher[p].config) ELSE Stops(p)
  /\ UNCHANGED <<setupVars, config, verdicts, modelRuns, trialResults, catalogVars>>

\* The model works on the staged inputs until it ends or its time does.
Converse(p) ==
  /\ launcher[p].at = "conversing"
  /\ modelRuns' = Append(modelRuns, inputs)
  /\ Proceeds(p, IF trialScript = "codex" THEN "evaluating" ELSE "scoring",
              launcher[p].config)
  /\ UNCHANGED <<setupVars, config, ledgerRun, verdicts, trialResults, catalogVars>>

\* The Codex script notes that the model has finished.
WriteEvaluating(p) ==
  /\ launcher[p].at = "evaluating"
  /\ config' = [launcher[p].config EXCEPT !.state = "evaluating"]
  /\ Proceeds(p, "scoring", config')
  /\ UNCHANGED <<setupVars, runVars, catalogVars>>

\* The drawing is exported and scored, or is missing: either way the run is finished in
\* the ledger with a verdict.
FinishLedger(p) ==
  /\ launcher[p].at = "scoring"
  /\ verdicts' = verdicts + 1
  /\ Proceeds(p, "reporting", launcher[p].config)
  /\ UNCHANGED <<setupVars, config, ledgerRun, modelRuns, trialResults, catalogVars>>

\* result.json, results.json and the campaign's manifest.
WriteTrialResult(p) ==
  /\ launcher[p].at = "reporting"
  /\ trialResults' = 1
  /\ IF trialScript = "codex" THEN Proceeds(p, "completing", launcher[p].config) ELSE Stops(p)
  /\ UNCHANGED <<setupVars, config, ledgerRun, verdicts, modelRuns, catalogVars>>

\* The Codex script's last word; the record of the Kimi script stays at "running".
WriteCompleted(p) ==
  /\ launcher[p].at = "completing"
  /\ config' = [launcher[p].config EXCEPT !.state = "completed"]
  /\ Stops(p)
  /\ UNCHANGED <<setupVars, runVars, catalogVars>>

-----------------------------------------------------------------------------
(* The EvoCAD loop over the drawings *)

NextDrawing(p) == launcher[p].config.done + 1

\* The campaign runs the first job that has no row yet: with two launchers this need not
\* be the drawing its caller means, whose result.json is then missing.
RunDrawing(p) ==
  /\ launcher[p].at = "selecting" /\ NextDrawing(p) <= Drawings
  /\ \/ trialResults < Drawings /\ trialResults' = trialResults + 1
     \/ UNCHANGED trialResults
  /\ Proceeds(p, IF NextDrawing(p) <= trialResults' THEN "recording" ELSE "failing",
              launcher[p].config)
  /\ UNCHANGED <<setupVars, config, ledgerRun, verdicts, modelRuns, catalogVars>>

\* The result is noted in the record.
RecordDrawing(p) ==
  /\ launcher[p].at = "recording"
  /\ config' = [launcher[p].config EXCEPT !.done = NextDrawing(p)]
  /\ Proceeds(p, "exporting", config')
  /\ UNCHANGED <<setupVars, runVars, catalogVars>>

\* Its export directory must be new; the catalog is read.
Export(p) ==
  /\ launcher[p].at = "exporting"
  /\ LET drawing == launcher[p].config.done
     IN  IF drawing \in exported
         THEN Proceeds(p, "failing", launcher[p].config) /\ UNCHANGED exported
         ELSE /\ exported' = exported \union {drawing}
              /\ launcher' = [launcher EXCEPT ![p].at = "publishing", ![p].catalog = catalog]
  /\ UNCHANGED <<setupVars, config, runVars, catalog>>

\* The entry is put in front, unless the catalog as it was read has it; the record is
\* written again, with the next drawing it turns to.
Publish(p) ==
  /\ launcher[p].at = "publishing"
  /\ LET drawing == launcher[p].config.done
         read == launcher[p].catalog
     IN  IF \E k \in DOMAIN read : read[k] = drawing
         THEN Proceeds(p, "failing", launcher[p].config) /\ UNCHANGED <<catalog, config>>
         ELSE /\ catalog' = <<drawing>> \o read
              /\ config' = launcher[p].config
              /\ launcher' = [launcher EXCEPT ![p].at = "selecting", ![p].catalog = <<>>]
  /\ UNCHANGED <<setupVars, runVars, exported>>

\* After the last drawing the record says so; after an exception it says that.
WriteEndOfLoop(p) ==
  /\ \/ launcher[p].at = "failing"
     \/ launcher[p].at = "selecting" /\ NextDrawing(p) > Drawings
  /\ config' = [launcher[p].config EXCEPT
       !.state = IF launcher[p].at = "failing" THEN "execution_error" ELSE "completed"]
  /\ Stops(p)
  /\ UNCHANGED <<setupVars, runVars, catalogVars>>

\* Whatever raises in the loop is recorded.
LoopRaises(p) ==
  /\ launcher[p].at \in {"selecting", "recording", "exporting", "publishing"}
  /\ Proceeds(p, "failing", launcher[p].config)
  /\ UNCHANGED <<setupVars, config, runVars, catalogVars>>

\* A process dies, or raises where the native scripts catch nothing.
LauncherDies(p) ==
  /\ LauncherIsLive(p)
  /\ Stops(p)
  /\ UNCHANGED <<setupVars, config, runVars, catalogVars>>

TrialNext ==
  \/ \E p \in Launchers :
       \/ MakeTrialDir(p) \/ Prepare(p) \/ ExecutePrepared(p) \/ WriteLaunch(p) \/ Register(p)
       \/ Converse(p)
       \/ WriteEvaluating(p) \/ FinishLedger(p) \/ WriteTrialResult(p) \/ WriteCompleted(p)
       \/ RunDrawing(p) \/ RecordDrawing(p) \/ Export(p) \/ Publish(p) \/ WriteEndOfLoop(p)
       \/ LoopRaises(p) \/ LauncherDies(p)
  \/ InputsChange

TrialSpec == TrialInit /\ [][TrialNext]_trialVars

-----------------------------------------------------------------------------
(* Properties *)

\* A native trial is one conversation and one verdict, however many processes find it
\* prepared at the same time and whoever dies: no best of several tries.
ModelIsAskedOnce ==
  trialScript # "evo" => Len(modelRuns) <= 1 /\ verdicts <= Len(modelRuns)

\* No model was given an image other than the one the record seals; with the Codex script
\* it may have been given none, or another task or prompt.
ModelSawSealed ==
  \A k \in DOMAIN modelRuns :
    /\ modelRuns[k].image \in {NoImage, config.seals.image}
    /\ trialScript = "kimi" => modelRuns[k] = config.seals

\* A trial that says it is completed has all its results, and each of its drawings is in the
\* catalog, once, although several launchers read and replace it.
CompletedIsThere ==
  /\ config.state = "completed" =>
       IF trialScript = "evo"
       THEN trialResults = Drawings /\ {catalog[k] : k \in DOMAIN catalog} = 1..Drawings
       ELSE trialResults = 1 /\ verdicts = 1
  /\ \A k, l \in DOMAIN catalog : catalog[k] = catalog[l] => k = l

\* What a trial reports was measured once, on no image that it was not registered with, as
\* long as nobody edits an image while a process is at work (InputsChange): the scripts look
\* at the images once, before they launch.
TrialIsHonest == ModelIsAskedOnce /\ ModelSawSealed /\ CompletedIsThere
=============================================================================
