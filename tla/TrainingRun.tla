----------------------------- MODULE TrainingRun -----------------------------
(***************************************************************************)
(* One training run of training/trainer.py, _TrainingRun: the steps of its *)
(* epochs, the selection after each, the files it writes into the run's    *)
(* directory, and the processes that resume it after an error, an          *)
(* interrupt or a crash at any point.                                      *)
(*                                                                         *)
(* Training is deterministic, so weights are the set of steps that made    *)
(* them: the settings and dataset, the epoch, the step and the generator   *)
(* state its schedule was drawn from.  A selection value is a positive     *)
(* number, 0 stands for an undefined one and for -inf.  Which roots        *)
(* TigerGraph rejects is settled by the dataset.  events.jsonl, which      *)
(* nothing here reads back, and the host's settings are left out.          *)
(***************************************************************************)
EXTENDS Integers, Sequences, FiniteSets

CONSTANTS
    Epochs,       \* training.epochs
    Steps,        \* the steps of an epoch's schedule
    Batch,        \* the roots of a step
    SplitRoots,   \* the rows of validation, and of test; one of each is a positive
    Patience,     \* training.patience
    Values,       \* the selection values an epoch may have
    Rejections,   \* which roots may be rejected: those of every step and of each split
    Givens,       \* what a process may be started with: settings, dataset id, its manifest
    Limits,       \* what runtime.max_rejected_root_fraction may be, in percent
    LogEvery,     \* what runtime.log_every_steps may be, from segment to segment
    SaveEvery,    \* what runtime.checkpoint_every_steps may be; 0 saves once per epoch
    MaxCrashes,   \* a bound on how often a process dies
    Tears         \* what a crash may cut short in an append: "row", "header"

Lost(n) == [roots : 0..n, positives : 0..n]

ASSUME RunAssumption ==
    /\ Epochs \in Nat \ {0} /\ Steps \in Nat \ {0}
    /\ Batch \in Nat \ {0} /\ SplitRoots \in Nat \ {0, 1}
    /\ Rejections \subseteq [training : [(0..(Epochs - 1)) \X (0..(Steps - 1)) -> Lost(Batch)],
                              validation : Lost(SplitRoots), test : Lost(SplitRoots)]
    /\ Limits # {} /\ Limits \subseteq 0..100
    /\ Patience \in Nat
    /\ Values \subseteq Nat
    /\ LogEvery \subseteq Nat \ {0} /\ SaveEvery \subseteq Nat
    /\ MaxCrashes \in Nat
    /\ Tears \subseteq {"row", "header"}

VARIABLES
    curve,        \* the validation value of every epoch, undefined ones 0
    lost,         \* the rejected roots, of Rejections
    phase,        \* where the process is; "down" when there is none
    run,          \* its state: what a ResumeState holds
    epoch_rng,    \* epoch_rng_state: the generator at the start of the epoch
    interval,     \* the steps of the LogInterval
    settings,     \* the segment's runtime settings
    config,       \* config.json: what the run was started with
    resume,       \* resume.pt
    history,      \* history.csv
    epochs,       \* epochs.csv
    outputs,      \* model.pt, the predictions and metrics.json: what each is of
    crashes

memory == <<phase, run, epoch_rng, interval, settings>>
inputs == <<curve, lost>>
files == <<config, resume, history, epochs, outputs>>
vars == <<inputs, memory, files, crashes>>

Missing == -1

NoGiven == [settings |-> Missing, dataset |-> Missing, manifest |-> Missing]

\* _TrainingRun, its RunTotals and its TrainingRejections as they are built.
Fresh ==
    [given |-> NoGiven, epoch |-> 0, step |-> 0, stopped |-> FALSE, rng |-> 0, weights |-> {},
     updates |-> 0, loss_steps |-> 0, best_epoch |-> 0, best_value |-> 0, rows |-> <<>>,
     batches |-> 0, requested |-> 0, rejected |-> 0, epoch_rejected |-> 0]

NoResume == [Fresh EXCEPT !.epoch = Missing]

NoOutput == [epoch |-> Missing, given |-> NoGiven, totals |-> <<>>]

\* What a run with resume finds in its directory.
Saved == resume # NoResume

Outputs == {"model", "validation", "test", "metrics"}

Complete == outputs["metrics"] # NoOutput

Init ==
    /\ curve \in [1..Epochs -> Values]
    /\ lost \in Rejections
    /\ phase = "down"
    /\ run = Fresh
    /\ epoch_rng = 0
    /\ interval = 0
    /\ settings = [log |-> 1, save |-> 0, limit |-> 0]
    /\ config = NoGiven
    /\ resume = NoResume
    /\ history = [file |-> "none", rows |-> <<>>]
    /\ epochs = [rows |-> <<>>, selected |-> 0]
    /\ outputs = [o \in Outputs |-> NoOutput]
    /\ crashes = 0

-------------------------------------------------------------------------------
(* A process starts, or resumes. *)

\* (epoch, step) of a row of history.csv does not lie beyond that of a resume state.
Within(row, epoch, step) ==
    row.epoch - 1 < epoch \/ (row.epoch - 1 = epoch /\ row.step <= step)

Logs(row) == ~row.torn

\* The rows at some indexes, in their order: SelectSeq, as a function to reason about.
RowsAt(rows, indexes) ==
    LET kept[i \in 0..Len(rows)] ==
          IF i = 0 THEN <<>>
          ELSE IF i \in indexes THEN Append(kept[i - 1], rows[i]) ELSE kept[i - 1]
    IN kept[Len(rows)]

\* Mutant: only torn rows are dropped.
KeptTornOnly(epoch, step) ==
    LET stay == {i \in DOMAIN history.rows : Logs(history.rows[i])}
    IN [history EXCEPT !.rows = RowsAt(@, stay)]

\* keep_history: drop torn rows and those after the resume position.
Kept(epoch, step) ==
    LET stay == {i \in DOMAIN history.rows :
                   Logs(history.rows[i]) /\ Within(history.rows[i], epoch, step)}
    IN [history EXCEPT !.rows = RowsAt(@, stay)]

\* A history cut short in its header is refused: the run stops here, however often it is
\* run again.
Readable == history.file # "cut"

\* check_resumable and ResumeState.load: the settings of config.json, and of resume.pt.
SameSettings(given) ==
    /\ config # NoGiven => config.settings = given.settings
    /\ Saved => resume.given.settings = given.settings

\* check_run_dataset: resume.pt names the dataset and its manifest; without one config.json
\* names the dataset.
SameDataset(given) ==
    IF Saved THEN resume.given.dataset = given.dataset /\ resume.given.manifest = given.manifest
    ELSE config # NoGiven => config.dataset = given.dataset

\* train, restore: a process with other settings or on another dataset is refused before it
\* writes anything; one with the run's own continues from resume.pt if there is one.
Open ==
    /\ phase = "down"
    /\ ~Complete
    /\ \E given \in Givens :
         /\ SameSettings(given) /\ SameDataset(given)
         /\ run' = IF Saved THEN resume ELSE [Fresh EXCEPT !.given = given]
    /\ epoch_rng' = run'.rng
    /\ interval' = 0
    /\ \E log \in LogEvery, save \in SaveEvery, limit \in Limits :
         settings' = [log |-> log, save |-> save, limit |-> limit]
    /\ phase' = "opening"
    /\ UNCHANGED <<inputs, files, crashes>>

\* write_run_config, when there is no resume state or no config.json.
Configure ==
    /\ phase = "opening"
    /\ config' = IF Saved /\ config # NoGiven THEN config ELSE run.given
    /\ phase' = "trimming"
    /\ UNCHANGED <<inputs, run, epoch_rng, interval, settings, resume, history, epochs, outputs,
                   crashes>>

\* Mutant: a resumed process leaves epochs.csv as it is.
TrimUnrecorded ==
    /\ phase = "trimming"
    /\ Readable
    /\ history' = Kept(run.epoch, run.step)
    /\ phase' = "epoch"
    /\ UNCHANGED <<inputs, run, epoch_rng, interval, settings, config, resume, epochs, outputs,
                   crashes>>

\* execute: trim history.csv to the resume position, then write epochs.csv again if an epoch
\* is finished.
Trim ==
    /\ phase = "trimming"
    /\ Readable
    /\ history' = Kept(run.epoch, run.step)
    /\ phase' = IF run.rows # <<>> THEN "recording" ELSE "epoch"
    /\ UNCHANGED <<inputs, run, epoch_rng, interval, settings, config, resume, epochs, outputs,
                   crashes>>

-------------------------------------------------------------------------------
(* Training. *)

More == run.epoch < Epochs /\ ~run.stopped

\* Mutant: a resume state at the end of its epoch's schedule is refused too.
StartEpochWithin ==
    /\ phase = "epoch"
    /\ More
    /\ run.step < Steps
    /\ epoch_rng' = run.rng
    /\ run' = [run EXCEPT !.rng = @ + 1,
                          !.loss_steps = IF run.step = 0 THEN 0 ELSE @,
                          !.epoch_rejected = IF run.step = 0 THEN 0 ELSE @]
    /\ interval' = 0
    /\ phase' = "step"
    /\ UNCHANGED <<inputs, settings, files, crashes>>

\* run_epoch: keep the generator state, draw the schedule from it, and start the sums of
\* a new epoch and its count of rejected roots; one resumed in the middle continues its
\* own.
StartEpoch ==
    /\ phase = "epoch"
    /\ More
    /\ run.step <= Steps
    /\ epoch_rng' = run.rng
    /\ run' = [run EXCEPT !.rng = @ + 1,
                          !.loss_steps = IF run.step = 0 THEN 0 ELSE @,
                          !.epoch_rejected = IF run.step = 0 THEN 0 ELSE @]
    /\ interval' = 0
    /\ phase' = "step"
    /\ UNCHANGED <<inputs, settings, files, crashes>>

Saves(step) == settings.save > 0 /\ step % settings.save = 0

\* At these steps the interval ends and becomes a row of history.csv.
EndsInterval(step) == step = Steps \/ step % settings.log = 0 \/ Saves(step)

\* exceeds_rejection_limit: any observed positive, or more than the segment's limit.
Exceeds(rejected, positives, total) ==
    positives > 0 \/ 100 * rejected > settings.limit * total

StepLost == lost.training[<<run.epoch, run.step>>]

\* TrainingRejections.count fails: the epoch's rejected roots censor it.
StepCensors ==
    StepLost.roots > 0
      /\ Exceeds(run.epoch_rejected + StepLost.roots, StepLost.positives, Steps * Batch)

\* A step's batch is built and counted, and trains the weights with the roots it kept; a
\* batch without any trains nothing.
TrainStep ==
    /\ phase = "step"
    /\ run.step < Steps
    /\ ~StepCensors
    /\ LET trained == IF StepLost.roots < Batch THEN 1 ELSE 0
           made == [given |-> run.given, epoch |-> run.epoch, step |-> run.step,
                    rng |-> epoch_rng]
       IN /\ run' = [run EXCEPT
                !.step = @ + 1,
                !.weights = IF trained = 1 THEN @ \cup {made} ELSE @,
                !.updates = @ + trained,
                !.loss_steps = @ + trained,
                !.batches = @ + 1,
                !.requested = @ + Batch,
                !.rejected = @ + StepLost.roots,
                !.epoch_rejected = @ + StepLost.roots]
          /\ interval' = interval + trained
    /\ phase' = IF EndsInterval(run.step + 1) THEN "logging" ELSE "step"
    /\ UNCHANGED <<inputs, epoch_rng, settings, files, crashes>>

Row(torn) ==
    [epoch |-> run.epoch + 1, step |-> run.step, trained |-> interval,
     rejected |-> run.rejected, torn |-> torn]

\* append_history, before the resume state of the same step.
Log ==
    /\ phase = "logging"
    /\ history' = [file |-> "table", rows |-> Append(history.rows, Row(FALSE))]
    /\ interval' = 0
    /\ phase' = IF Saves(run.step) THEN "saving" ELSE "step"
    /\ UNCHANGED <<inputs, run, epoch_rng, settings, config, resume, epochs, outputs, crashes>>

\* Mutant: the generator is saved as it is now, after the epoch's draws.
SaveDrawn ==
    /\ phase \in {"saving", "checkpoint"}
    /\ resume' = run
    /\ phase' = IF phase = "saving" THEN "step" ELSE "recording"
    /\ UNCHANGED <<inputs, run, epoch_rng, interval, settings, config, history, epochs, outputs,
                   crashes>>

\* save_last: the state with the generator of the epoch's start, replaced atomically.
Save ==
    /\ phase \in {"saving", "checkpoint"}
    /\ resume' = [run EXCEPT !.rng = epoch_rng]
    /\ phase' = IF phase = "saving" THEN "step" ELSE "recording"
    /\ UNCHANGED <<inputs, run, epoch_rng, interval, settings, config, history, epochs, outputs,
                   crashes>>

\* stops_early: Patience epochs without a better one.
StopsEarly(epoch, best) == Patience > 0 /\ epoch - best >= Patience

\* check_split_rejections: the limit, and for validation both observed classes.
SplitCensors(split) ==
    \/ Exceeds(lost[split].roots, lost[split].positives, SplitRoots)
    \/ split = "validation" /\ lost[split].roots = SplitRoots - 1

\* epoch_record, with the decision to stop.
EpochRow(epoch, stops) ==
    [epoch |-> epoch, steps |-> run.loss_steps, value |-> curve[epoch], stopped |-> stops]

\* _select_epoch: validate, keep the epoch if it is better than the best before it, count
\* patience, add its row and move on to the next epoch.
SelectEpoch ==
    /\ phase = "step"
    /\ run.step = Steps
    /\ run.loss_steps > 0
    /\ ~SplitCensors("validation")
    /\ LET epoch == run.epoch + 1
           better == curve[epoch] > run.best_value
           best == IF better THEN epoch ELSE run.best_epoch
           stops == StopsEarly(epoch, best)
       IN run' = [run EXCEPT
            !.best_epoch = best,
            !.best_value = IF better THEN curve[epoch] ELSE @,
            !.stopped = stops,
            !.rows = Append(@, EpochRow(epoch, stops)),
            !.batches = @ + 1,
            !.epoch = epoch,
            !.step = 0]
    /\ epoch_rng' = run.rng
    /\ phase' = "checkpoint"
    /\ UNCHANGED <<inputs, interval, settings, files, crashes>>

\* record_epochs: replace epochs.csv, the selected epoch marked.
Record ==
    /\ phase = "recording"
    /\ epochs' = [rows |-> run.rows, selected |-> run.best_epoch]
    /\ phase' = "epoch"
    /\ UNCHANGED <<inputs, run, epoch_rng, interval, settings, config, resume, history, outputs,
                   crashes>>

-------------------------------------------------------------------------------
(* finish *)

\* No epoch had a value: the run refuses to save untrained weights.
Unselected == run.best_epoch = 0

\* The files of the end, in the order they are written.
NextOutput == [epoch |-> "model", model |-> "validation", validation |-> "test",
               test |-> "metrics"]

\* metrics.json holds the run's totals: the batches, those of test among them, and the
\* roots that were requested and rejected.
Totals(state) == <<state.batches + 1, state.requested, state.rejected>>

\* What a file of the end holds: the selected epoch of this run.
Written(output, state) ==
    [epoch |-> state.best_epoch, given |-> state.given,
     totals |-> IF output = "metrics" THEN Totals(state) ELSE <<>>]

\* SavedModel.save, the scores of test, write_predictions of validation and test, write_json
\* of the metrics: each of the selected epoch, and each replacing what an earlier process
\* wrote.
Write ==
    /\ phase \in DOMAIN NextOutput
    /\ phase = "epoch" => ~More /\ ~Unselected
    /\ phase = "model" => ~SplitCensors("test")
    /\ outputs' = [outputs EXCEPT ![NextOutput[phase]] = Written(NextOutput[phase], run)]
    /\ phase' = IF phase = "test" THEN "down" ELSE NextOutput[phase]
    /\ UNCHANGED <<inputs, run, epoch_rng, interval, settings, config, resume, history, epochs,
                   crashes>>

-------------------------------------------------------------------------------
(* The process ends before its run is complete. *)

Ends ==
    /\ phase' = "down"
    /\ run' = Fresh
    /\ epoch_rng' = 0
    /\ interval' = 0
    /\ UNCHANGED <<inputs, settings>>

\* Rejected roots censor an epoch or a split, or no epoch was selected: an error, and
\* nothing is written after it.
Refused ==
    /\ \/ phase = "step" /\ run.step < Steps /\ StepCensors
       \/ phase = "step" /\ run.step = Steps /\ run.loss_steps = 0
       \/ phase = "step" /\ run.step = Steps /\ SplitCensors("validation")
       \/ phase = "model" /\ SplitCensors("test")
       \/ phase = "epoch" /\ ~More /\ Unselected
    /\ Ends
    /\ UNCHANGED <<files, crashes>>

\* The error of a batch or a request, Ctrl-C, a full disk, a crash.
Dies ==
    /\ crashes < MaxCrashes
    /\ crashes' = crashes + 1
    /\ Ends

\* Files are replaced atomically, so between two writes nothing is lost but memory.
Crash ==
    /\ phase # "down"
    /\ Dies
    /\ UNCHANGED files

\* history.csv is appended to in place: its last row may be cut short, and before its
\* first row the header.
CrashAppending ==
    /\ phase = "logging"
    /\ Dies
    /\ \/ /\ "row" \in Tears
          /\ history' = [file |-> "table", rows |-> Append(history.rows, Row(TRUE))]
       \/ /\ "header" \in Tears
          /\ history.file = "none"
          /\ history' = [history EXCEPT !.file = "cut"]
    /\ UNCHANGED <<config, resume, epochs, outputs>>

-------------------------------------------------------------------------------
Proceed ==
    \/ Configure \/ Trim \/ StartEpoch \/ TrainStep \/ Log \/ Save \/ SelectEpoch \/ Record
    \/ Write \/ Refused

Next == Open \/ Proceed \/ Crash \/ CrashAppending

\* The largest limit that may be set.
Raised == CHOOSE limit \in Limits : \A other \in Limits : other <= limit

\* A run that ended is run again, sooner or later with the raised limit.
OpenRaised == Open /\ settings'.limit = Raised

\* The process is scheduled.
Fairness == WF_vars(Proceed) /\ WF_vars(Open) /\ SF_vars(OpenRaised)

Spec == Init /\ [][Next]_vars /\ Fairness
-------------------------------------------------------------------------------
(* What a run that nothing interrupts computes, from its inputs alone. *)

\* The first of the best epochs among the first n, 0 when none has a value.
Best(n) ==
    IF \A i \in 1..n : curve[i] = 0 THEN 0
    ELSE CHOOSE b \in 1..n :
           \A i \in 1..n : curve[i] < curve[b] \/ (curve[i] = curve[b] /\ b <= i)

Stops(n) == StopsEarly(n, Best(n))

\* The epoch after which training ends.
Last == CHOOSE n \in 1..Epochs :
          /\ Stops(n) \/ n = Epochs
          /\ \A i \in 1..(n - 1) : ~Stops(i)

\* The first m steps of epoch n, and the steps that lie before a position.
EpochSteps(n, m) == {n} \X (0..(m - 1))

Before(n, m) == ((0..(n - 1)) \X (0..(Steps - 1))) \cup EpochSteps(n, m)

\* Those in the epoch of the last step before a position.
Recent(n, m) == {p \in Before(n, m) : p[1] = IF m = 0 THEN n - 1 ELSE n}

\* The steps among some that keep a root to train on, and the roots that they lose: a lost
\* root is its step and its number there.
TrainedAmong(steps) == {p \in steps : lost.training[p].roots < Batch}

LostRoots(steps) == {r \in steps \X (1..Batch) : r[2] <= lost.training[r[1]].roots}

LostAmong(steps) == Cardinality(LostRoots(steps))

\* The row of epochs.csv that ends epoch i.
StraightRow(i) ==
    [epoch |-> i, steps |-> Cardinality(TrainedAmong(EpochSteps(i - 1, Steps))),
     value |-> curve[i], stopped |-> Stops(i)]

StraightRows(n) == [i \in 1..n |-> StraightRow(i)]

\* The weights that steps make, each with the draws of its epoch.
Weights(given, steps) ==
    {[given |-> given, epoch |-> p[1], step |-> p[2], rng |-> p[1]] : p \in steps}

\* The state an uninterrupted run of these settings saves after n epochs and m steps.
Straight(given, n, m) ==
    LET trained == TrainedAmong(Before(n, m))
    IN [given |-> given, epoch |-> n, step |-> m, stopped |-> Stops(n), rng |-> n,
        weights |-> Weights(given, trained),
        updates |-> Cardinality(trained),
        loss_steps |-> Cardinality(TrainedAmong(Recent(n, m))),
        best_epoch |-> Best(n),
        best_value |-> IF Best(n) = 0 THEN 0 ELSE curve[Best(n)],
        rows |-> StraightRows(n),
        batches |-> n * (Steps + 1) + m,
        requested |-> Batch * Cardinality(Before(n, m)),
        rejected |-> LostAmong(Before(n, m)),
        epoch_rejected |-> LostAmong(Recent(n, m))]

\* Under a limit no rejected root censors what the run trains on and scores.
Uncensored(limit) ==
    /\ \A i \in 0..(Last - 1) :
         LET steps == EpochSteps(i, Steps)
         IN /\ TrainedAmong(steps) # {}
            /\ \A p \in steps : lost.training[p].roots > 0 => lost.training[p].positives = 0
            /\ 100 * LostAmong(steps) <= limit * Steps * Batch
    /\ \A split \in {"validation", "test"} :
         lost[split].positives = 0 /\ 100 * lost[split].roots <= limit * SplitRoots
    /\ lost.validation.roots < SplitRoots - 1

-------------------------------------------------------------------------------
(* Properties. *)

\* "reproduces the uninterrupted run exactly": whatever segments a run was trained in, under
\* whatever limits, and wherever they ended, resume.pt holds what a run without interruption
\* has at its position, of one setting and one dataset: the same steps once each with the
\* same draws, sums, selection, patience and counts of rejected roots.
ResumesExactly == Saved => resume = Straight(resume.given, resume.epoch, resume.step)

\* A row begins an epoch, or where the row before it ended.
NewEpoch(rows, i) == i = 1 \/ rows[i - 1].epoch # rows[i].epoch

From(rows, i) == IF NewEpoch(rows, i) THEN 0 ELSE rows[i - 1].step

\* A row follows the one before it and is true of the steps between them.
FollowsOn(rows, i) ==
    /\ From(rows, i) < rows[i].step
    /\ NewEpoch(rows, i) =>
         IF i = 1 THEN rows[i].epoch = 1
         ELSE rows[i - 1].epoch = rows[i].epoch - 1 /\ rows[i - 1].step = Steps

CountsItsSteps(row, from) ==
    /\ row.trained = Cardinality(TrainedAmong({row.epoch - 1} \X (from..(row.step - 1))))
    /\ row.rejected = LostAmong(Before(row.epoch - 1, row.step))

Tiles(rows, i) ==
    ~rows[i].torn /\ FollowsOn(rows, i) /\ CountsItsSteps(rows[i], From(rows, i))

\* keep_history/append_history: while a process trains, each interval is in history.csv once
\* and the intervals tile the steps up to the last row, although every segment may log and
\* save at other steps; a row counts what the run had trained and lost up to there.
HistoryTiles ==
    phase \notin {"down", "opening", "trimming"} =>
        \A i \in DOMAIN history.rows : Tiles(history.rows, i)

\* metrics.json makes a run complete: every other file is there by then, of the settings and
\* dataset of config.json and of the epoch an uninterrupted run selects, and the tables and
\* totals hold all of its epochs, intervals, batches and rejected roots.
CompleteRun ==
    Complete =>
        LET end == Straight(config, Last, 0)
            final == history.rows[Len(history.rows)]
        IN /\ resume = end
           /\ outputs = [o \in Outputs |-> Written(o, end)]
           /\ epochs = [rows |-> StraightRows(Last), selected |-> Best(Last)]
           /\ final.epoch = Last /\ final.step = Steps /\ ~final.torn

\* "run it again; it resumes", "a higher rejection limit to resume a run that stopped on
\* rejected roots": a run that is run again after every interruption and error completes,
\* unless no epoch has a selection value or the largest limit censors it too.
RunCompletes == (Best(Last) # 0 /\ Uncensored(Raised)) => <>Complete
===============================================================================
