--------------------------- MODULE ExperimentSuite ---------------------------
(***************************************************************************)
(* A suite of runs, experiments/runner.py: it plans every run from the     *)
(* files of its directory, archives those of other settings or of another  *)
(* dataset, trains and audits the rest and writes the comparison.  A run   *)
(* may fail on its own, an outage stops the suite, its process may die     *)
(* between any two writes, and somebody runs it again, perhaps after the   *)
(* settings changed.                                                       *)
(*                                                                         *)
(* A file is the experiment it is of: the settings of its variant and the  *)
(* dataset.  How a run trains is TrainingRun's; here it has started, has   *)
(* its config.json, is complete.  The audit sample of a dataset is drawn   *)
(* by its split seed from its scope, so that it is the dataset's.          *)
(***************************************************************************)
EXTENDS Integers, Sequences

CONSTANTS
    Variants,     \* the suite's variants in their order, the baseline first
    Seeds,        \* its seeds in their order
    Settings,     \* how many results-relevant settings each variant may have
    Datasets,     \* how many datasets the base run may name
    MaxChanges,   \* a bound on how often somebody changes them
    MaxFaults     \* a bound on errors, outages and crashes

All == {Variants[i] : i \in DOMAIN Variants}

\* Every variant and every seed is named once.
ASSUME SuiteAssumption ==
    /\ Variants \in Seq(All) /\ Variants # <<>>
    /\ \A i, j \in DOMAIN Variants : Variants[i] = Variants[j] => i = j
    /\ Seeds \in Seq({Seeds[i] : i \in DOMAIN Seeds})
    /\ \A i, j \in DOMAIN Seeds : Seeds[i] = Seeds[j] => i = j
    /\ Settings \in Nat \ {0} /\ Datasets \in Nat \ {0}
    /\ MaxChanges \in Nat /\ MaxFaults \in Nat

VARIABLES
    wanted,       \* the settings of each variant
    dataset,      \* the dataset of the base run
    files,        \* what every run's directory holds
    archived,     \* the directories moved to results/archive, by run
    chosen,       \* the variants of the suite that runs
    phase,        \* what the suite's process does; "idle" when there is none
    at,           \* how far it is in Every
    plan,         \* PlannedRun.action
    errors,       \* the runs with an error of their own
    stopped,      \* an outage stopped the suite
    table,        \* the runs' statuses, once summary.csv and comparison.csv are written
    changes, faults

process == <<chosen, phase, at, plan, errors, stopped, table>>
disk == <<files, archived>>
environment == <<wanted, dataset, changes>>
vars == <<environment, disk, process, faults>>

\* _run: the seeds in turn, and the variants in theirs.
Every == [i \in 1..(Len(Seeds) * Len(Variants)) |->
            <<Variants[((i - 1) % Len(Variants)) + 1], Seeds[((i - 1) \div Len(Variants)) + 1]>>]

Runs == {Every[i] : i \in DOMAIN Every}

\* The runs of the suite, which are those of the chosen variants.
InSuite == {r \in Runs : r[1] \in chosen}

\* The first position of one of these runs from a position on, the end of Every when there is
\* none.
FirstOf(runs, i) ==
    CHOOSE j \in i..(Len(Every) + 1) :
        /\ j \in DOMAIN Every => Every[j] \in runs
        /\ \A k \in i..(j - 1) : Every[k] \notin runs

\* The run of the suite whose turn it is.
Turn(i) == FirstOf(InSuite, i)

Here == Every[Turn(at)]

Nothing == <<0, 0>>

\* AUDIT_SPLITS, in their order.
Splits == <<"validation", "test">>

NoSplit == [s \in {"validation", "test"} |-> Nothing]

Empty == [started |-> FALSE, config |-> Nothing, metrics |-> Nothing,
          scores |-> NoSplit, report |-> NoSplit]

\* The experiment the suite asks of a run.
Wanted(r) == <<wanted[r[1]], dataset>>

Init ==
    /\ wanted = [v \in All |-> 1]
    /\ dataset = 1
    /\ files = [r \in Runs |-> Empty]
    /\ archived = [r \in Runs |-> <<>>]
    /\ chosen = {}
    /\ phase = "idle"
    /\ at = 1
    /\ plan = [r \in Runs |-> "none"]
    /\ errors = {}
    /\ stopped = FALSE
    /\ table = [r \in Runs |-> "none"]
    /\ changes = 0
    /\ faults = 0

-------------------------------------------------------------------------------
(* Planning. *)

Complete(f) == f.metrics # Nothing

\* tables.audited: a run is audited once it has the report of both splits.
Audited(f) == Complete(f) /\ \A s \in DOMAIN f.report : f.report[s] # Nothing

\* Mutant: the dataset a run trained on is not compared.
PlanBySettings(r) ==
    LET f == files[r]
    IN CASE ~f.started -> "train"
         [] f.started /\ f.config # Nothing /\ f.config[1] # wanted[r[1]] -> "archive"
         [] OTHER -> IF Complete(f) THEN "keep" ELSE "resume"

\* Mutant: a run that has its config.json is taken for a complete one.
PlanStarted(r) ==
    LET f == files[r]
    IN CASE ~f.started -> "train"
         [] f.started /\ f.config \notin {Nothing, Wanted(r)} -> "archive"
         [] OTHER -> IF f.config # Nothing THEN "keep" ELSE "resume"

\* plan_run: train a run that has written nothing, archive one of other settings or of
\* another dataset, keep a complete one and resume an interrupted one.
Plan(r) ==
    LET f == files[r]
    IN CASE ~f.started -> "train"
         [] f.started /\ f.config \notin {Nothing, Wanted(r)} -> "archive"
         [] OTHER -> IF Complete(f) THEN "keep" ELSE "resume"

\* select: the baseline and the variants somebody names.
Suites == {suite \in SUBSET All : Variants[1] \in suite}

\* run_suite: find or prepare the dataset and plan every run.  A suite whose variants do not
\* build, or have the same settings, is refused before this (check_variants).
Start(suite) ==
    /\ phase = "idle"
    /\ chosen' = suite
    /\ plan' = [r \in Runs |-> IF r[1] \in suite THEN Plan(r) ELSE "none"]
    /\ phase' = "train"
    /\ UNCHANGED <<environment, disk, at, errors, stopped, table, faults>>

-------------------------------------------------------------------------------
(* Training. *)

\* Go on with the next run.
GoOn == at' = Turn(at) + 1

Writes(f) == files' = [files EXCEPT ![Here] = f]

\* The loops end at their last run.
Rest == Turn(at) \in DOMAIN Every

SkipKept ==
    /\ phase = "train" /\ Rest
    /\ plan[Here] = "keep"
    /\ GoOn
    /\ UNCHANGED <<environment, disk, chosen, phase, plan, errors, stopped, table, faults>>

\* Mutant: the run replaces what its place in the archive holds.
ArchiveReplaces ==
    /\ phase = "train" /\ Rest
    /\ plan[Here] = "archive"
    /\ archived' = [archived EXCEPT ![Here] = <<files[Here]>>]
    /\ Writes(Empty)
    /\ phase' = "launch"
    /\ UNCHANGED <<environment, chosen, at, plan, errors, stopped, table, faults>>

\* Mutant: the audit directory stays behind.
ArchiveModel ==
    /\ phase = "train" /\ Rest
    /\ plan[Here] = "archive"
    /\ archived' = [archived EXCEPT ![Here] = Append(@, files[Here])]
    /\ Writes([Empty EXCEPT !.scores = files[Here].scores, !.report = files[Here].report])
    /\ phase' = "launch"
    /\ UNCHANGED <<environment, chosen, at, plan, errors, stopped, table, faults>>

\* archive: move the run's directory, with its audits, to a directory of its own: one of the
\* moment, numbered when the moment has one already.
Archive ==
    /\ phase = "train" /\ Rest
    /\ plan[Here] = "archive"
    /\ archived' = [archived EXCEPT ![Here] = Append(@, files[Here])]
    /\ Writes(Empty)
    /\ phase' = "launch"
    /\ UNCHANGED <<environment, chosen, at, plan, errors, stopped, table, faults>>

\* attempt(run, "train"), train_run: the checks before a run is written into.
Launch ==
    /\ phase = "train" /\ Rest
    /\ plan[Here] \in {"train", "resume"}
    /\ phase' = "launch"
    /\ UNCHANGED <<environment, disk, chosen, at, plan, errors, stopped, table, faults>>

\* _TrainingRun.execute: events.jsonl is opened first ...
Open ==
    /\ phase = "launch"
    /\ files[Here].config \in {Nothing, Wanted(Here)}
    /\ Writes([files[Here] EXCEPT !.started = TRUE])
    /\ phase' = "open"
    /\ UNCHANGED <<environment, archived, chosen, at, plan, errors, stopped, table, faults>>

\* ... then config.json is written, ...
Configure ==
    /\ phase = "open"
    /\ Writes([files[Here] EXCEPT !.config = Wanted(Here)])
    /\ phase' = "fit"
    /\ UNCHANGED <<environment, archived, chosen, at, plan, errors, stopped, table, faults>>

\* ... and metrics.json after every other file of the run.
Finish ==
    /\ phase = "fit"
    /\ Writes([files[Here] EXCEPT !.metrics = Wanted(Here)])
    /\ phase' = "trained"
    /\ UNCHANGED <<environment, archived, chosen, at, plan, errors, stopped, table, faults>>

\* write_training_report, which may still fail.
Trained ==
    /\ phase = "trained"
    /\ phase' = "train"
    /\ GoOn
    /\ UNCHANGED <<environment, disk, chosen, plan, errors, stopped, table, faults>>

TrainedAll ==
    /\ phase = "train" /\ ~Rest
    /\ phase' = "audit"
    /\ at' = 1
    /\ UNCHANGED <<environment, disk, chosen, plan, errors, stopped, table, faults>>

-------------------------------------------------------------------------------
(* Auditing. *)

Pending(f) == {i \in 1..2 : f.report[Splits[i]] = Nothing}

\* evaluate_run audits the splits without a report, validation first.
NextSplit(f) == Splits[CHOOSE i \in Pending(f) : \A j \in Pending(f) : i <= j]

\* A run is audited when it is trained and not audited yet, whoever trained it.
ToAudit(f) == Complete(f) /\ ~Audited(f)

SkipAudit ==
    /\ phase = "audit" /\ Rest
    /\ ~ToAudit(files[Here])
    /\ GoOn
    /\ UNCHANGED <<environment, disk, chosen, phase, plan, errors, stopped, table, faults>>

\* write_audit: the scored sample of the model on its dataset's sample ...
Score ==
    /\ phase = "audit" /\ Rest
    /\ LET f == files[Here]
       IN /\ ToAudit(f)
          /\ Writes([f EXCEPT !.scores[NextSplit(f)] = f.metrics])
    /\ phase' = "scored"
    /\ UNCHANGED <<environment, archived, chosen, at, plan, errors, stopped, table, faults>>

\* ... then the report, which makes the split audited; the figures come after both.
Report ==
    /\ phase = "scored"
    /\ LET f == files[Here]
           g == [f EXCEPT !.report[NextSplit(f)] = f.metrics]
       IN /\ Writes(g)
          /\ phase' = IF Audited(g) THEN "audited" ELSE "audit"
    /\ UNCHANGED <<environment, archived, chosen, at, plan, errors, stopped, table, faults>>

AuditDone ==
    /\ phase = "audited"
    /\ phase' = "audit"
    /\ GoOn
    /\ UNCHANGED <<environment, disk, chosen, plan, errors, stopped, table, faults>>

AuditedAll ==
    /\ phase = "audit" /\ ~Rest
    /\ phase' = "tables"
    /\ at' = 1
    /\ UNCHANGED <<environment, disk, chosen, plan, errors, stopped, table, faults>>

-------------------------------------------------------------------------------
(* Failing. *)

\* attempt: an error of the run's own is kept, and the suite goes on with the next run.
OwnError ==
    /\ faults < MaxFaults
    /\ phase \in {"launch", "open", "fit", "trained", "audit", "scored", "audited"}
    /\ Rest
    /\ phase = "audit" => ToAudit(files[Here])
    /\ errors' = errors \cup {Here}
    /\ phase' = IF phase \in {"launch", "open", "fit", "trained"} THEN "train" ELSE "audit"
    /\ GoOn
    /\ faults' = faults + 1
    /\ UNCHANGED <<environment, disk, chosen, plan, stopped, table>>

\* is_outage: TigerGraph stays unavailable while contexts are opened or read.
Outage ==
    /\ faults < MaxFaults
    /\ phase \in {"launch", "fit", "audit"}
    /\ Rest
    /\ phase = "audit" => ToAudit(files[Here])
    /\ stopped' = TRUE
    /\ phase' = "tables"
    /\ at' = 1
    /\ faults' = faults + 1
    /\ UNCHANGED <<environment, disk, chosen, plan, errors, table>>

\* The suite's process is gone, and what it had in memory.
Gone ==
    /\ chosen' = {}
    /\ phase' = "idle"
    /\ at' = 1
    /\ plan' = [r \in Runs |-> "none"]
    /\ errors' = {}
    /\ stopped' = FALSE
    /\ table' = [r \in Runs |-> "none"]

Crash ==
    /\ faults < MaxFaults
    /\ phase # "idle"
    /\ Gone
    /\ faults' = faults + 1
    /\ UNCHANGED <<environment, disk>>

-------------------------------------------------------------------------------
(* The comparison. *)

\* PlannedRun.outcome.
Outcome(r) ==
    CASE Audited(files[r]) -> "complete"
      [] ~Audited(files[r]) /\ r \in errors -> "failed"
      [] OTHER -> IF stopped THEN "stopped" ELSE "failed"

Compared == {r \in InSuite : Outcome(r) = "complete"}

\* paired_split: the audits of the runs compared scored one sample.
OneSample ==
    \A r, q \in Compared : \A s \in {"validation", "test"} :
        files[r].scores[s][2] = files[q].scores[s][2]

WriteTables ==
    /\ phase = "tables"
    /\ OneSample
    /\ table' = [r \in Runs |-> IF r \in InSuite THEN Outcome(r) ELSE "none"]
    /\ phase' = "written"
    /\ UNCHANGED <<environment, disk, chosen, at, plan, errors, stopped, faults>>

\* Audits of two samples are refused, and the suite ends without tables.
RefuseTables ==
    /\ phase = "tables"
    /\ ~OneSample
    /\ Gone
    /\ UNCHANGED <<environment, disk, faults>>

End ==
    /\ phase = "written"
    /\ Gone
    /\ UNCHANGED <<environment, disk, faults>>

-------------------------------------------------------------------------------
(* Between two suites somebody changes a variant, or the dataset settings of the base. *)

Change ==
    /\ phase = "idle"
    /\ changes < MaxChanges
    /\ changes' = changes + 1
    /\ \/ \E v \in All : \E s \in (1..Settings) \ {wanted[v]} :
            /\ wanted' = [wanted EXCEPT ![v] = s]
            /\ UNCHANGED dataset
       \/ /\ dataset' \in (1..Datasets) \ {dataset}
          /\ UNCHANGED wanted
    /\ UNCHANGED <<disk, process, faults>>

Train == SkipKept \/ Archive \/ Launch \/ Open \/ Configure \/ Finish \/ Trained \/ TrainedAll

Audit == SkipAudit \/ Score \/ Report \/ AuditDone \/ AuditedAll

Tables == WriteTables \/ RefuseTables \/ End

Starts == \E suite \in Suites : Start(suite)

Works == Train \/ Audit \/ Tables

Next == Starts \/ Works \/ OwnError \/ Outage \/ Crash \/ Change

\* A suite that runs goes on, and somebody runs the suite of every variant again and again.
Spec == Init /\ [][Next]_vars /\ WF_vars(Works) /\ SF_vars(Start(All))

-------------------------------------------------------------------------------
(* Properties. *)

Ids == ((1..Settings) \X (1..Datasets)) \cup {Nothing}

RunFiles ==
    [started : BOOLEAN, config : Ids, metrics : Ids,
     scores : [{"validation", "test"} -> Ids], report : [{"validation", "test"} -> Ids]]

Phases == {"idle", "train", "launch", "open", "fit", "trained", "audit", "scored", "audited",
           "tables", "written"}

TypeOK ==
    /\ wanted \in [All -> 1..Settings]
    /\ dataset \in 1..Datasets
    /\ files \in [Runs -> RunFiles]
    /\ archived \in [Runs -> Seq(RunFiles)]
    /\ phase \in Phases
    /\ at \in 1..(Len(Every) + 1)
    /\ chosen \in Suites \cup {{}}
    /\ plan \in [Runs -> {"none", "keep", "train", "resume", "archive"}]
    /\ errors \subseteq Runs
    /\ stopped \in BOOLEAN
    /\ table \in [Runs -> {"none", "complete", "failed", "stopped"}]
    /\ changes \in 0..MaxChanges
    /\ faults \in 0..MaxFaults

OfPlan(r) ==
    /\ files[r].metrics = Wanted(r)
    /\ \A s \in {"validation", "test"} : files[r].report[s] = Wanted(r)

\* plan_run and outcome: in the tables of a suite that no outage stopped, a complete run was
\* trained with the settings its variant has now on the dataset the suite prepared, and
\* audited as that model.  An outage ends the suite before the runs after it are archived, and
\* its tables compare the audits they have of the former settings or dataset.
TablesOfPlan ==
    phase = "written" /\ ~stopped => \A r \in Runs : table[r] = "complete" => OfPlan(r)

\* What a step leaves of a result: it stays, or the archive has it.
KeepsResults ==
    \A r \in Runs :
        /\ Len(archived[r]) <= Len(archived'[r])
        /\ \A i \in DOMAIN archived[r] : archived'[r][i] = archived[r][i]
        /\ LET f == files[r]  g == files'[r]
               Stays == /\ g.metrics = f.metrics
                        /\ \A s \in {"validation", "test"} :
                             f.report[s] # Nothing => g.report[s] = f.report[s]
           IN Complete(f) => Stays \/ \E i \in DOMAIN archived'[r] : archived'[r][i] = f

\* archive: nothing a suite does loses a result.  A run's metrics and audits stay in its
\* directory or are kept with each other in the archive, and nothing leaves the archive.
ResultsKept == [][KeepsResults]_vars

\* write_audit, archive: a split's report is of the model beside it, and so are the scores the
\* comparison reads with it, however an audit was interrupted.
AuditsOfModel ==
    \A r \in Runs : \A s \in {"validation", "test"} :
        LET f == files[r]
        IN f.report[s] # Nothing => f.report[s] = f.metrics /\ f.scores[s] = f.metrics

\* The suite run again and again finishes, whatever failed and changed before: every run is
\* trained and audited as its variant has it now.
SuiteConverges == <>[](\A r \in Runs : Audited(files[r]) /\ OfPlan(r))
===============================================================================
