--------------------------- MODULE DiagnosticStudy ---------------------------
(***************************************************************************)
(* `mule diagnose` (diagnostics/study.py, pipeline/diagnose.py): the       *)
(* analyses of a prepared dataset, all of them in order or one by name,    *)
(* beside the other commands on the dataset's run.  Each analysis replaces *)
(* one table of results/diagnostics/<dataset id>/; study.json, written     *)
(* last, says what each one last did, also where the call did not run it.  *)
(*                                                                         *)
(* A call may fail, be interrupted or be killed at every step; between two *)
(* calls the code may change the text of the analytics query, and the      *)
(* graph may leave the source that the dataset was prepared from at any    *)
(* time, also between a call's one look at it and any of its reads.  The   *)
(* statistics that the analyses compute are left out: a table says what it *)
(* was computed from.                                                      *)
(***************************************************************************)
EXTENDS Scoring

CONSTANTS
    Runs,    \* what the run compared with may be: "complete", or see UnusableRun and Skips
    Named   \* bound: what `mule diagnose` is called with: names of analyses, or "all"

ANALYSES == <<"features", "univariate", "drift", "baselines", "learning-curve", "subgroups",
              "activity-timing", "proxy-validity", "reveal-spread", "nnpu-simulation">>
Analyses == Range(ANALYSES)

FEATURE_SPLITS == <<"train", "validation", "test">>

ASSUME StudyAssumption ==
    /\ Runs \subseteq {"none", "other", "stopped", "complete"}
    /\ Named \subseteq Analyses \cup {"all"}

OfFrame == {"univariate", "drift", "baselines", "learning-curve"}
OfAudits == {"subgroups", "activity-timing", "proxy-validity"}
OfTruth == {"proxy-validity"}
OfInputs == {"activity-timing", "reveal-spread"}

VARIABLES
    run,       \* the run compared with
    contract,  \* the text of the analytics query in the code
    moved,     \* {}, or the number of the last command begun before the graph first changed
    names,     \* the analyses of the call still to run; the first is at work
    point,     \* where the first one is: "analysing", "built", "written"; or "recording"
    memory,    \* what the call has read: [verified, frame, truth, inputs] and, of the features
               \* it is building, the [splits] read so far and the [sources] they were read from
    outcomes,  \* what each analysis did in this call, or None
    recorded,  \* the same in study.json, of whichever call ran it last
    tables,    \* the table of each analysis in place, {} or its one content
    loose      \* tables left by a call that ended before it noted them in study.json

callVars == <<names, point, memory, outcomes>>
studyVars == <<run, contract, moved, callVars, recorded, tables, loose>>
vars == <<scoringVars, studyVars>>

None == [status |-> "none"]
NoOutcomes == [a \in Analyses |-> None]
NothingRead ==
    [verified |-> FALSE, frame |-> {}, truth |-> {}, inputs |-> {}, splits |-> 0, sources |-> {}]

Init ==
    /\ ScoringInit
    /\ run \in Runs
    /\ contract = 0
    /\ moved = {}
    /\ names = <<>> /\ point = "analysing"
    /\ memory = NothingRead
    /\ outcomes = NoOutcomes
    /\ recorded = NoOutcomes
    /\ tables = [a \in Analyses |-> Missing]
    /\ loose = {}

Name == Head(names)
Working == step = "studying" /\ point = "analysing" /\ names # <<>>

-----------------------------------------------------------------------------
\* What a call reads.

\* The source now: the frozen one, or what it became.
Source == IF moved = {} THEN "frozen" ELSE "changed"

\* unusable_run: there is no run, or it was trained on another dataset.
UnusableRun == run \in {"none", "other"}

\* audits and audit_samples: the splits whose report is in place.
Audits == IF UnusableRun THEN {} ELSE {s \in DOMAIN Splits : Audited(s)}

\* The analysis' inputs are missing.
Skips ==
    /\ Name \in OfAudits
    /\ Audits = {} \/ (Name = "proxy-validity" /\ run = "stopped")

\* current: the table was read with this code's query texts.
Current == \E t \in tables["features"] : t.contract = contract

\* training_rows, analytics_rows and split_features: an account has features if neither query
\* rejected it.
Rejected(training, analytics) == training \cup analytics

\* build_feature_table: from the truth, and each split's population and both its contexts.
FeatureTable(training, analytics) ==
    [by |-> commands, contract |-> contract, read |-> memory.truth \cup memory.sources,
     rejected |-> Rejected(training, analytics)]

\* The table of another analysis, as far as where it is computed from goes: the feature table,
\* with what that one was read from, the audits, and what the call itself read.
Table ==
    [by |-> commands, contract |-> contract,
     frame |-> IF Name \in OfFrame THEN memory.frame ELSE {},
     audits |-> IF Name \in OfAudits \cup {"baselines", "learning-curve"}
                THEN {[split |-> s, files |-> audits[s]] : s \in Audits} ELSE {},
     read |-> (IF Name \in OfTruth THEN memory.truth ELSE {})
              \cup (IF Name \in OfInputs THEN memory.inputs ELSE {})]

Replace(a, content) == tables' = [tables EXCEPT ![a] = {content}]

-----------------------------------------------------------------------------
\* A call.

\* analyses(name): all of them, or the one named.
StartStudy ==
    /\ Begin("study")
    /\ \E call \in Named : names' = IF call = "all" THEN ANALYSES ELSE <<call>>
    /\ step' = "studying"
    /\ point' = "analysing"
    /\ memory' = NothingRead
    /\ outcomes' = NoOutcomes
    /\ UNCHANGED <<streamVars, split, streamed, fileVars>>
    /\ UNCHANGED <<run, contract, moved, recorded, tables, loose>>

NeedsFrame == Working /\ Name \in OfFrame \cup {"features"} /\ memory.frame = {}

\* features: a current table is kept ...
KeepFeatures ==
    /\ NeedsFrame
    /\ Current
    /\ memory' = [memory EXCEPT !.frame = tables["features"]]
    /\ outcomes' = [outcomes EXCEPT !["features"] = [status |-> "kept"]]
    /\ UNCHANGED <<scoringVars, run, contract, moved, names, point, recorded, tables, loose>>

\* ... else it is built.
BuildsFeatures == NeedsFrame /\ ~Current

WantsTruth == BuildsFeatures \/ (Working /\ Name \in OfTruth /\ ~Skips)
WantsInputs == Working /\ Name \in OfInputs /\ ~Skips

Remember(read) ==
    /\ memory' = read
    /\ UNCHANGED <<scoringVars, run, contract, moved, names, point, outcomes, recorded, tables,
                   loose>>

\* TigerGraphStudyReader.executor: before the first read of a call the source is checked to be
\* the frozen one still; none of the reads after it looks again.
CheckSource ==
    /\ WantsTruth \/ WantsInputs
    /\ ~memory.verified
    /\ Source = "frozen"
    /\ Remember([memory EXCEPT !.verified = TRUE])

\* oracle().read(): once per call.
ReadTruth ==
    /\ WantsTruth
    /\ memory.verified /\ memory.truth = {}
    /\ Remember([memory EXCEPT !.truth = {Source}])

\* reveal_inputs: once per call.
ReadInputs ==
    /\ WantsInputs
    /\ memory.verified /\ memory.inputs = {}
    /\ Remember([memory EXCEPT !.inputs = {Source}])

\* split_sample, training_rows and analytics_rows of the next split.
ReadSplit ==
    /\ BuildsFeatures
    /\ memory.truth # {}
    /\ memory.splits < Len(FEATURE_SPLITS)
    /\ Remember([memory EXCEPT !.splits = @ + 1, !.sources = @ \cup {Source}])

\* The table of the splits read replaces the former one.
BuildFeatures ==
    /\ BuildsFeatures
    /\ memory.splits = Len(FEATURE_SPLITS)
    /\ \E training, analytics \in SUBSET Rejectable :
         Replace("features", FeatureTable(training, analytics))
    /\ memory' = [memory EXCEPT !.splits = 0, !.sources = {}]
    /\ point' = "built"
    /\ UNCHANGED <<scoringVars, run, contract, moved, names, outcomes, recorded, loose>>

\* Mutant: only the analysis that was named records an outcome.
BuiltUnnoted ==
    /\ step = "studying" /\ point = "built"
    /\ memory' = [memory EXCEPT !.frame = tables["features"]]
    /\ point' = "analysing"
    /\ outcomes' = IF Name # "features" THEN outcomes
                   ELSE [outcomes EXCEPT !["features"] = [status |-> "written", by |-> commands]]
    /\ UNCHANGED <<scoringVars, run, contract, moved, names, recorded, tables, loose>>

\* The outcome of the features is noted whichever analysis asked for them.
Built ==
    /\ step = "studying" /\ point = "built"
    /\ memory' = [memory EXCEPT !.frame = tables["features"]]
    /\ point' = "analysing"
    /\ outcomes' = [outcomes EXCEPT !["features"] = [status |-> "written", by |-> commands]]
    /\ UNCHANGED <<scoringVars, run, contract, moved, names, recorded, tables, loose>>

Computable ==
    /\ Working
    /\ Name # "features" /\ ~Skips
    /\ Name \in OfFrame => memory.frame # {}
    /\ Name \in OfTruth => memory.truth # {}
    /\ Name \in OfInputs => memory.inputs # {}

\* analyse: the table is computed and replaced.
WriteTable ==
    /\ Computable
    /\ Replace(Name, Table)
    /\ point' = "written"
    /\ UNCHANGED <<scoringVars, run, contract, moved, names, memory, outcomes, recorded, loose>>

Following == IF Tail(names) = <<>> THEN "recording" ELSE "analysing"

\* Its outcome is noted, and the next analysis begins.
Done(outcome) ==
    /\ outcomes' = [outcomes EXCEPT ![Name] = outcome]
    /\ names' = Tail(names)
    /\ point' = Following
    /\ UNCHANGED <<scoringVars, run, contract, moved, memory, recorded, tables, loose>>

Analysed ==
    /\ step = "studying"
    /\ \/ /\ point = "written"
          /\ Done([status |-> "written", by |-> commands])
       \/ /\ Working /\ Name = "features" /\ memory.frame # {}
          /\ Done(outcomes["features"])
       \/ /\ Working /\ Skips
          /\ Done([status |-> "skipped"])

\* The end of a call, in a process of its own.
EndCall ==
    /\ names' = <<>>
    /\ point' = "analysing"
    /\ memory' = NothingRead
    /\ outcomes' = NoOutcomes

\* An analysis fails, the source is not the frozen one, a read outlasts its retries, or
\* Ctrl-C, also between a table and its outcome: study.json is written all the same.
Fails ==
    /\ step = "studying" /\ point # "recording"
    /\ loose' = loose \cup (IF point = "built" THEN {"features"} ELSE {})
                      \cup (IF point = "written" THEN {Name} ELSE {})
    /\ point' = "recording"
    /\ UNCHANGED <<scoringVars, run, contract, moved, names, memory, outcomes, recorded, tables>>

Noted == {a \in Analyses : outcomes[a] # None}

\* record: the outcomes of this call, and what the analyses it did not run did before.
RecordOf == [a \in Analyses |-> IF a \in Noted THEN outcomes[a] ELSE recorded[a]]

Record ==
    /\ step = "studying" /\ point = "recording"
    /\ recorded' = RecordOf
    /\ loose' = loose \ Noted
    /\ EndCall
    /\ step' = "idle"
    /\ UNCHANGED <<streamVars, todo, commands, split, streamed, fileVars>>
    /\ UNCHANGED <<run, contract, moved, tables>>

\* Killed: the tables replaced so far stay, without a record.
KillStudy ==
    /\ step = "studying"
    /\ EndCall
    /\ step' = "idle"
    /\ UNCHANGED <<streamVars, todo, commands, split, streamed, fileVars>>
    /\ loose' = loose \cup {a \in Analyses : \E t \in tables[a] : t.by = commands}
    /\ UNCHANGED <<run, contract, moved, recorded, tables>>

-----------------------------------------------------------------------------
\* Around the calls.

Planned(command) == todo # <<>> /\ Head(todo) = command /\ todo' = Tail(todo)

\* A commit changes the text of the analytics query, or the columns of the table.
Upgrade ==
    /\ step = "idle"
    /\ Planned("upgrade")
    /\ contract' = contract + 1
    /\ UNCHANGED <<streamVars, commands, step, split, streamed, fileVars>>
    /\ UNCHANGED <<run, moved, callVars, recorded, tables, loose>>

\* The graph ingests, also while a call runs.
Ingest ==
    /\ Planned("ingest")
    /\ moved' = IF moved = {} THEN {commands} ELSE moved
    /\ UNCHANGED <<streamVars, commands, step, split, streamed, fileVars>>
    /\ UNCHANGED <<run, contract, callVars, recorded, tables, loose>>

\* The commands that score, evaluation only of a complete run.
Scored ==
    /\ ScoringNext
    /\ step # "studying"
    /\ step' # step /\ step = "idle" => run \in {"other", "complete"}
    /\ UNCHANGED studyVars

Study ==
    \/ KeepFeatures \/ CheckSource \/ ReadTruth \/ ReadInputs \/ ReadSplit
    \/ BuildFeatures \/ Built
    \/ WriteTable \/ Analysed \/ Record

Next ==
    \/ Scored
    \/ StartStudy \/ Study \/ Fails \/ KillStudy
    \/ Upgrade \/ Ingest

\* The thread of a command and its workers are scheduled, every build ends (its requests do:
\* see ContextSource), and an analysis ends or fails; nobody has to interrupt anything.
Spec ==
    /\ Init /\ [][Next]_vars
    /\ WF_vars(Command /\ UNCHANGED studyVars)
    /\ \A w \in Workers : WF_vars(BuildStep(w) /\ UNCHANGED studyVars)
    /\ WF_vars(Study \/ Fails)

-----------------------------------------------------------------------------
\* Every variable has its type.
StudyTypeOK ==
    /\ TypeOK
    /\ run \in Runs /\ contract \in Nat /\ moved \subseteq Nat
    /\ names \in Seq(Analyses)
    /\ point \in {"analysing", "built", "written", "recording"}
    /\ loose \subseteq Analyses

Idle == step = "idle"

\* study.json and the tables beside it agree, whichever calls failed half way, ran one
\* analysis only, built the features on the way, or were skipped: a table said to be written
\* is in place and of that call, and a table in place has been recorded, except one that a
\* killed or interrupted call left.
RecordedAsWritten ==
    \A a \in Analyses \ loose :
        /\ recorded[a].status = "written" => \E t \in tables[a] : t.by = recorded[a].by
        /\ recorded[a].status = "kept" => tables[a] # Missing
        /\ tables[a] # Missing => recorded[a] # None

\* The tables of the features that one call wrote are of one feature table, which was read
\* with the query texts of that call and, unless it was replaced since, is the one in place;
\* a table of the audits is of finished audits that are still in place.
SourcesAgree ==
    /\ \A a, b \in OfFrame : \A t \in tables[a], u \in tables[b] : t.by = u.by => t.frame = u.frame
    /\ \A a \in Analyses \ {"features"} : \A t \in tables[a] : \A f \in t.frame :
         /\ f.contract = t.contract
         /\ \A g \in tables["features"] : g.by <= t.by => f = g
    /\ \A a \in OfAudits : \A t \in tables[a] : t.audits # {}
    /\ \A a \in Analyses \ {"features"} : \A t \in tables[a] : \A s \in t.audits :
         s.files.report # Missing /\ s.files = audits[s.split]

\* What a table holds is of the frozen source, except what one call read: the call that was
\* at work when the graph changed, in its own tables and, where it replaced the features, in
\* every table that a later call computes from the features it keeps.
FrozenSource ==
    \A a \in Analyses : \A t \in tables[a] :
        /\ "changed" \in t.read => t.by \in moved
        /\ a # "features" => \A f \in t.frame : "changed" \in f.read => f.by \in moved

\* diagnose, Study.record: between calls, study.json tells what the tables are, and each table
\* holds what the audits and the source it was computed from had: the frozen one, or what the
\* one call read that looked at the source before it changed and went on reading after.
StudyTrue == Idle => RecordedAsWritten /\ SourcesAgree /\ FrozenSource
=============================================================================
