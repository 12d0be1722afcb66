------------------------ MODULE DiagnosticStudy_proof ------------------------
(***************************************************************************)
(* Proofs about DiagnosticStudy: whatever calls fail, are interrupted or   *)
(* killed, study.json, the tables of a study, the audits they were         *)
(* computed from and the frozen source agree; and of the commands beside   *)
(* them (Scoring): the files of `mule score` and of an audit are complete. *)
(***************************************************************************)
EXTENDS DiagnosticStudy, FiniteSetTheorems, TLAPS

-----------------------------------------------------------------------------
(* The invariant. *)

Studying == step = "studying"

\* The shape of the variables, as far as the steps of a study depend on it.
Shape ==
    /\ commands \in Nat
    /\ contract \in Nat
    /\ step \in {"idle", "resolving", "streaming", "replaced", "scored", "listed", "studying"}
    /\ split \in 0..2
    /\ DOMAIN audits = 1..2
    /\ \A s \in 1..2 : DOMAIN audits[s] = {"scores", "rejected", "report"}
    /\ names \in Seq(Analyses)
    /\ point \in {"analysing", "built", "written", "recording"}
    /\ DOMAIN memory = {"verified", "frame", "truth", "inputs", "splits", "sources"}
    /\ memory.verified \in BOOLEAN
    /\ DOMAIN outcomes = Analyses /\ DOMAIN recorded = Analyses /\ DOMAIN tables = Analyses

\* A table is one content, of a call that has begun, computed from audits of the splits.
Tables ==
    \A a \in Analyses : \A t \in tables[a] :
        /\ t.by \in Nat /\ t.by <= commands
        /\ tables[a] = {t}
        /\ a # "features" => \A s \in t.audits : s.split \in 1..2

\* A split is audited only while its report is missing, and a report stays.
AuditsOnce ==
    /\ step \in {"idle", "resolving", "studying"} => split = 0
    /\ step \in {"streaming", "scored", "listed"} /\ split # 0 => audits[split].report = Missing

\* Between two calls nothing of a call is left in memory.
Forgotten == ~Studying => memory = NothingRead /\ outcomes = NoOutcomes /\ point = "analysing"

\* A table that this call has written.
Mine(a) == \E t \in tables[a] : t.by = commands

\* What study.json says of an analysis agrees with its table.
Agrees(a) ==
    /\ recorded[a].status = "written" => \E t \in tables[a] : t.by = recorded[a].by
    /\ recorded[a].status = "kept" => tables[a] # Missing
    /\ tables[a] # Missing => recorded[a] # None

\* What this call noted is so.
NotedTruly ==
    \A a \in Analyses :
        /\ outcomes[a].status = "written" => outcomes[a].by = commands /\ Mine(a)
        /\ outcomes[a].status = "kept" => tables[a] # Missing

\* The analysis whose table is in place and whose outcome is not noted yet.
Unnoted(a) == (point = "built" /\ a = "features") \/ (point = "written" /\ a = Name)

\* Every table that this call wrote is noted, about to be, or loose; the others agree with
\* study.json, or are loose.
Accounted ==
    \A a \in Analyses \ loose :
        IF Studying /\ Mine(a) THEN outcomes[a] # None \/ Unnoted(a) ELSE Agrees(a)

\* The feature table of the call is the one in place and of its query texts; nothing was
\* computed from another.
FrameInPlace ==
    /\ Studying => \A a \in OfFrame : \A t \in tables[a] : t.by = commands =>
                     memory.frame # {} /\ t.frame = memory.frame
    /\ memory.frame # {} =>
         /\ memory.frame = tables["features"]
         /\ \A f \in memory.frame : f.contract = contract
    /\ point = "built" => memory.frame = {} /\ \A t \in tables["features"] : t.contract = contract
    /\ \A a \in Analyses \ (OfFrame \cup {"features"}) : \A t \in tables[a] : t.frame = {}

\* What a call has read of the changed graph.
ReadChanged == "changed" \in memory.truth \cup memory.inputs \cup memory.sources

\* A call reads after it has verified the source, which it did before the source changed.
ReadsFrozen ==
    /\ memory.truth \cup memory.inputs \cup memory.sources # {} => memory.verified
    /\ Studying /\ memory.verified => moved = {} \/ commands \in moved
    /\ Studying /\ ReadChanged => commands \in moved

\* A table whose outcome is about to be noted is of this call, and a call that has the
\* features has noted theirs.
Noting ==
    /\ point = "built" => Mine("features")
    /\ point = "written" => names # <<>> /\ Mine(Name)
    /\ memory.frame # {} => outcomes["features"] # None

IInv ==
    /\ Shape /\ Tables /\ AuditsOnce /\ Forgotten
    /\ Noting /\ NotedTruly /\ Accounted
    /\ FrameInPlace /\ SourcesAgree
    /\ ReadsFrozen /\ FrozenSource

-----------------------------------------------------------------------------
(* The analyses and the splits. *)

\* The analyses are the ten names, and what they are computed from are some of them.
LEMMA AnalysesAre ==
    /\ Analyses = {"features", "univariate", "drift", "baselines", "learning-curve", "subgroups",
                   "activity-timing", "proxy-validity", "reveal-spread", "nnpu-simulation"}
    /\ ANALYSES \in Seq(Analyses)
    /\ ANALYSES # <<>>
BY DEF Analyses, ANALYSES, Range

\* An audit covers two splits.
LEMMA TwoSplits == DOMAIN Splits = 1..2
BY DEF Splits

\* The first of some splits is one of them.
LEMMA FirstSplit ==
    ASSUME NEW S \in SUBSET (1..2), S # {}
    PROVE  Min(S) \in S
<1>1. PICK x \in S : x = 1 \/ 1 \notin S
  OBVIOUS
<1>2. \A y \in S : x <= y
  BY <1>1
<1>3. QED
  BY <1>2 DEF Min

-----------------------------------------------------------------------------
(* The commands that score. *)

\* What a scoring command does to the state that a study depends on.
LEMMA ScoredEffect ==
    ASSUME IInv, Scored
    PROVE  /\ step # "studying" /\ step' # "studying"
           /\ UNCHANGED studyVars
           /\ commands' \in Nat /\ commands <= commands'
           /\ step' \in {"idle", "resolving", "streaming", "replaced", "scored", "listed"}
           /\ split' \in 0..2
           /\ DOMAIN audits' = 1..2
           /\ \A s \in 1..2 : DOMAIN audits'[s] = {"scores", "rejected", "report"}
           /\ AuditsOnce'
           /\ \A s \in 1..2 : audits[s].report # Missing => audits'[s] = audits[s]
<1> DEFINE Effect ==
      /\ commands' \in Nat /\ commands <= commands'
      /\ step' \in {"idle", "resolving", "streaming", "replaced", "scored", "listed"}
      /\ split' \in 0..2
      /\ DOMAIN audits' = 1..2
      /\ \A s \in 1..2 : DOMAIN audits'[s] = {"scores", "rejected", "report"}
      /\ AuditsOnce'
      /\ \A s \in 1..2 : audits[s].report # Missing => audits'[s] = audits[s]
<1>1. step # "studying" /\ UNCHANGED studyVars /\ ScoringNext /\ Shape /\ AuditsOnce
  BY DEF Scored, IInv
<1> SUFFICES Effect
  BY <1>1
<1> USE DEF Shape, AuditsOnce, Missing
<1>2. CASE StartScore
  BY <1>1, <1>2 DEF StartScore, Begin, streamed, fileVars
<1>3. CASE StartEvaluate
  <2>1. split' \in {s \in 1..2 : audits[s].report = Missing}
    BY <1>3, TwoSplits, FirstSplit DEF StartEvaluate, NextSplit, Audited
  <2>2. QED
    BY <1>1, <1>3, <2>1 DEF StartEvaluate, Begin, fileVars
<1>4. CASE OpenOutputs
  BY <1>1, <1>4 DEF OpenOutputs
<1>5. CASE WriteBatch \/ StreamStep \/ InterruptStep \/ \E w \in Workers : BuildStep(w)
  <2>1. UNCHANGED <<commandVars, audits>>
    BY <1>5 DEF WriteBatch, StreamStep, InterruptStep, BuildStep, fileVars
  <2>2. QED
    BY <1>1, <2>1 DEF commandVars
<1>6. CASE ReplaceOutput \/ ReplaceRejected \/ Unwind \/ FailCensored \/ Kill
  BY <1>1, <1>6
     DEF ReplaceOutput, ReplaceRejected, Unwind, FailCensored, Kill, Exit, fileVars, Streamed
<1>7. CASE WriteScores
  BY <1>1, <1>7 DEF WriteScores, Streamed
<1>8. CASE WriteRejected
  BY <1>1, <1>8 DEF WriteRejected
<1>9. CASE WriteReport
  <2>1. /\ commands' = commands /\ step' \in {"idle", "streaming"}
        /\ \E content : audits' = [audits EXCEPT ![split].report = content]
        /\ audits[split].report = Missing \/ split = 0
    BY <1>1, <1>9 DEF WriteReport, Exit
  <2>2. \/ split' = 0
        \/ step' # "idle" /\ split' \in {s \in 1..2 : s # split /\ audits[s].report = Missing}
    BY <1>9, TwoSplits, FirstSplit DEF WriteReport, Audited, Exit
  <2>3. QED
    BY <1>1, <2>1, <2>2
<1>10. CASE RemovePending \/ MoveScoresAside
  BY <1>1, <1>10 DEF RemovePending, MoveScoresAside, commandVars
<1>11. QED
  BY <1>1, <1>2, <1>3, <1>4, <1>5, <1>6, <1>7, <1>8, <1>9, <1>10 DEF ScoringNext, Command

-----------------------------------------------------------------------------
(* Every step keeps the invariant. *)

\* Initially nothing was run.
LEMMA InitInv == Init => IInv
<1> SUFFICES ASSUME Init PROVE IInv
  OBVIOUS
<1> USE DEF Init, ScoringInit, Missing
<1>1. Shape /\ Tables /\ AuditsOnce /\ Noting
  BY TwoSplits DEF Shape, Tables, AuditsOnce, Noting, NoAudit, NothingRead, NoOutcomes
<1>2. Forgotten /\ NotedTruly /\ Accounted
  BY DEF Forgotten, NotedTruly, Accounted, Agrees, Studying, NoOutcomes, None, NothingRead
<1>3. FrameInPlace /\ SourcesAgree
  BY AnalysesAre DEF FrameInPlace, SourcesAgree, Studying, NothingRead, OfFrame, OfAudits
<1>4. ReadsFrozen /\ FrozenSource
  BY DEF ReadsFrozen, ReadChanged, FrozenSource, Studying, NothingRead
<1>5. QED
  BY <1>1, <1>2, <1>3, <1>4 DEF IInv

\* A scoring command leaves what a study has done as it is.
LEMMA ScoredInv == IInv /\ Scored => IInv'
<1> SUFFICES ASSUME IInv, Scored PROVE IInv'
  OBVIOUS
<1>1. /\ step # "studying" /\ step' # "studying"
      /\ UNCHANGED <<run, contract, moved, names, point, memory, outcomes, recorded, tables, loose>>
      /\ commands' \in Nat /\ commands <= commands'
  BY ScoredEffect DEF studyVars, callVars
<1>2. Shape' /\ AuditsOnce'
  BY <1>1, ScoredEffect DEF IInv, Shape
<1>3. Tables' /\ Noting'
  BY <1>1 DEF IInv, Tables, Shape, Noting, Forgotten, Studying
<1>4. Forgotten' /\ NotedTruly' /\ Accounted'
  BY <1>1 DEF IInv, Forgotten, NotedTruly, Accounted, Agrees, Studying, NoOutcomes, None
<1>5. FrameInPlace' /\ ReadsFrozen' /\ FrozenSource'
  BY <1>1 DEF IInv, FrameInPlace, ReadsFrozen, ReadChanged, FrozenSource, Studying
<1>6. SourcesAgree'
  BY <1>1, ScoredEffect DEF IInv, SourcesAgree, Tables
<1>7. QED
  BY <1>2, <1>3, <1>4, <1>5, <1>6 DEF IInv

\* A call begins with nothing read, noted or written.
LEMMA StartStudyInv == IInv /\ StartStudy => IInv'
<1> SUFFICES ASSUME IInv, StartStudy PROVE IInv'
  OBVIOUS
<1>1. /\ step = "idle" /\ step' = "studying"
      /\ commands \in Nat /\ commands' = commands + 1
      /\ UNCHANGED <<split, audits, run, contract, moved, recorded, tables, loose>>
      /\ point' = "analysing" /\ memory' = NothingRead /\ outcomes' = NoOutcomes
  BY DEF StartStudy, Begin, IInv, Shape, fileVars
<1>2. names' \in Seq(Analyses)
  <2>1. \A call \in Named : call # "all" => <<call>> \in Seq(Analyses)
    BY StudyAssumption DEF StudyAssumption
  <2>2. QED
    BY <2>1, AnalysesAre DEF StartStudy
<1>3. \A a \in Analyses : ~Mine(a)'
  BY <1>1 DEF Mine, IInv, Tables
<1>4. Shape' /\ AuditsOnce' /\ Tables' /\ Noting'
  BY <1>1, <1>2 DEF IInv, Shape, AuditsOnce, Tables, Noting, NothingRead, NoOutcomes
<1>5. Forgotten' /\ NotedTruly' /\ Accounted'
  BY <1>1, <1>3 DEF IInv, Forgotten, NotedTruly, Accounted, Agrees, Studying, NoOutcomes, None
<1>6. FrameInPlace' /\ SourcesAgree'
  <2>1. \A a \in OfFrame : a \in Analyses
    BY AnalysesAre DEF OfFrame
  <2>2. QED
    BY <1>1, <1>3, <2>1 DEF IInv, FrameInPlace, SourcesAgree, NothingRead, Mine
<1>7. ReadsFrozen' /\ FrozenSource'
  BY <1>1 DEF IInv, ReadsFrozen, ReadChanged, FrozenSource, NothingRead
<1>8. QED
  BY <1>4, <1>5, <1>6, <1>7 DEF IInv

\* A current feature table is kept.
LEMMA KeepFeaturesInv == IInv /\ KeepFeatures => IInv'
<1> SUFFICES ASSUME IInv, KeepFeatures PROVE IInv'
  OBVIOUS
<1>1. /\ step = "studying" /\ point = "analysing" /\ memory.frame = {}
      /\ tables["features"] # Missing /\ \E t \in tables["features"] : t.contract = contract
      /\ memory' = [memory EXCEPT !.frame = tables["features"]]
      /\ outcomes' = [outcomes EXCEPT !["features"] = [status |-> "kept"]]
      /\ UNCHANGED <<commands, step, split, audits, run, contract, moved, names, point, recorded,
                     tables, loose>>
  BY DEF KeepFeatures, NeedsFrame, Working, Current, Missing, scoringVars, commandVars, fileVars
<1>2. Shape' /\ AuditsOnce' /\ Tables' /\ Noting'
  BY <1>1, AnalysesAre DEF IInv, Shape, AuditsOnce, Tables, Noting, None
<1>3. Forgotten' /\ NotedTruly' /\ Accounted'
  BY <1>1 DEF IInv, Shape, Forgotten, NotedTruly, Accounted, Agrees, Mine, Unnoted, Studying, None,
              Name
<1>4. FrameInPlace' /\ SourcesAgree'
  BY <1>1, AnalysesAre DEF IInv, Shape, Tables, FrameInPlace, SourcesAgree, Studying
<1>5. ReadsFrozen' /\ FrozenSource'
  BY <1>1 DEF IInv, Shape, ReadsFrozen, ReadChanged, FrozenSource, Studying
<1>6. QED
  BY <1>2, <1>3, <1>4, <1>5 DEF IInv

\* The call looks at the source, or reads the truth, the reveal's inputs or a split.
LEMMA ReadInv == IInv /\ (CheckSource \/ ReadTruth \/ ReadInputs \/ ReadSplit) => IInv'
<1> SUFFICES ASSUME IInv, CheckSource \/ ReadTruth \/ ReadInputs \/ ReadSplit PROVE IInv'
  OBVIOUS
<1>1. /\ step = "studying" /\ point = "analysing"
      /\ UNCHANGED <<commands, step, split, audits, run, contract, moved, names, point, outcomes,
                     recorded, tables, loose>>
  BY DEF CheckSource, ReadTruth, ReadInputs, ReadSplit, Remember, WantsTruth, WantsInputs,
         BuildsFeatures, NeedsFrame, Working, scoringVars, commandVars, fileVars
<1>2. /\ DOMAIN memory' = DOMAIN memory
      /\ memory'.verified \in BOOLEAN /\ memory'.frame = memory.frame
      /\ \/ /\ Source = "frozen" /\ memory'.verified
            /\ UNCHANGED <<memory.truth, memory.inputs, memory.sources>>
         \/ /\ memory.verified /\ memory'.verified = memory.verified
            /\ \A kind \in {"truth", "inputs", "sources"} :
                 memory'[kind] \in {memory[kind], {Source}, memory[kind] \cup {Source}}
  <2>1. CASE CheckSource
    BY <2>1 DEF CheckSource, Remember, IInv, Shape
  <2>2. CASE ReadTruth
    BY <2>2 DEF ReadTruth, Remember, IInv, Shape
  <2>3. CASE ReadInputs
    BY <2>3 DEF ReadInputs, Remember, IInv, Shape
  <2>4. CASE ReadSplit
    BY <2>4 DEF ReadSplit, Remember, IInv, Shape, ReadsFrozen
  <2>5. QED
    BY <2>1, <2>2, <2>3, <2>4
<1>3. Shape' /\ AuditsOnce' /\ Tables' /\ Noting'
  BY <1>1, <1>2 DEF IInv, Shape, AuditsOnce, Tables, Noting, Mine, Name
<1>4. Forgotten' /\ NotedTruly' /\ Accounted'
  BY <1>1 DEF IInv, Forgotten, NotedTruly, Accounted, Agrees, Mine, Unnoted, Studying, Name
<1>5. FrameInPlace' /\ SourcesAgree' /\ FrozenSource'
  BY <1>1, <1>2 DEF IInv, FrameInPlace, SourcesAgree, FrozenSource, Studying
<1>6. ReadsFrozen'
  <2>1. Source = "frozen" <=> moved = {}
    BY DEF Source
  <2>2. memory.verified => moved = {} \/ commands \in moved
    BY <1>1 DEF IInv, ReadsFrozen, Studying
  <2>3. ReadChanged => commands \in moved
    BY <1>1 DEF IInv, ReadsFrozen, Studying
  <2>4. CASE /\ Source = "frozen" /\ memory'.verified
             /\ UNCHANGED <<memory.truth, memory.inputs, memory.sources>>
    BY <1>1, <2>1, <2>3, <2>4 DEF ReadsFrozen, ReadChanged
  <2>5. CASE /\ memory.verified /\ memory'.verified = memory.verified
             /\ \A kind \in {"truth", "inputs", "sources"} :
                  memory'[kind] \in {memory[kind], {Source}, memory[kind] \cup {Source}}
    <3>1. \A kind \in {"truth", "inputs", "sources"} :
            "changed" \in memory'[kind] => "changed" \in memory[kind] \/ Source = "changed"
      BY <2>5
    <3>2. ReadChanged' => ReadChanged \/ moved # {}
      BY <3>1, <2>1 DEF ReadChanged
    <3>3. QED
      BY <1>1, <2>2, <2>3, <2>5, <3>2 DEF ReadsFrozen
  <2>6. QED
    BY <1>2, <2>4, <2>5
<1>7. QED
  BY <1>3, <1>4, <1>5, <1>6 DEF IInv

\* The feature table is of what the call has read.
LEMMA BuildFeaturesInv == IInv /\ BuildFeatures => IInv'
<1> SUFFICES ASSUME IInv, BuildFeatures PROVE IInv'
  OBVIOUS
<1> DEFINE a0 == "features"
<1>1. PICK training, analytics \in SUBSET Rejectable :
        tables' = [tables EXCEPT ![a0] = {FeatureTable(training, analytics)}]
  BY DEF BuildFeatures, Replace
<1> DEFINE new == FeatureTable(training, analytics)
<1>2. /\ step = "studying" /\ point = "analysing" /\ memory.frame = {}
      /\ memory' = [memory EXCEPT !.splits = 0, !.sources = {}]
      /\ point' = "built"
      /\ UNCHANGED <<commands, step, split, audits, run, contract, moved, names, outcomes, recorded,
                     loose>>
  BY DEF BuildFeatures, BuildsFeatures, NeedsFrame, Working, scoringVars, commandVars, fileVars
<1>3. /\ new.by = commands /\ new.contract = contract
      /\ new.read = memory.truth \cup memory.sources
  BY DEF FeatureTable
<1> HIDE DEF new
<1>4. a0 \in Analyses /\ a0 \notin OfFrame /\ a0 \notin OfAudits
  BY AnalysesAre DEF OfFrame, OfAudits
<1>5. \A a \in Analyses : tables'[a] = IF a = a0 THEN {new} ELSE tables[a]
  BY <1>1, <1>4 DEF IInv, Shape, new
<1>6. Shape' /\ AuditsOnce' /\ Tables' /\ Noting'
  BY <1>1, <1>2, <1>3, <1>4, <1>5 DEF IInv, Shape, AuditsOnce, Tables, Noting, Mine
<1>7. Forgotten' /\ NotedTruly' /\ Accounted'
  BY <1>2, <1>3, <1>5
     DEF IInv, Shape, Forgotten, NotedTruly, Accounted, Agrees, Mine, Unnoted, Studying, None,
         Missing
<1>8. FrameInPlace' /\ SourcesAgree'
  <2>1. \A a \in Analyses \ {a0} : \A t \in tables[a] :
          /\ t.by < commands \/ t.frame = {}
          /\ t.by \in Nat
    BY <1>2 DEF IInv, Shape, Tables, FrameInPlace, Studying
  <2>2. OfFrame \subseteq Analyses \ {a0} /\ OfAudits \subseteq Analyses \ {a0}
    BY <1>4, AnalysesAre DEF OfFrame, OfAudits
  <2>3. \A a \in Analyses \ {a0} : tables'[a] = tables[a]
    BY <1>5
  <2>4. tables'[a0] = {new}
    BY <1>4, <1>5
  <2>5. FrameInPlace'
    BY <1>2, <1>3, <2>2, <2>3, <2>4 DEF IInv, Shape, FrameInPlace, Studying
  <2>6. SourcesAgree'
    <3>1. SourcesAgree /\ commands \in Nat
      BY DEF IInv, Shape
    <3>2. \A a \in Analyses \ {a0} : \A t \in tables[a] : \A f \in t.frame :
             \A g \in tables'[a0] : ~(g.by <= t.by)
      BY <1>3, <2>1, <2>4, <3>1
    <3>3. QED
      BY <1>2, <2>2, <2>3, <3>1, <3>2 DEF SourcesAgree
  <2>7. QED
    BY <2>5, <2>6
<1>9. ReadsFrozen' /\ FrozenSource'
  BY <1>2, <1>3, <1>5 DEF IInv, Shape, ReadsFrozen, ReadChanged, FrozenSource, Studying
<1>10. QED
  BY <1>6, <1>7, <1>8, <1>9 DEF IInv

\* The features that were read are those of the call, and their outcome is noted.
LEMMA BuiltInv == IInv /\ Built => IInv'
<1> SUFFICES ASSUME IInv, Built PROVE IInv'
  OBVIOUS
<1>1. /\ step = "studying" /\ point = "built" /\ point' = "analysing"
      /\ memory' = [memory EXCEPT !.frame = tables["features"]]
      /\ outcomes' = [outcomes EXCEPT !["features"] = [status |-> "written", by |-> commands]]
      /\ UNCHANGED <<commands, step, split, audits, run, contract, moved, names, recorded, tables,
                     loose>>
  BY DEF Built, scoringVars, commandVars, fileVars
<1>2. Mine("features")
  BY <1>1, AnalysesAre DEF IInv, Noting
<1>3. Shape' /\ AuditsOnce' /\ Tables' /\ Noting'
  BY <1>1, AnalysesAre DEF IInv, Shape, AuditsOnce, Tables, Noting, None
<1>4. Forgotten' /\ NotedTruly' /\ Accounted'
  BY <1>1, <1>2 DEF IInv, Shape, Forgotten, NotedTruly, Accounted, Agrees, Mine, Unnoted, Studying,
                    None, Missing
<1>5. FrameInPlace' /\ SourcesAgree'
  <2>1. \A a \in OfFrame : a \in Analyses
    BY AnalysesAre DEF OfFrame
  <2>2. QED
    BY <1>1, <1>2, <2>1 DEF IInv, Shape, FrameInPlace, SourcesAgree, Studying, Mine
<1>6. ReadsFrozen' /\ FrozenSource'
  BY <1>1 DEF IInv, Shape, ReadsFrozen, ReadChanged, FrozenSource, Studying
<1>7. QED
  BY <1>3, <1>4, <1>5, <1>6 DEF IInv

\* An analysis other than the features replaces its table.
LEMMA WriteTableInv == IInv /\ WriteTable => IInv'
<1> SUFFICES ASSUME IInv, WriteTable PROVE IInv'
  OBVIOUS
<1> DEFINE new == Table
           n == Name
<1>1. /\ step = "studying" /\ point = "analysing" /\ point' = "written"
      /\ n \in Analyses /\ n # "features" /\ names # <<>>
      /\ ~Skips
      /\ n \in OfFrame => memory.frame # {}
      /\ tables' = [tables EXCEPT ![n] = {new}]
      /\ UNCHANGED <<commands, step, split, audits, run, contract, moved, names, memory, outcomes,
                     recorded, loose>>
  BY DEF WriteTable, Computable, Working, Replace, Name, IInv, Shape, scoringVars, commandVars,
         fileVars
<1>2. /\ new.by = commands /\ new.contract = contract
      /\ new.frame = IF n \in OfFrame THEN memory.frame ELSE {}
      /\ new.read \subseteq memory.truth \cup memory.inputs
  BY DEF Table
<1>3. /\ n \in OfAudits => new.audits # {}
      /\ \A s \in new.audits : s.split \in 1..2 /\ s.files = audits[s.split] /\ s.files.report # Missing
  <2> DEFINE files == {[split |-> s, files |-> audits[s]] : s \in Audits}
  <2>1. /\ new.audits = IF n \in OfAudits \cup {"baselines", "learning-curve"} THEN files ELSE {}
        /\ n \in OfAudits => Audits # {}
    BY <1>1 DEF Table, Skips
  <2>2. \A s \in Audits : s \in 1..2 /\ audits[s].report # Missing
    BY TwoSplits DEF Audits, Audited
  <2>3. /\ Audits # {} => files # {}
        /\ \A f \in files : f.split \in 1..2 /\ f.files = audits[f.split] /\ f.files.report # Missing
    <3>1. ASSUME NEW s \in Audits PROVE files # {}
      OBVIOUS
    <3>2. ASSUME NEW f \in files
          PROVE  f.split \in 1..2 /\ f.files = audits[f.split] /\ f.files.report # Missing
      <4>1. PICK s \in Audits : f = [split |-> s, files |-> audits[s]]
        OBVIOUS
      <4>2. f.split = s /\ f.files = audits[s]
        BY <4>1
      <4>3. QED
        BY <2>2, <4>2
    <3>3. QED
      BY <3>1, <3>2
  <2> HIDE DEF new, n, files
  <2>4. QED
    BY <2>1, <2>3
<1>4. n' = n
  BY <1>1 DEF Name
<1> HIDE DEF new, n
<1>5. /\ tables'[n] = {new}
      /\ \A a \in Analyses \ {n} : tables'[a] = tables[a]
      /\ DOMAIN tables' = Analyses
  BY <1>1 DEF IInv, Shape
<1>6. OfFrame \subseteq Analyses /\ OfAudits \subseteq Analyses
      /\ "features" \in Analyses \ (OfFrame \cup OfAudits)
  BY AnalysesAre DEF OfFrame, OfAudits
<1>7. Shape' /\ AuditsOnce' /\ Tables' /\ Noting'
  <2>1. Shape' /\ AuditsOnce' /\ Tables'
    BY <1>1, <1>2, <1>3, <1>5, <1>6 DEF IInv, Shape, AuditsOnce, Tables
  <2>2. Mine(Name)' /\ memory'.frame = memory.frame
    BY <1>1, <1>2, <1>4, <1>5 DEF IInv, Shape, Mine, n
  <2>3. Noting'
    BY <1>1, <2>2 DEF IInv, Noting
  <2>4. QED
    BY <2>1, <2>3
<1>8. Forgotten' /\ NotedTruly' /\ Accounted'
  <2>1. Unnoted(n)'
    BY <1>1, <1>4 DEF Unnoted, n
  <2>2. Mine(n)' /\ tables'[n] # Missing
    BY <1>1, <1>2, <1>4, <1>5 DEF Mine, Missing
  <2>3. \A a \in Analyses \ {n} : Unnoted(a) => Unnoted(a)'
    BY <1>1 DEF Unnoted
  <2>4. \A a \in Analyses \ {n} : /\ Mine(a)' = Mine(a)
                                 /\ Agrees(a)' = Agrees(a)
    BY <1>1, <1>5 DEF Mine, Agrees
  <2>5. Forgotten' /\ NotedTruly'
    BY <1>1, <1>4, <1>5, <2>2, <2>4 DEF IInv, Forgotten, NotedTruly, Studying
  <2>6. Accounted'
    BY <1>1, <1>4, <1>5, <2>1, <2>2, <2>3, <2>4 DEF IInv, Accounted, Studying
  <2>7. QED
    BY <2>5, <2>6
<1>9. FrameInPlace' /\ SourcesAgree'
  <2>1. memory'.frame = memory.frame
    BY <1>1 DEF IInv, Shape
  <2>2. FrameInPlace'
    BY <1>1, <1>2, <1>5, <1>6, <2>1 DEF IInv, FrameInPlace, Studying
  <2>3. \A a, b \in OfFrame : \A t \in tables'[a], u \in tables'[b] : t.by = u.by => t.frame = u.frame
    <3>1. \A a \in OfFrame \ {n} : \A t \in tables'[a] : t.by = commands => t.frame = memory.frame
      BY <1>1, <1>5, <1>6 DEF IInv, FrameInPlace, Studying
    <3>2. \A a \in OfFrame : \A t \in tables'[a] : t.by = commands => t.frame = memory.frame
      BY <1>2, <1>5, <3>1
    <3>3. n \in OfFrame => \A t \in tables'[n] : t.by = commands
      BY <1>2, <1>5
    <3>4. \A a, b \in OfFrame \ {n} : \A t \in tables'[a], u \in tables'[b] :
            t.by = u.by => t.frame = u.frame
      BY <1>5, <1>6 DEF IInv, SourcesAgree
    <3>5. QED
      BY <3>2, <3>3, <3>4
  <2>4. \A a \in Analyses \ {"features"} : \A t \in tables'[a] : \A f \in t.frame :
          /\ f.contract = t.contract
          /\ \A g \in tables'["features"] : g.by <= t.by => f = g
    <3>1. \A f \in new.frame : f.contract = contract /\ \A g \in tables["features"] : f = g
      BY <1>2, <1>6 DEF IInv, FrameInPlace, Tables
    <3>2. QED
      BY <1>1, <1>2, <1>5, <1>6, <3>1 DEF IInv, SourcesAgree
  <2>5. /\ \A a \in OfAudits : \A t \in tables'[a] : t.audits # {}
        /\ \A a \in Analyses \ {"features"} : \A t \in tables'[a] : \A s \in t.audits :
             s.files.report # Missing /\ s.files = audits'[s.split]
    BY <1>1, <1>3, <1>5, <1>6 DEF IInv, SourcesAgree
  <2>6. QED
    BY <2>2, <2>3, <2>4, <2>5 DEF SourcesAgree
<1>10. ReadsFrozen' /\ FrozenSource'
  <2>1. ReadsFrozen'
    BY <1>1 DEF IInv, ReadsFrozen, ReadChanged, Studying
  <2>2. "changed" \in new.read => commands \in moved
    BY <1>1, <1>2 DEF IInv, ReadsFrozen, ReadChanged, Studying
  <2>3. \A f \in new.frame : "changed" \in f.read => f.by \in moved
    BY <1>2, <1>6 DEF IInv, FrameInPlace, FrozenSource
  <2>4. FrozenSource'
    BY <1>1, <1>2, <1>5, <2>2, <2>3 DEF IInv, FrozenSource
  <2>5. QED
    BY <2>1, <2>4
<1>11. QED
  BY <1>7, <1>8, <1>9, <1>10 DEF IInv

\* The outcome of an analysis is noted, and the next begins.
LEMMA AnalysedInv == IInv /\ Analysed => IInv'
<1> SUFFICES ASSUME IInv, Analysed PROVE IInv'
  OBVIOUS
<1> DEFINE n == Name
<1>1. PICK outcome : Done(outcome)
  BY DEF Analysed
<1>2. /\ step = "studying"
      /\ outcomes' = [outcomes EXCEPT ![n] = outcome]
      /\ names' = Tail(names)
      /\ point' \in {"analysing", "recording"}
      /\ UNCHANGED <<commands, step, split, audits, run, contract, moved, memory, recorded, tables,
                     loose>>
  BY <1>1 DEF Analysed, Done, Following, scoringVars, commandVars, fileVars
<1>3. names # <<>> /\ n \in Analyses
  BY DEF Analysed, Working, IInv, Shape, Noting, Name
<1>4. /\ outcomes'[n] # None
      /\ outcomes'[n].status = "written" => outcomes'[n].by = commands /\ Mine(n)
      /\ outcomes'[n].status = "kept" => tables[n] # Missing
      /\ point # "built"
  <2>1. CASE point = "written" /\ Done([status |-> "written", by |-> commands])
    BY <2>1, <1>3 DEF Done, IInv, Shape, Noting, None
  <2>2. CASE Working /\ n = "features" /\ memory.frame # {} /\ Done(outcomes["features"])
    <3>1. outcomes["features"] # None
      BY <2>2 DEF IInv, Noting, Working
    <3>2. outcomes'[n] = outcomes[n]
      BY <2>2, <1>3 DEF IInv, Shape, Done
    <3>3. QED
      BY <2>2, <3>1, <3>2, <1>3 DEF IInv, NotedTruly, Working
  <2>3. CASE Working /\ Skips /\ Done([status |-> "skipped"])
    BY <2>3, <1>3 DEF Done, IInv, Shape, None, Working
  <2>4. QED
    BY <2>1, <2>2, <2>3 DEF Analysed
<1>5. /\ DOMAIN outcomes' = Analyses
      /\ \A a \in Analyses \ {n} : outcomes'[a] = outcomes[a]
  BY <1>2 DEF IInv, Shape
<1>6. \A a \in Analyses : Unnoted(a) => a = n
  BY <1>4 DEF Unnoted
<1> HIDE DEF n
<1>7. Shape' /\ AuditsOnce' /\ Tables' /\ Noting'
  <2>1. names' \in Seq(Analyses)
    BY <1>2, <1>3 DEF IInv, Shape
  <2>2. Noting'
    BY <1>2, <1>4, <1>5 DEF IInv, Noting
  <2>3. QED
    BY <1>2, <1>5, <2>1, <2>2 DEF IInv, Shape, AuditsOnce, Tables, Noting
<1>8. Forgotten' /\ NotedTruly' /\ Accounted'
  <2>1. \A a \in Analyses : Mine(a)' = Mine(a) /\ Agrees(a)' = Agrees(a)
    BY <1>2 DEF Mine, Agrees
  <2>2. NotedTruly'
    BY <1>2, <1>4, <1>5, <2>1 DEF IInv, NotedTruly
  <2>3. Accounted'
    BY <1>2, <1>4, <1>5, <1>6, <2>1 DEF IInv, Accounted, Studying
  <2>4. QED
    BY <1>2, <2>2, <2>3 DEF Forgotten, Studying
<1>9. FrameInPlace' /\ SourcesAgree' /\ ReadsFrozen' /\ FrozenSource'
  BY <1>2 DEF IInv, FrameInPlace, SourcesAgree, ReadsFrozen, ReadChanged, FrozenSource, Studying
<1>10. QED
  BY <1>7, <1>8, <1>9 DEF IInv

\* A call that fails goes on to record; the table it has replaced and not noted is loose.
LEMMA FailsInv == IInv /\ Fails => IInv'
<1> SUFFICES ASSUME IInv, Fails PROVE IInv'
  OBVIOUS
<1>1. /\ step = "studying" /\ point' = "recording"
      /\ loose' = loose \cup (IF point = "built" THEN {"features"} ELSE {})
                        \cup (IF point = "written" THEN {Name} ELSE {})
      /\ UNCHANGED <<commands, step, split, audits, run, contract, moved, names, memory, outcomes,
                     recorded, tables>>
  BY DEF Fails, scoringVars, commandVars, fileVars
<1>2. \A a \in Analyses : Unnoted(a) => a \in loose'
  BY <1>1 DEF Unnoted
<1>3. Shape' /\ AuditsOnce' /\ Tables' /\ Noting'
  BY <1>1, AnalysesAre DEF IInv, Shape, AuditsOnce, Tables, Noting, None
<1>4. Forgotten' /\ NotedTruly' /\ Accounted'
  BY <1>1, <1>2 DEF IInv, Forgotten, NotedTruly, Accounted, Agrees, Mine, Studying
<1>5. FrameInPlace' /\ SourcesAgree' /\ ReadsFrozen' /\ FrozenSource'
  BY <1>1 DEF IInv, FrameInPlace, SourcesAgree, ReadsFrozen, ReadChanged, FrozenSource, Studying
<1>6. QED
  BY <1>3, <1>4, <1>5 DEF IInv

\* study.json is written: what this call noted, and what was recorded of the others.
LEMMA RecordInv == IInv /\ Record => IInv'
<1> SUFFICES ASSUME IInv, Record PROVE IInv'
  OBVIOUS
<1>1. /\ step = "studying" /\ step' = "idle" /\ point = "recording"
      /\ recorded' = [a \in Analyses |-> IF outcomes[a] # None THEN outcomes[a] ELSE recorded[a]]
      /\ loose' = loose \ {a \in Analyses : outcomes[a] # None}
      /\ names' = <<>> /\ point' = "analysing" /\ memory' = NothingRead /\ outcomes' = NoOutcomes
      /\ UNCHANGED <<commands, split, audits, run, contract, moved, tables>>
  BY DEF Record, EndCall, RecordOf, Noted, fileVars
<1>2. Shape' /\ AuditsOnce' /\ Tables' /\ Noting'
  BY <1>1 DEF IInv, Shape, AuditsOnce, Tables, Noting, NothingRead,
              NoOutcomes
<1>3. Forgotten' /\ NotedTruly'
  BY <1>1 DEF Forgotten, NotedTruly, Studying, NoOutcomes, None
<1>4. Accounted'
  <2> SUFFICES ASSUME NEW a \in Analyses, a \notin loose' PROVE Agrees(a)'
    BY <1>1 DEF Accounted, Studying
  <2>1. CASE outcomes[a] # None
    <3>1. recorded'[a] = outcomes[a] /\ tables' = tables /\ commands' = commands
      BY <1>1, <2>1
    <3>2. QED
      BY <2>1, <3>1 DEF IInv, NotedTruly, Agrees, Mine
  <2>2. CASE outcomes[a] = None
    <3>1. recorded'[a] = recorded[a] /\ a \notin loose
      BY <1>1, <2>2
    <3>2. Agrees(a)
      BY <1>1, <2>2, <3>1 DEF IInv, Accounted, Unnoted, Studying
    <3>3. QED
      BY <1>1, <3>1, <3>2 DEF Agrees
  <2>3. QED
    BY <2>1, <2>2
<1>5. FrameInPlace' /\ SourcesAgree' /\ ReadsFrozen' /\ FrozenSource'
  BY <1>1 DEF IInv, FrameInPlace, SourcesAgree, ReadsFrozen, ReadChanged, FrozenSource, Studying, NothingRead
<1>6. QED
  BY <1>2, <1>3, <1>4, <1>5 DEF IInv

\* The tables of a call that is killed are loose.
LEMMA KillStudyInv == IInv /\ KillStudy => IInv'
<1> SUFFICES ASSUME IInv, KillStudy PROVE IInv'
  OBVIOUS
<1>1. /\ step = "studying" /\ step' = "idle"
      /\ loose' = loose \cup {a \in Analyses : Mine(a)}
      /\ names' = <<>> /\ point' = "analysing" /\ memory' = NothingRead /\ outcomes' = NoOutcomes
      /\ UNCHANGED <<commands, split, audits, run, contract, moved, recorded, tables>>
  BY DEF KillStudy, EndCall, Mine, fileVars
<1>2. Shape' /\ AuditsOnce' /\ Tables' /\ Noting'
  BY <1>1 DEF IInv, Shape, AuditsOnce, Tables, Noting, NothingRead,
              NoOutcomes
<1>3. Forgotten' /\ NotedTruly'
  BY <1>1 DEF Forgotten, NotedTruly, Studying, NoOutcomes, None
<1>4. Accounted'
  BY <1>1 DEF IInv, Accounted, Agrees, Studying
<1>5. FrameInPlace' /\ SourcesAgree' /\ ReadsFrozen' /\ FrozenSource'
  BY <1>1 DEF IInv, FrameInPlace, SourcesAgree, ReadsFrozen, ReadChanged, FrozenSource, Studying, NothingRead
<1>6. QED
  BY <1>2, <1>3, <1>4, <1>5 DEF IInv

\* A commit changes the query between two calls.
LEMMA UpgradeInv == IInv /\ Upgrade => IInv'
<1> SUFFICES ASSUME IInv, Upgrade PROVE IInv'
  OBVIOUS
<1>1. /\ step = "idle" /\ contract' = contract + 1
      /\ UNCHANGED <<commands, step, split, audits, run, moved, names, point, memory, outcomes,
                     recorded, tables, loose>>
  BY DEF Upgrade, callVars, fileVars
<1>2. memory = NothingRead /\ point = "analysing"
  BY <1>1 DEF IInv, Forgotten, Studying
<1>3. Shape' /\ AuditsOnce' /\ Tables' /\ Noting'
  BY <1>1, <1>2 DEF IInv, Shape, AuditsOnce, Tables, Noting, NothingRead
<1>4. Forgotten' /\ NotedTruly' /\ Accounted'
  BY <1>1 DEF IInv, Forgotten, NotedTruly, Accounted, Agrees, Mine, Unnoted, Studying, Name
<1>5. FrameInPlace' /\ SourcesAgree' /\ ReadsFrozen' /\ FrozenSource'
  BY <1>1, <1>2 DEF IInv, FrameInPlace, SourcesAgree, ReadsFrozen, ReadChanged, FrozenSource, Studying,
                    NothingRead
<1>6. QED
  BY <1>3, <1>4, <1>5 DEF IInv

\* The graph changes; only the call at work may have been verified before.
LEMMA IngestInv == IInv /\ Ingest => IInv'
<1> SUFFICES ASSUME IInv, Ingest PROVE IInv'
  OBVIOUS
<1>1. /\ moved' = IF moved = {} THEN {commands} ELSE moved
      /\ UNCHANGED <<commands, step, split, audits, run, contract, names, point, memory, outcomes,
                     recorded, tables, loose>>
  BY DEF Ingest, callVars, fileVars
<1>2. Shape' /\ AuditsOnce' /\ Tables' /\ Noting'
  BY <1>1 DEF IInv, Shape, AuditsOnce, Tables, Noting, Mine, Name
<1>3. Forgotten' /\ NotedTruly' /\ Accounted'
  BY <1>1 DEF IInv, Forgotten, NotedTruly, Accounted, Agrees, Mine, Unnoted, Studying, Name
<1>4. FrameInPlace' /\ SourcesAgree'
  BY <1>1 DEF IInv, FrameInPlace, SourcesAgree, Studying
<1>5. ReadsFrozen' /\ FrozenSource'
  BY <1>1 DEF IInv, ReadsFrozen, ReadChanged, FrozenSource, Studying
<1>6. QED
  BY <1>2, <1>3, <1>4, <1>5 DEF IInv

\* A step that changes nothing.
LEMMA StutterInv == IInv /\ UNCHANGED vars => IInv'
<1> SUFFICES ASSUME IInv, UNCHANGED vars PROVE IInv'
  OBVIOUS
<1>1. UNCHANGED <<commands, step, split, audits, run, contract, moved, names, point, memory, outcomes,
                  recorded, tables, loose>>
  BY DEF vars, scoringVars, commandVars, fileVars, studyVars, callVars
<1>2. Shape' /\ AuditsOnce' /\ Tables' /\ Noting'
  BY <1>1 DEF IInv, Shape, AuditsOnce, Tables, Noting, Mine, Name
<1>3. Forgotten' /\ NotedTruly' /\ Accounted'
  BY <1>1 DEF IInv, Forgotten, NotedTruly, Accounted, Agrees, Mine, Unnoted, Studying, Name
<1>4. FrameInPlace' /\ SourcesAgree' /\ ReadsFrozen' /\ FrozenSource'
  BY <1>1 DEF IInv, FrameInPlace, SourcesAgree, ReadsFrozen, ReadChanged, FrozenSource, Studying
<1>5. QED
  BY <1>2, <1>3, <1>4 DEF IInv

\* Every step keeps the invariant of the studies.
LEMMA NextInv == IInv /\ [Next]_vars => IInv'
BY ScoredInv, StartStudyInv, KeepFeaturesInv, ReadInv, BuildFeaturesInv, BuiltInv,
   WriteTableInv, AnalysedInv, RecordInv, FailsInv, KillStudyInv, UpgradeInv, IngestInv, StutterInv
   DEF Next, Study

-----------------------------------------------------------------------------
(* The invariant of the commands that score. *)

\* The builds are awaited in the order of the batches, and none is left out: while the
\* prefetcher is not stopped those pending follow the one popped last, and it closes by
\* itself only after the last one.
InOrder ==
    /\ at \in Points
    /\ taken \in 0..Items /\ current \in 0..Items
    /\ pending \in Seq(Nat)
    /\ stopped \in BOOLEAN
    /\ at \in {"filling", "popping", "waiting", "refilling", "consuming"} => ~stopped
    /\ ~stopped =>
         /\ taken = current + Len(pending)
         /\ \A i \in 1..Len(pending) : pending[i] = current + i
    /\ at \in {"popping", "consuming"} => pending # <<>> \/ taken = Items
    /\ at \in {"waiting", "refilling", "consuming"} => current > 0
    /\ at \in {"closing", "joining", "ended"} => current = Items

\* How many batches the client has taken.
Handled == IF at \in {"waiting", "refilling", "consuming"} THEN current - 1 ELSE current

\* Of every batch taken an account is a row or rejected, and the source has counted those
\* rejected since the copy.
Sorted ==
    /\ rows \in Seq(SUBSET Range(Ids)) /\ bad \in Seq(SUBSET Range(Ids))
    /\ Len(rows) = Len(bad)
    /\ at \notin {"unwinding", "raised"} => Len(bad) = Handled
    /\ \A i \in 1..Len(bad) : rows[i] = Batch(i) \ bad[i] /\ bad[i] \subseteq Batch(i)
    /\ IsFiniteSet(Refused)
    /\ before \in Nat
    /\ served = before + Cardinality(Refused)

\* Where a command is in its stream.
Staged ==
    /\ step \in {"idle", "resolving", "studying"} => rows = <<>> /\ bad = <<>>
    /\ step \in {"replaced", "scored", "listed"} => at = "ended"
    /\ step = "replaced" => split = 0
    /\ step \in {"scored", "listed"} => split # 0 /\ ~ExceedsRejectionLimit

\* The files of `mule score` while a command writes them; what a cut left.
ScoreFiles ==
    /\ DOMAIN scores = {"output", "rejected", "pending", "pending_rejected"}
    /\ cut => scores.output # Missing /\ scores.rejected = Missing
    /\ split = 0 /\ step \in {"resolving", "streaming"} =>
         scores.output = Missing /\ scores.rejected = Missing
    /\ split = 0 /\ step = "streaming" => scores.pending = Written(rows)
    /\ split = 0 /\ step \in {"streaming", "replaced"} => scores.pending_rejected = Written(bad)
    /\ step = "replaced" => scores.output = Written(rows) /\ scores.rejected = Missing /\ ~cut

\* The files of the audit under way.
AuditFiles ==
    /\ step \in {"scored", "listed"} => audits[split].scores = Written(rows)
    /\ step = "listed" =>
         audits[split].rejected = IF Refused = {} THEN Missing ELSE Written(bad)

SInv ==
    /\ InOrder /\ Sorted /\ Staged
    /\ ScoreFiles /\ ScoresComplete
    /\ AuditFiles /\ FilesOfOneAudit

-----------------------------------------------------------------------------
(* The batches. *)

\* The batches are of different accounts and, together, of all.
LEMMA BatchesApart ==
    ASSUME NEW i \in Nat, NEW j \in Nat, i < j
    PROVE  Batch(i) \cap Batch(j) = {}
<1> SUFFICES ASSUME NEW k \in DOMAIN Ids, NEW l \in DOMAIN Ids, Ids[k] = Ids[l],
                    k \in ((i - 1) * BatchSize + 1)..(i * BatchSize),
                    l \in ((j - 1) * BatchSize + 1)..(j * BatchSize)
             PROVE  FALSE
  BY DEF Batch
<1>1. k = l /\ k \in Nat /\ BatchSize \in Nat
  BY ScoringAssumption DEF IsInjective
<1>2. i * BatchSize <= (j - 1) * BatchSize
  <2>1. PICK d \in Nat : j - 1 = i + d
    <3>1. j - 1 - i \in Nat /\ j - 1 = i + (j - 1 - i)
      OBVIOUS
    <3>2. QED
      BY <3>1
  <2>2. (i + d) * BatchSize = i * BatchSize + d * BatchSize
    BY <1>1
  <2>3. d * BatchSize \in Nat /\ i * BatchSize \in Nat
    BY <1>1
  <2>4. QED
    BY <2>1, <2>2, <2>3
<1>3. i * BatchSize \in Int /\ (j - 1) * BatchSize \in Int
  BY <1>1
<1>4. QED
  BY <1>1, <1>2, <1>3

\* Every account is in a batch.
LEMMA BatchesCover ==
    ASSUME NEW a \in Range(Ids)
    PROVE  \E i \in 1..Items : a \in Batch(i)
<1>1. PICK k \in 1..Len(Ids) : Ids[k] = a
  BY ScoringAssumption DEF Range
<1> DEFINE q == (k - 1) \div BatchSize
<1>2. BatchSize \in Nat \ {0} /\ Items \in Nat \ {0} /\ k \in Nat /\ k >= 1
      /\ Len(Ids) <= Items * BatchSize /\ Len(Ids) \in Nat
  BY ScoringAssumption, PrefetchAssumption
<1>3. /\ q \in Nat
      /\ q * BatchSize <= k - 1 /\ k - 1 < q * BatchSize + BatchSize
  BY <1>2
<1> HIDE DEF q
<1>4. q < Items
  <2>1. SUFFICES ASSUME q >= Items PROVE FALSE
    BY <1>2, <1>3
  <2>2. PICK d \in Nat : q = Items + d
    <3>1. q - Items \in Nat /\ q = Items + (q - Items)
      BY <1>2, <1>3, <2>1
    <3>2. QED
      BY <3>1
  <2>3. q * BatchSize = Items * BatchSize + d * BatchSize /\ d * BatchSize \in Nat
    BY <1>2, <2>2
  <2>4. Items * BatchSize \in Nat
    BY <1>2
  <2>5. QED
    BY <1>2, <1>3, <2>3, <2>4
<1>5. (q + 1) * BatchSize = q * BatchSize + BatchSize /\ q * BatchSize \in Nat
  BY <1>2, <1>3
<1>6. \E i \in 1..Items : i = q + 1 /\ k \in ((i - 1) * BatchSize + 1)..(i * BatchSize)
  <2>1. q + 1 \in 1..Items /\ (q + 1) - 1 = q
    BY <1>2, <1>3, <1>4
  <2>2. k \in (q * BatchSize + 1)..((q + 1) * BatchSize)
    BY <1>2, <1>3, <1>5
  <2>3. QED
    BY <2>1, <2>2
<1>7. k \in DOMAIN Ids
  BY <1>1, ScoringAssumption
<1>8. QED
  BY <1>1, <1>6, <1>7 DEF Batch

-----------------------------------------------------------------------------
(* The stream. *)

\* Whatever the prefetcher, its workers and Ctrl-C do, the batches are awaited in order.
LEMMA StreamInOrder ==
    ASSUME InOrder, Consumer \/ Interrupt \/ \E w \in Workers : Build(w)
    PROVE  InOrder' /\ (at' \notin {"unwinding", "raised"} =>
                          at \notin {"unwinding", "raised"} /\ Handled' = Handled)
<1> DEFINE Same == at' \notin {"unwinding", "raised"} =>
                     at \notin {"unwinding", "raised"} /\ Handled' = Handled
<1>0. Items \in Nat /\ Depth \in Nat \ {0}
  <2>1. Depth \in Nat /\ Depth # 0
    BY PoolAssumption, PrefetchAssumption, FS_EmptySet, FS_CardinalityType DEF Depth
  <2>2. QED
    BY <2>1, PrefetchAssumption
<1> HIDE DEF Depth
<1> USE <1>0 DEF InOrder
<1>1. CASE Fill
  <2>1. /\ ~stopped /\ taken < Items /\ at \in {"filling", "refilling"}
        /\ taken' = taken + 1 /\ pending' = Append(pending, taken + 1)
        /\ UNCHANGED <<at, current, stopped>>
    BY <1>1 DEF Fill, Filling
  <2>2. Len(pending') = Len(pending) + 1 /\ pending' \in Seq(Nat) /\ Len(pending) \in Nat
    BY <2>1
  <2>3. \A i \in 1..Len(pending') : pending'[i] = current + i
    <3>1. taken = current + Len(pending) /\ taken \in Nat /\ current \in Nat
      BY <2>1
    <3>2. \A i \in 1..Len(pending') : i <= Len(pending) => pending'[i] = pending[i]
      BY <2>1, <2>2
    <3>3. pending'[Len(pending) + 1] = taken + 1
      BY <2>1, <2>2
    <3>4. QED
      BY <2>1, <2>2, <3>1, <3>2, <3>3
  <2>4. QED
    BY <2>1, <2>2, <2>3 DEF Handled
<1>2. CASE Filled
  <2>1. /\ at \in {"filling", "refilling"} /\ ~stopped
        /\ at' = (IF at = "filling" THEN "popping" ELSE "consuming")
        /\ Len(pending) >= Depth \/ taken = Items
        /\ UNCHANGED <<taken, pending, current, stopped>>
    BY <1>2 DEF Filled, Filling
  <2>2. pending # <<>> \/ taken = Items
    BY <2>1, <1>0
  <2>3. InOrder'
    BY <2>1, <2>2 DEF Points
  <2>4. QED
    BY <2>1, <2>3 DEF Handled
<1>3. CASE Pop
  <2>1. /\ at = "popping" /\ ~stopped /\ pending # <<>> /\ pending \in Seq(Nat)
        /\ current' = Head(pending) /\ pending' = Tail(pending) /\ at' = "waiting"
        /\ UNCHANGED <<taken, stopped>>
    BY <1>3 DEF Pop
  <2>2. /\ Len(pending) \in Nat /\ Len(pending) >= 1 /\ Head(pending) = pending[1]
        /\ Tail(pending) \in Seq(Nat) /\ Len(Tail(pending)) = Len(pending) - 1
        /\ \A i \in 1..(Len(pending) - 1) : Tail(pending)[i] = pending[i + 1]
    BY <2>1
  <2>3. current' = current + 1
    BY <2>1, <2>2
  <2>4. taken = current + Len(pending) /\ \A i \in 1..Len(pending) : pending[i] = current + i
    BY <2>1
  <2>5. \A i \in 1..Len(pending') : pending'[i] = current' + i
    BY <2>1, <2>2, <2>3, <2>4
  <2>6. taken' = current' + Len(pending') /\ current' \in 0..Items /\ current' > 0
    BY <2>1, <2>2, <2>3, <2>4
  <2>7. QED
    BY <2>1, <2>2, <2>3, <2>5, <2>6 DEF Handled, Points
<1>4. CASE Exhaust
  <2>1. /\ at = "popping" /\ ~stopped /\ pending = <<>> /\ at' = "closing"
        /\ UNCHANGED <<taken, pending, current, stopped>>
    BY <1>4 DEF Exhaust
  <2>2. taken = current + 0 /\ taken = Items
    BY <2>1
  <2>3. QED
    BY <2>1, <2>2 DEF Handled, Points
<1>5. CASE Await
  <2>1. /\ at = "waiting" /\ at' \in {"refilling", "unwinding"}
        /\ UNCHANGED <<taken, pending, current, stopped>>
    BY <1>5 DEF Await
  <2>2. QED
    BY <2>1 DEF Handled, Points
<1>6. CASE CancelPending
  <2>1. /\ at \in {"unwinding", "closing"} /\ stopped' = TRUE /\ pending' = <<>>
        /\ UNCHANGED <<at, taken, current>>
    BY <1>6 DEF CancelPending
  <2>2. QED
    BY <2>1 DEF Handled
<1>7. CASE StopPool \/ Join
  <2>1. /\ \/ at = "unwinding" /\ stopped /\ at' = "raised"
           \/ at = "closing" /\ stopped /\ at' = "joining"
           \/ at = "joining" /\ at' = "ended"
        /\ UNCHANGED <<taken, pending, current, stopped>>
    BY <1>7 DEF StopPool, Join
  <2>2. QED
    BY <2>1 DEF Handled, Points
<1>8. CASE Interrupt
  <2>1. at' = "unwinding" /\ UNCHANGED <<taken, pending, current, stopped>>
    BY <1>8 DEF Interrupt
  <2>2. QED
    BY <2>1 DEF Points
<1>9. CASE \E w \in Workers : Build(w)
  <2>1. UNCHANGED <<at, taken, pending, current, stopped>>
    BY <1>9 DEF Build, prefetchVars
  <2>2. QED
    BY <2>1 DEF Handled
<1>10. QED
  BY <1>1, <1>2, <1>3, <1>4, <1>5, <1>6, <1>7, <1>8, <1>9 DEF Consumer

\* What the invariants say of a step that leaves the stream, or begins another.
LEMMA StreamKept ==
    ASSUME InOrder, Sorted, UNCHANGED <<streamVars, rows, bad, served, before>>
    PROVE  InOrder' /\ Sorted'
BY DEF InOrder, Sorted, Handled, Refused, Accounts, streamVars, prefetchVars

\* A stream that begins has handled nothing.
LEMMA StreamAnew ==
    ASSUME Restream, served' = before', before' \in Nat
    PROVE  InOrder' /\ Sorted' /\ Refused' = {}
<1>1. /\ at' = "filling" /\ taken' = 0 /\ pending' = <<>> /\ current' = 0 /\ stopped' = FALSE
      /\ rows' = <<>> /\ bad' = <<>>
  BY DEF Restream, StreamReset
<1>2. Refused' = {}
  BY <1>1 DEF Refused, Accounts, Range
<1>3. InOrder'
  <2>1. pending' \in Seq(Nat) /\ Len(pending') = 0 /\ 0 \in 0..Items
    BY <1>1, PrefetchAssumption
  <2>2. at' = "filling" /\ taken' = 0 /\ current' = 0 /\ stopped' = FALSE
    BY <1>1
  <2>3. taken' = current' + Len(pending') /\ \A i \in 1..Len(pending') : pending'[i] = current' + i
    BY <2>1, <2>2
  <2>4. QED
    BY <2>1, <2>2, <2>3 DEF InOrder, Points
<1>4. Sorted'
  BY <1>1, <1>2, FS_EmptySet DEF Sorted, Handled
<1>5. QED
  BY <1>2, <1>3, <1>4

\* Its batch is sorted into rows and rejections, none of which was rejected before.
LEMMA BatchSorted ==
    ASSUME InOrder, Sorted, WriteBatch
    PROVE  InOrder' /\ Sorted'
<1>1. PICK refused \in SUBSET (Batch(current) \cap Rejectable) :
        /\ rows' = Append(rows, Batch(current) \ refused)
        /\ bad' = Append(bad, refused)
        /\ served' = served + Cardinality(refused)
  BY DEF WriteBatch
<1>2. /\ at = "consuming" /\ at' = "popping" /\ before' = before
      /\ UNCHANGED <<taken, pending, current, stopped>>
  BY DEF WriteBatch, Yielded
<1>3. InOrder'
  BY <1>2 DEF InOrder, Points
<1>4. /\ Len(bad) = current - 1 /\ Len(rows) = current - 1 /\ current \in Nat \ {0}
      /\ rows \in Seq(SUBSET Range(Ids)) /\ bad \in Seq(SUBSET Range(Ids))
  BY <1>2 DEF InOrder, Sorted, Handled
<1>5. Batch(current) \subseteq Range(Ids) /\ Rejectable \subseteq Range(Ids)
  BY ScoringAssumption DEF Batch, Range
<1>6. /\ rows' \in Seq(SUBSET Range(Ids)) /\ bad' \in Seq(SUBSET Range(Ids))
      /\ Len(rows') = current /\ Len(bad') = current
      /\ rows'[current] = Batch(current) \ refused /\ bad'[current] = refused
      /\ \A i \in 1..(current - 1) : rows'[i] = rows[i] /\ bad'[i] = bad[i]
  BY <1>1, <1>4, <1>5
<1>7. \A i \in 1..Len(bad') : rows'[i] = Batch(i) \ bad'[i] /\ bad'[i] \subseteq Batch(i)
  <2>1. TAKE i \in 1..Len(bad')
  <2>2. CASE i = current
    BY <1>1, <1>6, <2>2
  <2>3. CASE i # current
    <3>1. i \in 1..(current - 1) /\ i \in 1..Len(bad)
      BY <1>4, <1>6, <2>3
    <3>2. rows[i] = Batch(i) \ bad[i] /\ bad[i] \subseteq Batch(i)
      BY <3>1 DEF Sorted
    <3>3. rows'[i] = rows[i] /\ bad'[i] = bad[i]
      BY <1>6, <3>1
    <3>4. QED
      BY <3>2, <3>3
  <2>4. QED
    BY <2>2, <2>3
<1>8. Refused' = Refused \cup refused
  <2>1. DOMAIN bad = 1..(current - 1) /\ DOMAIN bad' = 1..current
    BY <1>4, <1>6
  <2>2. Range(bad') = Range(bad) \cup {refused}
    BY <1>4, <1>6, <2>1 DEF Range
  <2>3. QED
    BY <2>2 DEF Refused, Accounts
<1>9. Refused \cap refused = {}
  <2>1. SUFFICES ASSUME NEW i \in 1..(current - 1) PROVE bad[i] \cap refused = {}
    BY <1>4 DEF Refused, Accounts, Range
  <2>2. Batch(i) \cap Batch(current) = {}
    BY <1>4, BatchesApart
  <2>3. bad[i] \subseteq Batch(i)
    BY <1>4 DEF Sorted
  <2>4. QED
    BY <2>2, <2>3
<1>10. IsFiniteSet(refused)
  <2>1. IsFiniteSet(Range(Ids))
    <3>1. IsFiniteSet(1..Len(Ids)) /\ DOMAIN Ids = 1..Len(Ids)
      BY ScoringAssumption, FS_Interval
    <3>2. Range(Ids) = {Ids[k] : k \in 1..Len(Ids)}
      BY <3>1 DEF Range
    <3>3. Ids \in [1..Len(Ids) -> Range(Ids)]
      BY ScoringAssumption
    <3>4. Ids \in Surjection(1..Len(Ids), Range(Ids))
      BY <3>2, <3>3 DEF Surjection
    <3>5. QED
      BY <3>1, <3>4, FS_Surjection
  <2>2. QED
    BY <1>1, <1>5, <2>1, FS_Subset
<1>11. /\ IsFiniteSet(Refused')
       /\ Cardinality(Refused') = Cardinality(Refused) + Cardinality(refused)
  <2>1. IsFiniteSet(Refused) /\ Cardinality(Refused) \in Nat /\ Cardinality(refused) \in Nat
    BY <1>10, FS_CardinalityType DEF Sorted
  <2>2. QED
    BY <1>8, <1>9, <1>10, <2>1, FS_Union, FS_EmptySet
<1>12. served' = before' + Cardinality(Refused') /\ before' \in Nat
  <2>1. Cardinality(Refused) \in Nat /\ Cardinality(refused) \in Nat
    BY <1>10, FS_CardinalityType DEF Sorted
  <2>2. QED
    BY <1>1, <1>2, <1>11, <2>1 DEF Sorted
<1>13. Len(bad') = Handled'
  BY <1>2, <1>6 DEF Handled
<1>14. QED
  BY <1>3, <1>6, <1>7, <1>11, <1>12, <1>13 DEF Sorted

-----------------------------------------------------------------------------
(* The files. *)

\* The list of the rejected accounts: no file where there is none.
RejectedFile == IF Refused = {} THEN Missing ELSE Written(bad)

\* A file holds what was written to it.
LEMMA ContentWritten ==
    ASSUME NEW ids
    PROVE  Written(ids) # Missing /\ Content(Written(ids)) = ids
<1> DEFINE file == [by |-> commands, ids |-> ids]
<1>1. Written(ids) = {file} /\ file.ids = ids
  BY DEF Written
<1> HIDE DEF file
<1>2. (CHOOSE f \in {file} : TRUE) = file
  OBVIOUS
<1>3. Written(ids) # Missing
  BY <1>1 DEF Missing
<1>4. QED
  BY <1>1, <1>2, <1>3 DEF Content

\* Once the stream has ended, the rows and the list of those rejected are all the accounts,
\* and no mule is missing from the rows unless one was rejected.
LEMMA StreamComplete ==
    ASSUME InOrder, Sorted, at = "ended"
    PROVE  /\ Parts(rows, Content(RejectedFile))
           /\ Accounts(Content(RejectedFile)) = Refused
           /\ Refused \cap Mules = {} => Mules \subseteq Accounts(rows)
<1>1. /\ Len(rows) = Items /\ Len(bad) = Items /\ Items \in Nat
      /\ rows \in Seq(SUBSET Range(Ids)) /\ bad \in Seq(SUBSET Range(Ids))
      /\ \A i \in 1..Items : rows[i] = Batch(i) \ bad[i] /\ bad[i] \subseteq Batch(i)
  BY PrefetchAssumption DEF InOrder, Sorted, Handled
<1>2. DOMAIN rows = 1..Items /\ DOMAIN bad = 1..Items
  BY <1>1
<1>3. \A i \in 1..Items : bad[i] \subseteq Refused
  BY <1>2 DEF Refused, Accounts, Range
<1>4. Parts(rows, Content(RejectedFile)) /\ Accounts(Content(RejectedFile)) = Refused
  <2>1. CASE Refused = {}
    <3>1. Content(RejectedFile) = NothingOf
      BY <2>1 DEF RejectedFile, Content
    <3>2. Len(NothingOf) = Items /\ \A i \in 1..Items : NothingOf[i] = {}
      BY <1>1 DEF NothingOf
    <3>3. Parts(rows, NothingOf)
      <4>1. \A i \in 1..Items : rows[i] = Batch(i)
        BY <1>1, <1>3, <2>1
      <4>2. QED
        BY <1>1, <3>2, <4>1 DEF Parts
    <3>4. Accounts(NothingOf) = {}
      BY <1>1 DEF Accounts, NothingOf, Range
    <3>5. QED
      BY <2>1, <3>1, <3>3, <3>4
  <2>2. CASE Refused # {}
    <3>1. Content(RejectedFile) = bad
      BY <2>2, ContentWritten DEF RejectedFile
    <3>2. QED
      BY <1>1, <3>1 DEF Parts, Refused
  <2>3. QED
    BY <2>1, <2>2
<1>5. ASSUME Refused \cap Mules = {}, NEW a \in Mules PROVE a \in Accounts(rows)
  <2>1. PICK i \in 1..Items : a \in Batch(i)
    BY BatchesCover, ScoringAssumption
  <2>2. a \in rows[i]
    BY <1>1, <1>3, <1>5, <2>1
  <2>3. rows[i] \in Range(rows)
    BY <1>2 DEF Range
  <2>4. QED
    BY <2>2, <2>3 DEF Accounts
<1>6. QED
  BY <1>4, <1>5

-----------------------------------------------------------------------------
(* Every step keeps the files true. *)

\* Initially there are no files.
LEMMA InitScoring == Init => SInv
<1> SUFFICES ASSUME Init PROVE SInv
  OBVIOUS
<1>1. /\ at = "filling" /\ taken = 0 /\ pending = <<>> /\ current = 0 /\ stopped = FALSE
      /\ rows = <<>> /\ bad = <<>> /\ served = 0 /\ before = 0
      /\ step = "idle" /\ split = 0 /\ scores = NoScores /\ cut = FALSE
      /\ audits = [s \in DOMAIN Splits |-> NoAudit]
  BY DEF Init, ScoringInit, StreamInit
<1>2. InOrder
  <2>1. pending \in Seq(Nat) /\ Len(pending) = 0 /\ 0 \in 0..Items
    BY <1>1, PrefetchAssumption
  <2>2. taken = current + Len(pending) /\ \A i \in 1..Len(pending) : pending[i] = current + i
    BY <1>1, <2>1
  <2>3. QED
    BY <1>1, <2>1, <2>2 DEF InOrder, Points
<1>3. Refused = {}
  BY <1>1 DEF Refused, Accounts, Range
<1>4. Sorted
  BY <1>1, <1>3, FS_EmptySet DEF Sorted, Handled
<1>5. Staged /\ ScoreFiles /\ ScoresComplete /\ AuditFiles
  BY <1>1 DEF Staged, ScoreFiles, ScoresComplete, AuditFiles, NoScores
<1>6. FilesOfOneAudit
  BY <1>1 DEF FilesOfOneAudit, NoAudit, Missing
<1>7. QED
  BY <1>2, <1>4, <1>5, <1>6 DEF SInv

\* A step of a study, of the person or of the graph leaves the stream and the files alone.
LEMMA QuietInv ==
    ASSUME SInv, UNCHANGED <<streamVars, split, streamed, fileVars>>,
           (step' = step /\ commands' = commands) \/ {step, step'} \subseteq {"idle", "studying"}
    PROVE  SInv'
<1>1. UNCHANGED <<rows, bad, served, before, scores, audits, cut, at, split>>
  BY DEF streamed, fileVars, streamVars, prefetchVars
<1>2. InOrder' /\ Sorted'
  BY <1>1, StreamKept DEF SInv
<1>3. Staged' /\ ScoreFiles' /\ ScoresComplete'
  BY <1>1 DEF SInv, Staged, ScoreFiles, ScoresComplete, Written, ExceedsRejectionLimit, Refused
<1>4. AuditFiles' /\ FilesOfOneAudit'
  BY <1>1 DEF SInv, AuditFiles, FilesOfOneAudit, Written, Refused
<1>5. QED
  BY <1>2, <1>3, <1>4 DEF SInv

\* A command begins, or opens its files.
LEMMA BeginInv ==
    ASSUME IInv, SInv, StartScore \/ StartEvaluate \/ OpenOutputs
    PROVE  SInv'
<1> USE DEF SInv
<1>1. UNCHANGED <<streamVars, streamed, audits, cut>>
  BY DEF StartScore, StartEvaluate, OpenOutputs, fileVars
<1>2. InOrder' /\ Sorted' /\ UNCHANGED <<rows, bad, at>>
  BY <1>1, StreamKept DEF streamed, streamVars, prefetchVars
<1>3. FilesOfOneAudit'
  BY <1>1 DEF FilesOfOneAudit
<1>4. AuditFiles' /\ Staged' /\ ScoreFiles' /\ ScoresComplete'
  <2>1. CASE StartScore
    <3>1. step' = "resolving" /\ step = "idle" /\ split' = split /\ scores' = scores /\ scores = NoScores
      BY <2>1 DEF StartScore, Begin, CheckNewOutputs, fileVars
    <3>2. split = 0
      BY <3>1 DEF IInv, AuditsOnce
    <3>3. QED
      BY <1>1, <1>2, <3>1, <3>2 DEF AuditFiles, Staged, ScoreFiles, ScoresComplete, NoScores
  <2>2. CASE StartEvaluate
    <3>1. step' = "streaming" /\ step = "idle" /\ scores' = scores
      BY <2>2 DEF StartEvaluate, Begin, fileVars
    <3>2. split' \in {s \in 1..2 : audits[s].report = Missing}
      BY <2>2, TwoSplits, FirstSplit DEF StartEvaluate, NextSplit, Audited
    <3>3. QED
      BY <1>1, <1>2, <3>1, <3>2 DEF AuditFiles, Staged, ScoreFiles, ScoresComplete
  <2>3. CASE OpenOutputs
    <3>1. /\ step = "resolving" /\ step' = "streaming" /\ split' = split
          /\ commands' = commands
          /\ scores' = [scores EXCEPT !.pending = Written(<<>>), !.pending_rejected = Written(<<>>)]
      BY <2>3 DEF OpenOutputs
    <3>2. split = 0 /\ rows = <<>> /\ bad = <<>>
      BY <3>1 DEF IInv, AuditsOnce, Staged
    <3>3. /\ DOMAIN scores' = DOMAIN scores
          /\ scores'.output = scores.output /\ scores'.rejected = scores.rejected
          /\ scores'.pending = Written(rows) /\ scores'.pending_rejected = Written(bad)
      BY <3>1, <3>2 DEF ScoreFiles
    <3>4. QED
      BY <1>1, <1>2, <3>1, <3>2, <3>3
         DEF AuditFiles, Staged, ScoreFiles, ScoresComplete, Written
  <2>4. QED
    BY <2>1, <2>2, <2>3
<1>5. QED
  BY <1>2, <1>3, <1>4

\* The stream goes on.
LEMMA StreamInv ==
    ASSUME SInv, StreamStep \/ InterruptStep \/ \E w \in Workers : BuildStep(w)
    PROVE  SInv'
<1> USE DEF SInv
<1>1. /\ step = "streaming" /\ UNCHANGED <<step, split, commands, rows, bad, served, before>>
      /\ UNCHANGED <<scores, audits, cut>>
      /\ Consumer \/ Interrupt \/ \E w \in Workers : Build(w)
  BY DEF StreamStep, InterruptStep, BuildStep, commandVars, streamed, fileVars
<1>2. InOrder' /\ (at' \notin {"unwinding", "raised"} =>
                     at \notin {"unwinding", "raised"} /\ Handled' = Handled)
  BY <1>1, StreamInOrder
<1>3. Sorted'
  BY <1>1, <1>2 DEF Sorted, Refused
<1>4. Staged' /\ ScoreFiles' /\ ScoresComplete'
  BY <1>1 DEF Staged, ScoreFiles, ScoresComplete, Written
<1>5. AuditFiles' /\ FilesOfOneAudit'
  BY <1>1 DEF AuditFiles, FilesOfOneAudit
<1>6. QED
  BY <1>2, <1>3, <1>4, <1>5

\* The pending files of `mule score` follow the stream.
LEMMA WriteBatchInv ==
    ASSUME SInv, WriteBatch
    PROVE  SInv'
<1> USE DEF SInv
<1>1. /\ step = "streaming" /\ UNCHANGED <<step, split, commands, audits, cut>>
      /\ scores' = IF split # 0 THEN scores
                   ELSE [scores EXCEPT !.pending = Written(rows'), !.pending_rejected = Written(bad')]
  BY DEF WriteBatch, commandVars
<1>2. InOrder' /\ Sorted'
  BY BatchSorted
<1>3. /\ DOMAIN scores' = DOMAIN scores
      /\ scores'.output = scores.output /\ scores'.rejected = scores.rejected
      /\ split = 0 => scores'.pending = Written(rows') /\ scores'.pending_rejected = Written(bad')
  BY <1>1 DEF ScoreFiles
<1>4. Staged' /\ ScoreFiles' /\ ScoresComplete'
  BY <1>1, <1>3 DEF Staged, ScoreFiles, ScoresComplete, Written
<1>5. AuditFiles' /\ FilesOfOneAudit'
  BY <1>1 DEF AuditFiles, FilesOfOneAudit
<1>6. QED
  BY <1>2, <1>4, <1>5

\* A process ends; its stream is gone and its files stay true.
LEMMA ExitInv ==
    ASSUME Exit
    PROVE  InOrder' /\ Sorted' /\ Staged' /\ AuditFiles' /\ step' = "idle" /\ split' = 0
<1>1. /\ step' = "idle" /\ split' = 0 /\ Restream /\ served' = before' /\ before' \in Nat
      /\ rows' = <<>> /\ bad' = <<>>
  BY DEF Exit, Restream
<1>2. InOrder' /\ Sorted'
  BY <1>1, StreamAnew
<1>3. Staged' /\ AuditFiles'
  BY <1>1 DEF Staged, AuditFiles
<1>4. QED
  BY <1>1, <1>2, <1>3

\* `mule score` puts its files in place, and anything ends it.
LEMMA ScoreInv ==
    ASSUME IInv, SInv, ReplaceOutput \/ ReplaceRejected \/ Unwind \/ Kill
    PROVE  SInv'
<1> USE DEF SInv
<1>1. UNCHANGED audits
  BY DEF ReplaceOutput, ReplaceRejected, Unwind, Kill
<1>2. FilesOfOneAudit'
  BY <1>1 DEF FilesOfOneAudit
<1>3. CASE ReplaceOutput
  <2>1. /\ step = "streaming" /\ at = "ended" /\ split = 0 /\ step' = "replaced"
        /\ scores' = [scores EXCEPT !.output = scores.pending, !.pending = Missing]
        /\ UNCHANGED <<streamVars, commands, split, streamed, cut>>
    BY <1>3 DEF ReplaceOutput, Streamed
  <2>2. InOrder' /\ Sorted' /\ UNCHANGED <<rows, bad, at>>
    BY <2>1, StreamKept DEF streamed, streamVars, prefetchVars
  <2>3. /\ DOMAIN scores' = DOMAIN scores
        /\ scores'.output = Written(rows) /\ scores'.rejected = Missing
        /\ scores'.pending_rejected = Written(bad)
    BY <2>1 DEF ScoreFiles
  <2>4. ~cut
    BY <2>1 DEF ScoreFiles
  <2>5. Staged' /\ AuditFiles'
    BY <2>1, <2>2 DEF Staged, AuditFiles
  <2>6. ScoreFiles' /\ ScoresComplete'
    BY <2>1, <2>2, <2>3, <2>4 DEF ScoreFiles, ScoresComplete, Written, Missing
  <2>7. QED
    BY <1>2, <2>2, <2>5, <2>6
<1>4. CASE ReplaceRejected
  <2>1. /\ step = "replaced" /\ UNCHANGED cut /\ Exit
        /\ scores' = [scores EXCEPT !.rejected = IF Refused = {} THEN @ ELSE scores.pending_rejected,
                                    !.pending_rejected = Missing]
    BY <1>4 DEF ReplaceRejected
  <2>2. /\ scores.output = Written(rows) /\ scores.rejected = Missing /\ ~cut /\ split = 0
        /\ scores.pending_rejected = Written(bad) /\ at = "ended"
    BY <2>1 DEF ScoreFiles, Staged
  <2>3. /\ DOMAIN scores' = DOMAIN scores
        /\ scores'.output = Written(rows) /\ scores'.rejected = RejectedFile
    BY <2>1, <2>2 DEF ScoreFiles, RejectedFile
  <2>4. Parts(Content(Written(rows)), Content(RejectedFile))
    BY <2>2, StreamComplete, ContentWritten
  <2>5. \A o \in Written(rows), r \in RejectedFile : o.by = r.by
    BY DEF Written, RejectedFile, Missing
  <2>6. ScoresComplete'
    BY <2>1, <2>2, <2>3, <2>4, <2>5 DEF ScoresComplete
  <2>7. ScoreFiles'
    BY <2>1, <2>2, <2>3, ExitInv DEF ScoreFiles
  <2>8. QED
    BY <1>2, <2>1, <2>6, <2>7, ExitInv
<1>5. CASE Unwind \/ Kill
  <2>1. /\ Exit /\ cut' = (cut \/ (step = "replaced" /\ Refused # {}))
        /\ \/ scores' = scores
           \/ scores' = [scores EXCEPT !.pending = Missing, !.pending_rejected = Missing]
    BY <1>5 DEF Unwind, Kill
  <2>2. /\ DOMAIN scores' = DOMAIN scores
        /\ scores'.output = scores.output /\ scores'.rejected = scores.rejected
    BY <2>1 DEF ScoreFiles
  <2>3. step' = "idle" /\ split' = 0
    BY <2>1, ExitInv
  <2>4. ScoreFiles' /\ ScoresComplete'
    <3>1. CASE step = "replaced"
      <4>1. /\ scores.output = Written(rows) /\ scores.rejected = Missing /\ ~cut /\ at = "ended"
        BY <3>1 DEF ScoreFiles, Staged
      <4>2. Written(rows) # Missing /\ Content(Written(rows)) = rows
        BY ContentWritten
      <4>3. Refused = {} => Parts(rows, Content(Missing))
        BY <4>1, StreamComplete DEF RejectedFile
      <4>4. ScoresComplete'
        BY <2>1, <2>2, <2>3, <3>1, <4>1, <4>2, <4>3 DEF ScoresComplete, Missing
      <4>5. ScoreFiles'
        BY <2>1, <2>2, <2>3, <3>1, <4>1, <4>2 DEF ScoreFiles
      <4>6. QED
        BY <4>4, <4>5
    <3>2. CASE step # "replaced"
      BY <2>1, <2>2, <2>3, <3>2 DEF ScoreFiles, ScoresComplete
    <3>3. QED
      BY <3>1, <3>2
  <2>5. QED
    BY <1>2, <2>1, <2>4, ExitInv
<1>6. QED
  BY <1>3, <1>4, <1>5

\* The person removes what a kill left, or moves the scores away.
LEMMA PersonInv ==
    ASSUME IInv, SInv, RemovePending \/ MoveScoresAside
    PROVE  SInv'
<1> USE DEF SInv
<1>1. /\ step = "idle" /\ UNCHANGED <<streamVars, commands, step, split, streamed, audits>>
  BY DEF RemovePending, MoveScoresAside, commandVars
<1>2. InOrder' /\ Sorted' /\ UNCHANGED <<rows, bad, at>>
  BY <1>1, StreamKept DEF streamed, streamVars, prefetchVars
<1>3. Staged' /\ AuditFiles' /\ FilesOfOneAudit'
  BY <1>1, <1>2 DEF Staged, AuditFiles, FilesOfOneAudit
<1>4. ScoreFiles' /\ ScoresComplete'
  <2>1. CASE RemovePending
    <3>1. /\ DOMAIN scores' = DOMAIN scores /\ cut' = cut
          /\ scores'.output = scores.output /\ scores'.rejected = scores.rejected
      BY <2>1 DEF RemovePending, ScoreFiles
    <3>2. QED
      BY <1>1, <3>1 DEF ScoreFiles, ScoresComplete
  <2>2. CASE MoveScoresAside
    <3>1. /\ DOMAIN scores' = DOMAIN scores /\ cut' = FALSE /\ scores'.output = Missing
      BY <2>2 DEF MoveScoresAside, ScoreFiles
    <3>2. QED
      BY <1>1, <3>1 DEF ScoreFiles, ScoresComplete
  <2>3. QED
    BY <2>1, <2>2
<1>5. QED
  BY <1>2, <1>3, <1>4

\* `mule evaluate` writes the scores and the list of an audit, or gives up before.
LEMMA AuditInv ==
    ASSUME IInv, SInv, FailCensored \/ WriteScores \/ WriteRejected
    PROVE  SInv'
<1> USE DEF SInv
<1>1. CASE FailCensored
  <2>1. Exit /\ UNCHANGED <<scores, audits, cut>> /\ step # "replaced"
    BY <1>1 DEF FailCensored, fileVars, Streamed
  <2>2. ScoreFiles' /\ ScoresComplete' /\ FilesOfOneAudit'
    BY <2>1, ExitInv DEF ScoreFiles, ScoresComplete, FilesOfOneAudit
  <2>3. QED
    BY <2>1, <2>2, ExitInv
<1>2. CASE WriteScores \/ WriteRejected
  <2>1. /\ UNCHANGED <<streamVars, commands, split, streamed, scores, cut>>
        /\ split # 0 /\ split \in 1..2 /\ at = "ended" /\ ~ExceedsRejectionLimit
        /\ step \in {"streaming", "scored"} /\ audits[split].report = Missing
    BY <1>2 DEF WriteScores, WriteRejected, Streamed, Staged, IInv, Shape, AuditsOnce
  <2>2. InOrder' /\ Sorted' /\ UNCHANGED <<rows, bad, at>>
    BY <2>1, StreamKept DEF streamed, streamVars, prefetchVars
  <2>3. /\ \A s \in 1..2 \ {split} : audits'[s] = audits[s]
        /\ audits'[split].report = Missing
        /\ \/ step' = "scored" /\ audits'[split].scores = Written(rows)
           \/ /\ step = "scored" /\ step' = "listed"
              /\ audits'[split].scores = audits[split].scores
              /\ audits'[split].rejected = IF Refused = {} THEN Missing ELSE Written(bad)
    BY <1>2, <2>1 DEF WriteScores, WriteRejected, IInv, Shape
  <2>4. Staged' /\ ScoreFiles' /\ ScoresComplete'
    BY <2>1, <2>2, <2>3 DEF Staged, ScoreFiles, ScoresComplete, ExceedsRejectionLimit, Refused
  <2>5. AuditFiles'
    BY <2>1, <2>2, <2>3 DEF AuditFiles, Written, Refused
  <2>6. FilesOfOneAudit'
    BY <2>3, TwoSplits DEF FilesOfOneAudit, Missing
  <2>7. QED
    BY <2>2, <2>4, <2>5, <2>6
<1>3. QED
  BY <1>1, <1>2

\* The report completes an audit.
LEMMA WriteReportInv ==
    ASSUME IInv, SInv, WriteReport
    PROVE  SInv'
<1> USE DEF SInv
<1> DEFINE report == [by |-> commands, rejected |-> Cardinality(Refused), served |-> Served]
<1>1. /\ step = "listed" /\ UNCHANGED <<scores, cut>>
      /\ audits' = [audits EXCEPT ![split].report = {report}]
  BY DEF WriteReport
<1>2. /\ split \in 1..2 /\ at = "ended" /\ ~ExceedsRejectionLimit
      /\ audits[split].scores = Written(rows) /\ audits[split].rejected = RejectedFile
  BY <1>1 DEF Staged, AuditFiles, IInv, Shape, RejectedFile
<1>3. /\ \A s \in 1..2 \ {split} : audits'[s] = audits[s]
      /\ audits'[split].report = {report}
      /\ audits'[split].scores = Written(rows) /\ audits'[split].rejected = RejectedFile
  BY <1>1, <1>2 DEF IInv, Shape
<1>4. Served = Cardinality(Refused) /\ Cardinality(Refused) \in Nat
  BY FS_CardinalityType DEF Sorted, Served
<1>5. /\ \A f \in Written(rows) \cup RejectedFile : f.by = commands
      /\ Parts(Content(Written(rows)), Content(RejectedFile))
      /\ Accounts(Content(RejectedFile)) = Refused
      /\ Mules \subseteq Accounts(Content(Written(rows)))
  <2>1. \A f \in Written(rows) \cup RejectedFile : f.by = commands
    BY DEF Written, RejectedFile, Missing
  <2>2. Refused \cap Mules = {}
    BY <1>2 DEF ExceedsRejectionLimit
  <2>3. QED
    BY <1>2, <2>1, <2>2, StreamComplete, ContentWritten
<1>6. Cardinality(Refused) <= Limit
  BY <1>2, <1>4, ScoringAssumption DEF ExceedsRejectionLimit
<1>7. FilesOfOneAudit'
  <2>1. ASSUME NEW s \in 1..2, NEW r \in audits'[s].report
        PROVE  /\ \A f \in audits'[s].scores \cup audits'[s].rejected : f.by = r.by
               /\ Parts(Content(audits'[s].scores), Content(audits'[s].rejected))
               /\ Cardinality(Accounts(Content(audits'[s].rejected))) = r.rejected
               /\ r.rejected <= Limit /\ r.served = r.rejected
               /\ Mules \subseteq Accounts(Content(audits'[s].scores))
    <3>1. CASE s = split
      <4>1. /\ r.by = commands /\ r.rejected = Cardinality(Refused)
            /\ r.served = Cardinality(Refused)
        BY <1>3, <1>4, <2>1, <3>1
      <4>2. QED
        BY <1>3, <1>5, <1>6, <3>1, <4>1
    <3>2. CASE s # split
      BY <1>3, <2>1, <3>2, TwoSplits DEF FilesOfOneAudit
    <3>3. QED
      BY <3>1, <3>2
  <2>2. QED
    BY <2>1, TwoSplits DEF FilesOfOneAudit
<1>8. CASE Exit
  <2>1. ScoreFiles' /\ ScoresComplete'
    BY <1>1, <1>8, ExitInv DEF ScoreFiles, ScoresComplete
  <2>2. QED
    BY <1>7, <1>8, <2>1, ExitInv
<1>9. CASE ~Exit
  <2>1. /\ split' \in {s \in 1..2 : s # split /\ audits[s].report = Missing}
        /\ step' = "streaming" /\ before' = served /\ served' = served /\ Restream
    BY <1>9, TwoSplits, FirstSplit DEF WriteReport, Audited
  <2>2. served \in Nat
    BY FS_CardinalityType DEF Sorted
  <2>3. InOrder' /\ Sorted'
    BY <2>1, <2>2, StreamAnew
  <2>4. Staged' /\ AuditFiles' /\ ScoreFiles' /\ ScoresComplete'
    BY <1>1, <2>1 DEF Staged, AuditFiles, ScoreFiles, ScoresComplete
  <2>5. QED
    BY <1>7, <2>3, <2>4
<1>10. QED
  BY <1>8, <1>9

\* Every step keeps the invariant of the commands that score.
LEMMA NextScoring == IInv /\ SInv /\ [Next]_vars => SInv'
<1> SUFFICES ASSUME IInv, SInv, [Next]_vars PROVE SInv'
  OBVIOUS
<1>1. CASE Scored
  BY <1>1, BeginInv, StreamInv, WriteBatchInv, ScoreInv, PersonInv, AuditInv, WriteReportInv
     DEF Scored, ScoringNext, Command
<1>2. CASE ~Scored
  <2>1. /\ UNCHANGED <<streamVars, split, streamed, fileVars>>
        /\ (step' = step /\ commands' = commands) \/ {step, step'} \subseteq {"idle", "studying"}
    BY <1>2
       DEF Next, Study, StartStudy, Begin, KeepFeatures, CheckSource, ReadTruth, ReadInputs,
           ReadSplit, Remember, WantsTruth, WantsInputs, BuildsFeatures, NeedsFrame, Working,
           BuildFeatures, Built, WriteTable, Computable, Analysed, Done, Record, Fails, KillStudy, Upgrade, Ingest, vars, scoringVars, commandVars
  <2>2. QED
    BY <2>1, QuietInv
<1>3. QED
  BY <1>1, <1>2

-----------------------------------------------------------------------------
\* Between two commands study.json agrees with the tables, the tables with each other and
\* with the audits they were computed from, and nothing that they or the feature table they
\* were computed from hold was read from the source that the graph became, unless by the one
\* call that was at work when it changed: whichever calls fail or are killed, for every plan
\* of commands.
THEOREM StudyCorrect == Spec => []StudyTrue
<1>1. IInv => StudyTrue
  BY DEF IInv, Accounted, Agrees, Studying, StudyTrue, Idle, RecordedAsWritten
<1>2. QED
  BY <1>1, InitInv, NextInv, PTL DEF Spec

\* Scores in place hold every account that was not rejected, batch after batch, beside their
\* own list of the others, however many commands were run, whichever builds failed, and
\* wherever commands were interrupted or killed, except between the two replacements.
THEOREM ScoresCorrect == Spec => []ScoresComplete
<1>1. IInv /\ SInv /\ [Next]_vars => IInv' /\ SInv'
  BY NextInv, NextScoring
<1>2. SInv => ScoresComplete
  BY DEF SInv
<1>3. QED
  BY <1>1, <1>2, InitInv, InitScoring, PTL DEF Spec

\* An audit's report stands beside the scores and the list of its own sample, counts that
\* sample's rejections, and no mule was rejected, whatever earlier audits left behind.
THEOREM AuditsOfOneCommand == Spec => []FilesOfOneAudit
<1>1. IInv /\ SInv /\ [Next]_vars => IInv' /\ SInv'
  BY NextInv, NextScoring
<1>2. SInv => FilesOfOneAudit
  BY DEF SInv
<1>3. QED
  BY <1>1, <1>2, InitInv, InitScoring, PTL DEF Spec
=============================================================================
