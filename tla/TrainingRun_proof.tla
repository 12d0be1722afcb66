--------------------------- MODULE TrainingRun_proof ---------------------------
(***************************************************************************)
(* Proofs about TrainingRun: whatever its processes were started with and  *)
(* wherever they ended, resume.pt holds what a run without interruption    *)
(* has at its position, history.csv tiles the steps up to there, and a     *)
(* complete run has the files of one such run.                             *)
(***************************************************************************)
EXTENDS TrainingRun, FiniteSetTheorems, WellFoundedInduction, TLAPS

-------------------------------------------------------------------------------
(* The inductive invariant. *)

\* The phases in which a state is complete, and those inside an epoch.
Between == {"opening", "trimming", "recording", "epoch", "checkpoint", "model", "validation",
            "test"}

Inside == {"step", "logging", "saving"}

\* The value to beat after n epochs.
BestValue(n) == IF Best(n) = 0 THEN 0 ELSE curve[Best(n)]

\* The state of an uninterrupted run at a position: its generator, and its sums over the
\* steps of an epoch.
At(given, n, m, rng, recent) ==
    [given |-> given, epoch |-> n, step |-> m, stopped |-> Stops(n), rng |-> rng,
     weights |-> Weights(given, TrainedAmong(Before(n, m))),
     updates |-> Cardinality(TrainedAmong(Before(n, m))),
     loss_steps |-> Cardinality(TrainedAmong(recent)),
     best_epoch |-> Best(n),
     best_value |-> BestValue(n),
     rows |-> StraightRows(n),
     batches |-> n * (Steps + 1) + m,
     requested |-> Batch * Cardinality(Before(n, m)),
     rejected |-> LostAmong(Before(n, m)),
     epoch_rejected |-> LostAmong(recent)]

\* Inside an epoch its draws are made and its sums are those of this epoch.
During(given, n, m) == At(given, n, m, n + 1, EpochSteps(n, m))

\* A position that an uninterrupted run reaches.
Reached(n, m) ==
    /\ n \in 0..Epochs /\ m \in 0..Steps
    /\ \A i \in 1..(n - 1) : ~Stops(i)
    /\ m > 0 => n < Epochs /\ ~Stops(n)

Exact(state) ==
    /\ Reached(state.epoch, state.step)
    /\ state = Straight(state.given, state.epoch, state.step)

ExactDuring(state) ==
    /\ Reached(state.epoch, state.step) /\ state.epoch < Epochs /\ ~Stops(state.epoch)
    /\ state = During(state.given, state.epoch, state.step)

Inputs ==
    /\ curve \in [1..Epochs -> Values]
    /\ lost \in Rejections
    /\ phase \in {"down"} \cup Between \cup Inside

\* What is in memory.
RunExact ==
    /\ phase \in Between => Exact(run) /\ epoch_rng = run.rng
    /\ phase \in Inside => ExactDuring(run) /\ epoch_rng = run.epoch
    /\ phase \in {"logging", "saving"} => run.step > 0
    /\ phase = "checkpoint" => run.step = 0 /\ run.epoch > 0

\* What is in resume.pt, and how it relates to memory and to config.json.
ResumeExact ==
    /\ Saved => /\ Exact(resume) /\ resume.given = config
                /\ resume.epoch > 0 \/ resume.step > 0
    /\ phase \in Between \ {"checkpoint"} =>
         IF Saved THEN run = resume ELSE run.epoch = 0 /\ run.step = 0
    /\ phase \notin {"down", "opening"} => config = run.given

HistoryRows ==
    [epoch : 1..Epochs, step : 1..Steps, trained : Nat, rejected : Nat, torn : BOOLEAN]

Earlier(row, later) ==
    row.epoch < later.epoch \/ (row.epoch = later.epoch /\ row.step < later.step)

\* history.csv at any time: its rows tile, only the last may be torn.
Table(rows) ==
    /\ rows \in Seq(HistoryRows)
    /\ \A i \in 1..Len(rows) : rows[i].torn \/ Tiles(rows, i)
    /\ \A i, j \in 1..Len(rows) : i < j => ~rows[i].torn
    /\ \A i, j \in 1..Len(rows) : i < j /\ ~rows[j].torn => Earlier(rows[i], rows[j])

Whole(rows) == \A i \in 1..Len(rows) : ~rows[i].torn

\* The row that ends at a position.
IsAt(row, n, m) ==
    /\ ~row.torn
    /\ IF m = 0 THEN row.epoch = n /\ row.step = Steps ELSE row.epoch = n + 1 /\ row.step = m

\* The table ends at a position.
EndsAt(rows, n, m) ==
    IF n = 0 /\ m = 0 THEN rows = <<>>
    ELSE Len(rows) > 0 /\ IsAt(rows[Len(rows)], n, m)

\* In some phase, at step m of epoch n, the interval under way begins where the table ends.
IntervalAt(where, n, m, rows, count, from) ==
    /\ from \in 0..m
    /\ EndsAt(rows, n, from)
    /\ count = Cardinality(TrainedAmong({n} \X (from..(m - 1))))
    /\ where = "logging" => from < m
    /\ where = "saving" => from = m
    /\ where = "step" /\ m = Steps => from = Steps

IntervalFrom(from) == IntervalAt(phase, run.epoch, run.step, history.rows, interval, from)

HistoryExact ==
    /\ Table(history.rows)
    /\ Saved => \E i \in 1..Len(history.rows) : IsAt(history.rows[i], resume.epoch, resume.step)
    /\ phase \notin {"down", "opening", "trimming"} => Whole(history.rows)
    /\ phase \in Between \ {"opening", "trimming"} =>
         EndsAt(history.rows, run.epoch, run.step)
    /\ phase \in Inside => \E from : IntervalFrom(from)

EpochsFile(state) == [rows |-> state.rows, selected |-> state.best_epoch]

\* The outputs that are there in each phase of the end.
Done == [model |-> {"model"}, validation |-> {"model", "validation"},
         test |-> {"model", "validation", "test"}]

Ended(state) == state.step = 0 /\ state.epoch > 0 /\ (state.epoch = Epochs \/ state.stopped)

OutputsExact ==
    /\ outputs = [o \in Outputs |-> outputs[o]]
    /\ phase # "down" => ~Complete
    /\ phase \in {"epoch"} \cup DOMAIN Done /\ run.epoch > 0 => epochs = EpochsFile(run)
    /\ phase \in DOMAIN Done =>
         /\ Ended(run)
         /\ \A o \in Done[phase] : outputs[o] = Written(o, run)
    /\ Complete =>
         /\ Saved /\ Ended(resume)
         /\ \A o \in Outputs : outputs[o] = Written(o, resume)
         /\ epochs = EpochsFile(resume)
         /\ EndsAt(history.rows, resume.epoch, resume.step)

IInv == Inputs /\ RunExact /\ ResumeExact /\ HistoryExact /\ OutputsExact

-------------------------------------------------------------------------------
(* The inputs stay as they are, and so does all that is computed from them. *)

\* The selection values and the rejected roots never change, so the uninterrupted run that
\* they define does not either.
LEMMA SameInputs ==
    ASSUME inputs' = inputs
    PROVE  /\ curve' = curve /\ lost' = lost
           /\ \A n : Best(n)' = Best(n)
           /\ \A n : Stops(n)' = Stops(n)
           /\ Last' = Last
           /\ \A S : TrainedAmong(S)' = TrainedAmong(S)
           /\ \A S : LostAmong(S)' = LostAmong(S)
           /\ \A n : StraightRows(n)' = StraightRows(n)
           /\ \A g, n, m : Straight(g, n, m)' = Straight(g, n, m)
<1>1. curve' = curve /\ lost' = lost
  BY DEF inputs
<1>2. \A n : Best(n)' = Best(n)
  BY <1>1 DEF Best
<1>3. \A n : Stops(n)' = Stops(n)
  BY <1>2 DEF Stops
<1>4. Last' = Last
  BY <1>3 DEF Last
<1>5. \A S : TrainedAmong(S)' = TrainedAmong(S)
  BY <1>1 DEF TrainedAmong
<1>6. \A S : LostAmong(S)' = LostAmong(S)
  BY <1>1 DEF LostAmong, LostRoots
<1>7. \A n : StraightRows(n)' = StraightRows(n)
  BY <1>1, <1>3, <1>5 DEF StraightRows, StraightRow
<1>8. \A g, n, m : Straight(g, n, m)' = Straight(g, n, m)
  <2> TAKE g, n, m
  <2>1. Before(n, m)' = Before(n, m) /\ Recent(n, m)' = Recent(n, m)
    BY DEF Before, Recent, EpochSteps
  <2>2. QED
    BY <1>1, <1>2, <1>3, <1>5, <1>6, <1>7, <2>1 DEF Straight
<1>9. QED
  BY <1>1, <1>2, <1>3, <1>4, <1>5, <1>6, <1>7, <1>8

-------------------------------------------------------------------------------
(* Steps and what they lose. *)

Positions == (0..(Epochs - 1)) \X (0..(Steps - 1))

\* A step loses no more roots than it has.
LEMMA LostType ==
    ASSUME Inputs, NEW p \in Positions
    PROVE  lost.training[p].roots \in 0..Batch
BY RunAssumption DEF Inputs, Positions, Lost

\* One more step trains once if a root is left, and loses its own roots.
LEMMA AddStep ==
    ASSUME Inputs, NEW S \in SUBSET Positions, IsFiniteSet(S), NEW p \in Positions, p \notin S
    PROVE  LET more == S \cup {p}
               kept == lost.training[p].roots < Batch
           IN /\ Cardinality(more) = Cardinality(S) + 1
              /\ TrainedAmong(more) = IF kept THEN TrainedAmong(S) \cup {p} ELSE TrainedAmong(S)
              /\ Cardinality(TrainedAmong(more)) =
                   Cardinality(TrainedAmong(S)) + IF kept THEN 1 ELSE 0
              /\ LostAmong(more) = LostAmong(S) + lost.training[p].roots
<1> DEFINE more == S \cup {p}
           roots == lost.training[p].roots
<1>1. Batch \in Nat /\ roots \in Nat /\ roots <= Batch
  BY LostType, RunAssumption
<1>2. IsFiniteSet(TrainedAmong(S)) /\ Cardinality(TrainedAmong(S)) \in Nat
  BY FS_Subset, FS_CardinalityType DEF TrainedAmong
<1>3. TrainedAmong(more) = IF roots < Batch THEN TrainedAmong(S) \cup {p} ELSE TrainedAmong(S)
  BY DEF TrainedAmong
<1>4. p \notin TrainedAmong(S)
  BY DEF TrainedAmong
<1>5. Cardinality(TrainedAmong(more)) =
        Cardinality(TrainedAmong(S)) + IF roots < Batch THEN 1 ELSE 0
  <2>1. /\ IsFiniteSet(TrainedAmong(S) \cup {p})
        /\ Cardinality(TrainedAmong(S) \cup {p}) = Cardinality(TrainedAmong(S)) + 1
    BY <1>2, <1>4, FS_AddElement
  <2> HIDE DEF more, roots
  <2>2. QED
    BY <1>2, <1>3, <2>1
<1>6. Cardinality(more) = Cardinality(S) + 1
  BY FS_AddElement
<1>7. LostRoots(more) = LostRoots(S) \cup ({p} \X (1..roots))
  <2>1. {r \in {p} \X (1..Batch) : r[2] <= lost.training[r[1]].roots} = {p} \X (1..roots)
    BY <1>1
  <2>2. LostRoots(more) = LostRoots(S) \cup
                            {r \in {p} \X (1..Batch) : r[2] <= lost.training[r[1]].roots}
    BY DEF LostRoots
  <2>3. QED
    BY <2>1, <2>2
<1>8. IsFiniteSet(LostRoots(S)) /\ Cardinality(LostRoots(S)) \in Nat
  <2>1. IsFiniteSet(1..Batch)
    BY <1>1, FS_Interval
  <2>2. IsFiniteSet(S \X (1..Batch))
    BY <2>1, FS_Product
  <2>3. LostRoots(S) \in SUBSET (S \X (1..Batch))
    BY DEF LostRoots
  <2>4. QED
    BY <2>2, <2>3, FS_Subset, FS_CardinalityType
<1>9. IsFiniteSet({p} \X (1..roots)) /\ Cardinality({p} \X (1..roots)) = roots
  <2>1. IsFiniteSet(1..roots) /\ Cardinality(1..roots) = roots
    <3> HIDE DEF roots
    <3>1. 1 \in Int /\ roots \in Int
      BY <1>1
    <3>2. /\ IsFiniteSet(1..roots)
          /\ Cardinality(1..roots) = IF 1 > roots THEN 0 ELSE roots - 1 + 1
      BY <3>1, FS_Interval
    <3>3. QED
      BY <1>1, <3>2
  <2>2. IsFiniteSet({p}) /\ Cardinality({p}) = 1
    BY FS_Singleton
  <2>3. Cardinality({p} \X (1..roots)) = Cardinality({p}) * Cardinality(1..roots)
    BY <2>1, <2>2, FS_Product
  <2>4. IsFiniteSet({p} \X (1..roots))
    BY <2>1, <2>2, FS_Product
  <2>5. QED
    BY <1>1, <2>1, <2>2, <2>3, <2>4
<1>10. LostRoots(S) \cap ({p} \X (1..roots)) = {}
  BY DEF LostRoots
<1>11. Cardinality(LostRoots(more)) = Cardinality(LostRoots(S)) + roots
  <2>1. Cardinality(LostRoots(S) \cap ({p} \X (1..roots))) = 0
    BY <1>10, FS_EmptySet
  <2>2. Cardinality(LostRoots(S) \cup ({p} \X (1..roots))) =
          Cardinality(LostRoots(S)) + Cardinality({p} \X (1..roots))
            - Cardinality(LostRoots(S) \cap ({p} \X (1..roots)))
    BY <1>8, <1>9, FS_Union
  <2> HIDE DEF more, roots
  <2>3. QED
    BY <1>1, <1>7, <1>8, <1>9, <2>1, <2>2
<1>12. QED
  BY <1>3, <1>5, <1>6, <1>11 DEF LostAmong

\* No step trains or loses nothing.
LEMMA NoSteps ==
    /\ IsFiniteSet({}) /\ Cardinality({}) = 0
    /\ TrainedAmong({}) = {} /\ Cardinality(TrainedAmong({})) = 0 /\ LostAmong({}) = 0
<1>1. TrainedAmong({}) = {} /\ LostRoots({}) = {}
  BY DEF TrainedAmong, LostRoots
<1>2. QED
  BY <1>1, FS_EmptySet DEF LostAmong

\* The steps before a position, one position on and one epoch on.
LEMMA StepsBefore ==
    ASSUME NEW n \in 0..(Epochs - 1), NEW m \in 0..Steps
    PROVE  /\ Before(0, 0) = {} /\ Recent(0, 0) = {} /\ EpochSteps(n, 0) = {}
           /\ Before(n, m) \in SUBSET Positions /\ IsFiniteSet(Before(n, m))
           /\ EpochSteps(n, m) \in SUBSET Positions /\ IsFiniteSet(EpochSteps(n, m))
           /\ m > 0 => Recent(n, m) = EpochSteps(n, m)
           /\ Before(n + 1, 0) = Before(n, Steps)
           /\ Recent(n + 1, 0) = EpochSteps(n, Steps)
           /\ m < Steps =>
                /\ <<n, m>> \in Positions
                /\ <<n, m>> \notin Before(n, m) /\ <<n, m>> \notin EpochSteps(n, m)
                /\ Before(n, m + 1) = Before(n, m) \cup {<<n, m>>}
                /\ EpochSteps(n, m + 1) = EpochSteps(n, m) \cup {<<n, m>>}
<1>1. Epochs \in Nat \ {0} /\ Steps \in Nat \ {0} /\ n \in Nat /\ m \in Nat /\ n < Epochs
      /\ m <= Steps
  BY RunAssumption
<1>2. Before(0, 0) = {} /\ Recent(0, 0) = {} /\ EpochSteps(n, 0) = {}
  <2>1. 0..(0 - 1) = {}
    OBVIOUS
  <2>2. QED
    BY <2>1 DEF Before, Recent, EpochSteps
<1>3. Before(n, m) \in SUBSET Positions /\ EpochSteps(n, m) \in SUBSET Positions
  BY <1>1 DEF Before, EpochSteps, Positions
<1>4. IsFiniteSet(Positions)
  <2>1. IsFiniteSet(0..(Epochs - 1)) /\ IsFiniteSet(0..(Steps - 1))
    BY <1>1, FS_Interval
  <2>2. QED
    BY <2>1, FS_Product DEF Positions
<1>5. IsFiniteSet(Before(n, m)) /\ IsFiniteSet(EpochSteps(n, m))
  BY <1>3, <1>4, FS_Subset
<1>6. m > 0 => Recent(n, m) = EpochSteps(n, m)
  BY <1>1 DEF Recent, Before, EpochSteps
<1>7. Before(n + 1, 0) = Before(n, Steps)
  <2>1. 0..((n + 1) - 1) = (0..(n - 1)) \cup {n} /\ 0..(0 - 1) = {}
    BY <1>1
  <2>2. QED
    BY <1>1, <2>1 DEF Before, EpochSteps
<1>8. Recent(n + 1, 0) = EpochSteps(n, Steps)
  BY <1>1, <1>7 DEF Recent, Before, EpochSteps
<1>9. ASSUME m < Steps
      PROVE  /\ <<n, m>> \in Positions
             /\ <<n, m>> \notin Before(n, m) /\ <<n, m>> \notin EpochSteps(n, m)
             /\ Before(n, m + 1) = Before(n, m) \cup {<<n, m>>}
             /\ EpochSteps(n, m + 1) = EpochSteps(n, m) \cup {<<n, m>>}
  <2>1. 0..((m + 1) - 1) = (0..(m - 1)) \cup {m}
    BY <1>1
  <2>2. EpochSteps(n, m + 1) = EpochSteps(n, m) \cup {<<n, m>>}
    BY <2>1 DEF EpochSteps
  <2>3. <<n, m>> \in Positions
    BY <1>1, <1>9 DEF Positions
  <2>4. <<n, m>> \notin Before(n, m) /\ <<n, m>> \notin EpochSteps(n, m)
    BY <1>1 DEF Before, EpochSteps
  <2>5. QED
    BY <2>2, <2>3, <2>4 DEF Before
<1>10. QED
  BY <1>2, <1>3, <1>5, <1>6, <1>7, <1>8, <1>9

-------------------------------------------------------------------------------
(* The best epoch and the last one. *)

\* A set of naturals that is not empty has a least one.
LEMMA Least ==
    ASSUME NEW S \in SUBSET Nat, S # {}
    PROVE  \E m \in S : \A k \in S : m <= k
<1> DEFINE T == {0..k : k \in S}
<1>1. T \subseteq FiniteSubsetsOf(Nat)
  <2>1. \A k \in Nat : IsFiniteSet(0..k)
    BY FS_Interval
  <2>2. QED
    BY <2>1 DEF FiniteSubsetsOf
<1>2. PICK x \in T : \A y \in T : <<y, x>> \notin StrictSubsetOrdering(Nat)
  <2>1. IsWellFoundedOn(StrictSubsetOrdering(Nat), FiniteSubsetsOf(Nat))
    BY FS_StrictSubsetOrderingWellFounded
  <2>2. T # {}
    OBVIOUS
  <2> HIDE DEF T
  <2>3. QED
    BY <1>1, <2>1, <2>2, WFMin
<1>3. PICK m \in S : x = 0..m
  OBVIOUS
<1>4. ASSUME NEW k \in S, k < m PROVE FALSE
  <2>1. 0..k \subseteq 0..m /\ m \in 0..m /\ m \notin 0..k /\ 0..k \in SUBSET Nat /\ x \in SUBSET Nat
    BY <1>3, <1>4
  <2>2. <<0..k, x>> \in StrictSubsetOrdering(Nat)
    BY <1>3, <2>1 DEF StrictSubsetOrdering
  <2>3. QED
    BY <1>2, <2>2
<1>5. QED
  BY <1>4

\* The first of the best among the first n epochs.
IsBest(n, b) ==
    /\ b \in 1..n
    /\ \A i \in 1..n : curve[i] < curve[b] \/ (curve[i] = curve[b] /\ b <= i)

Undefined(n) == \A i \in 1..n : curve[i] = 0

\* Values are numbers.
LEMMA ValueType ==
    ASSUME Inputs, NEW i \in 1..Epochs
    PROVE  curve[i] \in Nat
BY RunAssumption DEF Inputs

\* One more epoch is the best if it is better than the best before it.
LEMMA BestGrows ==
    ASSUME Inputs, NEW n \in 1..(Epochs - 1), NEW b, IsBest(n, b)
    PROVE  IsBest(n + 1, IF curve[n + 1] > curve[b] THEN n + 1 ELSE b)
<1>1. n \in Nat /\ Epochs \in Nat /\ b \in Nat /\ n + 1 \in 1..Epochs /\ b <= n /\ 1 <= b
  BY RunAssumption DEF IsBest
<1>2. \A i \in 1..(n + 1) : i \in 1..Epochs /\ (i \in 1..n \/ i = n + 1)
  BY <1>1
<1>3. \A i \in 1..(n + 1) : curve[i] \in Nat
  BY <1>2, ValueType
<1>4. b \in 1..n /\ b \in 1..(n + 1)
  BY <1>1
<1>5. CASE curve[n + 1] > curve[b]
  <2>1. \A i \in 1..n : curve[i] < curve[n + 1]
    <3> TAKE i \in 1..n
    <3>1. i \in 1..(n + 1) /\ n + 1 \in 1..(n + 1)
      BY <1>1
    <3>2. curve[i] <= curve[b]
      BY <3>1, <1>3, <1>4 DEF IsBest
    <3>3. QED
      BY <3>1, <3>2, <1>3, <1>4, <1>5
  <2>2. n + 1 \in 1..(n + 1)
    BY <1>1
  <2>3. \A i \in 1..(n + 1) :
           curve[i] < curve[n + 1] \/ (curve[i] = curve[n + 1] /\ n + 1 <= i)
    BY <1>1, <1>2, <2>1
  <2>4. QED
    BY <1>5, <2>2, <2>3 DEF IsBest
<1>6. CASE ~(curve[n + 1] > curve[b])
  <2>1. \A i \in 1..(n + 1) : curve[i] < curve[b] \/ (curve[i] = curve[b] /\ b <= i)
    <3> TAKE i \in 1..(n + 1)
    <3>1. CASE i \in 1..n
      BY <3>1 DEF IsBest
    <3>2. CASE i = n + 1
      BY <3>2, <1>1, <1>3, <1>4, <1>6
    <3>3. QED
      BY <3>1, <3>2, <1>2
  <2>2. QED
    BY <1>4, <1>6, <2>1 DEF IsBest
<1>7. QED
  BY <1>5, <1>6

\* Among some epochs there is a best one.
LEMMA BestExists ==
    ASSUME Inputs, NEW n \in 1..Epochs
    PROVE  \E b : IsBest(n, b)
<1> DEFINE without == {k \in 1..Epochs : ~\E b : IsBest(k, b)}
<1>1. Epochs \in Nat \ {0}
  BY RunAssumption
<1>2. SUFFICES ASSUME without # {} PROVE FALSE
  OBVIOUS
<1>3. without \in SUBSET Nat
  BY <1>1
<1> HIDE DEF without
<1>4. PICK k \in without : \A j \in without : k <= j
  BY <1>2, <1>3, Least
<1>5. k \in 1..Epochs /\ ~\E b : IsBest(k, b)
  BY <1>4 DEF without
<1>6. CASE k = 1
  <2>1. 1..1 = {1}
    OBVIOUS
  <2>2. IsBest(1, 1)
    BY <2>1 DEF IsBest
  <2>3. QED
    BY <1>5, <1>6, <2>2
<1>7. CASE k > 1
  <2>1. k - 1 \in 1..(Epochs - 1) /\ k - 1 \in 1..Epochs /\ (k - 1) + 1 = k /\ ~(k <= k - 1)
    BY <1>1, <1>5, <1>7
  <2>2. \E b : IsBest(k - 1, b)
    BY <1>4, <2>1 DEF without
  <2>3. \E b : IsBest((k - 1) + 1, b)
    BY <2>1, <2>2, BestGrows
  <2>4. QED
    BY <1>5, <2>1, <2>3
<1>8. QED
  BY <1>1, <1>5, <1>6, <1>7

\* Best is the first of the best, or 0 where every value is undefined.
LEMMA BestIs ==
    ASSUME Inputs, NEW n \in 0..Epochs
    PROVE  /\ Undefined(n) => Best(n) = 0
           /\ ~Undefined(n) => IsBest(n, Best(n))
           /\ \A b : ~Undefined(n) /\ IsBest(n, b) => Best(n) = b
<1>1. n \in Nat /\ Epochs \in Nat /\ n <= Epochs
  BY RunAssumption
<1>2. \A i \in 1..n : curve[i] \in Nat
  <2>1. \A i \in 1..n : i \in 1..Epochs
    BY <1>1
  <2>2. QED
    BY <2>1, ValueType
<1>3. ~Undefined(n) => n \in 1..Epochs
  BY <1>1 DEF Undefined
<1>4. ~Undefined(n) => \E b : IsBest(n, b)
  BY <1>3, BestExists
<1>5. ~Undefined(n) => Best(n) = CHOOSE b \in 1..n :
                                   \A i \in 1..n : curve[i] < curve[b]
                                                     \/ (curve[i] = curve[b] /\ b <= i)
  BY DEF Best, Undefined
<1>6. ~Undefined(n) => IsBest(n, Best(n))
  BY <1>4, <1>5 DEF IsBest
<1>7. ASSUME NEW a, NEW b, IsBest(n, a), IsBest(n, b) PROVE a = b
  BY <1>1, <1>2, <1>7 DEF IsBest
<1>8. QED
  BY <1>6, <1>7 DEF Best, Undefined

\* _select_epoch keeps the best epoch: an epoch replaces it when its value is greater.
LEMMA BestStep ==
    ASSUME Inputs, NEW n \in 0..(Epochs - 1)
    PROVE  /\ BestValue(n) \in Nat
           /\ Best(n + 1) = IF curve[n + 1] > BestValue(n) THEN n + 1 ELSE Best(n)
           /\ BestValue(n + 1) =
                IF curve[n + 1] > BestValue(n) THEN curve[n + 1] ELSE BestValue(n)
           /\ Best(0) = 0
<1>1. /\ n \in Nat /\ Epochs \in Nat /\ n \in 0..Epochs /\ n + 1 \in 0..Epochs
      /\ n + 1 \in 1..Epochs
  BY RunAssumption
<1>2. curve[n + 1] \in Nat
  BY <1>1, ValueType
<1>3. \A i \in 1..(n + 1) : i \in 1..n \/ i = n + 1
  BY <1>1
<1>4. Best(0) = 0
  <2>1. 0 \in 0..Epochs /\ Undefined(0)
    BY <1>1 DEF Undefined
  <2>2. QED
    BY <2>1, BestIs
<1>5. CASE Undefined(n)
  <2>1. Best(n) = 0 /\ BestValue(n) = 0
    BY <1>1, <1>5, BestIs DEF BestValue
  <2>2. CASE curve[n + 1] > 0
    <3>1. ~Undefined(n + 1)
      BY <1>1, <2>2 DEF Undefined
    <3>2. \A i \in 1..(n + 1) : curve[i] < curve[n + 1] \/ (curve[i] = curve[n + 1] /\ n + 1 <= i)
      BY <1>1, <1>3, <1>5, <2>2 DEF Undefined
    <3>3. IsBest(n + 1, n + 1)
      BY <1>1, <3>2 DEF IsBest
    <3>4. Best(n + 1) = n + 1
      BY <1>1, <3>1, <3>3, BestIs
    <3>5. QED
      BY <1>1, <1>4, <1>2, <2>1, <2>2, <3>4 DEF BestValue
  <2>3. CASE ~(curve[n + 1] > 0)
    <3>1. Undefined(n + 1)
      BY <1>2, <1>3, <1>5, <2>3 DEF Undefined
    <3>2. Best(n + 1) = 0
      BY <1>1, <3>1, BestIs
    <3>3. QED
      BY <1>4, <2>1, <2>3, <3>2 DEF BestValue
  <2>4. QED
    BY <2>2, <2>3
<1>6. CASE ~Undefined(n)
  <2>1. IsBest(n, Best(n))
    BY <1>1, <1>6, BestIs
  <2>2. n \in 1..(Epochs - 1) /\ Best(n) \in 1..n /\ Best(n) # 0
    BY <1>1, <2>1, <1>6 DEF IsBest, Undefined
  <2>3. BestValue(n) = curve[Best(n)] /\ curve[Best(n)] \in Nat
    BY <1>1, <2>2, ValueType DEF BestValue
  <2>4. IsBest(n + 1, IF curve[n + 1] > curve[Best(n)] THEN n + 1 ELSE Best(n))
    BY <2>1, <2>2, BestGrows
  <2>5. ~Undefined(n + 1)
    BY <1>1, <1>6 DEF Undefined
  <2>6. Best(n + 1) = IF curve[n + 1] > curve[Best(n)] THEN n + 1 ELSE Best(n)
    BY <1>1, <2>4, <2>5, BestIs
  <2>7. QED
    BY <1>1, <1>4, <2>2, <2>3, <2>6 DEF BestValue
<1>7. QED
  BY <1>5, <1>6

\* No run stops before its first epoch.
LEMMA StopsNotAtOnce == ASSUME Inputs PROVE ~Stops(0)
<1>1. 0 \in 0..(Epochs - 1)
  BY RunAssumption
<1>2. QED
  BY <1>1, BestStep, RunAssumption DEF Stops, StopsEarly

\* The epoch after which training ends is the one that ends it.
LEMMA LastIs ==
    ASSUME NEW n \in 1..Epochs, Stops(n) \/ n = Epochs, \A i \in 1..(n - 1) : ~Stops(i)
    PROVE  Last = n
<1>1. Epochs \in Nat
  BY RunAssumption
<1>2. ASSUME NEW k \in 1..Epochs, Stops(k) \/ k = Epochs, \A i \in 1..(k - 1) : ~Stops(i)
      PROVE  k = n
  <2>1. CASE k < n
    <3>1. k \in 1..(n - 1) /\ k # Epochs
      BY <1>1, <2>1
    <3>2. QED
      BY <1>2, <3>1
  <2>2. CASE n < k
    <3>1. n \in 1..(k - 1) /\ n # Epochs
      BY <1>1, <2>2
    <3>2. QED
      BY <1>2, <3>1
  <2>3. QED
    BY <1>1, <2>1, <2>2
<1>3. QED
  BY <1>2 DEF Last

-------------------------------------------------------------------------------
(* The states of an uninterrupted run. *)

\* What a state is made of.
Fields == {"given", "epoch", "step", "stopped", "rng", "weights", "updates", "loss_steps",
           "best_epoch", "best_value", "rows", "batches", "requested", "rejected",
           "epoch_rejected"}

IsState(state) == state = [f \in Fields |-> state[f]]

SameFields(state, other) ==
    /\ state.given = other.given /\ state.epoch = other.epoch /\ state.step = other.step
    /\ state.stopped = other.stopped /\ state.rng = other.rng
    /\ state.weights = other.weights /\ state.updates = other.updates
    /\ state.loss_steps = other.loss_steps /\ state.best_epoch = other.best_epoch
    /\ state.best_value = other.best_value /\ state.rows = other.rows
    /\ state.batches = other.batches /\ state.requested = other.requested
    /\ state.rejected = other.rejected /\ state.epoch_rejected = other.epoch_rejected

\* States with the same fields are the same.
LEMMA SameState ==
    ASSUME NEW state, NEW other, IsState(state), IsState(other), SameFields(state, other)
    PROVE  state = other
<1>1. \A f \in Fields : state[f] = other[f]
  BY DEF SameFields, Fields
<1>2. [f \in Fields |-> state[f]] = [f \in Fields |-> other[f]]
  BY <1>1
<1>3. QED
  BY <1>2 DEF IsState

\* Every state of an uninterrupted run is one.
LEMMA AtIsState == \A g, n, m, rng, recent : IsState(At(g, n, m, rng, recent))
BY DEF At, IsState, Fields

\* A state between two epochs, or as it is saved.
LEMMA StraightIs ==
    ASSUME NEW g, NEW n, NEW m
    PROVE  Straight(g, n, m) = At(g, n, m, n, Recent(n, m))
BY DEF Straight, At, BestValue

\* What a state holds that its position and the epochs before it decide.
LEMMA StraightFields ==
    ASSUME NEW g, NEW n, NEW m
    PROVE  /\ Straight(g, n, m).given = g
           /\ Straight(g, n, m).epoch = n /\ Straight(g, n, m).step = m
           /\ Straight(g, n, m).stopped = Stops(n) /\ Straight(g, n, m).rng = n
           /\ Straight(g, n, m).rows = StraightRows(n)
           /\ Straight(g, n, m).best_epoch = Best(n)
           /\ Straight(g, n, m).rejected = LostAmong(Before(n, m))
           /\ During(g, n, m).given = g
           /\ During(g, n, m).epoch = n /\ During(g, n, m).step = m
           /\ During(g, n, m).stopped = Stops(n) /\ During(g, n, m).rng = n + 1
           /\ During(g, n, m).loss_steps = Cardinality(TrainedAmong(EpochSteps(n, m)))
           /\ During(g, n, m).rejected = LostAmong(Before(n, m))
           /\ During(g, n, m).epoch_rejected = LostAmong(EpochSteps(n, m))
BY DEF Straight, During, At

\* _TrainingRun as it is built is an uninterrupted run before its first step.
LEMMA FreshExact ==
    ASSUME Inputs, NEW g, NEW new, new = [Fresh EXCEPT !.given = g]
    PROVE  new = Straight(g, 0, 0) /\ Reached(0, 0)
<1>1. Epochs \in Nat \ {0} /\ Steps \in Nat \ {0} /\ Batch \in Nat /\ 0 \in 0..(Epochs - 1)
      /\ 0 \in 0..Steps
  BY RunAssumption
<1>2. Best(0) = 0 /\ BestValue(0) = 0 /\ Stops(0) = FALSE
  BY <1>1, BestStep, StopsNotAtOnce DEF BestValue, Stops, StopsEarly
<1>3. Before(0, 0) = {} /\ Recent(0, 0) = {}
  BY <1>1, StepsBefore
<1>4. StraightRows(0) = <<>>
  BY DEF StraightRows
<1>5. Weights(g, {}) = {}
  BY DEF Weights
<1>6. 0 * (Steps + 1) + 0 = 0 /\ Batch * 0 = 0
  BY <1>1
<1>7. Straight(g, 0, 0) =
        [given |-> g, epoch |-> 0, step |-> 0, stopped |-> FALSE, rng |-> 0, weights |-> {},
         updates |-> 0, loss_steps |-> 0, best_epoch |-> 0, best_value |-> 0, rows |-> <<>>,
         batches |-> 0, requested |-> 0, rejected |-> 0, epoch_rejected |-> 0]
  BY <1>2, <1>3, <1>4, <1>5, <1>6, NoSteps, StraightIs DEF At
<1>8. new = Straight(g, 0, 0)
  <2>1. IsState(new)
    BY DEF Fresh, IsState, Fields
  <2>2. /\ new.given = g
        /\ new.epoch = 0 /\ new.step = 0 /\ new.stopped = FALSE /\ new.rng = 0
        /\ new.weights = {} /\ new.updates = 0 /\ new.loss_steps = 0 /\ new.best_epoch = 0
        /\ new.best_value = 0 /\ new.rows = <<>> /\ new.batches = 0 /\ new.requested = 0
        /\ new.rejected = 0 /\ new.epoch_rejected = 0
    BY DEF Fresh
  <2>3. SameFields(new, Straight(g, 0, 0))
    <3> DEFINE first == Straight(g, 0, 0)
    <3>1. /\ first.given = g
          /\ first.epoch = 0 /\ first.step = 0 /\ first.stopped = FALSE /\ first.rng = 0
          /\ first.weights = {} /\ first.updates = 0 /\ first.loss_steps = 0
          /\ first.best_epoch = 0 /\ first.best_value = 0 /\ first.rows = <<>>
          /\ first.batches = 0 /\ first.requested = 0
          /\ first.rejected = 0 /\ first.epoch_rejected = 0
      BY <1>7
    <3> HIDE DEF first
    <3>2. SameFields(new, first)
      BY <2>2, <3>1 DEF SameFields
    <3>3. QED
      BY <3>2 DEF first
  <2>4. QED
    BY <2>1, <2>3, SameState, AtIsState, StraightIs
<1>9. Reached(0, 0)
  BY <1>1 DEF Reached
<1>10. QED
  BY <1>8, <1>9

\* run_epoch: a new epoch begins with its own sums, one that is resumed goes on with them.
LEMMA StartExact ==
    ASSUME Inputs, NEW g, NEW n \in 0..(Epochs - 1), NEW m \in 0..Steps,
           NEW state, state = Straight(g, n, m),
           NEW new, new = [state EXCEPT !.rng = @ + 1,
                                        !.loss_steps = IF state.step = 0 THEN 0 ELSE @,
                                        !.epoch_rejected = IF state.step = 0 THEN 0 ELSE @]
    PROVE  new = During(g, n, m)
<1>1. n \in Nat /\ m \in Nat
  BY RunAssumption
<1>2. m = 0 => /\ Cardinality(TrainedAmong(EpochSteps(n, m))) = 0
               /\ LostAmong(EpochSteps(n, m)) = 0
  BY StepsBefore, NoSteps
<1>3. m # 0 => Recent(n, m) = EpochSteps(n, m)
  <2>1. m # 0 => m > 0
    BY <1>1
  <2>2. m > 0 => Recent(n, m) = EpochSteps(n, m)
    BY StepsBefore
  <2>3. QED
    BY <2>1, <2>2
<1>4. state = At(g, n, m, n, Recent(n, m))
  BY StraightIs
<1>5. IsState(new)
  BY <1>4 DEF At, IsState, Fields
<1>6. SameFields(new, During(g, n, m))
  BY <1>2, <1>3, <1>4 DEF At, During, SameFields
<1>7. QED
  BY <1>5, <1>6, SameState, AtIsState DEF During

\* save_last keeps the state with the generator of the epoch's start.
LEMMA SaveExact ==
    ASSUME NEW g, NEW n \in 0..(Epochs - 1), NEW m \in 1..Steps
    PROVE  [During(g, n, m) EXCEPT !.rng = n] = Straight(g, n, m)
<1>1. m \in 0..Steps /\ m > 0
  BY RunAssumption
<1>2. Recent(n, m) = EpochSteps(n, m)
  BY <1>1, StepsBefore
<1>3. Straight(g, n, m) = At(g, n, m, n, EpochSteps(n, m))
  BY <1>2, StraightIs
<1>4. QED
  BY <1>3 DEF At, During

\* TrainStep's state: the next step, what it trained and what it lost.
Advanced(state, trained, made, lose) ==
    [state EXCEPT
       !.step = @ + 1,
       !.weights = IF trained = 1 THEN @ \cup {made} ELSE @,
       !.updates = @ + trained,
       !.loss_steps = @ + trained,
       !.batches = @ + 1,
       !.requested = @ + Batch,
       !.rejected = @ + lose,
       !.epoch_rejected = @ + lose]

\* A step takes the state of an uninterrupted run to the next one.
LEMMA TrainExact ==
    ASSUME Inputs, NEW g, NEW n \in 0..(Epochs - 1), NEW m \in 0..(Steps - 1),
           NEW state, state = During(g, n, m),
           NEW lose, lose = lost.training[<<n, m>>].roots,
           NEW trained, trained = IF lose < Batch THEN 1 ELSE 0,
           NEW made, made = [given |-> g, epoch |-> n, step |-> m, rng |-> n],
           NEW new, new = Advanced(state, trained, made, lose)
    PROVE  new = During(g, n, m + 1)
<1> DEFINE p == <<n, m>>
           B == Before(n, m)
           C == Before(n, m + 1)
           D == EpochSteps(n, m)
           E == EpochSteps(n, m + 1)
<1>1. /\ Epochs \in Nat /\ Steps \in Nat /\ Batch \in Nat /\ n \in Nat /\ m \in Nat
      /\ m < Steps /\ m \in 0..Steps
  BY RunAssumption
<1>2. /\ p \in Positions /\ p \notin B /\ p \notin D /\ C = B \cup {p} /\ E = D \cup {p}
      /\ B \in SUBSET Positions /\ IsFiniteSet(B) /\ D \in SUBSET Positions /\ IsFiniteSet(D)
  BY <1>1, StepsBefore
<1>3. [given |-> g, epoch |-> p[1], step |-> p[2], rng |-> p[1]] = made
  OBVIOUS
<1>4. lose = lost.training[p].roots
  OBVIOUS
<1> HIDE DEF p, B, C, D, E
<1>5. /\ Cardinality(C) = Cardinality(B) + 1
      /\ TrainedAmong(C) = IF lose < Batch THEN TrainedAmong(B) \cup {p} ELSE TrainedAmong(B)
      /\ Cardinality(TrainedAmong(C)) = Cardinality(TrainedAmong(B)) + trained
      /\ LostAmong(C) = LostAmong(B) + lose
  BY <1>2, <1>4, AddStep
<1>6. /\ Cardinality(TrainedAmong(E)) = Cardinality(TrainedAmong(D)) + trained
      /\ LostAmong(E) = LostAmong(D) + lose
  BY <1>2, <1>4, AddStep
<1>7. Weights(g, TrainedAmong(C)) =
        IF trained = 1 THEN Weights(g, TrainedAmong(B)) \cup {made}
        ELSE Weights(g, TrainedAmong(B))
  <2>1. \A S : Weights(g, S \cup {p}) = Weights(g, S) \cup {made}
    BY <1>3 DEF Weights
  <2>2. QED
    BY <1>5, <2>1
<1>8. Batch * Cardinality(C) = Batch * Cardinality(B) + Batch
  <2>1. Cardinality(B) \in Nat
    BY <1>2, FS_CardinalityType
  <2>2. \A c \in Nat : Batch * (c + 1) = Batch * c + Batch
    BY <1>1
  <2>3. QED
    BY <1>5, <2>1, <2>2
<1>9. n * (Steps + 1) + (m + 1) = n * (Steps + 1) + m + 1
  BY <1>1
<1>10. state =
        [given |-> g, epoch |-> n, step |-> m, stopped |-> Stops(n), rng |-> n + 1,
         weights |-> Weights(g, TrainedAmong(B)), updates |-> Cardinality(TrainedAmong(B)),
         loss_steps |-> Cardinality(TrainedAmong(D)), best_epoch |-> Best(n),
         best_value |-> BestValue(n), rows |-> StraightRows(n),
         batches |-> n * (Steps + 1) + m, requested |-> Batch * Cardinality(B),
         rejected |-> LostAmong(B), epoch_rejected |-> LostAmong(D)]
  BY DEF During, At, B, D
<1>11. During(g, n, m + 1) =
        [given |-> g, epoch |-> n, step |-> m + 1, stopped |-> Stops(n), rng |-> n + 1,
         weights |-> Weights(g, TrainedAmong(C)), updates |-> Cardinality(TrainedAmong(C)),
         loss_steps |-> Cardinality(TrainedAmong(E)), best_epoch |-> Best(n),
         best_value |-> BestValue(n), rows |-> StraightRows(n),
         batches |-> n * (Steps + 1) + (m + 1), requested |-> Batch * Cardinality(C),
         rejected |-> LostAmong(C), epoch_rejected |-> LostAmong(E)]
  BY DEF During, At, C, E
<1>12. IsState(new)
  BY <1>10 DEF Advanced, IsState, Fields
<1>13. SameFields(new, During(g, n, m + 1))
  <2>1. /\ new.given = g /\ new.epoch = n /\ new.stopped = Stops(n) /\ new.rng = n + 1
        /\ new.best_epoch = Best(n) /\ new.best_value = BestValue(n)
        /\ new.rows = StraightRows(n) /\ new.step = m + 1
    BY <1>10 DEF Advanced
  <2>2. new.weights = Weights(g, TrainedAmong(C))
    BY <1>7, <1>10 DEF Advanced
  <2>3. /\ new.updates = Cardinality(TrainedAmong(C))
        /\ new.loss_steps = Cardinality(TrainedAmong(E))
        /\ new.rejected = LostAmong(C) /\ new.epoch_rejected = LostAmong(E)
    BY <1>5, <1>6, <1>10 DEF Advanced
  <2>4. /\ new.batches = n * (Steps + 1) + (m + 1)
        /\ new.requested = Batch * Cardinality(C)
    BY <1>8, <1>9, <1>10 DEF Advanced
  <2>5. QED
    BY <1>11, <2>1, <2>2, <2>3, <2>4 DEF SameFields
<1>14. QED
  BY <1>12, <1>13, SameState, AtIsState DEF During

\* SelectEpoch's state: the selection, its row, and the next epoch.
Selected(state, epoch, better, best, stops, row) ==
    [state EXCEPT
       !.best_epoch = best,
       !.best_value = IF better THEN curve[epoch] ELSE @,
       !.stopped = stops,
       !.rows = Append(@, row),
       !.batches = @ + 1,
       !.epoch = epoch,
       !.step = 0]

\* _select_epoch takes the state after an epoch's schedule to the start of the next epoch.
LEMMA SelectExact ==
    ASSUME Inputs, NEW g, NEW n \in 0..(Epochs - 1), NEW state, state = During(g, n, Steps),
           NEW better, better = (curve[n + 1] > state.best_value),
           NEW best, best = IF better THEN n + 1 ELSE state.best_epoch,
           NEW stops, stops = StopsEarly(n + 1, best),
           NEW row, row = [epoch |-> n + 1, steps |-> state.loss_steps,
                           value |-> curve[n + 1], stopped |-> stops],
           NEW new, new = Selected(state, n + 1, better, best, stops, row)
    PROVE  stops = Stops(n + 1) /\ state.rng = n + 1 /\ new = Straight(g, n + 1, 0)
<1> DEFINE B == Before(n, Steps)
           recent == EpochSteps(n, Steps)
<1>1. Epochs \in Nat /\ Steps \in Nat /\ n \in Nat /\ Steps \in 0..Steps
  BY RunAssumption
<1>2. Before(n + 1, 0) = B /\ Recent(n + 1, 0) = recent
  BY <1>1, StepsBefore
<1>3. state =
        [given |-> g, epoch |-> n, step |-> Steps, stopped |-> Stops(n), rng |-> n + 1,
         weights |-> Weights(g, TrainedAmong(B)), updates |-> Cardinality(TrainedAmong(B)),
         loss_steps |-> Cardinality(TrainedAmong(recent)), best_epoch |-> Best(n),
         best_value |-> BestValue(n), rows |-> StraightRows(n),
         batches |-> n * (Steps + 1) + Steps, requested |-> Batch * Cardinality(B),
         rejected |-> LostAmong(B), epoch_rejected |-> LostAmong(recent)]
  BY DEF During, At
<1>4. Straight(g, n + 1, 0) =
        [given |-> g, epoch |-> n + 1, step |-> 0, stopped |-> Stops(n + 1), rng |-> n + 1,
         weights |-> Weights(g, TrainedAmong(B)), updates |-> Cardinality(TrainedAmong(B)),
         loss_steps |-> Cardinality(TrainedAmong(recent)), best_epoch |-> Best(n + 1),
         best_value |-> BestValue(n + 1), rows |-> StraightRows(n + 1),
         batches |-> (n + 1) * (Steps + 1) + 0, requested |-> Batch * Cardinality(B),
         rejected |-> LostAmong(B), epoch_rejected |-> LostAmong(recent)]
  BY <1>2, StraightIs DEF At
<1>5. state.best_value = BestValue(n) /\ state.best_epoch = Best(n)
      /\ state.loss_steps = Cardinality(TrainedAmong(recent)) /\ state.rng = n + 1
  BY <1>3
<1>6. StraightRow(n + 1) =
        [epoch |-> n + 1, steps |-> Cardinality(TrainedAmong(recent)), value |-> curve[n + 1],
         stopped |-> Stops(n + 1)]
  <2>1. (n + 1) - 1 = n
    BY <1>1
  <2>2. QED
    BY <2>1 DEF StraightRow
<1> HIDE DEF B, recent
<1>7. /\ best = Best(n + 1)
      /\ BestValue(n + 1) = IF better THEN curve[n + 1] ELSE BestValue(n)
  BY <1>5, BestStep
<1>8. stops = Stops(n + 1)
  BY <1>7 DEF Stops
<1>9. Append(StraightRows(n), row) = StraightRows(n + 1)
  <2>1. row = StraightRow(n + 1)
    BY <1>5, <1>6, <1>8
  <2>2. \A i \in 1..(n + 1) : i \in 1..n \/ i = n + 1
    BY <1>1
  <2>3. Append([i \in 1..n |-> StraightRow(i)], StraightRow(n + 1)) =
          [i \in 1..(n + 1) |-> StraightRow(i)]
    BY <1>1, <2>2
  <2>4. QED
    BY <2>1, <2>3 DEF StraightRows
<1>10. n * (Steps + 1) + Steps + 1 = (n + 1) * (Steps + 1) + 0
  <2>1. \A a, b \in Nat : a * b + b = (a + 1) * b
    OBVIOUS
  <2>2. n * (Steps + 1) + (Steps + 1) = (n + 1) * (Steps + 1)
    BY <1>1, <2>1
  <2>3. n * (Steps + 1) \in Nat
    BY <1>1
  <2>4. QED
    BY <1>1, <2>2, <2>3
<1>11. new = Straight(g, n + 1, 0)
  <2>1. IsState(new)
    BY <1>3 DEF Selected, IsState, Fields
  <2>2. SameFields(new, Straight(g, n + 1, 0))
    BY <1>3, <1>4, <1>7, <1>8, <1>9, <1>10 DEF Selected, SameFields
  <2>3. QED
    BY <2>1, <2>2, SameState, AtIsState, StraightIs
<1>12. QED
  BY <1>5, <1>8, <1>11

-------------------------------------------------------------------------------
(* history.csv. *)

\* The rows at the first indexes are a prefix.
LEMMA RowsAtPrefix ==
    ASSUME NEW S, NEW rows \in Seq(S), NEW k \in 0..Len(rows)
    PROVE  RowsAt(rows, 1..k) = SubSeq(rows, 1, k)
<1> DEFINE n == Len(rows)
           Sel(f) == f = [i \in 0..n |->
                            IF i = 0 THEN <<>>
                            ELSE IF i \in 1..k THEN Append(f[i - 1], rows[i]) ELSE f[i - 1]]
           kept == CHOOSE f : Sel(f)
           g == [i \in 0..n |-> SubSeq(rows, 1, IF i <= k THEN i ELSE k)]
<1>1. RowsAt(rows, 1..k) = kept[n]
  BY DEF RowsAt
<1>2. n \in Nat /\ k \in Nat /\ k <= n
  OBVIOUS
<1>3. \A i \in 1..n : i <= k => Append(SubSeq(rows, 1, i - 1), rows[i]) = SubSeq(rows, 1, i)
  <2> TAKE i \in 1..n
  <2>1. SubSeq(rows, 1, i - 1) \in Seq(S) /\ Len(SubSeq(rows, 1, i - 1)) = i - 1
    BY <1>2
  <2>2. QED
    BY <1>2, <2>1
<1>4. Sel(g)
  <2>1. SubSeq(rows, 1, 0) = <<>>
    OBVIOUS
  <2>2. ASSUME NEW i \in 0..n
        PROVE  g[i] = IF i = 0 THEN <<>>
                      ELSE IF i \in 1..k THEN Append(g[i - 1], rows[i]) ELSE g[i - 1]
    <3>1. CASE i = 0
      BY <1>2, <2>1, <3>1
    <3>2. CASE i # 0 /\ i <= k
      <4>1. i \in 1..k /\ i - 1 \in 0..n /\ i - 1 <= k /\ i \in 1..n
        BY <1>2, <3>2
      <4>2. g[i - 1] = SubSeq(rows, 1, i - 1) /\ g[i] = SubSeq(rows, 1, i)
        BY <3>2, <4>1
      <4>3. QED
        BY <1>3, <3>2, <4>1, <4>2
    <3>3. CASE i # 0 /\ ~(i <= k)
      <4>1. i \notin 1..k /\ i - 1 \in 0..n /\ (i - 1 <= k => i - 1 = k)
        BY <1>2, <3>3
      <4>2. g[i - 1] = SubSeq(rows, 1, k) /\ g[i] = SubSeq(rows, 1, k)
        BY <3>3, <4>1
      <4>3. QED
        BY <3>3, <4>1, <4>2
    <3>4. QED
      BY <3>1, <3>2, <3>3
  <2> DEFINE h == [i \in 0..n |->
                     IF i = 0 THEN <<>>
                     ELSE IF i \in 1..k THEN Append(g[i - 1], rows[i]) ELSE g[i - 1]]
  <2>3. \A i \in 0..n : g[i] = h[i]
    BY <2>2
  <2>4. g = h
    BY <2>3
  <2>5. QED
    BY <2>4
<1> HIDE DEF g
<1>5. Sel(kept)
  <2> HIDE DEF Sel
  <2>1. QED
    BY <1>4
<1>6. \A i \in 0..n : kept[i] = IF i = 0 THEN <<>>
                                ELSE IF i \in 1..k THEN Append(kept[i - 1], rows[i])
                                ELSE kept[i - 1]
  <2> HIDE DEF kept
  <2>1. QED
    BY <1>5
<1>7. \A i \in 0..n : g[i] = IF i = 0 THEN <<>>
                             ELSE IF i \in 1..k THEN Append(g[i - 1], rows[i]) ELSE g[i - 1]
  BY <1>4
<1> HIDE DEF kept, Sel
<1>8. \A i \in 0..n : kept[i] = g[i]
  <2> DEFINE differ == {i \in 0..n : kept[i] # g[i]}
  <2>1. SUFFICES ASSUME differ # {} PROVE FALSE
    OBVIOUS
  <2>2. differ \in SUBSET Nat
    OBVIOUS
  <2> HIDE DEF differ
  <2>3. PICK i \in differ : \A j \in differ : i <= j
    BY <2>1, <2>2, Least
  <2>4. i \in 0..n /\ kept[i] # g[i]
    BY <2>3 DEF differ
  <2>5. CASE i = 0
    BY <1>6, <1>7, <2>4, <2>5
  <2>6. CASE i # 0
    <3>1. i - 1 \in 0..n /\ ~(i <= i - 1)
      BY <1>2, <2>4, <2>6
    <3>2. kept[i - 1] = g[i - 1]
      BY <2>3, <3>1 DEF differ
    <3>3. QED
      BY <1>6, <1>7, <2>4, <2>6, <3>2
  <2>7. QED
    BY <2>5, <2>6
<1>9. n \in 0..n /\ g[n] = SubSeq(rows, 1, k)
  BY <1>2 DEF g
<1>10. QED
  BY <1>1, <1>8, <1>9

\* A row and the one before it decide whether it tiles.
LEMMA TilesSame ==
    ASSUME NEW r, NEW s, NEW i, r[i] = s[i], i # 1 => r[i - 1] = s[i - 1], Tiles(r, i)
    PROVE  Tiles(s, i)
BY DEF Tiles, FollowsOn, From, NewEpoch

\* A prefix of a table is one.
LEMMA TablePrefix ==
    ASSUME NEW rows, Table(rows), NEW k \in 0..Len(rows)
    PROVE  /\ Table(SubSeq(rows, 1, k)) /\ Len(SubSeq(rows, 1, k)) = k
           /\ \A i \in 1..k : SubSeq(rows, 1, k)[i] = rows[i]
<1> DEFINE first == SubSeq(rows, 1, k)
<1>1. rows \in Seq(HistoryRows) /\ Len(rows) \in Nat
  BY DEF Table
<1>2. first \in Seq(HistoryRows) /\ Len(first) = k /\ \A i \in 1..k : first[i] = rows[i]
  BY <1>1
<1> HIDE DEF first
<1>3. ASSUME NEW i \in 1..k PROVE first[i].torn \/ Tiles(first, i)
  <2>1. i \in 1..Len(rows) /\ (i # 1 => i - 1 \in 1..k) /\ first[i] = rows[i]
    BY <1>1, <1>2
  <2>2. rows[i].torn \/ Tiles(rows, i)
    BY <2>1 DEF Table
  <2>3. i # 1 => first[i - 1] = rows[i - 1]
    BY <1>2, <2>1
  <2>4. QED
    BY <2>1, <2>2, <2>3, TilesSame
<1>4. \A i \in 1..k : i \in 1..Len(rows)
  BY <1>1
<1>5. Table(first)
  BY <1>2, <1>3, <1>4 DEF Table
<1>6. QED
  BY <1>2, <1>5 DEF first

\* append_history, whole or cut short: a table with one more row is one.
LEMMA TableAppend ==
    ASSUME NEW rows, Table(rows), Whole(rows), NEW row \in HistoryRows,
           row.torn \/ Tiles(Append(rows, row), Len(rows) + 1),
           row.torn \/ rows = <<>> \/ Earlier(rows[Len(rows)], row)
    PROVE  /\ Table(Append(rows, row))
           /\ ~row.torn => Whole(Append(rows, row))
           /\ Len(Append(rows, row)) = Len(rows) + 1
           /\ Append(rows, row)[Len(rows) + 1] = row
           /\ \A i \in 1..Len(rows) : Append(rows, row)[i] = rows[i]
<1> DEFINE n == Len(rows)
           more == Append(rows, row)
<1>1. rows \in Seq(HistoryRows) /\ n \in Nat
  BY DEF Table
<1>2. /\ more \in Seq(HistoryRows) /\ Len(more) = n + 1 /\ more[n + 1] = row
      /\ \A i \in 1..n : more[i] = rows[i]
  BY <1>1
<1>3. \A i \in 1..(n + 1) : i \in 1..n \/ i = n + 1
  BY <1>1
<1> HIDE DEF more
<1>4. ASSUME NEW i \in 1..(n + 1) PROVE more[i].torn \/ Tiles(more, i)
  <2>1. CASE i = n + 1
    BY <1>2, <2>1 DEF more
  <2>2. CASE i \in 1..n
    <3>1. rows[i].torn \/ Tiles(rows, i)
      BY <2>2 DEF Table
    <3>2. i # 1 => i - 1 \in 1..n
      BY <1>1, <2>2
    <3>3. more[i] = rows[i] /\ (i # 1 => more[i - 1] = rows[i - 1])
      BY <1>2, <2>2, <3>2
    <3>4. QED
      BY <3>1, <3>3, TilesSame
  <2>3. QED
    BY <1>3, <2>1, <2>2
<1>5. \A i, j \in 1..(n + 1) : i < j => ~more[i].torn
  <2>1. \A i, j \in 1..(n + 1) : i < j => i \in 1..n
    BY <1>1
  <2>2. QED
    BY <1>2, <2>1 DEF Whole
<1>6. ASSUME NEW i \in 1..(n + 1), NEW j \in 1..(n + 1), i < j, ~more[j].torn
      PROVE  Earlier(more[i], more[j])
  <2>1. i \in 1..n /\ more[i] = rows[i] /\ rows # <<>> /\ n \in 1..n
    BY <1>1, <1>2, <1>6
  <2>2. CASE j \in 1..n
    BY <1>2, <1>6, <2>1, <2>2 DEF Table
  <2>3. CASE j = n + 1
    <3>1. Earlier(rows[n], row)
      BY <1>2, <1>6, <2>1, <2>3
    <3>2. i = n \/ Earlier(rows[i], rows[n])
      <4>1. i = n \/ i < n
        BY <1>1, <2>1
      <4>2. ~rows[n].torn
        BY <2>1 DEF Whole
      <4>3. QED
        BY <2>1, <4>1, <4>2 DEF Table
    <3>3. /\ rows[i].epoch \in Nat /\ rows[n].epoch \in Nat /\ row.epoch \in Nat
          /\ rows[i].step \in Nat /\ rows[n].step \in Nat /\ row.step \in Nat
      <4>1. rows[i] \in HistoryRows /\ rows[n] \in HistoryRows
        BY <1>1, <2>1
      <4>2. \A r \in HistoryRows : r.epoch \in Nat /\ r.step \in Nat
        BY RunAssumption DEF HistoryRows
      <4>3. QED
        BY <4>1, <4>2
    <3>4. QED
      BY <1>2, <2>1, <2>3, <3>1, <3>2, <3>3 DEF Earlier
  <2>4. QED
    BY <1>3, <2>2, <2>3
<1>7. Table(more)
  BY <1>2, <1>4, <1>5, <1>6 DEF Table
<1>8. ~row.torn => Whole(more)
  BY <1>2, <1>3 DEF Whole
<1>9. QED
  BY <1>2, <1>7, <1>8 DEF more

\* keep_history: what it keeps is the rows up to that of the resume position, or none for a
\* run without a resume state.
LEMMA KeptIs ==
    ASSUME Table(history.rows), NEW n \in 0..Epochs, NEW m \in 0..Steps,
           (n = 0 /\ m = 0) \/ \E i \in 1..Len(history.rows) : IsAt(history.rows[i], n, m)
    PROVE  LET rows == Kept(n, m).rows
           IN /\ Table(rows) /\ Whole(rows) /\ EndsAt(rows, n, m)
              /\ ~(n = 0 /\ m = 0) => \E i \in 1..Len(rows) : IsAt(rows[i], n, m)
<1> DEFINE rows == history.rows
           stay == {i \in DOMAIN rows : Logs(rows[i]) /\ Within(rows[i], n, m)}
<1>1. rows \in Seq(HistoryRows) /\ Len(rows) \in Nat /\ DOMAIN rows = 1..Len(rows)
  BY DEF Table
<1>2. /\ Epochs \in Nat /\ Steps \in Nat /\ n \in Nat /\ m \in Nat /\ m <= Steps
  BY RunAssumption
<1>3. \A i \in 1..Len(rows) : /\ rows[i].epoch \in Nat /\ rows[i].epoch >= 1
                              /\ rows[i].step \in Nat /\ 1 <= rows[i].step
                              /\ rows[i].step <= Steps
  <2>1. \A i \in 1..Len(rows) : rows[i] \in HistoryRows
    BY <1>1
  <2>2. \A r \in HistoryRows : /\ r.epoch \in Nat /\ r.epoch >= 1
                               /\ r.step \in Nat /\ 1 <= r.step /\ r.step <= Steps
    BY RunAssumption DEF HistoryRows
  <2>3. QED
    BY <2>1, <2>2
<1>4. Kept(n, m).rows = RowsAt(rows, stay)
  BY DEF Kept
<1>7. Table(rows) /\ ((n = 0 /\ m = 0) \/ \E i \in 1..Len(rows) : IsAt(rows[i], n, m))
  OBVIOUS
<1> HIDE DEF rows
<1>8. ASSUME NEW i \in 1..Len(rows), NEW k \in 1..Len(rows), IsAt(rows[k], n, m)
      PROVE  /\ i = k \/ Earlier(rows[i], rows[k]) => Within(rows[i], n, m)
             /\ Earlier(rows[k], rows[i]) => ~Within(rows[i], n, m)
  <2>1. \A a, s, b, t \in Nat :
          (/\ 1 <= s /\ s <= Steps /\ 1 <= t /\ t <= Steps
           /\ IF m = 0 THEN b = n /\ t = Steps ELSE b = n + 1 /\ t = m)
          => /\ (a = b /\ s = t) \/ a < b \/ (a = b /\ s < t)
                  => a - 1 < n \/ (a - 1 = n /\ s <= m)
             /\ b < a \/ (b = a /\ t < s) => ~(a - 1 < n \/ (a - 1 = n /\ s <= m))
    BY <1>2
  <2>2. QED
    BY <1>3, <1>8, <2>1 DEF Within, IsAt, Earlier
<1>5. CASE n = 0 /\ m = 0
  <2>1. stay = {}
    BY <1>1, <1>3, <1>5 DEF Within
  <2>2. 1..0 = {} /\ 0 \in 0..Len(rows)
    BY <1>1
  <2>3. RowsAt(rows, stay) = SubSeq(rows, 1, 0)
    BY <1>1, <2>1, <2>2, RowsAtPrefix
  <2>4. Table(SubSeq(rows, 1, 0)) /\ SubSeq(rows, 1, 0) = <<>>
    BY <1>1, <1>7, <2>2, TablePrefix
  <2>5. QED
    <3> DEFINE kept == Kept(n, m).rows
    <3>1. kept = <<>> /\ Table(kept)
      BY <1>4, <2>3, <2>4
    <3> HIDE DEF kept
    <3>2. Whole(kept) /\ EndsAt(kept, n, m)
      BY <1>5, <3>1 DEF EndsAt, Whole
    <3>3. QED
      BY <1>5, <3>1, <3>2 DEF kept
<1>6. CASE ~(n = 0 /\ m = 0)
  <2>1. PICK k \in 1..Len(rows) : IsAt(rows[k], n, m)
    BY <1>6, <1>7
  <2>2. ASSUME NEW i \in 1..Len(rows), i <= k PROVE i \in stay
    <3>1. ~rows[i].torn
      BY <1>1, <1>7, <2>1, <2>2 DEF Table, IsAt
    <3>2. i = k \/ Earlier(rows[i], rows[k])
      <4>1. i = k \/ i < k
        BY <1>1, <2>2
      <4>2. QED
        BY <1>7, <2>1, <4>1 DEF Table, IsAt
    <3>3. Within(rows[i], n, m)
      BY <1>8, <2>1, <3>2
    <3>4. QED
      BY <1>1, <3>1, <3>3 DEF Logs
  <2>3. ASSUME NEW i \in 1..Len(rows), k < i PROVE i \notin stay
    <3>1. CASE rows[i].torn
      BY <3>1 DEF Logs
    <3>2. CASE ~rows[i].torn
      <4>1. Earlier(rows[k], rows[i])
        BY <1>7, <2>1, <2>3, <3>2 DEF Table
      <4>2. ~Within(rows[i], n, m)
        BY <1>8, <2>1, <4>1
      <4>3. QED
        BY <4>2
    <3>3. QED
      BY <3>1, <3>2
  <2>4. stay = 1..k
    <3>1. \A i \in 1..Len(rows) : i <= k \/ k < i
      BY <1>1, <2>1
    <3>2. stay \subseteq 1..Len(rows)
      BY <1>1
    <3>3. 1..k \subseteq 1..Len(rows) /\ \A i \in 1..Len(rows) : i <= k => i \in 1..k
      BY <1>1, <2>1
    <3>4. \A i \in 1..k : i <= k
      BY <2>1
    <3> HIDE DEF stay
    <3>5. QED
      BY <2>2, <2>3, <3>1, <3>2, <3>3, <3>4
  <2>5. k \in 0..Len(rows) /\ k \in Nat /\ k \in 1..k
    BY <1>1, <2>1
  <2>6. RowsAt(rows, stay) = SubSeq(rows, 1, k)
    BY <1>1, <2>4, <2>5, RowsAtPrefix
  <2> DEFINE first == SubSeq(rows, 1, k)
  <2>7. Table(first) /\ Len(first) = k /\ \A i \in 1..k : first[i] = rows[i]
    BY <1>7, <2>5, TablePrefix
  <2> HIDE DEF first, stay
  <2>8. Whole(first)
    <3>1. \A i \in 1..k : i \in 1..Len(rows) /\ (i = k \/ i < k)
      BY <1>1, <2>1
    <3>2. \A i \in 1..k : ~rows[i].torn
      BY <1>7, <2>1, <3>1 DEF Table, IsAt
    <3>3. QED
      BY <2>7, <3>2 DEF Whole
  <2>9. first[k] = rows[k] /\ Len(first) > 0
    BY <2>1, <2>5, <2>7
  <2>10. EndsAt(first, n, m) /\ \E i \in 1..Len(first) : IsAt(first[i], n, m)
    BY <1>6, <2>1, <2>5, <2>7, <2>9 DEF EndsAt
  <2>11. QED
    BY <1>4, <2>6, <2>7, <2>8, <2>10 DEF first
<1>9. QED
  BY <1>5, <1>6

-------------------------------------------------------------------------------
(* The actions. *)

\* What a state, a table or a file is of depends on the inputs only.
LEMMA SameParts ==
    ASSUME inputs' = inputs
    PROVE  /\ \A s : Exact(s)' <=> Exact(s)
           /\ \A s : ExactDuring(s)' <=> ExactDuring(s)
           /\ \A r : Table(r)' <=> Table(r)
           /\ \A from, ph, n, m, rows, count :
                IntervalAt(ph, n, m, rows, count, from)' <=> IntervalAt(ph, n, m, rows, count, from)
           /\ Inputs /\ phase' \in {"down"} \cup Between \cup Inside => Inputs'
<1>1. /\ curve' = curve /\ lost' = lost
      /\ \A n : Stops(n)' = Stops(n)
      /\ \A S : TrainedAmong(S)' = TrainedAmong(S)
      /\ \A S : LostAmong(S)' = LostAmong(S)
      /\ \A g, n, m : Straight(g, n, m)' = Straight(g, n, m)
      /\ \A n : Best(n)' = Best(n)
      /\ \A n : StraightRows(n)' = StraightRows(n)
  BY SameInputs
<1>2. \A n, m : Reached(n, m)' <=> Reached(n, m)
  BY <1>1 DEF Reached
<1>3. \A s : Exact(s)' <=> Exact(s)
  BY <1>1, <1>2 DEF Exact
<1>4. \A g, n, m : During(g, n, m)' = During(g, n, m)
  BY <1>1 DEF During, At, BestValue, Before, EpochSteps
<1>5. \A s : ExactDuring(s)' <=> ExactDuring(s)
  BY <1>1, <1>2, <1>4 DEF ExactDuring
<1>6. \A r : Table(r)' <=> Table(r)
  <2>1. \A row, from : CountsItsSteps(row, from)' <=> CountsItsSteps(row, from)
    BY <1>1 DEF CountsItsSteps, Before, EpochSteps
  <2>2. \A r, i : Tiles(r, i)' <=> Tiles(r, i)
    BY <2>1 DEF Tiles, FollowsOn, From, NewEpoch
  <2>3. QED
    BY <2>2 DEF Table, Earlier
<1>7. \A from, ph, n, m, rows, count :
        IntervalAt(ph, n, m, rows, count, from)' <=> IntervalAt(ph, n, m, rows, count, from)
  BY <1>1 DEF IntervalAt, EndsAt, IsAt
<1>8. QED
  BY <1>1, <1>3, <1>5, <1>6, <1>7 DEF Inputs

\* A run begins with nothing in memory and nothing on disk.
LEMMA InitInv == ASSUME Init PROVE IInv
<1>1. Inputs
  BY DEF Init, Inputs
<1>2. RunExact
  BY DEF Init, RunExact, Between, Inside
<1>3. ~Saved
  BY DEF Init, Saved
<1>4. ~Complete
  BY DEF Init, Complete, Outputs
<1>5. ResumeExact
  BY <1>3 DEF Init, ResumeExact, Between
<1>6. HistoryExact
  <2>1. Table(history.rows)
    BY DEF Init, Table
  <2>2. QED
    BY <1>3, <2>1 DEF Init, HistoryExact, Between, Inside
<1>7. OutputsExact
  BY <1>4 DEF Init, OutputsExact, Done
<1>8. QED
  BY <1>1, <1>2, <1>5, <1>6, <1>7 DEF IInv

\* A process starts with a fresh state or with that of resume.pt.
LEMMA OpenKeeps == ASSUME IInv, Open PROVE IInv'
<1>1. phase = "down" /\ phase' = "opening" /\ ~Complete /\ inputs' = inputs
  BY DEF Open
<1>2. UNCHANGED files
  BY DEF Open
<1>3. UNCHANGED <<config, resume, history, epochs, outputs>>
  BY <1>2 DEF files
<1>4. (Saved' <=> Saved) /\ ~Complete'
  BY <1>1, <1>3 DEF Saved, Complete
<1>5. Inputs'
  BY <1>1, SameParts DEF IInv, Between
<1>6. IF Saved THEN run' = resume
      ELSE Exact(run') /\ run'.epoch = 0 /\ run'.step = 0
  <2>1. CASE Saved
    BY <2>1 DEF Open
  <2>2. CASE ~Saved
    <3>1. PICK given \in Givens : run' = [Fresh EXCEPT !.given = given]
      BY <2>2 DEF Open
    <3>2. run' = Straight(given, 0, 0) /\ Reached(0, 0)
      BY <3>1, FreshExact DEF IInv
    <3>3. QED
      BY <2>2, <3>2, StraightFields DEF Exact
  <2>3. QED
    BY <2>1, <2>2
<1>7. RunExact'
  <2>1. Exact(run')
    BY <1>6 DEF IInv, ResumeExact
  <2>2. Exact(run)' /\ epoch_rng' = run'.rng
    BY <1>1, <2>1, SameParts DEF Open
  <2>3. QED
    BY <1>1, <2>2 DEF RunExact, Between, Inside
<1>8. ResumeExact'
  BY <1>1, <1>3, <1>4, <1>6, SameParts DEF IInv, ResumeExact, Between
<1>9. HistoryExact'
  BY <1>1, <1>3, <1>4, SameParts DEF IInv, HistoryExact, Between, Inside, IsAt
<1>10. OutputsExact'
  BY <1>1, <1>3, <1>4 DEF IInv, OutputsExact, Done, EpochsFile
<1>11. QED
  BY <1>5, <1>7, <1>8, <1>9, <1>10 DEF IInv

\* config.json is written with what the run was started with, or is that already.
LEMMA ConfigureKeeps == ASSUME IInv, Configure PROVE IInv'
<1>1. phase = "opening" /\ phase' = "trimming" /\ inputs' = inputs
  BY DEF Configure
<1>2. UNCHANGED <<run, epoch_rng, resume, history, epochs, outputs>>
  BY DEF Configure
<1>3. (Saved' <=> Saved) /\ (Complete' <=> Complete)
  BY <1>2 DEF Saved, Complete
<1>4. Inputs'
  BY <1>1, SameParts DEF IInv, Between
<1>5. RunExact'
  BY <1>1, <1>2, SameParts DEF IInv, RunExact, Between, Inside
<1>6. config' = run.given
  <2>1. Saved => run = resume /\ resume.given = config
    BY <1>1 DEF IInv, ResumeExact, Between
  <2>2. QED
    BY <2>1 DEF Configure
<1>7. ResumeExact'
  BY <1>1, <1>2, <1>3, <1>6, SameParts DEF IInv, ResumeExact, Between
<1>8. HistoryExact'
  BY <1>1, <1>2, <1>3, SameParts DEF IInv, HistoryExact, Between, Inside, IsAt
<1>9. OutputsExact'
  BY <1>1, <1>2, <1>3 DEF IInv, OutputsExact, Done, EpochsFile
<1>10. QED
  BY <1>4, <1>5, <1>7, <1>8, <1>9 DEF IInv

\* history.csv is cut back to the resume position, and no epoch is missing in epochs.csv.
LEMMA TrimKeeps == ASSUME IInv, Trim PROVE IInv'
<1>1. /\ phase = "trimming" /\ phase' = IF run.rows # <<>> THEN "recording" ELSE "epoch"
      /\ inputs' = inputs /\ history' = Kept(run.epoch, run.step)
  BY DEF Trim
<1>2. UNCHANGED <<run, epoch_rng, config, resume, epochs, outputs>>
  BY DEF Trim
<1>3. (Saved' <=> Saved) /\ (Complete' <=> Complete)
  BY <1>2 DEF Saved, Complete
<1>4. Inputs'
  BY <1>1, SameParts DEF IInv, Between
<1>5. RunExact'
  BY <1>1, <1>2, SameParts DEF IInv, RunExact, Between, Inside
<1>6. Exact(run) /\ run.epoch \in 0..Epochs /\ run.step \in 0..Steps
  BY <1>1 DEF IInv, RunExact, Between, Exact, Reached
<1>7. IF Saved THEN run = resume /\ (run.epoch > 0 \/ run.step > 0)
      ELSE run.epoch = 0 /\ run.step = 0
  BY <1>1 DEF IInv, ResumeExact, Between
<1>8. /\ Table(history'.rows) /\ Whole(history'.rows)
      /\ EndsAt(history'.rows, run.epoch, run.step)
      /\ Saved => \E i \in 1..Len(history'.rows) :
                    IsAt(history'.rows[i], resume.epoch, resume.step)
  <2>1. \/ run.epoch = 0 /\ run.step = 0
        \/ \E i \in 1..Len(history.rows) : IsAt(history.rows[i], run.epoch, run.step)
    BY <1>7 DEF IInv, HistoryExact
  <2>2. Table(history.rows)
    BY DEF IInv, HistoryExact
  <2>3. LET rows == history'.rows
        IN /\ Table(rows) /\ Whole(rows) /\ EndsAt(rows, run.epoch, run.step)
           /\ ~(run.epoch = 0 /\ run.step = 0) =>
                \E i \in 1..Len(rows) : IsAt(rows[i], run.epoch, run.step)
    BY <1>1, <1>6, <2>1, <2>2, KeptIs
  <2>4. ~(run.epoch > 0 /\ run.epoch = 0) /\ ~(run.step > 0 /\ run.step = 0)
    OBVIOUS
  <2>5. QED
    BY <1>7, <2>3, <2>4
<1>9. ResumeExact'
  BY <1>1, <1>2, <1>3, SameParts DEF IInv, ResumeExact, Between
<1>10. HistoryExact'
  BY <1>1, <1>2, <1>3, <1>8, SameParts
    DEF IInv, HistoryExact, Between, Inside, IsAt, EndsAt, Whole
<1>11. OutputsExact'
  <2>1. run.rows = <<>> => ~(run.epoch > 0)
    <3>1. run.rows = [i \in 1..run.epoch |-> StraightRow(i)]
      BY <1>6, StraightFields DEF Exact, StraightRows
    <3>2. run.epoch > 0 => 1 \in 1..run.epoch
      BY <1>6, RunAssumption
    <3>3. run.epoch > 0 => DOMAIN run.rows # {}
      BY <3>1, <3>2
    <3>4. QED
      BY <3>3
  <2>2. QED
    BY <1>1, <1>2, <1>3, <2>1 DEF IInv, OutputsExact, Done, EpochsFile
<1>12. QED
  BY <1>4, <1>5, <1>9, <1>10, <1>11 DEF IInv

\* An epoch's schedule is drawn, and its first interval begins where the table ends.
LEMMA StartEpochKeeps == ASSUME IInv, StartEpoch PROVE IInv'
<1>1. /\ phase = "epoch" /\ phase' = "step" /\ inputs' = inputs /\ epoch_rng' = run.rng
      /\ interval' = 0 /\ run.epoch < Epochs /\ ~run.stopped
  BY DEF StartEpoch, More
<1>2. UNCHANGED files
  BY DEF StartEpoch
<1>3. UNCHANGED <<config, resume, history, epochs, outputs>>
  BY <1>2 DEF files
<1>4. (Saved' <=> Saved) /\ (Complete' <=> Complete)
  BY <1>3 DEF Saved, Complete
<1>5. Inputs'
  BY <1>1, SameParts DEF IInv, Inside
<1> DEFINE g == run.given
           n == run.epoch
           m == run.step
<1>6. /\ Exact(run) /\ run = Straight(g, n, m) /\ Reached(n, m)
      /\ run.stopped = Stops(n) /\ run.rng = n
  BY <1>1, StraightFields DEF IInv, RunExact, Between, Exact
<1>7. n \in 0..(Epochs - 1) /\ m \in 0..Steps
  BY <1>1, <1>6, RunAssumption DEF Reached
<1>8. run' = During(g, n, m)
  <2>1. run' = [run EXCEPT !.rng = @ + 1,
                           !.loss_steps = IF run.step = 0 THEN 0 ELSE @,
                           !.epoch_rejected = IF run.step = 0 THEN 0 ELSE @]
    BY DEF StartEpoch
  <2>2. \A state, new :
          state = Straight(g, n, m)
          /\ new = [state EXCEPT !.rng = @ + 1,
                                 !.loss_steps = IF state.step = 0 THEN 0 ELSE @,
                                 !.epoch_rejected = IF state.step = 0 THEN 0 ELSE @]
          => new = During(g, n, m)
    <3> HIDE DEF g, n, m
    <3>1. QED
      BY <1>7, StartExact DEF IInv
  <2>3. run = Straight(g, n, m)
    BY <1>6
  <2> HIDE DEF g, n, m
  <2>4. QED
    BY <2>1, <2>2, <2>3, Zenon
<1>9. run'.given = g /\ run'.epoch = n /\ run'.step = m
  BY <1>8, StraightFields
<1>10. ExactDuring(run')
  BY <1>1, <1>6, <1>8, <1>9 DEF ExactDuring
<1>11. RunExact'
  BY <1>1, <1>6, <1>9, <1>10, SameParts DEF RunExact, Between, Inside
<1>12. ResumeExact'
  BY <1>1, <1>3, <1>4, <1>9, SameParts DEF IInv, ResumeExact, Between
<1>13. HistoryExact'
  <2>1. EndsAt(history.rows, n, m) /\ Whole(history.rows)
    BY <1>1 DEF IInv, HistoryExact, Between
  <2>2. {n} \X (m..(m - 1)) = {}
    <3>1. m..(m - 1) = {}
      BY <1>7
    <3>2. QED
      BY <3>1
  <2>3. m \in 0..m
    BY <1>7
  <2>4. IntervalAt(phase', n, m, history.rows, 0, m)
    BY <1>1, <2>1, <2>2, <2>3, NoSteps DEF IntervalAt
  <2>5. \E from : IntervalFrom(from)'
    BY <1>1, <1>3, <1>9, <2>4, SameParts DEF IntervalFrom
  <2>6. QED
    BY <1>1, <1>3, <1>4, <2>1, <2>5, SameParts
      DEF IInv, HistoryExact, Between, Inside, IsAt, Whole
<1>14. OutputsExact'
  BY <1>1, <1>3, <1>4 DEF IInv, OutputsExact, Done, EpochsFile
<1>15. QED
  BY <1>5, <1>11, <1>12, <1>13, <1>14 DEF IInv

\* Inside an epoch a process has the state of an uninterrupted run and an interval under way.
LEMMA InsideIs ==
    ASSUME IInv, phase \in Inside
    PROVE  /\ run = During(run.given, run.epoch, run.step) /\ Reached(run.epoch, run.step)
           /\ run.epoch \in 0..(Epochs - 1) /\ run.step \in 0..Steps /\ ~Stops(run.epoch)
           /\ epoch_rng = run.epoch /\ config = run.given /\ ~Complete
           /\ Table(history.rows) /\ Whole(history.rows)
           /\ \E from : IntervalFrom(from)
<1>1. ExactDuring(run) /\ epoch_rng = run.epoch
  BY DEF IInv, RunExact
<1>2. phase # "down" /\ phase # "opening" /\ phase # "trimming"
  BY DEF Inside
<1>3. config = run.given /\ ~Complete
  BY <1>2 DEF IInv, ResumeExact, OutputsExact
<1>4. Table(history.rows) /\ Whole(history.rows) /\ \E from : IntervalFrom(from)
  BY <1>2 DEF IInv, HistoryExact
<1>5. QED
  BY <1>1, <1>3, <1>4, RunAssumption DEF ExactDuring, Reached

\* A step of the schedule is the next one of an uninterrupted run, and of the interval.
LEMMA TrainStepKeeps == ASSUME IInv, TrainStep PROVE IInv'
<1> DEFINE g == run.given
           n == run.epoch
           m == run.step
           lose == lost.training[<<n, m>>].roots
           trained == IF lose < Batch THEN 1 ELSE 0
           made == [given |-> g, epoch |-> n, step |-> m, rng |-> n]
<1>1. /\ phase = "step" /\ run.step < Steps /\ inputs' = inputs
      /\ phase' = IF EndsInterval(m + 1) THEN "logging" ELSE "step"
  BY DEF TrainStep
<1>2. UNCHANGED <<epoch_rng, files>>
  BY DEF TrainStep
<1>3. UNCHANGED <<epoch_rng, config, resume, history, epochs, outputs>>
  BY <1>2 DEF files
<1>4. (Saved' <=> Saved) /\ (Complete' <=> Complete)
  BY <1>3 DEF Saved, Complete
<1>5. Inputs'
  BY <1>1, SameParts DEF IInv, Inside
<1>6. /\ run = During(g, n, m) /\ Reached(n, m) /\ n \in 0..(Epochs - 1) /\ ~Stops(n)
      /\ epoch_rng = n /\ config = g /\ ~Complete /\ Whole(history.rows)
      /\ \E from : IntervalFrom(from)
  BY <1>1, InsideIs DEF Inside
<1>7. m \in 0..(Steps - 1) /\ m \in 0..Steps
  BY <1>1, <1>6, RunAssumption DEF Reached
<1>8. run' = During(g, n, m + 1)
  <2>1. run' = Advanced(run, trained, made, lose)
    BY <1>6 DEF TrainStep, StepLost, Advanced
  <2>2. Advanced(During(g, n, m), trained, made, lose) = During(g, n, m + 1)
    <3>1. Inputs /\ n \in 0..(Epochs - 1) /\ m \in 0..(Steps - 1)
      BY <1>6, <1>7 DEF IInv
    <3> HIDE DEF g, n, m
    <3>2. QED
      BY <3>1, TrainExact
  <2>3. run = During(g, n, m)
    BY <1>6
  <2> HIDE DEF g, n, m, lose, trained, made
  <2>4. QED
    BY <2>1, <2>2, <2>3, Zenon
<1>9. run'.given = g /\ run'.epoch = n /\ run'.step = m + 1
  BY <1>8, StraightFields
<1>10. ExactDuring(run')
  <2>1. Reached(n, m + 1)
    BY <1>6, <1>7, RunAssumption DEF Reached
  <2>2. n < Epochs
    BY <1>6, RunAssumption
  <2>3. QED
    BY <1>6, <1>8, <1>9, <2>1, <2>2 DEF ExactDuring
<1>11. RunExact'
  BY <1>1, <1>3, <1>6, <1>7, <1>9, <1>10, SameParts, RunAssumption
    DEF RunExact, Between, Inside
<1>12. ResumeExact'
  BY <1>1, <1>3, <1>4, <1>6, <1>9, SameParts DEF IInv, ResumeExact, Between
<1>13. HistoryExact'
  <2>1. PICK from : IntervalFrom(from)
    BY <1>6
  <2>2. from \in 0..m /\ interval = Cardinality(TrainedAmong({n} \X (from..(m - 1))))
        /\ EndsAt(history.rows, n, from)
    BY <2>1 DEF IntervalFrom, IntervalAt
  <2>3. interval' = interval + trained
    BY DEF TrainStep, StepLost
  <2> DEFINE S == {n} \X (from..(m - 1))
  <2>4. /\ S \in SUBSET Positions /\ IsFiniteSet(S) /\ <<n, m>> \in Positions
        /\ <<n, m>> \notin S /\ {n} \X (from..m) = S \cup {<<n, m>>}
    <3>1. from..m = (from..(m - 1)) \cup {m} /\ m \notin from..(m - 1)
          /\ from..(m - 1) \subseteq 0..(Steps - 1)
      BY <1>7, <2>2, RunAssumption
    <3>2. IsFiniteSet(from..(m - 1)) /\ IsFiniteSet({n})
      <4>1. from \in Int /\ m - 1 \in Int
        BY <1>7, <2>2
      <4> HIDE DEF m, n
      <4>2. IsFiniteSet(from..(m - 1))
        BY <4>1, FS_Interval
      <4>3. QED
        BY <4>2, FS_Singleton
    <3>3. IsFiniteSet(S)
      BY <3>2, FS_Product
    <3>4. QED
      BY <1>6, <1>7, <3>1, <3>3 DEF Positions
  <2>5. Cardinality(TrainedAmong(S \cup {<<n, m>>})) = Cardinality(TrainedAmong(S)) + trained
    <3>1. \A p \in Positions : p \notin S =>
            Cardinality(TrainedAmong(S \cup {p})) =
              Cardinality(TrainedAmong(S)) + IF lost.training[p].roots < Batch THEN 1 ELSE 0
      <4> HIDE DEF S
      <4>1. QED
        BY <2>4, AddStep DEF IInv
    <3> HIDE DEF S, n, m
    <3>2. QED
      BY <2>4, <3>1
  <2>6. (m + 1) - 1 = m /\ from \in 0..(m + 1) /\ from < m + 1
    BY <1>7, <2>2
  <2>7. phase' = "step" => m + 1 # Steps
    BY <1>1 DEF EndsInterval
  <2>8. IntervalAt(phase', n, m + 1, history.rows, interval', from)
    <3>1. interval' = Cardinality(TrainedAmong({n} \X (from..((m + 1) - 1))))
      BY <2>2, <2>3, <2>4, <2>5, <2>6
    <3>2. phase' # "saving"
      BY <1>1
    <3>3. QED
      BY <2>2, <2>6, <2>7, <3>1, <3>2 DEF IntervalAt
  <2>9. \E f : IntervalFrom(f)'
    BY <1>1, <1>3, <1>9, <2>8, SameParts DEF IntervalFrom
  <2>10. QED
    BY <1>1, <1>3, <1>4, <1>6, <2>9, SameParts
      DEF IInv, HistoryExact, Between, Inside, IsAt, Whole
<1>14. OutputsExact'
  BY <1>1, <1>3, <1>4, <1>6 DEF IInv, OutputsExact, Done, EpochsFile
<1>15. QED
  BY <1>5, <1>11, <1>12, <1>13, <1>14 DEF IInv

\* Steps lose a number of roots.
LEMMA CountsType ==
    ASSUME Inputs, NEW S \in SUBSET Positions
    PROVE  Cardinality(TrainedAmong(S)) \in Nat /\ LostAmong(S) \in Nat
<1>1. IsFiniteSet(Positions)
  <2>1. IsFiniteSet(0..(Epochs - 1)) /\ IsFiniteSet(0..(Steps - 1))
    BY RunAssumption, FS_Interval
  <2>2. QED
    BY <2>1, FS_Product DEF Positions
<1>2. IsFiniteSet(S)
  BY <1>1, FS_Subset
<1>3. TrainedAmong(S) \in SUBSET S
  BY DEF TrainedAmong
<1>4. IsFiniteSet(S \X (1..Batch))
  <2>1. IsFiniteSet(1..Batch)
    BY RunAssumption, FS_Interval
  <2>2. QED
    BY <1>2, <2>1, FS_Product
<1>5. LostRoots(S) \in SUBSET (S \X (1..Batch))
  BY DEF LostRoots
<1>6. QED
  BY <1>2, <1>3, <1>4, <1>5, FS_Subset, FS_CardinalityType DEF LostAmong

\* The row of an interval that begins where a table ends tiles, and is later than the rest.
LEMMA RowFollows ==
    ASSUME NEW rows, Table(rows), NEW n \in 0..(Epochs - 1), NEW m \in 0..Steps,
           NEW from \in 0..m, from < m, EndsAt(rows, n, from),
           NEW row, row.epoch = n + 1, row.step = m, ~row.torn,
           CountsItsSteps(row, from)
    PROVE  Tiles(Append(rows, row), Len(rows) + 1) /\ (rows = <<>> \/ Earlier(rows[Len(rows)], row))
<1> DEFINE more == Append(rows, row)
           k == Len(rows)
<1>1. rows \in Seq(HistoryRows) /\ k \in Nat
  BY DEF Table
<1>2. more[k + 1] = row /\ \A i \in 1..k : more[i] = rows[i]
  BY <1>1
<1>3. n \in Nat /\ m \in Nat /\ from \in Nat /\ Steps \in Nat /\ Steps > 0 /\ m <= Steps
  BY RunAssumption
<1>4. k + 1 = 1 <=> rows = <<>>
  BY <1>1
<1>5. rows # <<>> => k \in 1..k /\ more[(k + 1) - 1] = rows[k]
  BY <1>1, <1>2
<1> HIDE DEF more, k
<1>6. CASE rows = <<>>
  <2>1. n = 0 /\ from = 0
    BY <1>1, <1>6 DEF EndsAt, k
  <2>2. NewEpoch(more, k + 1) /\ From(more, k + 1) = 0
    BY <1>4, <1>6 DEF NewEpoch, From
  <2>3. FollowsOn(more, k + 1)
    BY <1>2, <1>4, <1>6, <2>1, <2>2 DEF FollowsOn
  <2>4. QED
    BY <1>2, <1>6, <2>1, <2>2, <2>3 DEF Tiles, more, k
<1>7. CASE rows # <<>> /\ from = 0
  <2>1. rows[k].epoch = n /\ rows[k].step = Steps
    BY <1>7 DEF EndsAt, IsAt, k
  <2>2. NewEpoch(more, k + 1)
    BY <1>2, <1>3, <1>5, <1>7, <2>1 DEF NewEpoch
  <2>3. From(more, k + 1) = 0
    BY <2>2 DEF From
  <2>4. FollowsOn(more, k + 1)
    BY <1>2, <1>3, <1>4, <1>5, <1>7, <2>1, <2>3 DEF FollowsOn
  <2>5. Earlier(rows[k], row)
    BY <1>3, <2>1 DEF Earlier
  <2>6. QED
    BY <1>2, <1>7, <2>3, <2>4, <2>5 DEF Tiles, more, k
<1>8. CASE rows # <<>> /\ from # 0
  <2>1. rows[k].epoch = n + 1 /\ rows[k].step = from
    BY <1>3, <1>8 DEF EndsAt, IsAt, k
  <2>2. ~NewEpoch(more, k + 1)
    BY <1>2, <1>4, <1>5, <1>8, <2>1 DEF NewEpoch
  <2>3. From(more, k + 1) = from
    BY <1>5, <1>8, <2>1, <2>2 DEF From
  <2>4. FollowsOn(more, k + 1)
    BY <1>2, <2>2, <2>3 DEF FollowsOn
  <2>5. Earlier(rows[k], row)
    BY <2>1 DEF Earlier
  <2>6. QED
    BY <1>2, <2>3, <2>4, <2>5 DEF Tiles, more, k
<1>9. QED
  BY <1>6, <1>7, <1>8

\* While a row is appended, it may be cut short or not, it is a row of the table.
LEMMA RowIs ==
    ASSUME IInv, phase = "logging", NEW torn \in BOOLEAN, NEW from, IntervalFrom(from)
    PROVE  /\ Row(torn) \in HistoryRows /\ Row(torn).torn = torn
           /\ Row(torn).epoch = run.epoch + 1 /\ Row(torn).step = run.step
           /\ CountsItsSteps(Row(torn), from)
<1> DEFINE n == run.epoch
           m == run.step
<1>1. run = During(run.given, n, m) /\ Reached(n, m) /\ n \in 0..(Epochs - 1) /\ m \in 0..Steps
  BY InsideIs DEF Inside
<1>2. /\ from \in 0..m /\ from < m
      /\ interval = Cardinality(TrainedAmong({n} \X (from..(m - 1))))
  BY DEF IntervalFrom, IntervalAt
<1>3. run.rejected = LostAmong(Before(n, m))
  BY <1>1, StraightFields
<1>4. n \in Nat /\ m \in Nat /\ m > 0 /\ (n + 1) - 1 = n
  BY <1>1, <1>2, RunAssumption
<1>5. Before(n, m) \in SUBSET Positions
  BY <1>1, StepsBefore
<1>6. {n} \X (from..(m - 1)) \in SUBSET Positions
  BY <1>1, <1>2, RunAssumption DEF Positions
<1>7. interval \in Nat /\ run.rejected \in Nat
  BY <1>2, <1>3, <1>5, <1>6, CountsType DEF IInv
<1>8. n + 1 \in 1..Epochs /\ m \in 1..Steps
  BY <1>1, <1>4, RunAssumption
<1>9. Row(torn) \in HistoryRows
  BY <1>7, <1>8 DEF Row, HistoryRows
<1>10. CountsItsSteps(Row(torn), from)
  BY <1>2, <1>3, <1>4 DEF CountsItsSteps, Row
<1>11. QED
  BY <1>9, <1>10 DEF Row

\* The interval becomes the next row of the table, and the next one begins after it.
LEMMA LogKeeps == ASSUME IInv, Log PROVE IInv'
<1> DEFINE n == run.epoch
           m == run.step
           rows == history.rows
<1>1. /\ phase = "logging" /\ phase' = IF Saves(m) THEN "saving" ELSE "step"
      /\ inputs' = inputs /\ interval' = 0 /\ history'.rows = Append(rows, Row(FALSE))
  BY DEF Log
<1>2. UNCHANGED <<run, epoch_rng, config, resume, epochs, outputs>>
  BY DEF Log
<1>3. (Saved' <=> Saved) /\ (Complete' <=> Complete)
  BY <1>2 DEF Saved, Complete
<1>4. Inputs'
  BY <1>1, SameParts DEF IInv, Inside
<1>5. /\ Reached(n, m) /\ n \in 0..(Epochs - 1) /\ m \in 0..Steps /\ ~Complete
      /\ Table(rows) /\ Whole(rows) /\ \E from : IntervalFrom(from)
  BY <1>1, InsideIs DEF Inside
<1>6. PICK from : IntervalFrom(from)
  BY <1>5
<1>7. from \in 0..m /\ from < m /\ EndsAt(rows, n, from)
  BY <1>1, <1>6 DEF IntervalFrom, IntervalAt
<1>8. m \in Nat /\ m > 0
  BY <1>5, <1>7, RunAssumption
<1>9. RunExact'
  BY <1>1, <1>2, <1>8, SameParts DEF IInv, RunExact, Between, Inside
<1>10. ResumeExact'
  BY <1>1, <1>2, <1>3, SameParts DEF IInv, ResumeExact, Between
<1> DEFINE row == Row(FALSE)
           more == Append(rows, row)
<1>11. /\ row \in HistoryRows /\ ~row.torn /\ row.epoch = n + 1 /\ row.step = m
       /\ CountsItsSteps(row, from)
  BY <1>1, <1>6, RowIs
<1> HIDE DEF row
<1>12. Tiles(Append(rows, row), Len(rows) + 1) /\ (rows = <<>> \/ Earlier(rows[Len(rows)], row))
  <2> HIDE DEF rows, n, m
  <2>1. QED
    BY <1>5, <1>7, <1>11, RowFollows
<1>13. /\ Table(more) /\ Whole(more) /\ Len(more) = Len(rows) + 1 /\ more[Len(rows) + 1] = row
       /\ \A i \in 1..Len(rows) : more[i] = rows[i]
  <2> HIDE DEF rows, n, m
  <2>1. QED
    BY <1>5, <1>11, <1>12, TableAppend
<1>14. EndsAt(more, n, m)
  <2>1. Len(rows) \in Nat
    BY <1>5 DEF Table
  <2> HIDE DEF more
  <2>2. QED
    BY <1>8, <1>11, <1>13, <2>1 DEF EndsAt, IsAt
<1>15. IntervalAt(phase', n, m, more, 0, m)
  <2>1. {n} \X (m..(m - 1)) = {}
    <3>1. m..(m - 1) = {}
      BY <1>8
    <3>2. QED
      BY <3>1
  <2>2. phase' # "logging" /\ m \in 0..m
    BY <1>1, <1>8
  <2>3. QED
    BY <1>14, <2>1, <2>2, NoSteps DEF IntervalAt
<1>16. HistoryExact'
  <2>1. \E f : IntervalFrom(f)'
    BY <1>1, <1>2, <1>15, SameParts DEF IntervalFrom, row
  <2>2. history'.rows = more
    BY <1>1 DEF row
  <2>3. Saved => \E i \in 1..Len(more) : IsAt(more[i], resume.epoch, resume.step)
    <3>1. \A i \in 1..Len(rows) : i \in 1..(Len(rows) + 1)
      BY <1>5 DEF Table
    <3>2. QED
      BY <1>13, <3>1 DEF IInv, HistoryExact
  <2>4. (Table(history.rows))'
    BY <1>1, <1>13, <2>2, SameParts
  <2> HIDE DEF more
  <2>5. QED
    BY <1>1, <1>2, <1>3, <1>13, <2>1, <2>2, <2>3, <2>4
      DEF HistoryExact, Between, Inside, IsAt, Whole
<1>17. OutputsExact'
  BY <1>1, <1>2, <1>3, <1>5 DEF IInv, OutputsExact, Done
<1>18. QED
  BY <1>4, <1>9, <1>10, <1>16, <1>17 DEF IInv

\* A process that ends loses its memory and nothing else.
LEMMA EndsKeeps ==
    ASSUME IInv, Ends, phase # "down",
           UNCHANGED <<config, resume, epochs, outputs>>,
           /\ Table(history'.rows)
           /\ Saved => \E i \in 1..Len(history'.rows) :
                         IsAt(history'.rows[i], resume.epoch, resume.step)
    PROVE  IInv'
<1>1. phase' = "down" /\ inputs' = inputs
  BY DEF Ends
<1>2. (Saved' <=> Saved) /\ (Complete' <=> Complete) /\ ~Complete
  BY DEF Saved, Complete, IInv, OutputsExact
<1>3. Inputs'
  BY <1>1, SameParts DEF IInv
<1>4. RunExact' /\ ResumeExact'
  BY <1>1, <1>2, SameParts DEF IInv, RunExact, ResumeExact, Between, Inside
<1>5. HistoryExact'
  BY <1>1, <1>2, SameParts DEF HistoryExact, Between, Inside, IsAt
<1>6. OutputsExact'
  BY <1>1, <1>2 DEF IInv, OutputsExact, Done
<1>7. QED
  BY <1>3, <1>4, <1>5, <1>6 DEF IInv

\* A crash while a row is appended leaves it cut short at the end, or the header.
LEMMA CrashAppendingKeeps == ASSUME IInv, CrashAppending PROVE IInv'
<1> DEFINE rows == history.rows
           row == Row(TRUE)
<1>1. phase = "logging" /\ Ends /\ UNCHANGED <<config, resume, epochs, outputs>>
  BY DEF CrashAppending, Dies
<1>2. Table(rows) /\ Whole(rows) /\ \E from : IntervalFrom(from)
  BY <1>1, InsideIs DEF Inside
<1>3. Saved => \E i \in 1..Len(rows) : IsAt(rows[i], resume.epoch, resume.step)
  BY DEF IInv, HistoryExact
<1>4. row \in HistoryRows /\ row.torn
  BY <1>1, <1>2, RowIs
<1>5. history'.rows = Append(rows, row) \/ history'.rows = rows
  <2>1. \/ history' = [file |-> "table", rows |-> Append(rows, row)]
        \/ history' = [history EXCEPT !.file = "cut"]
    BY DEF CrashAppending
  <2>2. [file |-> "table", rows |-> Append(rows, row)].rows = Append(rows, row)
    OBVIOUS
  <2>3. [history EXCEPT !.file = "cut"].rows = rows
    OBVIOUS
  <2> HIDE DEF rows, row
  <2>4. QED
    BY <2>1, <2>2, <2>3, Zenon
<1>6. CASE history'.rows = rows
  BY <1>1, <1>2, <1>3, <1>6, EndsKeeps
<1>7. CASE history'.rows = Append(rows, row)
  <2>1. /\ Table(Append(rows, row)) /\ Len(Append(rows, row)) = Len(rows) + 1
        /\ \A i \in 1..Len(rows) : Append(rows, row)[i] = rows[i]
    <3> HIDE DEF rows, row
    <3>1. QED
      BY <1>2, <1>4, TableAppend
  <2>2. \A i \in 1..Len(rows) : i \in 1..(Len(rows) + 1)
    BY <1>2 DEF Table
  <2>3. Saved => \E i \in 1..Len(history'.rows) :
                   IsAt(history'.rows[i], resume.epoch, resume.step)
    BY <1>3, <1>7, <2>1, <2>2
  <2>4. QED
    BY <1>1, <1>7, <2>1, <2>3, EndsKeeps
<1>8. QED
  BY <1>5, <1>6, <1>7

\* Rejected roots, an error or a crash between two writes end the process.
LEMMA EndKeeps == ASSUME IInv, Refused \/ Crash PROVE IInv'
<1>1. Ends /\ phase # "down" /\ UNCHANGED files
  BY DEF Refused, Crash, Dies
<1>2. UNCHANGED <<config, resume, history, epochs, outputs>>
  BY <1>1 DEF files
<1>3. Table(history'.rows)
      /\ (Saved => \E i \in 1..Len(history'.rows) :
                     IsAt(history'.rows[i], resume.epoch, resume.step))
  BY <1>2 DEF IInv, HistoryExact
<1>4. QED
  BY <1>1, <1>2, <1>3, EndsKeeps

\* A table that ends at a position has its row.
LEMMA EndRow ==
    ASSUME NEW rows, NEW n, NEW m, ~(n = 0 /\ m = 0), EndsAt(rows, n, m), Len(rows) \in Nat
    PROVE  \E i \in 1..Len(rows) : IsAt(rows[i], n, m)
<1>1. Len(rows) \in 1..Len(rows) /\ IsAt(rows[Len(rows)], n, m)
  BY DEF EndsAt
<1>2. QED
  BY <1>1

\* What is saved is a state that is found again.
LEMMA ExactSaved == ASSUME NEW s, Exact(s) PROVE s # NoResume
<1>1. s.epoch \in Nat
  BY RunAssumption DEF Exact, Reached
<1>2. NoResume.epoch = -1
  BY DEF NoResume, Fresh, Missing
<1>3. QED
  BY <1>1, <1>2

\* resume.pt becomes the state of an uninterrupted run whose rows are in the table.
LEMMA SaveKeeps == ASSUME IInv, Save PROVE IInv'
<1> DEFINE g == run.given
           n == run.epoch
           m == run.step
<1>1. /\ phase \in {"saving", "checkpoint"} /\ inputs' = inputs
      /\ phase' = IF phase = "saving" THEN "step" ELSE "recording"
      /\ resume' = [run EXCEPT !.rng = epoch_rng]
  BY DEF Save
<1>2. UNCHANGED <<run, epoch_rng, interval, config, history, epochs, outputs>>
  BY DEF Save
<1>3. ~Complete' /\ config = g /\ Table(history.rows) /\ Whole(history.rows)
  <2>1. phase # "down" /\ phase # "opening" /\ phase # "trimming"
    BY <1>1
  <2>2. ~Complete
    BY <2>1 DEF IInv, OutputsExact
  <2>3. QED
    BY <1>2, <2>1, <2>2 DEF IInv, ResumeExact, HistoryExact, Complete
<1>4. Inputs'
  BY <1>1, SameParts DEF IInv, Inside, Between
<1>5. RunExact'
  BY <1>1, <1>2, SameParts DEF IInv, RunExact, Between, Inside
<1>6. /\ Exact(resume') /\ resume'.given = g /\ resume'.epoch = n /\ resume'.step = m
      /\ n > 0 \/ m > 0
      /\ \E i \in 1..Len(history.rows) : IsAt(history.rows[i], n, m)
      /\ phase = "checkpoint" => resume' = run
  <2>1. Len(history.rows) \in Nat
    BY <1>3 DEF Table
  <2>2. CASE phase = "saving"
    <3>1. /\ run = During(g, n, m) /\ Reached(n, m) /\ n \in 0..(Epochs - 1) /\ m \in 0..Steps
          /\ epoch_rng = n /\ \E from : IntervalFrom(from)
      BY <2>2, InsideIs DEF Inside
    <3>2. m > 0
      BY <2>2 DEF IInv, RunExact
    <3>3. m \in 1..Steps
      BY <3>1, <3>2, RunAssumption
    <3>4. resume' = Straight(g, n, m)
      <4>1. [During(g, n, m) EXCEPT !.rng = n] = Straight(g, n, m)
        <5> HIDE DEF g, n, m
        <5>1. QED
          BY <3>1, <3>3, SaveExact
      <4>2. run = During(g, n, m) /\ epoch_rng = n
        BY <3>1
      <4> HIDE DEF g, n, m
      <4>3. QED
        BY <1>1, <4>1, <4>2, Zenon
    <3>5. /\ resume'.given = g /\ resume'.epoch = n /\ resume'.step = m
      BY <3>4, StraightFields
    <3>6. Exact(resume')
      BY <3>1, <3>4, <3>5 DEF Exact
    <3>7. EndsAt(history.rows, n, m)
      BY <2>2, <3>1 DEF IntervalFrom, IntervalAt
    <3>8. ~(n = 0 /\ m = 0)
      BY <3>2
    <3>9. \E i \in 1..Len(history.rows) : IsAt(history.rows[i], n, m)
      <4> HIDE DEF n, m
      <4>1. QED
        BY <2>1, <3>7, <3>8, EndRow
    <3>10. QED
      BY <2>2, <3>2, <3>5, <3>6, <3>9
  <2>3. CASE phase = "checkpoint"
    <3>1. Exact(run) /\ epoch_rng = run.rng /\ m = 0 /\ n > 0
      BY <2>3 DEF IInv, RunExact, Between
    <3>2. resume' = run
      <4>1. run = At(g, n, m, n, Recent(n, m))
        BY <3>1, StraightIs DEF Exact
      <4>2. [run EXCEPT !.rng = run.rng] = run
        BY <4>1 DEF At
      <4>3. QED
        BY <1>1, <3>1, <4>2
    <3>3. EndsAt(history.rows, n, m)
      BY <2>3 DEF IInv, HistoryExact, Between
    <3>4. ~(n = 0 /\ m = 0)
      BY <3>1
    <3>5. \E i \in 1..Len(history.rows) : IsAt(history.rows[i], n, m)
      <4> HIDE DEF n, m
      <4>1. QED
        BY <2>1, <3>3, <3>4, EndRow
    <3>6. QED
      BY <3>1, <3>2, <3>5
  <2>4. QED
    BY <1>1, <2>2, <2>3
<1>7. Saved'
  BY <1>6, ExactSaved DEF Saved, NoResume, Fresh
<1>8. ResumeExact'
  BY <1>1, <1>2, <1>3, <1>6, <1>7, SameParts DEF ResumeExact, Between
<1>9. HistoryExact'
  <2>1. Table(history.rows)'
    BY <1>1, <1>2, <1>3, SameParts
  <2>2. phase' = "recording" => EndsAt(history.rows, n, m)
    BY <1>1 DEF IInv, HistoryExact, Between
  <2>3. phase' = "step" => \E from : IntervalAt(phase', n, m, history.rows, interval', from)
    <3>1. SUFFICES ASSUME phase = "saving" 
                   PROVE  \E from : IntervalAt("step", n, m, history.rows, interval, from)
      BY <1>1, <1>2
    <3>2. PICK from : IntervalFrom(from)
      BY <3>1, InsideIs DEF Inside
    <3>3. IntervalAt("step", n, m, history.rows, interval, from)
      BY <3>1, <3>2 DEF IntervalFrom, IntervalAt
    <3>4. QED
      BY <3>3
  <2>4. phase' = "step" => \E from : IntervalFrom(from)'
    BY <1>1, <1>2, <2>3, SameParts DEF IntervalFrom
  <2>5. QED
    BY <1>1, <1>2, <1>3, <1>6, <2>1, <2>2, <2>4
      DEF HistoryExact, Between, Inside, IsAt, Whole, EndsAt
<1>10. OutputsExact'
  BY <1>1, <1>2, <1>3 DEF IInv, OutputsExact, Done
<1>11. QED
  BY <1>4, <1>5, <1>8, <1>9, <1>10 DEF IInv

\* An epoch whose schedule is done is selected from as by an uninterrupted run.
LEMMA SelectEpochKeeps == ASSUME IInv, SelectEpoch PROVE IInv'
<1> DEFINE g == run.given
           n == run.epoch
           better == curve[n + 1] > run.best_value
           best == IF better THEN n + 1 ELSE run.best_epoch
           stops == StopsEarly(n + 1, best)
           row == EpochRow(n + 1, stops)
<1>1. /\ phase = "step" /\ run.step = Steps /\ inputs' = inputs /\ phase' = "checkpoint"
      /\ epoch_rng' = run.rng
  BY DEF SelectEpoch
<1>2. UNCHANGED files
  BY DEF SelectEpoch
<1>3. UNCHANGED <<config, resume, history, epochs, outputs>>
  BY <1>2 DEF files
<1>4. (Saved' <=> Saved) /\ (Complete' <=> Complete)
  BY <1>3 DEF Saved, Complete
<1>5. Inputs'
  BY <1>1, SameParts DEF IInv, Between
<1>6. /\ run = During(g, n, Steps) /\ Reached(n, Steps) /\ n \in 0..(Epochs - 1) /\ ~Stops(n)
      /\ config = g /\ ~Complete /\ Whole(history.rows) /\ \E from : IntervalFrom(from)
  BY <1>1, InsideIs DEF Inside
<1>7. run' = Straight(g, n + 1, 0) /\ run.rng = n + 1
  <2>1. run' = Selected(run, n + 1, better, best, stops, row)
    BY DEF SelectEpoch, Selected
  <2>2. /\ better = (curve[n + 1] > During(g, n, Steps).best_value)
        /\ best = IF better THEN n + 1 ELSE During(g, n, Steps).best_epoch
        /\ row = [epoch |-> n + 1, steps |-> During(g, n, Steps).loss_steps,
                  value |-> curve[n + 1], stopped |-> stops]
    BY <1>6 DEF EpochRow
  <2>3. stops = StopsEarly(n + 1, best)
    OBVIOUS
  <2>4. Inputs /\ n \in 0..(Epochs - 1) /\ run = During(g, n, Steps)
    BY <1>6 DEF IInv
  <2> HIDE DEF g, n, better, best, stops, row
  <2>5. /\ During(g, n, Steps).rng = n + 1
        /\ Selected(During(g, n, Steps), n + 1, better, best, stops, row) = Straight(g, n + 1, 0)
    BY <2>2, <2>3, <2>4, SelectExact
  <2>6. QED
    BY <2>1, <2>4, <2>5, Zenon
<1>8. /\ run'.given = g /\ run'.epoch = n + 1 /\ run'.step = 0 /\ run'.rng = n + 1
  BY <1>7, StraightFields
<1>9. n \in Nat /\ n + 1 \in 0..Epochs /\ (n + 1) - 1 = n
  BY <1>6, RunAssumption
<1>10. Exact(run')
  <2>1. \A i \in 1..n : ~Stops(i)
    <3>1. \A i \in 1..n : i \in 1..(n - 1) \/ i = n
      BY <1>9
    <3>2. QED
      BY <1>6, <3>1 DEF Reached
  <2>2. Reached(n + 1, 0)
    BY <1>9, <2>1, RunAssumption DEF Reached
  <2>3. QED
    BY <1>7, <1>8, <2>2 DEF Exact
<1>11. RunExact'
  BY <1>1, <1>7, <1>8, <1>9, <1>10, SameParts DEF RunExact, Between, Inside
<1>12. ResumeExact'
  BY <1>1, <1>3, <1>4, <1>6, <1>8, SameParts DEF IInv, ResumeExact, Between
<1>13. HistoryExact'
  <2>1. EndsAt(history.rows, n, Steps)
    BY <1>1, <1>6 DEF IntervalFrom, IntervalAt
  <2>2. EndsAt(history.rows, n + 1, 0)
    BY <1>9, <2>1, RunAssumption DEF EndsAt, IsAt
  <2>3. QED
    BY <1>1, <1>3, <1>4, <1>6, <1>8, <2>2, SameParts
      DEF IInv, HistoryExact, Between, Inside, IsAt, Whole, EndsAt
<1>14. OutputsExact'
  BY <1>1, <1>3, <1>4, <1>6 DEF IInv, OutputsExact, Done
<1>15. QED
  BY <1>5, <1>11, <1>12, <1>13, <1>14 DEF IInv

\* epochs.csv is written from the state between two epochs.
LEMMA RecordKeeps == ASSUME IInv, Record PROVE IInv'
<1>1. phase = "recording" /\ phase' = "epoch" /\ inputs' = inputs /\ epochs' = EpochsFile(run)
  BY DEF Record, EpochsFile
<1>2. UNCHANGED <<run, epoch_rng, interval, config, resume, history, outputs>>
  BY DEF Record
<1>3. (Saved' <=> Saved) /\ (Complete' <=> Complete) /\ ~Complete
  BY <1>1, <1>2 DEF Saved, Complete, IInv, OutputsExact
<1>4. Inputs'
  BY <1>1, SameParts DEF IInv, Between
<1>5. RunExact'
  BY <1>1, <1>2, SameParts DEF IInv, RunExact, Between, Inside
<1>6. ResumeExact'
  BY <1>1, <1>2, <1>3, SameParts DEF IInv, ResumeExact, Between
<1>7. HistoryExact'
  BY <1>1, <1>2, <1>3, SameParts DEF IInv, HistoryExact, Between, Inside, IsAt, Whole, EndsAt
<1>8. OutputsExact'
  BY <1>1, <1>2, <1>3 DEF IInv, OutputsExact, Done, EpochsFile
<1>9. QED
  BY <1>4, <1>5, <1>6, <1>7, <1>8 DEF IInv

\* The files of the end are written in their order, each from the state after the last epoch.
LEMMA WriteKeeps == ASSUME IInv, Write PROVE IInv'
<1> DEFINE next == NextOutput[phase]
<1>1. /\ phase \in {"epoch", "model", "validation", "test"} /\ inputs' = inputs
      /\ phase' = IF phase = "test" THEN "down" ELSE next
      /\ outputs' = [outputs EXCEPT ![next] = Written(next, run)]
      /\ phase = "epoch" => ~More /\ ~Unselected
  BY DEF Write, NextOutput
<1>2. UNCHANGED <<run, epoch_rng, interval, config, resume, history, epochs>>
  BY DEF Write
<1>3. /\ phase = "epoch" => next = "model"
      /\ phase = "model" => next = "validation"
      /\ phase = "validation" => next = "test"
      /\ phase = "test" => next = "metrics"
  BY DEF NextOutput
<1>4. (Saved' <=> Saved) /\ ~Complete
  BY <1>1, <1>2 DEF Saved, IInv, OutputsExact
<1>5. Inputs'
  BY <1>1, <1>3, SameParts DEF IInv, Between
<1>6. RunExact'
  BY <1>1, <1>2, <1>3, SameParts DEF IInv, RunExact, Between, Inside
<1>7. Exact(run)
  BY <1>1 DEF IInv, RunExact, Between
<1>8. Ended(run)
  <2>1. CASE phase = "epoch"
    <3>1. run.epoch \in 0..Epochs /\ run.step \in 0..Steps
      BY <1>7 DEF Exact, Reached
    <3>2. run.stopped = Stops(run.epoch) /\ run.best_epoch = Best(run.epoch)
      BY <1>7, StraightFields DEF Exact
    <3>3. ~(run.epoch < Epochs) \/ run.stopped = TRUE
      <4>1. Stops(run.epoch) \in BOOLEAN
        BY DEF Stops, StopsEarly
      <4>2. QED
        BY <1>1, <2>1, <3>2, <4>1 DEF More
    <3>4. run.epoch = Epochs \/ run.stopped
      BY <3>1, <3>3, RunAssumption
    <3>5. run.step = 0
      <4>1. ~(run.step > 0)
        BY <1>7, <3>2, <3>4, RunAssumption DEF Exact, Reached
      <4>2. QED
        BY <3>1, <4>1, RunAssumption
    <3>6. run.epoch > 0
      <4>1. Best(0) = 0
        BY BestStep, RunAssumption DEF IInv
      <4>2. run.epoch # 0
        BY <1>1, <2>1, <3>2, <4>1 DEF Unselected
      <4>3. QED
        BY <3>1, <4>2, RunAssumption
    <3>7. QED
      BY <3>4, <3>5, <3>6 DEF Ended
  <2>2. CASE phase # "epoch"
    BY <1>1, <2>2 DEF IInv, OutputsExact, Done
  <2>3. QED
    BY <2>1, <2>2
<1>9. run.epoch > 0 /\ epochs = EpochsFile(run)
  BY <1>1, <1>8 DEF Ended, IInv, OutputsExact, Done
<1>10. Saved /\ run = resume
  <2>1. IF Saved THEN run = resume ELSE run.epoch = 0
    BY <1>1 DEF IInv, ResumeExact, Between
  <2>2. QED
    BY <1>9, <2>1
<1>11. ResumeExact'
  BY <1>1, <1>2, <1>3, <1>4, SameParts DEF IInv, ResumeExact, Between
<1>12. EndsAt(history.rows, run.epoch, run.step)
  BY <1>1 DEF IInv, HistoryExact, Between
<1>13. HistoryExact'
  BY <1>1, <1>2, <1>3, <1>4, SameParts
    DEF IInv, HistoryExact, Between, Inside, IsAt, Whole, EndsAt
<1>14. outputs = [o \in Outputs |-> outputs[o]] /\ next \in Outputs
  BY <1>1, <1>3 DEF IInv, OutputsExact, Outputs
<1>15. /\ outputs' = [o \in Outputs |-> outputs'[o]]
       /\ \A o \in Outputs : outputs'[o] = IF o = next THEN Written(next, run) ELSE outputs[o]
  <2> HIDE DEF next
  <2>1. QED
    BY <1>1, <1>14
<1>16. \A o \in Done[phase] : phase \in DOMAIN Done => outputs[o] = Written(o, run)
  BY DEF IInv, OutputsExact
<1>17. CASE phase # "test"
  <2>1. outputs'["metrics"] = outputs["metrics"] /\ ~Complete'
    <3>1. "metrics" \in Outputs /\ next # "metrics"
      BY <1>1, <1>3, <1>17 DEF Outputs
    <3>2. outputs'["metrics"] = outputs["metrics"]
      BY <1>15, <3>1
    <3>3. QED
      BY <1>4, <3>2 DEF Complete
  <2>2. phase' \in DOMAIN Done /\ \A o \in Done[phase'] : outputs'[o] = Written(o, run)
    <3>1. phase' = next /\ next \in {"model", "validation", "test"}
      BY <1>1, <1>3, <1>17
    <3>2. \A o \in Done[next] : o = next \/ (phase \in DOMAIN Done /\ o \in Done[phase])
      BY <1>1, <1>3, <1>17 DEF Done
    <3>3. next \in DOMAIN Done /\ \A o \in Done[next] : o \in Outputs
      BY <3>1 DEF Done, Outputs
    <3> HIDE DEF next
    <3>4. QED
      BY <1>15, <1>16, <3>1, <3>2, <3>3
  <2>3. OutputsExact'
    <3>1. Ended(run)' /\ (epochs = EpochsFile(run))'
      BY <1>2, <1>8, <1>9 DEF Ended, EpochsFile
    <3>2. \A o : Written(o, run)' = Written(o, run)
      BY <1>2 DEF Written, Totals
    <3>3. (\A o \in Done[phase] : outputs[o] = Written(o, run))'
      BY <2>2, <3>2
    <3>4. (outputs = [o \in Outputs |-> outputs[o]])'
      BY <1>15
    <3> HIDE DEF next
    <3>5. QED
      BY <2>1, <3>1, <3>3, <3>4 DEF OutputsExact
  <2>4. QED
    BY <1>5, <1>6, <1>11, <1>13, <2>3 DEF IInv
<1>18. CASE phase = "test"
  <2>1. \A o \in Outputs : outputs'[o] = Written(o, run)
    <3>1. \A o \in Outputs : o = next \/ o \in Done["test"]
      BY <1>3, <1>18 DEF Done, Outputs
    <3>2. "test" \in DOMAIN Done
      BY DEF Done
    <3> HIDE DEF next
    <3>3. QED
      BY <1>15, <1>16, <1>18, <3>1, <3>2
  <2>2. OutputsExact'
    BY <1>1, <1>2, <1>4, <1>8, <1>9, <1>10, <1>12, <1>15, <1>18, <2>1
      DEF OutputsExact, EpochsFile, Ended, Written, Totals, EndsAt, IsAt, Done
  <2>3. QED
    BY <1>5, <1>6, <1>11, <1>13, <2>2 DEF IInv
<1>19. QED
  BY <1>17, <1>18

\* What no action changes stays exact.
LEMMA StutterKeeps == ASSUME IInv, UNCHANGED vars PROVE IInv'
<1>1. UNCHANGED <<phase, run, epoch_rng, interval, config, resume, history, epochs, outputs>>
      /\ inputs' = inputs
  BY DEF vars, memory, files
<1>2. (Saved' <=> Saved) /\ (Complete' <=> Complete)
  BY <1>1 DEF Saved, Complete
<1>3. Inputs'
  BY <1>1, SameParts DEF IInv, Inputs
<1>4. RunExact'
  BY <1>1, SameParts DEF IInv, RunExact
<1>5. ResumeExact'
  BY <1>1, <1>2, SameParts DEF IInv, ResumeExact
<1>6. HistoryExact'
  <2>1. ASSUME NEW from PROVE IntervalFrom(from)' <=> IntervalFrom(from)
    BY <1>1, SameParts DEF IntervalFrom
  <2>2. QED
    BY <1>1, <1>2, <2>1, SameParts DEF IInv, HistoryExact, IsAt, Whole, EndsAt
<1>7. OutputsExact'
  BY <1>1, <1>2 DEF IInv, OutputsExact, EpochsFile, Ended, Written, Totals, EndsAt, IsAt
<1>8. QED
  BY <1>3, <1>4, <1>5, <1>6, <1>7 DEF IInv

\* No step, end or crash leaves the states of an uninterrupted run.
LEMMA NextKeeps == ASSUME IInv, [Next]_vars PROVE IInv'
<1>1. CASE Open
  BY <1>1, OpenKeeps
<1>2. CASE Configure
  BY <1>2, ConfigureKeeps
<1>3. CASE Trim
  BY <1>3, TrimKeeps
<1>4. CASE StartEpoch
  BY <1>4, StartEpochKeeps
<1>5. CASE TrainStep
  BY <1>5, TrainStepKeeps
<1>6. CASE Log
  BY <1>6, LogKeeps
<1>7. CASE Save
  BY <1>7, SaveKeeps
<1>8. CASE SelectEpoch
  BY <1>8, SelectEpochKeeps
<1>9. CASE Record
  BY <1>9, RecordKeeps
<1>10. CASE Write
  BY <1>10, WriteKeeps
<1>11. CASE Refused \/ Crash
  BY <1>11, EndKeeps
<1>12. CASE CrashAppending
  BY <1>12, CrashAppendingKeeps
<1>13. CASE UNCHANGED vars
  BY <1>13, StutterKeeps
<1>14. QED
  BY <1>1, <1>2, <1>3, <1>4, <1>5, <1>6, <1>7, <1>8, <1>9, <1>10, <1>11, <1>12, <1>13
    DEF Next, Proceed

-------------------------------------------------------------------------------
(* The theorems. *)

\* Memory, resume.pt, the tables and the outputs are those of one uninterrupted run, in every
\* state of every run, whatever its processes were started with and wherever they ended.
THEOREM RunCorrect == Spec => []IInv
<1>1. Init => IInv
  BY InitInv
<1>2. IInv /\ [Next]_vars => IInv'
  BY NextKeeps
<1>3. QED
  BY <1>1, <1>2, PTL DEF Spec

\* "reproduces the uninterrupted run exactly": resume.pt is the state of an uninterrupted run
\* at its position, for every number of epochs, steps and crashes and every rejected root.
THEOREM ResumeCorrect == Spec => []ResumesExactly
<1>1. IInv => ResumesExactly
  BY DEF IInv, ResumeExact, ResumesExactly, Exact
<1>2. QED
  BY <1>1, RunCorrect, PTL

\* keep_history/append_history: while a process trains, the intervals in history.csv tile the
\* steps, wherever the processes before it logged, saved and ended.
THEOREM HistoryCorrect == Spec => []HistoryTiles
<1>1. IInv => HistoryTiles
  <2>1. SUFFICES ASSUME IInv, phase \notin {"down", "opening", "trimming"},
                        NEW i \in DOMAIN history.rows
                 PROVE  Tiles(history.rows, i)
    BY DEF HistoryTiles
  <2>2. Table(history.rows) /\ Whole(history.rows)
    BY <2>1 DEF IInv, HistoryExact
  <2>3. i \in 1..Len(history.rows)
    BY <2>2 DEF Table
  <2>4. QED
    BY <2>2, <2>3 DEF Table, Whole
<1>2. QED
  BY <1>1, RunCorrect, PTL

\* metrics.json makes a run complete: every file is that of the one uninterrupted run of the
\* settings in config.json, and of the epoch that it selects.
THEOREM CompleteCorrect == Spec => []CompleteRun
<1>1. IInv => CompleteRun
  <2>1. SUFFICES ASSUME IInv, Complete PROVE CompleteRun
    BY DEF CompleteRun
  <2> DEFINE n == resume.epoch
  <2>2. /\ Exact(resume) /\ resume.given = config /\ Ended(resume)
        /\ \A o \in Outputs : outputs[o] = Written(o, resume)
        /\ epochs = EpochsFile(resume) /\ EndsAt(history.rows, n, resume.step)
        /\ outputs = [o \in Outputs |-> outputs[o]]
    BY <2>1 DEF IInv, ResumeExact, OutputsExact
  <2>3. n \in 0..Epochs /\ n > 0 /\ resume.step = 0 /\ (n = Epochs \/ resume.stopped)
        /\ \A i \in 1..(n - 1) : ~Stops(i)
    BY <2>2 DEF Exact, Ended, Reached
  <2>4. resume.stopped = Stops(n)
    BY <2>2, StraightFields DEF Exact
  <2>5. n \in 1..Epochs
    BY <2>3, RunAssumption
  <2>6. Last = n
    BY <2>3, <2>4, <2>5, LastIs
  <2>7. resume = Straight(config, Last, 0)
    BY <2>2, <2>3, <2>6 DEF Exact
  <2>8. outputs = [o \in Outputs |-> Written(o, Straight(config, Last, 0))]
    BY <2>2, <2>7
  <2>9. epochs = [rows |-> StraightRows(Last), selected |-> Best(Last)]
    BY <2>2, <2>7, StraightFields DEF EpochsFile
  <2>10. LET final == history.rows[Len(history.rows)]
         IN final.epoch = Last /\ final.step = Steps /\ ~final.torn
    BY <2>2, <2>3, <2>6 DEF EndsAt, IsAt
  <2>11. QED
    BY <2>7, <2>8, <2>9, <2>10 DEF CompleteRun
<1>2. QED
  BY <1>1, RunCorrect, PTL
===============================================================================
