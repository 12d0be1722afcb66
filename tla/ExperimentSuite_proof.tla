------------------------ MODULE ExperimentSuite_proof ------------------------
(***************************************************************************)
(* Proofs about ExperimentSuite: that an audit is of the model beside it,  *)
(* that a suite loses no result, and that its tables hold what it planned. *)
(***************************************************************************)
EXTENDS ExperimentSuite, SequenceTheorems, FiniteSetTheorems, WellFoundedInduction, TLAPS

-----------------------------------------------------------------------------
(* The order of the runs. *)

\* A set of naturals has a least one.
LEMMA Least ==
    ASSUME NEW S \in SUBSET Nat, S # {}
    PROVE  \E m \in S : \A k \in S : m <= k
<1> DEFINE T == {0..k : k \in S}
<1>1. T \subseteq FiniteSubsetsOf(Nat)
  <2>1. \A k \in Nat : IsFiniteSet(0..k)
    BY FS_Interval
  <2>2. QED
    BY <2>1 DEF FiniteSubsetsOf
<1>2. PICK x \in T : \A y \in T : <<y, x>> \notin StrictSubsetOrdering(Nat)
  <2>1. IsWellFoundedOn(StrictSubsetOrdering(Nat), FiniteSubsetsOf(Nat))
    BY FS_StrictSubsetOrderingWellFounded
  <2>2. T # {}
    OBVIOUS
  <2> HIDE DEF T
  <2>3. QED
    BY <1>1, <2>1, <2>2, WFMin
<1>3. PICK m \in S : x = 0..m
  OBVIOUS
<1>4. ASSUME NEW k \in S, k < m PROVE FALSE
  <2>1. 0..k \subseteq 0..m /\ m \in 0..m /\ m \notin 0..k /\ 0..k \in SUBSET Nat /\ x \in SUBSET Nat
    BY <1>3, <1>4
  <2>2. <<0..k, x>> \in StrictSubsetOrdering(Nat)
    BY <1>3, <2>1 DEF StrictSubsetOrdering
  <2>3. QED
    BY <1>2, <2>2
<1>5. QED
  BY <1>4

\* A function from the first naturals is a sequence.
LEMMA FunctionIsSeq ==
    ASSUME NEW S, NEW n \in Nat, NEW f \in [1..n -> S]
    PROVE  f \in Seq(S)
OBVIOUS

\* Every is the sequence of the runs, each once.
LEMMA EveryOnce ==
    /\ DOMAIN Every = 1..Len(Every) /\ Len(Every) \in Nat
    /\ \A i \in DOMAIN Every : Every[i] \in Runs
    /\ \A r \in Runs : r[1] \in All
    /\ \A i, j \in DOMAIN Every : Every[i] = Every[j] => i = j
<1> DEFINE V == Len(Variants)
           S == Len(Seeds)
<1>1. V \in Nat \ {0} /\ S \in Nat /\ DOMAIN Variants = 1..V /\ DOMAIN Seeds = 1..S
  BY SuiteAssumption, LenProperties, EmptySeq
<1>2. S * V \in Nat
  BY <1>1
<1>3. Every = [i \in 1..(S * V) |->
                 <<Variants[((i - 1) % V) + 1], Seeds[((i - 1) \div V) + 1]>>]
  BY DEF Every
<1> HIDE DEF V, S
<1>4. DOMAIN Every = 1..(S * V)
  BY <1>3
<1>5. Every \in Seq(Runs)
  <2>1. \A i \in 1..(S * V) : Every[i] \in Runs
    BY <1>4 DEF Runs
  <2>2. Every \in [1..(S * V) -> Runs]
    BY <1>3, <2>1
  <2> HIDE DEF Every
  <2>3. QED
    BY <1>2, <2>2, FunctionIsSeq
<1>6. \A i \in 1..(S * V) :
        /\ ((i - 1) % V) + 1 \in DOMAIN Variants
        /\ ((i - 1) \div V) + 1 \in DOMAIN Seeds
        /\ i - 1 = V * ((i - 1) \div V) + ((i - 1) % V)
  <2> SUFFICES ASSUME NEW i \in 1..(S * V)
               PROVE  /\ ((i - 1) % V) + 1 \in 1..V
                      /\ ((i - 1) \div V) + 1 \in 1..S
                      /\ i - 1 = V * ((i - 1) \div V) + ((i - 1) % V)
    BY <1>1
  <2> DEFINE q == (i - 1) \div V
             r == (i - 1) % V
  <2>1. q \in Int /\ r \in 0..(V - 1) /\ i - 1 = V * q + r
    BY <1>1, <1>2
  <2> HIDE DEF q, r
  <2>2. q >= 0
    BY <1>1, <1>2, <2>1
  <2>3. q < S
    BY <1>1, <1>2, <2>1
  <2>4. QED
    BY <1>1, <2>1, <2>2, <2>3 DEF q, r
<1>7. /\ DOMAIN Every = 1..Len(Every) /\ Len(Every) \in Nat
      /\ \A i \in DOMAIN Every : Every[i] \in Runs
  BY <1>5, LenProperties
<1>8. ASSUME NEW i \in DOMAIN Every, NEW j \in DOMAIN Every, Every[i] = Every[j] PROVE i = j
  <2>1. /\ Variants[((i - 1) % V) + 1] = Variants[((j - 1) % V) + 1]
        /\ Seeds[((i - 1) \div V) + 1] = Seeds[((j - 1) \div V) + 1]
    BY <1>3, <1>4, <1>8
  <2>2. i \in 1..(S * V) /\ j \in 1..(S * V)
    BY <1>4
  <2>3. ((i - 1) % V) + 1 = ((j - 1) % V) + 1 /\ ((i - 1) \div V) + 1 = ((j - 1) \div V) + 1
    BY <1>6, <2>1, <2>2, SuiteAssumption
  <2> DEFINE a == (i - 1) % V
             b == (j - 1) % V
             c == (i - 1) \div V
             d == (j - 1) \div V
  <2>4. a \in Int /\ b \in Int /\ c \in Int /\ d \in Int
    <3>1. i - 1 \in Int /\ j - 1 \in Int
      BY <1>2, <2>2
    <3>2. \A x \in Int : x % V \in Int /\ x \div V \in Int
      BY <1>1
    <3>3. QED
      BY <3>1, <3>2
  <2>5. i - 1 = V * c + a /\ j - 1 = V * d + b
    BY <1>6, <2>2
  <2> HIDE DEF a, b, c, d
  <2>6. a = b /\ c = d
    <3>1. a + 1 = b + 1 /\ c + 1 = d + 1
      BY <2>3 DEF a, b, c, d
    <3>2. QED
      BY <2>4, <3>1
  <2>7. i - 1 = j - 1
    BY <2>5, <2>6
  <2>8. QED
    BY <1>2, <2>2, <2>7
<1>9. \A r \in Runs : r[1] \in All
  <2> SUFFICES ASSUME NEW i \in DOMAIN Every PROVE Every[i][1] \in All
    BY DEF Runs
  <2>1. i \in 1..(S * V) /\ ((i - 1) % V) + 1 \in DOMAIN Variants
    BY <1>4, <1>6
  <2>2. Every[i][1] = Variants[((i - 1) % V) + 1]
    BY <1>3, <2>1
  <2>3. QED
    BY <2>1, <2>2 DEF All
<1>10. QED
  BY <1>7, <1>8, <1>9

\* There is a first position of some runs, which may be past the end.
LEMMA FirstFound ==
    ASSUME NEW R, NEW i \in 1..(Len(Every) + 1)
    PROVE  /\ FirstOf(R, i) \in i..(Len(Every) + 1)
           /\ FirstOf(R, i) \in DOMAIN Every => Every[FirstOf(R, i)] \in R
           /\ \A k \in i..(FirstOf(R, i) - 1) : Every[k] \notin R
<1>1. Len(Every) \in Nat /\ DOMAIN Every = 1..Len(Every)
  BY EveryOnce
<1> DEFINE S == {k \in i..(Len(Every) + 1) : k \in DOMAIN Every => Every[k] \in R}
<1>2. Len(Every) + 1 \in S /\ S \in SUBSET Nat
  BY <1>1
<1>3. PICK m \in S : \A k \in S : m <= k
  BY <1>2, Least
<1>4. \A k \in i..(m - 1) : Every[k] \notin R
  BY <1>1, <1>3
<1>5. QED
  BY <1>3, <1>4 DEF FirstOf

\* The runs that are left after the first are those that were, without it.
LEMMA FirstPasses ==
    ASSUME NEW R, NEW i \in 1..(Len(Every) + 1)
    PROVE  /\ FirstOf(R, i) \in DOMAIN Every =>
                 /\ FirstOf(R, i) + 1 \in 1..(Len(Every) + 1)
                 /\ Every[FirstOf(R, i)] \in R
                 /\ FirstOf(R, i) \in i..Len(Every)
                 /\ \A r \in R :
                       (\E k \in (FirstOf(R, i) + 1)..Len(Every) : Every[k] = r) =>
                           r # Every[FirstOf(R, i)] /\ \E k \in i..Len(Every) : Every[k] = r
           /\ FirstOf(R, i) \notin DOMAIN Every =>
                 \A r \in R : ~\E k \in i..Len(Every) : Every[k] = r
           /\ FirstOf(R, i) \in DOMAIN Every =>
                 \A r \in R \ {Every[FirstOf(R, i)]} :
                       (\E k \in i..Len(Every) : Every[k] = r) =>
                           \E k \in (FirstOf(R, i) + 1)..Len(Every) : Every[k] = r
<1> DEFINE N == Len(Every)
           t == FirstOf(R, i)
<1>1. /\ N \in Nat /\ DOMAIN Every = 1..N
      /\ \A j, k \in 1..N : Every[j] = Every[k] => j = k
  BY EveryOnce
<1>2. /\ t \in i..(N + 1)
      /\ t \in DOMAIN Every => Every[t] \in R
      /\ \A k \in i..(t - 1) : Every[k] \notin R
  BY FirstFound
<1> HIDE DEF t, N
<1>3. ASSUME t \in DOMAIN Every
      PROVE  /\ t + 1 \in 1..(N + 1) /\ t \in i..N
             /\ \A r \in R : (\E k \in (t + 1)..N : Every[k] = r) =>
                   r # Every[t] /\ \E k \in i..N : Every[k] = r
             /\ \A r \in R \ {Every[t]} : (\E k \in i..N : Every[k] = r) =>
                   \E k \in (t + 1)..N : Every[k] = r
  <2>1. i \in 1..(N + 1)
    BY DEF N
  <2>2. t \in 1..N /\ t \in i..N /\ t + 1 \in 1..(N + 1)
    BY <1>1, <1>2, <1>3, <2>1
  <2>3. ASSUME NEW k \in (t + 1)..N PROVE Every[k] # Every[t] /\ k \in i..N
    BY <1>1, <2>1, <2>2
  <2>4. ASSUME NEW k \in i..N, Every[k] \in R, Every[k] # Every[t] PROVE k \in (t + 1)..N
    BY <1>1, <1>2, <2>1, <2>2, <2>4
  <2>5. QED
    BY <2>2, <2>3, <2>4
<1>4. ASSUME t \notin DOMAIN Every, NEW k \in i..N PROVE Every[k] \notin R
  <2>1. i \in 1..(N + 1)
    BY DEF N
  <2>2. t = N + 1
    BY <1>1, <1>2, <1>4, <2>1
  <2>3. QED
    BY <1>1, <1>2, <2>1, <2>2
<1>5. QED
  BY <1>2, <1>3, <1>4 DEF t, N

-----------------------------------------------------------------------------
(* The inductive invariant. *)

TrainPhases == {"train", "launch", "open", "fit", "trained"}

\* Files of one experiment: config.json comes before metrics.json, and a report and the scores
\* beside it are of the model of metrics.json.
Agrees(f) ==
    /\ f.metrics # Nothing => f.started /\ f.config = f.metrics
    /\ \A s \in {"validation", "test"} :
         f.report[s] # Nothing =>
             f.metrics # Nothing /\ f.report[s] = f.metrics /\ f.scores[s] = f.metrics

FilesAgree == \A r \in Runs : Agrees(files[r])

\* What the process knows of the run it is at.
AtRun ==
    /\ phase = "idle" => at = 1
    /\ phase \in {"launch", "open", "fit", "trained", "scored", "audited"} => Rest
    /\ phase \in {"launch", "open", "fit"} => files[Here].metrics = Nothing
    /\ phase \in {"open", "fit"} => files[Here].started
    /\ phase = "fit" => files[Here].config = Wanted(Here)
    /\ phase = "scored" => LET f == files[Here]
                           IN ToAudit(f) /\ f.scores[NextSplit(f)] = f.metrics

\* A run of the suite that its process has not come to.
Ahead(r) ==
    /\ \E k \in at..Len(Every) : Every[k] = r
    /\ phase # "train" => r # Here

\* What the suite planned is so until it comes to the run, and a run it has passed is of what
\* the suite wants, or not complete.
OnPlan ==
    phase \in TrainPhases =>
        \A r \in InSuite :
            /\ Ahead(r) => /\ plan[r] \in {"train", "resume"} => files[r].metrics = Nothing
                           /\ plan[r] = "keep" => files[r].metrics = Wanted(r)
            /\ ~Ahead(r) => files[r].metrics \in {Nothing, Wanted(r)}

\* Once every run is passed, those that are complete are what the suite wants.
AllWanted ==
    \/ phase \in {"audit", "scored", "audited"}
    \/ phase \in {"tables", "written"} /\ ~stopped
    => \A r \in InSuite : files[r].metrics \in {Nothing, Wanted(r)}

IInv == TypeOK /\ FilesAgree /\ AtRun /\ OnPlan /\ AllWanted /\ TablesOfPlan

-----------------------------------------------------------------------------
(* What the steps have in common. *)

\* The run whose turn it is is one of the suite's, and it may go on with the next.
LEMMA HereInSuite ==
    ASSUME TypeOK, Rest
    PROVE  Here \in InSuite /\ Here \in Runs /\ Turn(at) + 1 \in 1..(Len(Every) + 1)
BY FirstPasses DEF TypeOK, Rest, Here, Turn, InSuite

\* The experiment of a run is none of those a file can lack.
LEMMA WantedIsSome ==
    ASSUME TypeOK, NEW r \in Runs
    PROVE  Wanted(r) \in Ids /\ Wanted(r) # Nothing
<1>1. wanted[r[1]] \in 1..Settings /\ dataset \in 1..Datasets
  BY EveryOnce DEF TypeOK
<1>2. QED
  BY <1>1, SuiteAssumption DEF Wanted, Ids, Nothing

\* A step of the suite at one run.
LEMMA SameRun ==
    ASSUME chosen' = chosen, at' = at, UNCHANGED environment
    PROVE  /\ InSuite' = InSuite /\ Here' = Here /\ (Rest' <=> Rest)
           /\ \A r : Wanted(r)' = Wanted(r)
BY DEF InSuite, Here, Rest, Turn, Wanted, environment

\* A step of the suite to its next run.
LEMMA NextRun ==
    ASSUME TypeOK, Rest, GoOn, chosen' = chosen, phase' = "train"
    PROVE  /\ at' \in 1..(Len(Every) + 1) /\ InSuite' = InSuite
           /\ \A r \in InSuite :
                Ahead(r)' <=> r # Here /\ \E k \in at..Len(Every) : Every[k] = r
<1>1. InSuite' = InSuite
  BY DEF InSuite
<1>2. at' = Turn(at) + 1 /\ at \in 1..(Len(Every) + 1)
  BY DEF GoOn, TypeOK
<1>3. \A r : Ahead(r)' <=> \E k \in (Turn(at) + 1)..Len(Every) : Every[k] = r
  BY <1>2 DEF Ahead
<1>4. \A r \in InSuite :
        (\E k \in (Turn(at) + 1)..Len(Every) : Every[k] = r) <=>
            r # Here /\ \E k \in at..Len(Every) : Every[k] = r
  BY <1>2, FirstPasses DEF Rest, Here, Turn
<1>5. QED
  BY <1>1, <1>2, <1>3, <1>4, HereInSuite

\* The split an audit is at has no report.
LEMMA SplitOpen ==
    ASSUME NEW f \in RunFiles, ToAudit(f)
    PROVE  NextSplit(f) \in {"validation", "test"} /\ f.report[NextSplit(f)] = Nothing
<1>1. f.report \in [{"validation", "test"} -> Ids]
  BY DEF RunFiles
<1>2. PICK s \in {"validation", "test"} : f.report[s] = Nothing
  BY <1>1 DEF ToAudit, Audited
<1>3. Splits[1] = "validation" /\ Splits[2] = "test"
  BY DEF Splits
<1>4. Pending(f) # {} /\ Pending(f) \subseteq 1..2
  BY <1>2, <1>3 DEF Pending
<1> DEFINE First(i) == i \in Pending(f) /\ \A j \in Pending(f) : i <= j
<1>5. \E i : First(i)
  <2>1. CASE 1 \in Pending(f)
    BY <1>4, <2>1
  <2>2. CASE 1 \notin Pending(f)
    <3>1. Pending(f) = {2}
      BY <1>4, <2>2
    <3>2. QED
      BY <3>1
  <2>3. QED
    BY <2>1, <2>2
<1>6. PICK i \in Pending(f) : NextSplit(f) = Splits[i]
  BY <1>5 DEF NextSplit
<1>7. QED
  BY <1>3, <1>4, <1>6 DEF Pending

-----------------------------------------------------------------------------
(* Types. *)

\* What is written into a run's directory is of its type.
LEMMA WrittenType ==
    ASSUME NEW f \in RunFiles, NEW e \in Ids, NEW s \in {"validation", "test"}
    PROVE  /\ Empty \in RunFiles
           /\ [f EXCEPT !.started = TRUE] \in RunFiles
           /\ [f EXCEPT !.config = e] \in RunFiles
           /\ [f EXCEPT !.metrics = e] \in RunFiles
           /\ [f EXCEPT !.scores[s] = e] \in RunFiles
           /\ [f EXCEPT !.report[s] = e] \in RunFiles
<1>1. Nothing \in Ids /\ NoSplit \in [{"validation", "test"} -> Ids]
  BY DEF Ids, NoSplit
<1>2. Empty \in RunFiles
  BY <1>1 DEF Empty, RunFiles
<1>3. QED
  BY <1>2 DEF RunFiles

\* A process that is gone leaves the types as they are.
LEMMA GoneType ==
    ASSUME TypeOK, Gone, UNCHANGED <<environment, disk>>, faults' \in 0..MaxFaults
    PROVE  TypeOK'
<1>1. 1 \in 1..(Len(Every) + 1)
  BY EveryOnce
<1>2. QED
  BY <1>1 DEF TypeOK, Gone, environment, disk, Phases

\* Init: a suite starts with every variable of its type.
LEMMA InitType == Init => TypeOK
<1>1. 1 \in 1..(Len(Every) + 1)
  BY EveryOnce
<1>2. Empty \in RunFiles
  BY DEF Empty, RunFiles, NoSplit, Ids
<1>3. 1 \in 1..Settings /\ 1 \in 1..Datasets /\ 0 \in 0..MaxChanges /\ 0 \in 0..MaxFaults
  BY SuiteAssumption
<1>4. <<>> \in Seq(RunFiles)
  BY EmptySeq
<1>5. QED
  BY <1>1, <1>2, <1>3, <1>4 DEF Init, TypeOK, Phases

\* Every step leaves every variable of its type.
LEMMA TypeStep == TypeOK /\ AtRun /\ [Next]_vars => TypeOK'
<1> SUFFICES ASSUME TypeOK, AtRun, [Next]_vars PROVE TypeOK'
  OBVIOUS
<1>1. /\ 1 \in 1..(Len(Every) + 1)
      /\ Rest => Here \in Runs /\ files[Here] \in RunFiles /\ Wanted(Here) \in Ids
                 /\ Turn(at) + 1 \in 1..(Len(Every) + 1)
  BY HereInSuite, WantedIsSome, EveryOnce DEF TypeOK
<1>2. ASSUME NEW f \in RunFiles, Rest, Writes(f),
             UNCHANGED <<environment, archived, chosen, at, plan, errors, stopped, table, faults>>,
             phase' \in Phases
      PROVE  TypeOK'
  BY <1>1, <1>2 DEF TypeOK, Writes, environment
<1>3. ASSUME Rest, GoOn, phase' \in Phases,
             UNCHANGED <<environment, disk, chosen, plan, stopped, table>>,
             faults' \in 0..MaxFaults, errors' \subseteq Runs
      PROVE  TypeOK'
  BY <1>1, <1>3 DEF TypeOK, GoOn, environment, disk
<1>4. faults < MaxFaults => faults + 1 \in 0..MaxFaults
  BY SuiteAssumption DEF TypeOK
<1>5. CASE Starts
  <2>1. PICK suite \in Suites : Start(suite)
    BY <1>5 DEF Starts
  <2>2. \A r \in Runs : Plan(r) \in {"none", "keep", "train", "resume", "archive"}
    BY DEF Plan
  <2>3. plan' \in [Runs -> {"none", "keep", "train", "resume", "archive"}]
    BY <2>1, <2>2 DEF Start
  <2>4. QED
    BY <2>1, <2>3 DEF Start, TypeOK, Phases, environment, disk
<1>6. CASE SkipKept
  BY <1>3, <1>6 DEF SkipKept, TypeOK
<1>7. CASE Archive
  <2>1. Empty \in RunFiles
    BY <1>1, <1>7, WrittenType DEF Archive
  <2>2. archived' \in [Runs -> Seq(RunFiles)]
    <3>1. Rest /\ archived \in [Runs -> Seq(RunFiles)]
      BY <1>7 DEF Archive, TypeOK
    <3>2. Append(archived[Here], files[Here]) \in Seq(RunFiles)
      BY <1>1, <3>1, AppendProperties
    <3>3. archived' = [archived EXCEPT ![Here] = Append(archived[Here], files[Here])]
      BY <1>7 DEF Archive
    <3>4. QED
      BY <1>1, <3>1, <3>2, <3>3
  <2>3. files' \in [Runs -> RunFiles]
    BY <1>1, <1>7, <2>1 DEF Archive, Writes, TypeOK
  <2>4. QED
    BY <1>7, <2>2, <2>3 DEF Archive, TypeOK, Phases, environment
<1>8. CASE Launch
  BY <1>8 DEF Launch, TypeOK, Phases, environment, disk
<1>9. CASE Open
  <2>1. Rest
    BY <1>9 DEF Open, AtRun
  <2>2. [files[Here] EXCEPT !.started = TRUE] \in RunFiles
    BY <1>1, <2>1, WrittenType
  <2>3. QED
    BY <1>2, <1>9, <2>1, <2>2 DEF Open, Phases
<1>10. CASE Configure
  <2>1. Rest
    BY <1>10 DEF Configure, AtRun
  <2>2. [files[Here] EXCEPT !.config = Wanted(Here)] \in RunFiles
    BY <1>1, <2>1, WrittenType
  <2>3. QED
    BY <1>2, <1>10, <2>1, <2>2 DEF Configure, Phases
<1>11. CASE Finish
  <2>1. Rest
    BY <1>11 DEF Finish, AtRun
  <2>2. [files[Here] EXCEPT !.metrics = Wanted(Here)] \in RunFiles
    BY <1>1, <2>1, WrittenType
  <2>3. QED
    BY <1>2, <1>11, <2>1, <2>2 DEF Finish, Phases
<1>12. CASE Trained
  BY <1>3, <1>12 DEF Trained, AtRun, TypeOK, Phases
<1>13. CASE TrainedAll \/ AuditedAll
  BY <1>1, <1>13 DEF TrainedAll, AuditedAll, TypeOK, Phases, environment, disk
<1>14. CASE SkipAudit
  BY <1>3, <1>14 DEF SkipAudit, TypeOK
<1>15. CASE Score
  <2> DEFINE f == files[Here]
  <2>1. Rest /\ ToAudit(f)
    BY <1>15 DEF Score
  <2>2. NextSplit(f) \in {"validation", "test"} /\ f.metrics \in Ids
    BY <1>1, <2>1, SplitOpen DEF RunFiles
  <2>3. [f EXCEPT !.scores[NextSplit(f)] = f.metrics] \in RunFiles
    BY <1>1, <2>1, <2>2, WrittenType
  <2>4. QED
    BY <1>2, <1>15, <2>1, <2>3 DEF Score, Phases
<1>16. CASE Report
  <2> DEFINE f == files[Here]
  <2>1. Rest /\ ToAudit(f)
    BY <1>16 DEF Report, AtRun
  <2>2. NextSplit(f) \in {"validation", "test"} /\ f.metrics \in Ids
    BY <1>1, <2>1, SplitOpen DEF RunFiles
  <2>3. [f EXCEPT !.report[NextSplit(f)] = f.metrics] \in RunFiles
    BY <1>1, <2>1, <2>2, WrittenType
  <2>4. phase' \in Phases
    BY <1>16 DEF Report, Phases
  <2>5. QED
    BY <1>2, <1>16, <2>1, <2>3, <2>4 DEF Report
<1>17. CASE AuditDone
  BY <1>3, <1>17 DEF AuditDone, AtRun, TypeOK, Phases
<1>18. CASE WriteTables
  <2>1. \A r \in Runs : Outcome(r) \in {"complete", "failed", "stopped"}
    BY DEF Outcome
  <2>2. table' \in [Runs -> {"none", "complete", "failed", "stopped"}]
    BY <1>18, <2>1 DEF WriteTables
  <2>3. QED
    BY <1>18, <2>2 DEF WriteTables, TypeOK, Phases, environment, disk
<1>19. CASE RefuseTables \/ End
  BY <1>19, GoneType DEF RefuseTables, End, TypeOK
<1>20. CASE OwnError
  <2>1. errors' \subseteq Runs /\ faults' \in 0..MaxFaults /\ phase' \in Phases
    BY <1>1, <1>4, <1>20 DEF OwnError, TypeOK, Phases
  <2>2. QED
    BY <1>3, <1>20, <2>1 DEF OwnError
<1>21. CASE Outage
  BY <1>1, <1>4, <1>21 DEF Outage, TypeOK, Phases, environment, disk
<1>22. CASE Crash
  BY <1>4, <1>22, GoneType DEF Crash
<1>23. CASE Change
  <2>1. changes' \in 0..MaxChanges
    BY <1>23, SuiteAssumption DEF Change, TypeOK
  <2>2. wanted' \in [All -> 1..Settings] /\ dataset' \in 1..Datasets
    BY <1>23 DEF Change, TypeOK
  <2>3. QED
    BY <1>23, <2>1, <2>2 DEF Change, TypeOK, disk, process
<1>24. CASE UNCHANGED vars
  BY <1>24 DEF vars, environment, disk, process, TypeOK
<1>25. QED
  BY <1>5, <1>6, <1>7, <1>8, <1>9, <1>10, <1>11, <1>12, <1>13, <1>14, <1>15, <1>16, <1>17,
     <1>18, <1>19, <1>20, <1>21, <1>22, <1>23, <1>24
  DEF Next, Works, Train, Audit, Tables

-----------------------------------------------------------------------------
(* The files. *)

\* Every step leaves the files of one experiment together.
LEMMA FilesStep == TypeOK /\ AtRun /\ FilesAgree /\ [Next]_vars => FilesAgree'
<1> SUFFICES ASSUME TypeOK, AtRun, FilesAgree, [Next]_vars PROVE FilesAgree'
  OBVIOUS
<1>1. Rest => Here \in Runs /\ files[Here] \in RunFiles /\ Agrees(files[Here])
  BY HereInSuite DEF TypeOK, FilesAgree
<1>2. ASSUME UNCHANGED files PROVE FilesAgree'
  BY <1>2 DEF FilesAgree, Agrees
<1>3. ASSUME NEW f, Agrees(f), Rest, Writes(f) PROVE FilesAgree'
  <2>1. \A r \in Runs : files'[r] = IF r = Here THEN f ELSE files[r]
    BY <1>1, <1>3 DEF Writes, TypeOK
  <2>2. \A r \in Runs : Agrees(files'[r])
    BY <1>3, <2>1 DEF FilesAgree
  <2>3. QED
    BY <2>2 DEF FilesAgree, Agrees
<1>4. CASE Archive
  <2>1. Agrees(Empty)
    BY DEF Agrees, Empty, NoSplit
  <2>2. QED
    BY <1>3, <1>4, <2>1 DEF Archive
<1>5. CASE Open
  <2> DEFINE f == [files[Here] EXCEPT !.started = TRUE]
  <2>1. Rest
    BY <1>5 DEF Open, AtRun
  <2>2. Agrees(f)
    BY <1>1, <2>1 DEF Agrees, RunFiles
  <2>3. QED
    BY <1>3, <1>5, <2>1, <2>2 DEF Open
<1>6. CASE Configure
  <2> DEFINE f == [files[Here] EXCEPT !.config = Wanted(Here)]
  <2>1. Rest /\ files[Here].metrics = Nothing
    BY <1>6 DEF Configure, AtRun
  <2>2. Agrees(f)
    BY <1>1, <2>1 DEF Agrees, RunFiles
  <2>3. QED
    BY <1>3, <1>6, <2>1, <2>2 DEF Configure
<1>7. CASE Finish
  <2> DEFINE f == [files[Here] EXCEPT !.metrics = Wanted(Here)]
  <2>1. /\ Rest /\ files[Here].metrics = Nothing /\ files[Here].started
        /\ files[Here].config = Wanted(Here)
    BY <1>7 DEF Finish, AtRun
  <2>2. Agrees(f)
    BY <1>1, <2>1 DEF Agrees, RunFiles
  <2>3. QED
    BY <1>3, <1>7, <2>1, <2>2 DEF Finish
<1>8. CASE Score
  <2> DEFINE f == files[Here]
             g == [f EXCEPT !.scores[NextSplit(f)] = f.metrics]
  <2>1. Rest /\ ToAudit(f) /\ Writes(g)
    BY <1>8 DEF Score
  <2>2. NextSplit(f) \in {"validation", "test"} /\ f.report[NextSplit(f)] = Nothing
    BY <1>1, <2>1, SplitOpen
  <2>3. /\ g.metrics = f.metrics /\ g.started = f.started /\ g.config = f.config
        /\ g.report = f.report
        /\ \A s \in {"validation", "test"} : s # NextSplit(f) => g.scores[s] = f.scores[s]
    BY <1>1, <2>1 DEF RunFiles
  <2> HIDE DEF g
  <2>4. Agrees(g)
    BY <1>1, <2>1, <2>2, <2>3 DEF Agrees
  <2>5. QED
    BY <1>3, <2>1, <2>4
<1>9. CASE Report
  <2> DEFINE f == files[Here]
             g == [f EXCEPT !.report[NextSplit(f)] = f.metrics]
  <2>1. Rest /\ ToAudit(f) /\ Writes(g) /\ f.scores[NextSplit(f)] = f.metrics
    BY <1>9 DEF Report, AtRun
  <2>2. NextSplit(f) \in {"validation", "test"} /\ f.metrics # Nothing
    BY <1>1, <2>1, SplitOpen DEF ToAudit, Complete
  <2>3. /\ g.metrics = f.metrics /\ g.started = f.started /\ g.config = f.config
        /\ g.scores = f.scores /\ g.report[NextSplit(f)] = f.metrics
        /\ \A s \in {"validation", "test"} : s # NextSplit(f) => g.report[s] = f.report[s]
    BY <1>1, <2>1, <2>2 DEF RunFiles
  <2> HIDE DEF g
  <2>4. Agrees(g)
    BY <1>1, <2>1, <2>2, <2>3 DEF Agrees
  <2>5. QED
    BY <1>3, <2>1, <2>4
<1>10. CASE Starts \/ Change \/ OwnError \/ Outage \/ Crash \/ Tables
  BY <1>2, <1>10 DEF Starts, Start, Change, OwnError, Outage, Crash, Tables, WriteTables,
                     RefuseTables, End, disk
<1>11. CASE SkipKept \/ Launch \/ Trained \/ TrainedAll \/ SkipAudit \/ AuditDone \/ AuditedAll
  BY <1>2, <1>11 DEF SkipKept, Launch, Trained, TrainedAll, SkipAudit, AuditDone, AuditedAll,
                     disk
<1>12. CASE UNCHANGED vars
  BY <1>2, <1>12 DEF vars, disk
<1>13. QED
  BY <1>4, <1>5, <1>6, <1>7, <1>8, <1>9, <1>10, <1>11, <1>12 DEF Next, Works, Train, Audit

\* No step loses a result: metrics are replaced only when there are none, reports only when
\* they lack, and a directory leaves its place for the archive.
LEMMA KeepsStep == TypeOK /\ AtRun /\ [Next]_vars => KeepsResults
<1> SUFFICES ASSUME TypeOK, AtRun, [Next]_vars, NEW r \in Runs
             PROVE  /\ Len(archived[r]) <= Len(archived'[r])
                    /\ \A i \in DOMAIN archived[r] : archived'[r][i] = archived[r][i]
                    /\ Complete(files[r]) =>
                         \/ /\ files'[r].metrics = files[r].metrics
                            /\ \A s \in {"validation", "test"} :
                                 files[r].report[s] # Nothing =>
                                     files'[r].report[s] = files[r].report[s]
                         \/ \E i \in DOMAIN archived'[r] : archived'[r][i] = files[r]
  BY DEF KeepsResults
<1>1. Rest => Here \in Runs /\ files[Here] \in RunFiles
  BY HereInSuite DEF TypeOK
<1>2. archived[r] \in Seq(RunFiles) /\ Len(archived[r]) \in Nat
  BY LenProperties DEF TypeOK
<1>3. CASE UNCHANGED disk
  BY <1>2, <1>3 DEF disk
<1>4. ASSUME NEW f, Rest, Writes(f), archived' = archived,
             Complete(files[Here]) => f.metrics = files[Here].metrics,
             \A s \in {"validation", "test"} :
                 files[Here].report[s] # Nothing => f.report[s] = files[Here].report[s]
      PROVE  /\ archived'[r] = archived[r]
             /\ Complete(files[r]) => files'[r].metrics = files[r].metrics
             /\ \A s \in {"validation", "test"} :
                  files[r].report[s] # Nothing => files'[r].report[s] = files[r].report[s]
  <2>1. files'[r] = IF r = Here THEN f ELSE files[r]
    BY <1>1, <1>4 DEF Writes, TypeOK
  <2>2. QED
    BY <1>4, <2>1
<1>5. CASE Archive
  <2>1. Rest /\ archived' = [archived EXCEPT ![Here] = Append(archived[Here], files[Here])]
    BY <1>5 DEF Archive
  <2>2. CASE r = Here
    <3>1. archived'[r] = Append(archived[r], files[r])
      BY <2>1, <2>2 DEF TypeOK
    <3>2. QED
      BY <1>1, <1>2, <2>1, <2>2, <3>1, AppendProperties
  <2>3. CASE r # Here
    <3>1. archived'[r] = archived[r] /\ files'[r] = files[r]
      BY <1>5, <2>1, <2>3 DEF Archive, Writes, TypeOK
    <3>2. QED
      BY <1>2, <3>1
  <2>4. QED
    BY <2>2, <2>3
<1>6. CASE Open
  <2>1. Rest
    BY <1>6 DEF Open, AtRun
  <2>2. QED
    BY <1>1, <1>2, <1>4, <1>6, <2>1 DEF Open, RunFiles
<1>7. CASE Configure
  <2>1. Rest
    BY <1>7 DEF Configure, AtRun
  <2>2. QED
    BY <1>1, <1>2, <1>4, <1>7, <2>1 DEF Configure, RunFiles
<1>8. CASE Finish
  <2>1. Rest /\ ~Complete(files[Here])
    BY <1>8 DEF Finish, AtRun, Complete
  <2>2. QED
    BY <1>1, <1>2, <1>4, <1>8, <2>1 DEF Finish, RunFiles
<1>9. CASE Score
  <2>1. Rest
    BY <1>9 DEF Score
  <2>2. QED
    BY <1>1, <1>2, <1>4, <1>9, <2>1 DEF Score, RunFiles
<1>10. CASE Report
  <2> DEFINE f == files[Here]
             g == [f EXCEPT !.report[NextSplit(f)] = f.metrics]
  <2>1. Rest /\ ToAudit(f) /\ Writes(g) /\ archived' = archived
    BY <1>10 DEF Report, AtRun
  <2>2. f.report[NextSplit(f)] = Nothing
    BY <1>1, <2>1, SplitOpen
  <2>3. /\ g.metrics = f.metrics
        /\ \A s \in {"validation", "test"} : s # NextSplit(f) => g.report[s] = f.report[s]
    BY <1>1, <2>1 DEF RunFiles
  <2> HIDE DEF g
  <2>4. QED
    BY <1>2, <1>4, <2>1, <2>2, <2>3
<1>11. CASE Starts \/ Change \/ OwnError \/ Outage \/ Crash \/ Tables
  BY <1>3, <1>11 DEF Starts, Start, Change, OwnError, Outage, Crash, Tables, WriteTables,
                     RefuseTables, End
<1>12. CASE SkipKept \/ Launch \/ Trained \/ TrainedAll \/ SkipAudit \/ AuditDone \/ AuditedAll
  BY <1>3, <1>12 DEF SkipKept, Launch, Trained, TrainedAll, SkipAudit, AuditDone, AuditedAll
<1>13. CASE UNCHANGED vars
  BY <1>3, <1>13 DEF vars
<1>14. QED
  BY <1>5, <1>6, <1>7, <1>8, <1>9, <1>10, <1>11, <1>12, <1>13 DEF Next, Works, Train, Audit

-----------------------------------------------------------------------------
(* The process and its plan. *)

\* What the process knows of the run it is at stays true.
LEMMA AtRunStep == TypeOK /\ AtRun /\ OnPlan /\ [Next]_vars => AtRun'
<1> SUFFICES ASSUME TypeOK, AtRun, OnPlan, [Next]_vars PROVE AtRun'
  OBVIOUS
<1>1. Rest => Here \in InSuite /\ Here \in Runs /\ files[Here] \in RunFiles
  BY HereInSuite DEF TypeOK
<1>2. ASSUME phase' \in {"train", "audit", "tables", "written"} PROVE AtRun'
  BY <1>2 DEF AtRun
<1>3. ASSUME phase' = "idle", at' = 1 PROVE AtRun'
  BY <1>3 DEF AtRun
<1>4. ASSUME NEW f, Rest, Writes(f), at' = at, chosen' = chosen, UNCHANGED environment
      PROVE  Here' = Here /\ Rest' /\ Wanted(Here)' = Wanted(Here) /\ files'[Here] = f
  BY <1>1, <1>4, SameRun DEF Writes, TypeOK
<1>5. CASE Archive
  <2>1. Rest /\ Writes(Empty) /\ at' = at /\ chosen' = chosen /\ UNCHANGED environment
    BY <1>5 DEF Archive
  <2>2. Here' = Here /\ Rest' /\ files'[Here] = Empty
    BY <1>4, <2>1
  <2>3. QED
    BY <1>5, <2>2 DEF Archive, AtRun, Empty
<1>6. CASE Launch
  <2>1. /\ Rest /\ plan[Here] \in {"train", "resume"} /\ phase = "train"
        /\ at' = at /\ chosen' = chosen /\ UNCHANGED environment /\ files' = files
    BY <1>6 DEF Launch, disk
  <2>2. Here' = Here /\ Rest'
    BY <2>1, SameRun
  <2>3. Ahead(Here)
    <3>1. Turn(at) \in at..Len(Every) /\ Every[Turn(at)] = Here
      BY <2>1, FirstPasses DEF Rest, Turn, Here, TypeOK
    <3>2. QED
      BY <2>1, <3>1 DEF Ahead
  <2>4. files[Here].metrics = Nothing
    BY <1>1, <2>1, <2>3 DEF OnPlan, TrainPhases
  <2>5. QED
    BY <1>6, <2>1, <2>2, <2>4 DEF Launch, AtRun
<1>7. CASE Open
  <2> DEFINE f == [files[Here] EXCEPT !.started = TRUE]
  <2>1. /\ Rest /\ Writes(f) /\ at' = at /\ chosen' = chosen /\ UNCHANGED environment
        /\ files[Here].metrics = Nothing
    BY <1>7 DEF Open, AtRun
  <2>2. f.metrics = Nothing /\ f.started
    BY <1>1, <2>1 DEF RunFiles
  <2> HIDE DEF f
  <2>3. Here' = Here /\ Rest' /\ files'[Here] = f
    BY <1>4, <2>1
  <2>4. QED
    BY <1>7, <2>2, <2>3 DEF Open, AtRun
<1>8. CASE Configure
  <2> DEFINE f == [files[Here] EXCEPT !.config = Wanted(Here)]
  <2>1. /\ Rest /\ Writes(f) /\ at' = at /\ chosen' = chosen /\ UNCHANGED environment
        /\ files[Here].metrics = Nothing /\ files[Here].started
    BY <1>8 DEF Configure, AtRun
  <2>2. f.metrics = Nothing /\ f.started /\ f.config = Wanted(Here)
    BY <1>1, <2>1 DEF RunFiles
  <2> HIDE DEF f
  <2>3. Here' = Here /\ Rest' /\ files'[Here] = f /\ Wanted(Here)' = Wanted(Here)
    BY <1>4, <2>1
  <2>4. QED
    BY <1>8, <2>2, <2>3 DEF Configure, AtRun
<1>9. CASE Finish
  <2>1. Rest'
    BY <1>4, <1>9 DEF Finish, AtRun
  <2>2. QED
    BY <1>9, <2>1 DEF Finish, AtRun
<1>10. CASE Score
  <2> DEFINE f == files[Here]
             g == [f EXCEPT !.scores[NextSplit(f)] = f.metrics]
  <2>1. /\ Rest /\ ToAudit(f) /\ Writes(g) /\ at' = at /\ chosen' = chosen
        /\ UNCHANGED environment
    BY <1>10 DEF Score
  <2>2. NextSplit(f) \in {"validation", "test"}
    BY <1>1, <2>1, SplitOpen
  <2>3. g.metrics = f.metrics /\ g.report = f.report /\ g.scores[NextSplit(f)] = f.metrics
    BY <1>1, <2>1, <2>2 DEF RunFiles
  <2>4. Here' = Here /\ Rest' /\ files'[Here] = g
    BY <1>4, <2>1
  <2> HIDE DEF g
  <2>5. ToAudit(g) /\ NextSplit(g) = NextSplit(f)
    BY <2>1, <2>3 DEF ToAudit, Complete, Audited, NextSplit, Pending
  <2>6. ToAudit(g) /\ g.scores[NextSplit(g)] = g.metrics
    BY <2>3, <2>5
  <2>7. (LET h == files[Here] IN ToAudit(h) /\ h.scores[NextSplit(h)] = h.metrics)'
    BY <2>4, <2>6 DEF ToAudit, Complete, Audited, NextSplit, Pending
  <2>8. QED
    BY <1>10, <2>4, <2>7 DEF Score, AtRun
<1>11. CASE Report
  <2> DEFINE f == files[Here]
             g == [f EXCEPT !.report[NextSplit(f)] = f.metrics]
  <2>1. Rest /\ Writes(g) /\ at' = at /\ chosen' = chosen /\ UNCHANGED environment
    BY <1>11 DEF Report, AtRun
  <2>2. Rest'
    BY <1>4, <2>1
  <2>3. phase' \in {"audited", "audit"}
    BY <1>11 DEF Report
  <2>4. QED
    BY <2>2, <2>3 DEF AtRun
<1>12. CASE Starts \/ OwnError \/ Outage \/ WriteTables
  BY <1>2, <1>12 DEF Starts, Start, OwnError, Outage, WriteTables
<1>13. CASE SkipKept \/ Trained \/ TrainedAll \/ SkipAudit \/ AuditDone \/ AuditedAll
  BY <1>2, <1>13 DEF SkipKept, Trained, TrainedAll, SkipAudit, AuditDone, AuditedAll
<1>14. CASE RefuseTables \/ End \/ Crash
  BY <1>3, <1>14 DEF RefuseTables, End, Crash, Gone
<1>15. CASE Change
  BY <1>3, <1>15 DEF Change, process, AtRun
<1>16. CASE UNCHANGED vars
  <2>1. /\ chosen' = chosen /\ at' = at /\ UNCHANGED environment /\ files' = files
        /\ phase' = phase
    BY <1>16 DEF vars, process, disk
  <2>2. Here' = Here /\ (Rest' <=> Rest) /\ Wanted(Here)' = Wanted(Here)
    BY <2>1, SameRun
  <2>3. QED
    BY <2>1, <2>2 DEF AtRun, ToAudit, Complete, Audited, NextSplit, Pending
<1>17. QED
  BY <1>5, <1>6, <1>7, <1>8, <1>9, <1>10, <1>11, <1>12, <1>13, <1>14, <1>15, <1>16
  DEF Next, Works, Train, Audit, Tables

\* plan_run: a run to train has no metrics yet, and one to keep is of what the suite wants.
LEMMA PlanTrue ==
    ASSUME TypeOK, FilesAgree, NEW r \in Runs
    PROVE  /\ Plan(r) \in {"train", "resume"} => files[r].metrics = Nothing
           /\ Plan(r) = "keep" => files[r].metrics = Wanted(r)
<1> DEFINE f == files[r]
<1>1. /\ f.metrics # Nothing => f.started /\ f.config = f.metrics
      /\ f.started \in BOOLEAN
  BY DEF FilesAgree, Agrees, TypeOK, RunFiles
<1> HIDE DEF f
<1>2. CASE ~f.started
  BY <1>1, <1>2 DEF Plan, f
<1>3. CASE f.started /\ f.config \notin {Nothing, Wanted(r)}
  BY <1>3 DEF Plan, f
<1>4. CASE f.started /\ f.config \in {Nothing, Wanted(r)}
  <2>1. Plan(r) = IF Complete(f) THEN "keep" ELSE "resume"
    BY <1>4 DEF Plan, f
  <2>2. QED
    BY <1>1, <1>4, <2>1 DEF Complete, f
<1>5. QED
  BY <1>1, <1>2, <1>3, <1>4

\* What the suite planned stays true until it comes to a run, and what it has done after.
LEMMA OnPlanStep ==
    TypeOK /\ FilesAgree /\ AtRun /\ OnPlan /\ [Next]_vars => OnPlan'
<1> SUFFICES ASSUME TypeOK, FilesAgree, AtRun, OnPlan, [Next]_vars PROVE OnPlan'
  OBVIOUS
<1>1. Rest => Here \in InSuite /\ Here \in Runs /\ files[Here] \in RunFiles
  BY HereInSuite DEF TypeOK
<1>2. InSuite \subseteq Runs
  BY DEF InSuite
<1>3. ASSUME phase' \notin TrainPhases PROVE OnPlan'
  BY <1>3 DEF OnPlan
\* The run whose turn it is is not written, or is left as the suite wants it.
<1>4. ASSUME Rest, phase \in TrainPhases, phase' \in TrainPhases \ {"train"},
             NEW f, Writes(f), f.metrics \in {Nothing, Wanted(Here)},
             UNCHANGED <<environment, at, chosen, plan>>
      PROVE  OnPlan'
  <2>1. /\ InSuite' = InSuite /\ Here' = Here
        /\ \A r : Wanted(r)' = Wanted(r)
    BY <1>4, SameRun
  <2>2. \A r \in Runs : files'[r] = IF r = Here THEN f ELSE files[r]
    BY <1>1, <1>4 DEF Writes, TypeOK
  <2>3. \A r : Ahead(r)' <=> r # Here /\ Ahead(r)
    BY <1>4, <2>1 DEF Ahead
  <2>4. ASSUME NEW r \in InSuite
        PROVE  /\ Ahead(r)' => /\ plan'[r] \in {"train", "resume"} => files'[r].metrics = Nothing
                               /\ plan'[r] = "keep" => files'[r].metrics = Wanted(r)
               /\ ~Ahead(r)' => files'[r].metrics \in {Nothing, Wanted(r)}
    BY <1>2, <1>4, <2>2, <2>3 DEF OnPlan
  <2>5. QED
    BY <2>1, <2>4 DEF OnPlan
\* The suite goes on, and the run is as the suite wants it.
<1>5. ASSUME Rest, phase \in TrainPhases, phase' = "train", GoOn, files' = files,
             UNCHANGED <<environment, chosen, plan>>,
             files[Here].metrics \in {Nothing, Wanted(Here)}
      PROVE  OnPlan'
  <2>1. /\ InSuite' = InSuite
        /\ \A r \in InSuite : Ahead(r)' <=> r # Here /\ \E k \in at..Len(Every) : Every[k] = r
    BY <1>5, NextRun
  <2>2. \A r : Wanted(r)' = Wanted(r)
    BY <1>5 DEF Wanted, environment
  <2>3. \A r \in InSuite : Ahead(r)' <=> r # Here /\ Ahead(r)
    BY <2>1 DEF Ahead
  <2>4. QED
    BY <1>5, <2>1, <2>2, <2>3 DEF OnPlan
<1>6. CASE Starts
  <2>1. PICK suite \in Suites : Start(suite)
    BY <1>6 DEF Starts
  <2>2. /\ InSuite' = {r \in Runs : r[1] \in suite} /\ files' = files /\ at' = 1
        /\ \A r : Wanted(r)' = Wanted(r)
    BY <2>1 DEF Start, InSuite, AtRun, Wanted, environment, disk
  <2>3. ASSUME NEW r \in InSuite' PROVE Ahead(r)' /\ plan'[r] = Plan(r) /\ r \in Runs
    <3>1. r \in Runs /\ r[1] \in suite
      BY <2>2
    <3>2. PICK i \in DOMAIN Every : Every[i] = r
      BY <3>1 DEF Runs
    <3>3. Ahead(r)'
      <4>1. i \in 1..Len(Every)
        BY EveryOnce
      <4>2. phase' = "train"
        BY <2>1 DEF Start
      <4>3. QED
        BY <2>2, <3>2, <4>1, <4>2 DEF Ahead
    <3>4. QED
      BY <2>1, <3>1, <3>3 DEF Start
  <2>4. QED
    BY <2>2, <2>3, PlanTrue DEF OnPlan
<1>7. CASE SkipKept
  <2>1. Rest /\ Ahead(Here) /\ plan[Here] = "keep" /\ phase = "train"
    <3>1. Rest /\ plan[Here] = "keep" /\ phase = "train"
      BY <1>7 DEF SkipKept
    <3>2. Turn(at) \in at..Len(Every) /\ Every[Turn(at)] = Here
      BY <3>1, FirstPasses DEF Rest, Turn, Here, TypeOK
    <3>3. QED
      BY <3>1, <3>2 DEF Ahead
  <2>2. files[Here].metrics = Wanted(Here)
    BY <1>1, <2>1 DEF OnPlan, TrainPhases
  <2>3. QED
    BY <1>5, <1>7, <2>2 DEF SkipKept, TrainPhases, disk
<1>8. CASE Archive
  <2>1. Empty.metrics = Nothing
    BY DEF Empty
  <2>2. QED
    BY <1>4, <1>8, <2>1 DEF Archive, TrainPhases
<1>9. CASE Launch
  <2>1. Rest /\ Ahead(Here) /\ plan[Here] \in {"train", "resume"} /\ phase = "train"
    <3>1. Rest /\ plan[Here] \in {"train", "resume"} /\ phase = "train"
      BY <1>9 DEF Launch
    <3>2. Turn(at) \in at..Len(Every) /\ Every[Turn(at)] = Here
      BY <3>1, FirstPasses DEF Rest, Turn, Here, TypeOK
    <3>3. QED
      BY <3>1, <3>2 DEF Ahead
  <2>2. files[Here].metrics = Nothing
    BY <1>1, <2>1 DEF OnPlan, TrainPhases
  <2>3. Writes(files[Here])
    BY <1>1, <1>9 DEF Launch, Writes, disk, TypeOK
  <2>4. QED
    BY <1>4, <1>9, <2>2, <2>3 DEF Launch, TrainPhases
<1>10. CASE Open
  <2>1. Rest /\ files[Here].metrics = Nothing
    BY <1>10 DEF Open, AtRun
  <2>2. [files[Here] EXCEPT !.started = TRUE].metrics = Nothing
    BY <1>1, <2>1 DEF RunFiles
  <2>3. QED
    BY <1>4, <1>10, <2>1, <2>2 DEF Open, TrainPhases
<1>11. CASE Configure
  <2>1. Rest /\ files[Here].metrics = Nothing
    BY <1>11 DEF Configure, AtRun
  <2>2. [files[Here] EXCEPT !.config = Wanted(Here)].metrics = Nothing
    BY <1>1, <2>1 DEF RunFiles
  <2>3. QED
    BY <1>4, <1>11, <2>1, <2>2 DEF Configure, TrainPhases
<1>12. CASE Finish
  <2>1. Rest
    BY <1>12 DEF Finish, AtRun
  <2>2. [files[Here] EXCEPT !.metrics = Wanted(Here)].metrics = Wanted(Here)
    BY <1>1, <2>1 DEF RunFiles
  <2>3. QED
    BY <1>4, <1>12, <2>1, <2>2 DEF Finish, TrainPhases
<1>13. ASSUME Rest, phase \in TrainPhases \ {"train"} PROVE files[Here].metrics \in {Nothing, Wanted(Here)}
  <2>1. ~Ahead(Here)
    BY <1>13 DEF Ahead
  <2>2. QED
    BY <1>1, <1>13, <2>1 DEF OnPlan
<1>14. CASE Trained
  <2>1. Rest
    BY <1>14 DEF Trained, AtRun
  <2>2. QED
    BY <1>5, <1>13, <1>14, <2>1 DEF Trained, TrainPhases, disk
<1>15. CASE OwnError
  <2>1. CASE phase \in {"launch", "open", "fit", "trained"}
    <3>1. phase' = "train"
      BY <1>15, <2>1 DEF OwnError
    <3>2. QED
      BY <1>5, <1>13, <1>15, <2>1, <3>1 DEF OwnError, TrainPhases, disk
  <2>2. CASE phase \notin {"launch", "open", "fit", "trained"}
    <3>1. phase' = "audit"
      BY <1>15, <2>2 DEF OwnError
    <3>2. QED
      BY <1>3, <3>1 DEF TrainPhases
  <2>3. QED
    BY <2>1, <2>2
<1>16. CASE TrainedAll \/ Audit \/ Tables
  BY <1>3, <1>16 DEF TrainedAll, Audit, SkipAudit, Score, Report, AuditDone, AuditedAll, Tables,
                     WriteTables, RefuseTables, End, Gone, TrainPhases
<1>17. CASE Outage \/ Crash \/ Change
  BY <1>3, <1>17 DEF Outage, Crash, Change, Gone, TrainPhases, process
<1>18. CASE UNCHANGED vars
  <2>1. /\ chosen' = chosen /\ at' = at /\ UNCHANGED environment /\ files' = files
        /\ phase' = phase /\ plan' = plan
    BY <1>18 DEF vars, process, disk
  <2>2. Here' = Here /\ InSuite' = InSuite /\ \A r : Wanted(r)' = Wanted(r)
    BY <2>1, SameRun
  <2>3. \A r : Ahead(r)' <=> Ahead(r)
    BY <2>1, <2>2 DEF Ahead
  <2>4. QED
    BY <2>1, <2>2, <2>3 DEF OnPlan
<1>19. QED
  BY <1>6, <1>7, <1>8, <1>9, <1>10, <1>11, <1>12, <1>14, <1>15, <1>16, <1>17, <1>18
  DEF Next, Works, Train

\* What the suite wants of the runs it is done with stays so, and is what its tables say.
LEMMA WantedStep ==
    /\ TypeOK /\ FilesAgree /\ AtRun /\ OnPlan /\ AllWanted /\ TablesOfPlan
    /\ [Next]_vars
    => AllWanted' /\ TablesOfPlan'
<1> SUFFICES ASSUME TypeOK, FilesAgree, AtRun, OnPlan, AllWanted, TablesOfPlan, [Next]_vars
             PROVE  AllWanted' /\ TablesOfPlan'
  OBVIOUS
<1>1. Rest => Here \in InSuite /\ Here \in Runs /\ files[Here] \in RunFiles
  BY HereInSuite DEF TypeOK
<1>2. InSuite \subseteq Runs
  BY DEF InSuite
<1> DEFINE Done == {"audit", "scored", "audited", "tables", "written"}
<1>3. ASSUME phase' \notin Done PROVE AllWanted' /\ TablesOfPlan'
  BY <1>3 DEF AllWanted, TablesOfPlan
<1>4. ASSUME UNCHANGED environment, chosen' = chosen,
             \A r \in Runs : files'[r].metrics = files[r].metrics,
             \A r \in InSuite : files[r].metrics \in {Nothing, Wanted(r)}
      PROVE  AllWanted'
  <2>1. InSuite' = InSuite /\ \A r : Wanted(r)' = Wanted(r)
    BY <1>4 DEF InSuite, Wanted, environment
  <2>2. QED
    BY <1>2, <1>4, <2>1 DEF AllWanted
<1>5. ASSUME phase' # "written" PROVE TablesOfPlan'
  BY <1>5 DEF TablesOfPlan
<1>6. phase \in {"audit", "scored", "audited"} =>
        \A r \in InSuite : files[r].metrics \in {Nothing, Wanted(r)}
  BY DEF AllWanted
<1>7. CASE TrainedAll
  <2>1. phase = "train" /\ ~Rest /\ phase' = "audit"
    BY <1>7 DEF TrainedAll
  <2>2. \A r \in InSuite : ~Ahead(r)
    BY <2>1, FirstPasses DEF Ahead, Rest, Turn, TypeOK
  <2>3. \A r \in InSuite : files[r].metrics \in {Nothing, Wanted(r)}
    BY <2>1, <2>2 DEF OnPlan, TrainPhases
  <2>4. QED
    BY <1>4, <1>5, <1>7, <2>1, <2>3 DEF TrainedAll, disk
<1>8. CASE SkipAudit \/ AuditDone \/ AuditedAll
  BY <1>4, <1>5, <1>6, <1>8 DEF SkipAudit, AuditDone, AuditedAll, disk
<1>9. ASSUME NEW f, Rest, Writes(f), f.metrics = files[Here].metrics
      PROVE  \A r \in Runs : files'[r].metrics = files[r].metrics
  BY <1>1, <1>9 DEF Writes, TypeOK
<1>10. CASE Score
  <2> DEFINE f == files[Here]
             g == [f EXCEPT !.scores[NextSplit(f)] = f.metrics]
  <2>1. Rest /\ Writes(g) /\ phase = "audit" /\ phase' = "scored" /\ chosen' = chosen
        /\ UNCHANGED environment
    BY <1>10 DEF Score
  <2>2. g.metrics = f.metrics
    BY <1>1, <2>1 DEF RunFiles
  <2> HIDE DEF g
  <2>3. QED
    BY <1>4, <1>5, <1>6, <1>9, <2>1, <2>2
<1>11. CASE Report
  <2> DEFINE f == files[Here]
             g == [f EXCEPT !.report[NextSplit(f)] = f.metrics]
  <2>1. Rest /\ Writes(g) /\ phase = "scored" /\ phase' # "written" /\ chosen' = chosen
        /\ UNCHANGED environment
    BY <1>11 DEF Report, AtRun
  <2>2. g.metrics = f.metrics
    BY <1>1, <2>1 DEF RunFiles
  <2> HIDE DEF g
  <2>3. QED
    BY <1>4, <1>5, <1>6, <1>9, <2>1, <2>2
<1>12. CASE OwnError
  <2>1. CASE phase \in {"launch", "open", "fit", "trained"}
    BY <1>3, <1>12, <2>1 DEF OwnError
  <2>2. CASE phase \in {"audit", "scored", "audited"}
    <3>1. phase' = "audit"
      BY <1>12, <2>2 DEF OwnError
    <3>2. QED
      BY <1>4, <1>5, <1>6, <1>12, <2>2, <3>1 DEF OwnError, disk
  <2>3. QED
    BY <1>12, <2>1, <2>2 DEF OwnError
<1>13. CASE Outage
  BY <1>13 DEF Outage, AllWanted, TablesOfPlan
<1>14. CASE WriteTables
  <2>1. /\ phase = "tables" /\ phase' = "written" /\ chosen' = chosen /\ stopped' = stopped
        /\ UNCHANGED environment /\ files' = files
        /\ table' = [r \in Runs |-> IF r \in InSuite THEN Outcome(r) ELSE "none"]
    BY <1>14 DEF WriteTables, disk
  <2>2. CASE stopped
    BY <2>1, <2>2 DEF AllWanted, TablesOfPlan
  <2>3. CASE ~stopped
    <3>1. \A r \in InSuite : files[r].metrics \in {Nothing, Wanted(r)}
      BY <2>1, <2>3 DEF AllWanted
    <3>2. AllWanted'
      BY <1>4, <2>1, <3>1
    <3>3. ASSUME NEW r \in Runs, table'[r] = "complete" PROVE OfPlan(r)'
      <4>1. r \in InSuite /\ Outcome(r) = "complete"
        BY <2>1, <3>3
      <4>2. Audited(files[r])
        BY <4>1 DEF Outcome
      <4>3. files[r] \in RunFiles /\ Agrees(files[r])
        BY DEF TypeOK, FilesAgree
      <4>4. files[r].metrics = Wanted(r)
        BY <3>1, <4>1, <4>2 DEF Audited, Complete
      <4>5. \A s \in {"validation", "test"} : files[r].report[s] = Wanted(r)
        BY <4>2, <4>3, <4>4 DEF Audited, Agrees, RunFiles
      <4>6. QED
        BY <2>1, <4>4, <4>5 DEF OfPlan, Wanted, environment
    <3>4. QED
      BY <3>2, <3>3 DEF TablesOfPlan
  <2>4. QED
    BY <2>2, <2>3 DEF TypeOK
<1>15. CASE RefuseTables \/ End \/ Crash
  BY <1>3, <1>15 DEF RefuseTables, End, Crash, Gone
<1>16. CASE Change
  BY <1>3, <1>16 DEF Change, process
<1>17. CASE Starts
  BY <1>3, <1>17 DEF Starts, Start
<1>18. CASE SkipKept \/ Archive \/ Launch \/ Open \/ Configure \/ Finish \/ Trained
  BY <1>3, <1>18 DEF SkipKept, Archive, Launch, Open, Configure, Finish, Trained
<1>19. CASE UNCHANGED vars
  <2>1. /\ chosen' = chosen /\ UNCHANGED environment /\ files' = files /\ phase' = phase
        /\ stopped' = stopped /\ table' = table
    BY <1>19 DEF vars, process, disk
  <2>2. InSuite' = InSuite /\ \A r : Wanted(r)' = Wanted(r)
    BY <2>1 DEF InSuite, Wanted, environment
  <2>3. \A r : OfPlan(r)' <=> OfPlan(r)
    BY <2>1, <2>2 DEF OfPlan
  <2>4. QED
    BY <2>1, <2>2, <2>3 DEF AllWanted, TablesOfPlan
<1>20. QED
  BY <1>7, <1>8, <1>10, <1>11, <1>12, <1>13, <1>14, <1>15, <1>16, <1>17, <1>18, <1>19
  DEF Next, Works, Train, Audit, Tables

-----------------------------------------------------------------------------
(* The theorems. *)

\* A suite that has not started: nothing is written, nothing is planned.
LEMMA SuiteInit == Init => IInv
<1> SUFFICES ASSUME Init PROVE FilesAgree /\ AtRun /\ OnPlan /\ AllWanted /\ TablesOfPlan
  BY InitType DEF IInv
<1>1. FilesAgree
  BY DEF Init, FilesAgree, Agrees, Empty, NoSplit
<1>2. QED
  BY <1>1 DEF Init, AtRun, OnPlan, TrainPhases, AllWanted, TablesOfPlan

\* Every step keeps the invariant.
LEMMA SuiteNext == IInv /\ [Next]_vars => IInv'
BY TypeStep, FilesStep, AtRunStep, OnPlanStep, WantedStep DEF IInv

\* The suite's invariant holds always.
LEMMA SuiteInvariant == Spec => []IInv
BY SuiteInit, SuiteNext, PTL DEF Spec

\* Every variable of a suite keeps its type: an audit writes a split the suite has, and the
\* process is always at a place in the order of its runs.
THEOREM SuiteTypeCorrect == Spec => []TypeOK
<1>1. IInv => TypeOK
  BY DEF IInv
<1>2. QED
  BY <1>1, SuiteInvariant, PTL

\* write_audit, archive: however an audit was interrupted, its report and its scores are of the
\* model beside them.
THEOREM AuditsCorrect == Spec => []AuditsOfModel
<1>1. IInv => AuditsOfModel
  BY DEF IInv, FilesAgree, Agrees, AuditsOfModel
<1>2. QED
  BY <1>1, SuiteInvariant, PTL

\* plan_run and outcome: a suite that no outage stopped says of a run it is complete only when
\* the run is of the settings and the dataset the suite has.
THEOREM TablesCorrect == Spec => []TablesOfPlan
<1>1. IInv => TablesOfPlan
  BY DEF IInv
<1>2. QED
  BY <1>1, SuiteInvariant, PTL

\* archive: a suite loses no result, whatever changes, fails or dies between its steps.
THEOREM ResultsCorrect == Spec => ResultsKept
<1>1. IInv /\ [Next]_vars => KeepsResults
  BY KeepsStep DEF IInv
<1>2. Spec => [][KeepsResults]_vars
  BY <1>1, SuiteInvariant, PTL DEF Spec
<1>3. QED
  BY <1>2 DEF ResultsKept
=============================================================================
