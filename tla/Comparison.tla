----------------------------- MODULE Comparison -----------------------------
(* The comparison of a suite's variants (experiments/tables.py on metrics.py): the runs   *)
(* are audited one after the other on one sample, each without the accounts TigerGraph    *)
(* rejected in it, and the tables pair each variant with the baseline on the accounts all *)
(* audits scored.                                                                         *)
(*                                                                                        *)
(* A score is the log-odds of a probability, as an integer.  The numbers of a random      *)
(* generator are an input; that each generator is seeded anew is in who uses them again.  *)
(* The audits are of one split and the metric is the average precision, of the hidden     *)
(* mules and of every mule.                                                               *)
EXTENDS AuditSample, SequencesExt

CONSTANTS
    Plan,         \* the runs of the suite, in order: [variant, seed]
    Baseline,     \* BASELINE_VARIANT
    MuleAccounts, \* the mules of the split, those known at its cutoff
    KnownMules,
    Others,       \* its other accounts
    Ring,         \* the ring of each mule, or NoRing
    NoRing,
    Rejectable,   \* the accounts TigerGraph may reject
    Limit,        \* how many rejected accounts an audit allows
    Models,       \* for each run the scores its model may give
    Clip,         \* LOG_ODDS_CLIP, as log-odds
    Commits,      \* the commits of the code the suite may be run at, in their order
    Generators    \* [accounts, seeds]: the numbers of each replicate of the two generators

ASSUME ComparisonAssumption ==
    /\ \A n, k \in DOMAIN Plan : Plan[n] = Plan[k] => n = k
    /\ MuleAccounts \cap Others = {} /\ MuleAccounts \cup Others \subseteq Nat
    /\ Ring \in [MuleAccounts -> Nat \cup {NoRing}] /\ NoRing \notin Nat
    /\ KnownMules \subseteq MuleAccounts
    /\ Clip \in Nat /\ Limit \in Nat /\ Commits \subseteq Nat /\ Commits # {}

Runs == DOMAIN Plan

VARIABLES
    drawn,      \* the non-mules of the audit sample
    generator,  \* the generators' numbers
    status,     \* what became of each run
    commit,     \* the commit each run was trained at; the last one for those not yet run
    audits,     \* the scored sample of each audit; <<>> without one
    table       \* {}, or the tables that were written

vars == <<drawn, generator, status, commit, audits, table>>

Sample == MuleAccounts \cup drawn

Init ==
    /\ drawn \in kSubset(Drawn(Others), Others)
    /\ generator \in Generators
    /\ status = [n \in Runs |-> "pending"]
    /\ commit = [n \in Runs |-> Min(Commits)]
    /\ audits = [n \in Runs |-> <<>>]
    /\ table = {}

-----------------------------------------------------------------------------
(* The runs. *)

Pending == {n \in Runs : status[n] = "pending"}
Complete == {n \in Runs : status[n] = "complete"}

\* The scored sample of a model without the rejected accounts.
Scored(score, rejected) ==
    [a \in Sample \ rejected |->
        [mule |-> a \in MuleAccounts, revealed |-> a \in KnownMules,
         ring |-> IF a \in MuleAccounts THEN Ring[a] ELSE NoRing,
         score |-> score[a], weight |-> Weight(Others, a \in MuleAccounts)]]

\* Mutant: any account may be rejected.
CensoredByCount(rejected) == Cardinality(rejected) > Limit

Censored(rejected) == rejected \cap MuleAccounts # {} \/ Cardinality(rejected) > Limit

\* A run is trained and audited; a censored sample fails it.
Audit(n) ==
    \E score \in Models[n], rejected \in SUBSET (Sample \cap Rejectable) :
        IF Censored(rejected)
          THEN status' = [status EXCEPT ![n] = "failed"] /\ UNCHANGED audits
          ELSE /\ status' = [status EXCEPT ![n] = "complete"]
               /\ audits' = [audits EXCEPT ![n] = Scored(score, rejected)]

\* An error of its own.
Fail(n) == status' = [status EXCEPT ![n] = "failed"] /\ UNCHANGED audits

\* An outage: the runs that are left are not tried.
Stop ==
    /\ status' = [n \in Runs |-> IF n \in Pending THEN "stopped" ELSE status[n]]
    /\ UNCHANGED audits

RunNext ==
    /\ Pending # {}
    /\ LET n == Min(Pending) IN Audit(n) \/ Fail(n) \/ Stop
    /\ UNCHANGED <<drawn, generator, commit, table>>

\* The code changes before a suite is run again for the runs that are left.
Change ==
    /\ Pending # {}
    /\ \E later \in Commits :
         /\ later > commit[Min(Pending)]
         /\ commit' = [n \in Runs |-> IF n \in Pending THEN later ELSE commit[n]]
    /\ UNCHANGED <<drawn, generator, status, audits, table>>

-----------------------------------------------------------------------------
(* The pairing. *)

\* The accounts every audit scored, and those some audits scored and others rejected.
Shared(runs) == {a \in Sample : \A n \in runs : a \in DOMAIN audits[n]}
Unpaired(runs) == Cardinality(UNION {DOMAIN audits[n] : n \in runs} \ Shared(runs))

Ranked(rows, mules) == IF mules = "hidden" THEN HiddenRows(rows) ELSE rows

\* The rows of a run that are compared.
Paired(n, runs, mules) ==
    Ranked([a \in Shared(runs) |-> audits[n][a]], mules)

\* The positive clusters: each ring's mules, then those without a ring one by one.
RingClusters(rows) ==
    LET mules == DOMAIN Mules(rows)
        rings == {rows[a].ring : a \in mules} \ {NoRing}
        alone == {a \in mules : rows[a].ring = NoRing}
        Ascending(set) == SetToSortSeq(set, <)
    IN [i \in 1..Cardinality(rings) |-> {a \in mules : rows[a].ring = Ascending(rings)[i]}]
         \o [i \in 1..Cardinality(alone) |-> {Ascending(alone)[i]}]

\* One resample: as many clusters as there are, with all their rows, and as many non-mules.
\* A row that is drawn twice has twice the weight.
Resample(rows, numbers) ==
    LET clusters == RingClusters(rows)
        others == SetToSortSeq({a \in DOMAIN rows : ~rows[a].mule}, <)
        Picked(j) == clusters[(numbers[j] % Len(clusters)) + 1]
        Chosen(j) == others[(numbers[Len(clusters) + j] % Len(others)) + 1]
        Drawings(a) == IF rows[a].mule
                    THEN Cardinality({j \in 1..Len(clusters) : a \in Picked(j)})
                    ELSE Cardinality({j \in 1..Len(others) : Chosen(j) = a})
    IN [a \in {a \in DOMAIN rows : Drawings(a) > 0} |->
           [rows[a] EXCEPT !.weight = @ * Drawings(a)]]

Replicates == DOMAIN generator.accounts

\* Mutant: each run has resamples of its own.
ReplicateOfItsOwn(rows, i, column) ==
    LET other == ((i + column) % Len(generator.accounts)) + 1
    IN AveragePrecision(Resample(rows, generator.accounts[other]))

\* The average precision of the run in a column on a shared replicate: the generator is
\* seeded alike for every column.
Replicate(rows, i, column) == AveragePrecision(Resample(rows, generator.accounts[i]))

\* A quantile of values by their order, interpolated between two of them.
Quantile(values, num, den) ==
    LET n == Len(values)
        below == ((n - 1) * num) \div den
        rest == Ratio(((n - 1) * num) % den, den)
        low == values[below + 1]
        high == IF below + 2 > n THEN low ELSE values[below + 2]
    IN Plus(low, Times(rest, Minus(high, low)))

\* The central nine tenths.
PercentileInterval(values) ==
    LET sorted == SortSeq(values, LAMBDA p, q : Minus(p, q).num < 0)
    IN [low |-> Quantile(sorted, 1, 20), high |-> Quantile(sorted, 19, 20)]

-----------------------------------------------------------------------------
(* The comparison of a variant with the baseline. *)

Variants == {Plan[n].variant : n \in Runs}
SeedsOf(variant, runs) == {Plan[n].seed : n \in {n \in runs : Plan[n].variant = variant}}
RunOf(variant, seed) == CHOOSE n \in Runs : Plan[n] = [variant |-> variant, seed |-> seed]

NoDelta == {}

\* The seeds a replicate draws, as many as there are, by a generator of their own.
SeedDraw(i, k, count) == (generator.seeds[i][k] % count) + 1

TwoSourceMean(differences, order, i) ==
    MeanOver(DOMAIN order, LAMBDA k : differences[i][order[SeedDraw(i, k, Len(order))]])

\* paired_delta: the difference of each seed both completed, their mean, and its intervals:
\* of the audit sample alone, and of the sample and the seeds, drawn again as well.
PairedDelta(variant, runs, mules) ==
    LET seeds == SeedsOf(variant, runs) \cap SeedsOf(Baseline, runs)
        order == SetToSortSeq(seeds, <)
        Rows(of, s) == Paired(RunOf(of, s), runs, mules)
        point == [s \in seeds |-> Minus(AveragePrecision(Rows(variant, s)),
                                        AveragePrecision(Rows(Baseline, s)))]
        differences == [i \in Replicates |-> [s \in seeds |->
                           Minus(Replicate(Rows(variant, s), i, RunOf(variant, s)),
                                 Replicate(Rows(Baseline, s), i, RunOf(Baseline, s)))]]
        audit == [i \in Replicates |-> MeanOver(seeds, LAMBDA s : differences[i][s])]
        both == [i \in Replicates |-> TwoSourceMean(differences, order, i)]
    IN IF variant = Baseline \/ seeds = {} THEN NoDelta
       ELSE {[value |-> MeanOver(seeds, LAMBDA s : point[s]), seeds |-> point,
              audit |-> PercentileInterval(audit), interval |-> PercentileInterval(both)]}

Consistent(delta) ==
    \/ delta.value.num > 0 /\ delta.interval.low.num > 0
    \/ delta.value.num < 0 /\ delta.interval.high.num < 0

Agreeing(delta) == Cardinality({s \in DOMAIN delta.seeds :
                                  delta.seeds[s].num * delta.value.num > 0})

Clipped(score) == Max({-Clip, Min({score, Clip})})

\* seed_ensembles: the rows of two or more seeds with their mean log-odds, here their sum.
Ensemble(variant, runs, mules) ==
    LET seeds == SeedsOf(variant, runs)
        Rows(s) == Paired(RunOf(variant, s), runs, mules)
        Sum(a) == MapThenSumSet(LAMBDA s : Clipped(Rows(s)[a].score), seeds)
        first == Rows(Min(seeds))
    IN IF Cardinality(seeds) < 2 THEN NoDelta
       ELSE {AveragePrecision([a \in DOMAIN first |-> [first[a] EXCEPT !.score = Sum(a)]])}

\* seed_means: of what each run's own audit recorded.
SeedMean(variant, runs, mules) ==
    IF SeedsOf(variant, runs) = {} THEN NoDelta
    ELSE {MeanOver(SeedsOf(variant, runs),
                   LAMBDA s : AveragePrecision(Ranked(audits[RunOf(variant, s)], mules)))}

\* _usual: the most common value, the first of those tied.
Usual(values) ==
    LET Count(v) == Cardinality({i \in DOMAIN values : values[i] = v})
        first == Min({i \in DOMAIN values :
                        \A j \in DOMAIN values : Count(values[j]) <= Count(values[i])})
    IN values[first]

\* differences: the runs of a variant whose provenance is not the usual.
Differs(variant, runs) ==
    LET order == SetToSortSeq(runs, <)
    IN {n \in runs : /\ Plan[n].variant = variant
                     /\ commit[n] # Usual([i \in DOMAIN order |-> commit[order[i]]])}

\* bootstrap_intervals: the interval that an audit records of its own rows.
OwnInterval(rows) ==
    PercentileInterval([i \in Replicates |->
        AveragePrecision(Resample(rows, generator.accounts[i]))])

\* What an audit records, of the hidden mules or of every mule.
AuditResults(n, mules) == OwnInterval(Ranked(audits[n], mules))

\* mean_interval: that of the mean over a variant's runs, on the shared replicates.
MeanInterval(variant, runs, mules) ==
    LET mine == {n \in runs : Plan[n].variant = variant}
    IN IF mine = {} THEN {}
       ELSE {PercentileInterval([i \in Replicates |->
                 MeanOver(mine, LAMBDA n : Replicate(Paired(n, runs, mules), i, n))])}

\* summary.csv: what each run's audit and the pairing say of it.
Summary(runs, mules) ==
    [n \in runs |->
        LET theirs == {k \in runs : Plan[k] = [variant |-> Baseline, seed |-> Plan[n].seed]}
            point == AveragePrecision(Paired(n, runs, mules))
        IN [own |-> AuditResults(n, mules), paired |-> point,
            delta |-> IF Plan[n].variant = Baseline THEN NoDelta
                      ELSE {Minus(point, AveragePrecision(Paired(k, runs, mules))) :
                              k \in theirs}]]

\* comparison.csv.
Row(variant, runs, mules) ==
    [mean |-> SeedMean(variant, runs, mules),
     interval |-> MeanInterval(variant, runs, mules),
     delta |-> PairedDelta(variant, runs, mules),
     ensemble |-> Ensemble(variant, runs, mules)]

WriteTables ==
    /\ Pending = {} /\ table = {}
    /\ table' = {[shared |-> Shared(Complete), unpaired |-> Unpaired(Complete),
                  summary |-> [m \in {"hidden", "every"} |-> Summary(Complete, m)],
                  differs |-> [v \in Variants |-> Differs(v, Complete)],
                  rows |-> [v \in Variants |-> [m \in {"hidden", "every"} |->
                              Row(v, Complete, m)]]]}
    /\ UNCHANGED <<drawn, generator, status, commit, audits>>

Next == RunNext \/ Change \/ WriteTables

Spec == Init /\ [][Next]_vars

-----------------------------------------------------------------------------
(* Properties. *)

\* Every mule of the sample is in the comparison, hidden or known.  The difference of two
\* variants is the mean of those of their runs in the summary; when every run scored all
\* that the others did, it is that of the numbers their audits recorded, and a lone run has
\* the interval that its audit has; and where no run of either is said to differ, both are
\* of one code.
PairedFairly ==
    \A t \in table : \A v \in Variants, m \in {"hidden", "every"} :
        /\ Complete # {} => MuleAccounts \subseteq t.shared
        /\ t.unpaired = 0 /\ Cardinality(SeedsOf(v, Complete)) = 1 =>
             \A n \in Complete : Plan[n].variant = v =>
                 t.rows[v][m].interval = {t.summary[m][n].own}
        /\ \A delta \in t.rows[v][m].delta :
             LET seeds == SeedsOf(v, Complete) \cap SeedsOf(Baseline, Complete)
                 Of(variant, s) == t.summary[m][RunOf(variant, s)]
             IN /\ \A s \in seeds : Of(v, s).delta = {delta.seeds[s]}
                /\ delta.value = Minus(MeanOver(seeds, LAMBDA s : Of(v, s).paired),
                                       MeanOver(seeds, LAMBDA s : Of(Baseline, s).paired))
                /\ t.unpaired = 0 /\ SeedsOf(v, Complete) = SeedsOf(Baseline, Complete) =>
                     \A mine \in t.rows[v][m].mean, theirs \in t.rows[Baseline][m].mean :
                         delta.value = Minus(mine, theirs)
                /\ t.differs[v] \cup t.differs[Baseline] = {} =>
                     \A n, k \in Complete :
                         {Plan[n].variant, Plan[k].variant} \subseteq {v, Baseline}
                             => commit[n] = commit[k]

\* One scoring of some rows ranks each mule at least as high among the non-mules as
\* another, and the mules alike.
RankedNoLower(mine, theirs) ==
    \A a \in DOMAIN Mules(mine), b \in DOMAIN mine :
        IF mine[b].mule
          THEN (mine[a].score >= mine[b].score) = (theirs[a].score >= theirs[b].score)
          ELSE mine[b].score >= mine[a].score => theirs[b].score >= theirs[a].score

NoLower(mine, theirs, mules) ==
    \A s \in SeedsOf(mine, Complete) \cap SeedsOf(theirs, Complete) :
        RankedNoLower(Paired(RunOf(mine, s), Complete, mules),
                      Paired(RunOf(theirs, s), Complete, mules))

\* The rows of a run rank alike those of another.
RankedAlike(mine, theirs) ==
    \A a, b \in DOMAIN mine :
        (mine[a].score >= mine[b].score) = (theirs[a].score >= theirs[b].score)

\* A variant whose every run ranks the shared mules no lower than the baseline's run of its
\* seed is no worse, in value and in both intervals, whatever the generators draw, and the
\* reverse: chance in the draws never makes a claim, and equal rankings make none at all.
ChanceClaimsNothing(v, m) ==
    \A t \in table : \A delta \in t.rows[v][m].delta :
        /\ NoLower(v, Baseline, m) =>
             /\ delta.value.num >= 0
             /\ delta.interval.low.num >= 0 /\ delta.audit.low.num >= 0
        /\ NoLower(Baseline, v, m) =>
             /\ delta.value.num <= 0
             /\ delta.interval.high.num <= 0 /\ delta.audit.high.num <= 0
        /\ NoLower(v, Baseline, m) /\ NoLower(Baseline, v, m) =>
             ~Consistent(delta) /\ Agreeing(delta) = 0

\* Seeds that rank the shared accounts alike, within the clip, lose nothing in their
\* ensemble: it ranks as each of them.
AgreementKept(v, m) ==
    \A t \in table : \A ensemble \in t.rows[v][m].ensemble :
        LET Rows(s) == Paired(RunOf(v, s), Complete, m)
            seeds == SeedsOf(v, Complete)
        IN (\A s \in seeds : /\ RankedAlike(Rows(s), Rows(Min(seeds)))
                             /\ \A a \in DOMAIN Rows(s) : Rows(s)[a].score \in -Clip..Clip)
             => ensemble = AveragePrecision(Rows(Min(seeds)))

\* What the tables claim follows from how the runs rank the accounts they share: neither
\* the draws of the resamples nor the averaging of seeds decides it.
RankingsDecide ==
    \A v \in Variants, m \in {"hidden", "every"} :
        ChanceClaimsNothing(v, m) /\ AgreementKept(v, m)
=============================================================================
