---------------------------- MODULE AuditSample ----------------------------
(* The arithmetic of an audit: the case/control sample with its inclusion weights, the    *)
(* blocks of tied scores and the review budgets.                                          *)
(*                                                                                        *)
(* A row is a sampled account, [mule, revealed, score, weight].  Weights are counted in   *)
(* units so that they are integers: a mule, always sampled, weighs BudgetShare units for  *)
(* each non-mule drawn, and each of those stands for its share of all non-mules.          *)
EXTENDS Ratios

CONSTANTS
    Negatives,    \* the non-mules an audit draws
    BudgetShare,  \* the review budgets are these shares of the population:
    Budgets       \* b / BudgetShare for each b in Budgets

ASSUME AuditAssumption ==
    Negatives \in Nat \ {0} /\ BudgetShare \in Nat \ {0} /\ Budgets \subseteq 1..BudgetShare

Drawn(negatives) == Min({Cardinality(negatives), Negatives})
Unit(negatives) == BudgetShare * Max({Drawn(negatives), 1})

\* Mutant: every row stands for itself.
WeightAlike(negatives, mule) == Unit(negatives)

\* Every positive, and negatives drawn uniformly: 1 / inclusion_probability of each.
Weight(negatives, mule) ==
    IF mule THEN Unit(negatives) ELSE BudgetShare * Cardinality(negatives)

Weights(rows) == MapThenSumSet(LAMBDA a : rows[a].weight, DOMAIN rows)
Subrows(rows, test(_)) == [a \in {a \in DOMAIN rows : test(rows[a])} |-> rows[a]]

\* The mules nobody knows at the cutoff, against the non-mules.
HiddenRows(rows) == Subrows(rows, LAMBDA row : ~row.revealed)

\* The mules known by then, against the non-mules.
RevealedRows(rows) == Subrows(rows, LAMBDA row : row.revealed \/ ~row.mule)

Mules(rows) == Subrows(rows, LAMBDA row : row.mule)

\* Blocks of tied scores: what scores at least as high, and the mules among it.
Reviewed(rows, s) == Weights(Subrows(rows, LAMBDA row : row.score >= s))
Found(rows, s) == Weights(Mules(Subrows(rows, LAMBDA row : row.score >= s)))

Size(rows, b) == (b * Weights(rows)) \div BudgetShare

\* Mutant: the block that straddles the budget counts in full.
CaptureWholeBlock(rows, b) ==
    LET scores == {rows[a].score : a \in DOMAIN rows}
        block == Max({s \in scores : Reviewed(rows, s) >= Size(rows, b)})
    IN [num |-> Found(rows, block), den |-> 1]

\* The curve of the ends of the blocks, interpolated at the budget's size: the mules
\* found, as a fraction.
CaptureAt(rows, b) ==
    LET scores == {rows[a].score : a \in DOMAIN rows}
        size == Size(rows, b)
        block == Max({s \in scores : Reviewed(rows, s) >= size})
        reviewed == Reviewed(rows, block + 1)
        found == Found(rows, block + 1)
        width == Reviewed(rows, block) - reviewed
    IN [num |-> found * width + (size - reviewed) * (Found(rows, block) - found),
        den |-> width]

--------------------------------------------------------------------------------
(* The ranking metrics, over the blocks of tied scores. *)

ScoresOf(rows) == {rows[a].score : a \in DOMAIN rows}
BothClasses(rows) == {rows[a].mule : a \in DOMAIN rows} = BOOLEAN

\* The mules found and the others reviewed, to the end of a block.
Missed(rows, s) == Reviewed(rows, s) - Found(rows, s)

\* The area under roc_curve: each block of tied scores draws one diagonal segment.
RocArea(rows) ==
    LET twice == MapThenSumSet(LAMBDA s : (Missed(rows, s) - Missed(rows, s + 1))
                                            * (Found(rows, s) + Found(rows, s + 1)),
                               ScoresOf(rows))
    IN Ratio(twice, 2 * Weights(Mules(rows)) * (Weights(rows) - Weights(Mules(rows))))

\* The precision of each block times its gain in recall.
AveragePrecision(rows) ==
    SumOver(ScoresOf(rows),
            LAMBDA s : Ratio(Found(rows, s) * (Found(rows, s) - Found(rows, s + 1)),
                             Reviewed(rows, s) * Weights(Mules(rows))))

\* The non-mules of the population that score at least as high as a mule.
PopulationRank(rows, mule) ==
    Weights(Subrows(rows, LAMBDA row : ~row.mule /\ row.score >= rows[mule].score))

\* A mule's part of the average precision.
Contribution(rows, mule) ==
    Ratio(Found(rows, rows[mule].score) * rows[mule].weight,
          Reviewed(rows, rows[mule].score) * Weights(Mules(rows)))

\* share_above: all that scores at least as high fits in the budget, ties included.
InTop(rows, b) ==
    {m \in DOMAIN Mules(rows) : Reviewed(rows, rows[m].score) * BudgetShare <= b * Weights(rows)}

\* threshold_metrics' F1 of the accounts at or above a threshold.
F1(rows, threshold) ==
    IF Found(rows, threshold) = 0 THEN Zero
    ELSE Ratio(2 * Found(rows, threshold), Reviewed(rows, threshold) + Weights(Mules(rows)))

\* The lowest of the thresholds of the best F1.
SelectThreshold(rows) ==
    Min({s \in ScoresOf(rows) : \A t \in ScoresOf(rows) : AtMost(F1(rows, t), F1(rows, s))})

--------------------------------------------------------------------------------
(* The budgets by their definition: the mules among the first of the population when the  *)
(* accounts of one score come in every order equally often.                               *)

\* The subsets of k of n elements, counted.
Ways(n, k) ==
    LET ways[i \in 0..k] == IF i = 0 THEN 1 ELSE (ways[i - 1] * (n - k + i)) \div i
    IN IF k > n THEN 0 ELSE ways[k]

\* The mules among k units of a block of tied accounts, over all choices of k units.
Expected(tied, k) ==
    LET mules == Weights(Mules(tied))
        others == Weights(tied) - mules
    IN [num |-> MapThenSumSet(LAMBDA h : h * Ways(mules, h) * Ways(others, k - h),
                              0..Min({mules, k})),
        den |-> Ways(mules + others, k)]

\* CaptureAt finds as many on average when the budget ends within the block of score s.
AsExpected(rows, b) ==
    \A s \in {rows[a].score : a \in DOMAIN rows} :
        LET left == Size(rows, b) - Reviewed(rows, s + 1)
            expected == Expected(Subrows(rows, LAMBDA row : row.score = s), left)
            capture == CaptureAt(rows, b)
        IN left > 0 /\ Size(rows, b) <= Reviewed(rows, s) =>
             capture.num * expected.den
                 = (Found(rows, s + 1) * expected.den + expected.num) * capture.den

--------------------------------------------------------------------------------
(* The other metrics by their definitions. *)

\* The share of the pairs of a mule and another that the scores order rightly, a tie being
\* half a pair.
PairsOrdered(rows) ==
    LET mules == DOMAIN Mules(rows)
        pairs == mules \X (DOMAIN rows \ mules)
        Pair(p) == rows[p[1]].weight * rows[p[2]].weight
        Sure == {p \in pairs : rows[p[1]].score > rows[p[2]].score}
        Tied == {p \in pairs : rows[p[1]].score = rows[p[2]].score}
    IN Ratio(2 * MapThenSumSet(Pair, Sure) + MapThenSumSet(Pair, Tied),
             2 * MapThenSumSet(Pair, pairs))

\* The area is that share; the mules' parts, by the ranks of the diagnostics, add up to the
\* average precision; and the mules in a top fraction are no more than its budget finds,
\* and all that it finds unless it ends within a block.
MetricsAgree(rows) ==
    /\ BothClasses(rows) => RocArea(rows) = PairsOrdered(rows)
    /\ AveragePrecision(rows) = SumOver(DOMAIN Mules(rows), LAMBDA m : Contribution(rows, m))
    /\ \A m \in DOMAIN Mules(rows) :
         Found(rows, rows[m].score) + PopulationRank(rows, m) = Reviewed(rows, rows[m].score)
    /\ \A b \in Budgets :
         LET top == Weights([m \in InTop(rows, b) |-> rows[m]])
             capture == CaptureAt(rows, b)
         IN /\ top * capture.den <= capture.num
            /\ (\E s \in ScoresOf(rows) : Reviewed(rows, s) = Size(rows, b))
                  => top * capture.den = capture.num

\* No threshold has a better F1 than the selected one.
BestThreshold(rows) ==
    \A t \in 0..Max(ScoresOf(rows)) : AtMost(F1(rows, t), F1(rows, SelectThreshold(rows)))
=============================================================================
