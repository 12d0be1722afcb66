----------------------------- MODULE LabelFlow -----------------------------
(* The way of the labels: revealed in the graph, read into the dataset with the accounts  *)
(* that are kept, visible or not at each cutoff of training and of its proxy metrics, and *)
(* read once more by the audits beside the truth.                                         *)
(*                                                                                        *)
(* graph is what the reveal reads (LabelReveal), dates the cutoffs of each split, rank    *)
(* the hash rank of an account in the reservoirs.  use is the batch, the evaluation       *)
(* sample or the audit drawn last.                                                        *)
EXTENDS LabelReveal, AuditSample

CONSTANTS
    Graphs,       \* the graphs and draws considered
    Dates,        \* the cutoffs of each phase considered
    Ranks,        \* the rankings of the accounts considered
    SeedLimit,    \* dataset.seed_limits
    BatchSize,    \* training.batch_size
    MaxSteps,     \* training.steps_per_epoch
    ProxyLimit,   \* training.proxy_unlabeled_limit
    Scores        \* the scores of a model considered

ASSUME FlowAssumption ==
    /\ SeedLimit \in [Phases -> Nat \ {0}]
    /\ BatchSize \in Nat \ {0, 1} /\ MaxSteps \in Nat \ {0} /\ ProxyLimit \in Nat \ {0}
    /\ Scores \subseteq Nat

\* Accounts are numbered as they are read.  Times are those of events or come after them,
\* a discovery by tracing takes time, and the cutoffs of the splits follow each other, as
\* the configuration requires of its dates.
ASSUME InputAssumption ==
    /\ Accounts # {} /\ Accounts = 1..Cardinality(Accounts)
    /\ \A g \in Graphs :
         /\ g.mules \subseteq Accounts /\ g.first \in [Accounts -> Nat] /\ g.end \in Nat
         /\ g.monitoring \in [g.mules -> Nat]
         /\ \A m \in g.mules :
              /\ IsFiniteSet(g.reports[m])
              /\ \A r \in g.reports[m] : r.at \in Nat /\ r.confirm \in Nat
         /\ IsFiniteSet(g.links)
         /\ \A l \in g.links : /\ l.seq \in Nat /\ l.ts \in Nat /\ l.ends \subseteq g.mules
                              /\ \A m \in l.ends : l.delay[m] \in Nat \ {0}
    /\ \A d \in Dates :
         /\ d \in [Phases -> SUBSET Nat]
         /\ \A p \in Phases : d[p] # {} /\ IsFiniteSet(d[p])
         /\ \A p, q \in Phases : p < q => \A c \in d[p], e \in d[q] : c < e
    /\ Ranks \subseteq [Accounts -> Nat]

VARIABLES graph, dates, rank, found, round, labels, phase, next, selected, left, use

flowVars == <<graph, dates, rank, found, round, labels, phase, next, selected, left, use>>
inputs == <<graph, dates, rank>>
revealVars == <<found, round>>

Latest(p) == Max(dates[p])
Cutoffs == [p \in Phases |-> Latest(p)]

Unlabeled == [a \in Accounts |-> [positive |-> FALSE, from |-> 0]]
NoSelection == [heap |-> [p \in Phases |-> {}], pool |-> {}]
NoDate == [date |-> 0, accounts |-> {}, steps |-> 0]
Nothing == [kind |-> "none"]

Init ==
    /\ graph \in Graphs
    /\ dates \in Dates
    /\ rank \in Ranks
    /\ found = Own(graph)
    /\ round = 0
    /\ labels = Unlabeled
    /\ phase = "unrevealed"
    /\ next = Min(Accounts)
    /\ selected = NoSelection
    /\ left = NoDate
    /\ use = Nothing

Trace ==
    /\ round < Rounds
    /\ found' = TraceRound(graph, found)
    /\ round' = round + 1
    /\ UNCHANGED <<inputs, labels, phase, next, selected, left, use>>

\* ensure_revealed_labels of a graph without known labels writes them before it refuses.
Reveal ==
    /\ phase = "unrevealed" /\ round = Rounds
    /\ labels' = Labels(graph, found, Cutoffs)
    /\ phase' = IF Overfull(graph, found, Cutoffs) \/ ~ContractHolds(graph, labels')
                THEN "refused" ELSE "reading"
    /\ UNCHANGED <<inputs, found, round, next, selected, left, use>>

\* The reservoir of a split keeps its SeedLimit lowest ranks.
Reservoir(heap, a) ==
    LET worst == CHOOSE w \in heap : \A h \in heap : rank[h] <= rank[w]
    IN IF Cardinality(heap) < SeedLimit[Partition[a]] THEN heap \cup {a}
       ELSE IF rank[a] < rank[worst] THEN (heap \ {worst}) \cup {a}
       ELSE heap

\* One row of the population: an account that did not exist at the first cutoff of its
\* split is skipped, a positive is kept whatever its rank.
Take(sel, a, observed) ==
    IF graph.first[a] >= Min(dates[Partition[a]]) THEN sel
    ELSE [heap |-> [sel.heap EXCEPT ![Partition[a]] = Reservoir(@, a)],
          pool |-> IF observed[a].positive THEN sel.pool \cup {a} ELSE sel.pool]

Marginal(sel) == UNION {sel.heap[p] : p \in Phases}
Kept(sel) == Marginal(sel) \cup sel.pool

ReadAccount ==
    /\ phase = "reading"
    /\ next \in Accounts
    /\ selected' = Take(selected, next, labels)
    /\ next' = next + 1
    /\ UNCHANGED <<inputs, revealVars, labels, phase, left, use>>

--------------------------------------------------------------------------------
(* What a cutoff sees of a selection and its labels. *)

EligibleAt(sel, p, date) ==
    {a \in Kept(sel) : Partition[a] = p /\ graph.first[a] < date}

VisibleLabels(observed, date) ==
    {a \in Accounts : observed[a].positive /\ observed[a].from < date}

\* A train cutoff: its marginal rows and its visible positives.
PUSample(sel, observed, date) ==
    LET eligible == EligibleAt(sel, 1, date)
    IN [marginal |-> eligible \cap Marginal(sel),
        positives |-> eligible \cap VisibleLabels(observed, date)]

\* Mutant: unlabeled rows are drawn from all that is kept.
EvaluationFromPool(sel, observed, p, date) ==
    LET eligible == EligibleAt(sel, p, date)
        known == eligible \cap VisibleLabels(observed, date)
    IN [known |-> known, unlabeled |-> eligible \ known]

\* A validation or test cutoff: its visible positives, and the rows among which the
\* unlabeled ones are drawn.
EvaluationSample(sel, observed, p, date) ==
    LET eligible == EligibleAt(sel, p, date)
        known == eligible \cap VisibleLabels(observed, date)
    IN [known |-> known, unlabeled |-> (eligible \ known) \cap Marginal(sel)]

\* Validation has both classes and training a positive; otherwise train() refuses.
Trainable ==
    /\ \E d \in dates[1] : PUSample(selected, labels, d).positives # {}
    /\ \E d \in dates[2] : EvaluationSample(selected, labels, 2, d).known # {}
    /\ \E d \in dates[2] : EvaluationSample(selected, labels, 2, d).unlabeled # {}

TakeSamples ==
    /\ phase = "reading"
    /\ next \notin Accounts
    /\ phase' = IF Kept(selected) # {} /\ Trainable THEN "trained" ELSE "refused"
    /\ UNCHANGED <<inputs, revealVars, labels, next, selected, left, use>>

--------------------------------------------------------------------------------
(* Training, proxy metrics and audits read the dataset and the graph and change neither. *)

\* The positives and the marginal rows of a batch.
PositiveShare == Max({1, BatchSize \div 4})
MarginalShare == BatchSize - PositiveShare

BetweenDates == left.accounts = {} \/ left.steps = MaxSteps

\* The next train cutoff of an epoch, in the order of the configuration; a cutoff without a
\* positive or without an account is refused.
StartDate ==
    /\ phase = "trained"
    /\ BetweenDates
    /\ \E d \in dates[1] :
         LET sample == PUSample(selected, labels, d)
         IN /\ sample.positives # {} /\ sample.marginal # {}
            /\ left' = [date |-> d, accounts |-> sample.marginal, steps |-> 0]
    /\ use' = Nothing
    /\ UNCHANGED <<inputs, revealVars, labels, phase, next, selected>>

\* The marginal is visited in a random order without replacement, positives are drawn
\* again for every batch.
DrawBatch ==
    /\ phase = "trained"
    /\ left.accounts # {} /\ left.steps < MaxSteps
    /\ \E rows \in kSubset(Min({MarginalShare, Cardinality(left.accounts)}), left.accounts),
          drawn \in [1..PositiveShare -> PUSample(selected, labels, left.date).positives] :
         /\ left' = [left EXCEPT !.accounts = @ \ rows, !.steps = @ + 1]
         /\ use' = [kind |-> "batch", date |-> left.date, marginal |-> rows,
                    positives |-> {drawn[i] : i \in DOMAIN drawn}]
    /\ UNCHANGED <<inputs, revealVars, labels, phase, next, selected>>

Evaluate ==
    /\ phase = "trained"
    /\ BetweenDates
    /\ \E p \in {2, 3} : \E d \in dates[p] :
         LET sample == EvaluationSample(selected, labels, p, d)
         IN \E rows \in kSubset(Min({ProxyLimit, Cardinality(sample.unlabeled)}),
                                sample.unlabeled) :
              use' = [kind |-> "proxy", date |-> d, positives |-> sample.known,
                      marginal |-> rows]
    /\ left' = NoDate
    /\ UNCHANGED <<inputs, revealVars, labels, phase, next, selected>>

\* The frozen population of a split at its one cutoff, read from the graph.
AuditPopulation(p) == {a \in Accounts : Partition[a] = p /\ graph.first[a] < Latest(p)}

Audit(p) ==
    /\ phase = "trained"
    /\ BetweenDates
    /\ Cardinality(dates[p]) = 1
    /\ AuditPopulation(p) # {}
    /\ LET population == AuditPopulation(p)
           revealed == VisibleLabels(labels, Latest(p))
           negatives == population \ graph.mules
       IN \E drawn \in kSubset(Drawn(negatives), negatives) :
            LET sample == (population \cap graph.mules) \cup drawn
            IN \E score \in [sample -> Scores] :
                 use' = [kind |-> "audit", date |-> Latest(p),
                         positives |-> sample \cap revealed,
                         rows |-> [a \in sample |->
                                     [mule |-> a \in graph.mules, revealed |-> a \in revealed,
                                      score |-> score[a],
                                      weight |-> Weight(negatives, a \in graph.mules)]]]
    /\ left' = NoDate
    /\ UNCHANGED <<inputs, revealVars, labels, phase, next, selected>>

Next ==
    \/ Trace \/ Reveal \/ ReadAccount \/ TakeSamples
    \/ StartDate \/ DrawBatch \/ Evaluate
    \/ \E p \in {2, 3} : Audit(p)

Spec == Init /\ [][Next]_flowVars

--------------------------------------------------------------------------------
(* Properties. *)

\* Every variable has its type.
FlowTypeOK ==
    /\ found \in [graph.mules -> [t : Nat,
                              channel : {"victim_report", "monitoring", "network_trace"}]]
    /\ round \in 0..Rounds
    /\ labels \in [Accounts -> [positive : BOOLEAN, from : Nat]]
    /\ phase \in {"unrevealed", "reading", "trained", "refused"}
    /\ selected \in [heap : [Phases -> SUBSET Accounts], pool : SUBSET Accounts]
    /\ left.accounts \subseteq Accounts
    /\ use.kind \in {"none", "batch", "proxy", "audit"}

\* What a batch, an evaluation sample or an audit takes for a known mule at its cutoff is
\* one, was discovered before that cutoff (or before the data ends), and by events before
\* the discovery: labels "known, all" from the past, whatever the channel.
LabelsFromThePast ==
    use.kind # "none" =>
        \A a \in use.positives :
            /\ a \in graph.mules
            /\ Min({found[a].t, graph.end}) < use.date
            /\ Grounded(graph, found, a)

\* The labels as they were before a date.
Erased(date) ==
    [a \in Accounts |-> IF labels[a].from < date THEN labels[a] ELSE Unlabeled[a]]

Selection(observed) ==
    LET kept[n \in 0..Max(Accounts)] ==
            IF n \notin Accounts THEN NoSelection ELSE Take(kept[n - 1], n, observed)
    IN kept[Max(Accounts)]

\* A label revealed at or after a cutoff changes nothing of what the cutoff sees: neither
\* who its marginal is, nor among whom its unlabeled rows are drawn.
FutureLabelsUnseen ==
    next \notin Accounts =>
        /\ \A d \in dates[1] :
             PUSample(selected, labels, d) = PUSample(Selection(Erased(d)), Erased(d), d)
        /\ \A p \in {2, 3} : \A d \in dates[p] :
             EvaluationSample(selected, labels, p, d)
                 = EvaluationSample(Selection(Erased(d)), Erased(d), p, d)

\* The rows of an audit stand for its population, and its hidden rows for the population
\* without the mules known at the cutoff: exactly those that the dataset's labels, where
\* it has the account, call known then.
HiddenPopulation ==
    use.kind = "audit" =>
        LET p == CHOOSE p \in {2, 3} : Latest(p) = use.date
            unit == Unit(AuditPopulation(p) \ graph.mules)
            revealed == AuditPopulation(p) \cap VisibleLabels(labels, use.date)
            hidden == DOMAIN HiddenRows(use.rows)
        IN /\ Weights(use.rows) = unit * Cardinality(AuditPopulation(p))
           /\ Weights(HiddenRows(use.rows))
                  = unit * Cardinality(AuditPopulation(p) \ revealed)
           /\ hidden \cap EvaluationSample(selected, labels, p, use.date).known = {}
           /\ AuditPopulation(p) \cap graph.mules \subseteq hidden \cup revealed

\* The metrics of an audit are what their names say, of every mule, of the hidden ones and
\* of the revealed: a budget that ends among tied scores finds what it would on average if
\* the tied accounts of the population came in every order equally often; the area under
\* the curve counts the ordered pairs; the parts that the diagnostics show are those of the
\* audit; and the threshold that the rows, each for itself, select is the best.
RanksAsDefined ==
    use.kind = "audit" =>
        \A rows \in {use.rows, HiddenRows(use.rows), RevealedRows(use.rows)} :
            rows # <<>> =>
                /\ \A b \in Budgets : AsExpected(rows, b)
                /\ DOMAIN Mules(rows) # {} => MetricsAgree(rows)
                /\ BothClasses(rows) => BestThreshold([a \in DOMAIN rows |->
                                                         [rows[a] EXCEPT !.weight = 1]])
=============================================================================
