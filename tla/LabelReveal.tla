---------------------------- MODULE LabelReveal ----------------------------
(* Which mules the reveal makes known, and since when: reveal_mule_labels and its Python  *)
(* mirror.  The mule's discovery time is the earliest of three channels: the reports of   *)
(* its victims, monitoring, and three rounds in which discovered mules expose the mules   *)
(* they exchanged money with.                                                             *)
(*                                                                                        *)
(* What the hash of a sequence and the salt draws is part of the graph here: when a       *)
(* report is received and whether it leads to action, how long monitoring takes, whether  *)
(* a link exposes a mule and after how long, the order in which a capped split's mules    *)
(* are taken, and so is the budget per split.                                             *)
EXTENDS Integers, FiniteSets, FiniteSetsExt

CONSTANTS
    Accounts,     \* the internal accounts, numbered in account order
    Partition,    \* the phase of an account in the scope: 1 train, 2 validation, 3 test
    Day,          \* the length of a day
    Never         \* the time of what does not happen

Phases == 1..3

ASSUME RevealAssumption ==
    /\ Accounts \subseteq Nat /\ IsFiniteSet(Accounts)
    /\ Partition \in [Accounts -> Phases]
    /\ Day \in Nat \ {0} /\ Never \in Nat

Earliest(times) == Min(times \cup {Never})

\* A report leads to action more rarely when it is the mule's first: a draw below the
\* first probability is below the later one too.
Acted(g, m, report) ==
    \/ report.acts = "always"
    \/ report.acts = "later" /\ report.at > Min({r.at : r \in g.reports[m]})

Reacted(g, m) == Earliest({r.at + r.confirm : r \in {r \in g.reports[m] : Acted(g, m, r)}})

Monitored(g, m) == IF g.monitoring[m] = Never THEN Never ELSE g.first[m] + g.monitoring[m]

\* The discovery without tracing.
Own(g) ==
    [m \in g.mules |->
        IF Reacted(g, m) <= Monitored(g, m)
        THEN [t |-> Reacted(g, m), channel |-> "victim_report"]
        ELSE [t |-> Monitored(g, m), channel |-> "monitoring"]]

\* The events by which source exposes m: the two exchanged money before source's discovery.
Exposing(g, found, source, m) ==
    {l \in g.links : /\ l.ends = {source, m}
                     /\ found[source].t < Never
                     /\ l.ts < found[source].t}

\* Each counterpart has one chance per discovered mule, drawn with the earliest such event.
Traced(g, found, m) ==
    LET sources == {s \in g.mules \ {m} : Exposing(g, found, s, m) # {}}
        chance(s) == LET links == Exposing(g, found, s, m)
                         first == Min({l.seq : l \in links})
                     IN (CHOOSE l \in links : l.seq = first).delay[s]
    IN Earliest({found[s].t + chance(s) : s \in {s \in sources : chance(s) # Never}})

\* Every mule is updated once per round, from the round before.
TraceRound(g, found) ==
    [m \in g.mules |-> IF Traced(g, found, m) < found[m].t
                       THEN [t |-> Traced(g, found, m), channel |-> "network_trace"]
                       ELSE found[m]]

Rounds == 3

\* Discovered before the latest cutoff of its split.
Eligible(g, found, cutoff, p) ==
    {m \in g.mules : Partition[m] = p /\ found[m].t < cutoff[p]}

\* The first of them in the order of the draws, as many as the budget takes.
Chosen(g, found, cutoff, p) ==
    {m \in Eligible(g, found, cutoff, p) :
        Cardinality({n \in Eligible(g, found, cutoff, p) : g.order[n] < g.order[m]}) < g.budget}

\* Mutant: available from the beginning of the day.
AvailableAtOnce(g, found, m) ==
    Max({Min({(found[m].t \div Day) * Day, g.end}), g.first[m]})

\* A discovery is available at the end of its day, never after the last event and never
\* before the account's first observation.
Available(g, found, m) ==
    Max({Min({(found[m].t \div Day + 1) * Day - 1, g.end}), g.first[m]})

\* Without a cap, a split with more discovered mules than the reveal takes.
Overfull(g, found, cutoff) ==
    ~g.capped /\ \E p \in Phases : Cardinality(Eligible(g, found, cutoff, p)) > g.budget

\* What the population queries report of the labels written.
Labels(g, found, cutoff) ==
    [a \in Accounts |->
        IF \E p \in Phases : a \in Chosen(g, found, cutoff, p)
        THEN [positive |-> TRUE, from |-> Available(g, found, a)]
        ELSE [positive |-> FALSE, from |-> 0]]

\* The label contract: what is revealed is a mule, known from its first observation on.
ContractHolds(g, labels) ==
    \A a \in Accounts : labels[a].positive => a \in g.mules /\ labels[a].from >= g.first[a]

\* A discovery by tracing has a cause: a mule discovered before it, with which the traced
\* one had exchanged money by then.
Grounded(g, found, m) ==
    found[m].channel = "network_trace" =>
        \E l \in g.links : \E s \in l.ends \ {m} :
            /\ m \in l.ends
            /\ found[s].t < found[m].t
            /\ l.ts < found[m].t
=============================================================================
