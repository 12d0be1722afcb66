---------------------------- MODULE TemporalGraph ----------------------------
(***************************************************************************)
(* The payment graph as the context and hub queries read it: a log of      *)
(* payments and token bindings in the order of their sequence numbers, and *)
(* what a context, an entity at a cutoff, may see of it.                   *)
(*                                                                         *)
(* The position of an entry is its event_seq.  A payment may be posted     *)
(* late: its timestamp then lies before those of earlier positions.        *)
(* Amounts, channels and the clocks that the role edges repeat are left    *)
(* out.  Every operator takes the log, so that the same question can be    *)
(* asked of a part of it.                                                  *)
(***************************************************************************)
EXTENDS Integers, Sequences, FiniteSets, FiniteSetsExt, SequencesExt

CONSTANTS
    Accounts,   \* the Account vertices
    Tokens,     \* the Token vertices
    Partition,  \* the frozen scope: the partition of each account, 0 for none
    Rails       \* the rails of payments; "zelle" is that of the Zelle transfers

None == "none"

\* The members of a set in a strict total order.
Ordered(S, before(_, _)) ==
    [i \in 1..Cardinality(S) |->
        CHOOSE x \in S : Cardinality({y \in S : before(y, x)}) = i - 1]

\* Sequence numbers, the latest first.
Descending(S) == LET before(x, y) == x > y IN Ordered(S, before)

Nodes == Accounts \cup Tokens

\* A payment with its four account and token roles; late is how far its timestamp lags.
Payment == [op : {"pay"}, rail : Rails, from : Accounts, to : Accounts \cup {None},
            ftok : Tokens \cup {None}, ttok : Tokens \cup {None}, usd : BOOLEAN, late : Nat]

\* The start or the end of a tenure of Token_Bound_To_Account.
Binding == [op : {"bind", "unbind"}, token : Tokens, account : Accounts]

ASSUME GraphAssumption ==
    /\ None \notin Nodes /\ Accounts \cap Tokens = {}
    /\ Partition \in [Accounts -> 0..3]

\* The relations a payment reaches a context by, in the order of PAYMENT_RELATIONS.
Relations == <<"zelle_out", "zelle_in", "payment_out", "payment_in">>
Outgoing == {"zelle_out", "payment_out"}
Zelle == {"zelle_out", "zelle_in"}

IsPayment(g, n) == g[n].op = "pay"

\* event_ts_ms, on the same scale as the sequence numbers.
Time(g, n) == IF g[n].op \in {"pay", "hidden"} /\ g[n].late < n THEN n - g[n].late ELSE n

-----------------------------------------------------------------------------
\* Vertices and edges.

Mentioned(e) ==
    CASE e.op = "pay" -> {e.from, e.to, e.ftok, e.ttok} \ {None}
      [] e.op \in {"bind", "unbind"} -> {e.token, e.account}
      [] e.op = "hidden" -> e.nodes

\* An entry a view leaves out: its vertices were observed there, and then, all the same.
Hidden(e) == [op |-> "hidden", nodes |-> Mentioned(e), late |-> IF e.op = "pay" THEN e.late ELSE 0]

Entry == Payment \cup Binding \cup [op : {"hidden"}, nodes : SUBSET Nodes, late : Nat]

\* A vertex exists from its first observation on, whose clocks it keeps.
Known(g, v) == \E n \in DOMAIN g : v \in Mentioned(g[n])
FirstSeen(g, v) == Min({n \in DOMAIN g : v \in Mentioned(g[n])})

\* The accounts at the From and To roles of a payment.
Endpoints(g, n) == {g[n].from, g[n].to} \ {None}

\* The payments at v by one relation; g[n].ftok and g[n].ttok are a Token's.
Incident(g, v, rel) ==
    {n \in DOMAIN g :
       /\ IsPayment(g, n)
       /\ (g[n].rail = "zelle") = (rel \in Zelle)
       /\ v \in IF rel \in Outgoing THEN {g[n].from, g[n].ftok} ELSE {g[n].to, g[n].ttok}}

\* The canonical recipient: a recorded Account takes precedence over its routing token.
Recipient(g, n) == IF g[n].to # None THEN g[n].to ELSE g[n].ttok

\* The counterparty of a payment seen by one relation.
Peer(g, n, rel) == IF rel \in Outgoing THEN Recipient(g, n) ELSE g[n].from

\* What the checks on the roles of a payment refuse.
InvalidRoles(g, n) ==
    \/ Recipient(g, n) = None
    \/ \E v \in Mentioned(g[n]) : FirstSeen(g, v) > n \/ Time(g, FirstSeen(g, v)) > Time(g, n)

-----------------------------------------------------------------------------
\* A context: an entity, its two clocks, the scope (or none) and the phase.
Key == [node : Nodes, seq : Nat \ {0}, ts : Nat \ {0}, scoped : BOOLEAN, phase : 1..3]

\* History is seq < cutoff_seq AND timestamp <= cutoff_ms.
Before(g, n, key) == n < key.seq /\ Time(g, n) <= key.ts

\* An account with a partition of at most the phase; unscoped, every account.
InPhase(key, a) == key.scoped => Partition[a] \in 1..key.phase

\* What is left of the log for one cutoff and phase: the part before the cutoff, without
\* the payments and bindings of an account of a later partition.  Who took part is known
\* of these, as of the entry at the cutoff itself.
Past(g, seq, key) ==
    [n \in 1..Min({seq, Len(g)}) |->
        IF n = seq \/ \E a \in Accounts \cap Mentioned(g[n]) : ~InPhase(key, a)
        THEN Hidden(g[n]) ELSE g[n]]

-----------------------------------------------------------------------------
(***************************************************************************)
(* The reference of the queries: gsql_features, the plain definition the   *)
(* repository keeps beside them.                                           *)
(***************************************************************************)

\* visible_history of one relation; the endpoints' visibility is its caller's.
VisibleHistory(g, key, rel) ==
    {n \in Incident(g, key.node, rel) :
       /\ Before(g, n, key)
       /\ g[n].usd
       /\ \A a \in Endpoints(g, n) : InPhase(key, a)}

\* stratify: the recent ranks, evenly spaced older ones, and the first new peers.
RecentRanks(rows, pool) == 1..Min({pool.recent, Len(rows)})

OlderRanks(rows, pool) ==
    IF Len(rows) <= pool.recent THEN {}
    ELSE {pool.recent + 1 + ((Len(rows) - pool.recent - 1) * j) \div (pool.older + 1)
            : j \in 1..pool.older} \ RecentRanks(rows, pool)

DistinctRanks(rows, pool, peer(_)) ==
    LET sampled == RecentRanks(rows, pool) \cup OlderRanks(rows, pool)
        fresh == {i \in DOMAIN rows :
                    \A j \in sampled \cup 1..(i - 1) : peer(rows[j]) # peer(rows[i])}
    IN {i \in fresh : Cardinality({j \in fresh : j < i}) < pool.distinct}

\* Each sampled payment with its stratum.
Stratify(g, key, rel, pool) ==
    LET rows == Descending(VisibleHistory(g, key, rel))
        peer(n) == Peer(g, n, rel)
        of(ranks, stratum) == {<<rows[i], stratum>> : i \in ranks}
    IN of(RecentRanks(rows, pool), "recent") \cup of(OlderRanks(rows, pool), "older")
         \cup of(DistinctRanks(rows, pool, peer), "distinct")

\* payment_features: the earlier payments of the same pair.  A Token's are the sender's,
\* to the same recipient, by whatever token.
EarlierOfPair(g, key, rel, n) ==
    {p \in IF key.node \in Accounts THEN VisibleHistory(g, key, rel)
           ELSE VisibleHistory(g, [key EXCEPT !.node = g[n].from],
                               IF rel \in Zelle THEN "zelle_out" ELSE "payment_out") :
       /\ p < n /\ Time(g, p) <= Time(g, n)
       /\ g[p].rail = g[n].rail
       /\ IF key.node \in Accounts THEN Peer(g, p, rel) = Peer(g, n, rel)
          ELSE Recipient(g, p) = Recipient(g, n)}

\* The next outflow of an inflow and the previous inflow of an outflow: 0 without one.
Flow(g, key, rel, n) ==
    LET history(out) == UNION {VisibleHistory(g, key, r) :
                                 r \in {s \in Range(Relations) : (s \in Outgoing) = out}}
        next == {p \in history(TRUE) : p > n /\ Time(g, p) >= Time(g, n)}
        previous == {p \in history(FALSE) : p < n /\ Time(g, p) <= Time(g, n)}
    IN CASE key.node \in Accounts /\ rel \notin Outgoing /\ next # {} -> Min(next)
         [] key.node \in Accounts /\ rel \in Outgoing /\ previous # {} -> Max(previous)
         [] OTHER -> 0

\* The payment messages of a context: first and last are the times of the earlier payments
\* of the pair, its own and zero without one.
ReferenceMessages(g, key, pool) ==
    UNION {{LET n == s[1]
                earlier == EarlierOfPair(g, key, rel, n)
                    times == {Time(g, p) : p \in earlier}
            IN [relation |-> rel, peer |-> Peer(g, n, rel), seq |-> n, ts |-> Time(g, n),
                stratum |-> s[2], prior |-> Cardinality(earlier),
                first |-> Min(times \cup {Time(g, n)}), last |-> Max(times \cup {0}),
                flow |-> Flow(g, key, rel, n)] : s \in Stratify(g, key, rel, pool)}
           : rel \in Range(Relations)}
=============================================================================
