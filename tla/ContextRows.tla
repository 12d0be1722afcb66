----------------------------- MODULE ContextRows -----------------------------
(***************************************************************************)
(* The answer of fetch_training_context to one request, as the rendered    *)
(* query computes it (tigergraph/render.py), and of list_hub_accounts.     *)
(*                                                                         *)
(* A call answers its requests one after the other.  The accumulators on   *)
(* vertices outlive a request, and a request that fails leaves by CONTINUE *)
(* with whatever it had accumulated: `acc` is what a request finds and     *)
(* what it leaves behind.                                                  *)
(***************************************************************************)
EXTENDS TemporalGraph

\* The pool of a hop: how many candidates per relation, and the history it may scan.
Pool == [recent : Nat \ {0}, older : Nat, distinct : Nat, associations : Nat,
         max_history : Nat \ {0}]

\* @scope_checked and @scope_allowed of the accounts, @scope_blocked of the payments, and
\* @from_accounts, the senders a payment was seen with since it was last reset.
NoAccumulators ==
    [checked |-> {}, allowed |-> {}, blocked |-> {}, senders |-> [n \in {} |-> 0]]

\* _root_catalog: the requested accounts in the scope and the phase are allowed.
Catalog(keys) ==
    [NoAccumulators EXCEPT !.allowed =
        {a \in Accounts : \E i \in DOMAIN keys : keys[i].node = a /\ InPhase(keys[i], a)}]

\* scope_events: block the payments with an endpoint outside the visible partitions.  An
\* account's membership is looked up once in a call.
ScopeEvents(acc, g, key, events) ==
    LET endpoints == UNION {Endpoints(g, n) : n \in events}
        allowed == acc.allowed \cup {a \in endpoints \ acc.checked : InPhase(key, a)}
    IN IF ~key.scoped THEN acc
       ELSE [acc EXCEPT
               !.checked = @ \cup endpoints,
               !.allowed = allowed,
               !.blocked = @ \cup {n \in events : ~(Endpoints(g, n) \subseteq allowed)}]

\* Mutant: the counts of an earlier request of the call stay.
KeepRoles(acc, events) ==
    [acc EXCEPT !.senders = [n \in DOMAIN @ \cup events |-> IF n \in DOMAIN @ THEN @[n] ELSE 0]]

\* The POST-ACCUM of _event_accum: what an earlier request counted is forgotten.
ResetRoles(acc, events) ==
    [acc EXCEPT !.senders = [n \in DOMAIN @ \cup events |-> IF n \in events THEN 0 ELSE @[n]]]

\* Roles_: every visible payment counts its one sender.
CountRoles(acc, events) ==
    [acc EXCEPT !.senders = [n \in DOMAIN @ |-> IF n \in events THEN @[n] + 1 ELSE @[n]]]

-----------------------------------------------------------------------------
\* The pool of one relation: ordered is its visible payments, the latest first.

\* One pass of the sampling: take a payment unless it was, or the test refuses it.
Take(s, n, stratum, peer) ==
    [s EXCEPT !.sampled = @ \cup {<<n, stratum>>}, !.selected = @ \cup {n},
              !.peers = @ \cup {peer}]

Sampled(g, rel, ordered, pool) ==
    LET size == Len(ordered)
        olderRanks ==
            {pool.recent + ((size - pool.recent - 1) * j) \div (pool.older + 1)
               : j \in 1..pool.older}
        ranks == [i \in 1..size |-> i - 1]
        peer(rank) == Peer(g, ordered[rank + 1], rel)
        recent(s, rank) ==
            IF rank < pool.recent THEN Take(s, ordered[rank + 1], "recent", peer(rank)) ELSE s
        older(s, rank) ==
            IF /\ size > pool.recent
               /\ rank \in olderRanks
               /\ ordered[rank + 1] \notin s.selected
            THEN Take(s, ordered[rank + 1], "older", peer(rank)) ELSE s
        distinct(s, rank) ==
            IF /\ s.diverse < pool.distinct
               /\ ordered[rank + 1] \notin s.selected
               /\ peer(rank) \notin s.peers
            THEN [Take(s, ordered[rank + 1], "distinct", peer(rank)) EXCEPT !.diverse = @ + 1]
            ELSE s
        empty == [sampled |-> {}, selected |-> {}, peers |-> {}, diverse |-> 0]
    IN FoldLeft(distinct, FoldLeft(older, FoldLeft(recent, empty, ranks), ranks), ranks).sampled

\* _relation: one scan.  A relation with too long a history ends the request.
ScanRelation(scan, g, key, pool, rel) ==
    LET candidates == {n \in Incident(g, key.node, rel) : Before(g, n, key)}
        acc == ScopeEvents(scan.acc, g, key, candidates)
        visible == {n \in candidates \ acc.blocked : g[n].usd}
        counted == CountRoles(ResetRoles(acc, visible), visible)
    IN CASE scan.status # "ok" -> scan
         [] scan.status = "ok" /\ Cardinality(visible) > pool.max_history ->
              [scan EXCEPT !.status = "history_capacity_exceeded", !.acc = acc]
         [] OTHER ->
              [scan EXCEPT
                 !.acc = counted,
                 !.invalid = @ \/ \E n \in visible :
                                    counted.senders[n] # 1 \/ InvalidRoles(g, n),
                 !.history = @ \cup {<<n, rel>> : n \in visible},
                 !.events = @ \cup {<<s[1], rel, s[2]>> :
                                      s \in Sampled(g, rel, Descending(visible), pool)}]

\* The four scans of an Account or a Token.
Scanned(acc, g, key, pool) ==
    LET start == [status |-> "ok", acc |-> acc, invalid |-> FALSE, history |-> {}, events |-> {}]
    IN FoldLeft(LAMBDA scan, rel : ScanRelation(scan, g, key, pool, rel), start, Relations)

-----------------------------------------------------------------------------
\* Pair history.

NoPrior == [count |-> 0, first |-> 0, last |-> 0]

\* _chronology: path A, one ascending pass over an Account's retained history, by sequence
\* number and then by the name of the relation.  It stops at a pair whose clocks go back.
Chronology(g, history) ==
    LET pair(h) == <<h[2], g[h[1]].rail, Peer(g, h[1], h[2])>>
        with(f, x, y) == [z \in DOMAIN f \cup {x} |-> IF z = x THEN y ELSE f[z]]
        pass(c, h) ==
            LET p == pair(h)
                time == Time(g, h[1])
                first == IF p \in DOMAIN c.pairs THEN c.pairs[p].first ELSE time
                count == IF p \in DOMAIN c.pairs THEN c.pairs[p].count + 1 ELSE 1
                pairs == with(c.pairs, p, [count |-> count, first |-> first, last |-> time])
            IN CASE ~c.monotone -> c
                 [] c.monotone /\ p \notin DOMAIN c.pairs -> [c EXCEPT !.pairs = pairs]
                 [] c.monotone /\ p \in DOMAIN c.pairs /\ time < c.pairs[p].last ->
                      [c EXCEPT !.monotone = FALSE]
                 [] OTHER -> [c EXCEPT !.prior = with(@, h, c.pairs[p]), !.pairs = pairs]
        place(h) == CHOOSE r \in DOMAIN Relations : Relations[r] = h[2]
        order(h, k) == h[1] < k[1] \/ (h[1] = k[1] /\ place(h) > place(k))
    IN FoldLeft(pass, [monotone |-> TRUE, pairs |-> <<>>, prior |-> <<>>],
                Ordered(history, order))

\* _prior_scan: path B, the payments of the sampled payments' senders, of their type, up to
\* the latest clocks any sampled payment of the sender has.
PriorCandidates(g, sampled) ==
    {p \in DOMAIN g :
       /\ IsPayment(g, p)
       /\ g[p].usd
       /\ LET own == {n \in sampled : /\ g[n].from = g[p].from
                                     /\ (g[n].rail = "zelle") = (g[p].rail = "zelle")}
          IN /\ \E n \in own : p < n
             /\ \E n \in own : Time(g, p) <= Time(g, n)}

\* Mutant: the bound of the sender's latest sampled payment serves every one of them.
PriorScanByBound(acc, g, candidates, n) ==
    LET prior == {p \in candidates \ acc.blocked :
                    /\ g[p].from = g[n].from
                    /\ Recipient(g, p) = Recipient(g, n) /\ g[p].rail = g[n].rail}
        times == {Time(g, p) : p \in prior}
    IN IF prior = {} THEN NoPrior
       ELSE [count |-> Cardinality(prior), first |-> Min(times), last |-> Max(times)]

PriorScan(acc, g, candidates, n) ==
    LET prior == {p \in candidates \ acc.blocked :
                    /\ g[p].from = g[n].from
                    /\ Recipient(g, p) = Recipient(g, n) /\ g[p].rail = g[n].rail
                    /\ p < n /\ Time(g, p) <= Time(g, n)}
        times == {Time(g, p) : p \in prior}
    IN IF prior = {} THEN NoPrior
       ELSE [count |-> Cardinality(prior), first |-> Min(times), last |-> Max(times)]

-----------------------------------------------------------------------------
\* _messages: the flow of a sampled payment, searched over the whole history in any order.
FlowOf(key, g, history, n, rel) ==
    LET opposite == {h[1] : h \in {k \in history : (k[2] \in Outgoing) # (rel \in Outgoing)}}
        found == IF rel \in Outgoing
                 THEN {p \in opposite : p < n /\ Time(g, p) <= Time(g, n)}
                 ELSE {p \in opposite : p > n /\ Time(g, p) >= Time(g, n)}
    IN CASE key.node \in Tokens \/ found = {} -> 0
         [] rel \in Outgoing /\ key.node \in Accounts /\ found # {} -> Max(found)
         [] OTHER -> Min(found)

PaymentMessage(key, g, scan, item, prior) ==
    LET n == item[1]
        rel == item[2]
    IN [relation |-> rel, peer |-> Peer(g, n, rel), seq |-> n, ts |-> Time(g, n),
        stratum |-> item[3], prior |-> prior.count,
        first |-> IF prior.count = 0 THEN Time(g, n) ELSE prior.first,
        last |-> prior.last, flow |-> FlowOf(key, g, scan.history, n, rel)]

\* _association: the tenures active at the sequence before the cutoff, the latest first.
ValidTo(g, n) ==
    LET ends == {m \in (n + 1)..Len(g) : g[m] = [g[n] EXCEPT !.op = "unbind"]}
    IN IF ends = {} THEN 0 ELSE Min(ends)

OtherEnd(g, key, n) == IF key.node \in Tokens THEN g[n].account ELSE g[n].token

ActiveTenures(g, key) ==
    {n \in DOMAIN g :
       /\ g[n].op = "bind" /\ n <= key.seq - 1
       /\ key.node \in {g[n].token, g[n].account}
       /\ Time(g, FirstSeen(g, OtherEnd(g, key, n))) <= key.ts
       /\ ValidTo(g, n) = 0 \/ key.seq - 1 < ValidTo(g, n)}

Associations(g, key, pool) ==
    LET other(n) == OtherEnd(g, key, n)
        relation == IF key.node \in Tokens THEN "Token_Bound_To_Account"
                    ELSE "Account_Bound_From_Token"
        visible == {n \in ActiveTenures(g, key) : other(n) \in Accounts => InPhase(key, other(n))}
        kept == {n \in visible : Cardinality({m \in visible : m > n}) < pool.associations}
    IN {[relation |-> relation, peer |-> other(n), seq |-> key.seq, ts |-> key.ts,
         stratum |-> "association", prior |-> 0, first |-> key.ts, last |-> 0, flow |-> 0]
          : n \in kept}

-----------------------------------------------------------------------------
Refused(status, acc) == [row |-> [status |-> status, messages |-> {}], acc |-> acc]

\* What follows the scans: the statuses in the order the query tests them, then the row.
AfterScans(scan, g, key, pool) ==
    LET chronology == Chronology(g, scan.history)
        candidates == IF key.node \in Accounts THEN {}
                      ELSE PriorCandidates(g, {e[1] : e \in scan.events})
        priorAcc == ScopeEvents(scan.acc, g, key, candidates)
        prior(e) == CASE key.node \in Tokens -> PriorScan(priorAcc, g, candidates, e[1])
                      [] key.node \notin Tokens /\ <<e[1], e[2]>> \in DOMAIN chronology.prior ->
                           chronology.prior[<<e[1], e[2]>>]
                      [] OTHER -> NoPrior
    IN CASE scan.status # "ok" -> Refused(scan.status, scan.acc)
         [] scan.status = "ok" /\ key.node \in Accounts /\ ~chronology.monotone ->
              Refused("nonmonotonic_pair_clock", scan.acc)
         [] scan.status = "ok" /\ (key.node \in Accounts => chronology.monotone) /\ scan.invalid ->
              Refused("invalid_payment_fields", scan.acc)
         [] OTHER ->
              [acc |-> priorAcc,
               row |-> [status |-> "ok",
                        messages |-> {PaymentMessage(key, g, scan, e, prior(e)) : e \in scan.events}
                                       \cup Associations(g, key, pool)]]

\* One iteration of the query's loop over its requests.
Answer(g, key, pool, acc) ==
    CASE ~Known(g, key.node) -> Refused("missing_entity", acc)
      [] /\ Known(g, key.node)
         /\ \/ FirstSeen(g, key.node) > key.seq
            \/ Time(g, FirstSeen(g, key.node)) > key.ts
            \/ key.node \in Accounts /\ ~InPhase(key, key.node) -> Refused("invisible_entity", acc)
      [] OTHER -> AfterScans(Scanned(acc, g, key, pool), g, key, pool)

\* A whole call: the answers of its requests, the accumulators running through them.
Call(g, keys, pool) ==
    FoldLeft(LAMBDA done, key :
                LET answer == Answer(g, key, pool, done.acc)
                IN [rows |-> Append(done.rows, answer.row), acc |-> answer.acc],
             [rows |-> <<>>, acc |-> Catalog(keys)], keys)

-----------------------------------------------------------------------------
(***************************************************************************)
(* list_hub_accounts: the accounts with more than `threshold` payments of  *)
(* one relation before a cutoff, in every currency, visible in a phase.    *)
(***************************************************************************)

\* A view of the graph: the scope's phase, or the whole graph as phase 3.
RegistryViews(scoped) == IF scoped THEN {1, 2, 3} ELSE {3}

\* The first phase in which all account endpoints of a payment are visible; 4 is never.
EventPhase(g, n) ==
    Max({IF Partition[a] \in 1..3 THEN Partition[a] ELSE 4 : a \in Endpoints(g, n)})

HubCount(g, a, rel, cutoff, scoped, phase) ==
    Cardinality({n \in Incident(g, a, rel) : n < cutoff /\ (scoped => EventPhase(g, n) <= phase)})

HubAccounts(g, cutoffs, threshold, scoped) ==
    {h \in [account : Accounts, cutoff : cutoffs, phase : RegistryViews(scoped)] :
       /\ scoped => Partition[h.account] \in 1..h.phase
       /\ \E rel \in Range(Relations) :
             HubCount(g, h.account, rel, h.cutoff, scoped, h.phase) > threshold}
=============================================================================
