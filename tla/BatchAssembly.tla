---------------------------- MODULE BatchAssembly ----------------------------
(***************************************************************************)
(* One batch, from the hub registry and its roots to its tensors:          *)
(* batching/assemble.py on the queries of ContextRows, while the graph     *)
(* goes on growing.                                                        *)
(*                                                                         *)
(* The registry is prepared once for the cutoffs of a dataset.  A batch    *)
(* fetches its roots, drops those TigerGraph rejected, draws their         *)
(* neighbours, by keys or on a GPU (CuGraphSampler), replaces the hubs     *)
(* among them with stubs, fetches the others as children and lays out the  *)
(* tensors.  A tensor is modelled by the messages and positions it is      *)
(* gathered from.                                                          *)
(***************************************************************************)
EXTENDS ContextRows, CuGraphSampler

CONSTANTS
    Entries,    \* what the graph may grow by
    Seeded,     \* the log before anything happens
    MaxLog,     \* bound: the length of the log
    Growth,     \* bound: how much the graph grows after preparation
    Cutoffs,    \* the cutoffs of the dataset
    Views,      \* the scope and phase of a batch: <<scoped, phase>>
    RootSets,   \* the roots a batch may have: sequences of <<account, cutoff>>
    Roots, Children,  \* the pools of the two hops
    Fanouts,    \* neighbour slots of a root and of a child
    Quotas,     \* relation_fanouts: payments drawn per relation, at each hop
    AssociationQuota, AssociationSlots,
    Draws,      \* the orders the selection keys may put candidates in
    Hosts,      \* where a batch is built: [configured, mode, device] and a library's facts
    Behaviours  \* what the library does in a draw: [numbering, fault]

ASSUME BatchAssumption ==
    /\ Entries \subseteq Payment \cup Binding
    /\ Seeded \in Seq(Payment \cup Binding)
    /\ Cutoffs \subseteq Nat \ {0}
    /\ RootSets \subseteq Seq(Accounts \X Cutoffs)
    /\ Roots \in Pool /\ Children \in Pool /\ Children.associations = 0
    /\ \A v \in Views : v \in BOOLEAN \X (1..3) /\ (~v[1] => v[2] = 3)
    /\ Fanouts \in Seq(Nat) /\ Len(Fanouts) = 2 /\ Quotas \in Seq(Nat) /\ Len(Quotas) = 2
    /\ {AssociationQuota, AssociationSlots, MaxLog, Growth} \subseteq Nat
    /\ IsFiniteSet(Nodes)
    /\ Draws \subseteq {"newest", "oldest"}
    /\ Behaviours \subseteq [numbering : Numberings, fault : Faults]

\* One of the orders node ids may have.
NodeOrder == CHOOSE f \in [Nodes -> 1..Cardinality(Nodes)] : IsInjective(f)

VARIABLES
    log,       \* the graph
    prepared,  \* the length of the log when the registry was prepared; 0 before
    registry,  \* hub rows by whether they were counted in the scope
    stage,     \* "idle", "roots", "first", "children", then "done", "empty" or "failed"
    backend,   \* the sampler this batch draws with
    refused,   \* the result of the library that a draw was refused for, of [hop, result]
    accepted,  \* the keys of the batch's roots that TigerGraph did not reject
    rows,      \* the row fetched for each key of the batch
    draw,      \* the order this step's keys put the candidates in
    first,     \* the neighbours of each root: a sequence of messages per root
    stubs, rejected,  \* children replaced by stubs; children without a row
    unique,    \* the contexts of the batch, in the order of their positions
    second,    \* the neighbours of each context
    withheld,  \* the slots of each context's neighbours whose history is withheld
    positions  \* the position of each root's neighbours; 0 where masked

graphVars == <<log, prepared, registry>>
batchVars == <<stage, backend, refused, accepted, rows, draw, first, stubs, rejected, unique, second, positions, withheld>>
vars == <<graphVars, batchVars>>

Init ==
    /\ log = Seeded
    /\ prepared = 0
    /\ registry = [s \in BOOLEAN |-> {}]
    /\ stage = "idle"
    /\ backend = "torch"
    /\ refused = {}
    /\ accepted = <<>>
    /\ rows = <<>>
    /\ draw = "newest"
    /\ first = <<>> /\ second = <<>> /\ positions = <<>> /\ withheld = <<>> /\ unique = <<>>
    /\ stubs = {} /\ rejected = {}

-----------------------------------------------------------------------------
\* The graph and the registry.

\* Payments and bindings are appended: a sequence number is never used again.  What comes
\* after the end of the batch is left out.
Ingest ==
    /\ Len(log) < IF prepared = 0 THEN MaxLog ELSE prepared + Growth
    /\ \E e \in Entries : log' = Append(log, e)
    /\ stage \notin {"done", "empty", "failed"}
    /\ UNCHANGED <<prepared, registry, batchVars>>

\* hub_threshold: the smallest capacity of any fetched context.
Threshold == Min({Roots.max_history, Children.max_history})

\* The registry of a dataset, once the graph reaches its cutoffs.
Prepare ==
    /\ prepared = 0
    /\ \A c \in Cutoffs : c <= Len(log) + 1
    /\ prepared' = Len(log)
    /\ registry' = [s \in BOOLEAN |-> HubAccounts(log, Cutoffs, Threshold, s)]
    /\ UNCHANGED <<log, batchVars>>

\* is_stub: only Accounts are looked up, at the cutoff of a root.
IsStub(key, cutoff) ==
    /\ key.node \in Accounts
    /\ [account |-> key.node, cutoff |-> cutoff, phase |-> key.phase] \in registry[key.scoped]

-----------------------------------------------------------------------------
\* The draw of the neighbours.

AssociationRelations == {"Token_Bound_To_Account", "Account_Bound_From_Token"}

\* relation_quotas: hop 2 draws payments only.
Quota(rel, hop) ==
    IF rel \in AssociationRelations THEN (IF hop = 1 THEN AssociationQuota ELSE 0)
    ELSE Quotas[hop]

\* The messages of one relation by ascending key.  Keys are a hash or a random number: an
\* order of the candidates, of which `draw` says which it is.
ByKeys(messages, rel) ==
    LET place(m) == <<m.seq, NodeOrder[m.peer]>>
        earlier(m, n) == place(m)[1] < place(n)[1] \/ (m.seq = n.seq /\ place(m)[2] < place(n)[2])
        before(m, n) == IF draw = "newest" THEN earlier(n, m) ELSE earlier(m, n)
    IN Ordered({m \in messages : m.relation = rel}, before)

\* TorchGroupedSampler.subset: the first of each relation, as many as its quota.
KeptByKeys(messages, hop) ==
    UNION {LET ordered == ByKeys(messages, rel)
           IN Range(SubSeq(ordered, 1, Min({Quota(rel, hop), Len(ordered)}))) :
             rel \in Range(Relations) \cup AssociationRelations}

\* Kept candidates interleaved by position across relations.
Interleaved(drawn) ==
    LET before(p, q) == p[1] < q[1] \/ (p[1] = q[1] /\ p[2] < q[2])
        places == {p \in (1..MaxLog + Growth) \X DOMAIN drawn : p[1] <= Len(drawn[p[2]])}
        order == Ordered(places, before)
    IN [k \in DOMAIN order |-> drawn[order[k][2]][order[k][1]]]

\* merge_slots: the slot of each payment and association by its rank, counted from 0.
\* A slot nothing falls in is padding.
Merge(payments, associations, fanout, limit) ==
    LET reserve == Min({Len(associations), limit})
        firstAssociation == Min({Len(payments), fanout - reserve})
        slots == {<<i, payments[i]>> : i \in {k \in DOMAIN payments : k <= fanout - reserve}}
                   \cup {<<firstAssociation + i, associations[i]>> :
                           i \in {k \in DOMAIN associations : firstAssociation + k <= fanout}}
    IN [i \in {s[1] : s \in slots} |-> (CHOOSE s \in slots : s[1] = i)[2]]

\* The kept payments and associations, in the slots they fill; hop 2 has payments only.
Select(kept, hop) ==
    LET linked == {m.relation : m \in {n \in kept : n.relation \in AssociationRelations}}
        associations == IF linked = {} THEN <<>> ELSE ByKeys(kept, CHOOSE rel \in linked : TRUE)
    IN Merge(Interleaved([r \in DOMAIN Relations |-> ByKeys(kept, Relations[r])]), associations,
             Fanouts[hop], IF hop = 1 THEN Min({AssociationSlots, Fanouts[1] \div 4}) ELSE 0)

\* The relations by their codes, and the fan-outs of a hop.
RelationCodes == Relations \o <<"Token_Bound_To_Account", "Account_Bound_From_Token">>
RelationQuotas(hop) == [r \in DOMAIN RelationCodes |-> Quota(RelationCodes[r], hop)]

\* CandidateTable.build: the messages of each context by relation, the latest first.
Candidates(messages, keys) ==
    LET code(m) == CHOOSE r \in DOMAIN RelationCodes : RelationCodes[r] = m.relation
        before(m, n) ==
            \/ code(m) < code(n)
            \/ code(m) = code(n) /\ m.seq > n.seq
            \/ code(m) = code(n) /\ m.seq = n.seq /\ NodeOrder[m.peer] < NodeOrder[n.peer]
        time(c, m) == IF m.relation \in AssociationRelations THEN AssociationTime(keys[c].seq)
                      ELSE PaymentTime(m.seq)
        row(c, m) == [context |-> c, relation |-> code(m), time |-> time(c, m), message |-> m]
        ofContext(c) == LET ordered == Ordered(messages[c], before)
                        IN [i \in DOMAIN ordered |-> row(c, ordered[i])]
    IN [rows |-> FlattenSeq([c \in DOMAIN keys |-> ofContext(c)]),
        seeds |-> [c \in DOMAIN keys |-> SeedTime(keys[c].seq)]]

\* One draw of the candidates of several contexts: by keys, or with what the library does.
KeyDraw(messages, hop) == [c \in DOMAIN messages |-> Select(KeptByKeys(messages[c], hop), hop)]

\* No call is made for a table without candidates.
LibraryResults(messages, keys, hop) ==
    LET table == Candidates(messages, keys)
        fan == FanoutArray(<<RelationQuotas(hop)>>)
    IN IF table.rows = <<>> THEN {<<>>} ELSE {LibraryCall(table, fan, behaviour, 1) : behaviour \in Behaviours}

LibraryDraw(table, contexts, result, hop) ==
    LET kept(c) == {table.rows[e].message : e \in {d \in Chosen(result) : table.rows[d].context = c}}
    IN [c \in contexts |-> Select(kept(c), hop)]

\* select_resampled: what a draw with the backend of the batch may give, unless it raises.
Neighbours(messages, keys, hop) ==
    LET table == Candidates(messages, keys)
    IN IF backend = "torch" THEN {KeyDraw(messages, hop)}
       ELSE {LibraryDraw(table, DOMAIN messages, result, hop) :
               result \in {r \in LibraryResults(messages, keys, hop) :
                             Accepts(table, RelationQuotas(hop), r)}}

-----------------------------------------------------------------------------
\* The batch.

RootKey(root, view) ==
    [node |-> root[1], seq |-> root[2], ts |-> root[2], scoped |-> view[1], phase |-> view[2]]

\* Mutant: the neighbour as of its root's cutoff.
ChildAtRoot(m, root) == [root EXCEPT !.node = m.peer]

\* child_key: the neighbour at its connecting message, in its root's scope and phase.
ChildKey(m, root) == [root EXCEPT !.node = m.peer, !.seq = m.seq, !.ts = m.ts]

\* The rows of one fetch, as one call of the query.
Fetched(keys, pool) ==
    LET answers == Call(log, keys, pool).rows
    IN [k \in Range(keys) |-> answers[CHOOSE i \in DOMAIN keys : keys[i] = k]]

\* A sequence of keys without some of them.
Without(keys, dropped) ==
    FoldLeft(LAMBDA kept, k : IF k \in dropped THEN kept ELSE Append(kept, k), <<>>, keys)

\* The backend is resolved once per run.
Resolved == [host \in Hosts |-> ResolveBackend(host.configured, host)]

\* build_root_batch: fetch the roots.  A batch without an accepted root is none.
FetchRoots ==
    /\ stage = "idle" /\ prepared > 0
    /\ \E roots \in RootSets, view \in Views, d \in Draws, host \in Hosts :
         LET keys == [i \in DOMAIN roots |-> RootKey(roots[i], view)]
             fetched == Fetched(keys, Roots)
         IN /\ Resolved[host] # "refused"
            /\ backend' = BatchBackend(Resolved[host], host.mode)
            /\ accepted' = Without(keys, {k \in Range(keys) : fetched[k].status # "ok"})
            /\ rows' = fetched
            /\ draw' = d
            /\ stage' = IF accepted' # <<>> THEN "roots" ELSE "empty"
    /\ UNCHANGED <<graphVars, refused, first, stubs, rejected, unique, second, positions, withheld>>

\* The messages of the roots.
RootMessages == [i \in DOMAIN accepted |-> rows[accepted[i]].messages]

\* The neighbours of the roots; then the children are known.
SelectFirst ==
    /\ stage = "roots"
    /\ \E neighbours \in Neighbours(RootMessages, accepted, 1) : first' = neighbours
    /\ stage' = "first"
    /\ UNCHANGED <<graphVars, backend, refused, accepted, rows, draw, stubs, rejected, unique, second, positions,
                   withheld>>

SlotKeys(i) == [j \in DOMAIN first[i] |-> ChildKey(first[i][j], accepted[i])]

\* BatchIndex: equal keys share one position, that of their first occurrence.
BatchIndex(keys) ==
    FoldLeft(LAMBDA index, k : IF Contains(index, k) THEN index ELSE Append(index, k), <<>>, keys)

\* The contexts a batch reaches that are not its roots, in the order of the roots' slots.
Reached ==
    LET slots == FoldLeft(LAMBDA s, i : s \o SlotKeys(i), <<>>, [i \in DOMAIN accepted |-> i])
    IN Without(BatchIndex(slots), Range(accepted))

\* The roots that are a context or have it in a slot, and the earliest cutoff among them.
Reaching(key) == {i \in DOMAIN accepted : key = accepted[i] \/ key \in Range(SlotKeys(i))}
\* Mutant: the cutoff of any root will do, the latest.
LatestAnchor(key) == Max({accepted[i].seq : i \in Reaching(key)})
Anchor(key) == Min({accepted[i].seq : i \in Reaching(key)})

\* Hub children become stubs; the others are one fetch.
FetchChildren ==
    /\ stage = "first"
    /\ LET hubs == {k \in Range(Reached) : IsStub(k, Anchor(k))}
           asked == Without(Reached, hubs)
           fetched == Fetched(asked, Children)
       IN /\ stubs' = hubs
          /\ rejected' = {k \in Range(asked) : fetched[k].status # "ok"}
          /\ rows' = [k \in Range(asked) \cup DOMAIN rows |->
                        IF k \in Range(asked) THEN fetched[k] ELSE rows[k]]
    /\ stage' = "children"
    /\ UNCHANGED <<graphVars, backend, refused, accepted, draw, first, unique, second, positions, withheld>>

\* A stub is a row without messages.
RowMessages(key) == IF key \in stubs THEN {} ELSE rows[key].messages

\* The contexts of the batch: its roots and the children that have a row or are stubs.
Contexts == BatchIndex(accepted \o Without(Reached, rejected))

\* The messages of the contexts of the batch.
ContextMessages == [p \in DOMAIN Contexts |-> RowMessages(Contexts[p])]

\* The second draw and the gathers: no call is made, so they are one step.
Assemble ==
    /\ stage = "children"
    /\ unique' = Contexts
    /\ \E neighbours \in Neighbours(ContextMessages, Contexts, 2) : second' = neighbours
    /\ positions' = [i \in DOMAIN accepted |-> [j \in DOMAIN first[i] |->
                       IF SlotKeys(i)[j] \in rejected THEN 0
                       ELSE CHOOSE p \in DOMAIN Contexts : Contexts[p] = SlotKeys(i)[j]]]
    /\ withheld' = [p \in DOMAIN second' |-> {j \in DOMAIN second'[p] :
                       IsStub([Contexts[p] EXCEPT !.node = second'[p][j].peer],
                              Anchor(Contexts[p]))}]
    /\ stage' = "done"
    /\ UNCHANGED <<graphVars, backend, refused, accepted, rows, draw, first, stubs, rejected>>

\* The candidates of the draw that comes next, if one does.
NextDraw ==
    CASE stage = "roots" -> {[hop |-> 1, table |-> Candidates(RootMessages, accepted)]}
      [] stage = "children" -> {[hop |-> 2, table |-> Candidates(ContextMessages, Contexts)]}
      [] OTHER -> {}

\* A result that subset does not accept raises: the batch fails.
RefuseDraw ==
    /\ backend = "cugraph"
    /\ \E d \in NextDraw, behaviour \in Behaviours :
         LET quotas == RelationQuotas(d.hop)
             result == LibraryCall(d.table, FanoutArray(<<quotas>>), behaviour, 1)
         IN /\ ~Accepts(d.table, quotas, result)
            /\ refused' = {[table |-> d.table, quotas |-> quotas, result |-> result]}
    /\ stage' = "failed"
    /\ UNCHANGED <<graphVars, backend, accepted, rows, draw, first, stubs, rejected, unique, second,
                   positions, withheld>>

Next ==
    \/ Ingest \/ Prepare
    \/ FetchRoots \/ SelectFirst \/ FetchChildren \/ Assemble \/ RefuseDraw

Spec == Init /\ [][Next]_vars

-----------------------------------------------------------------------------
\* The rows of the fetch that was answered last, and its pool.  Other stages have the same
\* rows, and the graph may grow here as it may there.
Fresh ==
    CASE stage \in {"roots", "empty"} -> DOMAIN rows
      [] stage = "children" -> Range(Reached) \ stubs
      [] OTHER -> {}
FreshPool == IF stage = "children" THEN Children ELSE Roots

\* Nothing before its cutoff mentions the entity of a context.
Unobserved(key) == \A n \in DOMAIN log : key.node \in Mentioned(log[n]) => n >= key.seq

\* Every row agrees with the plain definition the repository keeps beside the queries
\* (reference/gsql_features.py): its payments are the strata of the visible history with
\* their pair histories and flows, and a request fails for its capacity exactly when one
\* relation of it has too long a history.  A request of a held-out account fails before, and so
\* does that of an entity which nothing before the cutoff mentions.
RowsAsReference ==
    \A k \in Fresh :
      LET pool == FreshPool
      IN CASE rows[k].status = "ok" ->
                {m \in rows[k].messages : m.stratum # "association"} = ReferenceMessages(log, k, pool)
           [] rows[k].status = "invisible_entity" ->
                (k.node \in Accounts /\ ~InPhase(k, k.node)) \/ Unobserved(k)
           [] OTHER ->
                (rows[k].status = "history_capacity_exceeded")
                  = \E rel \in Range(Relations) :
                       Cardinality(VisibleHistory(log, k, rel)) > pool.max_history

\* A row is what the query answers to that request alone on a graph without what came after
\* its cutoff and without the accounts of later partitions.  The other requests of the call,
\* failed ones among them, the events posted meanwhile and the held-out accounts change
\* nothing: the accumulators on shared vertices and the order of the requests do not show.  Of an
\* entity not observed before the cutoff the answer is that there is none, as missing until it
\* is observed at all and as invisible then.
AnswersIndependent ==
    \A k \in Fresh :
      \/ rows[k] = Call(Past(log, k.seq, k), <<k>>, FreshPool).rows[1]
      \/ Unobserved(k) /\ rows[k].status \in {"missing_entity", "invisible_entity"}

\* The registry: more payments of a relation than any context may have.
HubBefore(cutoff, key) ==
    \E rel \in Range(Relations) :
      Cardinality(Incident(Past(log, cutoff, key), key.node, rel)) > Threshold

\* A context is a stub, and an outermost peer has its history withheld, exactly when it is a
\* hub by what is visible before the cutoff of every root that reaches it: neither a later
\* root of the batch, nor a held-out account, nor an event after preparation decides it.  A
\* fetched context of an account never has a history over the capacity (hub_registry.py: a
\* child that is not a stub has at most threshold visible events per relation).
StubsFromThePast ==
    LET byEveryRoot(key, context) ==
          /\ key.node \in Accounts
          /\ \A i \in Reaching(context) : HubBefore(accepted[i].seq, key)
    IN /\ stage \in {"children", "done"} =>
            stubs = {k \in Range(Reached) : byEveryRoot(k, k)}
       /\ \A p \in DOMAIN second : \A j \in DOMAIN second[p] :
            j \in withheld[p] <=> byEveryRoot([unique[p] EXCEPT !.node = second[p][j].peer], unique[p])
       /\ \A k \in rejected :
            k.node \in Accounts => rows[k].status # "history_capacity_exceeded"

\* The messages of a root's own row from before its cutoff, as many as it has and the draw and
\* the slots allow.
FullOf(slots, messages, hop) ==
    LET drawn(rel) == Min({Quota(rel, hop), Cardinality({n \in messages : n.relation = rel})})
        all == MapThenSumSet(drawn, Range(Relations) \cup AssociationRelations)
    IN /\ Range(slots) \subseteq messages /\ IsInjective(slots)
       /\ Len(slots) = Min({Fanouts[hop], all})

\* Whichever sampler draws, the slots of a root hold distinct messages of its own row, as many
\* as it has and the draw and the slots allow.  What a slot leads to at the second hop is the
\* history of that neighbour before the connecting message, drawn as full; a masked slot leads
\* nowhere, and a slot is masked only if the query has no row for its neighbour.  A batch fails
\* only for a result of the library that is not a right draw: both numberings of its releases
\* are taken, also when contexts without candidates shift them.
SlotsAligned ==
    /\ stage \in {"first", "children", "done"} =>
         \A i \in DOMAIN accepted : FullOf(first[i], rows[accepted[i]].messages, 1)
    /\ \A i \in DOMAIN positions : \A j \in DOMAIN positions[i] :
         LET m == first[i][j]
             key == ChildKey(m, accepted[i])
             p == positions[i][j]
             pool == IF key \in Range(accepted) THEN Roots ELSE Children
             answer == Call(Past(log, m.seq, key), <<key>>, pool).rows[1]
         IN IF p = 0 THEN answer.status # "ok"
            ELSE FullOf(second[p], IF key \in stubs THEN {} ELSE answer.messages, 2)
    /\ \A r \in refused : ~RightDraw(r.table, r.quotas, r.result)

=============================================================================
