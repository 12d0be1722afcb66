---------------------------- MODULE CuGraphSampler ----------------------------
(***************************************************************************)
(* The draw of candidates on a GPU (sampling/cugraph_sampler.py): the      *)
(* batch-local graph handed to pylibcugraph, the checks of what it         *)
(* returns, the functional probe, and the choice between it and the torch  *)
(* sampler (sampling/backend.py).                                          *)
(*                                                                         *)
(* The library is outside the repository: it draws rows as asked, in one   *)
(* of the two numberings of batch ids its releases have, or it goes wrong  *)
(* in one of the ways of Faulty.  A table is the candidates of several     *)
(* contexts in canonical order, rows of [context, relation, time], and the *)
(* seed time of each context; contexts, relations and rows count from 1.   *)
(***************************************************************************)
EXTENDS Integers, Sequences, FiniteSets, FiniteSetsExt, SequencesExt

\* Time keys: a payment is before its cutoff if its key is, an association always is.
PaymentTime(seq) == 2 * seq
AssociationTime(cutoff) == 2 * cutoff - 1
SeedTime(cutoff) == 2 * cutoff

GroupCounts(table, quotas, chosen) ==
    [c \in DOMAIN table.seeds |-> [r \in DOMAIN quotas |->
        Cardinality({e \in chosen : table.rows[e].context = c /\ table.rows[e].relation = r})]]

\* min(visible candidates, fan-out) per context and relation.
ExpectedCounts(table, quotas) ==
    LET visible == {e \in DOMAIN table.rows : table.rows[e].time < table.seeds[table.rows[e].context]}
        counts == GroupCounts(table, quotas, visible)
    IN [c \in DOMAIN counts |-> [r \in DOMAIN quotas |-> Min({counts[c][r], quotas[r]})]]

\* fanout_array: the fan-out of each edge type, hop after hop.
FanoutArray(perHop) == FlattenSeq(perHop)

\* graph_arrays: a vertex per context, then one per candidate, and an edge between them.
Edge(table, e) ==
    [id |-> e, major |-> table.rows[e].context, minor |-> Len(table.seeds) + e,
     type |-> table.rows[e].relation, time |-> table.rows[e].time]

-----------------------------------------------------------------------------
\* The library.

Numberings == {"label", "rank"}
Faults == {"none", "under", "over", "exchanged", "twice", "late", "beyond", "misfiled",
           "mistyped", "mislabelled", "unstable"}

\* The rows of each group by position, from the front or from the back of the table, as many
\* as the fan-out allows.
LibraryRows(table, fan, fromBack) ==
    LET same(e, d) == /\ table.rows[d].context = table.rows[e].context
                      /\ table.rows[d].relation = table.rows[e].relation
        ahead(e) == Cardinality({d \in DOMAIN table.rows :
                                   same(e, d) /\ IF fromBack THEN d > e ELSE d < e})
    IN SelectSeq([e \in DOMAIN table.rows |-> e], LAMBDA e : ahead(e) < fan[table.rows[e].relation])

\* The rank of a label among those with an edge.
Rank(majors, c) == Cardinality({d \in majors : d <= c})

Numbered(table, drawn, numbering) ==
    LET majors == {table.rows[e].context : e \in Range(drawn)}
        id(e) == IF numbering = "label" THEN table.rows[e].context
                 ELSE Rank(majors, table.rows[e].context)
    IN [i \in DOMAIN drawn |-> [edge |-> Edge(table, drawn[i]), batch |-> id(drawn[i])]]

\* What is wrong in a result, at its first or last edge.
Faulty(table, result, fault) ==
    LET last == Len(result)
        others == DOMAIN table.rows \ {result[i].edge.id : i \in DOMAIN result}
        unasked == [edge |-> Edge(table, CHOOSE e \in others : TRUE), batch |-> result[last].batch]
    IN CASE result = <<>> \/ fault \in {"none", "unstable"} -> result
         [] result # <<>> /\ fault = "under" -> Front(result)
         [] result # <<>> /\ fault = "over" ->
              IF others = {} THEN result ELSE Append(result, unasked)
         [] result # <<>> /\ fault = "exchanged" ->
              IF others = {} THEN result ELSE Append(Front(result), unasked)
         [] result # <<>> /\ fault = "twice" -> Append(result, result[last])
         [] result # <<>> /\ fault = "late" ->
              [result EXCEPT ![1].edge.time = table.seeds[result[1].edge.major]]
         [] result # <<>> /\ fault = "beyond" -> [result EXCEPT ![1].edge.id = Len(table.rows) + 1]
         [] result # <<>> /\ fault = "misfiled" ->
              [result EXCEPT ![1].edge.major = (@ % Len(table.seeds)) + 1]
         [] result # <<>> /\ fault = "mistyped" -> [result EXCEPT ![1].edge.type = @ + 1]
         [] OTHER -> [result EXCEPT ![last].batch = @ + 1]

\* A call with a behaviour of the library, [numbering, fault], for the nth time.
LibraryCall(table, fan, behaviour, n) ==
    LET drawn == LibraryRows(table, fan, behaviour.fault = "unstable" /\ n = 2)
    IN Faulty(table, Numbered(table, drawn, behaviour.numbering), behaviour.fault)

-----------------------------------------------------------------------------
\* The checks of a result.

\* batch_ids_match: the label of the seed, or its rank among the labels with an edge.
BatchIdsMatch(result) ==
    LET majors == {result[i].edge.major : i \in DOMAIN result}
    IN \/ \A i \in DOMAIN result : result[i].batch = result[i].edge.major
       \/ \A i \in DOMAIN result : result[i].batch = Rank(majors, result[i].edge.major)

\* sampled_rows: the edges are of the graph and before their seeds, no row comes twice.
Consistent(table, result) ==
    \/ result = <<>>
    \/ /\ \A i \in DOMAIN result :
            /\ result[i].edge.major \in DOMAIN table.seeds
            /\ result[i].edge.id \in DOMAIN table.rows
       /\ \A i \in DOMAIN result : result[i].edge.time < table.seeds[result[i].edge.major]
       /\ \A i \in DOMAIN result :
            LET edge == Edge(table, result[i].edge.id)
            IN /\ result[i].edge.minor = edge.minor
               /\ result[i].edge.major = edge.major
               /\ result[i].edge.type = edge.type
       /\ BatchIdsMatch(result)
       /\ \A i, j \in DOMAIN result : result[i].edge.id = result[j].edge.id => i = j

Chosen(result) == {result[i].edge.id : i \in DOMAIN result}

\* subset: a result is accepted if it is consistent and has the rows it must have.  A table
\* without candidates needs no call.
Accepts(table, quotas, result) ==
    \/ table.rows = <<>>
    \/ /\ Consistent(table, result)
       /\ LET counts == GroupCounts(table, quotas, Chosen(result))
          IN /\ \A c \in DOMAIN counts : \A r \in DOMAIN quotas : counts[c][r] <= quotas[r]
             /\ counts = ExpectedCounts(table, quotas)

-----------------------------------------------------------------------------
\* The probe.

\* _probe_table: two payment relations over the fan-out and an association, a context
\* without candidates between two that have some, and associations only.
ProbeTable ==
    LET payments(r, seqs) == [i \in 1..Len(seqs) |->
            [context |-> 1, relation |-> r, time |-> PaymentTime(seqs[i])]]
        associations(c, r, n) == [i \in 1..n |->
            [context |-> c, relation |-> r, time |-> AssociationTime(100)]]
    IN [rows |-> payments(1, [i \in 1..11 |-> 12 - i]) \o payments(2, [i \in 1..9 |-> 39 - i])
                   \o associations(1, 3, 2) \o associations(3, 4, 3),
        seeds |-> <<SeedTime(100), SeedTime(100), SeedTime(100)>>]

ProbeQuotas == << <<8, 8, 1, 1>>, <<4, 4, 0, 0>> >>

\* probe_cugraph: both hops, each drawn twice.
Probe(behaviour) ==
    \A hop \in 1..2 :
      LET drawn(n) == LibraryCall(ProbeTable, FanoutArray(<<ProbeQuotas[hop]>>), behaviour, n)
      IN /\ \A n \in 1..2 : Accepts(ProbeTable, ProbeQuotas[hop], drawn(n))
         /\ Chosen(drawn(1)) = Chosen(drawn(2))

\* import_pylibcugraph and cugraph_import_error: a host's library is installed, loads, and is
\* of a release that bounds the first hop, with the function its release has.
Release(host) == host.version[1] * 100 + host.version[2]

Imports(host) ==
    /\ host.installed /\ host.loads
    /\ Release(host) >= 2604
    /\ Release(host) >= 2610 => host.unified

\* cugraph_usable: the probe runs once per process and device, and its outcome is kept.
CugraphUsable(host) == Imports(host) /\ host.device = "cuda" /\ Probe(host.behaviour)

\* resolve_backend: once per run.  "auto" falls back to torch, "cugraph" is refused.
ResolveBackend(configured, host) ==
    CASE configured = "torch" -> "torch"
      [] configured # "torch" /\ host.device = "cuda" /\ CugraphUsable(host) -> "cugraph"
      [] configured = "auto" /\ (host.device = "cuda" => ~CugraphUsable(host)) -> "torch"
      [] OTHER -> "refused"

\* batch_backend: an evaluation draws by hashes, on every machine.
BatchBackend(resolved, mode) == IF mode = "eval" THEN "torch" ELSE resolved

-----------------------------------------------------------------------------
\* A draw as it has to be, whatever the checks look at: distinct rows from before their
\* seeds, as they stand in the table, as many of each context and relation as there are and
\* the fan-out allows, numbered by label or by rank.
RightDraw(table, quotas, result) ==
    /\ \A i \in DOMAIN result :
         /\ result[i].edge.id \in DOMAIN table.rows
         /\ result[i].edge = Edge(table, result[i].edge.id)
         /\ result[i].edge.time < table.seeds[result[i].edge.major]
    /\ Cardinality(Chosen(result)) = Len(result)
    /\ \A c \in DOMAIN table.seeds, r \in DOMAIN quotas :
         LET group == {e \in DOMAIN table.rows :
                         table.rows[e].context = c /\ table.rows[e].relation = r}
         IN Cardinality(Chosen(result) \cap group) = Min({Cardinality(group), quotas[r]})
    /\ \E numbering \in Numberings :
         result = Numbered(table, [i \in DOMAIN result |-> result[i].edge.id], numbering)
=============================================================================
