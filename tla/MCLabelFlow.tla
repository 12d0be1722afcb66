---------------------------- MODULE MCLabelFlow ----------------------------
(* Nine accounts, six of them mules: two or more in each split.  The graphs differ in what *)
(* discovers each mule and when, in the payments between mules and in the budget.          *)
EXTENDS LabelFlow, TLC

MCAccounts == 1..9
MCPartition == <<1, 1, 1, 2, 2, 3, 3, 3, 3>>
MCSeedLimit == <<2, 1, 2>>
MCMules == {1, 2, 4, 5, 6, 8}

\* A report that becomes a discovery, one that never does alone, and two that do.
Early == [at |-> 2, acts |-> "always", confirm |-> 0]
Ignored == [at |-> 2, acts |-> "later", confirm |-> 0]
Second == [at |-> 3, acts |-> "later", confirm |-> 1]
Late == [at |-> 5, acts |-> "always", confirm |-> 2]

Link(seq, ts, a, b, exposesA, exposesB) ==
    [seq |-> seq, ts |-> ts, ends |-> {a, b}, delay |-> (a :> exposesB @@ b :> exposesA)]

Links == {Link(3, 1, 1, 2, 4, 2), Link(4, 3, 2, 4, 1, 3), Link(5, 4, 6, 8, Never, 3),
          Link(6, 2, 1, 2, 1, 1)}

MCGraphs ==
    [mules : {MCMules},
     first : {<<1, 1, 4, 1, 2, 1, 1, 3, 9>>},
     reports : {(1 :> r1 @@ 2 :> {} @@ 4 :> r4 @@ 5 :> {} @@ 6 :> {} @@ 8 :> {}) :
                   r1 \in {{}, {Early}, {Ignored}, {Ignored, Second}}, r4 \in {{}, {Late}}},
     monitoring : {(1 :> Never @@ 2 :> m2 @@ 4 :> Never @@ 5 :> m5 @@ 6 :> 4 @@ 8 :> Never) :
                     m2 \in {4, Never}, m5 \in {3, 6}},
     links : {{}, Links, {l \in Links : l.seq \in {3, 4}}},
     order : {<<9, 8, 7, 6, 5, 4, 3, 2, 1>>},
     budget : {1, 2},
     capped : BOOLEAN,
     end : {5, 13}]

MCDates == {<<{3, 6}, {8}, {11}>>, <<{6}, {7, 9}, {12}>>}
MCRanks == {<<1, 2, 3, 4, 5, 6, 7, 8, 9>>, <<3, 1, 2, 9, 8, 7, 6, 5, 4>>}
=============================================================================
