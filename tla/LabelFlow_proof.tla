--------------------------- MODULE LabelFlow_proof ---------------------------
(***************************************************************************)
(* Proofs about the way of the labels, for every graph, configuration and  *)
(* draw: what a sample takes for a known mule was known before its cutoff  *)
(* and has a cause; no label revealed at or after a cutoff changes what    *)
(* the cutoff sees; and the rows of an audit weigh what its population and *)
(* its hidden population count.                                            *)
(***************************************************************************)
EXTENDS LabelFlow, FiniteSetTheorems, WellFoundedInduction, TLAPS

-------------------------------------------------------------------------------
(* Least and greatest numbers. *)

\* A set of naturals that is not empty has a least one.
LEMMA LeastNatural ==
    ASSUME NEW S \in SUBSET Nat, S # {}
    PROVE  \E m \in S : \A k \in S : m <= k
<1> DEFINE T == {0..k : k \in S}
<1>1. T \subseteq FiniteSubsetsOf(Nat)
  <2>1. \A k \in Nat : IsFiniteSet(0..k)
    BY FS_Interval
  <2>2. QED
    BY <2>1 DEF FiniteSubsetsOf
<1>2. PICK x \in T : \A y \in T : <<y, x>> \notin StrictSubsetOrdering(Nat)
  <2>1. IsWellFoundedOn(StrictSubsetOrdering(Nat), FiniteSubsetsOf(Nat))
    BY FS_StrictSubsetOrderingWellFounded
  <2>2. T # {}
    OBVIOUS
  <2> HIDE DEF T
  <2>3. QED
    BY <1>1, <2>1, <2>2, WFMin
<1>3. PICK m \in S : x = 0..m
  OBVIOUS
<1>4. ASSUME NEW k \in S, k < m PROVE FALSE
  <2>1. /\ 0..k \subseteq 0..m /\ m \in 0..m /\ m \notin 0..k
        /\ 0..k \in SUBSET Nat /\ x \in SUBSET Nat
    BY <1>3, <1>4
  <2>2. <<0..k, x>> \in StrictSubsetOrdering(Nat)
    BY <1>3, <2>1 DEF StrictSubsetOrdering
  <2>3. QED
    BY <1>2, <2>2
<1>5. QED
  BY <1>4

\* What holds of 0 and passes from each number to the next holds up to n.
LEMMA UpTo ==
    ASSUME NEW n \in Nat, NEW S, 0 \in S, \A k \in 0..(n - 1) : k \in S => k + 1 \in S
    PROVE  0..n \subseteq S
<1> DEFINE Missing == (0..n) \ S
<1>1. SUFFICES ASSUME Missing # {} PROVE FALSE
  OBVIOUS
<1>2. PICK m \in Missing : \A k \in Missing : m <= k
  <2>1. Missing \in SUBSET Nat
    OBVIOUS
  <2> HIDE DEF Missing
  <2>2. QED
    BY <1>1, <2>1, LeastNatural
<1>3. m # 0 /\ m - 1 \in 0..(n - 1) /\ m - 1 \notin Missing /\ (m - 1) + 1 = m
  BY <1>2
<1>4. QED
  BY <1>2, <1>3

\* Min is the least of any naturals.
LEMMA MinLeast ==
    ASSUME NEW S \in SUBSET Nat, S # {}
    PROVE  Min(S) \in S /\ \A k \in S : Min(S) <= k
BY LeastNatural DEF Min

\* Max is the greatest of finitely many.
LEMMA MaxGreatest ==
    ASSUME NEW S \in SUBSET Nat, S # {}, IsFiniteSet(S)
    PROVE  Max(S) \in S /\ \A k \in S : k <= Max(S)
<1> DEFINE From(m) == {k \in S : m <= k}
           Sizes == {Cardinality(From(m)) : m \in S}
<1>1. \A m \in S : IsFiniteSet(From(m)) /\ Cardinality(From(m)) \in Nat
  <2>1. \A m \in S : From(m) \in SUBSET S
    OBVIOUS
  <2> HIDE DEF From
  <2>2. QED
    BY <2>1, FS_Subset, FS_CardinalityType
<1>2. PICK m \in S : \A k \in S : Cardinality(From(m)) <= Cardinality(From(k))
  <2>1. Sizes \in SUBSET Nat /\ Sizes # {}
    BY <1>1
  <2>2. PICK c \in Sizes : \A d \in Sizes : c <= d
    <3> HIDE DEF Sizes
    <3>1. QED
      BY <2>1, LeastNatural
  <2> HIDE DEF From
  <2>3. QED
    BY <2>2
<1>3. ASSUME NEW k \in S, m < k PROVE FALSE
  <2>1. From(k) \in SUBSET From(m) /\ m \in From(m) /\ m \notin From(k)
    <3>1. m \in Nat /\ k \in Nat /\ m \in S
      BY <1>2
    <3>2. \A x \in S : x \in Nat /\ (k <= x => m <= x)
      BY <1>3, <3>1
    <3>3. From(k) \in SUBSET From(m)
      BY <3>2
    <3>4. m \in From(m) /\ m \notin From(k)
      BY <1>3, <3>1
    <3>5. QED
      BY <3>3, <3>4
  <2> HIDE DEF From
  <2>2. Cardinality(From(k)) <= Cardinality(From(m)) /\ From(k) # From(m)
    BY <1>1, <2>1, FS_Subset
  <2>3. Cardinality(From(k)) # Cardinality(From(m))
    BY <1>1, <2>1, <2>2, FS_Subset
  <2>4. QED
    BY <1>1, <1>2, <2>2, <2>3
<1>4. \A k \in S : k <= m
  BY <1>3
<1>5. QED
  BY <1>4 DEF Max

\* The greater and the smaller of two.
LEMMA OfTwo ==
    ASSUME NEW a \in Int, NEW b \in Int
    PROVE  /\ Max({a, b}) = IF a >= b THEN a ELSE b
           /\ Min({a, b}) = IF a <= b THEN a ELSE b
BY DEF Max, Min

\* Accounts are numbered 1, 2, ...
N == Cardinality(Accounts)

\* The first account is 1 and the last one N.
LEMMA Numbered ==
    /\ IsFiniteSet(Accounts) /\ N \in Nat \ {0} /\ Accounts = 1..N
    /\ Min(Accounts) = 1 /\ Max(Accounts) = N
<1>1. IsFiniteSet(Accounts) /\ N \in Nat \ {0} /\ Accounts = 1..N
  BY RevealAssumption, InputAssumption, FS_CardinalityType DEF RevealAssumption, InputAssumption, N
<1>2. Accounts \in SUBSET Nat /\ Accounts # {}
  BY <1>1
<1>3. Min(Accounts) = 1
  BY <1>1, <1>2, MinLeast
<1>4. Max(Accounts) = N
  BY <1>1, <1>2, MaxGreatest
<1>5. QED
  BY <1>1, <1>3, <1>4
-------------------------------------------------------------------------------
(* The reveal. *)

Discoveries == [t : Nat, channel : {"victim_report", "monitoring", "network_trace"}]

\* The discoveries are times, and what a trace discovered has a cause.
Sound(g, discovered) ==
    /\ discovered \in [g.mules -> Discoveries]
    /\ \A m \in g.mules : discovered[m].t <= Never /\ Grounded(g, discovered, m)

\* What a graph is.
LEMMA GraphIs ==
    ASSUME NEW g \in Graphs
    PROVE  /\ g.mules \in SUBSET Accounts /\ g.first \in [Accounts -> Nat] /\ g.end \in Nat
           /\ g.monitoring \in [g.mules -> Nat]
           /\ \A m \in g.mules : \A r \in g.reports[m] : r.at \in Nat /\ r.confirm \in Nat
           /\ \A l \in g.links : /\ l.seq \in Nat /\ l.ts \in Nat /\ l.ends \subseteq g.mules
                                 /\ \A m \in l.ends : l.delay[m] \in Nat \ {0}
BY InputAssumption, Zenon DEF InputAssumption

\* What the cutoffs are.
LEMMA DateIs ==
    ASSUME NEW d \in Dates, NEW p \in Phases
    PROVE  d[p] \in SUBSET Nat /\ d[p] # {} /\ IsFiniteSet(d[p])
<1>1. d \in [Phases -> SUBSET Nat] /\ d[p] # {} /\ IsFiniteSet(d[p])
  BY InputAssumption, Zenon DEF InputAssumption
<1>2. QED
  BY <1>1

\* The earliest of some times is one of them, unless nothing happens.
LEMMA EarliestOf ==
    ASSUME NEW times \in SUBSET Nat
    PROVE  /\ Earliest(times) \in Nat /\ Earliest(times) <= Never
           /\ Earliest(times) # Never => Earliest(times) \in times
<1>1. times \cup {Never} \in SUBSET Nat /\ times \cup {Never} # {}
  BY RevealAssumption DEF RevealAssumption
<1>2. QED
  BY <1>1, MinLeast DEF Earliest

\* Without tracing no discovery needs a cause.
LEMMA OwnSound ==
    ASSUME NEW g \in Graphs
    PROVE  Sound(g, Own(g))
<1>1. ASSUME NEW m \in g.mules
      PROVE  Reacted(g, m) \in Nat /\ Reacted(g, m) <= Never /\ Monitored(g, m) \in Nat
  <2>1. m \in Accounts /\ g.first[m] \in Nat /\ g.monitoring[m] \in Nat
    BY <1>1, GraphIs
  <2>2. \A r \in g.reports[m] : r.at \in Nat /\ r.confirm \in Nat
    BY <1>1, GraphIs
  <2>3. {r.at + r.confirm : r \in {r \in g.reports[m] : Acted(g, m, r)}} \in SUBSET Nat
    BY <2>2
  <2>4. QED
    BY <2>1, <2>3, EarliestOf, RevealAssumption DEF Reacted, Monitored, RevealAssumption
<1>2. ASSUME NEW m \in g.mules
      PROVE  /\ Own(g)[m] \in Discoveries /\ Own(g)[m].t <= Never
             /\ Own(g)[m].channel # "network_trace"
  <2>1. Own(g)[m] = IF Reacted(g, m) <= Monitored(g, m)
                    THEN [t |-> Reacted(g, m), channel |-> "victim_report"]
                    ELSE [t |-> Monitored(g, m), channel |-> "monitoring"]
    BY <1>2 DEF Own
  <2>2. Never \in Nat
    BY RevealAssumption DEF RevealAssumption
  <2>3. CASE Reacted(g, m) <= Monitored(g, m)
    BY <1>1, <1>2, <2>1, <2>3 DEF Discoveries
  <2>4. CASE ~(Reacted(g, m) <= Monitored(g, m))
    BY <1>1, <1>2, <2>1, <2>2, <2>4 DEF Discoveries
  <2>5. QED
    BY <2>3, <2>4
<1>3. Own(g) \in [g.mules -> Discoveries]
  <2>1. Own(g) = [m \in g.mules |-> Own(g)[m]]
    BY DEF Own
  <2>2. QED
    BY <1>2, <2>1
<1>4. QED
  BY <1>2, <1>3 DEF Sound, Grounded

\* A trace comes after the discovery of a mule that it comes from.
LEMMA TracedFrom ==
    ASSUME NEW g \in Graphs, NEW discovered \in [g.mules -> Discoveries], NEW m \in g.mules
    PROVE  /\ Traced(g, discovered, m) \in Nat /\ Traced(g, discovered, m) <= Never
           /\ Traced(g, discovered, m) # Never =>
                \E s \in g.mules \ {m} :
                    /\ Exposing(g, discovered, s, m) # {}
                    /\ discovered[s].t < Traced(g, discovered, m)
<1> DEFINE Sources == {s \in g.mules \ {m} : Exposing(g, discovered, s, m) # {}}
           First(s) == Min({l.seq : l \in Exposing(g, discovered, s, m)})
           Chance(s) == (CHOOSE l \in Exposing(g, discovered, s, m) : l.seq = First(s)).delay[s]
           Moments == {discovered[s].t + Chance(s) : s \in {s \in Sources : Chance(s) # Never}}
<1>1. Traced(g, discovered, m) = Earliest(Moments)
  BY DEF Traced
<1>2. ASSUME NEW s \in Sources
      PROVE  Chance(s) \in Nat \ {0}
  <2>1. /\ \A l \in Exposing(g, discovered, s, m) :
             l \in g.links /\ l.ends = {s, m} /\ l.seq \in Nat
        /\ Exposing(g, discovered, s, m) # {}
    BY GraphIs DEF Exposing
  <2>2. \E l \in Exposing(g, discovered, s, m) : l.seq = First(s)
    <3>1. /\ {l.seq : l \in Exposing(g, discovered, s, m)} \in SUBSET Nat
          /\ {l.seq : l \in Exposing(g, discovered, s, m)} # {}
      BY <2>1
    <3>2. First(s) \in {l.seq : l \in Exposing(g, discovered, s, m)}
      BY <3>1, MinLeast
    <3>3. QED
      BY <3>2
  <2>3. PICK l \in Exposing(g, discovered, s, m) : Chance(s) = l.delay[s]
    <3> HIDE DEF First
    <3>1. QED
      BY <2>2
  <2>4. s \in l.ends /\ l \in g.links
    BY <2>1, <2>3
  <2>5. QED
    BY <2>3, <2>4, GraphIs
<1>3. \A s \in Sources : discovered[s].t \in Nat
  BY DEF Discoveries
<1> HIDE DEF Chance
<1>4. Moments \in SUBSET Nat
  BY <1>2, <1>3
<1>5. \A x \in Moments : \E s \in Sources : x = discovered[s].t + Chance(s)
  OBVIOUS
<1> HIDE DEF Moments
<1>6. /\ Earliest(Moments) \in Nat /\ Earliest(Moments) <= Never
      /\ Earliest(Moments) # Never => Earliest(Moments) \in Moments
  BY <1>4, EarliestOf
<1>7. ASSUME Traced(g, discovered, m) # Never
      PROVE  \E s \in g.mules \ {m} : /\ Exposing(g, discovered, s, m) # {}
                                      /\ discovered[s].t < Traced(g, discovered, m)
  <2>1. PICK s \in Sources : Earliest(Moments) = discovered[s].t + Chance(s)
    BY <1>1, <1>5, <1>6, <1>7
  <2>2. discovered[s].t < Earliest(Moments)
    BY <1>2, <1>3, <2>1
  <2>3. QED
    BY <1>1, <2>1, <2>2
<1>8. QED
  BY <1>1, <1>6, <1>7

\* A round of tracing keeps the causes: what it discovers is later than what exposes it,
\* and what it moves it moves to an earlier time.
LEMMA TraceRoundSound ==
    ASSUME NEW g \in Graphs, NEW discovered, Sound(g, discovered)
    PROVE  Sound(g, TraceRound(g, discovered))
<1> DEFINE after == TraceRound(g, discovered)
<1>1. discovered \in [g.mules -> Discoveries] /\ Never \in Nat
  BY RevealAssumption DEF Sound, RevealAssumption
<1>2. \A m \in g.mules : discovered[m].t \in Nat /\ discovered[m].t <= Never
  BY <1>1 DEF Sound, Discoveries
<1>3. \A m \in g.mules :
        after[m] = IF Traced(g, discovered, m) < discovered[m].t
                   THEN [t |-> Traced(g, discovered, m), channel |-> "network_trace"]
                   ELSE discovered[m]
  BY DEF TraceRound
<1>4. after = [m \in g.mules |-> after[m]]
  BY DEF TraceRound
<1>5. \A m \in g.mules : Traced(g, discovered, m) \in Nat
  BY <1>1, TracedFrom
<1> HIDE DEF after
<1>6. ASSUME NEW m \in g.mules
      PROVE  after[m] \in Discoveries /\ after[m].t <= discovered[m].t
  <2>1. CASE Traced(g, discovered, m) < discovered[m].t
    <3>1. after[m] = [t |-> Traced(g, discovered, m), channel |-> "network_trace"]
      BY <1>3, <2>1
    <3>2. QED
      BY <1>2, <1>5, <2>1, <3>1 DEF Discoveries
  <2>2. CASE ~(Traced(g, discovered, m) < discovered[m].t)
    <3>1. after[m] = discovered[m]
      BY <1>3, <2>2
    <3>2. QED
      BY <1>1, <1>2, <3>1
  <2>3. QED
    BY <2>1, <2>2
<1>7. after \in [g.mules -> Discoveries]
  BY <1>4, <1>6
<1>8. ASSUME NEW m \in g.mules PROVE Grounded(g, after, m)
  <2>1. \A s \in g.mules : after[s].t \in Nat /\ after[s].t <= discovered[s].t
    BY <1>6 DEF Discoveries
  <2>2. CASE Traced(g, discovered, m) < discovered[m].t
    <3>1. Traced(g, discovered, m) # Never
      BY <1>1, <1>2, <1>5, <2>2
    <3>2. PICK s \in g.mules \ {m} : /\ Exposing(g, discovered, s, m) # {}
                                     /\ discovered[s].t < Traced(g, discovered, m)
      BY <1>1, <3>1, TracedFrom
    <3>3. PICK l \in g.links : l.ends = {s, m} /\ l.ts < discovered[s].t
      BY <3>2 DEF Exposing
    <3>4. l.ts \in Nat
      BY GraphIs
    <3>5. after[m].t = Traced(g, discovered, m)
      <4>1. after[m] = [t |-> Traced(g, discovered, m), channel |-> "network_trace"]
        BY <1>3, <2>2
      <4>2. QED
        BY <4>1
    <3>6. after[s].t < after[m].t /\ l.ts < after[m].t
      BY <1>2, <1>5, <2>1, <3>2, <3>3, <3>4, <3>5
    <3>7. QED
      BY <3>2, <3>3, <3>6 DEF Grounded
  <2>3. CASE ~(Traced(g, discovered, m) < discovered[m].t)
    <3>1. after[m] = discovered[m]
      BY <1>3, <2>3
    <3>2. SUFFICES ASSUME after[m].channel = "network_trace"
                   PROVE  \E l \in g.links : \E s \in l.ends \ {m} :
                              m \in l.ends /\ after[s].t < after[m].t /\ l.ts < after[m].t
      BY DEF Grounded
    <3>3. PICK l \in g.links : \E s \in l.ends \ {m} :
                 m \in l.ends /\ discovered[s].t < discovered[m].t /\ l.ts < discovered[m].t
      BY <3>1, <3>2 DEF Sound, Grounded
    <3>4. PICK s \in l.ends \ {m} :
                 m \in l.ends /\ discovered[s].t < discovered[m].t /\ l.ts < discovered[m].t
      BY <3>3
    <3>5. s \in g.mules /\ l.ts \in Nat
      BY <3>3, <3>4, GraphIs
    <3>6. after[s].t < after[m].t /\ l.ts < after[m].t
      BY <1>2, <2>1, <3>1, <3>4, <3>5
    <3>7. QED
      BY <3>4, <3>6
  <2>4. QED
    BY <2>2, <2>3
<1>9. \A m \in g.mules : after[m].t <= Never
  BY <1>1, <1>2, <1>6 DEF Discoveries
<1>10. QED
  BY <1>7, <1>8, <1>9 DEF Sound, after
\* The end of a day comes no sooner than what happens in it.
LEMMA EndOfDay ==
    ASSUME NEW t \in Nat, NEW d \in Nat \ {0}
    PROVE  (t \div d + 1) * d - 1 \in Nat /\ t <= (t \div d + 1) * d - 1
<1>1. t = d * (t \div d) + (t % d) /\ 0 <= t % d /\ t % d < d /\ t \div d \in Nat /\ t % d \in Nat
  BY Z3
<1>2. PICK q \in Nat, r \in Nat : t = d * q + r /\ r < d /\ q = t \div d
  BY <1>1
<1>3. d * q \in Nat
  OBVIOUS
<1>4. (q + 1) * d = d * q + d
  BY <1>2, Z3
<1>5. QED
  BY <1>2, <1>3, <1>4

\* A label is of a mule, and it becomes available neither before the mule was discovered
\* nor before the data ends.
LEMMA Labelled ==
    ASSUME NEW g \in Graphs, NEW discovered, Sound(g, discovered), NEW cutoff, NEW a \in Accounts
    PROVE  LET label == Labels(g, discovered, cutoff)[a]
           IN /\ label \in [positive : BOOLEAN, from : Nat]
              /\ label.positive => /\ a \in g.mules
                                   /\ Min({discovered[a].t, g.end}) <= label.from
<1> DEFINE label == Labels(g, discovered, cutoff)[a]
<1>1. label = IF \E p \in Phases : a \in Chosen(g, discovered, cutoff, p)
              THEN [positive |-> TRUE, from |-> Available(g, discovered, a)]
              ELSE [positive |-> FALSE, from |-> 0]
  BY DEF Labels
<1>2. ASSUME NEW p \in Phases, a \in Chosen(g, discovered, cutoff, p)
      PROVE  /\ a \in g.mules /\ Available(g, discovered, a) \in Nat
             /\ Min({discovered[a].t, g.end}) <= Available(g, discovered, a)
  <2>1. a \in g.mules
    BY <1>2 DEF Chosen, Eligible
  <2>2. discovered[a].t \in Nat /\ g.end \in Nat /\ g.first[a] \in Nat /\ Day \in Nat \ {0}
    BY <2>1, GraphIs, RevealAssumption DEF Sound, Discoveries, RevealAssumption
  <2>3. PICK end \in Nat : /\ end = (discovered[a].t \div Day + 1) * Day - 1
                           /\ discovered[a].t <= end
    BY <2>2, EndOfDay
  <2>4. Available(g, discovered, a) = Max({Min({end, g.end}), g.first[a]})
    BY <2>3 DEF Available
  <2>5. Min({end, g.end}) = IF end <= g.end THEN end ELSE g.end
    <3>1. end \in Int /\ g.end \in Int
      BY <2>2
    <3>2. QED
      BY <3>1, OfTwo, Zenon
  <2>6. Min({discovered[a].t, g.end}) = IF discovered[a].t <= g.end THEN discovered[a].t ELSE g.end
    <3>1. discovered[a].t \in Int /\ g.end \in Int
      BY <2>2
    <3>2. QED
      BY <3>1, OfTwo, Zenon
  <2>7. PICK low \in Nat : low = Min({end, g.end}) /\ Min({discovered[a].t, g.end}) <= low
    BY <2>2, <2>3, <2>5, <2>6
  <2>8. Max({low, g.first[a]}) = IF low >= g.first[a] THEN low ELSE g.first[a]
    <3>1. low \in Int /\ g.first[a] \in Int
      BY <2>2
    <3>2. QED
      BY <3>1, OfTwo, Zenon
  <2>9. Available(g, discovered, a) = Max({low, g.first[a]})
    BY <2>4, <2>7
  <2>10. /\ Available(g, discovered, a) \in Nat
         /\ Min({discovered[a].t, g.end}) <= Available(g, discovered, a)
    BY <2>2, <2>6, <2>7, <2>8, <2>9
  <2>11. QED
    BY <2>1, <2>10
<1>3. CASE \E p \in Phases : a \in Chosen(g, discovered, cutoff, p)
  <2>1. label = [positive |-> TRUE, from |-> Available(g, discovered, a)]
    BY <1>1, <1>3
  <2> HIDE DEF label
  <2>2. label \in [positive : BOOLEAN, from : Nat] /\ label.from = Available(g, discovered, a)
    BY <1>2, <1>3, <2>1
  <2>3. QED
    BY <1>2, <1>3, <2>2 DEF label
<1>4. CASE ~\E p \in Phases : a \in Chosen(g, discovered, cutoff, p)
  <2>1. label = [positive |-> FALSE, from |-> 0]
    BY <1>1, <1>4
  <2> HIDE DEF label
  <2>2. label \in [positive : BOOLEAN, from : Nat] /\ ~label.positive
    BY <2>1
  <2>3. QED
    BY <2>2 DEF label
<1>5. QED
  BY <1>3, <1>4
-------------------------------------------------------------------------------
(* The selection. *)

\* What is selected after each of the accounts, by the labels observed.
Selecting(observed) ==
    LET kept[n \in 0..Max(Accounts)] ==
            IF n \notin Accounts THEN NoSelection ELSE Take(kept[n - 1], n, observed)
    IN kept

\* The selection is what this function has at the last account.
LEMMA SelectionIs ==
    ASSUME NEW observed
    PROVE  Selection(observed) = Selecting(observed)[N]
BY Numbered DEF Selection, Selecting

\* The accounts are taken one after the other.
Follows(kept, n, observed) ==
    kept = [k \in 0..n |-> IF k \notin Accounts THEN NoSelection
                           ELSE Take(kept[k - 1], k, observed)]

\* Such a function exists: the one of k accounts has a successor of k + 1.
LEMMA SelectingFollows ==
    ASSUME NEW observed
    PROVE  Follows(Selecting(observed), N, observed)
<1> DEFINE Reached == {n \in 0..N : \E kept : Follows(kept, n, observed)}
<1>1. N \in Nat \ {0} /\ Accounts = 1..N /\ Max(Accounts) = N
  BY Numbered
<1>2. 0 \in Reached
  <2>1. 0..0 = {0} /\ 0 \notin Accounts /\ 0 \in 0..N
    BY <1>1
  <2>2. Follows([k \in 0..0 |-> NoSelection], 0, observed)
    BY <2>1 DEF Follows
  <2>3. QED
    BY <2>1, <2>2
<1>3. ASSUME NEW n \in 0..(N - 1), n \in Reached PROVE n + 1 \in Reached
  <2>1. PICK kept : Follows(kept, n, observed)
    BY <1>3
  <2> DEFINE more == [k \in 0..(n + 1) |-> IF k = n + 1 THEN Take(kept[n], n + 1, observed)
                                           ELSE kept[k]]
  <2>2. \A k \in 0..n : kept[k] = IF k \notin Accounts THEN NoSelection
                                  ELSE Take(kept[k - 1], k, observed)
    BY <2>1 DEF Follows
  <2>3. \A k \in 0..n : more[k] = kept[k]
    BY <1>1
  <2>4. more[n + 1] = Take(kept[n], n + 1, observed)
    BY <1>1
  <2>5. ASSUME NEW k \in 0..(n + 1)
        PROVE  more[k] = IF k \notin Accounts THEN NoSelection ELSE Take(more[k - 1], k, observed)
    <3> HIDE DEF more
    <3>1. CASE k = n + 1
      <4>1. k \in Accounts /\ k - 1 = n /\ n \in 0..n
        BY <1>1, <3>1
      <4>2. QED
        BY <2>3, <2>4, <3>1, <4>1
    <3>2. CASE k \in 0..n /\ k \in Accounts
      <4>1. k - 1 \in 0..n
        BY <1>1, <3>2
      <4>2. QED
        BY <2>2, <2>3, <3>2, <4>1
    <3>3. CASE k \in 0..n /\ k \notin Accounts
      BY <2>2, <2>3, <3>3
    <3>4. k = n + 1 \/ k \in 0..n
      BY <1>1
    <3>5. QED
      BY <3>1, <3>2, <3>3, <3>4
  <2>6. Follows(more, n + 1, observed)
    <3>1. more = [k \in 0..(n + 1) |-> more[k]]
      OBVIOUS
    <3> HIDE DEF more
    <3>2. QED
      BY <2>5, <3>1 DEF Follows
  <2>7. n + 1 \in 0..N
    BY <1>1
  <2>8. QED
    BY <2>6, <2>7
<1>4. N \in Reached
  <2>1. 0..N \subseteq Reached
    <3> HIDE DEF Reached
    <3>1. QED
      BY <1>1, <1>2, <1>3, UpTo
  <2>2. QED
    BY <1>1, <2>1
<1>5. PICK kept : Follows(kept, N, observed)
  BY <1>4
<1>6. Selecting(observed) = CHOOSE f : Follows(f, N, observed)
  BY <1>1 DEF Selecting, Follows
<1>7. QED
  BY <1>5, <1>6

\* From nothing, one account at a time.
LEMMA SelectingSteps ==
    ASSUME NEW observed
    PROVE  /\ Selecting(observed)[0] = NoSelection
           /\ \A n \in 1..N : Selecting(observed)[n] = Take(Selecting(observed)[n - 1], n, observed)
<1>1. Follows(Selecting(observed), N, observed) /\ N \in Nat \ {0} /\ Accounts = 1..N
  BY SelectingFollows, Numbered
<1>2. \A k \in 0..N : Selecting(observed)[k] =
                        IF k \notin Accounts THEN NoSelection
                        ELSE Take(Selecting(observed)[k - 1], k, observed)
  BY <1>1 DEF Follows
<1>3. QED
  BY <1>1, <1>2
\* An account that existed at the first cutoff of its split.
Existed(a) == ~(graph.first[a] >= Min(dates[Partition[a]]))

\* The pool holds the positives among the accounts taken.
LEMMA SelectedPool ==
    ASSUME NEW observed
    PROVE  \A n \in 0..N : Selecting(observed)[n].pool
                             = {a \in 1..n : Existed(a) /\ observed[a].positive}
<1> DEFINE Pool(n) == {a \in 1..n : Existed(a) /\ observed[a].positive}
           S == {n \in 0..N : Selecting(observed)[n].pool = Pool(n)}
<1>1. N \in Nat
  BY Numbered
<1>2. 0 \in S
  <2>1. Pool(0) = {}
    OBVIOUS
  <2>2. Selecting(observed)[0].pool = {}
    BY SelectingSteps DEF NoSelection
  <2>3. QED
    BY <1>1, <2>1, <2>2
<1>3. ASSUME NEW n \in 0..(N - 1), n \in S PROVE n + 1 \in S
  <2>1. n + 1 \in 1..N /\ (n + 1) - 1 = n /\ 1..(n + 1) = (1..n) \cup {n + 1}
    BY <1>1
  <2>2. Selecting(observed)[n + 1] = Take(Selecting(observed)[n], n + 1, observed)
    BY <2>1, SelectingSteps
  <2>3. Take(Selecting(observed)[n], n + 1, observed).pool
          = IF Existed(n + 1) /\ observed[n + 1].positive
            THEN Selecting(observed)[n].pool \cup {n + 1}
            ELSE Selecting(observed)[n].pool
    BY DEF Take, Existed
  <2>4. Pool(n + 1) = IF Existed(n + 1) /\ observed[n + 1].positive
                      THEN Pool(n) \cup {n + 1} ELSE Pool(n)
    BY <2>1
  <2>5. Selecting(observed)[n].pool = Pool(n)
    BY <1>3
  <2>6. Selecting(observed)[n + 1].pool = Pool(n + 1)
    BY <2>2, <2>3, <2>4, <2>5
  <2>7. QED
    BY <2>1, <2>6
<1>4. 0..N \subseteq S
  <2> HIDE DEF S
  <2>1. QED
    BY <1>1, <1>2, <1>3, UpTo
<1>5. QED
  BY <1>4

\* The reservoirs do not depend on labels.
LEMMA SelectedHeap ==
    ASSUME NEW observed, NEW other
    PROVE  \A n \in 0..N : Selecting(observed)[n].heap = Selecting(other)[n].heap
<1> DEFINE S == {n \in 0..N : Selecting(observed)[n].heap = Selecting(other)[n].heap}
<1>1. N \in Nat
  BY Numbered
<1>2. 0 \in S
  BY <1>1, SelectingSteps
<1>3. ASSUME NEW n \in 0..(N - 1), n \in S PROVE n + 1 \in S
  <2>1. n + 1 \in 1..N /\ (n + 1) - 1 = n
    BY <1>1
  <2>2. /\ Selecting(observed)[n + 1] = Take(Selecting(observed)[n], n + 1, observed)
        /\ Selecting(other)[n + 1] = Take(Selecting(other)[n], n + 1, other)
    BY <2>1, SelectingSteps
  <2> DEFINE After(heap) ==
               IF Existed(n + 1)
               THEN [heap EXCEPT ![Partition[n + 1]] = Reservoir(@, n + 1)] ELSE heap
  <2>3. \A sel, seen : Take(sel, n + 1, seen).heap = After(sel.heap)
    BY DEF Take, Existed
  <2> HIDE DEF After
  <2>4. Selecting(observed)[n].heap = Selecting(other)[n].heap
    BY <1>3
  <2>5. Take(Selecting(observed)[n], n + 1, observed).heap
          = Take(Selecting(other)[n], n + 1, other).heap
    BY <2>3, <2>4
  <2>6. Selecting(observed)[n + 1].heap = Selecting(other)[n + 1].heap
    BY <2>2, <2>5
  <2>7. QED
    BY <2>1, <2>6
<1>4. 0..N \subseteq S
  <2> HIDE DEF S
  <2>1. QED
    BY <1>1, <1>2, <1>3, UpTo
<1>5. QED
  BY <1>4

\* What is selected is made of accounts.
LEMMA SelectedType ==
    ASSUME NEW observed
    PROVE  \A n \in 0..N : Selecting(observed)[n] \in [heap : [Phases -> SUBSET Accounts],
                                                       pool : SUBSET Accounts]
<1> DEFINE Type == [heap : [Phases -> SUBSET Accounts], pool : SUBSET Accounts]
           S == {n \in 0..N : Selecting(observed)[n] \in Type}
<1>1. N \in Nat /\ Accounts = 1..N
  BY Numbered
<1>2. 0 \in S
  BY <1>1, SelectingSteps DEF NoSelection
<1>3. ASSUME NEW n \in 0..(N - 1), n \in S PROVE n + 1 \in S
  <2>1. n + 1 \in Accounts /\ (n + 1) - 1 = n /\ n + 1 \in 0..N
    BY <1>1
  <2>2. Selecting(observed)[n + 1] = Take(Selecting(observed)[n], n + 1, observed)
    BY <1>1, <2>1, SelectingSteps
  <2>3. ASSUME NEW sel \in Type PROVE Take(sel, n + 1, observed) \in Type
    <3>1. \A heap \in SUBSET Accounts : Reservoir(heap, n + 1) \in SUBSET Accounts
      BY <2>1 DEF Reservoir
    <3>2. [sel.heap EXCEPT ![Partition[n + 1]] = Reservoir(@, n + 1)] \in [Phases -> SUBSET Accounts]
      BY <3>1
    <3>3. QED
      BY <2>1, <3>2 DEF Take
  <2> HIDE DEF Type
  <2>4. Selecting(observed)[n] \in Type
    BY <1>3
  <2>5. Selecting(observed)[n + 1] \in Type
    BY <2>2, <2>3, <2>4, Zenon
  <2>6. QED
    BY <2>1, <2>5
<1>4. 0..N \subseteq S
  <2> HIDE DEF S
  <2>1. QED
    BY <1>1, <1>2, <1>3, UpTo
<1>5. QED
  BY <1>4
\* A date sees the same labels of those before it.
LEMMA SameVisible ==
    ASSUME NEW d
    PROVE  VisibleLabels(labels, d) = VisibleLabels(Erased(d), d)
<1>1. ASSUME NEW a \in Accounts
      PROVE  (labels[a].positive /\ labels[a].from < d)
                 <=> (Erased(d)[a].positive /\ Erased(d)[a].from < d)
  <2>1. CASE labels[a].from < d
    <3>1. Erased(d)[a] = labels[a]
      BY <2>1 DEF Erased
    <3>2. QED
      BY <3>1
  <2>2. CASE ~(labels[a].from < d)
    <3>1. Erased(d)[a] = [positive |-> FALSE, from |-> 0]
      BY <2>2 DEF Erased, Unlabeled
    <3>2. QED
      BY <2>2, <3>1
  <2>3. QED
    BY <2>1, <2>2
<1>2. QED
  BY <1>1 DEF VisibleLabels

\* When every account is taken, a date sees of the selection what it would see of one by
\* the labels before it: the same reservoirs, and the same of the pool among the positives
\* it sees.
LEMMA SameSeen ==
    ASSUME NEW d, NEW p
    PROVE  LET all == Selecting(labels)[N]
               past == Selecting(Erased(d))[N]
               seen == VisibleLabels(labels, d)
           IN /\ Marginal(all) = Marginal(past)
              /\ EligibleAt(all, p, d) \cap seen = EligibleAt(past, p, d) \cap seen
              /\ EligibleAt(all, p, d) \cap Marginal(all) = EligibleAt(past, p, d) \cap Marginal(past)
<1> DEFINE all == Selecting(labels)[N]
           past == Selecting(Erased(d))[N]
           seen == VisibleLabels(labels, d)
<1>1. N \in 0..N /\ Accounts = 1..N
  BY Numbered
<1>2. all.heap = past.heap
  BY <1>1, SelectedHeap
<1>3. Marginal(all) = Marginal(past)
  BY <1>2 DEF Marginal
<1>4. /\ all.pool = {a \in Accounts : Existed(a) /\ labels[a].positive}
      /\ past.pool = {a \in Accounts : Existed(a) /\ Erased(d)[a].positive}
  BY <1>1, SelectedPool
<1>5. \A a \in seen : a \in Accounts /\ labels[a].positive /\ Erased(d)[a].positive
  BY SameVisible DEF VisibleLabels
<1>6. \A a \in seen : a \in all.pool <=> a \in past.pool
  BY <1>4, <1>5
<1> HIDE DEF all, past, seen
<1>7. EligibleAt(all, p, d) \cap seen = EligibleAt(past, p, d) \cap seen
  BY <1>3, <1>6 DEF EligibleAt, Kept
<1>8. EligibleAt(all, p, d) \cap Marginal(all) = EligibleAt(past, p, d) \cap Marginal(past)
  BY <1>3 DEF EligibleAt, Kept
<1>9. QED
  BY <1>3, <1>7, <1>8 DEF all, past, seen

\* So the samples of a date do not change with the labels from it on.
LEMMA SameSamples ==
    ASSUME NEW d, selected = Selecting(labels)[N]
    PROVE  /\ PUSample(selected, labels, d) = PUSample(Selection(Erased(d)), Erased(d), d)
           /\ \A p : EvaluationSample(selected, labels, p, d)
                         = EvaluationSample(Selection(Erased(d)), Erased(d), p, d)
<1> DEFINE past == Selecting(Erased(d))[N]
           seen == VisibleLabels(labels, d)
<1>1. Selection(Erased(d)) = past
  BY SelectionIs
<1>2. VisibleLabels(Erased(d), d) = seen
  BY SameVisible
<1>3. \A p : /\ EligibleAt(selected, p, d) \cap seen = EligibleAt(past, p, d) \cap seen
             /\ EligibleAt(selected, p, d) \cap Marginal(selected)
                  = EligibleAt(past, p, d) \cap Marginal(past)
  BY SameSeen
<1> HIDE DEF past, seen
<1>4. PUSample(selected, labels, d) = PUSample(past, Erased(d), d)
  BY <1>2, <1>3 DEF PUSample, seen
<1>5. ASSUME NEW p
      PROVE  EvaluationSample(selected, labels, p, d) = EvaluationSample(past, Erased(d), p, d)
  <2>1. \A E, M, V : (E \ (E \cap V)) \cap M = (E \cap M) \ V
    OBVIOUS
  <2>2. /\ EvaluationSample(selected, labels, p, d)
             = [known |-> EligibleAt(selected, p, d) \cap seen,
                unlabeled |-> (EligibleAt(selected, p, d) \cap Marginal(selected)) \ seen]
        /\ EvaluationSample(past, Erased(d), p, d)
             = [known |-> EligibleAt(past, p, d) \cap seen,
                unlabeled |-> (EligibleAt(past, p, d) \cap Marginal(past)) \ seen]
    BY <1>2, <2>1 DEF EvaluationSample, seen
  <2>3. QED
    BY <1>3, <2>2
<1>6. QED
  BY <1>1, <1>4, <1>5
-------------------------------------------------------------------------------
(* The inductive invariant. *)

\* What is selected depends on the inputs and the labels alone.
LEMMA SelectingSame ==
    ASSUME UNCHANGED inputs, UNCHANGED labels
    PROVE  Selecting(labels)' = Selecting(labels)
<1>1. graph' = graph /\ dates' = dates /\ rank' = rank /\ labels' = labels
  BY DEF inputs
<1>2. \A heap, a : Reservoir(heap, a)' = Reservoir(heap, a)
  BY <1>1 DEF Reservoir
<1>3. \A sel, a, observed : Take(sel, a, observed)' = Take(sel, a, observed)
  BY <1>1, <1>2 DEF Take
<1>4. QED
  BY <1>1, <1>3 DEF Selecting
InputsOK == graph \in Graphs /\ dates \in Dates /\ rank \in Ranks

FoundOK == Sound(graph, found) /\ round \in 0..Rounds

\* The labels are written once, when the discoveries are complete.
LabelsOK ==
    /\ phase \in {"unrevealed", "reading", "trained", "refused"}
    /\ IF phase = "unrevealed" THEN labels = Unlabeled /\ next = 1
       ELSE round = Rounds /\ labels = Labels(graph, found, Cutoffs)

SelectedOK == next \in 1..(N + 1) /\ selected = Selecting(labels)[next - 1]

\* What was drawn last takes for positives some of the labels visible at its date.
UseOK ==
    /\ left \in [date : Nat, accounts : SUBSET Accounts, steps : Nat]
    /\ use.kind \in {"none", "batch", "proxy", "audit"}
    /\ use.kind # "none" =>
         /\ phase = "trained" /\ use.date \in Nat
         /\ use.positives \subseteq VisibleLabels(labels, use.date)

\* An audit has a row for every mule of the population of a split and for the non-mules it
\* draws, with the flags and the weights that these have.
IsAudit(p, drawn) ==
    LET population == AuditPopulation(p)
        negatives == population \ graph.mules
    IN /\ drawn \subseteq negatives /\ Cardinality(drawn) = Drawn(negatives)
       /\ use.date = Latest(p)
       /\ DOMAIN use.rows = (population \cap graph.mules) \cup drawn
       /\ \A a \in DOMAIN use.rows :
            /\ use.rows[a].mule = (a \in graph.mules)
            /\ use.rows[a].revealed = (a \in VisibleLabels(labels, Latest(p)))
            /\ use.rows[a].weight = Weight(negatives, a \in graph.mules)

AuditOK == use.kind = "audit" => \E p \in {2, 3} : \E drawn : IsAudit(p, drawn)

Settled == InputsOK /\ FoundOK /\ LabelsOK /\ SelectedOK

IInv == Settled /\ UseOK /\ AuditOK

\* Initially the invariant holds.
LEMMA InitInv == Init => IInv
<1> SUFFICES ASSUME Init PROVE IInv
  OBVIOUS
<1>1. InputsOK
  BY DEF Init, InputsOK
<1>2. FoundOK
  BY OwnSound DEF Init, FoundOK, Rounds
<1>3. LabelsOK
  BY Numbered DEF Init, LabelsOK
<1>4. SelectedOK
  BY Numbered, SelectingSteps DEF Init, SelectedOK
<1>5. UseOK /\ AuditOK
  BY DEF Init, UseOK, AuditOK, NoDate, Nothing
<1>6. QED
  BY <1>1, <1>2, <1>3, <1>4, <1>5 DEF IInv, Settled

\* The labels that would be written depend on the inputs and the discoveries alone.
LEMMA LabelsSame ==
    ASSUME UNCHANGED <<inputs, found>>
    PROVE  Labels(graph, found, Cutoffs)' = Labels(graph, found, Cutoffs)
<1>1. graph' = graph /\ dates' = dates /\ found' = found
  BY DEF inputs
<1>2. Cutoffs' = Cutoffs
  BY <1>1 DEF Cutoffs, Latest
<1>3. QED
  BY <1>1, <1>2

\* A step that leaves these alone leaves what is settled.
LEMMA SettledSame ==
    ASSUME Settled, UNCHANGED <<inputs, found, round, labels, phase, next, selected>>
    PROVE  Settled'
<1>1. InputsOK'
  BY DEF Settled, InputsOK, inputs
<1>2. FoundOK'
  BY DEF Settled, FoundOK, inputs
<1>3. LabelsOK'
  BY LabelsSame DEF Settled, LabelsOK, inputs
<1>4. SelectedOK'
  BY SelectingSame DEF Settled, SelectedOK
<1>5. QED
  BY <1>1, <1>2, <1>3, <1>4 DEF Settled

\* Before training nothing is drawn, and a step before it draws nothing.
LEMMA NothingDrawn ==
    ASSUME IInv, phase # "trained", UNCHANGED <<left, use>>
    PROVE  UseOK' /\ AuditOK'
BY DEF IInv, UseOK, AuditOK

\* A round of tracing.
LEMMA TraceInv == IInv /\ Trace => IInv'
<1> SUFFICES ASSUME IInv, Trace PROVE IInv'
  OBVIOUS
<1> USE DEF IInv, Settled
<1>1. /\ UNCHANGED <<inputs, labels, phase, next, selected, left, use>>
      /\ round < Rounds /\ found' = TraceRound(graph, found) /\ round' = round + 1
  BY DEF Trace
<1>2. phase = "unrevealed"
  BY <1>1 DEF LabelsOK, Rounds
<1>3. InputsOK' /\ graph' = graph
  BY <1>1 DEF InputsOK, inputs
<1>4. FoundOK'
  BY <1>1, <1>3, TraceRoundSound DEF InputsOK, FoundOK, Rounds
<1>5. LabelsOK'
  BY <1>1, <1>2 DEF LabelsOK
<1>6. SelectedOK'
  BY <1>1, SelectingSame DEF SelectedOK
<1>7. QED
  BY <1>1, <1>2, <1>3, <1>4, <1>5, <1>6, NothingDrawn

\* Before the first account nothing is selected, whatever the labels are.
LEMMA StartsEmpty == Selecting(labels)[0] = NoSelection
BY SelectingSteps

\* The reveal.
LEMMA RevealInv == IInv /\ Reveal => IInv'
<1> SUFFICES ASSUME IInv, Reveal PROVE IInv'
  OBVIOUS
<1> USE DEF IInv, Settled
<1>1. /\ UNCHANGED <<inputs, found, round, next, selected, left, use>>
      /\ phase = "unrevealed" /\ round = Rounds /\ labels' = Labels(graph, found, Cutoffs)
      /\ phase' \in {"refused", "reading"}
  BY DEF Reveal
<1>2. InputsOK' /\ FoundOK'
  BY <1>1 DEF InputsOK, FoundOK, inputs
<1>3. LabelsOK'
  BY <1>1, LabelsSame DEF LabelsOK
<1>4. SelectedOK'
  <2>1. next = 1 /\ next' = 1 /\ selected' = selected
    BY <1>1 DEF LabelsOK
  <2>2. Selecting(labels)[0] = NoSelection
    BY StartsEmpty
  <2>3. (Selecting(labels)[0] = NoSelection)'
    BY StartsEmpty, PTL
  <2>4. QED
    BY <2>1, <2>2, <2>3, Numbered DEF SelectedOK
<1>5. QED
  BY <1>1, <1>2, <1>3, <1>4, NothingDrawn
\* One account of the population.
LEMMA ReadAccountInv == IInv /\ ReadAccount => IInv'
<1> SUFFICES ASSUME IInv, ReadAccount PROVE IInv'
  OBVIOUS
<1> USE DEF IInv, Settled
<1>1. /\ UNCHANGED <<inputs, found, round, labels, phase, left, use>>
      /\ phase = "reading" /\ next \in Accounts /\ next' = next + 1
      /\ selected' = Take(selected, next, labels)
  BY DEF ReadAccount, revealVars
<1>2. InputsOK' /\ FoundOK'
  BY <1>1 DEF InputsOK, FoundOK, inputs
<1>3. LabelsOK'
  BY <1>1, LabelsSame DEF LabelsOK
<1>4. SelectedOK'
  <2>1. next \in 1..N /\ next + 1 \in 1..(N + 1) /\ (next + 1) - 1 = next
    BY <1>1, Numbered
  <2>2. Selecting(labels)[next] = Take(Selecting(labels)[next - 1], next, labels)
    BY <2>1, SelectingSteps
  <2>3. selected' = Selecting(labels)[next]
    BY <1>1, <2>2 DEF SelectedOK
  <2>4. Selecting(labels)' = Selecting(labels)
    BY <1>1, SelectingSame
  <2>5. QED
    BY <1>1, <2>1, <2>3, <2>4 DEF SelectedOK
<1>5. QED
  BY <1>1, <1>2, <1>3, <1>4, NothingDrawn

\* The end of the accounts.
LEMMA TakeSamplesInv == IInv /\ TakeSamples => IInv'
<1> SUFFICES ASSUME IInv, TakeSamples PROVE IInv'
  OBVIOUS
<1> USE DEF IInv, Settled
<1>1. /\ UNCHANGED <<inputs, found, round, labels, next, selected, left, use>>
      /\ phase = "reading" /\ phase' \in {"trained", "refused"}
  BY DEF TakeSamples, revealVars
<1>2. InputsOK' /\ FoundOK'
  BY <1>1 DEF InputsOK, FoundOK, inputs
<1>3. LabelsOK'
  BY <1>1, LabelsSame DEF LabelsOK
<1>4. SelectedOK'
  BY <1>1, SelectingSame DEF SelectedOK
<1>5. QED
  BY <1>1, <1>2, <1>3, <1>4, NothingDrawn

\* What is seen of the selection is made of accounts.
LEMMA MarginalType ==
    ASSUME Settled
    PROVE  Marginal(selected) \in SUBSET Accounts
<1>1. selected \in [heap : [Phases -> SUBSET Accounts], pool : SUBSET Accounts]
  <2>1. next - 1 \in 0..N /\ selected = Selecting(labels)[next - 1]
    BY Numbered DEF Settled, SelectedOK
  <2>2. QED
    BY <2>1, SelectedType
<1>2. QED
  BY <1>1 DEF Marginal

\* A train cutoff begins.
LEMMA StartDateInv == IInv /\ StartDate => IInv'
<1> SUFFICES ASSUME IInv, StartDate PROVE IInv'
  OBVIOUS
<1>1. UNCHANGED <<inputs, found, round, labels, phase, next, selected>> /\ use' = Nothing
  BY DEF StartDate, revealVars
<1>2. Settled'
  BY <1>1, SettledSame DEF IInv
<1>3. left' \in [date : Nat, accounts : SUBSET Accounts, steps : Nat]
  <2>1. PICK d \in dates[1] : left' = [date |-> d, steps |-> 0,
                                       accounts |-> PUSample(selected, labels, d).marginal]
    BY DEF StartDate
  <2>2. PUSample(selected, labels, d).marginal \subseteq Marginal(selected)
    BY DEF PUSample
  <2>3. d \in Nat
    BY DateIs DEF IInv, Settled, InputsOK, Phases
  <2>4. QED
    BY <2>1, <2>2, <2>3, MarginalType DEF IInv
<1>4. QED
  BY <1>1, <1>2, <1>3 DEF IInv, UseOK, AuditOK, Nothing

\* A batch: its positives are drawn among those its date sees.
LEMMA DrawBatchInv == IInv /\ DrawBatch => IInv'
<1> SUFFICES ASSUME IInv, DrawBatch PROVE IInv'
  OBVIOUS
<1>1. UNCHANGED <<inputs, found, round, labels, phase, next, selected>> /\ phase = "trained"
  BY DEF DrawBatch, revealVars
<1>2. Settled'
  BY <1>1, SettledSame DEF IInv
<1>3. PICK rows \in kSubset(Min({MarginalShare, Cardinality(left.accounts)}), left.accounts),
           drawn \in [1..PositiveShare -> PUSample(selected, labels, left.date).positives] :
        /\ left' = [left EXCEPT !.accounts = @ \ rows, !.steps = @ + 1]
        /\ use' = [kind |-> "batch", date |-> left.date, marginal |-> rows,
                   positives |-> {drawn[i] : i \in DOMAIN drawn}]
  BY DEF DrawBatch
<1>4. PUSample(selected, labels, left.date).positives \subseteq VisibleLabels(labels, left.date)
  BY DEF PUSample
<1>5. use'.kind = "batch" /\ use'.date = left.date
      /\ use'.positives \subseteq VisibleLabels(labels, left.date)
  BY <1>3, <1>4
<1>6. left' \in [date : Nat, accounts : SUBSET Accounts, steps : Nat]
  <2>1. left \in [date : Nat, accounts : SUBSET Accounts, steps : Nat]
    BY DEF IInv, UseOK
  <2>2. left' = [date |-> left.date, accounts |-> left.accounts \ rows, steps |-> left.steps + 1]
    BY <1>3, <2>1
  <2>3. QED
    BY <2>1, <2>2
<1>7. UseOK' /\ AuditOK'
  <2>1. left.date \in Nat
    BY DEF IInv, UseOK
  <2>2. QED
    BY <1>1, <1>5, <1>6, <2>1 DEF UseOK, AuditOK
<1>8. QED
  BY <1>2, <1>7 DEF IInv

\* Proxy metrics: the known mules of the sample are those its date sees.
LEMMA EvaluateInv == IInv /\ Evaluate => IInv'
<1> SUFFICES ASSUME IInv, Evaluate PROVE IInv'
  OBVIOUS
<1>1. /\ UNCHANGED <<inputs, found, round, labels, phase, next, selected>>
      /\ phase = "trained" /\ left' = NoDate
  BY DEF Evaluate, revealVars
<1>2. Settled'
  BY <1>1, SettledSame DEF IInv
<1>3. PICK p \in {2, 3} : \E d \in dates[p] : \E rows :
        use' = [kind |-> "proxy", date |-> d, marginal |-> rows,
                positives |-> EvaluationSample(selected, labels, p, d).known]
  BY DEF Evaluate
<1>4. PICK d \in dates[p] : \E rows :
        use' = [kind |-> "proxy", date |-> d, marginal |-> rows,
                positives |-> EvaluationSample(selected, labels, p, d).known]
  BY <1>3
<1>5. EvaluationSample(selected, labels, p, d).known \subseteq VisibleLabels(labels, d)
  BY DEF EvaluationSample
<1>6. d \in Nat
  BY DateIs DEF IInv, Settled, InputsOK, Phases
<1>7. /\ use'.kind = "proxy" /\ use'.date \in Nat
      /\ use'.positives \subseteq VisibleLabels(labels, use'.date)
  BY <1>4, <1>5, <1>6
<1>8. UseOK' /\ AuditOK'
  BY <1>1, <1>7 DEF UseOK, AuditOK, NoDate
<1>9. QED
  BY <1>2, <1>8 DEF IInv
\* The latest cutoff of a split is one of its cutoffs.
LEMMA LatestIs ==
    ASSUME InputsOK, NEW p \in Phases
    PROVE  Latest(p) \in Nat /\ Latest(p) \in dates[p]
<1>1. dates[p] \in SUBSET Nat /\ dates[p] # {} /\ IsFiniteSet(dates[p])
  BY DateIs DEF InputsOK
<1>2. QED
  BY <1>1, MaxGreatest DEF Latest

\* An audit of a split.
LEMMA AuditInv == IInv /\ (\E p \in {2, 3} : Audit(p)) => IInv'
<1> SUFFICES ASSUME IInv, NEW p \in {2, 3}, Audit(p) PROVE IInv'
  OBVIOUS
<1> DEFINE population == AuditPopulation(p)
           revealed == VisibleLabels(labels, Latest(p))
           negatives == population \ graph.mules
<1>1. /\ UNCHANGED <<inputs, found, round, labels, phase, next, selected>>
      /\ phase = "trained" /\ left' = NoDate
  BY DEF Audit, revealVars
<1>2. Settled'
  BY <1>1, SettledSame DEF IInv
<1>3. PICK drawn \in kSubset(Drawn(negatives), negatives) :
        LET sample == (population \cap graph.mules) \cup drawn
        IN \E score \in [sample -> Scores] :
             use' = [kind |-> "audit", date |-> Latest(p),
                     positives |-> sample \cap revealed,
                     rows |-> [a \in sample |->
                                 [mule |-> a \in graph.mules, revealed |-> a \in revealed,
                                  score |-> score[a],
                                  weight |-> Weight(negatives, a \in graph.mules)]]]
  BY DEF Audit
<1> DEFINE sample == (population \cap graph.mules) \cup drawn
<1>4. PICK score \in [sample -> Scores] :
        use' = [kind |-> "audit", date |-> Latest(p),
                positives |-> sample \cap revealed,
                rows |-> [a \in sample |->
                            [mule |-> a \in graph.mules, revealed |-> a \in revealed,
                             score |-> score[a],
                             weight |-> Weight(negatives, a \in graph.mules)]]]
  BY <1>3
<1>5. drawn \subseteq negatives /\ Cardinality(drawn) = Drawn(negatives)
  BY DEF kSubset
<1>6. graph' = graph /\ dates' = dates /\ labels' = labels
  BY <1>1 DEF inputs
<1>7. AuditPopulation(p)' = population /\ Latest(p)' = Latest(p)
  BY <1>6 DEF AuditPopulation, Latest
<1> HIDE DEF population, revealed, negatives, sample
<1>8. /\ use'.kind = "audit" /\ use'.date = Latest(p) /\ use'.positives \subseteq revealed
      /\ DOMAIN use'.rows = sample
      /\ \A a \in sample : use'.rows[a] =
            [mule |-> a \in graph.mules, revealed |-> a \in revealed,
             score |-> score[a], weight |-> Weight(negatives, a \in graph.mules)]
  BY <1>4
<1>9. UseOK'
  <2>1. Latest(p) \in Nat
    BY LatestIs DEF IInv, Settled, InputsOK, Phases
  <2>2. QED
    BY <1>1, <1>6, <1>8, <2>1 DEF UseOK, NoDate, revealed
<1>10. IsAudit(p, drawn)'
  <2>1. \A a \in sample : /\ use'.rows[a].mule = (a \in graph.mules)
                          /\ use'.rows[a].revealed = (a \in revealed)
                          /\ use'.rows[a].weight = Weight(negatives, a \in graph.mules)
    <3>1. SUFFICES ASSUME NEW a \in sample
                   PROVE  /\ use'.rows[a].mule = (a \in graph.mules)
                          /\ use'.rows[a].revealed = (a \in revealed)
                          /\ use'.rows[a].weight = Weight(negatives, a \in graph.mules)
      OBVIOUS
    <3> DEFINE mule == a \in graph.mules
               known == a \in revealed
               weight == Weight(negatives, a \in graph.mules)
    <3>2. use'.rows[a] = [mule |-> mule, revealed |-> known, score |-> score[a],
                          weight |-> weight]
      BY <1>8
    <3> HIDE DEF mule, known, weight
    <3>3. use'.rows[a].mule = mule /\ use'.rows[a].revealed = known /\ use'.rows[a].weight = weight
      BY <3>2
    <3>4. QED
      BY <3>3, Zenon DEF mule, known, weight
  <2>2. QED
    BY <1>5, <1>6, <1>7, <1>8, <2>1 DEF IsAudit, population, revealed, negatives, sample
<1>11. QED
  BY <1>2, <1>9, <1>10 DEF IInv, AuditOK

\* A step that changes nothing.
LEMMA StutterInv == IInv /\ UNCHANGED flowVars => IInv'
<1> SUFFICES ASSUME IInv, UNCHANGED flowVars PROVE IInv'
  OBVIOUS
<1>1. /\ UNCHANGED <<inputs, found, round, labels, phase, next, selected>>
      /\ graph' = graph /\ dates' = dates /\ labels' = labels /\ left' = left /\ use' = use
      /\ phase' = phase
  BY DEF flowVars, inputs
<1>2. Settled'
  BY <1>1, SettledSame DEF IInv
<1>3. UseOK'
  BY <1>1 DEF IInv, UseOK
<1>4. AuditOK'
  <2>1. ASSUME NEW p \in {2, 3}, NEW drawn PROVE IsAudit(p, drawn)' = IsAudit(p, drawn)
    BY <1>1 DEF IsAudit, AuditPopulation, Latest
  <2>2. QED
    BY <1>1, <2>1 DEF IInv, AuditOK
<1>5. QED
  BY <1>2, <1>3, <1>4 DEF IInv

\* Every step keeps the inductive invariant.
LEMMA NextInv == IInv /\ [Next]_flowVars => IInv'
BY TraceInv, RevealInv, ReadAccountInv, TakeSamplesInv, StartDateInv, DrawBatchInv,
   EvaluateInv, AuditInv, StutterInv DEF Next

\* The invariant holds in every reachable state.
LEMMA InvCorrect == Spec => []IInv
BY InitInv, NextInv, PTL DEF Spec
-------------------------------------------------------------------------------
(* The theorems. *)

\* The labels written are labels.
LEMMA LabelsType ==
    ASSUME IInv
    PROVE  labels \in [Accounts -> [positive : BOOLEAN, from : Nat]]
<1>1. graph \in Graphs /\ Sound(graph, found)
  BY DEF IInv, Settled, InputsOK, FoundOK
<1>2. CASE phase = "unrevealed"
  <2>1. labels = Unlabeled
    BY <1>2 DEF IInv, Settled, LabelsOK
  <2>2. Unlabeled \in [Accounts -> [positive : BOOLEAN, from : Nat]]
    BY DEF Unlabeled
  <2>3. QED
    BY <2>1, <2>2
<1>3. CASE phase # "unrevealed"
  <2>1. labels = Labels(graph, found, Cutoffs)
    BY <1>3 DEF IInv, Settled, LabelsOK
  <2>2. labels = [a \in Accounts |-> labels[a]]
    BY <2>1 DEF Labels
  <2>3. \A a \in Accounts : labels[a] \in [positive : BOOLEAN, from : Nat]
    BY <1>1, <2>1, Labelled
  <2> HIDE <2>1
  <2>4. QED
    BY <2>2, <2>3
<1>4. QED
  BY <1>2, <1>3

\* Every variable of the way of the labels keeps its type.
THEOREM FlowTypeCorrect == Spec => []FlowTypeOK
<1>1. IInv => FlowTypeOK
  <2> SUFFICES ASSUME IInv PROVE FlowTypeOK
    OBVIOUS
  <2>1. selected \in [heap : [Phases -> SUBSET Accounts], pool : SUBSET Accounts]
    <3>1. next - 1 \in 0..N /\ selected = Selecting(labels)[next - 1]
      BY Numbered DEF IInv, Settled, SelectedOK
    <3>2. QED
      BY <3>1, SelectedType
  <2>2. left.accounts \subseteq Accounts /\ use.kind \in {"none", "batch", "proxy", "audit"}
    BY DEF IInv, UseOK
  <2>3. /\ found \in [graph.mules -> [t : Nat,
                              channel : {"victim_report", "monitoring", "network_trace"}]]
        /\ round \in 0..Rounds /\ phase \in {"unrevealed", "reading", "trained", "refused"}
    BY DEF IInv, Settled, FoundOK, LabelsOK, Sound, Discoveries
  <2>4. QED
    BY <2>1, <2>2, <2>3, LabelsType DEF FlowTypeOK
<1>2. QED
  BY <1>1, InvCorrect, PTL

\* What a batch, an evaluation sample or an audit takes for a known mule is one, was
\* discovered before its cutoff or the data ended before it, and has a cause.
THEOREM LabelsCorrect == Spec => []LabelsFromThePast
<1>1. IInv => LabelsFromThePast
  <2> SUFFICES ASSUME IInv, use.kind # "none", NEW a \in use.positives
               PROVE  /\ a \in graph.mules
                      /\ Min({found[a].t, graph.end}) < use.date
                      /\ Grounded(graph, found, a)
    BY DEF LabelsFromThePast
  <2>1. /\ a \in Accounts /\ labels[a].positive /\ labels[a].from < use.date
        /\ phase = "trained" /\ use.date \in Nat
    BY DEF IInv, UseOK, VisibleLabels
  <2>2. /\ labels = Labels(graph, found, Cutoffs) /\ Sound(graph, found) /\ graph \in Graphs
    BY <2>1 DEF IInv, Settled, InputsOK, FoundOK, LabelsOK
  <2>3. /\ a \in graph.mules /\ labels[a].from \in Nat
        /\ Min({found[a].t, graph.end}) <= labels[a].from
    BY <2>1, <2>2, Labelled
  <2>4. Min({found[a].t, graph.end}) \in Nat
    <3>1. found[a].t \in Nat /\ graph.end \in Nat
      BY <2>2, <2>3, GraphIs DEF Sound, Discoveries
    <3>2. {found[a].t, graph.end} \in SUBSET Nat /\ {found[a].t, graph.end} # {}
      BY <3>1
    <3>3. QED
      BY <3>2, MinLeast
  <2>5. Grounded(graph, found, a)
    BY <2>2, <2>3 DEF Sound
  <2>6. QED
    BY <2>1, <2>3, <2>4, <2>5
<1>2. QED
  BY <1>1, InvCorrect, PTL

\* No label revealed at or after a cutoff changes what the cutoff sees.
THEOREM FutureCorrect == Spec => []FutureLabelsUnseen
<1>1. IInv => FutureLabelsUnseen
  <2> SUFFICES ASSUME IInv, next \notin Accounts PROVE FutureLabelsUnseen
    BY DEF FutureLabelsUnseen
  <2>1. selected = Selecting(labels)[N]
    <3>1. next = N + 1 /\ (N + 1) - 1 = N
      BY Numbered DEF IInv, Settled, SelectedOK
    <3>2. QED
      BY <3>1 DEF IInv, Settled, SelectedOK
  <2>2. QED
    BY <2>1, SameSamples DEF FutureLabelsUnseen
<1>2. QED
  BY <1>1, InvCorrect, PTL
-------------------------------------------------------------------------------
(* The weights of an audit. *)

\* A sum takes the rows one by one, in some order.
Sums(rows, f) ==
    f = [s \in SUBSET DOMAIN rows |->
            IF s = {} THEN 0
            ELSE LET x == CHOOSE x \in s : TRUE
                 IN rows[x].weight + f[s \ {x}]]

\* The sum of the weights is the value of such a function at all rows.
LEMMA WeightsIs ==
    ASSUME NEW rows
    PROVE  Weights(rows) = (CHOOSE f : Sums(rows, f))[DOMAIN rows]
BY DEF Weights, MapThenSumSet, MapThenFoldSet, Sums
\* Taking one of c out of u * c leaves u * (c - 1).
LEMMA OneLess ==
    ASSUME NEW u \in Nat, NEW c \in Nat \ {0}
    PROVE  u * c = u + u * (c - 1) /\ u * c \in Nat /\ u * (c - 1) \in Nat
<1>1. PICK d \in Nat : c = d + 1 /\ d = c - 1
  OBVIOUS
<1>2. u * (d + 1) = u + u * d
  BY Z3
<1>3. u * d \in Nat
  OBVIOUS
<1>4. QED
  BY <1>1, <1>2, <1>3

\* The weights of rows of two kinds: of those in M each weighs u, of the others v.
LEMMA Weighed ==
    ASSUME NEW rows, IsFiniteSet(DOMAIN rows), NEW M, NEW u \in Nat, NEW v \in Nat,
           \A a \in DOMAIN rows : rows[a].weight = IF a \in M THEN u ELSE v
    PROVE  Weights(rows) = u * Cardinality(DOMAIN rows \cap M) + v * Cardinality(DOMAIN rows \ M)
<1> DEFINE R == DOMAIN rows
           Total(s) == u * Cardinality(s \cap M) + v * Cardinality(s \ M)
           Pick(s) == CHOOSE x \in s : TRUE
           total == [s \in SUBSET R |-> Total(s)]
<1>1. ASSUME NEW s \in SUBSET R
      PROVE  /\ IsFiniteSet(s) /\ Cardinality(s) \in Nat
             /\ IsFiniteSet(s \cap M) /\ Cardinality(s \cap M) \in Nat
             /\ IsFiniteSet(s \ M) /\ Cardinality(s \ M) \in Nat
  <2>1. s \cap M \in SUBSET R /\ s \ M \in SUBSET R
    OBVIOUS
  <2>2. IsFiniteSet(s) /\ IsFiniteSet(s \cap M) /\ IsFiniteSet(s \ M)
    BY <2>1, FS_Subset
  <2>3. QED
    BY <2>2, FS_CardinalityType
<1>2. Total({}) = 0
  <2>1. {} \cap M = {} /\ {} \ M = {} /\ Cardinality({}) = 0
    BY FS_EmptySet
  <2>2. u * 0 = 0 /\ v * 0 = 0
    OBVIOUS
  <2>3. QED
    BY <2>1, <2>2
<1>3. ASSUME NEW s \in SUBSET R, NEW x \in s
      PROVE  Total(s) = rows[x].weight + Total(s \ {x})
  <2> DEFINE in == Cardinality(s \cap M)
             out == Cardinality(s \ M)
  <2>1. in \in Nat /\ out \in Nat /\ IsFiniteSet(s \cap M) /\ IsFiniteSet(s \ M)
    BY <1>1
  <2>2. CASE x \in M
    <3>1. (s \ {x}) \cap M = (s \cap M) \ {x} /\ (s \ {x}) \ M = s \ M /\ x \in s \cap M
      BY <2>2
    <3>2. Cardinality((s \ {x}) \cap M) = in - 1
      <4>1. Cardinality((s \cap M) \ {x}) = in - 1
        BY <2>1, <3>1, FS_RemoveElement
      <4>2. QED
        BY <3>1, <4>1
    <3>3. in # 0
      BY <2>1, <3>1, FS_EmptySet
    <3>4. rows[x].weight = u
      BY <1>3, <2>2
    <3> HIDE DEF in, out
    <3>5. u * in = u + u * (in - 1) /\ u * in \in Nat /\ u * (in - 1) \in Nat
      BY <2>1, <3>3, OneLess
    <3>6. v * out \in Nat
      BY <2>1
    <3>7. Total(s) = u * in + v * out /\ Total(s \ {x}) = u * (in - 1) + v * out
      BY <3>1, <3>2 DEF in, out
    <3> HIDE DEF Total
    <3>8. QED
      BY <3>4, <3>5, <3>6, <3>7
  <2>3. CASE x \notin M
    <3>1. (s \ {x}) \cap M = s \cap M /\ (s \ {x}) \ M = (s \ M) \ {x} /\ x \in s \ M
      BY <2>3
    <3>2. Cardinality((s \ {x}) \ M) = out - 1
      BY <2>1, <3>1, FS_RemoveElement
    <3>3. out # 0
      BY <2>1, <3>1, FS_EmptySet
    <3>4. rows[x].weight = v
      BY <1>3, <2>3
    <3> HIDE DEF in, out
    <3>5. v * out = v + v * (out - 1) /\ v * out \in Nat /\ v * (out - 1) \in Nat
      BY <2>1, <3>3, OneLess
    <3>6. u * in \in Nat
      BY <2>1
    <3>7. Total(s) = u * in + v * out /\ Total(s \ {x}) = u * in + v * (out - 1)
      BY <3>1, <3>2 DEF in, out
    <3> HIDE DEF Total
    <3>8. QED
      BY <3>4, <3>5, <3>6, <3>7
  <2>4. QED
    BY <2>2, <2>3
<1> HIDE DEF Total
<1>4. \A s \in SUBSET R : s # {} => Pick(s) \in s
  OBVIOUS
<1>5. Sums(rows, total)
  <2>1. \A s \in SUBSET R : total[s] = IF s = {} THEN 0
                                       ELSE rows[Pick(s)].weight + total[s \ {Pick(s)}]
    <3> HIDE DEF Pick
    <3>1. QED
      BY <1>2, <1>3, <1>4
  <2>2. total = [s \in SUBSET R |-> total[s]]
    OBVIOUS
  <2> HIDE DEF total
  <2>3. QED
    BY <2>1, <2>2 DEF Sums
<1>6. PICK f : f = (CHOOSE g : Sums(rows, g)) /\ Sums(rows, f)
  BY <1>5
<1>7. \A s \in SUBSET R : f[s] = IF s = {} THEN 0
                                 ELSE rows[Pick(s)].weight + f[s \ {Pick(s)}]
  BY <1>6 DEF Sums
<1> HIDE DEF Pick, total
<1>8. \A s \in SUBSET R : f[s] = Total(s)
  <2> DEFINE Wrong == {s \in SUBSET R : f[s] # Total(s)}
             Sizes == {Cardinality(s) : s \in Wrong}
  <2>1. SUFFICES ASSUME Wrong # {} PROVE FALSE
    OBVIOUS
  <2>2. Sizes \in SUBSET Nat /\ Sizes # {}
    BY <1>1, <2>1
  <2>3. PICK c \in Sizes : \A d \in Sizes : c <= d
    <3> HIDE DEF Sizes
    <3>1. QED
      BY <2>2, LeastNatural
  <2>4. PICK s \in Wrong : \A w \in Wrong : Cardinality(s) <= Cardinality(w)
    BY <2>3
  <2>5. s # {}
    BY <1>2, <1>7
  <2>6. Pick(s) \in s /\ s \ {Pick(s)} \in SUBSET R /\ s \in SUBSET R
    BY <1>4, <2>5
  <2>7. f[s \ {Pick(s)}] = Total(s \ {Pick(s)})
    <3>1. IsFiniteSet(s) /\ Cardinality(s) \in Nat
      BY <1>1, <2>6
    <3>2. Cardinality(s \ {Pick(s)}) = Cardinality(s) - 1
      BY <2>6, <3>1, FS_RemoveElement
    <3>3. s \ {Pick(s)} \notin Wrong
      BY <2>4, <3>1, <3>2
    <3>4. QED
      BY <2>6, <3>3
  <2>8. f[s] = Total(s)
    BY <1>3, <1>7, <2>5, <2>6, <2>7
  <2>9. QED
    BY <2>4, <2>8
<1>9. Weights(rows) = Total(R)
  BY <1>6, <1>8, WeightsIs
<1>10. QED
  BY <1>9 DEF Total
\* The units of the drawn non-mules are those of all non-mules.
LEMMA DrawnWeigh ==
    ASSUME NEW negatives, IsFiniteSet(negatives), NEW drawn,
           Cardinality(drawn) = Drawn(negatives)
    PROVE  /\ Unit(negatives) \in Nat /\ BudgetShare * Cardinality(negatives) \in Nat
           /\ (BudgetShare * Cardinality(negatives)) * Cardinality(drawn)
                = Unit(negatives) * Cardinality(negatives)
<1>1. PICK n \in Nat : n = Cardinality(negatives)
  BY FS_CardinalityType
<1>2. BudgetShare \in Nat \ {0} /\ Negatives \in Nat \ {0}
  BY AuditAssumption DEF AuditAssumption
<1>3. PICK d \in Nat : d = Drawn(negatives) /\ (n = 0 => d = 0) /\ (n # 0 => d # 0)
  <2>1. n \in Int /\ Negatives \in Int
    BY <1>2
  <2>2. Drawn(negatives) = IF n <= Negatives THEN n ELSE Negatives
    BY <1>1, <2>1, OfTwo, Zenon DEF Drawn
  <2>3. QED
    BY <1>2, <2>2
<1>4. PICK k \in Nat : k = Max({d, 1}) /\ (d # 0 => k = d)
  <2>1. d \in Int /\ 1 \in Int
    OBVIOUS
  <2>2. Max({d, 1}) = IF d >= 1 THEN d ELSE 1
    BY <2>1, OfTwo, Zenon
  <2>3. QED
    BY <2>2
<1>5. Unit(negatives) = BudgetShare * k
  BY <1>3, <1>4 DEF Unit
<1>6. PICK b \in Nat : b = BudgetShare
  BY <1>2
<1>7. b * k \in Nat /\ b * n \in Nat
  OBVIOUS
<1>8. (b * n) * d = (b * k) * n
  <2>1. CASE n = 0
    <3>1. b * 0 = 0 /\ 0 * d = 0 /\ (b * k) * 0 = 0
      BY <1>7
    <3>2. QED
      BY <2>1, <3>1
  <2>2. CASE n # 0
    <3>1. k = d
      BY <1>3, <1>4, <2>2
    <3>2. (b * n) * d = (b * d) * n
      BY Z3
    <3>3. QED
      BY <3>1, <3>2
  <2>3. QED
    BY <2>1, <2>2
<1>9. QED
  BY <1>1, <1>3, <1>5, <1>6, <1>7, <1>8
\* Rows of the mules of a population and of drawn others weigh what the population counts.
LEMMA Represents ==
    ASSUME NEW rows, NEW population, IsFiniteSet(population), NEW mules, NEW drawn,
           drawn \subseteq population \ mules,
           Cardinality(drawn) = Drawn(population \ mules),
           DOMAIN rows = (population \cap mules) \cup drawn,
           \A a \in DOMAIN rows : rows[a].weight = Weight(population \ mules, a \in mules)
    PROVE  Weights(rows) = Unit(population \ mules) * Cardinality(population)
<1> DEFINE others == population \ mules
           unit == Unit(others)
           share == BudgetShare * Cardinality(others)
           known == Cardinality(population \cap mules)
<1>1. /\ IsFiniteSet(others) /\ IsFiniteSet(DOMAIN rows)
      /\ Cardinality(others) \in Nat /\ known \in Nat /\ Cardinality(drawn) \in Nat
  <2>1. DOMAIN rows \in SUBSET population /\ others \in SUBSET population
        /\ population \cap mules \in SUBSET population /\ drawn \in SUBSET population
    OBVIOUS
  <2>2. QED
    BY <2>1, FS_Subset, FS_CardinalityType
<1>2. /\ unit \in Nat /\ share \in Nat
      /\ share * Cardinality(drawn) = unit * Cardinality(others)
  BY <1>1, DrawnWeigh
<1>3. \A a \in DOMAIN rows : rows[a].weight = IF a \in mules THEN unit ELSE share
  BY DEF Weight
<1>4. DOMAIN rows \cap mules = population \cap mules /\ DOMAIN rows \ mules = drawn
  OBVIOUS
<1>5. Cardinality(population) = known + Cardinality(others)
  <2>1. Cardinality(others) = Cardinality(population) - known
    BY FS_Difference
  <2>2. Cardinality(population) \in Nat
    BY FS_CardinalityType
  <2> HIDE DEF others, known
  <2>3. QED
    BY <1>1, <2>1, <2>2
<1> HIDE DEF unit, share, others
<1>6. Weights(rows) = unit * known + share * Cardinality(drawn)
  BY <1>1, <1>2, <1>3, <1>4, Weighed
<1>7. unit * (known + Cardinality(others)) = unit * known + unit * Cardinality(others)
  <2>1. PICK u \in Nat, k \in Nat, c \in Nat : u = unit /\ k = known /\ c = Cardinality(others)
    BY <1>1, <1>2
  <2>2. u * (k + c) = u * k + u * c
    BY Z3
  <2>3. QED
    BY <2>1, <2>2
<1>8. QED
  BY <1>2, <1>5, <1>6, <1>7 DEF unit, others

\* The rows of an audit stand for its population, and the hidden ones for the population
\* without the mules known at its cutoff, which are those the samples call known then.
THEOREM HiddenCorrect == Spec => []HiddenPopulation
<1>1. IInv => HiddenPopulation
  <2> SUFFICES ASSUME IInv, use.kind = "audit" PROVE HiddenPopulation
    BY DEF HiddenPopulation
  <2>1. PICK p \in {2, 3} : \E drawn : IsAudit(p, drawn)
    BY DEF IInv, AuditOK
  <2>2. PICK drawn : IsAudit(p, drawn)
    BY <2>1
  <2>3. InputsOK /\ p \in Phases
    BY DEF IInv, Settled, Phases
  <2>4. (CHOOSE q \in {2, 3} : Latest(q) = use.date) = p
    <3>1. \A q, r \in Phases : q < r => Latest(q) < Latest(r)
      <4>1. \A q, r \in Phases : q < r => \A c \in dates[q], e \in dates[r] : c < e
        BY <2>3, InputAssumption DEF InputsOK, InputAssumption
      <4>2. QED
        BY <2>3, <4>1, LatestIs
    <3>2. Latest(2) < Latest(3) /\ Latest(2) \in Nat /\ Latest(3) \in Nat
      BY <2>3, <3>1, LatestIs DEF Phases
    <3>3. Latest(p) = use.date
      BY <2>2 DEF IsAudit
    <3>4. \A q \in {2, 3} : Latest(q) = use.date => q = p
      BY <3>2, <3>3
    <3>5. QED
      BY <3>3, <3>4
  <2> DEFINE population == AuditPopulation(p)
             seen == VisibleLabels(labels, Latest(p))
             unknown == population \ seen
             mules == graph.mules
  <2>5. /\ drawn \subseteq population \ mules /\ Cardinality(drawn) = Drawn(population \ mules)
        /\ use.date = Latest(p) /\ DOMAIN use.rows = (population \cap mules) \cup drawn
        /\ \A a \in DOMAIN use.rows :
             /\ use.rows[a].revealed = (a \in seen)
             /\ use.rows[a].weight = Weight(population \ mules, a \in mules)
    BY <2>2 DEF IsAudit
  <2>6. seen \subseteq mules
    <3>1. phase = "trained"
      BY DEF IInv, UseOK
    <3>2. labels = Labels(graph, found, Cutoffs) /\ Sound(graph, found) /\ graph \in Graphs
      BY <3>1 DEF IInv, Settled, InputsOK, FoundOK, LabelsOK
    <3>3. \A a \in seen : a \in Accounts /\ labels[a].positive
      BY DEF VisibleLabels
    <3>4. QED
      BY <3>2, <3>3, Labelled
  <2>7. IsFiniteSet(population) /\ IsFiniteSet(unknown)
    <3>1. population \in SUBSET Accounts /\ unknown \in SUBSET Accounts
      BY DEF AuditPopulation
    <3>2. QED
      BY <3>1, Numbered, FS_Subset
  <2> HIDE DEF population, seen
  <2>8. Weights(use.rows) = Unit(population \ mules) * Cardinality(population)
    <3>1. \A a \in DOMAIN use.rows :
            use.rows[a].weight = Weight(population \ mules, a \in mules)
      BY <2>5
    <3> DEFINE rows == use.rows
    <3>2. /\ DOMAIN rows = (population \cap mules) \cup drawn
          /\ \A a \in DOMAIN rows : rows[a].weight = Weight(population \ mules, a \in mules)
      BY <2>5, <3>1
    <3>3. drawn \subseteq population \ mules /\ Cardinality(drawn) = Drawn(population \ mules)
      BY <2>5
    <3> HIDE DEF rows, mules
    <3>4. Weights(rows) = Unit(population \ mules) * Cardinality(population)
      BY <2>7, <3>2, <3>3, Represents
    <3>5. QED
      BY <3>4 DEF rows
  <2>9. /\ DOMAIN HiddenRows(use.rows) = (unknown \cap mules) \cup drawn
        /\ \A a \in DOMAIN HiddenRows(use.rows) : HiddenRows(use.rows)[a] = use.rows[a]
    <3>1. HiddenRows(use.rows) = [a \in {a \in DOMAIN use.rows : ~use.rows[a].revealed}
                                    |-> use.rows[a]]
      BY DEF HiddenRows, Subrows
    <3>2. {a \in DOMAIN use.rows : ~use.rows[a].revealed} = (unknown \cap mules) \cup drawn
      BY <2>5, <2>6
    <3>3. QED
      BY <3>1, <3>2
  <2>10. unknown \ mules = population \ mules
    BY <2>6
  <2>11. Weights(HiddenRows(use.rows)) = Unit(population \ mules) * Cardinality(unknown)
    <3>1. DOMAIN HiddenRows(use.rows) \subseteq DOMAIN use.rows
      BY <2>5, <2>9
    <3>2. \A a \in DOMAIN HiddenRows(use.rows) :
            HiddenRows(use.rows)[a].weight = Weight(unknown \ mules, a \in mules)
      BY <2>5, <2>9, <2>10, <3>1
    <3> DEFINE rows == HiddenRows(use.rows)
    <3>3. /\ DOMAIN rows = (unknown \cap mules) \cup drawn
          /\ \A a \in DOMAIN rows : rows[a].weight = Weight(unknown \ mules, a \in mules)
      BY <2>9, <3>2
    <3>4. drawn \subseteq unknown \ mules /\ Cardinality(drawn) = Drawn(unknown \ mules)
      BY <2>5, <2>10
    <3> HIDE DEF rows, mules, unknown
    <3>5. Weights(rows) = Unit(unknown \ mules) * Cardinality(unknown)
      BY <2>7, <3>3, <3>4, Represents
    <3>6. QED
      BY <2>10, <3>5 DEF rows
  <2>12. DOMAIN HiddenRows(use.rows)
           \cap EvaluationSample(selected, labels, p, use.date).known = {}
    <3>1. EvaluationSample(selected, labels, p, use.date).known \subseteq seen
      BY <2>5 DEF EvaluationSample, seen
    <3>2. QED
      BY <2>5, <2>6, <2>9, <3>1
  <2>13. population \cap mules \subseteq DOMAIN HiddenRows(use.rows) \cup (population \cap seen)
    BY <2>9
  <2>14. population \ (population \cap seen) = unknown
    OBVIOUS
  <2>15. QED
    BY <2>4, <2>5, <2>8, <2>11, <2>12, <2>13, <2>14 DEF HiddenPopulation, population, seen
<1>2. QED
  BY <1>1, InvCorrect, PTL
=============================================================================
