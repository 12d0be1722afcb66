------------------------- MODULE BatchAssembly_proof -------------------------
(***************************************************************************)
(* Proofs about the assembly of a batch, for every graph, registry, pools, *)
(* fan-outs and behaviour of the library: which contexts are stubs, whose  *)
(* history is withheld, and that no other one fails for its capacity.      *)
(***************************************************************************)
EXTENDS BatchAssembly, FiniteSetTheorems, SequenceTheorems, WellFoundedInduction, TLAPS

-------------------------------------------------------------------------------
(* Least and greatest numbers. *)

\* A set of naturals that is not empty has a least one.
LEMMA LeastNatural ==
    ASSUME NEW S \in SUBSET Nat, S # {}
    PROVE  \E m \in S : \A k \in S : m <= k
<1> DEFINE T == {0..k : k \in S}
<1>1. T \subseteq FiniteSubsetsOf(Nat)
  <2>1. \A k \in Nat : IsFiniteSet(0..k)
    BY FS_Interval
  <2>2. QED
    BY <2>1 DEF FiniteSubsetsOf
<1>2. PICK x \in T : \A y \in T : <<y, x>> \notin StrictSubsetOrdering(Nat)
  <2>1. IsWellFoundedOn(StrictSubsetOrdering(Nat), FiniteSubsetsOf(Nat))
    BY FS_StrictSubsetOrderingWellFounded
  <2>2. T # {}
    OBVIOUS
  <2> HIDE DEF T
  <2>3. QED
    BY <1>1, <2>1, <2>2, WFMin
<1>3. PICK m \in S : x = 0..m
  OBVIOUS
<1>4. ASSUME NEW k \in S, k < m PROVE FALSE
  <2>1. /\ 0..k \subseteq 0..m /\ m \in 0..m /\ m \notin 0..k
        /\ 0..k \in SUBSET Nat /\ x \in SUBSET Nat
    BY <1>3, <1>4
  <2>2. <<0..k, x>> \in StrictSubsetOrdering(Nat)
    BY <1>3, <2>1 DEF StrictSubsetOrdering
  <2>3. QED
    BY <1>2, <2>2
<1>5. QED
  BY <1>4

\* What holds of 0 and passes from each number to the next holds up to n.
LEMMA UpTo ==
    ASSUME NEW n \in Nat, NEW S, 0 \in S, \A k \in 0..(n - 1) : k \in S => k + 1 \in S
    PROVE  0..n \subseteq S
<1> DEFINE Missing == (0..n) \ S
<1>1. SUFFICES ASSUME Missing # {} PROVE FALSE
  OBVIOUS
<1>2. PICK m \in Missing : \A k \in Missing : m <= k
  <2>1. Missing \in SUBSET Nat
    OBVIOUS
  <2> HIDE DEF Missing
  <2>2. QED
    BY <1>1, <2>1, LeastNatural
<1>3. m # 0 /\ m - 1 \in 0..(n - 1) /\ m - 1 \notin Missing /\ (m - 1) + 1 = m
  BY <1>2
<1>4. QED
  BY <1>2, <1>3

\* Min is the least of any naturals.
LEMMA MinLeast ==
    ASSUME NEW S \in SUBSET Nat, S # {}
    PROVE  Min(S) \in S /\ \A k \in S : Min(S) <= k
BY LeastNatural DEF Min

\* Max is the greatest of finitely many.
LEMMA MaxGreatest ==
    ASSUME NEW S \in SUBSET Nat, S # {}, IsFiniteSet(S)
    PROVE  Max(S) \in S /\ \A k \in S : k <= Max(S)
<1> DEFINE From(m) == {k \in S : m <= k}
           Sizes == {Cardinality(From(m)) : m \in S}
<1>1. \A m \in S : IsFiniteSet(From(m)) /\ Cardinality(From(m)) \in Nat
  <2>1. \A m \in S : From(m) \in SUBSET S
    OBVIOUS
  <2> HIDE DEF From
  <2>2. QED
    BY <2>1, FS_Subset, FS_CardinalityType
<1>2. PICK m \in S : \A k \in S : Cardinality(From(m)) <= Cardinality(From(k))
  <2>1. Sizes \in SUBSET Nat /\ Sizes # {}
    BY <1>1
  <2>2. PICK c \in Sizes : \A d \in Sizes : c <= d
    <3> HIDE DEF Sizes
    <3>1. QED
      BY <2>1, LeastNatural
  <2> HIDE DEF From
  <2>3. QED
    BY <2>2
<1>3. ASSUME NEW k \in S, m < k PROVE FALSE
  <2>1. From(k) \in SUBSET From(m) /\ m \in From(m) /\ m \notin From(k)
    <3>1. m \in Nat /\ k \in Nat /\ m \in S
      BY <1>2
    <3>2. \A x \in S : x \in Nat /\ (k <= x => m <= x)
      BY <1>3, <3>1
    <3>3. From(k) \in SUBSET From(m)
      BY <3>2
    <3>4. m \in From(m) /\ m \notin From(k)
      BY <1>3, <3>1
    <3>5. QED
      BY <3>3, <3>4
  <2> HIDE DEF From
  <2>2. Cardinality(From(k)) <= Cardinality(From(m)) /\ From(k) # From(m)
    BY <1>1, <2>1, FS_Subset
  <2>3. Cardinality(From(k)) # Cardinality(From(m))
    BY <1>1, <2>1, <2>2, FS_Subset
  <2>4. QED
    BY <1>1, <1>2, <2>2, <2>3
<1>4. \A k \in S : k <= m
  BY <1>3
<1>5. QED
  BY <1>4 DEF Max

\* The greater and the smaller of two.
LEMMA OfTwo ==
    ASSUME NEW a \in Int, NEW b \in Int
    PROVE  /\ Max({a, b}) = IF a >= b THEN a ELSE b
           /\ Min({a, b}) = IF a <= b THEN a ELSE b
BY DEF Max, Min
-------------------------------------------------------------------------------
(* Folds.  FoldLeft is the value, at all positions, of a recursive function of sets of     *)
(* positions; the lemmas follow it along the prefixes of the sequence.                     *)

\* What a fold of n elements computes for each set of positions.
Folds(f, n, base, F, s) ==
    f = [d \in SUBSET (1..n) |-> IF d = {} THEN base ELSE F[<<f[d \ {Max(d)}], s[Max(d)]>>]]

\* The greatest of some positions up to k + 1.
LEMMA MaxPosition ==
    ASSUME NEW k \in Nat, NEW d \in SUBSET (1..k + 1)
    PROVE  /\ k + 1 \in d => Max(d) = k + 1 /\ d \ {k + 1} \in SUBSET (1..k)
           /\ k + 1 \notin d => d \in SUBSET (1..k)
           /\ d # {} => Max(d) \in d
<1>1. ASSUME d # {} PROVE Max(d) \in d /\ \A j \in d : j <= Max(d)
  <2>1. IsFiniteSet(d) /\ d \in SUBSET Nat
    <3>1. IsFiniteSet(1..k + 1) /\ d \in SUBSET (1..k + 1) /\ 1..k + 1 \in SUBSET Nat
      BY FS_Interval
    <3>2. QED
      BY <3>1, FS_Subset
  <2>2. QED
    BY <1>1, <2>1, MaxGreatest
<1>2. \A j \in d : j \in Nat /\ j <= k + 1
  OBVIOUS
<1>3. ASSUME k + 1 \in d PROVE Max(d) = k + 1
  <2>1. d # {} /\ Max(d) \in d /\ k + 1 <= Max(d)
    BY <1>1, <1>3
  <2>2. Max(d) \in Nat /\ Max(d) <= k + 1
    BY <1>2, <2>1
  <2> DEFINE m == Max(d)
  <2>3. m \in Nat /\ m <= k + 1 /\ k + 1 <= m
    BY <2>1, <2>2
  <2> HIDE DEF m
  <2>4. m = k + 1
    BY <2>3
  <2>5. QED
    BY <2>4 DEF m
<1>4. \A j \in d : j # k + 1 => j \in 1..k
  OBVIOUS
<1>5. QED
  BY <1>1, <1>3, <1>4

\* A fold exists: that of k elements extends to one of k + 1.
LEMMA FoldExists ==
    ASSUME NEW n \in Nat, NEW base, NEW F, NEW s
    PROVE  \E f : Folds(f, n, base, F, s)
<1> DEFINE S == {k \in 0..n : \E f : Folds(f, k, base, F, s)}
<1>1. 0 \in S
  <2>1. SUBSET (1..0) = {{}}
    OBVIOUS
  <2>2. Folds([d \in SUBSET (1..0) |-> base], 0, base, F, s)
    BY <2>1 DEF Folds
  <2>3. QED
    BY <2>2
<1>2. ASSUME NEW k \in 0..(n - 1), k \in S PROVE k + 1 \in S
  <2>1. PICK f : Folds(f, k, base, F, s)
    BY <1>2
  <2> DEFINE g == [d \in SUBSET (1..k + 1) |->
                     IF k + 1 \in d THEN F[<<f[d \ {k + 1}], s[k + 1]>>] ELSE f[d]]
  <2>2. \A d \in SUBSET (1..k) : g[d] = f[d]
    <3>1. \A d \in SUBSET (1..k) : d \in SUBSET (1..k + 1) /\ k + 1 \notin d
      OBVIOUS
    <3>2. QED
      BY <3>1
  <2>3. ASSUME NEW d \in SUBSET (1..k + 1)
        PROVE  g[d] = IF d = {} THEN base ELSE F[<<g[d \ {Max(d)}], s[Max(d)]>>]
    <3>1. CASE k + 1 \in d
      <4>1. Max(d) = k + 1 /\ d \ {k + 1} \in SUBSET (1..k)
        BY <3>1, MaxPosition
      <4>2. g[d] = F[<<f[d \ {k + 1}], s[k + 1]>>]
        BY <3>1
      <4> HIDE DEF g
      <4>3. QED
        BY <2>2, <3>1, <4>1, <4>2
    <3>2. CASE k + 1 \notin d
      <4>1. d \in SUBSET (1..k) /\ (d # {} => Max(d) \in d)
        BY <3>2, MaxPosition
      <4>2. f[d] = IF d = {} THEN base ELSE F[<<f[d \ {Max(d)}], s[Max(d)]>>]
        BY <2>1, <4>1 DEF Folds
      <4>3. g[d] = f[d] /\ g[d \ {Max(d)}] = f[d \ {Max(d)}]
        <5> HIDE DEF g
        <5>1. QED
          BY <2>2, <4>1
      <4> HIDE DEF g
      <4>4. QED
        BY <4>2, <4>3
    <3>3. QED
      BY <3>1, <3>2
  <2>4. g = [d \in SUBSET (1..k + 1) |-> g[d]]
    OBVIOUS
  <2> HIDE DEF g
  <2>5. Folds(g, k + 1, base, F, s)
    BY <2>3, <2>4 DEF Folds
  <2>6. QED
    BY <2>5
<1> HIDE DEF S
<1>3. 0..n \subseteq S
  BY <1>1, <1>2, UpTo
<1>4. QED
  BY <1>3 DEF S

\* The prefixes of some positions: the last one is the greatest.
LEMMA Prefix ==
    ASSUME NEW n \in Nat, NEW k \in 1..n
    PROVE  /\ 1..k \in SUBSET (1..n) /\ 1..k # {} /\ (1..0) = {}
           /\ Max(1..k) = k /\ (1..k) \ {Max(1..k)} = 1..(k - 1)
<1>1. k - 1 \in Nat /\ (k - 1) + 1 = k /\ 1..k \in SUBSET (1..k)
  OBVIOUS
<1>2. Max(1..k) = k
  <2>1. 1..k \in SUBSET (1..(k - 1) + 1) /\ (k - 1) + 1 \in 1..k
    BY <1>1
  <2>2. QED
    BY <1>1, <2>1, MaxPosition
<1>3. QED
  BY <1>2

\* Values of a fold that stay in a set: from the base on, element after element.
LEMMA FoldStays ==
    ASSUME NEW n \in Nat, NEW A, NEW f, f[{}] \in A,
           \A k \in 1..n : f[1..(k - 1)] \in A => f[1..k] \in A
    PROVE  f[1..n] \in A
<1> DEFINE S == {k \in 0..n : f[1..k] \in A}
<1>1. 0 \in S
  <2>1. (1..0) = {}
    OBVIOUS
  <2>2. QED
    BY <2>1
<1>2. ASSUME NEW k \in 0..(n - 1), k \in S PROVE k + 1 \in S
  <2>1. k + 1 \in 1..n /\ (k + 1) - 1 = k /\ k + 1 \in 0..n
    OBVIOUS
  <2>2. QED
    BY <1>2, <2>1
<1> HIDE DEF S
<1>3. 0..n \subseteq S
  BY <1>1, <1>2, UpTo
<1>4. QED
  BY <1>3 DEF S

\* A step that stays in a set keeps every value of the fold in it.
LEMMA FoldTyped ==
    ASSUME NEW n \in Nat, NEW A, NEW E, NEW base \in A, NEW F \in [A \X E -> A],
           NEW s \in [1..n -> E], NEW f, Folds(f, n, base, F, s)
    PROVE  \A d \in SUBSET (1..n) : f[d] \in A
<1> DEFINE S == {k \in 0..n : \A d \in SUBSET (1..k) : f[d] \in A}
<1>1. \A d \in SUBSET (1..n) : f[d] = IF d = {} THEN base
                                      ELSE F[<<f[d \ {Max(d)}], s[Max(d)]>>]
  BY DEF Folds
<1>2. 0 \in S
  <2>1. SUBSET (1..0) = {{}} /\ {} \in SUBSET (1..n)
    OBVIOUS
  <2>2. f[{}] = base
    BY <1>1, <2>1
  <2>3. \A d \in SUBSET (1..0) : f[d] \in A
    BY <2>1, <2>2
  <2>4. QED
    BY <2>3
<1>3. ASSUME NEW k \in 0..(n - 1), k \in S PROVE k + 1 \in S
  <2>1. ASSUME NEW d \in SUBSET (1..k + 1) PROVE f[d] \in A
    <3>1. CASE k + 1 \in d
      <4>1. Max(d) = k + 1 /\ d \ {k + 1} \in SUBSET (1..k) /\ d # {} /\ k + 1 \in 1..n
        BY <3>1, MaxPosition
      <4>2. f[d \ {k + 1}] \in A /\ s[k + 1] \in E
        BY <1>3, <4>1
      <4>3. d \in SUBSET (1..n)
        OBVIOUS
      <4>4. f[d] = F[<<f[d \ {k + 1}], s[k + 1]>>]
        BY <1>1, <4>1, <4>3
      <4>5. QED
        BY <4>2, <4>4
    <3>2. CASE k + 1 \notin d
      BY <1>3, <3>2, MaxPosition
    <3>3. QED
      BY <3>1, <3>2
  <2>2. k + 1 \in 0..n
    OBVIOUS
  <2>3. QED
    BY <2>1, <2>2
<1> HIDE DEF S
<1>4. 0..n \subseteq S
  BY <1>2, <1>3, UpTo
<1>5. QED
  BY <1>4 DEF S

\* What each step of a fold adds and the later ones keep is in its value.
LEMMA FoldCollects ==
    ASSUME NEW n \in Nat, NEW g, NEW W,
           \A k \in 1..n : W[k] \subseteq Range(g[1..k]) /\ Range(g[1..(k - 1)]) \subseteq Range(g[1..k])
    PROVE  \A k \in 1..n : W[k] \subseteq Range(g[1..n])
<1> DEFINE S == {k \in 0..n : \A j \in 1..k : W[j] \subseteq Range(g[1..k])}
<1>1. 0 \in S
  OBVIOUS
<1>2. ASSUME NEW k \in 0..(n - 1), k \in S PROVE k + 1 \in S
  <2>1. k + 1 \in 1..n /\ (k + 1) - 1 = k /\ k + 1 \in 0..n
    OBVIOUS
  <2>2. W[k + 1] \subseteq Range(g[1..k + 1]) /\ Range(g[1..k]) \subseteq Range(g[1..k + 1])
    BY <2>1
  <2>3. \A j \in 1..k + 1 : j = k + 1 \/ j \in 1..k
    OBVIOUS
  <2>4. \A j \in 1..k : W[j] \subseteq Range(g[1..k])
    BY <1>2
  <2>5. \A j \in 1..k + 1 : W[j] \subseteq Range(g[1..k + 1])
    BY <2>2, <2>3, <2>4
  <2>6. QED
    BY <2>1, <2>5
<1> HIDE DEF S
<1>3. 0..n \subseteq S
  BY <1>1, <1>2, UpTo
<1>4. n \in 0..n
  OBVIOUS
<1>5. QED
  BY <1>3, <1>4 DEF S

\* The members of a sequence with one more element.
LEMMA LongerRange ==
    ASSUME NEW X, NEW s \in Seq(X), NEW x \in X
    PROVE  /\ Range(s) \subseteq Range(Append(s, x)) /\ x \in Range(Append(s, x))
           /\ Contains(s, x) <=> x \in Range(s)
<1>1. Len(s) \in Nat /\ DOMAIN s = 1..Len(s)
  OBVIOUS
<1>2. /\ DOMAIN Append(s, x) = 1..(Len(s) + 1) /\ Append(s, x)[Len(s) + 1] = x
      /\ \A i \in 1..Len(s) : Append(s, x)[i] = s[i]
  OBVIOUS
<1>3. Len(s) + 1 \in 1..(Len(s) + 1) /\ \A i \in 1..Len(s) : i \in 1..(Len(s) + 1)
  BY <1>1
<1>4. Range(s) \subseteq Range(Append(s, x)) /\ x \in Range(Append(s, x))
  BY <1>1, <1>2, <1>3 DEF Range
<1>5. Contains(s, x) <=> x \in Range(s)
  BY <1>1 DEF Contains, Range
<1>6. QED
  BY <1>4, <1>5

\* The members of two sequences are members of both together.
LEMMA JoinedRange ==
    ASSUME NEW X, NEW s \in Seq(X), NEW t \in Seq(X)
    PROVE  Range(s) \subseteq Range(s \o t) /\ Range(t) \subseteq Range(s \o t)
<1>1. /\ Len(s) \in Nat /\ DOMAIN s = 1..Len(s) /\ Len(t) \in Nat /\ DOMAIN t = 1..Len(t)
  OBVIOUS
<1>2. /\ DOMAIN (s \o t) = 1..(Len(s) + Len(t))
      /\ \A i \in 1..Len(s) : (s \o t)[i] = s[i]
      /\ \A i \in 1..Len(t) : (s \o t)[Len(s) + i] = t[i]
  OBVIOUS
<1>3. /\ \A i \in 1..Len(s) : i \in 1..(Len(s) + Len(t))
      /\ \A i \in 1..Len(t) : Len(s) + i \in 1..(Len(s) + Len(t))
  BY <1>1
<1>4. QED
  BY <1>1, <1>2, <1>3 DEF Range

\* One step of dropping keys.
WithoutStep(kept, k, dropped) == IF k \in dropped THEN kept ELSE Append(kept, k)

\* Dropping keys from a sequence leaves a sequence of the others, of all of them.
LEMMA WithoutOthers ==
    ASSUME NEW keys, NEW n \in Nat, DOMAIN keys = 1..n, NEW dropped
    PROVE  /\ Without(keys, dropped) \in Seq(Range(keys) \ dropped)
           /\ Range(keys) \ dropped \subseteq Range(Without(keys, dropped))
<1> DEFINE E == Range(keys)
           A == Seq(E \ dropped)
           F == [p \in A \X E |-> WithoutStep(p[1], p[2], dropped)]
           Is(f) == f = [d \in SUBSET (1..n) |-> IF d = {} THEN <<>>
                           ELSE WithoutStep(f[d \ {Max(d)}], keys[Max(d)], dropped)]
<1>1. \A a \in A, k \in E : WithoutStep(a, k, dropped) \in A
  BY DEF WithoutStep
<1>2. <<>> \in A /\ F \in [A \X E -> A] /\ \A k \in 1..n : keys[k] \in E
  <2>1. \A p \in A \X E : WithoutStep(p[1], p[2], dropped) \in A
    BY <1>1
  <2>2. <<>> \in A
    OBVIOUS
  <2>3. \A k \in 1..n : keys[k] \in E
    BY DEF Range
  <2> HIDE DEF A, E
  <2>4. QED
    BY <2>1, <2>2, <2>3
<1>3. PICK f : Folds(f, n, <<>>, F, [k \in 1..n |-> keys[k]])
  BY FoldExists
<1>4. \A d \in SUBSET (1..n) : f[d] \in A
  <2>1. [k \in 1..n |-> keys[k]] \in [1..n -> E]
    BY <1>2
  <2> HIDE DEF A, F, E
  <2>2. QED
    BY <1>2, <1>3, <2>1, FoldTyped
<1>5. Is(f)
  <2>1. \A d \in SUBSET (1..n) : d # {} => d \ {Max(d)} \in SUBSET (1..n) /\ Max(d) \in 1..n
    <3>1. \A d \in SUBSET (1..n) : d \in SUBSET (1..n + 1)
      OBVIOUS
    <3>2. QED
      BY <3>1, MaxPosition
  <2>2. \A d \in SUBSET (1..n) : d # {} =>
          F[<<f[d \ {Max(d)}], keys[Max(d)]>>] = WithoutStep(f[d \ {Max(d)}], keys[Max(d)], dropped)
    BY <1>2, <1>4, <2>1
  <2> HIDE DEF A, F, E
  <2>3. QED
    BY <1>3, <2>1, <2>2 DEF Folds
<1>6. Without(keys, dropped) = (CHOOSE g : Is(g))[1..n]
  BY DEF Without, FoldLeft, MapThenFoldSet, WithoutStep
<1> DEFINE g == CHOOSE g : Is(g)
<1>7. Is(g)
  BY <1>5
<1>8. g[{}] = <<>> /\ \A k \in 1..n : g[1..k] = WithoutStep(g[1..(k - 1)], keys[k], dropped)
  <2> HIDE DEF g
  <2>1. g[{}] = <<>>
    BY <1>7
  <2>2. \A d \in SUBSET (1..n) : g[d] = IF d = {} THEN <<>>
                         ELSE WithoutStep(g[d \ {Max(d)}], keys[Max(d)], dropped)
    BY <1>7
  <2> HIDE DEF Is
  <2>3. \A k \in 1..n : g[1..k] = WithoutStep(g[1..(k - 1)], keys[k], dropped)
    BY <2>2, Prefix
  <2>4. QED
    BY <2>1, <2>3
<1> HIDE DEF g
<1>9. \A k \in 0..n : g[1..k] \in A
  <2>1. \A k \in 1..n : g[1..(k - 1)] \in A => g[1..k] \in A
    BY <1>1, <1>2, <1>8
  <2> HIDE DEF A
  <2>2. ASSUME NEW k \in 0..n PROVE g[1..k] \in A
    <3>1. k \in Nat /\ \A j \in 1..k : j \in 1..n
      OBVIOUS
    <3>2. g[{}] \in A
      BY <1>2, <1>8
    <3>3. QED
      BY <2>1, <3>1, <3>2, FoldStays
  <2>3. QED
    BY <2>2
<1> DEFINE Kept == [k \in 1..n |-> {keys[k]} \ dropped]
<1>10. \A k \in 1..n : Kept[k] \subseteq Range(g[1..k]) /\ Range(g[1..(k - 1)]) \subseteq Range(g[1..k])
  <2>1. ASSUME NEW k \in 1..n, keys[k] \notin dropped
        PROVE  keys[k] \in Range(g[1..k]) /\ Range(g[1..(k - 1)]) \subseteq Range(g[1..k])
    <3>1. keys[k] \in E \ dropped /\ k - 1 \in 0..n
      BY <1>2, <2>1
    <3>2. g[1..(k - 1)] \in Seq(E \ dropped) /\ g[1..k] = Append(g[1..(k - 1)], keys[k])
      BY <1>8, <1>9, <2>1, <3>1 DEF WithoutStep
    <3> HIDE DEF E
    <3>3. QED
      BY <3>1, <3>2, LongerRange
  <2>2. ASSUME NEW k \in 1..n, keys[k] \in dropped PROVE g[1..k] = g[1..(k - 1)]
    BY <1>8, <2>2 DEF WithoutStep
  <2>3. QED
    BY <2>1, <2>2
<1>11. \A k \in 1..n : Kept[k] \subseteq Range(g[1..n])
  <2> HIDE DEF Kept
  <2>1. QED
    BY <1>10, FoldCollects
<1>12. E \ dropped \subseteq Range(g[1..n])
  BY <1>11 DEF Range
<1>13. Without(keys, dropped) = g[1..n] /\ g[1..n] \in A
  <2>1. n \in 0..n
    OBVIOUS
  <2>2. g[1..n] \in A
    BY <1>9, <2>1
  <2>3. Without(keys, dropped) = g[1..n]
    BY <1>6 DEF g
  <2>4. QED
    BY <2>2, <2>3
<1>14. QED
  BY <1>12, <1>13

\* One step of the index.
IndexStep(index, k) == IF Contains(index, k) THEN index ELSE Append(index, k)

\* The index of a sequence of keys is a sequence of them, of all of them.
LEMMA IndexOfKeys ==
    ASSUME NEW keys, NEW n \in Nat, DOMAIN keys = 1..n
    PROVE  BatchIndex(keys) \in Seq(Range(keys)) /\ Range(keys) \subseteq Range(BatchIndex(keys))
<1> DEFINE E == Range(keys)
           A == Seq(E)
           F == [p \in A \X E |-> IndexStep(p[1], p[2])]
           Is(f) == f = [d \in SUBSET (1..n) |-> IF d = {} THEN <<>>
                           ELSE IndexStep(f[d \ {Max(d)}], keys[Max(d)])]
<1>1. \A a \in A, k \in E : IndexStep(a, k) \in A
  BY DEF IndexStep
<1>2. <<>> \in A /\ F \in [A \X E -> A] /\ \A k \in 1..n : keys[k] \in E
  <2>1. \A p \in A \X E : IndexStep(p[1], p[2]) \in A
    <3> HIDE DEF A, E
    <3>1. QED
      BY <1>1
  <2>2. <<>> \in A
    OBVIOUS
  <2>3. \A k \in 1..n : keys[k] \in E
    BY DEF Range
  <2> HIDE DEF A, E
  <2>4. QED
    BY <2>1, <2>2, <2>3
<1>3. PICK f : Folds(f, n, <<>>, F, [k \in 1..n |-> keys[k]])
  BY FoldExists
<1>4. \A d \in SUBSET (1..n) : f[d] \in A
  <2>1. [k \in 1..n |-> keys[k]] \in [1..n -> E]
    BY <1>2
  <2> HIDE DEF A, F, E
  <2>2. QED
    BY <1>2, <1>3, <2>1, FoldTyped
<1>5. Is(f)
  <2>1. \A d \in SUBSET (1..n) : d # {} => d \ {Max(d)} \in SUBSET (1..n) /\ Max(d) \in 1..n
    <3>1. \A d \in SUBSET (1..n) : d \in SUBSET (1..n + 1)
      OBVIOUS
    <3>2. QED
      BY <3>1, MaxPosition
  <2>2. \A d \in SUBSET (1..n) : d # {} =>
          F[<<f[d \ {Max(d)}], keys[Max(d)]>>] = IndexStep(f[d \ {Max(d)}], keys[Max(d)])
    <3> HIDE DEF A, E
    <3>1. QED
      BY <1>2, <1>4, <2>1
  <2> HIDE DEF A, F, E
  <2>3. QED
    BY <1>3, <2>1, <2>2 DEF Folds
<1>6. BatchIndex(keys) = (CHOOSE g : Is(g))[1..n]
  BY DEF BatchIndex, FoldLeft, MapThenFoldSet, IndexStep
<1> DEFINE g == CHOOSE g : Is(g)
<1>7. Is(g)
  BY <1>5
<1>8. g[{}] = <<>> /\ \A k \in 1..n : g[1..k] = IndexStep(g[1..(k - 1)], keys[k])
  <2> HIDE DEF g
  <2>1. \A d \in SUBSET (1..n) : g[d] = IF d = {} THEN <<>>
                           ELSE IndexStep(g[d \ {Max(d)}], keys[Max(d)])
    BY <1>7
  <2> HIDE DEF Is, A, E, F
  <2>2. \A k \in 1..n : g[1..k] = IndexStep(g[1..(k - 1)], keys[k])
    BY <2>1, Prefix
  <2>3. g[{}] = <<>>
    BY <2>1
  <2>4. QED
    BY <2>2, <2>3
<1> HIDE DEF g
<1>9. \A k \in 0..n : g[1..k] \in A
  <2>1. \A k \in 1..n : g[1..(k - 1)] \in A => g[1..k] \in A
    <3> HIDE DEF A, E
    <3>1. QED
      BY <1>1, <1>2, <1>8
  <2> HIDE DEF A
  <2>2. ASSUME NEW k \in 0..n PROVE g[1..k] \in A
    <3>1. k \in Nat /\ \A j \in 1..k : j \in 1..n
      OBVIOUS
    <3>2. g[{}] \in A
      BY <1>2, <1>8
    <3>3. QED
      BY <2>1, <3>1, <3>2, FoldStays
  <2>3. QED
    BY <2>2
<1> DEFINE One == [k \in 1..n |-> {keys[k]}]
<1>10. \A k \in 1..n : One[k] \subseteq Range(g[1..k]) /\ Range(g[1..(k - 1)]) \subseteq Range(g[1..k])
  <2>1. ASSUME NEW k \in 1..n
        PROVE  keys[k] \in Range(g[1..k]) /\ Range(g[1..(k - 1)]) \subseteq Range(g[1..k])
    <3>1. keys[k] \in E /\ k - 1 \in 0..n
      BY <1>2
    <3>2. g[1..(k - 1)] \in Seq(E) /\ g[1..k] = IndexStep(g[1..(k - 1)], keys[k])
      BY <1>8, <1>9, <3>1
    <3> HIDE DEF E
    <3>3. QED
      BY <3>1, <3>2, LongerRange DEF IndexStep
  <2>2. QED
    BY <2>1
<1>11. \A k \in 1..n : One[k] \subseteq Range(g[1..n])
  <2> HIDE DEF One
  <2>1. QED
    BY <1>10, FoldCollects
<1>12. E \subseteq Range(g[1..n])
  BY <1>11 DEF Range
<1>13. BatchIndex(keys) = g[1..n] /\ g[1..n] \in A
  <2>1. n \in 0..n
    OBVIOUS
  <2>2. g[1..n] \in A
    BY <1>9, <2>1
  <2>3. BatchIndex(keys) = g[1..n]
    BY <1>6 DEF g
  <2>4. QED
    BY <2>2, <2>3
<1>14. QED
  BY <1>12, <1>13

\* What the slots of the roots lead to.
SlotRange == UNION {Range(SlotKeys(i)) : i \in DOMAIN accepted}
Slots == FoldLeft(LAMBDA s, i : s \o SlotKeys(i), <<>>, [i \in DOMAIN accepted |-> i])

\* The slots of the roots one after the other.
LEMMA SlotsOfRoots ==
    ASSUME NEW n \in Nat, DOMAIN accepted = 1..n,
           \A i \in DOMAIN accepted : SlotKeys(i) \in Seq(Range(SlotKeys(i)))
    PROVE  Slots \in Seq(SlotRange) /\ SlotRange \subseteq Range(Slots)
<1> DEFINE E == DOMAIN accepted
           A == Seq(SlotRange)
           F == [p \in A \X E |-> (p[1] \o SlotKeys(p[2]))]
           Is(f) == f = [d \in SUBSET (1..n) |-> IF d = {} THEN <<>>
                           ELSE (f[d \ {Max(d)}] \o SlotKeys([i \in DOMAIN accepted |-> i][Max(d)]))]
<1>1. \A a \in A, k \in E : (a \o SlotKeys(k)) \in A
  <2>1. \A k \in E : SlotKeys(k) \in A
    <3>1. \A k \in E : Range(SlotKeys(k)) \subseteq SlotRange
      BY DEF SlotRange
    <3> HIDE DEF SlotRange
    <3>2. QED
      BY <3>1, SeqMonotonic
  <2>2. QED
    BY <2>1
<1>2. <<>> \in A /\ F \in [A \X E -> A] /\ \A k \in 1..n : [i \in DOMAIN accepted |-> i][k] \in E
  <2>1. \A p \in A \X E : (p[1] \o SlotKeys(p[2])) \in A
    <3> HIDE DEF A, E
    <3>1. QED
      BY <1>1
  <2>2. <<>> \in A
    OBVIOUS
  <2>3. \A k \in 1..n : [i \in DOMAIN accepted |-> i][k] \in E
    OBVIOUS
  <2> HIDE DEF A, E
  <2>4. QED
    BY <2>1, <2>2, <2>3
<1>3. PICK f : Folds(f, n, <<>>, F, [k \in 1..n |-> [i \in DOMAIN accepted |-> i][k]])
  BY FoldExists
<1>4. \A d \in SUBSET (1..n) : f[d] \in A
  <2>1. [k \in 1..n |-> [i \in DOMAIN accepted |-> i][k]] \in [1..n -> E]
    BY <1>2
  <2> HIDE DEF A, F, E
  <2>2. QED
    BY <1>2, <1>3, <2>1, FoldTyped
<1>5. Is(f)
  <2>1. \A d \in SUBSET (1..n) : d # {} => d \ {Max(d)} \in SUBSET (1..n) /\ Max(d) \in 1..n
    <3>1. \A d \in SUBSET (1..n) : d \in SUBSET (1..n + 1)
      OBVIOUS
    <3>2. QED
      BY <3>1, MaxPosition
  <2>2. \A d \in SUBSET (1..n) : d # {} =>
          F[<<f[d \ {Max(d)}], [i \in DOMAIN accepted |-> i][Max(d)]>>] = (f[d \ {Max(d)}] \o SlotKeys([i \in DOMAIN accepted |-> i][Max(d)]))
    <3> HIDE DEF A, E
    <3>1. QED
      BY <1>2, <1>4, <2>1
  <2> HIDE DEF A, F, E
  <2>3. QED
    BY <1>3, <2>1, <2>2 DEF Folds
<1>6. Slots = (CHOOSE g : Is(g))[1..n]
  BY DEF Slots, FoldLeft, MapThenFoldSet
<1> DEFINE g == CHOOSE g : Is(g)
<1>7. Is(g)
  BY <1>5
<1>8. g[{}] = <<>> /\ \A k \in 1..n : g[1..k] = (g[1..(k - 1)] \o SlotKeys(k))
  <2> HIDE DEF g
  <2>1. \A d \in SUBSET (1..n) : g[d] = IF d = {} THEN <<>>
                           ELSE (g[d \ {Max(d)}] \o SlotKeys([i \in DOMAIN accepted |-> i][Max(d)]))
    BY <1>7
  <2> HIDE DEF Is, A, E, F
  <2>2. \A k \in 1..n : g[1..k] = (g[1..(k - 1)] \o SlotKeys([i \in DOMAIN accepted |-> i][k]))
    BY <2>1, Prefix
  <2>3. \A k \in 1..n : [i \in DOMAIN accepted |-> i][k] = k
    OBVIOUS
  <2>4. g[{}] = <<>>
    BY <2>1
  <2>5. QED
    BY <2>2, <2>3, <2>4
<1> HIDE DEF g
<1>9. \A k \in 0..n : g[1..k] \in A
  <2>1. \A k \in 1..n : g[1..(k - 1)] \in A => g[1..k] \in A
    <3>1. \A k \in 1..n : k \in E
      OBVIOUS
    <3> HIDE DEF A, E
    <3>2. QED
      BY <1>1, <1>8, <3>1
  <2> HIDE DEF A
  <2>2. ASSUME NEW k \in 0..n PROVE g[1..k] \in A
    <3>1. k \in Nat /\ \A j \in 1..k : j \in 1..n
      OBVIOUS
    <3>2. g[{}] \in A
      BY <1>2, <1>8
    <3>3. QED
      BY <2>1, <3>1, <3>2, FoldStays
  <2>3. QED
    BY <2>2
<1> DEFINE OfRoot == [k \in 1..n |-> Range(SlotKeys(k))]
<1>10. \A k \in 1..n : OfRoot[k] \subseteq Range(g[1..k]) /\ Range(g[1..(k - 1)]) \subseteq Range(g[1..k])
  <2>1. ASSUME NEW k \in 1..n
        PROVE  Range(SlotKeys(k)) \subseteq Range(g[1..k]) /\ Range(g[1..(k - 1)]) \subseteq Range(g[1..k])
    <3>1. k - 1 \in 0..n
      OBVIOUS
    <3>2. g[1..(k - 1)] \in Seq(SlotRange) /\ g[1..k] = g[1..(k - 1)] \o SlotKeys(k)
      BY <1>8, <1>9, <3>1
    <3>3. SlotKeys(k) \in Seq(SlotRange)
      <4>1. Range(SlotKeys(k)) \subseteq SlotRange /\ SlotKeys(k) \in Seq(Range(SlotKeys(k)))
        BY DEF SlotRange
      <4> HIDE DEF SlotRange
      <4>2. QED
        BY <4>1, SeqMonotonic
    <3>4. QED
      BY <3>2, <3>3, JoinedRange
  <2>2. QED
    BY <2>1
<1>11. \A k \in 1..n : OfRoot[k] \subseteq Range(g[1..n])
  <2> HIDE DEF OfRoot
  <2>1. QED
    BY <1>10, FoldCollects
<1>12. SlotRange \subseteq Range(g[1..n])
  BY <1>11 DEF SlotRange
<1>13. Slots = g[1..n] /\ g[1..n] \in A
  <2>1. n \in 0..n
    OBVIOUS
  <2>2. g[1..n] \in A
    BY <1>9, <2>1
  <2>3. Slots = g[1..n]
    BY <1>6 DEF g
  <2>4. QED
    BY <2>2, <2>3
<1>14. QED
  BY <1>12, <1>13

\* The slots of the roots are sequences.
SlotsSequences ==
    /\ accepted \in Seq(Range(accepted))
    /\ \A i \in DOMAIN accepted : first[i] \in Seq(Range(first[i]))

\* The members of a sequence over a set are in it.
LEMMA MembersIn ==
    ASSUME NEW X, NEW s \in Seq(X)
    PROVE  Range(s) \subseteq X /\ s \in Seq(Range(s)) /\ Len(s) \in Nat /\ DOMAIN s = 1..Len(s)
<1>1. Len(s) \in Nat /\ DOMAIN s = 1..Len(s) /\ \A i \in 1..Len(s) : s[i] \in X
  OBVIOUS
<1>2. s \in [1..Len(s) -> Range(s)]
  <2>1. s = [i \in 1..Len(s) |-> s[i]] /\ \A i \in 1..Len(s) : s[i] \in Range(s)
    BY <1>1 DEF Range
  <2>2. QED
    BY <2>1
<1>3. QED
  BY <1>1, <1>2 DEF Range

\* The keys of a root's slots are a sequence.
LEMMA SlotKeysSequence ==
    ASSUME SlotsSequences, NEW i \in DOMAIN accepted
    PROVE  SlotKeys(i) \in Seq(Range(SlotKeys(i)))
<1>1. Len(first[i]) \in Nat /\ DOMAIN first[i] = 1..Len(first[i])
  BY MembersIn DEF SlotsSequences
<1>2. SlotKeys(i) \in [1..Len(first[i]) -> Range(SlotKeys(i))]
  BY <1>1 DEF SlotKeys, Range
<1>3. QED
  BY <1>1, <1>2

\* What is reached is what the slots lead to that is no root.
LEMMA ReachedInSlots ==
    ASSUME SlotsSequences
    PROVE  /\ Reached \in Seq(Range(Reached))
           /\ Range(Reached) \subseteq SlotRange \ Range(accepted)
           /\ SlotRange \ Range(accepted) \subseteq Range(Reached)
<1> DEFINE n == Len(accepted)
<1>1. n \in Nat /\ DOMAIN accepted = 1..n
  BY MembersIn DEF SlotsSequences
<1>2. Slots \in Seq(SlotRange) /\ SlotRange \subseteq Range(Slots)
  BY <1>1, SlotsOfRoots, SlotKeysSequence
<1>3. BatchIndex(Slots) \in Seq(SlotRange) /\ SlotRange \subseteq Range(BatchIndex(Slots))
  <2>1. /\ BatchIndex(Slots) \in Seq(Range(Slots)) /\ Range(Slots) \subseteq SlotRange
        /\ Range(Slots) \subseteq Range(BatchIndex(Slots))
    BY <1>2, MembersIn, IndexOfKeys
  <2>2. QED
    BY <1>2, <2>1, SeqMonotonic
<1>4. /\ Without(BatchIndex(Slots), Range(accepted)) \in Seq(Range(BatchIndex(Slots)) \ Range(accepted))
      /\ Range(BatchIndex(Slots)) \ Range(accepted)
           \subseteq Range(Without(BatchIndex(Slots), Range(accepted)))
  BY <1>3, MembersIn, WithoutOthers
<1>5. Reached = Without(BatchIndex(Slots), Range(accepted))
  BY DEF Reached, Slots
<1>6. Range(BatchIndex(Slots)) \subseteq SlotRange
  BY <1>3, MembersIn
<1>7. QED
  BY <1>3, <1>4, <1>5, <1>6, MembersIn

\* Roots and what they reach, without what has no row.
ContextsOf(roots, reached, dropped) == BatchIndex(roots \o Without(reached, dropped))

\* They are all there, and nothing else.
LEMMA ContextsOfRoots ==
    ASSUME NEW roots, roots \in Seq(Range(roots)), NEW reached, reached \in Seq(Range(reached)), NEW dropped
    PROVE  /\ ContextsOf(roots, reached, dropped) \in Seq(Range(roots) \cup (Range(reached) \ dropped))
           /\ Range(roots) \cup (Range(reached) \ dropped) \subseteq Range(ContextsOf(roots, reached, dropped))
<1> DEFINE others == Without(reached, dropped)
           both == roots \o others
           X == Range(roots) \cup (Range(reached) \ dropped)
<1>1. /\ others \in Seq(Range(reached) \ dropped)
      /\ Range(reached) \ dropped \subseteq Range(others)
  BY MembersIn, WithoutOthers
<1>2. others \in Seq(X) /\ roots \in Seq(X)
  <2>1. Range(reached) \ dropped \subseteq X /\ Range(roots) \subseteq X
    OBVIOUS
  <2> HIDE DEF X
  <2>2. QED
    BY <1>1, <2>1, SeqMonotonic
<1> HIDE DEF others
<1>3. both \in Seq(X) /\ X \subseteq Range(both)
  <2>1. Range(roots) \subseteq Range(both) /\ Range(others) \subseteq Range(both)
    <3> HIDE DEF X
    <3>1. QED
      BY <1>2, JoinedRange
  <2>2. X \subseteq Range(both)
    BY <1>1, <2>1
  <2> HIDE DEF X
  <2>3. QED
    BY <1>2, <2>2
<1>4. BatchIndex(both) \in Seq(X) /\ X \subseteq Range(BatchIndex(both))
  <2>1. /\ BatchIndex(both) \in Seq(Range(both)) /\ Range(both) \subseteq X
        /\ Range(both) \subseteq Range(BatchIndex(both))
    <3> HIDE DEF X, both
    <3>1. QED
      BY <1>3, MembersIn, IndexOfKeys
  <2> HIDE DEF X, both
  <2>2. QED
    BY <1>3, <2>1, SeqMonotonic
<1>5. QED
  BY <1>4 DEF ContextsOf, others

\* The contexts of a batch are its roots and what they reach that has a row.
LEMMA ContextsReached ==
    ASSUME SlotsSequences
    PROVE  /\ Contexts \in Seq(Range(Contexts))
           /\ Range(Contexts) \subseteq Range(accepted) \cup (Range(Reached) \ rejected)
           /\ Range(accepted) \cup (Range(Reached) \ rejected) \subseteq Range(Contexts)
<1>1. Contexts = ContextsOf(accepted, Reached, rejected)
  BY DEF Contexts, ContextsOf
<1>2. accepted \in Seq(Range(accepted)) /\ Reached \in Seq(Range(Reached))
  BY ReachedInSlots DEF SlotsSequences
<1> DEFINE X == Range(accepted) \cup (Range(Reached) \ rejected)
<1>3. Contexts \in Seq(X) /\ X \subseteq Range(Contexts)
  BY <1>1, <1>2, ContextsOfRoots
<1>4. Contexts \in Seq(Range(Contexts)) /\ Range(Contexts) \subseteq X
  <2> HIDE DEF X
  <2>1. QED
    BY <1>3, MembersIn
<1>5. QED
  BY <1>3, <1>4

\* Some root reaches what is reached, the contexts among it.
LEMMA ReachingSome ==
    ASSUME SlotsSequences
    PROVE  /\ \A k \in Range(Reached) : Reaching(k) # {} /\ k \notin Range(accepted)
           /\ \A k \in Range(Contexts) : Reaching(k) # {}
<1>1. \A k \in Range(Reached) : Reaching(k) # {} /\ k \notin Range(accepted)
  BY ReachedInSlots DEF SlotRange, Reaching
<1>2. \A k \in Range(accepted) : Reaching(k) # {}
  BY DEF Reaching, Range
<1>3. QED
  BY <1>1, <1>2, ContextsReached
-------------------------------------------------------------------------------
(* The hubs.  A registry counted on the log of its preparation says of a cutoff what is    *)
(* visible before it, in every longer log as well.                                         *)

Log == Seq(Payment \cup Binding)

\* A view: unscoped batches have phase 3.
View(key) == key.scoped \in BOOLEAN /\ key.phase \in 1..3 /\ (~key.scoped => key.phase = 3)

\* Entries of a log.
LEMMA EntryRoles ==
    ASSUME NEW g \in Log, NEW n \in DOMAIN g
    PROVE  /\ n \in Nat \ {0} /\ n <= Len(g) /\ Len(g) \in Nat /\ DOMAIN g = 1..Len(g)
           /\ IsPayment(g, n) <=> g[n] \in Payment
           /\ IsPayment(g, n) =>
                /\ g[n].from \in Accounts /\ g[n].to \in Accounts \cup {None}
                /\ g[n].ftok \in Tokens \cup {None} /\ g[n].ttok \in Tokens \cup {None}
                /\ Endpoints(g, n) \subseteq Accounts /\ g[n].from \in Endpoints(g, n)
                /\ Accounts \cap Mentioned(g[n]) = Endpoints(g, n)
                /\ None \notin Accounts
           /\ ~IsPayment(g, n) => g[n] \in Binding /\ g[n].token \in Tokens /\ g[n].account \in Accounts
<1>1. /\ n \in Nat \ {0} /\ n <= Len(g) /\ Len(g) \in Nat /\ DOMAIN g = 1..Len(g)
      /\ g[n] \in Payment \cup Binding
  BY DEF Log
<1>2. \A e \in Payment : e.op = "pay"
  BY DEF Payment
<1>3. \A e \in Binding : e.op # "pay" /\ e.token \in Tokens /\ e.account \in Accounts
  BY DEF Binding
<1>4. IsPayment(g, n) <=> g[n] \in Payment
  BY <1>1, <1>2, <1>3 DEF IsPayment
<1>5. ASSUME IsPayment(g, n)
      PROVE  /\ g[n].op = "pay"
             /\ g[n].from \in Accounts /\ g[n].to \in Accounts \cup {None}
             /\ g[n].ftok \in Tokens \cup {None} /\ g[n].ttok \in Tokens \cup {None}
  BY <1>4, <1>5 DEF Payment
<1>6. ASSUME IsPayment(g, n)
      PROVE  /\ Endpoints(g, n) \subseteq Accounts /\ g[n].from \in Endpoints(g, n)
             /\ Accounts \cap Mentioned(g[n]) = Endpoints(g, n)
  <2>1. None \notin Accounts /\ None \notin Tokens /\ Accounts \cap Tokens = {}
    BY GraphAssumption DEF Nodes
  <2>2. Mentioned(g[n]) = {g[n].from, g[n].to, g[n].ftok, g[n].ttok} \ {None}
    BY <1>5, <1>6 DEF Mentioned
  <2>3. QED
    BY <1>5, <1>6, <2>1, <2>2 DEF Endpoints
<1>7. None \notin Accounts
  BY GraphAssumption DEF Nodes
<1>8. QED
  BY <1>1, <1>3, <1>4, <1>5, <1>6, <1>7

\* The payments that count for a hub of a view at a cutoff.
Counted(g, cutoff, key, rel) ==
    {n \in Incident(g, key.node, rel) : n < cutoff /\ \A a \in Endpoints(g, n) : InPhase(key, a)}

\* The past of a cutoff keeps exactly these.
LEMMA PastCounts ==
    ASSUME NEW g \in Log, NEW cutoff \in Nat, NEW key, NEW rel
    PROVE  Incident(Past(g, cutoff, key), key.node, rel) = Counted(g, cutoff, key, rel)
<1> DEFINE past == Past(g, cutoff, key)
           Gone(n) == n = cutoff \/ \E a \in Accounts \cap Mentioned(g[n]) : ~InPhase(key, a)
<1>1. Len(g) \in Nat /\ DOMAIN g = 1..Len(g)
  BY DEF Log
<1>2. \A n : n \in 1..Min({cutoff, Len(g)}) <=> n \in DOMAIN g /\ n <= cutoff
  <2>1. Min({cutoff, Len(g)}) = IF cutoff <= Len(g) THEN cutoff ELSE Len(g)
    <3>1. cutoff \in Int /\ Len(g) \in Int
      BY <1>1
    <3>2. QED
      BY <3>1, OfTwo, Zenon
  <2>2. QED
    BY <1>1, <2>1
<1>3. DOMAIN past = 1..Min({cutoff, Len(g)})
  BY DEF Past
<1>4. \A n \in DOMAIN past : past[n] = IF Gone(n) THEN Hidden(g[n]) ELSE g[n]
  BY DEF Past
<1>5. \A n : Hidden(g[n]).op = "hidden"
  BY DEF Hidden
<1>6. \A n \in DOMAIN past : IsPayment(past, n) <=> IsPayment(g, n) /\ ~Gone(n)
  <2> HIDE DEF past, Gone
  <2>1. QED
    BY <1>4, <1>5 DEF IsPayment
<1>7. \A n \in DOMAIN g : IsPayment(g, n) =>
        (~Gone(n) <=> n # cutoff /\ \A a \in Endpoints(g, n) : InPhase(key, a))
  BY EntryRoles
<1>8. ASSUME NEW n PROVE n \in Incident(past, key.node, rel) <=> n \in Counted(g, cutoff, key, rel)
  <2>1. n \in Incident(past, key.node, rel) <=>
          /\ n \in DOMAIN past /\ IsPayment(past, n)
          /\ (past[n].rail = "zelle") = (rel \in Zelle)
          /\ key.node \in IF rel \in Outgoing THEN {past[n].from, past[n].ftok}
                          ELSE {past[n].to, past[n].ttok}
    BY DEF Incident
  <2>2. n \in Incident(g, key.node, rel) <=>
          /\ n \in DOMAIN g /\ IsPayment(g, n)
          /\ (g[n].rail = "zelle") = (rel \in Zelle)
          /\ key.node \in IF rel \in Outgoing THEN {g[n].from, g[n].ftok}
                          ELSE {g[n].to, g[n].ttok}
    BY DEF Incident
  <2>3. n \in DOMAIN past /\ IsPayment(past, n) <=>
          /\ n \in DOMAIN g /\ IsPayment(g, n)
          /\ n < cutoff /\ \A a \in Endpoints(g, n) : InPhase(key, a)
    <3> HIDE DEF past, Gone
    <3>1. n \in DOMAIN g => n \in Nat
      BY <1>1
    <3>2. n \in DOMAIN g => (n < cutoff <=> n <= cutoff /\ n # cutoff)
      BY <3>1
    <3>3. QED
      BY <1>2, <1>3, <1>6, <1>7, <3>2
  <2>4. n \in DOMAIN past /\ IsPayment(past, n) => past[n] = g[n]
    <3> HIDE DEF past, Gone
    <3>1. QED
      BY <1>4, <1>6
  <2> HIDE DEF past
  <2>5. QED
    BY <2>1, <2>2, <2>3, <2>4 DEF Counted
<1>9. QED
  BY <1>8

\* They are finitely many, and no fewer at a later cutoff or in a longer log.
LEMMA CountedFinite ==
    ASSUME NEW g \in Log, NEW cutoff \in Nat, NEW key, NEW rel
    PROVE  /\ IsFiniteSet(Counted(g, cutoff, key, rel))
           /\ Cardinality(Counted(g, cutoff, key, rel)) \in Nat
           /\ \A later \in Nat : cutoff <= later =>
                Cardinality(Counted(g, cutoff, key, rel)) <= Cardinality(Counted(g, later, key, rel))
<1>1. \A c \in Nat : Counted(g, c, key, rel) \in SUBSET (1..Len(g))
  <2>1. DOMAIN g = 1..Len(g)
    BY DEF Log
  <2>2. QED
    BY <2>1 DEF Counted, Incident
<1>2. IsFiniteSet(1..Len(g))
  <2>1. Len(g) \in Nat
    BY DEF Log
  <2>2. QED
    BY <2>1, FS_Interval
<1>3. \A c \in Nat : IsFiniteSet(Counted(g, c, key, rel)) /\ Cardinality(Counted(g, c, key, rel)) \in Nat
  BY <1>1, <1>2, FS_Subset, FS_CardinalityType
<1>4. ASSUME NEW later \in Nat, cutoff <= later
      PROVE  Counted(g, cutoff, key, rel) \in SUBSET Counted(g, later, key, rel)
  <2>1. \A n \in 1..Len(g) : n < cutoff => n < later
    BY <1>4
  <2>2. Counted(g, cutoff, key, rel) \in SUBSET (1..Len(g))
    BY <1>1
  <2>3. QED
    BY <2>1, <2>2 DEF Counted
<1>5. QED
  BY <1>3, <1>4, FS_Subset
\* A payment is visible in a phase when all its account endpoints are.
LEMMA EventPhaseIs ==
    ASSUME NEW g \in Log, NEW n \in DOMAIN g, IsPayment(g, n), NEW phase \in 1..3
    PROVE  EventPhase(g, n) <= phase <=> \A a \in Endpoints(g, n) : Partition[a] \in 1..phase
<1> DEFINE Of(a) == IF Partition[a] \in 1..3 THEN Partition[a] ELSE 4
           phases == {Of(a) : a \in Endpoints(g, n)}
<1>1. Endpoints(g, n) \subseteq Accounts /\ g[n].from \in Endpoints(g, n)
  BY EntryRoles
<1>2. \A a \in Accounts : /\ Of(a) \in 1..4
                          /\ Of(a) <= phase <=> Partition[a] \in 1..phase
  BY GraphAssumption
<1>3. phases \in SUBSET (1..4) /\ phases # {}
  <2> HIDE DEF Of
  <2>1. QED
    BY <1>1, <1>2
<1>4. IsFiniteSet(phases) /\ phases \in SUBSET Nat
  <2>1. IsFiniteSet(1..4)
    <3>1. 1 \in Int /\ 4 \in Int
      OBVIOUS
    <3>2. QED
      BY <3>1, FS_Interval, Zenon
  <2> HIDE DEF phases
  <2>2. IsFiniteSet(phases)
    BY <1>3, <2>1, FS_Subset, Zenon
  <2>3. phases \in SUBSET Nat
    BY <1>3
  <2>4. QED
    BY <2>2, <2>3
<1>5. Max(phases) \in phases /\ \A p \in phases : p <= Max(phases)
  <2> HIDE DEF phases
  <2>1. QED
    BY <1>3, <1>4, MaxGreatest
<1>6. EventPhase(g, n) = Max(phases)
  BY DEF EventPhase
<1> DEFINE greatest == Max(phases)
<1>7. greatest \in 1..4 /\ greatest \in phases /\ \A p \in phases : p \in 1..4 /\ p <= greatest
  <2> HIDE DEF phases
  <2>1. QED
    BY <1>3, <1>5
<1>8. greatest <= phase <=> \A p \in phases : p <= phase
  <2> HIDE DEF phases, greatest
  <2>1. QED
    BY <1>7
<1>9. QED
  <2> HIDE DEF greatest, Of
  <2>1. QED
    BY <1>1, <1>2, <1>6, <1>8 DEF greatest

\* What the registry counts is what the past keeps.
LEMMA HubCountIs ==
    ASSUME NEW g \in Log, NEW cutoff \in Nat, NEW key, View(key), NEW rel
    PROVE  HubCount(g, key.node, rel, cutoff, key.scoped, key.phase)
             = Cardinality(Counted(g, cutoff, key, rel))
<1>1. ASSUME NEW n \in Incident(g, key.node, rel)
      PROVE  (key.scoped => EventPhase(g, n) <= key.phase)
               <=> \A a \in Endpoints(g, n) : InPhase(key, a)
  <2>1. n \in DOMAIN g /\ IsPayment(g, n)
    BY <1>1 DEF Incident
  <2>2. CASE key.scoped
    BY <2>1, <2>2, EventPhaseIs DEF View, InPhase
  <2>3. CASE ~key.scoped
    BY <2>3 DEF InPhase
  <2>4. QED
    BY <2>2, <2>3
<1>2. {n \in Incident(g, key.node, rel) : n < cutoff /\ (key.scoped => EventPhase(g, n) <= key.phase)}
        = Counted(g, cutoff, key, rel)
  BY <1>1 DEF Counted
<1>3. QED
  BY <1>2 DEF HubCount

\* The threshold is a capacity.
LEMMA ThresholdIs ==
    Threshold \in Nat \ {0} /\ Threshold <= Children.max_history /\ Threshold <= Roots.max_history
<1>1. Roots.max_history \in Nat \ {0} /\ Children.max_history \in Nat \ {0}
  BY BatchAssumption DEF Pool
<1>2. Roots.max_history \in Int /\ Children.max_history \in Int
  BY <1>1
<1>3. Threshold = IF Roots.max_history <= Children.max_history THEN Roots.max_history
                  ELSE Children.max_history
  BY <1>2, OfTwo, Zenon DEF Threshold
<1>4. QED
  BY <1>1, <1>3

\* A hub before a cutoff: more counted payments of a relation than the threshold.
LEMMA HubBeforeIs ==
    ASSUME log \in Log, NEW cutoff \in Nat, NEW key
    PROVE  HubBefore(cutoff, key)
             <=> \E rel \in Range(Relations) : Cardinality(Counted(log, cutoff, key, rel)) > Threshold
BY PastCounts DEF HubBefore

\* A hub before a cutoff is one before a later cutoff.
LEMMA HubBeforeLater ==
    ASSUME log \in Log, NEW cutoff \in Nat, NEW later \in Nat, cutoff <= later, NEW key,
           HubBefore(cutoff, key)
    PROVE  HubBefore(later, key)
<1>1. PICK rel \in Range(Relations) : Cardinality(Counted(log, cutoff, key, rel)) > Threshold
  BY HubBeforeIs
<1>2. /\ Cardinality(Counted(log, cutoff, key, rel)) <= Cardinality(Counted(log, later, key, rel))
      /\ Cardinality(Counted(log, cutoff, key, rel)) \in Nat
      /\ Cardinality(Counted(log, later, key, rel)) \in Nat
  BY CountedFinite
<1>3. Cardinality(Counted(log, later, key, rel)) > Threshold
  BY <1>1, <1>2, ThresholdIs
<1>4. QED
  BY <1>3, HubBeforeIs

\* An account that the view does not show has no visible payments.
LEMMA UnseenNoHub ==
    ASSUME log \in Log, NEW cutoff \in Nat, NEW key, key.node \in Accounts, ~InPhase(key, key.node)
    PROVE  ~HubBefore(cutoff, key)
<1>1. ASSUME NEW rel PROVE Counted(log, cutoff, key, rel) = {}
  <2>1. ASSUME NEW n \in Incident(log, key.node, rel) PROVE key.node \in Endpoints(log, n)
    <3>1. /\ n \in DOMAIN log /\ IsPayment(log, n)
          /\ key.node \in {log[n].from, log[n].ftok, log[n].to, log[n].ttok}
      BY <2>1 DEF Incident
    <3>2. log[n].ftok \in Tokens \cup {None} /\ log[n].ttok \in Tokens \cup {None} /\ None \notin Accounts
      BY <3>1, EntryRoles
    <3>3. Accounts \cap Tokens = {}
      BY GraphAssumption
    <3>4. key.node \in {log[n].from, log[n].to} /\ key.node # None
      BY <3>1, <3>2, <3>3
    <3>5. QED
      BY <3>4 DEF Endpoints
  <2>2. QED
    BY <2>1 DEF Counted
<1>2. Cardinality({}) = 0
  BY FS_EmptySet
<1>3. \A rel : ~(Cardinality(Counted(log, cutoff, key, rel)) > Threshold)
  BY <1>1, <1>2, ThresholdIs
<1>4. QED
  BY <1>3, HubBeforeIs
\* The registry of a dataset whose cutoffs the graph has reached.
Registered(g) ==
    /\ \A c \in Cutoffs : c <= Len(g) + 1
    /\ registry = [s \in BOOLEAN |-> HubAccounts(g, Cutoffs, Threshold, s)]

\* An account is a stub at a cutoff if and only if it is a hub before it.
LEMMA StubIsHub ==
    ASSUME log \in Log, Registered(log), NEW cutoff \in Cutoffs, NEW key, View(key)
    PROVE  IsStub(key, cutoff) <=> key.node \in Accounts /\ HubBefore(cutoff, key)
<1> DEFINE hub == [account |-> key.node, cutoff |-> cutoff, phase |-> key.phase]
<1>1. cutoff \in Nat
  BY BatchAssumption
<1>2. registry[key.scoped] = HubAccounts(log, Cutoffs, Threshold, key.scoped)
  BY DEF Registered, View
<1>3. key.phase \in RegistryViews(key.scoped)
  BY DEF View, RegistryViews
<1>4. ASSUME key.node \in Accounts
      PROVE  hub \in HubAccounts(log, Cutoffs, Threshold, key.scoped)
               <=> /\ key.scoped => Partition[key.node] \in 1..key.phase
                   /\ \E rel \in Range(Relations) :
                        HubCount(log, key.node, rel, cutoff, key.scoped, key.phase) > Threshold
  <2>1. hub \in [account : Accounts, cutoff : Cutoffs, phase : RegistryViews(key.scoped)]
    BY <1>3, <1>4
  <2>2. hub.account = key.node /\ hub.cutoff = cutoff /\ hub.phase = key.phase
    OBVIOUS
  <2> HIDE DEF hub
  <2>3. QED
    BY <2>1, <2>2 DEF HubAccounts
<1>5. (\E rel \in Range(Relations) :
         HubCount(log, key.node, rel, cutoff, key.scoped, key.phase) > Threshold)
        <=> HubBefore(cutoff, key)
  BY <1>1, HubCountIs, HubBeforeIs
<1>6. ASSUME key.node \in Accounts, HubBefore(cutoff, key)
      PROVE  key.scoped => Partition[key.node] \in 1..key.phase
  BY <1>1, <1>6, UnseenNoHub DEF InPhase
<1>7. QED
  BY <1>2, <1>4, <1>5, <1>6 DEF IsStub

\* A longer log has the same payments before a cutoff, so the same hubs.
LEMMA HubsStay ==
    ASSUME NEW g \in Log, NEW e \in Payment \cup Binding, \A c \in Cutoffs : c <= Len(g) + 1,
           NEW s \in BOOLEAN
    PROVE  HubAccounts(Append(g, e), Cutoffs, Threshold, s) = HubAccounts(g, Cutoffs, Threshold, s)
<1> DEFINE h == Append(g, e)
<1>1. h \in Log /\ Len(h) = Len(g) + 1 /\ Len(g) \in Nat /\ DOMAIN g = 1..Len(g)
      /\ DOMAIN h = 1..(Len(g) + 1) /\ \A n \in DOMAIN g : h[n] = g[n]
  BY DEF Log
<1>2. ASSUME NEW a, NEW rel, NEW c \in Cutoffs, NEW phase
      PROVE  HubCount(h, a, rel, c, s, phase) = HubCount(g, a, rel, c, s, phase)
  <2>1. \A n : n < c /\ n \in DOMAIN h <=> n < c /\ n \in DOMAIN g
    <3>1. c \in Nat /\ c <= Len(g) + 1
      BY BatchAssumption
    <3> HIDE DEF h
    <3>2. QED
      BY <1>1, <3>1
  <2>2. \A n \in DOMAIN g : /\ IsPayment(h, n) <=> IsPayment(g, n)
                            /\ EventPhase(h, n) = EventPhase(g, n)
    BY <1>1 DEF IsPayment, EventPhase, Endpoints
  <2>3. ASSUME NEW n PROVE n < c /\ n \in Incident(h, a, rel) <=> n < c /\ n \in Incident(g, a, rel)
    <3> HIDE DEF h
    <3>1. QED
      BY <1>1, <2>1, <2>2 DEF Incident
  <2>4. \A n \in Incident(g, a, rel) : n \in DOMAIN g
    BY DEF Incident
  <2>5. {n \in Incident(h, a, rel) : n < c /\ (s => EventPhase(h, n) <= phase)}
          = {n \in Incident(g, a, rel) : n < c /\ (s => EventPhase(g, n) <= phase)}
    <3> HIDE DEF h
    <3>1. QED
      BY <2>2, <2>3, <2>4
  <2>6. QED
    BY <2>5 DEF HubCount
<1>3. \A v \in [account : Accounts, cutoff : Cutoffs, phase : RegistryViews(s)] :
        v.cutoff \in Cutoffs
  OBVIOUS
<1> HIDE DEF h
<1>4. HubAccounts(h, Cutoffs, Threshold, s) = HubAccounts(g, Cutoffs, Threshold, s)
  BY <1>2, <1>3 DEF HubAccounts
<1>5. QED
  BY <1>4 DEF h
-------------------------------------------------------------------------------
(* A call: the answers of its requests, and the scans of an answer.                        *)

CallStep(g, pool, done, key) ==
    LET answer == Answer(g, key, pool, done.acc)
    IN [rows |-> Append(done.rows, answer.row), acc |-> answer.acc]

\* What a call has done after each request.
CallRun(v, g, keys, pool, n) ==
    /\ v[0] = [rows |-> <<>>, acc |-> Catalog(keys)]
    /\ \A k \in 1..n : v[k] = CallStep(g, pool, v[k - 1], keys[k])
    /\ Call(g, keys, pool) = v[n]

\* A call answers its requests one after the other.
LEMMA CallSteps ==
    ASSUME NEW g, NEW keys, NEW n \in Nat, DOMAIN keys = 1..n, NEW pool
    PROVE  \E v : CallRun(v, g, keys, pool, n)
<1> DEFINE Is(f, k) == f = [d \in SUBSET (1..k) |-> IF d = {} THEN [rows |-> <<>>, acc |-> Catalog(keys)]
                              ELSE CallStep(g, pool, f[d \ {Max(d)}], keys[Max(d)])]
           S == {k \in 0..n : \E f : Is(f, k)}
<1>1. 0 \in S
  <2>1. SUBSET (1..0) = {{}}
    OBVIOUS
  <2>2. Is([d \in SUBSET (1..0) |-> [rows |-> <<>>, acc |-> Catalog(keys)]], 0)
    BY <2>1
  <2> HIDE DEF Is
  <2>3. QED
    BY <2>2
<1>2. ASSUME NEW k \in 0..(n - 1), k \in S PROVE k + 1 \in S
  <2>1. PICK f : Is(f, k)
    BY <1>2
  <2> DEFINE more == [d \in SUBSET (1..k + 1) |->
                     IF k + 1 \in d THEN CallStep(g, pool, f[d \ {k + 1}], keys[k + 1]) ELSE f[d]]
  <2>2. \A d \in SUBSET (1..k) : more[d] = f[d]
    <3>1. \A d \in SUBSET (1..k) : d \in SUBSET (1..k + 1) /\ k + 1 \notin d
      OBVIOUS
    <3>2. QED
      BY <3>1
  <2>3. ASSUME NEW d \in SUBSET (1..k + 1)
        PROVE  more[d] = IF d = {} THEN [rows |-> <<>>, acc |-> Catalog(keys)] ELSE CallStep(g, pool, more[d \ {Max(d)}], keys[Max(d)])
    <3>1. CASE k + 1 \in d
      <4>1. Max(d) = k + 1 /\ d \ {k + 1} \in SUBSET (1..k)
        BY <3>1, MaxPosition
      <4>2. more[d] = CallStep(g, pool, f[d \ {k + 1}], keys[k + 1])
        BY <3>1
      <4> HIDE DEF more
      <4>3. QED
        BY <2>2, <3>1, <4>1, <4>2
    <3>2. CASE k + 1 \notin d
      <4>1. d \in SUBSET (1..k) /\ (d # {} => Max(d) \in d)
        BY <3>2, MaxPosition
      <4>2. f[d] = IF d = {} THEN [rows |-> <<>>, acc |-> Catalog(keys)] ELSE CallStep(g, pool, f[d \ {Max(d)}], keys[Max(d)])
        BY <2>1, <4>1
      <4>3. more[d] = f[d] /\ more[d \ {Max(d)}] = f[d \ {Max(d)}]
        <5> HIDE DEF more
        <5>1. QED
          BY <2>2, <4>1
      <4> HIDE DEF more
      <4>4. QED
        BY <4>2, <4>3
    <3>3. QED
      BY <3>1, <3>2
  <2>4. more = [d \in SUBSET (1..k + 1) |-> more[d]]
    OBVIOUS
  <2> HIDE DEF more
  <2>5. Is(more, k + 1)
    BY <2>3, <2>4
  <2> HIDE DEF Is
  <2>6. QED
    BY <2>5
<1>3. n \in S
  <2> HIDE DEF S
  <2>1. 0..n \subseteq S /\ n \in 0..n
    BY <1>1, <1>2, UpTo
  <2>2. QED
    BY <2>1
<1> DEFINE h == CHOOSE f : Is(f, n)
<1>4. Call(g, keys, pool) = h[1..n]
  BY DEF Call, FoldLeft, MapThenFoldSet, CallStep
<1>5. Is(h, n)
  BY <1>3
<1>6. \A d \in SUBSET (1..n) : h[d] = IF d = {} THEN [rows |-> <<>>, acc |-> Catalog(keys)] ELSE CallStep(g, pool, h[d \ {Max(d)}], keys[Max(d)])
  <2> HIDE DEF h
  <2>1. QED
    BY <1>5
<1> DEFINE v == [k \in 0..n |-> h[1..k]]
<1> HIDE DEF h, Is, S
<1>7. v[0] = [rows |-> <<>>, acc |-> Catalog(keys)]
  <2>1. {} \in SUBSET (1..n) /\ (1..0) = {} /\ 0 \in 0..n
    OBVIOUS
  <2>2. QED
    BY <1>6, <2>1
<1>8. ASSUME NEW k \in 1..n PROVE v[k] = CallStep(g, pool, v[k - 1], keys[k])
  <2>1. h[1..k] = CallStep(g, pool, h[1..(k - 1)], keys[k])
    BY <1>6, Prefix
  <2>2. k - 1 \in 0..n /\ k \in 0..n
    OBVIOUS
  <2>3. QED
    BY <2>1, <2>2
<1>9. Call(g, keys, pool) = v[n]
  BY <1>4
<1> HIDE DEF v
<1>10. QED
  BY <1>7, <1>8, <1>9 DEF CallRun

NoScan(acc) == [status |-> "ok", acc |-> acc, invalid |-> FALSE, history |-> {}, events |-> {}]

\* An answer scans the relations one after the other.
LEMMA ScanSteps ==
    ASSUME NEW acc, NEW g, NEW key, NEW pool, NEW n \in Nat, n = 4
    PROVE  \E v : /\ v[0] = NoScan(acc)
                  /\ \A k \in 1..n : v[k] = ScanRelation(v[k - 1], g, key, pool, Relations[k])
                  /\ Scanned(acc, g, key, pool) = v[n]
<1> DEFINE Is(f, k) == f = [d \in SUBSET (1..k) |-> IF d = {} THEN NoScan(acc)
                              ELSE ScanRelation(f[d \ {Max(d)}], g, key, pool, Relations[Max(d)])]
           S == {k \in 0..n : \E f : Is(f, k)}
<1>1. 0 \in S
  <2>1. SUBSET (1..0) = {{}}
    OBVIOUS
  <2>2. Is([d \in SUBSET (1..0) |-> NoScan(acc)], 0)
    BY <2>1
  <2> HIDE DEF Is
  <2>3. QED
    BY <2>2
<1>2. ASSUME NEW k \in 0..(n - 1), k \in S PROVE k + 1 \in S
  <2>1. PICK f : Is(f, k)
    BY <1>2
  <2> DEFINE more == [d \in SUBSET (1..k + 1) |->
                     IF k + 1 \in d THEN ScanRelation(f[d \ {k + 1}], g, key, pool, Relations[k + 1]) ELSE f[d]]
  <2>2. \A d \in SUBSET (1..k) : more[d] = f[d]
    <3>1. \A d \in SUBSET (1..k) : d \in SUBSET (1..k + 1) /\ k + 1 \notin d
      OBVIOUS
    <3>2. QED
      BY <3>1
  <2>3. ASSUME NEW d \in SUBSET (1..k + 1)
        PROVE  more[d] = IF d = {} THEN NoScan(acc) ELSE ScanRelation(more[d \ {Max(d)}], g, key, pool, Relations[Max(d)])
    <3>1. CASE k + 1 \in d
      <4>1. Max(d) = k + 1 /\ d \ {k + 1} \in SUBSET (1..k)
        BY <3>1, MaxPosition
      <4>2. more[d] = ScanRelation(f[d \ {k + 1}], g, key, pool, Relations[k + 1])
        BY <3>1
      <4> HIDE DEF more
      <4>3. QED
        BY <2>2, <3>1, <4>1, <4>2
    <3>2. CASE k + 1 \notin d
      <4>1. d \in SUBSET (1..k) /\ (d # {} => Max(d) \in d)
        BY <3>2, MaxPosition
      <4>2. f[d] = IF d = {} THEN NoScan(acc) ELSE ScanRelation(f[d \ {Max(d)}], g, key, pool, Relations[Max(d)])
        BY <2>1, <4>1
      <4>3. more[d] = f[d] /\ more[d \ {Max(d)}] = f[d \ {Max(d)}]
        <5> HIDE DEF more
        <5>1. QED
          BY <2>2, <4>1
      <4> HIDE DEF more
      <4>4. QED
        BY <4>2, <4>3
    <3>3. QED
      BY <3>1, <3>2
  <2>4. more = [d \in SUBSET (1..k + 1) |-> more[d]]
    OBVIOUS
  <2> HIDE DEF more
  <2>5. Is(more, k + 1)
    BY <2>3, <2>4
  <2> HIDE DEF Is
  <2>6. QED
    BY <2>5
<1>3. n \in S
  <2> HIDE DEF S
  <2>1. 0..n \subseteq S /\ n \in 0..n
    BY <1>1, <1>2, UpTo
  <2>2. QED
    BY <2>1
<1> DEFINE h == CHOOSE f : Is(f, n)
<1>4. Scanned(acc, g, key, pool) = h[1..n]
  BY DEF Scanned, FoldLeft, MapThenFoldSet, NoScan, Relations
<1>5. Is(h, n)
  BY <1>3
<1>6. \A d \in SUBSET (1..n) : h[d] = IF d = {} THEN NoScan(acc) ELSE ScanRelation(h[d \ {Max(d)}], g, key, pool, Relations[Max(d)])
  <2> HIDE DEF h
  <2>1. QED
    BY <1>5
<1> DEFINE v == [k \in 0..n |-> h[1..k]]
<1> HIDE DEF h, Is, S
<1>7. v[0] = NoScan(acc)
  <2>1. {} \in SUBSET (1..n) /\ (1..0) = {} /\ 0 \in 0..n
    OBVIOUS
  <2>2. QED
    BY <1>6, <2>1
<1>8. ASSUME NEW k \in 1..n PROVE v[k] = ScanRelation(v[k - 1], g, key, pool, Relations[k])
  <2>1. h[1..k] = ScanRelation(h[1..(k - 1)], g, key, pool, Relations[k])
    BY <1>6, Prefix
  <2>2. k - 1 \in 0..n /\ k \in 0..n
    OBVIOUS
  <2>3. QED
    BY <2>1, <2>2
<1>9. Scanned(acc, g, key, pool) = v[n]
  BY <1>4
<1> HIDE DEF v
<1>10. QED
  BY <1>7, <1>8, <1>9
-------------------------------------------------------------------------------
(* A finite set in a strict total order R, as the pairs of the earlier and the later.      *)

StrictTotal(R, S) ==
    /\ \A x \in S : <<x, x>> \notin R
    /\ \A x, y, z \in S : <<x, y>> \in R /\ <<y, z>> \in R => <<x, z>> \in R
    /\ \A x, y \in S : x # y => <<x, y>> \in R \/ <<y, x>> \in R

\* Every rank up to the size of the set is that of a member.
LEMMA Ranked ==
    ASSUME NEW S, IsFiniteSet(S), NEW R, StrictTotal(R, S), NEW i \in 1..Cardinality(S)
    PROVE  \E x \in S : Cardinality({y \in S : <<y, x>> \in R}) = i - 1
<1> DEFINE Below(x) == {y \in S : <<y, x>> \in R}
           n == Cardinality(S)
           rank == [x \in S |-> Cardinality(Below(x))]
<1>1. n \in Nat
  BY FS_CardinalityType
<1>2. ASSUME NEW x \in S
      PROVE  IsFiniteSet(Below(x)) /\ Cardinality(Below(x)) \in 0..(n - 1)
  <2>1. Below(x) \in SUBSET (S \ {x})
    BY DEF StrictTotal
  <2>2. IsFiniteSet(S \ {x}) /\ Cardinality(S \ {x}) = n - 1
    BY FS_RemoveElement
  <2> HIDE DEF Below, n
  <2>3. IsFiniteSet(Below(x)) /\ Cardinality(Below(x)) <= n - 1
    BY <2>1, <2>2, FS_Subset
  <2>4. Cardinality(Below(x)) \in Nat
    BY <2>3, FS_CardinalityType
  <2>5. QED
    BY <1>1, <2>3, <2>4
<1>3. ASSUME NEW x \in S, NEW y \in S, <<x, y>> \in R
      PROVE  Cardinality(Below(x)) # Cardinality(Below(y))
  <2>1. Below(x) \in SUBSET Below(y) /\ x \in Below(y) /\ x \notin Below(x)
    BY <1>3 DEF StrictTotal
  <2>2. IsFiniteSet(Below(y))
    BY <1>2
  <2> HIDE DEF Below
  <2>3. QED
    BY <2>1, <2>2, FS_Subset
<1>4. rank \in Injection(S, 0..(n - 1))
  <2>1. rank \in [S -> 0..(n - 1)]
    <3> HIDE DEF Below, n
    <3>1. QED
      BY <1>2
  <2>2. \A x, y \in S : rank[x] = rank[y] => x = y
    <3>1. \A x, y \in S : x # y => <<x, y>> \in R \/ <<y, x>> \in R
      BY DEF StrictTotal
    <3> HIDE DEF Below
    <3>2. QED
      BY <1>3, <3>1
  <2> HIDE DEF rank
  <2>3. QED
    BY <2>1, <2>2 DEF Injection, IsInjective
<1>5. IsFiniteSet(0..(n - 1)) /\ Cardinality(0..(n - 1)) = n
  <2> HIDE DEF n
  <2>1. 0 \in Int /\ n - 1 \in Int
    BY <1>1
  <2>2. IsFiniteSet(0..(n - 1)) /\ Cardinality(0..(n - 1)) = IF 0 > n - 1 THEN 0 ELSE (n - 1) - 0 + 1
    BY <2>1, FS_Interval
  <2>3. QED
    BY <1>1, <2>2
<1>6. rank \in Surjection(S, 0..(n - 1))
  <2> HIDE DEF rank
  <2>1. Cardinality(S) = Cardinality(0..(n - 1))
    BY <1>5
  <2> HIDE DEF n
  <2>2. QED
    BY <1>4, <1>5, <2>1, FS_Injection
<1>7. i - 1 \in 0..(n - 1)
  BY <1>1
<1>8. PICK x \in S : rank[x] = i - 1
  <2> HIDE DEF rank, n
  <2>1. QED
    BY <1>6, <1>7 DEF Surjection
<1>9. QED
  BY <1>8

\* The members of a set in a strict total order are members of it.
LEMMA OrderedMembers ==
    ASSUME NEW S, IsFiniteSet(S), NEW R, StrictTotal(R, S), NEW s,
           s = [i \in 1..Cardinality(S) |->
                  CHOOSE x \in S : Cardinality({y \in S : <<y, x>> \in R}) = i - 1]
    PROVE  s \in Seq(S) /\ DOMAIN s = 1..Cardinality(S)
<1>1. Cardinality(S) \in Nat
  BY FS_CardinalityType
<1> DEFINE n == Cardinality(S)
           At(i) == CHOOSE x \in S : Cardinality({y \in S : <<y, x>> \in R}) = i - 1
<1>2. \A i \in 1..n : At(i) \in S
  BY Ranked
<1>3. s = [i \in 1..n |-> At(i)] /\ \A i \in 1..n : At(i) \in S
  BY <1>2
<1>4. n \in Nat
  BY <1>1
<1> HIDE DEF n, At
<1>5. s \in [1..n -> S] /\ DOMAIN s = 1..n
  BY <1>3
<1>6. s \in Seq(S) /\ DOMAIN s = 1..n
  BY <1>4, <1>5, SeqDef, Zenon
<1>7. QED
  BY <1>6 DEF n

\* Sequence numbers, the latest first.
LEMMA DescendingMembers ==
    ASSUME NEW S \in SUBSET Nat, IsFiniteSet(S)
    PROVE  Descending(S) \in Seq(S)
<1> DEFINE R == {p \in S \X S : p[1] > p[2]}
<1>1. StrictTotal(R, S)
  <2>1. \A x, y \in S : <<x, y>> \in R <=> x > y
    OBVIOUS
  <2>2. \A x \in S : x \in Nat
    OBVIOUS
  <2> HIDE DEF R
  <2>3. QED
    BY <2>1, <2>2 DEF StrictTotal
<1>2. Descending(S) = [i \in 1..Cardinality(S) |->
                          CHOOSE x \in S : Cardinality({y \in S : <<y, x>> \in R}) = i - 1]
  <2>1. \A x \in S : {y \in S : <<y, x>> \in R} = {y \in S : y > x}
    OBVIOUS
  <2> HIDE DEF R
  <2>2. ASSUME NEW i
        PROVE  (CHOOSE x \in S : Cardinality({y \in S : <<y, x>> \in R}) = i - 1)
                 = CHOOSE x \in S : Cardinality({y \in S : y > x}) = i - 1
    BY <2>1
  <2>3. Descending(S) = [i \in 1..Cardinality(S) |->
                           CHOOSE x \in S : Cardinality({y \in S : y > x}) = i - 1]
    BY DEF Descending, Ordered
  <2>4. QED
    BY <2>2, <2>3, Zenon
<1>3. QED
  <2> HIDE DEF R
  <2>1. QED
    BY <1>1, <1>2, OrderedMembers
-------------------------------------------------------------------------------
(* The candidates of a relation: every payment is taken once, in one stratum.              *)

Strata == {"recent", "older", "distinct"}

Ranks(ordered) == [i \in 1..Len(ordered) |-> i - 1]

PeerAt(g, rel, ordered, rank) == Peer(g, ordered[rank + 1], rel)

RecentStep(g, rel, ordered, pool, s, rank) ==
    IF rank < pool.recent THEN Take(s, ordered[rank + 1], "recent", PeerAt(g, rel, ordered, rank)) ELSE s

OlderStep(g, rel, ordered, pool, s, rank) ==
    IF /\ Len(ordered) > pool.recent
       /\ rank \in {pool.recent + ((Len(ordered) - pool.recent - 1) * j) \div (pool.older + 1)
                      : j \in 1..pool.older}
       /\ ordered[rank + 1] \notin s.selected
    THEN Take(s, ordered[rank + 1], "older", PeerAt(g, rel, ordered, rank)) ELSE s

DistinctStep(g, rel, ordered, pool, s, rank) ==
    IF /\ s.diverse < pool.distinct
       /\ ordered[rank + 1] \notin s.selected
       /\ PeerAt(g, rel, ordered, rank) \notin s.peers
    THEN [Take(s, ordered[rank + 1], "distinct", PeerAt(g, rel, ordered, rank)) EXCEPT !.diverse = @ + 1]
    ELSE s

\* What a pass has taken of some payments.
Fields(V) == [sampled : SUBSET (V \X Strata), selected : SUBSET V,
              peers : SUBSET (Nodes \cup {None}), diverse : Nat]
Firsts(S) == {x[1] : x \in S}
Taken(V) ==
    {s \in Fields(V) : /\ s.selected = Firsts(s.sampled)
                       /\ \A x, y \in s.sampled : x[1] = y[1] => x = y}
TakenRecent(V) == {s \in Taken(V) : \A x \in s.sampled : x[2] = "recent"}

RecentPass(g, rel, ordered, pool, base) ==
    FoldLeft(LAMBDA s, rank : RecentStep(g, rel, ordered, pool, s, rank), base, Ranks(ordered))
OlderPass(g, rel, ordered, pool, base) ==
    FoldLeft(LAMBDA s, rank : OlderStep(g, rel, ordered, pool, s, rank), base, Ranks(ordered))
DistinctPass(g, rel, ordered, pool, base) ==
    FoldLeft(LAMBDA s, rank : DistinctStep(g, rel, ordered, pool, s, rank), base, Ranks(ordered))

NothingTaken == [sampled |-> {}, selected |-> {}, peers |-> {}, diverse |-> 0]

\* The candidates are taken in three passes.
LEMMA SampledPasses ==
    ASSUME NEW g, NEW rel, NEW ordered, NEW pool
    PROVE  Sampled(g, rel, ordered, pool) =
             DistinctPass(g, rel, ordered, pool, OlderPass(g, rel, ordered, pool,
               RecentPass(g, rel, ordered, pool, NothingTaken))).sampled
BY DEF Sampled, DistinctPass, OlderPass, RecentPass, NothingTaken, Ranks, PeerAt, RecentStep,
       OlderStep, DistinctStep, FoldLeft, MapThenFoldSet


\* Taking adds to each of the three sets.
LEMMA TakeFields ==
    ASSUME NEW V, NEW s \in Fields(V),
           s.selected = Firsts(s.sampled), NEW n \in V, NEW stratum \in Strata,
           NEW peer \in Nodes \cup {None}, NEW t, t = Take(s, n, stratum, peer)
    PROVE  /\ t.sampled = s.sampled \cup {<<n, stratum>>} /\ t.selected = s.selected \cup {n}
           /\ t.diverse = s.diverse
           /\ t \in Fields(V)
           /\ t.selected = Firsts(t.sampled)
<1>1. t = [s EXCEPT !.sampled = s.sampled \cup {<<n, stratum>>}, !.selected = s.selected \cup {n},
                    !.peers = s.peers \cup {peer}]
  BY DEF Take
<1>2. s.sampled \cup {<<n, stratum>>} \in SUBSET (V \X Strata) /\ s.selected \cup {n} \in SUBSET V
      /\ s.peers \cup {peer} \in SUBSET (Nodes \cup {None})
  BY DEF Fields
<1>3. t.sampled = s.sampled \cup {<<n, stratum>>} /\ t.selected = s.selected \cup {n}
      /\ t.diverse = s.diverse
  BY <1>1 DEF Fields
<1>4. t \in Fields(V)
  BY <1>1, <1>2 DEF Fields
<1>5. t.selected = Firsts(t.sampled)
  <2>1. \A y : y \in t.selected <=> \E x \in t.sampled : y = x[1]
    <3>1. \A y : y \in s.selected <=> \E x \in s.sampled : y = x[1]
      BY DEF Firsts
    <3>2. <<n, stratum>>[1] = n
      OBVIOUS
    <3>3. QED
      BY <1>3, <3>1, <3>2, Zenon
  <2>2. \A y : y \in Firsts(t.sampled) <=> \E x \in t.sampled : y = x[1]
    BY DEF Firsts
  <2>3. QED
    BY <2>1, <2>2
<1>6. QED
  BY <1>3, <1>4, <1>5

\* A payment that was not taken may be.
LEMMA TakeTyped ==
    ASSUME NEW V, NEW s \in Taken(V), NEW n \in V, NEW stratum \in Strata,
           NEW peer \in Nodes \cup {None}, n \notin s.selected
    PROVE  Take(s, n, stratum, peer) \in Taken(V)
<1> DEFINE t == Take(s, n, stratum, peer)
<1>1. /\ s \in Fields(V)
      /\ s.selected = Firsts(s.sampled)
      /\ \A x, y \in s.sampled : x[1] = y[1] => x = y
  BY DEF Taken
<1>2. /\ t.sampled = s.sampled \cup {<<n, stratum>>}
      /\ t \in Fields(V)
      /\ t.selected = Firsts(t.sampled)
  <2>1. t = Take(s, n, stratum, peer)
    OBVIOUS
  <2> HIDE DEF t
  <2>2. QED
    BY <1>1, <2>1, TakeFields
<1>3. \A x \in s.sampled : x[1] \in s.selected
  BY <1>1 DEF Firsts
<1> HIDE DEF t
<1>4. \A x, y \in t.sampled : x[1] = y[1] => x = y
  <2>1. \A x \in s.sampled : x[1] # n
    BY <1>3
  <2>2. QED
    BY <1>1, <1>2, <2>1
<1>5. t \in Taken(V)
  BY <1>2, <1>4 DEF Taken
<1>6. QED
  BY <1>5 DEF t

\* The latest payments may be taken again: in the same stratum.
LEMMA TakeRecent ==
    ASSUME NEW V, NEW s \in TakenRecent(V), NEW n \in V, NEW peer \in Nodes \cup {None}
    PROVE  Take(s, n, "recent", peer) \in TakenRecent(V)
<1> DEFINE t == Take(s, n, "recent", peer)
<1>1. /\ s \in Fields(V)
      /\ s.selected = Firsts(s.sampled)
      /\ \A x \in s.sampled : x \in V \X Strata /\ x[2] = "recent"
  BY DEF Taken, TakenRecent, Fields
<1>2. "recent" \in Strata
  BY DEF Strata
<1>3. /\ t.sampled = s.sampled \cup {<<n, "recent">>}
      /\ t \in Fields(V)
      /\ t.selected = Firsts(t.sampled)
  <2>1. t = Take(s, n, "recent", peer)
    OBVIOUS
  <2> HIDE DEF t
  <2>2. QED
    BY <1>1, <1>2, <2>1, TakeFields
<1> HIDE DEF t
<1>4. \A x \in t.sampled : x \in V \X Strata /\ x[2] = "recent"
  <2>1. <<n, "recent">> \in V \X Strata /\ <<n, "recent">>[2] = "recent"
    BY <1>2
  <2>2. QED
    BY <1>1, <1>3, <2>1
<1>5. \A x, y \in t.sampled : x[1] = y[1] => x = y
  <2>1. \A x, y \in V \X Strata : x[1] = y[1] /\ x[2] = y[2] => x = y
    OBVIOUS
  <2>2. QED
    BY <1>4, <2>1
<1>6. t \in TakenRecent(V)
  BY <1>3, <1>4, <1>5 DEF Taken, TakenRecent
<1>7. QED
  BY <1>6 DEF t

\* Payments in a sequence, with counterparties a graph has.
PaymentsAt(V, g, rel, ordered, n) ==
    /\ ordered \in Seq(V) /\ Len(ordered) = n
    /\ \A e \in V : Peer(g, e, rel) \in Nodes \cup {None}

\* What the recent pass takes.
LEMMA RecentTakes ==
    ASSUME NEW V, NEW g, NEW rel, NEW ordered, NEW pool, NEW n \in Nat,
           PaymentsAt(V, g, rel, ordered, n), NEW base \in TakenRecent(V)
    PROVE  RecentPass(g, rel, ordered, pool, base) \in TakenRecent(V)
<1> DEFINE E == 0..(n - 1)
           A == TakenRecent(V)
           F == [p \in A \X E |-> RecentStep(g, rel, ordered, pool, p[1], p[2])]
           Is(f) == f = [d \in SUBSET (1..n) |-> IF d = {} THEN base
                           ELSE RecentStep(g, rel, ordered, pool, f[d \ {Max(d)}], Ranks(ordered)[Max(d)])]
<1>1. \A a \in A, k \in E : RecentStep(g, rel, ordered, pool, a, k) \in A
  <2>1. \A k \in E : ordered[k + 1] \in V /\ PeerAt(g, rel, ordered, k) \in Nodes \cup {None}
    BY DEF PaymentsAt, PeerAt
  <2> HIDE DEF E
  <2>2. QED
    BY <2>1, TakeRecent DEF RecentStep
<1>2. base \in A /\ F \in [A \X E -> A] /\ \A k \in 1..n : Ranks(ordered)[k] \in E
  <2>1. \A p \in A \X E : RecentStep(g, rel, ordered, pool, p[1], p[2]) \in A
    <3> HIDE DEF A, E
    <3>1. QED
      BY <1>1
  <2>2. base \in A
    OBVIOUS
  <2>3. \A k \in 1..n : Ranks(ordered)[k] \in E
    BY DEF PaymentsAt, Ranks
  <2> HIDE DEF A, E
  <2>4. QED
    BY <2>1, <2>2, <2>3
<1>3. PICK f : Folds(f, n, base, F, [k \in 1..n |-> Ranks(ordered)[k]])
  BY FoldExists
<1>4. \A d \in SUBSET (1..n) : f[d] \in A
  <2>1. [k \in 1..n |-> Ranks(ordered)[k]] \in [1..n -> E]
    BY <1>2
  <2> HIDE DEF A, F, E
  <2>2. QED
    BY <1>2, <1>3, <2>1, FoldTyped
<1>5. Is(f)
  <2>1. \A d \in SUBSET (1..n) : d # {} => d \ {Max(d)} \in SUBSET (1..n) /\ Max(d) \in 1..n
    <3>1. \A d \in SUBSET (1..n) : d \in SUBSET (1..n + 1)
      OBVIOUS
    <3>2. QED
      BY <3>1, MaxPosition
  <2>2. \A d \in SUBSET (1..n) : d # {} =>
          F[<<f[d \ {Max(d)}], Ranks(ordered)[Max(d)]>>] = RecentStep(g, rel, ordered, pool, f[d \ {Max(d)}], Ranks(ordered)[Max(d)])
    <3> HIDE DEF A, E
    <3>1. QED
      BY <1>2, <1>4, <2>1
  <2> HIDE DEF A, F, E
  <2>3. QED
    BY <1>3, <2>1, <2>2 DEF Folds
<1>6. RecentPass(g, rel, ordered, pool, base) = (CHOOSE h : Is(h))[1..n]
  BY DEF RecentPass, FoldLeft, MapThenFoldSet, PaymentsAt, Ranks
<1> DEFINE whole == CHOOSE h : Is(h)
<1>7. Is(whole)
  BY <1>5
<1>8. whole[{}] \in A /\ \A k \in 1..n : whole[1..(k - 1)] \in A => whole[1..k] \in A
  <2> HIDE DEF whole
  <2>1. \A d \in SUBSET (1..n) : whole[d] = IF d = {} THEN base
                           ELSE RecentStep(g, rel, ordered, pool, whole[d \ {Max(d)}], Ranks(ordered)[Max(d)])
    BY <1>7
  <2> HIDE DEF Is, A, E, F
  <2>2. \A k \in 1..n : whole[1..k] = RecentStep(g, rel, ordered, pool, whole[1..(k - 1)], Ranks(ordered)[k])
    BY <2>1, Prefix
  <2>3. whole[{}] = base
    BY <2>1
  <2>4. QED
    BY <1>1, <1>2, <2>2, <2>3
<1>9. whole[1..n] \in A
  <2> HIDE DEF A, whole
  <2>1. QED
    BY <1>8, FoldStays
<1>10. QED
  BY <1>6, <1>9

\* What the older pass takes.
LEMMA OlderTakes ==
    ASSUME NEW V, NEW g, NEW rel, NEW ordered, NEW pool, NEW n \in Nat,
           PaymentsAt(V, g, rel, ordered, n), NEW base \in Taken(V)
    PROVE  OlderPass(g, rel, ordered, pool, base) \in Taken(V)
<1> DEFINE E == 0..(n - 1)
           A == Taken(V)
           F == [p \in A \X E |-> OlderStep(g, rel, ordered, pool, p[1], p[2])]
           Is(f) == f = [d \in SUBSET (1..n) |-> IF d = {} THEN base
                           ELSE OlderStep(g, rel, ordered, pool, f[d \ {Max(d)}], Ranks(ordered)[Max(d)])]
<1>1. \A a \in A, k \in E : OlderStep(g, rel, ordered, pool, a, k) \in A
  <2>1. \A k \in E : ordered[k + 1] \in V /\ PeerAt(g, rel, ordered, k) \in Nodes \cup {None}
    BY DEF PaymentsAt, PeerAt
  <2> HIDE DEF E
  <2>2. QED
    BY <2>1, TakeTyped DEF OlderStep, Strata
<1>2. base \in A /\ F \in [A \X E -> A] /\ \A k \in 1..n : Ranks(ordered)[k] \in E
  <2>1. \A p \in A \X E : OlderStep(g, rel, ordered, pool, p[1], p[2]) \in A
    <3> HIDE DEF A, E
    <3>1. QED
      BY <1>1
  <2>2. base \in A
    OBVIOUS
  <2>3. \A k \in 1..n : Ranks(ordered)[k] \in E
    BY DEF PaymentsAt, Ranks
  <2> HIDE DEF A, E
  <2>4. QED
    BY <2>1, <2>2, <2>3
<1>3. PICK f : Folds(f, n, base, F, [k \in 1..n |-> Ranks(ordered)[k]])
  BY FoldExists
<1>4. \A d \in SUBSET (1..n) : f[d] \in A
  <2>1. [k \in 1..n |-> Ranks(ordered)[k]] \in [1..n -> E]
    BY <1>2
  <2> HIDE DEF A, F, E
  <2>2. QED
    BY <1>2, <1>3, <2>1, FoldTyped
<1>5. Is(f)
  <2>1. \A d \in SUBSET (1..n) : d # {} => d \ {Max(d)} \in SUBSET (1..n) /\ Max(d) \in 1..n
    <3>1. \A d \in SUBSET (1..n) : d \in SUBSET (1..n + 1)
      OBVIOUS
    <3>2. QED
      BY <3>1, MaxPosition
  <2>2. \A d \in SUBSET (1..n) : d # {} =>
          F[<<f[d \ {Max(d)}], Ranks(ordered)[Max(d)]>>] = OlderStep(g, rel, ordered, pool, f[d \ {Max(d)}], Ranks(ordered)[Max(d)])
    <3> HIDE DEF A, E
    <3>1. QED
      BY <1>2, <1>4, <2>1
  <2> HIDE DEF A, F, E
  <2>3. QED
    BY <1>3, <2>1, <2>2 DEF Folds
<1>6. OlderPass(g, rel, ordered, pool, base) = (CHOOSE h : Is(h))[1..n]
  BY DEF OlderPass, FoldLeft, MapThenFoldSet, PaymentsAt, Ranks
<1> DEFINE whole == CHOOSE h : Is(h)
<1>7. Is(whole)
  BY <1>5
<1>8. whole[{}] \in A /\ \A k \in 1..n : whole[1..(k - 1)] \in A => whole[1..k] \in A
  <2> HIDE DEF whole
  <2>1. \A d \in SUBSET (1..n) : whole[d] = IF d = {} THEN base
                           ELSE OlderStep(g, rel, ordered, pool, whole[d \ {Max(d)}], Ranks(ordered)[Max(d)])
    BY <1>7
  <2> HIDE DEF Is, A, E, F
  <2>2. \A k \in 1..n : whole[1..k] = OlderStep(g, rel, ordered, pool, whole[1..(k - 1)], Ranks(ordered)[k])
    BY <2>1, Prefix
  <2>3. whole[{}] = base
    BY <2>1
  <2>4. QED
    BY <1>1, <1>2, <2>2, <2>3
<1>9. whole[1..n] \in A
  <2> HIDE DEF A, whole
  <2>1. QED
    BY <1>8, FoldStays
<1>10. QED
  BY <1>6, <1>9

\* What the distinct pass takes.
LEMMA DistinctTakes ==
    ASSUME NEW V, NEW g, NEW rel, NEW ordered, NEW pool, NEW n \in Nat,
           PaymentsAt(V, g, rel, ordered, n), NEW base \in Taken(V)
    PROVE  DistinctPass(g, rel, ordered, pool, base) \in Taken(V)
<1> DEFINE E == 0..(n - 1)
           A == Taken(V)
           F == [p \in A \X E |-> DistinctStep(g, rel, ordered, pool, p[1], p[2])]
           Is(f) == f = [d \in SUBSET (1..n) |-> IF d = {} THEN base
                           ELSE DistinctStep(g, rel, ordered, pool, f[d \ {Max(d)}], Ranks(ordered)[Max(d)])]
<1>1. \A a \in A, k \in E : DistinctStep(g, rel, ordered, pool, a, k) \in A
  <2>1. \A k \in E : ordered[k + 1] \in V /\ PeerAt(g, rel, ordered, k) \in Nodes \cup {None}
    BY DEF PaymentsAt, PeerAt
  <2> HIDE DEF E
  <2>2. ASSUME NEW a \in A, NEW k \in E, ordered[k + 1] \notin a.selected
        PROVE  [Take(a, ordered[k + 1], "distinct", PeerAt(g, rel, ordered, k)) EXCEPT !.diverse = @ + 1] \in A
    <3> DEFINE t == Take(a, ordered[k + 1], "distinct", PeerAt(g, rel, ordered, k))
    <3>1. t \in Taken(V)
      BY <2>1, <2>2, TakeTyped DEF Strata
    <3> HIDE DEF t
    <3>2. [t EXCEPT !.diverse = @ + 1] \in Taken(V)
      BY <3>1 DEF Taken, Fields
    <3>3. QED
      BY <3>2 DEF t
  <2>3. QED
    BY <2>2 DEF DistinctStep
<1>2. base \in A /\ F \in [A \X E -> A] /\ \A k \in 1..n : Ranks(ordered)[k] \in E
  <2>1. \A p \in A \X E : DistinctStep(g, rel, ordered, pool, p[1], p[2]) \in A
    <3> HIDE DEF A, E
    <3>1. QED
      BY <1>1
  <2>2. base \in A
    OBVIOUS
  <2>3. \A k \in 1..n : Ranks(ordered)[k] \in E
    BY DEF PaymentsAt, Ranks
  <2> HIDE DEF A, E
  <2>4. QED
    BY <2>1, <2>2, <2>3
<1>3. PICK f : Folds(f, n, base, F, [k \in 1..n |-> Ranks(ordered)[k]])
  BY FoldExists
<1>4. \A d \in SUBSET (1..n) : f[d] \in A
  <2>1. [k \in 1..n |-> Ranks(ordered)[k]] \in [1..n -> E]
    BY <1>2
  <2> HIDE DEF A, F, E
  <2>2. QED
    BY <1>2, <1>3, <2>1, FoldTyped
<1>5. Is(f)
  <2>1. \A d \in SUBSET (1..n) : d # {} => d \ {Max(d)} \in SUBSET (1..n) /\ Max(d) \in 1..n
    <3>1. \A d \in SUBSET (1..n) : d \in SUBSET (1..n + 1)
      OBVIOUS
    <3>2. QED
      BY <3>1, MaxPosition
  <2>2. \A d \in SUBSET (1..n) : d # {} =>
          F[<<f[d \ {Max(d)}], Ranks(ordered)[Max(d)]>>] = DistinctStep(g, rel, ordered, pool, f[d \ {Max(d)}], Ranks(ordered)[Max(d)])
    <3> HIDE DEF A, E
    <3>1. QED
      BY <1>2, <1>4, <2>1
  <2> HIDE DEF A, F, E
  <2>3. QED
    BY <1>3, <2>1, <2>2 DEF Folds
<1>6. DistinctPass(g, rel, ordered, pool, base) = (CHOOSE h : Is(h))[1..n]
  BY DEF DistinctPass, FoldLeft, MapThenFoldSet, PaymentsAt, Ranks
<1> DEFINE whole == CHOOSE h : Is(h)
<1>7. Is(whole)
  BY <1>5
<1>8. whole[{}] \in A /\ \A k \in 1..n : whole[1..(k - 1)] \in A => whole[1..k] \in A
  <2> HIDE DEF whole
  <2>1. \A d \in SUBSET (1..n) : whole[d] = IF d = {} THEN base
                           ELSE DistinctStep(g, rel, ordered, pool, whole[d \ {Max(d)}], Ranks(ordered)[Max(d)])
    BY <1>7
  <2> HIDE DEF Is, A, E, F
  <2>2. \A k \in 1..n : whole[1..k] = DistinctStep(g, rel, ordered, pool, whole[1..(k - 1)], Ranks(ordered)[k])
    BY <2>1, Prefix
  <2>3. whole[{}] = base
    BY <2>1
  <2>4. QED
    BY <1>1, <1>2, <2>2, <2>3
<1>9. whole[1..n] \in A
  <2> HIDE DEF A, whole
  <2>1. QED
    BY <1>8, FoldStays
<1>10. QED
  BY <1>6, <1>9
\* A payment is sampled once, in one stratum.
LEMMA SampledOnce ==
    ASSUME NEW V \in SUBSET Nat, IsFiniteSet(V), NEW g, NEW rel, NEW pool,
           \A e \in V : Peer(g, e, rel) \in Nodes \cup {None}, NEW S,
           S = Sampled(g, rel, Descending(V), pool)
    PROVE  /\ S \in SUBSET (V \X Strata) /\ IsFiniteSet(S)
           /\ \A x, y \in S : x[1] = y[1] => x = y
<1> DEFINE ordered == Descending(V)
           n == Len(ordered)
           a == RecentPass(g, rel, ordered, pool, NothingTaken)
           b == OlderPass(g, rel, ordered, pool, a)
           c == DistinctPass(g, rel, ordered, pool, b)
<1>1. ordered \in Seq(V)
  BY DescendingMembers
<1>2. n \in Nat /\ PaymentsAt(V, g, rel, ordered, n)
  <2> HIDE DEF ordered
  <2>1. QED
    BY <1>1 DEF PaymentsAt
<1>3. S = c.sampled
  BY SampledPasses
<1> HIDE DEF n, ordered
<1>4. NothingTaken \in TakenRecent(V)
  <2>1. NothingTaken.sampled = {} /\ NothingTaken.selected = {} /\ Firsts({}) = {}
    BY DEF NothingTaken, Firsts
  <2>2. NothingTaken \in Fields(V)
    BY DEF NothingTaken, Fields
  <2>3. QED
    BY <2>1, <2>2 DEF Taken, TakenRecent
<1>5. a \in TakenRecent(V)
  BY <1>2, <1>4, RecentTakes
<1> HIDE DEF a
<1>6. a \in Taken(V)
  BY <1>5 DEF TakenRecent
<1>7. b \in Taken(V)
  BY <1>2, <1>6, OlderTakes
<1> HIDE DEF b
<1>8. c \in Taken(V)
  BY <1>2, <1>7, DistinctTakes
<1> HIDE DEF c
<1>9. S \in SUBSET (V \X Strata) /\ \A x, y \in S : x[1] = y[1] => x = y
  BY <1>3, <1>8 DEF Taken, Fields
<1>10. IsFiniteSet(S)
  <2>1. IsFiniteSet({}) /\ IsFiniteSet({} \cup {"recent"}) /\ IsFiniteSet(({} \cup {"recent"}) \cup {"older"})
        /\ IsFiniteSet((({} \cup {"recent"}) \cup {"older"}) \cup {"distinct"})
    BY FS_EmptySet, FS_AddElement
  <2>2. Strata = (({} \cup {"recent"}) \cup {"older"}) \cup {"distinct"}
    BY DEF Strata
  <2>3. IsFiniteSet(V \X Strata)
    BY <2>1, <2>2, FS_Product
  <2>4. QED
    BY <1>9, <2>3, FS_Subset
<1>11. QED
  BY <1>9, <1>10

-------------------------------------------------------------------------------
(* What the accumulators know: only accounts that the view of the call shows are allowed.  *)

Allows(acc, key) ==
    /\ acc = [checked |-> acc.checked, allowed |-> acc.allowed, blocked |-> acc.blocked,
              senders |-> acc.senders]
    /\ \A a \in acc.allowed : InPhase(key, a)

\* scope_events lets a payment pass only if all its accounts are in the view.
LEMMA ScopeAllows ==
    ASSUME NEW acc, NEW g, NEW key, Allows(acc, key), NEW events, NEW next,
           next = ScopeEvents(acc, g, key, events)
    PROVE  /\ Allows(next, key)
           /\ \A n \in events \ next.blocked : \A a \in Endpoints(g, n) : InPhase(key, a)
<1>1. CASE ~key.scoped
  <2>1. next = acc
    BY <1>1 DEF ScopeEvents
  <2>2. QED
    BY <1>1, <2>1 DEF InPhase
<1>2. CASE key.scoped
  <2> DEFINE endpoints == UNION {Endpoints(g, n) : n \in events}
             allowed == acc.allowed \cup {a \in endpoints \ acc.checked : InPhase(key, a)}
             blocked == acc.blocked \cup {n \in events : ~(Endpoints(g, n) \subseteq allowed)}
  <2>1. next = [acc EXCEPT !.checked = acc.checked \cup endpoints, !.allowed = allowed,
                           !.blocked = blocked]
    BY <1>2 DEF ScopeEvents
  <2>2. \A a \in allowed : InPhase(key, a)
    BY DEF Allows
  <2>3. \A n \in events \ blocked : Endpoints(g, n) \subseteq allowed
    OBVIOUS
  <2> HIDE DEF endpoints, allowed, blocked
  <2>4. next = [checked |-> acc.checked \cup endpoints, allowed |-> allowed, blocked |-> blocked,
                senders |-> acc.senders]
    BY <2>1 DEF Allows
  <2>5. next.allowed = allowed /\ next.blocked = blocked
    BY <2>4
  <2>6. QED
    BY <2>2, <2>3, <2>4, <2>5 DEF Allows
<1>3. QED
  BY <1>1, <1>2

\* Counting roles allows nothing.
LEMMA RolesAllow ==
    ASSUME NEW acc, NEW key, Allows(acc, key), NEW events
    PROVE  Allows(CountRoles(ResetRoles(acc, events), events), key)
<1> DEFINE counted == CountRoles(ResetRoles(acc, events), events)
<1>1. \A a, s : a = [checked |-> a.checked, allowed |-> a.allowed, blocked |-> a.blocked,
                     senders |-> a.senders]
               => [a EXCEPT !.senders = s] = [checked |-> a.checked, allowed |-> a.allowed,
                                              blocked |-> a.blocked, senders |-> s]
  OBVIOUS
<1>2. \E s : ResetRoles(acc, events) = [acc EXCEPT !.senders = s]
  BY DEF ResetRoles
<1>3. PICK s : ResetRoles(acc, events) = [checked |-> acc.checked, allowed |-> acc.allowed,
                                          blocked |-> acc.blocked, senders |-> s]
  BY <1>1, <1>2 DEF Allows
<1> DEFINE reset == ResetRoles(acc, events)
<1> HIDE DEF reset
<1>4. reset = [checked |-> acc.checked, allowed |-> acc.allowed, blocked |-> acc.blocked, senders |-> s]
  BY <1>3 DEF reset
<1>5. \E t : counted = [reset EXCEPT !.senders = t]
  BY DEF CountRoles, reset
<1> HIDE DEF counted
<1>6. PICK t : counted = [checked |-> acc.checked, allowed |-> acc.allowed,
                          blocked |-> acc.blocked, senders |-> t]
  BY <1>4, <1>5
<1>7. Allows(counted, key)
  BY <1>6 DEF Allows
<1>8. QED
  BY <1>7 DEF counted
-------------------------------------------------------------------------------
(* The scans of a request: the candidates of its relations, told apart by relation and      *)
(* sequence number, and what a status for capacity means.                                   *)

\* A payment whose accounts the view shows.
InView(g, key, n) == n \in DOMAIN g /\ IsPayment(g, n) /\ \A a \in Endpoints(g, n) : InPhase(key, a)

\* What a scan has after k relations.
ScanFacts(scan, g, key, pool, k) ==
    /\ scan = [status |-> scan.status, acc |-> scan.acc, invalid |-> scan.invalid,
               history |-> scan.history, events |-> scan.events]
    /\ Allows(scan.acc, key)
    /\ scan.status \in {"ok", "history_capacity_exceeded"}
    /\ scan.status = "history_capacity_exceeded" =>
         \E rel \in Range(Relations) : Cardinality(Counted(g, key.seq, key, rel)) > pool.max_history
    /\ IsFiniteSet(scan.events)
    /\ \A e \in scan.events :
         /\ e = <<e[1], e[2], e[3]>>
         /\ e[1] \in Nat /\ e[1] < key.seq /\ InView(g, key, e[1])
         /\ \E j \in 1..k : e[2] = Relations[j]
    /\ \A d, e \in scan.events : d[1] = e[1] /\ d[2] = e[2] => d = e
    /\ \/ scan.invalid
       \/ \A e \in scan.events : Peer(g, e[1], e[2]) \in Nodes

\* The payments a scan asks about, and those it sees.
AskedOf(g, key, rel) == {n \in Incident(g, key.node, rel) : Before(g, n, key)}
VisibleOf(g, key, rel, acc) == {n \in AskedOf(g, key, rel) \ acc.blocked : g[n].usd}

\* The visible payments of a scanned relation.
LEMMA VisibleCounted ==
    ASSUME NEW g \in Log, NEW key, key.seq \in Nat, NEW rel, NEW acc, Allows(acc, key), NEW next, NEW V,
           next = ScopeEvents(acc, g, key, AskedOf(g, key, rel)), V = VisibleOf(g, key, rel, next)
    PROVE  /\ V \in SUBSET Nat /\ IsFiniteSet(V) /\ Allows(next, key)
           /\ \A n \in V : n < key.seq /\ InView(g, key, n) /\ Peer(g, n, rel) \in Nodes \cup {None}
           /\ Cardinality(V) \in Nat
           /\ Cardinality(V) <= Cardinality(Counted(g, key.seq, key, rel))
<1> DEFINE candidates == AskedOf(g, key, rel)
<1>1. Allows(next, key) /\ \A n \in candidates \ next.blocked : \A a \in Endpoints(g, n) : InPhase(key, a)
  <2>1. next = ScopeEvents(acc, g, key, candidates)
    OBVIOUS
  <2> HIDE DEF candidates
  <2>2. QED
    BY <2>1, ScopeAllows
<1>2. \A n \in candidates : n \in Incident(g, key.node, rel) /\ n < key.seq /\ n \in DOMAIN g /\ IsPayment(g, n)
  BY DEF Before, Incident, AskedOf
<1>3. V \in SUBSET (candidates \ next.blocked)
  BY DEF VisibleOf
<1> HIDE DEF candidates
<1>4. V \in SUBSET Counted(g, key.seq, key, rel)
  BY <1>1, <1>2, <1>3 DEF Counted
<1>5. IsFiniteSet(Counted(g, key.seq, key, rel))
  BY CountedFinite
<1>6. IsFiniteSet(V) /\ Cardinality(V) <= Cardinality(Counted(g, key.seq, key, rel))
  BY <1>4, <1>5, FS_Subset
<1>7. Cardinality(V) \in Nat
  BY <1>6, FS_CardinalityType
<1>8. ASSUME NEW n \in V PROVE n \in Nat /\ n < key.seq /\ Peer(g, n, rel) \in Nodes \cup {None}
  <2>1. n \in DOMAIN g /\ IsPayment(g, n) /\ n < key.seq
    BY <1>2, <1>3
  <2>2. /\ n \in Nat
        /\ g[n].from \in Accounts /\ g[n].to \in Accounts \cup {None} /\ g[n].ttok \in Tokens \cup {None}
    BY <2>1, EntryRoles
  <2>3. QED
    BY <2>1, <2>2 DEF Peer, Recipient, Nodes
<1>9. \A n \in V : InView(g, key, n)
  BY <1>2, <1>3, <1>4 DEF Counted, InView
<1>10. QED
  BY <1>1, <1>6, <1>7, <1>8, <1>9

\* The relations are distinct.
LEMMA RelationsDiffer ==
    \A i, j \in 1..4 : Relations[i] = Relations[j] => i = j
<1>1. /\ Relations[1] = "zelle_out" /\ Relations[2] = "zelle_in"
      /\ Relations[3] = "payment_out" /\ Relations[4] = "payment_in"
  BY DEF Relations
<1>2. \A i \in 1..4 : i = 1 \/ i = 2 \/ i = 3 \/ i = 4
  OBVIOUS
<1>3. QED
  BY <1>1, <1>2

\* One scan keeps this.
LEMMA ScanKeeps ==
    ASSUME NEW g \in Log, NEW key, key.seq \in Nat, NEW pool, pool.max_history \in Nat, NEW k \in 1..4,
           NEW scan, ScanFacts(scan, g, key, pool, k - 1), NEW next,
           next = ScanRelation(scan, g, key, pool, Relations[k])
    PROVE  ScanFacts(next, g, key, pool, k)
<1> DEFINE rel == Relations[k]
           acc == ScopeEvents(scan.acc, g, key, AskedOf(g, key, rel))
           visible == VisibleOf(g, key, rel, acc)
           counted == CountRoles(ResetRoles(acc, visible), visible)
           picked == Sampled(g, rel, Descending(visible), pool)
           invalid == scan.invalid \/ \E n \in visible : counted.senders[n] # 1 \/ InvalidRoles(g, n)
           history == scan.history \cup {<<n, rel>> : n \in visible}
           events == scan.events \cup {<<s[1], rel, s[2]>> : s \in picked}
<1>1. \A j \in 1..(k - 1) : j \in 1..k /\ Relations[j] # rel
  BY RelationsDiffer
<1>2. CASE scan.status # "ok"
  <2>1. next = scan
    BY <1>2 DEF ScanRelation
  <2> HIDE DEF rel
  <2>2. QED
    BY <1>1, <2>1 DEF ScanFacts
<1>3. /\ visible \in SUBSET Nat /\ IsFiniteSet(visible) /\ Allows(acc, key)
      /\ \A n \in visible : n < key.seq /\ InView(g, key, n) /\ Peer(g, n, rel) \in Nodes \cup {None}
      /\ Cardinality(visible) \in Nat
      /\ Cardinality(visible) <= Cardinality(Counted(g, key.seq, key, rel))
  <2>1. Allows(scan.acc, key)
    BY DEF ScanFacts
  <2>2. acc = ScopeEvents(scan.acc, g, key, AskedOf(g, key, rel))
    OBVIOUS
  <2>3. visible = VisibleOf(g, key, rel, acc)
    OBVIOUS
  <2> HIDE DEF acc, visible, rel
  <2>4. QED
    BY <2>1, <2>2, <2>3, VisibleCounted
<1>4. ASSUME scan.status = "ok", Cardinality(visible) > pool.max_history
      PROVE  ScanFacts(next, g, key, pool, k)
  <2>1. next = [scan EXCEPT !.status = "history_capacity_exceeded", !.acc = acc]
    BY <1>4 DEF ScanRelation, AskedOf, VisibleOf
  <2>2. rel \in Range(Relations)
    BY DEF Relations, Range
  <2> HIDE DEF visible, acc, rel
  <2>3. next = [status |-> "history_capacity_exceeded", acc |-> acc, invalid |-> scan.invalid,
                history |-> scan.history, events |-> scan.events]
    BY <2>1 DEF ScanFacts
  <2>4. Cardinality(Counted(g, key.seq, key, rel)) \in Nat
    BY CountedFinite
  <2>5. Cardinality(Counted(g, key.seq, key, rel)) > pool.max_history
    BY <1>3, <1>4, <2>4
  <2>6. next.acc = acc /\ next.events = scan.events /\ next.invalid = scan.invalid
    BY <2>3
  <2>7. QED
    BY <1>1, <1>3, <2>2, <2>3, <2>5, <2>6 DEF ScanFacts
<1>5. ASSUME scan.status = "ok", ~(Cardinality(visible) > pool.max_history)
      PROVE  ScanFacts(next, g, key, pool, k)
  <2>1. next = [scan EXCEPT !.acc = counted, !.invalid = invalid, !.history = history, !.events = events]
    BY <1>5 DEF ScanRelation, AskedOf, VisibleOf
  <2>2. Allows(counted, key)
    <3> HIDE DEF visible, acc
    <3>1. QED
      BY <1>3, RolesAllow
  <2>3. /\ picked \in SUBSET (visible \X Strata) /\ IsFiniteSet(picked)
        /\ \A x, y \in picked : x[1] = y[1] => x = y
    <3> HIDE DEF visible, rel
    <3>1. QED
      BY <1>3, SampledOnce
  <2> DEFINE fresh == {<<s[1], rel, s[2]>> : s \in picked}
  <2>4. /\ IsFiniteSet(fresh)
        /\ \A e \in fresh : \E s \in picked : e = <<s[1], rel, s[2]>>
    <3> HIDE DEF picked, rel
    <3> DEFINE f == [s \in picked |-> <<s[1], rel, s[2]>>]
    <3>1. f \in Surjection(picked, fresh)
      BY DEF Surjection
    <3>2. IsFiniteSet(fresh)
      BY <2>3, <3>1, FS_Surjection
    <3>3. \A e \in fresh : \E s \in picked : e = <<s[1], rel, s[2]>>
      OBVIOUS
    <3> HIDE DEF f, fresh
    <3>4. QED
      BY <3>2, <3>3
  <2>15. invalid \/ (~scan.invalid /\ \A n \in visible : Peer(g, n, rel) \in Nodes)
    <3>1. \A n \in visible : ~InvalidRoles(g, n) => Peer(g, n, rel) \in Nodes
      <4>1. \A n \in visible : ~InvalidRoles(g, n) => Recipient(g, n) # None
        BY DEF InvalidRoles
      <4>2. \A n \in visible : g[n].from \in Accounts /\ Recipient(g, n) \in Nodes \cup {None}
        <5>1. \A n \in visible : n \in DOMAIN g /\ IsPayment(g, n)
          BY DEF VisibleOf, AskedOf, Incident
        <5> HIDE DEF visible
        <5>2. \A n \in visible : g[n].from \in Accounts /\ g[n].to \in Accounts \cup {None}
                                 /\ g[n].ttok \in Tokens \cup {None}
          BY <5>1, EntryRoles
        <5>3. QED
          BY <5>2 DEF Recipient, Nodes
      <4> HIDE DEF visible, rel
      <4>3. QED
        BY <4>1, <4>2 DEF Peer, Nodes
    <3> HIDE DEF visible, counted, rel
    <3>2. invalid \/ (~scan.invalid /\ \A n \in visible : ~InvalidRoles(g, n))
      OBVIOUS
    <3> HIDE DEF invalid
    <3>3. QED
      BY <3>1, <3>2
  <2> HIDE DEF counted, visible, acc, invalid, history, picked
  <2>5. events = scan.events \cup fresh
    OBVIOUS
  <2> HIDE DEF events, fresh
  <2>6. next = [status |-> "ok", acc |-> counted, invalid |-> invalid, history |-> history,
                events |-> events]
    BY <1>5, <2>1 DEF ScanFacts
  <2>7. next.acc = counted /\ next.events = events /\ next.status = "ok"
    BY <2>6
  <2>8. IsFiniteSet(events)
    BY <2>4, <2>5, FS_Union DEF ScanFacts
  <2>9. \A e \in fresh : /\ e = <<e[1], e[2], e[3]>> /\ e[1] \in Nat /\ e[1] < key.seq /\ e[2] = rel
                         /\ InView(g, key, e[1])
                         /\ \E s \in picked : e = <<s[1], rel, s[2]>>
    <3> HIDE DEF rel
    <3>1. \A s \in picked : s[1] \in visible
      BY <2>3
    <3>2. QED
      BY <1>3, <2>4, <3>1
  <2>10. \A e \in scan.events : /\ e = <<e[1], e[2], e[3]>> /\ e[1] \in Nat /\ e[1] < key.seq
                                /\ InView(g, key, e[1])
                                /\ e[2] # rel /\ \E j \in 1..k : e[2] = Relations[j]
    <3> HIDE DEF rel
    <3>1. QED
      BY <1>1 DEF ScanFacts
  <2>11. \A d, e \in fresh : d[1] = e[1] => d = e
    <3> HIDE DEF rel
    <3>1. QED
      BY <2>3, <2>9
  <2>12. \A d, e \in events : d[1] = e[1] /\ d[2] = e[2] => d = e
    <3>1. \A d, e \in scan.events : d[1] = e[1] /\ d[2] = e[2] => d = e
      BY DEF ScanFacts
    <3> HIDE DEF rel
    <3>2. QED
      BY <2>5, <2>9, <2>10, <2>11, <3>1
  <2>13. \A e \in events : /\ e = <<e[1], e[2], e[3]>> /\ e[1] \in Nat /\ e[1] < key.seq
                           /\ InView(g, key, e[1])
                           /\ \E j \in 1..k : e[2] = Relations[j]
    BY <2>5, <2>9, <2>10
  <2>16. invalid \/ \A e \in events : Peer(g, e[1], e[2]) \in Nodes
    <3>1. scan.invalid \/ \A e \in scan.events : Peer(g, e[1], e[2]) \in Nodes
      BY DEF ScanFacts
    <3>2. \A e \in fresh : e[2] = rel /\ e[1] \in visible
      <4> HIDE DEF rel
      <4>1. \A s \in picked : s[1] \in visible
        BY <2>3
      <4>2. QED
        BY <2>9, <4>1
    <3> HIDE DEF rel
    <3>3. QED
      BY <2>5, <2>15, <3>1, <3>2
  <2>17. next.invalid = invalid
    BY <2>6
  <2>18. next.invalid \/ \A e \in next.events : Peer(g, e[1], e[2]) \in Nodes
    BY <2>7, <2>16, <2>17
  <2>19. QED
    BY <2>2, <2>6, <2>7, <2>8, <2>12, <2>13, <2>18 DEF ScanFacts
<1>6. QED
  BY <1>2, <1>4, <1>5 DEF ScanFacts

\* What the scans of a request give.
LEMMA ScannedFacts ==
    ASSUME NEW g \in Log, NEW key, key.seq \in Nat, NEW pool, pool.max_history \in Nat,
           NEW acc, Allows(acc, key)
    PROVE  ScanFacts(Scanned(acc, g, key, pool), g, key, pool, 4)
<1> DEFINE n == 4
<1>1. n \in Nat /\ n = 4
  OBVIOUS
<1> HIDE DEF n
<1>2. PICK v : /\ v[0] = NoScan(acc)
               /\ \A k \in 1..n : v[k] = ScanRelation(v[k - 1], g, key, pool, Relations[k])
               /\ Scanned(acc, g, key, pool) = v[n]
  BY <1>1, ScanSteps
<1> DEFINE S == {k \in 0..n : ScanFacts(v[k], g, key, pool, k)}
<1>3. 0 \in S
  <2> DEFINE start == NoScan(acc)
  <2>1. /\ start = [status |-> start.status, acc |-> start.acc, invalid |-> start.invalid,
                    history |-> start.history, events |-> start.events]
        /\ start.acc = acc /\ start.status = "ok" /\ start.events = {}
    BY DEF NoScan
  <2>2. IsFiniteSet({})
    BY FS_EmptySet
  <2> HIDE DEF start
  <2>3. ScanFacts(start, g, key, pool, 0)
    BY <2>1, <2>2 DEF ScanFacts
  <2>4. QED
    BY <1>1, <1>2, <2>3 DEF start
<1>4. ASSUME NEW k \in 0..(n - 1), k \in S PROVE k + 1 \in S
  <2>1. ScanFacts(v[k], g, key, pool, k) /\ k + 1 \in 1..4 /\ (k + 1) - 1 = k
    BY <1>1, <1>4
  <2>2. v[k + 1] = ScanRelation(v[k], g, key, pool, Relations[k + 1])
    BY <1>1, <1>2, <2>1
  <2>3. ScanFacts(v[k + 1], g, key, pool, k + 1)
    BY <2>1, <2>2, ScanKeeps
  <2>4. QED
    BY <1>1, <2>1, <2>3
<1> HIDE DEF S
<1>5. 0..n \subseteq S
  BY <1>1, <1>3, <1>4, UpTo
<1>6. QED
  BY <1>1, <1>2, <1>5 DEF S
-------------------------------------------------------------------------------
(* The row of a request.                                                                   *)

\* Messages of one context: from no later than its cutoff, told apart by relation, sequence
\* number and neighbour.
Told(messages, seq) ==
    /\ IsFiniteSet(messages)
    /\ \A m \in messages : /\ m.seq \in Nat /\ m.seq <= seq /\ m.peer \in Nodes
                           /\ m.relation \in Range(Relations) \cup AssociationRelations
    /\ \A m, n \in messages :
         m # n /\ m.relation = n.relation /\ m.seq = n.seq => m.peer # n.peer

\* What a context may be shown: payments from before its cutoff, associations as of it, and
\* no account of a later partition.
InPast(m, key) ==
    /\ m.seq < key.seq \/ (m.seq = key.seq /\ m.relation \in AssociationRelations)
    /\ m.peer \in Accounts => InPhase(key, m.peer)
Shown(messages, key) == \A m \in messages : InPast(m, key)

\* A row has such messages, and is refused for its capacity only for too long a history.
RowFacts(row, g, key, pool) ==
    /\ Told(row.messages, key.seq) /\ Shown(row.messages, key)
    /\ row.status = "history_capacity_exceeded" =>
         \E rel \in Range(Relations) : Cardinality(Counted(g, key.seq, key, rel)) > pool.max_history

\* Associations have the sequence number of the cutoff and a neighbour each.
LEMMA AssociationsTold ==
    ASSUME NEW g \in Log, NEW key, key.seq \in Nat, NEW pool
    PROVE  /\ IsFiniteSet(Associations(g, key, pool))
           /\ \A m \in Associations(g, key, pool) :
                /\ m.seq = key.seq /\ m.relation \in AssociationRelations /\ m.peer \in Nodes
                /\ m.peer \in Accounts => InPhase(key, m.peer)
           /\ \A m, n \in Associations(g, key, pool) : m.peer = n.peer => m = n
<1> DEFINE other(n) == OtherEnd(g, key, n)
           relation == IF key.node \in Tokens THEN "Token_Bound_To_Account"
                       ELSE "Account_Bound_From_Token"
           visible == {n \in ActiveTenures(g, key) : other(n) \in Accounts => InPhase(key, other(n))}
           kept == {n \in visible : Cardinality({m \in visible : m > n}) < pool.associations}
           message(peer) == [relation |-> relation, peer |-> peer, seq |-> key.seq, ts |-> key.ts,
                             stratum |-> "association", prior |-> 0, first |-> key.ts, last |-> 0,
                             flow |-> 0]
           f == [n \in kept |-> message(other(n))]
           messages == {message(other(n)) : n \in kept}
<1>1. messages = Associations(g, key, pool)
  BY DEF Associations
<1>2. IsFiniteSet(kept)
  <2>1. kept \in SUBSET ActiveTenures(g, key)
    OBVIOUS
  <2> HIDE DEF kept
  <2>2. kept \in SUBSET DOMAIN g
    BY <2>1 DEF ActiveTenures
  <2>3. Len(g) \in Nat /\ DOMAIN g = 1..Len(g)
    BY DEF Log
  <2>4. IsFiniteSet(1..Len(g))
    BY <2>3, FS_Interval
  <2>5. QED
    BY <2>2, <2>3, <2>4, FS_Subset
<1>3. \A n \in kept : other(n) \in Nodes
  <2>1. \A n \in kept : n \in DOMAIN g /\ g[n].op = "bind"
    BY DEF ActiveTenures
  <2>2. \A n \in DOMAIN g : g[n].op = "bind" => g[n].token \in Tokens /\ g[n].account \in Accounts
    BY EntryRoles DEF IsPayment
  <2>3. QED
    BY <2>1, <2>2 DEF OtherEnd, Nodes
<1>9. \A n \in kept : other(n) \in Accounts => InPhase(key, other(n))
  OBVIOUS
<1>4. relation \in AssociationRelations
  BY DEF AssociationRelations
<1> HIDE DEF kept, other, relation
<1>5. IsFiniteSet(messages)
  <2>1. f \in Surjection(kept, messages)
    BY DEF Surjection
  <2>2. QED
    BY <1>2, <2>1, FS_Surjection
<1>6. \A m \in messages : /\ m.seq = key.seq /\ m.relation = relation /\ m.peer \in Nodes
                          /\ m = message(m.peer)
                          /\ m.peer \in Accounts => InPhase(key, m.peer)
  BY <1>3, <1>9
<1>7. \A m, n \in messages : m.peer = n.peer => m = n
  BY <1>6
<1> HIDE DEF messages
<1>8. QED
  BY <1>1, <1>4, <1>5, <1>6, <1>7

\* The relations of payments are not those of associations.
LEMMA PaymentRelations ==
    /\ \A j \in 1..4 : Relations[j] \in Range(Relations)
    /\ Range(Relations) \cap AssociationRelations = {}
<1>1. /\ Relations[1] = "zelle_out" /\ Relations[2] = "zelle_in"
      /\ Relations[3] = "payment_out" /\ Relations[4] = "payment_in"
      /\ DOMAIN Relations = 1..4
  BY DEF Relations
<1>2. \A i \in 1..4 : i = 1 \/ i = 2 \/ i = 3 \/ i = 4
  OBVIOUS
<1>3. Range(Relations) = {Relations[j] : j \in 1..4}
  BY <1>1 DEF Range
<1>4. QED
  BY <1>1, <1>2, <1>3 DEF AssociationRelations

Image(f, S) == {f[e] : e \in S}

\* The messages of a scan and the associations, told apart.
LEMMA MessagesTold ==
    ASSUME NEW g \in Log, NEW key, key.seq \in Nat, NEW pool, NEW scan,
           ScanFacts(scan, g, key, pool, 4), NEW f, NEW messages,
           messages = Image(f, scan.events) \cup Associations(g, key, pool),
           DOMAIN f = scan.events, ~scan.invalid,
           \A e \in scan.events : /\ f[e].relation = e[2] /\ f[e].seq = e[1]
                                  /\ f[e].peer = Peer(g, e[1], e[2])
    PROVE  Told(messages, key.seq) /\ Shown(messages, key)
<1> DEFINE payments == Image(f, scan.events)
           bound == Associations(g, key, pool)
<1>1. /\ IsFiniteSet(bound)
      /\ \A m \in bound : /\ m.seq = key.seq /\ m.relation \in AssociationRelations /\ m.peer \in Nodes
                          /\ m.peer \in Accounts => InPhase(key, m.peer)
      /\ \A m, n \in bound : m.peer = n.peer => m = n
  BY AssociationsTold
<1>2. IsFiniteSet(payments)
  <2>1. [e \in scan.events |-> f[e]] \in Surjection(scan.events, payments)
    BY DEF Surjection, Image
  <2>2. IsFiniteSet(scan.events)
    BY DEF ScanFacts
  <2> HIDE DEF payments
  <2>3. QED
    BY <2>1, <2>2, FS_Surjection
<1>3. /\ \A e \in scan.events : /\ e[1] \in Nat /\ e[1] < key.seq /\ InView(g, key, e[1])
                                /\ \E j \in 1..4 : e[2] = Relations[j]
      /\ \A d, e \in scan.events : d[1] = e[1] /\ d[2] = e[2] => d = e
      /\ \A e \in scan.events : Peer(g, e[1], e[2]) \in Nodes
  BY DEF ScanFacts
<1>4. \A m \in payments : /\ m.seq \in Nat /\ m.seq <= key.seq /\ m.peer \in Nodes
                          /\ m.relation \in Range(Relations)
  <2>1. \A e \in scan.events : e[2] \in Range(Relations)
    BY <1>3, PaymentRelations
  <2>2. \A e \in scan.events : e[1] <= key.seq
    BY <1>3
  <2>3. QED
    BY <1>3, <2>1, <2>2 DEF Image
<1>5. \A m, n \in payments : m.relation = n.relation /\ m.seq = n.seq => m = n
  BY <1>3 DEF Image
<1>11. \A m \in payments : m.seq < key.seq /\ (m.peer \in Accounts => InPhase(key, m.peer))
  <2>1. ASSUME NEW e \in scan.events, Peer(g, e[1], e[2]) \in Accounts
        PROVE  InPhase(key, Peer(g, e[1], e[2]))
    <3> DEFINE n == e[1]
               peer == Peer(g, n, e[2])
    <3>1. None \notin Accounts /\ None \notin Tokens /\ Accounts \cap Tokens = {}
      BY GraphAssumption DEF Nodes
    <3>2. n \in DOMAIN g /\ IsPayment(g, n) /\ \A a \in Endpoints(g, n) : InPhase(key, a)
      BY <1>3 DEF InView
    <3>3. g[n].from \in Accounts /\ g[n].to \in Accounts \cup {None} /\ g[n].ttok \in Tokens \cup {None}
      BY <3>2, EntryRoles
    <3> HIDE DEF n
    <3>4. peer \in {g[n].from, g[n].to, g[n].ttok}
      BY DEF Peer, Recipient
    <3>5. peer \in Endpoints(g, n)
      BY <2>1, <3>1, <3>3, <3>4 DEF Endpoints, n
    <3>6. QED
      BY <3>2, <3>5 DEF n
  <2>2. QED
    BY <1>3, <2>1 DEF Image
<1>6. messages = payments \cup bound
  OBVIOUS
<1> HIDE DEF payments, bound
<1>7. IsFiniteSet(messages)
  <2>1. IsFiniteSet(payments \cup bound)
    BY <1>1, <1>2, FS_Union
  <2>2. QED
    BY <1>6, <2>1
<1>8. \A m \in messages : m.seq \in Nat /\ m.seq <= key.seq /\ m.peer \in Nodes
                          /\ m.relation \in Range(Relations) \cup AssociationRelations
  BY <1>1, <1>4, <1>6
<1>9. ASSUME NEW m \in messages, NEW n \in messages, m # n, m.relation = n.relation, m.seq = n.seq
      PROVE  m.peer # n.peer
  <2>1. m \in bound /\ n \in bound
    BY <1>1, <1>4, <1>5, <1>6, <1>9, PaymentRelations
  <2>2. QED
    BY <1>1, <1>9, <2>1
<1>12. Shown(messages, key)
  BY <1>1, <1>6, <1>11 DEF Shown, InPast
<1>10. QED
  BY <1>7, <1>8, <1>9, <1>12 DEF Told

\* An answer: its row, and accumulators as before.
AnswerFacts(answer, g, key, pool) ==
    RowFacts(answer.row, g, key, pool) /\ Allows(answer.acc, key)

\* A refusal has no messages.
LEMMA RefusedFacts ==
    ASSUME NEW g, NEW key, NEW pool, NEW status, NEW acc, Allows(acc, key),
           status = "history_capacity_exceeded" =>
             \E rel \in Range(Relations) : Cardinality(Counted(g, key.seq, key, rel)) > pool.max_history
    PROVE  AnswerFacts(Refused(status, acc), g, key, pool)
<1>1. Refused(status, acc).row.status = status /\ Refused(status, acc).row.messages = {}
      /\ Refused(status, acc).acc = acc
  BY DEF Refused
<1>2. Told({}, key.seq) /\ Shown({}, key)
  BY FS_EmptySet DEF Told, Shown
<1>3. QED
  BY <1>1, <1>2 DEF AnswerFacts, RowFacts

\* What follows the scans.
LEMMA AfterScansFacts ==
    ASSUME NEW g \in Log, NEW key, key.seq \in Nat, NEW pool, NEW scan,
           ScanFacts(scan, g, key, pool, 4)
    PROVE  AnswerFacts(AfterScans(scan, g, key, pool), g, key, pool)
<1> DEFINE chronology == Chronology(g, scan.history)
           candidates == IF key.node \in Accounts THEN {}
                         ELSE PriorCandidates(g, {e[1] : e \in scan.events})
           priorAcc == ScopeEvents(scan.acc, g, key, candidates)
           prior(e) == CASE key.node \in Tokens -> PriorScan(priorAcc, g, candidates, e[1])
                         [] key.node \notin Tokens /\ <<e[1], e[2]>> \in DOMAIN chronology.prior ->
                              chronology.prior[<<e[1], e[2]>>]
                         [] OTHER -> NoPrior
           messages == {PaymentMessage(key, g, scan, e, prior(e)) : e \in scan.events}
                         \cup Associations(g, key, pool)
           answer == AfterScans(scan, g, key, pool)
<1>1. \/ answer = Refused(scan.status, scan.acc)
      \/ answer = Refused("nonmonotonic_pair_clock", scan.acc)
      \/ answer = Refused("invalid_payment_fields", scan.acc)
      \/ ~scan.invalid /\ answer = [acc |-> priorAcc, row |-> [status |-> "ok", messages |-> messages]]
  <2> DEFINE last == [acc |-> priorAcc, row |-> [status |-> "ok", messages |-> messages]]
  <2>1. answer = CASE scan.status # "ok" -> Refused(scan.status, scan.acc)
                   [] scan.status = "ok" /\ key.node \in Accounts /\ ~chronology.monotone ->
                        Refused("nonmonotonic_pair_clock", scan.acc)
                   [] scan.status = "ok" /\ (key.node \in Accounts => chronology.monotone) /\ scan.invalid ->
                        Refused("invalid_payment_fields", scan.acc)
                   [] OTHER -> last
    BY DEF AfterScans
  <2> HIDE DEF last, answer, chronology
  <2>2. \/ answer = Refused(scan.status, scan.acc)
        \/ answer = Refused("nonmonotonic_pair_clock", scan.acc)
        \/ answer = Refused("invalid_payment_fields", scan.acc)
        \/ ~scan.invalid /\ answer = last
    BY <2>1
  <2>3. QED
    BY <2>2 DEF last
<1>2. Allows(scan.acc, key) /\ Allows(priorAcc, key)
  <2>1. Allows(scan.acc, key)
    BY DEF ScanFacts
  <2> HIDE DEF candidates
  <2>2. QED
    BY <2>1, ScopeAllows
<1>3. ASSUME ~scan.invalid PROVE Told(messages, key.seq) /\ Shown(messages, key)
  <2> DEFINE f == [e \in scan.events |-> PaymentMessage(key, g, scan, e, prior(e))]
  <2>1. \A e \in scan.events : /\ f[e].relation = e[2] /\ f[e].seq = e[1]
                               /\ f[e].peer = Peer(g, e[1], e[2])
    <3> HIDE DEF prior
    <3>1. QED
      BY DEF PaymentMessage
  <2> HIDE DEF prior
  <2>2. messages = Image(f, scan.events) \cup Associations(g, key, pool)
    BY DEF Image
  <2>3. DOMAIN f = scan.events
    OBVIOUS
  <2> HIDE DEF f, messages
  <2>4. QED
    BY <1>3, <2>1, <2>2, <2>3, MessagesTold
<1> HIDE DEF messages, priorAcc, answer
<1>4. CASE ~scan.invalid /\ answer = [acc |-> priorAcc, row |-> [status |-> "ok", messages |-> messages]]
  <2>1. answer.acc = priorAcc /\ answer.row.status = "ok" /\ answer.row.messages = messages
    BY <1>4
  <2>2. Told(messages, key.seq) /\ Shown(messages, key)
    BY <1>3, <1>4, Zenon
  <2>3. AnswerFacts(answer, g, key, pool)
    BY <1>2, <2>1, <2>2 DEF AnswerFacts, RowFacts
  <2>4. QED
    BY <2>3 DEF answer
<1>5. scan.status = "history_capacity_exceeded" =>
        \E rel \in Range(Relations) : Cardinality(Counted(g, key.seq, key, rel)) > pool.max_history
  BY DEF ScanFacts
<1>6. CASE answer = Refused(scan.status, scan.acc)
  BY <1>2, <1>5, <1>6, RefusedFacts DEF answer
<1>7. CASE answer = Refused("nonmonotonic_pair_clock", scan.acc)
  BY <1>2, <1>7, RefusedFacts DEF answer
<1>8. CASE answer = Refused("invalid_payment_fields", scan.acc)
  BY <1>2, <1>8, RefusedFacts DEF answer
<1>9. QED
  BY <1>1, <1>4, <1>6, <1>7, <1>8

\* The answer to a request.
LEMMA AnswerIs ==
    ASSUME NEW g \in Log, NEW key, key.seq \in Nat, NEW pool, pool.max_history \in Nat,
           NEW acc, Allows(acc, key)
    PROVE  AnswerFacts(Answer(g, key, pool, acc), g, key, pool)
<1>1. AnswerFacts(AfterScans(Scanned(acc, g, key, pool), g, key, pool), g, key, pool)
  BY ScannedFacts, AfterScansFacts
<1>2. /\ AnswerFacts(Refused("missing_entity", acc), g, key, pool)
      /\ AnswerFacts(Refused("invisible_entity", acc), g, key, pool)
  BY RefusedFacts
<1>3. Answer(g, key, pool, acc) \in
        {Refused("missing_entity", acc), Refused("invisible_entity", acc),
         AfterScans(Scanned(acc, g, key, pool), g, key, pool)}
  BY DEF Answer
<1>4. QED
  BY <1>1, <1>2, <1>3
-------------------------------------------------------------------------------
(* The rows of a fetch.                                                                    *)

\* The keys of one fetch have one view.
SameView(keys) ==
    \A i, j \in DOMAIN keys : keys[i].scoped = keys[j].scoped /\ keys[i].phase = keys[j].phase

\* Accumulators that allow what one key sees allow what another key of the view sees.
LEMMA AllowsEach ==
    ASSUME NEW acc, NEW key, NEW other, key.scoped = other.scoped, key.phase = other.phase,
           Allows(acc, key)
    PROVE  Allows(acc, other)
BY DEF Allows, InPhase

\* Every row of a call is the answer to its request.
LEMMA CallRows ==
    ASSUME NEW g \in Log, NEW keys, NEW n \in Nat, DOMAIN keys = 1..n, SameView(keys),
           \A i \in 1..n : keys[i].seq \in Nat, NEW pool, pool.max_history \in Nat
    PROVE  /\ DOMAIN Call(g, keys, pool).rows = 1..n
           /\ \A i \in 1..n : RowFacts(Call(g, keys, pool).rows[i], g, keys[i], pool)
<1>0. PICK v : CallRun(v, g, keys, pool, n)
  BY CallSteps
<1>1. /\ v[0] = [rows |-> <<>>, acc |-> Catalog(keys)]
      /\ \A k \in 1..n : v[k] = CallStep(g, pool, v[k - 1], keys[k])
      /\ Call(g, keys, pool) = v[n]
  BY <1>0 DEF CallRun
<1> DEFINE answer(k) == Answer(g, keys[k], pool, v[k - 1].acc)
           all == {answer(k).row : k \in 1..n}
           Good(k) == /\ v[k].rows \in Seq(all) /\ Len(v[k].rows) = k
                      /\ \A i \in 1..k : RowFacts(v[k].rows[i], g, keys[i], pool)
                      /\ \A i \in 1..n : Allows(v[k].acc, keys[i])
           S == {k \in 0..n : Good(k)}
<1>2. Good(0)
  <2>1. v[0].rows = <<>> /\ v[0].acc = Catalog(keys)
    BY <1>1
  <2>2. <<>> \in Seq(all) /\ Len(<<>>) = 0
    OBVIOUS
  <2>3. ASSUME NEW i \in 1..n PROVE Allows(Catalog(keys), keys[i])
    <3> DEFINE seen == {a \in Accounts : \E j \in DOMAIN keys : keys[j].node = a /\ InPhase(keys[j], a)}
    <3>1. \E senders : Catalog(keys) = [checked |-> {}, allowed |-> seen, blocked |-> {},
                                        senders |-> senders]
      <4>1. Catalog(keys) = [NoAccumulators EXCEPT !.allowed = seen]
        BY DEF Catalog
      <4> HIDE DEF seen
      <4>2. QED
        BY <4>1 DEF NoAccumulators
    <3>2. \A a \in seen : InPhase(keys[i], a)
      BY DEF InPhase, SameView
    <3> HIDE DEF seen
    <3>3. QED
      BY <3>1, <3>2 DEF Allows
  <2> HIDE DEF all
  <2>4. QED
    BY <2>1, <2>2, <2>3
<1>3. ASSUME NEW k \in 0..(n - 1), Good(k) PROVE Good(k + 1)
  <2> DEFINE next == answer(k + 1)
  <2>1. k + 1 \in 1..n /\ (k + 1) - 1 = k /\ k \in Nat
    OBVIOUS
  <2>2. next = Answer(g, keys[k + 1], pool, v[k].acc)
    BY <2>1
  <2>3. next.row \in all
    BY <2>1
  <2> HIDE DEF all
  <2>4. /\ v[k].rows \in Seq(all) /\ Len(v[k].rows) = k
        /\ \A i \in 1..n : Allows(v[k].acc, keys[i])
        /\ \A i \in 1..k : RowFacts(v[k].rows[i], g, keys[i], pool)
    BY <1>3
  <2> HIDE DEF next, Good
  <2>5. v[k + 1].rows = Append(v[k].rows, next.row) /\ v[k + 1].acc = next.acc
    <3>1. v[k + 1] = CallStep(g, pool, v[k], keys[k + 1])
      BY <1>1, <2>1
    <3>2. QED
      BY <2>2, <3>1 DEF CallStep
  <2>6. AnswerFacts(next, g, keys[k + 1], pool)
    BY <2>1, <2>2, <2>4, AnswerIs
  <2>7. \A i \in 1..n : Allows(next.acc, keys[i])
    BY <2>1, <2>6, AllowsEach DEF AnswerFacts, SameView
  <2>8. /\ v[k + 1].rows \in Seq(all) /\ Len(v[k + 1].rows) = k + 1
        /\ \A i \in 1..k : v[k + 1].rows[i] = v[k].rows[i]
        /\ v[k + 1].rows[k + 1] = next.row
    <3> DEFINE s == v[k].rows
               x == next.row
    <3>1. s \in Seq(all) /\ x \in all /\ Len(s) = k /\ v[k + 1].rows = Append(s, x)
      BY <2>3, <2>4, <2>5
    <3> HIDE DEF s, x
    <3>2. Append(s, x) \in Seq(all) /\ Len(Append(s, x)) = k + 1
          /\ (\A i \in 1..k : Append(s, x)[i] = s[i]) /\ Append(s, x)[k + 1] = x
      BY <3>1, <2>1
    <3>3. QED
      BY <3>1, <3>2 DEF s, x
  <2>9. \A i \in 1..(k + 1) : i \in 1..k \/ i = k + 1
    BY <2>1
  <2>10. \A i \in 1..(k + 1) : RowFacts(v[k + 1].rows[i], g, keys[i], pool)
    <3>1. RowFacts(next.row, g, keys[k + 1], pool)
      BY <2>6 DEF AnswerFacts
    <3>2. QED
      BY <2>4, <2>8, <2>9, <3>1
  <2>11. QED
    BY <2>5, <2>7, <2>8, <2>10 DEF Good
<1> HIDE DEF Good
<1>4. 0 \in S /\ \A k \in 0..(n - 1) : k \in S => k + 1 \in S
  <2>1. \A k \in 0..(n - 1) : k + 1 \in 0..n
    OBVIOUS
  <2>2. QED
    BY <1>2, <1>3, <2>1
<1> HIDE DEF S
<1>5. 0..n \subseteq S
  BY <1>4, UpTo
<1>6. Good(n)
  BY <1>5 DEF S
<1>7. v[n].rows \in Seq(all) /\ Len(v[n].rows) = n
      /\ \A i \in 1..n : RowFacts(v[n].rows[i], g, keys[i], pool)
  BY <1>6 DEF Good
<1> HIDE DEF all
<1>8. DOMAIN v[n].rows = 1..n
  BY <1>7
<1>9. QED
  BY <1>1, <1>7, <1>8

\* The rows of a fetch of keys of one view.
LEMMA FetchedRows ==
    ASSUME log \in Log, NEW keys, NEW n \in Nat, DOMAIN keys = 1..n, SameView(keys),
           \A i \in 1..n : keys[i].seq \in Nat, NEW pool, pool.max_history \in Nat
    PROVE  /\ DOMAIN Fetched(keys, pool) = Range(keys)
           /\ \A k \in Range(keys) : RowFacts(Fetched(keys, pool)[k], log, k, pool)
<1> DEFINE answers == Call(log, keys, pool).rows
           place(k) == CHOOSE i \in DOMAIN keys : keys[i] = k
<1>1. \A i \in 1..n : RowFacts(answers[i], log, keys[i], pool)
  BY CallRows
<1>2. \A k \in Range(keys) : place(k) \in 1..n /\ keys[place(k)] = k
  BY DEF Range
<1>3. Fetched(keys, pool) = [k \in Range(keys) |-> answers[place(k)]]
  BY DEF Fetched
<1> HIDE DEF answers, place
<1>4. QED
  BY <1>1, <1>2, <1>3
-------------------------------------------------------------------------------
(* The orders the samplers draw in, all strict and total on the messages of a relation.    *)

\* Node ids are distinct numbers.
LEMMA NodeOrders ==
    /\ \A a \in Nodes : NodeOrder[a] \in Nat
    /\ \A a, b \in Nodes : NodeOrder[a] = NodeOrder[b] => a = b
<1> DEFINE n == Cardinality(Nodes)
<1>1. IsFiniteSet(Nodes)
  BY BatchAssumption
<1>2. n \in Nat /\ ExistsBijection(1..n, Nodes)
  BY <1>1, FS_CardinalityType
<1>3. PICK h : h \in Bijection(1..n, Nodes)
  BY <1>2 DEF ExistsBijection
<1> HIDE DEF n
<1>4. /\ \A i, j \in 1..n : h[i] = h[j] => i = j
      /\ \A a \in Nodes : \E i \in 1..n : h[i] = a
  BY <1>3 DEF Bijection, Injection, IsInjective, Surjection
<1> DEFINE f == [a \in Nodes |-> CHOOSE i \in 1..n : h[i] = a]
<1>5. \A a \in Nodes : f[a] \in 1..n /\ h[f[a]] = a
  BY <1>4
<1>6. f \in [Nodes -> 1..n] /\ \A a, b \in Nodes : f[a] = f[b] => a = b
  <2>1. f = [a \in Nodes |-> f[a]]
    OBVIOUS
  <2> HIDE DEF f
  <2>2. QED
    BY <1>5, <2>1
<1> HIDE DEF f
<1>7. IsInjective(f)
  BY <1>6 DEF IsInjective
<1>8. NodeOrder \in [Nodes -> 1..n] /\ IsInjective(NodeOrder)
  BY <1>6, <1>7 DEF NodeOrder, n
<1>9. 1..n \subseteq Nat
  BY <1>2
<1>10. QED
  BY <1>8, <1>9 DEF IsInjective

\* Earlier by sequence number, then by node id.
Earlier(m, n) == m.seq < n.seq \/ (m.seq = n.seq /\ NodeOrder[m.peer] < NodeOrder[n.peer])

\* The messages of one relation in this order, or the other way round.
LEMMA EarlierTotal ==
    ASSUME NEW messages, NEW seq \in Nat, Told(messages, seq), NEW S \in SUBSET messages,
           \A m, n \in S : m.relation = n.relation
    PROVE  /\ \A m \in S : ~Earlier(m, m)
           /\ \A m, n, o \in S : Earlier(m, n) /\ Earlier(n, o) => Earlier(m, o)
           /\ \A m, n \in S : m # n => Earlier(m, n) \/ Earlier(n, m)
<1>1. \A m \in S : m.seq \in Nat /\ m.peer \in Nodes /\ NodeOrder[m.peer] \in Nat
  BY NodeOrders DEF Told
<1>2. \A m, n \in S : m # n => m.seq # n.seq \/ NodeOrder[m.peer] # NodeOrder[n.peer]
  BY <1>1, NodeOrders DEF Told
<1>3. \A a, b, c \in Nat : \A x, y, z \in Nat :
        /\ ~(a < a \/ (a = a /\ x < x))
        /\ (a < b \/ (a = b /\ x < y)) /\ (b < c \/ (b = c /\ y < z)) => (a < c \/ (a = c /\ x < z))
        /\ (a # b \/ x # y) => (a < b \/ (a = b /\ x < y)) \/ (b < a \/ (b = a /\ y < x))
  OBVIOUS
<1>4. \A m \in S : ~Earlier(m, m)
  BY <1>1 DEF Earlier
<1>5. ASSUME NEW m \in S, NEW n \in S, NEW o \in S
      PROVE  Earlier(m, n) /\ Earlier(n, o) => Earlier(m, o)
  BY <1>1, <1>3 DEF Earlier
<1>6. ASSUME NEW m \in S, NEW n \in S
      PROVE  m # n => Earlier(m, n) \/ Earlier(n, m)
  BY <1>1, <1>2, <1>3 DEF Earlier
<1>7. QED
  BY <1>4, <1>5, <1>6

OfRelation(messages, rel) == {m \in messages : m.relation = rel}

\* The messages of a relation by their keys are messages of it.
LEMMA ByKeysMembers ==
    ASSUME NEW messages, NEW seq \in Nat, Told(messages, seq), NEW rel
    PROVE  ByKeys(messages, rel) \in Seq(OfRelation(messages, rel))
<1> DEFINE S == OfRelation(messages, rel)
           R == {p \in S \X S : IF draw = "newest" THEN Earlier(p[2], p[1]) ELSE Earlier(p[1], p[2])}
<1>1. IsFiniteSet(S) /\ S \in SUBSET messages /\ \A m, n \in S : m.relation = n.relation
  <2>1. S \in SUBSET messages /\ \A m, n \in S : m.relation = n.relation
    BY DEF OfRelation
  <2> HIDE DEF S
  <2>2. QED
    BY <2>1, FS_Subset DEF Told
<1> HIDE DEF S
<1>2. \A x, y \in S : <<x, y>> \in R <=> IF draw = "newest" THEN Earlier(y, x) ELSE Earlier(x, y)
  OBVIOUS
<1>3. StrictTotal(R, S)
  <2>1. /\ \A m \in S : ~Earlier(m, m)
        /\ \A m, n, o \in S : Earlier(m, n) /\ Earlier(n, o) => Earlier(m, o)
        /\ \A m, n \in S : m # n => Earlier(m, n) \/ Earlier(n, m)
    BY <1>1, EarlierTotal
  <2> HIDE DEF R
  <2>2. CASE draw = "newest"
    BY <1>2, <2>1, <2>2 DEF StrictTotal
  <2>3. CASE draw # "newest"
    BY <1>2, <2>1, <2>3 DEF StrictTotal
  <2>4. QED
    BY <2>2, <2>3
<1>4. ByKeys(messages, rel) = [i \in 1..Cardinality(S) |->
                                 CHOOSE x \in S : Cardinality({y \in S : <<y, x>> \in R}) = i - 1]
  <2> DEFINE Precedes(y, x) == IF draw = "newest" THEN Earlier(x, y) ELSE Earlier(y, x)
  <2>1. ByKeys(messages, rel) = [i \in 1..Cardinality(S) |->
                                   CHOOSE x \in S : Cardinality({y \in S : Precedes(y, x)}) = i - 1]
    BY DEF ByKeys, Ordered, Earlier, OfRelation, S
  <2>2. \A x \in S : {y \in S : <<y, x>> \in R} = {y \in S : Precedes(y, x)}
    OBVIOUS
  <2> HIDE DEF R, Precedes
  <2>3. ASSUME NEW i
        PROVE  (CHOOSE x \in S : Cardinality({y \in S : <<y, x>> \in R}) = i - 1)
                 = CHOOSE x \in S : Cardinality({y \in S : Precedes(y, x)}) = i - 1
    BY <2>2
  <2>4. QED
    BY <2>1, <2>3, Zenon
<1>5. ByKeys(messages, rel) \in Seq(S)
  <2> HIDE DEF R
  <2>1. QED
    BY <1>1, <1>3, <1>4, OrderedMembers
<1>6. QED
  BY <1>5 DEF S
-------------------------------------------------------------------------------
(* The draws: the slots of a context are a sequence of its messages.                       *)

\* Some of the messages of a context are told apart as well.
LEMMA ToldSubset ==
    ASSUME NEW messages, NEW seq \in Nat, Told(messages, seq), NEW kept \in SUBSET messages
    PROVE  Told(kept, seq)
<1>1. IsFiniteSet(kept)
  BY FS_Subset DEF Told
<1>2. QED
  BY <1>1 DEF Told

\* Quotas and fan-outs are numbers.
LEMMA QuotaIs ==
    ASSUME NEW rel, NEW hop \in 1..2
    PROVE  Quota(rel, hop) \in Nat /\ Fanouts[hop] \in Nat
<1>1. /\ Fanouts \in Seq(Nat) /\ Len(Fanouts) = 2 /\ Quotas \in Seq(Nat) /\ Len(Quotas) = 2
      /\ AssociationQuota \in Nat
  BY BatchAssumption
<1>2. Fanouts[hop] \in Nat /\ Quotas[hop] \in Nat
  <2>1. hop \in 1..Len(Fanouts) /\ hop \in 1..Len(Quotas)
    BY <1>1
  <2>2. QED
    BY <1>1, <2>1, ElementOfSeq
<1>3. QED
  BY <1>1, <1>2 DEF Quota

\* The kept messages are of the context.
LEMMA KeptMembers ==
    ASSUME NEW messages, NEW seq \in Nat, Told(messages, seq), NEW hop \in 1..2
    PROVE  KeptByKeys(messages, hop) \in SUBSET messages
<1> DEFINE front(rel) == SubSeq(ByKeys(messages, rel), 1, Min({Quota(rel, hop), Len(ByKeys(messages, rel))}))
<1>1. ASSUME NEW rel PROVE Range(front(rel)) \in SUBSET messages
  <2> DEFINE ordered == ByKeys(messages, rel)
             k == Min({Quota(rel, hop), Len(ordered)})
  <2>1. ordered \in Seq(OfRelation(messages, rel)) /\ OfRelation(messages, rel) \in SUBSET messages
    BY ByKeysMembers DEF OfRelation
  <2> HIDE DEF ordered
  <2>2. ordered \in Seq(messages) /\ Len(ordered) \in Nat
    BY <2>1, SeqMonotonic
  <2>3. k \in Nat /\ k <= Len(ordered)
    <3>1. Quota(rel, hop) \in Int /\ Len(ordered) \in Int /\ Quota(rel, hop) \in Nat
      BY <2>2, QuotaIs
    <3>2. k = IF Quota(rel, hop) <= Len(ordered) THEN Quota(rel, hop) ELSE Len(ordered)
      BY <3>1, OfTwo, Zenon
    <3> HIDE DEF k
    <3>3. QED
      BY <2>2, <3>1, <3>2
  <2> HIDE DEF k
  <2>4. SubSeq(ordered, 1, k) \in Seq(messages)
    BY <2>2, <2>3
  <2>5. Range(SubSeq(ordered, 1, k)) \in SUBSET messages
    BY <2>4, MembersIn
  <2>6. QED
    BY <2>5 DEF ordered, k
<1>2. KeptByKeys(messages, hop) = UNION {Range(front(rel)) : rel \in Range(Relations) \cup AssociationRelations}
  BY DEF KeptByKeys
<1> HIDE DEF front
<1>3. QED
  BY <1>1, <1>2

\* The members of a set in the order R.
RankOrder(S, R) ==
    [i \in 1..Cardinality(S) |-> CHOOSE x \in S : Cardinality({y \in S : <<y, x>> \in R}) = i - 1]

\* They are members.
LEMMA RankOrderMembers ==
    ASSUME NEW S, IsFiniteSet(S), NEW R, StrictTotal(R, S)
    PROVE  RankOrder(S, R) \in Seq(S)
<1> DEFINE s == RankOrder(S, R)
           n == Cardinality(S)
           At(i) == CHOOSE x \in S : Cardinality({y \in S : <<y, x>> \in R}) = i - 1
<1>1. n \in Nat
  BY FS_CardinalityType
<1>2. \A i \in 1..n : At(i) \in S
  BY Ranked
<1>3. s = [i \in 1..n |-> At(i)]
  BY DEF RankOrder
<1> HIDE DEF n, At, s
<1>4. s \in [1..n -> S]
  BY <1>2, <1>3
<1>5. s \in Seq(S)
  BY <1>1, <1>4, SeqDef, Zenon
<1>6. QED
  BY <1>5 DEF s

\* Interleaving sequences over a set gives one over the set.
LEMMA InterleavedMembers ==
    ASSUME NEW X, NEW drawn, DOMAIN drawn = 1..4, \A r \in 1..4 : drawn[r] \in Seq(X)
    PROVE  Interleaved(drawn) \in Seq(X)
<1> DEFINE depth == MaxLog + Growth
           places == {p \in (1..depth) \X DOMAIN drawn : p[1] <= Len(drawn[p[2]])}
           R == {p \in places \X places :
                   p[1][1] < p[2][1] \/ (p[1][1] = p[2][1] /\ p[1][2] < p[2][2])}
           order == RankOrder(places, R)
<1>1. depth \in Nat
  <2>1. MaxLog \in Nat /\ Growth \in Nat
    BY BatchAssumption
  <2>2. QED
    BY <2>1
<1> HIDE DEF depth
<1>2. IsFiniteSet(places)
  <2>1. IsFiniteSet(1..depth) /\ IsFiniteSet(DOMAIN drawn)
    <3>1. 1 \in Int /\ 4 \in Int /\ depth \in Int
      BY <1>1
    <3>2. IsFiniteSet(1..4) /\ IsFiniteSet(1..depth)
      BY <3>1, FS_Interval, Zenon
    <3>3. QED
      BY <3>2
  <2>2. IsFiniteSet((1..depth) \X DOMAIN drawn)
    BY <2>1, FS_Product
  <2>3. places \in SUBSET ((1..depth) \X DOMAIN drawn)
    OBVIOUS
  <2> HIDE DEF places
  <2>4. QED
    BY <2>2, <2>3, FS_Subset
<1>3. \A x, y \in places : <<x, y>> \in R <=> x[1] < y[1] \/ (x[1] = y[1] /\ x[2] < y[2])
  OBVIOUS
<1>4. \A x \in places : /\ x = <<x[1], x[2]>> /\ x[1] \in Nat /\ x[2] \in Nat
                        /\ x[2] \in 1..4 /\ x[1] \in 1..Len(drawn[x[2]])
  <2>1. ASSUME NEW x \in places PROVE /\ x = <<x[1], x[2]>> /\ x[1] \in Nat /\ x[2] \in 1..4 /\ 1 <= x[1]
                                      /\ x[1] <= Len(drawn[x[2]])
    BY <1>1
  <2>2. \A r \in 1..4 : Len(drawn[r]) \in Nat
    OBVIOUS
  <2> HIDE DEF places
  <2>3. QED
    BY <2>1, <2>2
<1>5. StrictTotal(R, places)
  <2> HIDE DEF R, places
  <2>2. \A x \in places : <<x, x>> \notin R
    BY <1>3, <1>4
  <2>3. ASSUME NEW x \in places, NEW y \in places, NEW z \in places
        PROVE  <<x, y>> \in R /\ <<y, z>> \in R => <<x, z>> \in R
    <3> DEFINE a == x[1]
               b == y[1]
               c == z[1]
               d == x[2]
               e == y[2]
               f == z[2]
    <3>1. a \in Nat /\ b \in Nat /\ c \in Nat /\ d \in Nat /\ e \in Nat /\ f \in Nat
      BY <1>4
    <3>2. /\ <<x, y>> \in R <=> a < b \/ (a = b /\ d < e)
          /\ <<y, z>> \in R <=> b < c \/ (b = c /\ e < f)
          /\ <<x, z>> \in R <=> a < c \/ (a = c /\ d < f)
      BY <1>3
    <3> HIDE DEF a, b, c, d, e, f
    <3>3. QED
      BY <3>1, <3>2
  <2>4. ASSUME NEW x \in places, NEW y \in places, x # y
        PROVE  <<x, y>> \in R \/ <<y, x>> \in R
    <3>1. x[1] # y[1] \/ x[2] # y[2]
      BY <1>4, <2>4
    <3> DEFINE a == x[1]
               b == y[1]
               d == x[2]
               e == y[2]
    <3>2. a \in Nat /\ b \in Nat /\ d \in Nat /\ e \in Nat /\ (a # b \/ d # e)
      BY <1>4, <3>1
    <3>3. /\ <<x, y>> \in R <=> a < b \/ (a = b /\ d < e)
          /\ <<y, x>> \in R <=> b < a \/ (b = a /\ e < d)
      BY <1>3
    <3> HIDE DEF a, b, d, e
    <3>4. QED
      BY <3>2, <3>3
  <2>5. QED
    BY <2>2, <2>3, <2>4 DEF StrictTotal
<1>6. order \in Seq(places)
  <2> HIDE DEF R, places
  <2>1. QED
    BY <1>2, <1>5, RankOrderMembers
<1>7. Interleaved(drawn) = [k \in DOMAIN order |-> drawn[order[k][2]][order[k][1]]]
  <2> DEFINE Precedes(p, q) == p[1] < q[1] \/ (p[1] = q[1] /\ p[2] < q[2])
             plain == [i \in 1..Cardinality(places) |->
                         CHOOSE x \in places : Cardinality({y \in places : Precedes(y, x)}) = i - 1]
  <2>1. Interleaved(drawn) = [k \in DOMAIN plain |-> drawn[plain[k][2]][plain[k][1]]]
    BY DEF Interleaved, Ordered, depth
  <2>2. \A x \in places : {y \in places : <<y, x>> \in R} = {y \in places : Precedes(y, x)}
    BY <1>3
  <2> HIDE DEF R, Precedes, places, order, plain
  <2> DEFINE At(i) == CHOOSE x \in places : Cardinality({y \in places : <<y, x>> \in R}) = i - 1
             PlainAt(i) == CHOOSE x \in places : Cardinality({y \in places : Precedes(y, x)}) = i - 1
  <2>3. ASSUME NEW i PROVE At(i) = PlainAt(i)
    BY <2>2
  <2>4. order = [i \in 1..Cardinality(places) |-> At(i)]
        /\ plain = [i \in 1..Cardinality(places) |-> PlainAt(i)]
    BY DEF order, plain, RankOrder
  <2> HIDE DEF At, PlainAt
  <2>5. order = plain
    BY <2>3, <2>4
  <2>6. QED
    BY <2>1, <2>5
<1> HIDE DEF order, places
<1>8. Len(order) \in Nat /\ DOMAIN order = 1..Len(order) /\ \A k \in DOMAIN order : order[k] \in places
  BY <1>6
<1>9. \A k \in DOMAIN order : drawn[order[k][2]][order[k][1]] \in X
  <2>1. \A r \in 1..4 : \A i \in 1..Len(drawn[r]) : drawn[r][i] \in X
    OBVIOUS
  <2>2. QED
    BY <1>4, <1>8, <2>1
<1>10. Interleaved(drawn) \in [1..Len(order) -> X]
  BY <1>7, <1>8, <1>9
<1> DEFINE n == Len(order)
<1>11. n \in Nat /\ Interleaved(drawn) \in [1..n -> X]
  BY <1>8, <1>10
<1> HIDE DEF n
<1>12. QED
  BY <1>11, SeqDef, Zenon
\* The slots of payments and associations are filled from the front.
LEMMA MergeMembers ==
    ASSUME NEW X, NEW p \in Seq(X), NEW a \in Seq(X), NEW fanout \in Nat, NEW limit \in Nat,
           limit <= fanout
    PROVE  Merge(p, a, fanout, limit) \in Seq(X)
<1> DEFINE lp == Len(p)
           la == Len(a)
           reserve == Min({la, limit})
           fa == Min({lp, fanout - reserve})
           n == IF fa + la <= fanout THEN fa + la ELSE fanout
           left == {<<i, p[i]>> : i \in {k \in DOMAIN p : k <= fanout - reserve}}
           right == {<<fa + i, a[i]>> : i \in {k \in DOMAIN a : fa + k <= fanout}}
           slots == left \cup right
           places == {s[1] : s \in slots}
           At(i) == (CHOOSE s \in slots : s[1] = i)[2]
<1>1. /\ lp \in Nat /\ la \in Nat /\ DOMAIN p = 1..lp /\ DOMAIN a = 1..la
      /\ \A i \in 1..lp : p[i] \in X
      /\ \A i \in 1..la : a[i] \in X
  OBVIOUS
<1>2. Merge(p, a, fanout, limit) = [i \in places |-> At(i)]
  BY DEF Merge
<1> HIDE DEF lp, la
<1>3. reserve \in Nat /\ reserve <= fanout
  <2>1. la \in Int /\ limit \in Int
    BY <1>1
  <2>2. reserve = IF la <= limit THEN la ELSE limit
    BY <2>1, OfTwo, Zenon
  <2> HIDE DEF reserve
  <2>3. QED
    BY <1>1, <2>2
<1> HIDE DEF reserve
<1>4. fa \in Nat /\ fa <= lp /\ fa <= fanout - reserve /\ fa <= fanout
      /\ \A i \in Nat : i <= lp /\ i <= fanout - reserve => i <= fa
  <2>1. lp \in Int /\ fanout - reserve \in Int
    BY <1>1, <1>3
  <2>2. fa = IF lp <= fanout - reserve THEN lp ELSE fanout - reserve
    BY <2>1, OfTwo, Zenon
  <2> HIDE DEF fa
  <2>3. QED
    BY <1>1, <1>3, <2>2
<1> HIDE DEF fa
<1>5. n \in Nat /\ fa <= n /\ n <= fanout /\ n <= fa + la
      /\ \A i \in Nat : i <= fanout /\ i <= fa + la => i <= n
  BY <1>1, <1>4
<1> HIDE DEF n
<1>6. \A s \in slots : s[1] \in 1..n /\ s[2] \in X
  <2>1. ASSUME NEW s \in left PROVE s[1] \in 1..n /\ s[2] \in X
    <3>1. PICK i \in 1..lp : i <= fanout - reserve /\ s = <<i, p[i]>>
      BY <1>1
    <3>2. i <= fa /\ i \in 1..n /\ s[1] = i /\ s[2] = p[i]
      BY <1>1, <1>4, <1>5, <3>1
    <3>3. QED
      BY <1>1, <3>2
  <2>2. ASSUME NEW s \in right PROVE s[1] \in 1..n /\ s[2] \in X
    <3>1. PICK i \in 1..la : fa + i <= fanout /\ s = <<fa + i, a[i]>>
      BY <1>1
    <3> DEFINE j == fa + i
    <3>2. j \in Nat /\ j <= fanout /\ j <= fa + la /\ 1 <= j /\ s[1] = j /\ s[2] = a[i]
      BY <1>1, <1>4, <3>1
    <3> HIDE DEF j
    <3>4. j \in 1..n
      BY <1>5, <3>2
    <3>3. QED
      BY <1>1, <3>2, <3>4
  <2>3. QED
    BY <2>1, <2>2
<1>7. \A i \in 1..n : \E s \in slots : s[1] = i
  <2>1. ASSUME NEW i \in 1..n PROVE \E s \in slots : s[1] = i
    <3>1. CASE i <= fa
      <4>1. i \in 1..lp /\ i <= fanout - reserve
        BY <1>1, <1>3, <1>4, <1>5, <3>1
      <4>2. <<i, p[i]>> \in left
        BY <1>1, <4>1
      <4> HIDE DEF left, right
      <4>3. QED
        BY <4>2
    <3>2. CASE ~(i <= fa)
      <4> DEFINE j == i - fa
      <4>1. j \in 1..la /\ fa + j <= fanout /\ fa + j = i
        BY <1>1, <1>4, <1>5, <3>2
      <4> HIDE DEF j
      <4>2. <<fa + j, a[j]>> \in right
        BY <1>1, <4>1
      <4> HIDE DEF left, right
      <4>3. QED
        BY <4>1, <4>2
    <3>3. QED
      BY <3>1, <3>2
  <2>2. QED
    BY <2>1
<1> HIDE DEF slots
<1>8. places = 1..n
  <2>1. \A i : i \in places <=> \E s \in slots : s[1] = i
    OBVIOUS
  <2> HIDE DEF places
  <2>2. QED
    BY <1>6, <1>7, <2>1
<1>9. \A i \in 1..n : At(i) \in X
  BY <1>6, <1>7
<1> HIDE DEF places, At
<1>10. Merge(p, a, fanout, limit) \in [1..n -> X]
  BY <1>2, <1>8, <1>9
<1>11. n \in Nat
  BY <1>5
<1>12. QED
  BY <1>10, <1>11, SeqDef, Zenon

\* The selected messages of a context, in its slots.
LEMMA SelectMembers ==
    ASSUME NEW kept, NEW seq \in Nat, Told(kept, seq), NEW hop \in 1..2
    PROVE  Select(kept, hop) \in Seq(kept)
<1> DEFINE linked == {m.relation : m \in {n \in kept : n.relation \in AssociationRelations}}
           associations == IF linked = {} THEN <<>> ELSE ByKeys(kept, CHOOSE rel \in linked : TRUE)
           drawn == [r \in DOMAIN Relations |-> ByKeys(kept, Relations[r])]
           limit == IF hop = 1 THEN Min({AssociationSlots, Fanouts[1] \div 4}) ELSE 0
<1>1. \A rel : ByKeys(kept, rel) \in Seq(kept)
  <2>1. \A rel : ByKeys(kept, rel) \in Seq(OfRelation(kept, rel))
    BY ByKeysMembers
  <2>2. \A rel : OfRelation(kept, rel) \subseteq kept
    BY DEF OfRelation
  <2>3. QED
    BY <2>1, <2>2, SeqMonotonic
<1>2. associations \in Seq(kept)
  <2> HIDE DEF linked
  <2>1. QED
    BY <1>1
<1>3. Interleaved(drawn) \in Seq(kept)
  <2>1. DOMAIN drawn = 1..4 /\ \A r \in 1..4 : drawn[r] \in Seq(kept)
    BY <1>1 DEF Relations
  <2> HIDE DEF drawn
  <2>2. QED
    BY <2>1, InterleavedMembers
<1>4. limit \in Nat /\ limit <= Fanouts[hop] /\ Fanouts[hop] \in Nat
  <2>1. Fanouts[hop] \in Nat /\ Fanouts[1] \in Nat /\ AssociationSlots \in Nat
    BY QuotaIs, BatchAssumption
  <2> DEFINE f == Fanouts[1]
             q == f \div 4
  <2>2. f \in Nat /\ q \in Nat /\ q <= f
    BY <2>1
  <2>3. Min({AssociationSlots, q}) = IF AssociationSlots <= q THEN AssociationSlots ELSE q
    <3>1. AssociationSlots \in Int /\ q \in Int
      BY <2>1, <2>2
    <3> HIDE DEF q
    <3>2. QED
      BY <3>1, OfTwo, Zenon
  <2>4. limit = IF hop = 1 THEN Min({AssociationSlots, q}) ELSE 0
    OBVIOUS
  <2> HIDE DEF q, limit
  <2>5. QED
    BY <2>1, <2>2, <2>3, <2>4
<1>5. Select(kept, hop) = Merge(Interleaved(drawn), associations, Fanouts[hop], limit)
  BY DEF Select
<1> HIDE DEF associations, drawn, limit
<1>6. QED
  BY <1>2, <1>3, <1>4, <1>5, MergeMembers
\* Sequences over a set one after the other are one over the set.
LEMMA Flattened ==
    ASSUME NEW X, NEW n \in Nat, NEW seqs, seqs \in [1..n -> Seq(X)]
    PROVE  FlattenSeq(seqs) \in Seq(X)
<1> DEFINE Is(f, k) == f = [i \in 1..k |-> IF i = 1 THEN seqs[i] ELSE f[i - 1] \o seqs[i]]
           S == {k \in 0..n : \E f : Is(f, k)}
<1>1. 0 \in S
  <2>1. Is([i \in 1..0 |-> seqs[i]], 0)
    OBVIOUS
  <2> HIDE DEF Is
  <2>2. QED
    BY <2>1
<1>2. ASSUME NEW k \in 0..(n - 1), k \in S PROVE k + 1 \in S
  <2>1. PICK f : Is(f, k)
    BY <1>2
  <2> DEFINE more == [i \in 1..(k + 1) |->
                        IF i = k + 1 THEN (IF i = 1 THEN seqs[i] ELSE f[i - 1] \o seqs[i]) ELSE f[i]]
  <2>2. ASSUME NEW i \in 1..(k + 1)
        PROVE  more[i] = IF i = 1 THEN seqs[i] ELSE more[i - 1] \o seqs[i]
    <3>1. \A j \in 1..k : more[j] = f[j]
      OBVIOUS
    <3>2. CASE i = k + 1
      <4>1. more[i] = IF i = 1 THEN seqs[i] ELSE f[i - 1] \o seqs[i]
        BY <3>2
      <4>2. i # 1 => i - 1 \in 1..k
        BY <3>2
      <4> HIDE DEF more
      <4>3. QED
        BY <3>1, <4>1, <4>2
    <3>3. CASE i # k + 1
      <4>1. i \in 1..k /\ (i # 1 => i - 1 \in 1..k)
        BY <3>3
      <4>2. f[i] = IF i = 1 THEN seqs[i] ELSE f[i - 1] \o seqs[i]
        BY <2>1, <4>1
      <4> HIDE DEF more
      <4>3. QED
        BY <3>1, <4>1, <4>2
    <3>4. QED
      BY <3>2, <3>3
  <2>3. more = [i \in 1..(k + 1) |-> more[i]]
    OBVIOUS
  <2> HIDE DEF more
  <2>4. Is(more, k + 1)
    BY <2>2, <2>3
  <2> HIDE DEF Is
  <2>5. k + 1 \in 0..n
    OBVIOUS
  <2>6. QED
    BY <2>4, <2>5
<1>3. n \in S
  <2> HIDE DEF S, Is
  <2>1. 0..n \subseteq S
    BY <1>1, <1>2, UpTo
  <2>2. QED
    BY <2>1
<1> DEFINE flat == CHOOSE f : Is(f, n)
<1>4. Is(flat, n)
  BY <1>3
<1>5. Len(seqs) = n /\ FlattenSeq(seqs) = IF n = 0 THEN seqs ELSE flat[n]
  <2>1. Len(seqs) = n
    OBVIOUS
  <2>2. QED
    BY <2>1 DEF FlattenSeq
<1> HIDE DEF flat
<1>6. \A i \in 1..n : flat[i] = IF i = 1 THEN seqs[i] ELSE flat[i - 1] \o seqs[i]
  BY <1>4
<1> DEFINE T == {k \in 0..n : k # 0 => flat[k] \in Seq(X)}
<1>7. 0 \in T
  OBVIOUS
<1>8. ASSUME NEW k \in 0..(n - 1), k \in T PROVE k + 1 \in T
  <2>1. k + 1 \in 1..n /\ k + 1 \in 0..n /\ (k + 1) - 1 = k /\ (k + 1 = 1 <=> k = 0)
    OBVIOUS
  <2>2. seqs[k + 1] \in Seq(X)
    BY <2>1
  <2>3. flat[k + 1] = IF k = 0 THEN seqs[k + 1] ELSE flat[k] \o seqs[k + 1]
    BY <1>6, <2>1
  <2>4. flat[k + 1] \in Seq(X)
    BY <1>8, <2>2, <2>3
  <2>5. QED
    BY <2>1, <2>4
<1>9. n \in T
  <2> HIDE DEF T, Is
  <2>1. 0..n \subseteq T
    BY <1>7, <1>8, UpTo
  <2>2. QED
    BY <2>1
<1>10. CASE n = 0
  <2>1. seqs = <<>>
    BY <1>10
  <2>2. QED
    BY <1>5, <1>10, <2>1
<1>11. CASE n # 0
  BY <1>5, <1>9, <1>11
<1>12. QED
  BY <1>10, <1>11

\* The code of a relation, and the canonical order of a context's candidates.
Code(m) == CHOOSE r \in DOMAIN RelationCodes : RelationCodes[r] = m.relation

CandidateBefore(m, n) ==
    \/ Code(m) < Code(n)
    \/ Code(m) = Code(n) /\ m.seq > n.seq
    \/ Code(m) = Code(n) /\ m.seq = n.seq /\ NodeOrder[m.peer] < NodeOrder[n.peer]

\* Every relation has a code.
LEMMA CodeIs ==
    ASSUME NEW m, m.relation \in Range(Relations) \cup AssociationRelations
    PROVE  Code(m) \in Nat /\ RelationCodes[Code(m)] = m.relation
<1> DEFINE bound == <<"Token_Bound_To_Account", "Account_Bound_From_Token">>
           Names == {"zelle_out", "zelle_in", "payment_out", "payment_in",
                     "Token_Bound_To_Account", "Account_Bound_From_Token"}
<1>a1. Relations \in Seq(Names) /\ Len(Relations) = 4
  BY DEF Relations
<1>a2. bound \in Seq(Names) /\ Len(bound) = 2
  OBVIOUS
<1>b. RelationCodes = Relations \o bound
  BY DEF RelationCodes
<1>c. /\ bound[1] = "Token_Bound_To_Account" /\ bound[2] = "Account_Bound_From_Token"
  OBVIOUS
<1>d. /\ Relations[1] = "zelle_out" /\ Relations[2] = "zelle_in"
      /\ Relations[3] = "payment_out" /\ Relations[4] = "payment_in"
  BY DEF Relations
<1> HIDE DEF bound
<1>e. /\ Len(RelationCodes) = 6 /\ RelationCodes \in Seq(Names)
      /\ \A i \in 1..6 : RelationCodes[i] = IF i <= 4 THEN Relations[i] ELSE bound[i - 4]
  <2> HIDE DEF Names
  <2>1. /\ Relations \o bound \in Seq(Names)
        /\ Len(Relations \o bound) = Len(Relations) + Len(bound)
        /\ \A i \in 1..(Len(Relations) + Len(bound)) :
              (Relations \o bound)[i] = IF i <= Len(Relations) THEN Relations[i]
                                       ELSE bound[i - Len(Relations)]
    BY <1>a1, <1>a2, ConcatProperties, Zenon
  <2>2. 1..(Len(Relations) + Len(bound)) = 1..6
    BY <1>a1, <1>a2
  <2>3. QED
    BY <1>a1, <1>a2, <1>b, <2>1, <2>2
<1>2. DOMAIN RelationCodes = 1..6
  BY <1>e
<1>3. Range(Relations) = {"zelle_out", "zelle_in", "payment_out", "payment_in"}
  <2>1. /\ Relations[1] = "zelle_out" /\ Relations[2] = "zelle_in"
        /\ Relations[3] = "payment_out" /\ Relations[4] = "payment_in"
        /\ DOMAIN Relations = 1..4
    BY DEF Relations
  <2>2. \A i \in 1..4 : i = 1 \/ i = 2 \/ i = 3 \/ i = 4
    OBVIOUS
  <2>3. QED
    BY <2>1, <2>2 DEF Range
<1>4. /\ RelationCodes[1] = "zelle_out" /\ RelationCodes[2] = "zelle_in"
      /\ RelationCodes[3] = "payment_out" /\ RelationCodes[4] = "payment_in"
      /\ RelationCodes[5] = "Token_Bound_To_Account" /\ RelationCodes[6] = "Account_Bound_From_Token"
  BY <1>c, <1>d, <1>e
<1>5. m.relation \in {"zelle_out", "zelle_in", "payment_out", "payment_in",
                      "Token_Bound_To_Account", "Account_Bound_From_Token"}
  BY <1>3 DEF AssociationRelations
<1>6. \E r \in 1..6 : RelationCodes[r] = m.relation
  BY <1>4, <1>5
<1>7. Code(m) \in 1..6 /\ RelationCodes[Code(m)] = m.relation
  BY <1>2, <1>6 DEF Code
<1>8. QED
  BY <1>7

\* The canonical order is strict and total on the messages of a context.
LEMMA CandidatesOrdered ==
    ASSUME NEW messages, NEW seq \in Nat, Told(messages, seq), NEW R,
           R = {p \in messages \X messages : CandidateBefore(p[1], p[2])}
    PROVE  StrictTotal(R, messages)
<1>1. \A m \in messages : /\ m.seq \in Nat /\ NodeOrder[m.peer] \in Nat /\ Code(m) \in Nat
  BY NodeOrders, CodeIs DEF Told
<1>2. \A m, n \in messages : m # n =>
        Code(m) # Code(n) \/ m.seq # n.seq \/ NodeOrder[m.peer] # NodeOrder[n.peer]
  <2>1. \A m, n \in messages : Code(m) = Code(n) => m.relation = n.relation
    BY CodeIs DEF Told
  <2>2. QED
    BY <2>1, NodeOrders DEF Told
<1>3. \A x, y \in messages : <<x, y>> \in R <=> CandidateBefore(x, y)
  OBVIOUS
<1>4. ASSUME NEW x \in messages PROVE <<x, x>> \notin R
  <2> DEFINE a == Code(x)
             b == x.seq
             c == NodeOrder[x.peer]
  <2>1. a \in Nat /\ b \in Nat /\ c \in Nat
    BY <1>1
  <2>2. <<x, x>> \in R <=> (a < a \/ (a = a /\ b > b) \/ (a = a /\ b = b /\ c < c))
    BY <1>3 DEF CandidateBefore
  <2> HIDE DEF a, b, c
  <2>3. QED
    BY <2>1, <2>2
<1>5. ASSUME NEW x \in messages, NEW y \in messages, NEW z \in messages,
             <<x, y>> \in R, <<y, z>> \in R
      PROVE  <<x, z>> \in R
  <2> DEFINE a == Code(x)
             b == x.seq
             c == NodeOrder[x.peer]
             d == Code(y)
             e == y.seq
             f == NodeOrder[y.peer]
             h == Code(z)
             i == z.seq
             j == NodeOrder[z.peer]
  <2>1. a \in Nat /\ b \in Nat /\ c \in Nat /\ d \in Nat /\ e \in Nat /\ f \in Nat
        /\ h \in Nat /\ i \in Nat /\ j \in Nat
    BY <1>1
  <2>2. /\ a < d \/ (a = d /\ b > e) \/ (a = d /\ b = e /\ c < f)
        /\ d < h \/ (d = h /\ e > i) \/ (d = h /\ e = i /\ f < j)
        /\ <<x, z>> \in R <=> (a < h \/ (a = h /\ b > i) \/ (a = h /\ b = i /\ c < j))
    BY <1>3, <1>5 DEF CandidateBefore
  <2> HIDE DEF a, b, c, d, e, f, h, i, j
  <2>3. QED
    BY <2>1, <2>2
<1>6. ASSUME NEW x \in messages, NEW y \in messages, x # y
      PROVE  <<x, y>> \in R \/ <<y, x>> \in R
  <2> DEFINE a == Code(x)
             b == x.seq
             c == NodeOrder[x.peer]
             d == Code(y)
             e == y.seq
             f == NodeOrder[y.peer]
  <2>1. a \in Nat /\ b \in Nat /\ c \in Nat /\ d \in Nat /\ e \in Nat /\ f \in Nat
        /\ (a # d \/ b # e \/ c # f)
    BY <1>1, <1>2, <1>6
  <2>2. /\ <<x, y>> \in R <=> (a < d \/ (a = d /\ b > e) \/ (a = d /\ b = e /\ c < f))
        /\ <<y, x>> \in R <=> (d < a \/ (d = a /\ e > b) \/ (d = a /\ e = b /\ f < c))
    BY <1>3 DEF CandidateBefore
  <2> HIDE DEF a, b, c, d, e, f
  <2>3. QED
    BY <2>1, <2>2
<1>7. QED
  BY <1>4, <1>5, <1>6 DEF StrictTotal
\* The row of a candidate in the table, and the rows of a context.
CandidateRow(keys, c, m) ==
    [context |-> c, relation |-> Code(m),
     time |-> IF m.relation \in AssociationRelations THEN AssociationTime(keys[c].seq)
              ELSE PaymentTime(m.seq),
     message |-> m]
RowsOf(messages, keys, c) == {CandidateRow(keys, c, m) : m \in messages[c]}

\* The messages of several contexts, each from no later than its cutoff.
ToldEach(messages, keys, n) ==
    /\ DOMAIN keys = 1..n /\ DOMAIN messages = 1..n
    /\ \A c \in 1..n : keys[c].seq \in Nat /\ Told(messages[c], keys[c].seq)

\* A row of the table is of a context and has a message of it.
LEMMA CandidateRows ==
    ASSUME NEW n \in Nat, NEW messages, NEW keys, ToldEach(messages, keys, n)
    PROVE  LET rows_ == Candidates(messages, keys).rows
           IN \A e \in DOMAIN rows_ : rows_[e].message \in messages[rows_[e].context]
<1> DEFINE X == UNION {RowsOf(messages, keys, c) : c \in 1..n}
           R(c) == {p \in messages[c] \X messages[c] : CandidateBefore(p[1], p[2])}
           At(c, i) == CHOOSE x \in messages[c] : Cardinality({y \in messages[c] : <<y, x>> \in R(c)}) = i - 1
           PlainAt(c, i) == CHOOSE x \in messages[c] : Cardinality({y \in messages[c] : CandidateBefore(y, x)}) = i - 1
           ranked(c) == [i \in 1..Cardinality(messages[c]) |-> At(c, i)]
           plain(c) == [i \in 1..Cardinality(messages[c]) |-> PlainAt(c, i)]
           ofContext(c) == [i \in DOMAIN plain(c) |-> CandidateRow(keys, c, plain(c)[i])]
           seqs == [c \in DOMAIN keys |-> ofContext(c)]
<1>1. Candidates(messages, keys).rows = FlattenSeq(seqs)
  BY DEF Candidates, Ordered, CandidateBefore, Code, CandidateRow
<1>2. ASSUME NEW c \in 1..n PROVE ranked(c) \in Seq(messages[c])
  <2>1. Told(messages[c], keys[c].seq) /\ keys[c].seq \in Nat /\ IsFiniteSet(messages[c])
    BY DEF ToldEach, Told
  <2>2. StrictTotal(R(c), messages[c])
    <3> DEFINE Q == R(c)
    <3>1. Q = {p \in messages[c] \X messages[c] : CandidateBefore(p[1], p[2])}
      OBVIOUS
    <3> HIDE DEF Q
    <3>2. StrictTotal(Q, messages[c])
      BY <2>1, <3>1, CandidatesOrdered
    <3>3. QED
      BY <3>2 DEF Q
  <2>3. ranked(c) = RankOrder(messages[c], R(c))
    BY DEF RankOrder
  <2> HIDE DEF ranked, R
  <2>4. QED
    BY <2>1, <2>2, <2>3, RankOrderMembers
<1>3. ASSUME NEW c \in 1..n PROVE ranked(c) = plain(c)
  <2>1. ASSUME NEW i PROVE At(c, i) = PlainAt(c, i)
    <3>1. \A x \in messages[c] : {y \in messages[c] : <<y, x>> \in R(c)} = {y \in messages[c] : CandidateBefore(y, x)}
      OBVIOUS
    <3> HIDE DEF R
    <3>2. QED
      BY <3>1
  <2> HIDE DEF At, PlainAt
  <2>2. QED
    BY <2>1
<1> HIDE DEF ranked, plain, R, At, PlainAt
<1>4. ASSUME NEW c \in 1..n PROVE ofContext(c) \in Seq(X)
  <2>1. plain(c) \in Seq(messages[c])
    BY <1>2, <1>3
  <2> DEFINE k == Len(plain(c))
  <2>2. k \in Nat /\ DOMAIN plain(c) = 1..k /\ \A i \in 1..k : plain(c)[i] \in messages[c]
    BY <2>1
  <2> HIDE DEF k
  <2>3. \A i \in 1..k : CandidateRow(keys, c, plain(c)[i]) \in X
    BY <2>2 DEF RowsOf
  <2> HIDE DEF X
  <2> DEFINE s == ofContext(c)
  <2>4. k \in Nat /\ s \in [1..k -> X]
    BY <2>2, <2>3
  <2> HIDE DEF s
  <2>5. s \in Seq(X)
    BY <2>4, SeqDef, Zenon
  <2>6. QED
    BY <2>5 DEF s
<1> HIDE DEF ofContext, X
<1>5. seqs \in [1..n -> Seq(X)]
  BY <1>4 DEF ToldEach
<1> HIDE DEF seqs
<1>6. FlattenSeq(seqs) \in Seq(X)
  BY <1>5, Flattened
<1>7. \A x \in X : x.message \in messages[x.context]
  BY DEF X, RowsOf, CandidateRow
<1> DEFINE s == FlattenSeq(seqs)
<1>8. s \in Seq(X)
  BY <1>6
<1> HIDE DEF s
<1>9. \A e \in DOMAIN s : s[e] \in X
  BY <1>8
<1>10. QED
  BY <1>1, <1>7, <1>9 DEF s

\* Whichever sampler draws: the slots of a context are messages of it.
LEMMA NeighboursMembers ==
    ASSUME NEW n \in Nat, NEW messages, NEW keys, ToldEach(messages, keys, n), NEW hop \in 1..2,
           NEW neighbours \in Neighbours(messages, keys, hop)
    PROVE  /\ DOMAIN neighbours = 1..n
           /\ \A c \in 1..n : neighbours[c] \in Seq(messages[c])
<1>1. ASSUME NEW c \in 1..n, NEW kept \in SUBSET messages[c]
      PROVE  Select(kept, hop) \in Seq(messages[c])
  <2>1. Told(messages[c], keys[c].seq) /\ keys[c].seq \in Nat
    BY DEF ToldEach
  <2>2. Told(kept, keys[c].seq)
    BY <2>1, ToldSubset
  <2>3. Select(kept, hop) \in Seq(kept)
    BY <2>1, <2>2, SelectMembers
  <2>4. QED
    BY <2>3, SeqMonotonic
<1>2. DOMAIN messages = 1..n
  BY DEF ToldEach
<1>3. CASE backend = "torch"
  <2>1. neighbours = KeyDraw(messages, hop)
    BY <1>3 DEF Neighbours
  <2>2. \A c \in 1..n : KeptByKeys(messages[c], hop) \in SUBSET messages[c]
    BY KeptMembers DEF ToldEach
  <2>3. QED
    BY <1>1, <1>2, <2>1, <2>2 DEF KeyDraw
<1>4. CASE backend # "torch"
  <2> DEFINE table == Candidates(messages, keys)
  <2>1. PICK result \in LibraryResults(messages, keys, hop) :
          /\ Accepts(table, RelationQuotas(hop), result)
          /\ neighbours = LibraryDraw(table, DOMAIN messages, result, hop)
    BY <1>4 DEF Neighbours
  <2>2. Chosen(result) \in SUBSET DOMAIN table.rows
    <3>1. CASE result = <<>>
      BY <3>1 DEF Chosen
    <3>2. CASE result # <<>>
      <4>1. table.rows # <<>>
        BY <3>2 DEF LibraryResults
      <4> HIDE DEF table
      <4>2. Consistent(table, result)
        BY <2>1, <4>1 DEF Accepts
      <4>3. QED
        BY <3>2, <4>2 DEF Consistent, Chosen
    <3>3. QED
      BY <3>1, <3>2
  <2>3. \A e \in DOMAIN table.rows : table.rows[e].message \in messages[table.rows[e].context]
    BY CandidateRows
  <2> HIDE DEF table
  <2> DEFINE kept(c) == {table.rows[e].message : e \in {d \in Chosen(result) : table.rows[d].context = c}}
  <2>4. \A c : kept(c) \in SUBSET messages[c]
    BY <2>2, <2>3
  <2>5. neighbours = [c \in 1..n |-> Select(kept(c), hop)]
    BY <1>2, <2>1 DEF LibraryDraw
  <2> HIDE DEF kept
  <2>6. QED
    BY <1>1, <2>4, <2>5
<1>5. QED
  BY <1>3, <1>4
-------------------------------------------------------------------------------
(* The inductive invariant.                                                                *)

\* The registry was prepared before any batch, once the graph had reached the cutoffs.
GraphKnown ==
    /\ log \in Log
    /\ prepared > 0 => Registered(log)
    /\ stage # "idle" => prepared > 0
    /\ prepared \in Nat

\* The roots of a batch are accounts at cutoffs of the dataset, in one view.
RootType == [node : Accounts, seq : Cutoffs, ts : Cutoffs, scoped : BOOLEAN, phase : 1..3]
RootsKnown ==
    /\ accepted \in Seq(RootType)
    /\ \A k \in Range(accepted) : View(k)
    /\ \A j, k \in Range(accepted) : j.scoped = k.scoped /\ j.phase = k.phase

\* The messages of the roots, and those in their slots, are from no later than their cutoffs.
RootsTold ==
    stage = "roots" => \A i \in DOMAIN accepted : Told(rows[accepted[i]].messages, accepted[i].seq)
FirstKnown ==
    stage \in {"first", "children", "done"} =>
      \A i \in DOMAIN accepted :
        /\ first[i] \in Seq(Range(first[i]))
        /\ \A m \in Range(first[i]) : m.seq \in Nat /\ m.seq <= accepted[i].seq

\* The stubs and the withheld histories are what the registry says at the earliest cutoff of a
\* root that reaches them.  Unlike the log, the registry and the slots do not change any more.
StubsKnown ==
    stage \in {"children", "done"} => stubs = {k \in Range(Reached) : IsStub(k, Anchor(k))}
WithheldKnown ==
    /\ stage # "done" => second = <<>>
    /\ stage = "done" =>
         /\ unique = Contexts /\ DOMAIN second = DOMAIN unique
         /\ \A p \in DOMAIN second : withheld[p] =
              {j \in DOMAIN second[p] : IsStub([unique[p] EXCEPT !.node = second[p][j].peer], Anchor(unique[p]))}

\* A fetched child has no history over the capacity.
RejectedKnown ==
    /\ stage \in {"idle", "roots", "first"} => rejected = {}
    /\ \A k \in rejected : k.node \in Accounts => rows[k].status # "history_capacity_exceeded"

BatchInv ==
    /\ GraphKnown /\ RootsKnown /\ RootsTold /\ FirstKnown
    /\ StubsKnown /\ WithheldKnown /\ RejectedKnown

\* The fields of a key.
Shaped(k) == DOMAIN k = {"node", "seq", "ts", "scoped", "phase"}

\* A neighbour's key is of its root's view, at the connecting message.
LEMMA ChildFields ==
    ASSUME NEW root \in RootType, NEW m, NEW k, k = ChildKey(m, root)
    PROVE  /\ Shaped(k) /\ Shaped(root)
           /\ k.node = m.peer /\ k.seq = m.seq /\ k.scoped = root.scoped /\ k.phase = root.phase
BY DEF ChildKey, RootType, Shaped

\* Another node in the same view.
LEMMA OtherNode ==
    ASSUME NEW k, Shaped(k), View(k), NEW a, NEW other, other = [k EXCEPT !.node = a]
    PROVE  View(other)
<1>1. other.scoped = k.scoped /\ other.phase = k.phase
  BY DEF Shaped
<1>2. QED
  BY <1>1 DEF View

\* With the slots known, the sequences are sequences.
LEMMA SlotsKnown ==
    ASSUME RootsKnown, FirstKnown, stage \in {"first", "children", "done"}
    PROVE  SlotsSequences
<1>1. accepted \in Seq(Range(accepted))
  BY MembersIn DEF RootsKnown
<1>2. QED
  BY <1>1 DEF FirstKnown, SlotsSequences

\* The roots by their positions.
LEMMA RootFields ==
    ASSUME RootsKnown, NEW i \in DOMAIN accepted
    PROVE  /\ accepted[i] \in RootType /\ accepted[i] \in Range(accepted)
           /\ accepted[i].seq \in Cutoffs /\ accepted[i].seq \in Nat
<1>1. accepted[i] \in RootType
  BY DEF RootsKnown
<1>2. accepted[i].seq \in Cutoffs
  BY <1>1 DEF RootType
<1>3. QED
  BY <1>1, <1>2, BatchAssumption DEF Range

\* A key in a slot of a root: no later than its cutoff, in its view.
LEMMA SlotFields ==
    ASSUME RootsKnown, FirstKnown, stage \in {"first", "children", "done"},
           NEW i \in DOMAIN accepted, NEW k \in Range(SlotKeys(i))
    PROVE  /\ Shaped(k) /\ View(k) /\ k.seq \in Nat /\ k.seq <= accepted[i].seq
           /\ k.scoped = accepted[i].scoped /\ k.phase = accepted[i].phase
<1>1. PICK j \in DOMAIN first[i] : k = ChildKey(first[i][j], accepted[i])
  BY DEF SlotKeys, Range
<1>2. first[i][j] \in Range(first[i])
  BY DEF Range
<1>3. first[i][j].seq \in Nat /\ first[i][j].seq <= accepted[i].seq
  BY <1>2 DEF FirstKnown
<1>4. accepted[i] \in RootType /\ View(accepted[i])
  BY RootFields DEF RootsKnown
<1>5. /\ Shaped(k) /\ k.seq = first[i][j].seq
      /\ k.scoped = accepted[i].scoped /\ k.phase = accepted[i].phase
  BY <1>1, <1>4, ChildFields
<1>6. QED
  BY <1>3, <1>4, <1>5 DEF View

\* The contexts of a batch are keys of its view, and some root reaches each.
LEMMA ContextFields ==
    ASSUME RootsKnown, FirstKnown, stage \in {"first", "children", "done"}
    PROVE  /\ \A k \in Range(Reached) : /\ Shaped(k) /\ View(k) /\ k.seq \in Nat /\ Reaching(k) # {}
                                        /\ \A i \in Reaching(k) : k.seq <= accepted[i].seq
           /\ \A j, k \in Range(Reached) : j.scoped = k.scoped /\ j.phase = k.phase
           /\ \A k \in Range(Contexts) : Shaped(k) /\ View(k) /\ Reaching(k) # {}
<1>1. SlotsSequences
  BY SlotsKnown
<1>2. ASSUME NEW k \in Range(Reached)
      PROVE  \E i \in DOMAIN accepted : k \in Range(SlotKeys(i))
  BY <1>1, ReachedInSlots DEF SlotRange
<1>3. \A k \in Range(Reached) : Shaped(k) /\ View(k) /\ k.seq \in Nat /\ Reaching(k) # {}
  BY <1>1, <1>2, SlotFields, ReachingSome
<1>4. ASSUME NEW k \in Range(Reached), NEW i \in Reaching(k) PROVE k.seq <= accepted[i].seq
  <2>1. i \in DOMAIN accepted /\ (k = accepted[i] \/ k \in Range(SlotKeys(i)))
    BY DEF Reaching
  <2>2. k \notin Range(accepted)
    BY <1>1, ReachingSome
  <2>3. k \in Range(SlotKeys(i))
    BY <2>1, <2>2, RootFields
  <2>4. QED
    BY <2>1, <2>3, SlotFields
<1>5. ASSUME NEW j \in Range(Reached), NEW k \in Range(Reached)
      PROVE  j.scoped = k.scoped /\ j.phase = k.phase
  <2>1. PICK a \in DOMAIN accepted : j \in Range(SlotKeys(a))
    BY <1>2
  <2>2. PICK b \in DOMAIN accepted : k \in Range(SlotKeys(b))
    BY <1>2
  <2>3. accepted[a].scoped = accepted[b].scoped /\ accepted[a].phase = accepted[b].phase
    BY RootFields DEF RootsKnown
  <2>4. QED
    BY <2>1, <2>2, <2>3, SlotFields
<1>6. ASSUME NEW k \in Range(accepted) PROVE Shaped(k) /\ View(k)
  <2>1. PICK i \in DOMAIN accepted : k = accepted[i]
    BY DEF Range
  <2>2. k \in RootType
    BY <2>1, RootFields
  <2>3. QED
    BY <2>2 DEF RootType, Shaped, RootsKnown
<1>7. \A k \in Range(Contexts) : Shaped(k) /\ View(k) /\ Reaching(k) # {}
  BY <1>1, <1>3, <1>6, ContextsReached, ReachingSome
<1>8. QED
  BY <1>3, <1>4, <1>5, <1>7

\* What the registry says at the earliest cutoff of the roots that reach a context is what is
\* visible before the cutoff of each of them.
LEMMA StubByEveryRoot ==
    ASSUME GraphKnown, RootsKnown, stage # "idle", NEW context, Reaching(context) # {},
           NEW key, View(key)
    PROVE  IsStub(key, Anchor(context))
             <=> /\ key.node \in Accounts
                 /\ \A i \in Reaching(context) : HubBefore(accepted[i].seq, key)
<1> DEFINE S == {accepted[i].seq : i \in Reaching(context)}
<1>1. \A i \in Reaching(context) : accepted[i].seq \in Cutoffs /\ accepted[i].seq \in Nat
  BY RootFields DEF Reaching
<1>2. S \in SUBSET Nat /\ S # {} /\ S \in SUBSET Cutoffs
  BY <1>1
<1>3. Anchor(context) = Min(S)
  BY DEF Anchor
<1>4. \A i \in Reaching(context) : accepted[i].seq \in S
  OBVIOUS
<1>5. \A c \in S : \E i \in Reaching(context) : c = accepted[i].seq
  OBVIOUS
<1> HIDE DEF S
<1>6. Anchor(context) \in S /\ \A c \in S : Anchor(context) <= c
  BY <1>2, <1>3, MinLeast
<1>7. Anchor(context) \in Cutoffs /\ Anchor(context) \in Nat
  BY <1>2, <1>6
<1>8. log \in Log /\ Registered(log)
  BY DEF GraphKnown
<1>9. IsStub(key, Anchor(context)) <=> key.node \in Accounts /\ HubBefore(Anchor(context), key)
  BY <1>7, <1>8, StubIsHub
<1>10. HubBefore(Anchor(context), key) => \A i \in Reaching(context) : HubBefore(accepted[i].seq, key)
  BY <1>1, <1>4, <1>6, <1>7, <1>8, HubBeforeLater
<1>11. (\A i \in Reaching(context) : HubBefore(accepted[i].seq, key)) => HubBefore(Anchor(context), key)
  BY <1>5, <1>6
<1>12. QED
  BY <1>9, <1>10, <1>11

\* The invariant says what the property does.
LEMMA InvStubs ==
    ASSUME BatchInv
    PROVE  StubsFromThePast
<1> USE DEF BatchInv
<1>1. ASSUME stage \in {"children", "done"}
      PROVE  stubs = {k \in Range(Reached) : /\ k.node \in Accounts
                                              /\ \A i \in Reaching(k) : HubBefore(accepted[i].seq, k)}
  <2>1. \A k \in Range(Reached) : View(k) /\ Reaching(k) # {}
    BY <1>1, ContextFields
  <2>2. \A k \in Range(Reached) : IsStub(k, Anchor(k))
          <=> k.node \in Accounts /\ \A i \in Reaching(k) : HubBefore(accepted[i].seq, k)
    BY <1>1, <2>1, StubByEveryRoot
  <2>3. QED
    BY <1>1, <2>2 DEF StubsKnown
<1>2. ASSUME NEW p \in DOMAIN second, NEW j \in DOMAIN second[p]
      PROVE  j \in withheld[p] <=>
               /\ [unique[p] EXCEPT !.node = second[p][j].peer].node \in Accounts
               /\ \A i \in Reaching(unique[p]) :
                    HubBefore(accepted[i].seq, [unique[p] EXCEPT !.node = second[p][j].peer])
  <2>1. stage = "done"
    <3>1. second # <<>>
      OBVIOUS
    <3>2. QED
      BY <3>1 DEF WithheldKnown
  <2> DEFINE other == [unique[p] EXCEPT !.node = second[p][j].peer]
  <2>2. unique[p] \in Range(Contexts)
    BY <2>1 DEF WithheldKnown, Range
  <2>3. Shaped(unique[p]) /\ View(unique[p]) /\ Reaching(unique[p]) # {}
    BY <2>1, <2>2, ContextFields
  <2>4. View(other)
    BY <2>3, OtherNode
  <2>5. j \in withheld[p] <=> IsStub(other, Anchor(unique[p]))
    BY <2>1 DEF WithheldKnown
  <2> HIDE DEF other
  <2>6. QED
    BY <2>1, <2>3, <2>4, <2>5, StubByEveryRoot DEF other
<1>3. \A k \in rejected : k.node \in Accounts => rows[k].status # "history_capacity_exceeded"
  BY DEF RejectedKnown
<1>4. QED
  BY <1>1, <1>2, <1>3 DEF StubsFromThePast
-------------------------------------------------------------------------------
(* The steps.                                                                              *)

\* What roots reach by their slots.
ReachedOf(roots, slots) ==
    Without(BatchIndex(FoldLeft(LAMBDA s, i : s \o [j \in DOMAIN slots[i] |-> ChildKey(slots[i][j], roots[i])],
                                <<>>, [i \in DOMAIN roots |-> i])), Range(roots))

\* Without a change of the roots or their slots, neither what is reached nor its anchor changes.
LEMMA ReachedStays ==
    ASSUME accepted' = accepted, first' = first
    PROVE  Reached' = Reached /\ \A k : Anchor(k)' = Anchor(k)
<1>1. \A i : SlotKeys(i)' = SlotKeys(i)
  BY DEF SlotKeys
<1>2. Reached' = Reached
  <2>1. Reached = ReachedOf(accepted, first)
    BY DEF Reached, ReachedOf, SlotKeys
  <2>2. Reached' = ReachedOf(accepted', first')
    BY DEF Reached, ReachedOf, SlotKeys, FoldLeft, MapThenFoldSet
  <2>3. QED
    BY <2>1, <2>2
<1>3. \A k : Reaching(k)' = Reaching(k)
  BY <1>1 DEF Reaching
<1>4. \A k : Anchor(k)' = Anchor(k)
  BY <1>3 DEF Anchor
<1>5. QED
  BY <1>2, <1>4

\* The registry alone decides what a stub is.
LEMMA StubStays ==
    ASSUME registry' = registry
    PROVE  \A k, c : IsStub(k, c)' <=> IsStub(k, c)
BY DEF IsStub

\* A batch that is left alone keeps its part of the invariant.
LEMMA BatchStays ==
    ASSUME BatchInv, UNCHANGED <<registry, batchVars>>
    PROVE  /\ RootsKnown' /\ RootsTold' /\ FirstKnown'
           /\ StubsKnown' /\ WithheldKnown' /\ RejectedKnown'
<1> USE DEF BatchInv, batchVars
<1>1. Reached' = Reached /\ \A k : Anchor(k)' = Anchor(k)
  BY ReachedStays
<1>2. Contexts' = Contexts
  BY <1>1 DEF Contexts
<1>3. \A k, c : IsStub(k, c)' <=> IsStub(k, c)
  BY StubStays
<1>4. RootsKnown' /\ RootsTold' /\ FirstKnown' /\ RejectedKnown'
  BY DEF RootsKnown, RootsTold, FirstKnown, RejectedKnown
<1>5. StubsKnown'
  BY <1>1, <1>3 DEF StubsKnown
<1>6. WithheldKnown'
  BY <1>1, <1>2, <1>3 DEF WithheldKnown
<1>7. QED
  BY <1>4, <1>5, <1>6

\* The graph grows: the registry says of the cutoffs what it said before.
LEMMA IngestKeeps ==
    ASSUME BatchInv, Ingest
    PROVE  BatchInv'
<1>1. PICK e \in Entries : log' = Append(log, e)
  BY DEF Ingest
<1>2. e \in Payment \cup Binding /\ log \in Log
  BY BatchAssumption DEF BatchInv, GraphKnown
<1>3. log' \in Log /\ Len(log') = Len(log) + 1 /\ Len(log) \in Nat
  BY <1>1, <1>2 DEF Log
<1>4. prepared' = prepared /\ registry' = registry /\ stage' = stage
  BY DEF Ingest, batchVars
<1>5. ASSUME prepared > 0 PROVE Registered(log)'
  <2>1. Registered(log)
    BY <1>5 DEF BatchInv, GraphKnown
  <2>2. \A s \in BOOLEAN : HubAccounts(log', Cutoffs, Threshold, s) = HubAccounts(log, Cutoffs, Threshold, s)
    BY <1>1, <1>2, <2>1, HubsStay DEF Registered
  <2>3. \A c \in Cutoffs : c <= Len(log') + 1
    <3>1. \A c \in Cutoffs : c <= Len(log) + 1 /\ c \in Nat
      BY <2>1, BatchAssumption DEF Registered
    <3>2. QED
      BY <1>3, <3>1
  <2>4. registry' = [s \in BOOLEAN |-> HubAccounts(log', Cutoffs, Threshold, s)]
    BY <1>4, <2>1, <2>2 DEF Registered
  <2>5. Threshold' = Threshold
    BY DEF Threshold
  <2>6. QED
    BY <2>3, <2>4, <2>5 DEF Registered
<1>6. GraphKnown'
  BY <1>3, <1>4, <1>5 DEF BatchInv, GraphKnown
<1>7. UNCHANGED <<registry, batchVars>>
  BY DEF Ingest
<1>8. QED
  BY <1>6, <1>7, BatchStays DEF BatchInv

\* The registry is counted on the log as it is, before any batch.
LEMMA PrepareKeeps ==
    ASSUME BatchInv, Prepare
    PROVE  BatchInv'
<1>1. prepared = 0 /\ log' = log /\ prepared' = Len(log) /\ UNCHANGED batchVars
  BY DEF Prepare
<1>2. stage = "idle" /\ log \in Log /\ Len(log) \in Nat
  BY <1>1 DEF BatchInv, GraphKnown, Log
<1>3. Registered(log)'
  BY <1>1 DEF Prepare, Registered, Threshold
<1>4. GraphKnown'
  BY <1>1, <1>2, <1>3 DEF GraphKnown, batchVars
<1>5. QED
  BY <1>1, <1>2, <1>4
     DEF BatchInv, RootsKnown, RootsTold, FirstKnown, StubsKnown, WithheldKnown, RejectedKnown, batchVars

\* A batch in progress leaves the graph alone.
LEMMA GraphStays ==
    ASSUME GraphKnown, UNCHANGED graphVars, prepared > 0
    PROVE  GraphKnown'
BY DEF GraphKnown, Registered, graphVars, Threshold

\* The rows of the roots are from no later than their cutoffs; the accepted roots are some of them.
LEMMA FetchRootsKeeps ==
    ASSUME BatchInv, FetchRoots
    PROVE  BatchInv'
<1> DEFINE Keys(roots, view) == [i \in DOMAIN roots |-> RootKey(roots[i], view)]
<1>1. PICK roots \in RootSets, view \in Views :
        /\ rows' = Fetched(Keys(roots, view), Roots)
        /\ accepted' = Without(Keys(roots, view), {k \in Range(Keys(roots, view)) : rows'[k].status # "ok"})
        /\ stage' = IF accepted' # <<>> THEN "roots" ELSE "empty"
  BY DEF FetchRoots
<1> DEFINE keys == Keys(roots, view)
           n == Len(roots)
<1>2. /\ roots \in Seq(Accounts \X Cutoffs) /\ view \in BOOLEAN \X (1..3) /\ (~view[1] => view[2] = 3)
      /\ Cutoffs \subseteq Nat /\ Roots.max_history \in Nat
  BY BatchAssumption DEF Pool
<1>3. n \in Nat /\ DOMAIN roots = 1..n /\ \A i \in 1..n : roots[i][1] \in Accounts /\ roots[i][2] \in Cutoffs
  <2>1. n \in Nat /\ DOMAIN roots = 1..n /\ \A i \in 1..n : roots[i] \in Accounts \X Cutoffs
    BY <1>2
  <2>2. QED
    BY <2>1
<1>4. view[1] \in BOOLEAN /\ view[2] \in 1..3
  BY <1>2
<1>5. DOMAIN keys = 1..n /\ \A i \in 1..n : keys[i] = RootKey(roots[i], view)
  BY <1>3
<1>6. \A i \in 1..n : /\ keys[i] \in RootType /\ keys[i].seq \in Nat
                      /\ keys[i].scoped = view[1] /\ keys[i].phase = view[2]
  BY <1>2, <1>3, <1>4, <1>5 DEF RootKey, RootType
<1> HIDE DEF n
<1>7. keys \in Seq(RootType)
  <2> DEFINE s == keys
  <2>1. n \in Nat /\ s \in [1..n -> RootType]
    BY <1>3, <1>5, <1>6
  <2> HIDE DEF s
  <2>2. s \in Seq(RootType)
    BY <2>1, SeqDef, Zenon
  <2>3. QED
    BY <2>2 DEF s
<1> HIDE DEF Keys
<1>8. \A k \in Range(keys) : k \in RootType /\ k.seq \in Nat /\ k.scoped = view[1] /\ k.phase = view[2]
  BY <1>5, <1>6 DEF Range
<1>9. SameView(keys)
  BY <1>5, <1>6 DEF SameView
<1>10. log \in Log
  BY DEF BatchInv, GraphKnown
<1>11. \A k \in Range(keys) : RowFacts(rows'[k], log, k, Roots)
  BY <1>1, <1>2, <1>3, <1>5, <1>6, <1>9, <1>10, FetchedRows
<1> DEFINE bad == {k \in Range(keys) : rows'[k].status # "ok"}
<1>12. accepted' \in Seq(Range(keys))
  <2>1. accepted' = Without(keys, bad)
    BY <1>1
  <2> HIDE DEF bad
  <2>2. accepted' \in Seq(Range(keys) \ bad)
    BY <1>7, <2>1, MembersIn, WithoutOthers
  <2>3. QED
    BY <2>2, SeqMonotonic
<1>13. Range(accepted') \subseteq Range(keys) /\ \A i \in DOMAIN accepted' : accepted'[i] \in Range(keys)
  BY <1>12, MembersIn
<1>14. RootsKnown'
  <2>1. accepted' \in Seq(RootType)
    BY <1>8, <1>12, SeqMonotonic
  <2>2. \A k \in Range(accepted') : View(k)
    BY <1>2, <1>4, <1>8, <1>13 DEF View
  <2>3. \A j, k \in Range(accepted') : j.scoped = k.scoped /\ j.phase = k.phase
    BY <1>8, <1>13
  <2>4. QED
    BY <2>1, <2>2, <2>3 DEF RootsKnown, View
<1>15. RootsTold'
  <2>1. \A i \in DOMAIN accepted' : Told(rows'[accepted'[i]].messages, accepted'[i].seq)
    BY <1>11, <1>13 DEF RowFacts
  <2>2. QED
    BY <2>1 DEF RootsTold, Told
<1>16. stage = "idle" /\ prepared > 0 /\ UNCHANGED <<graphVars, rejected, second>>
  BY DEF FetchRoots
<1>17. GraphKnown'
  BY <1>16, GraphStays DEF BatchInv
<1>18. stage' \in {"roots", "empty"}
  BY <1>1
<1>19. FirstKnown' /\ StubsKnown' /\ WithheldKnown'
  BY <1>16, <1>18 DEF BatchInv, FirstKnown, StubsKnown, WithheldKnown
<1>20. RejectedKnown'
  BY <1>16 DEF BatchInv, RejectedKnown
<1>21. QED
  BY <1>14, <1>15, <1>17, <1>19, <1>20 DEF BatchInv

\* The slots of a root hold messages of its row.
LEMMA SelectFirstKeeps ==
    ASSUME BatchInv, SelectFirst
    PROVE  BatchInv'
<1> DEFINE n == Len(accepted)
<1>1. /\ stage = "roots" /\ stage' = "first" /\ first' \in Neighbours(RootMessages, accepted, 1)
      /\ UNCHANGED <<graphVars, accepted, rows, rejected, second>>
  BY DEF SelectFirst
<1>2. n \in Nat /\ DOMAIN accepted = 1..n
  BY DEF BatchInv, RootsKnown
<1> HIDE DEF n
<1>3. ToldEach(RootMessages, accepted, n)
  <2>1. DOMAIN RootMessages = 1..n /\ \A i \in 1..n : RootMessages[i] = rows[accepted[i]].messages
    BY <1>2 DEF RootMessages
  <2>2. \A i \in 1..n : accepted[i].seq \in Nat /\ Told(rows[accepted[i]].messages, accepted[i].seq)
    BY <1>1, <1>2, RootFields DEF BatchInv, RootsTold
  <2>3. QED
    BY <1>2, <2>1, <2>2 DEF ToldEach
<1>4. \A i \in 1..n : first'[i] \in Seq(RootMessages[i])
  <2>1. 1 \in 1..2
    OBVIOUS
  <2>2. QED
    BY <1>1, <1>2, <1>3, <2>1, NeighboursMembers
<1>5. ASSUME NEW i \in 1..n
      PROVE  /\ first'[i] \in Seq(Range(first'[i]))
             /\ \A m \in Range(first'[i]) : m.seq \in Nat /\ m.seq <= accepted[i].seq
  <2>1. Range(first'[i]) \subseteq RootMessages[i] /\ first'[i] \in Seq(Range(first'[i]))
    BY <1>4, MembersIn
  <2>2. \A m \in RootMessages[i] : m.seq \in Nat /\ m.seq <= accepted[i].seq
    BY <1>3 DEF ToldEach, Told
  <2>3. QED
    BY <2>1, <2>2
<1>6. FirstKnown'
  BY <1>1, <1>2, <1>5 DEF FirstKnown
<1>7. GraphKnown'
  <2>1. prepared > 0
    BY <1>1 DEF BatchInv, GraphKnown
  <2>2. QED
    BY <1>1, <2>1, GraphStays DEF BatchInv
<1>8. RootsKnown' /\ RootsTold' /\ StubsKnown' /\ WithheldKnown' /\ RejectedKnown'
  BY <1>1 DEF BatchInv, RootsKnown, RootsTold, StubsKnown, WithheldKnown, RejectedKnown
<1>9. QED
  BY <1>6, <1>7, <1>8 DEF BatchInv

\* A child that is over the capacity is a hub before every root that reaches it: it was a stub.
LEMMA FetchChildrenKeeps ==
    ASSUME BatchInv, FetchChildren
    PROVE  BatchInv'
<1> DEFINE hubs == {k \in Range(Reached) : IsStub(k, Anchor(k))}
           asked == Without(Reached, hubs)
           fetched == Fetched(asked, Children)
           n == Len(asked)
<1>1. /\ stage = "first" /\ stage' = "children" /\ stubs' = hubs
      /\ rejected' = {k \in Range(asked) : fetched[k].status # "ok"}
      /\ rows' = [k \in Range(asked) \cup DOMAIN rows |-> IF k \in Range(asked) THEN fetched[k] ELSE rows[k]]
      /\ UNCHANGED <<graphVars, accepted, first, second>>
  BY DEF FetchChildren
<1>2. GraphKnown /\ RootsKnown /\ FirstKnown /\ stage # "idle" /\ log \in Log
  BY <1>1 DEF BatchInv, GraphKnown
<1>3. asked \in Seq(Range(Reached) \ hubs)
  <2>1. Reached \in Seq(Range(Reached))
    BY <1>1, <1>2, SlotsKnown, ReachedInSlots
  <2> HIDE DEF hubs
  <2>2. QED
    BY <2>1, MembersIn, WithoutOthers
<1>4. /\ n \in Nat /\ DOMAIN asked = 1..n /\ Range(asked) \subseteq Range(Reached) \ hubs
      /\ \A i \in 1..n : asked[i] \in Range(Reached)
  <2> HIDE DEF hubs, asked
  <2>1. n \in Nat /\ DOMAIN asked = 1..n /\ Range(asked) \subseteq Range(Reached) \ hubs
    BY <1>3, MembersIn
  <2>2. QED
    BY <2>1 DEF Range
<1> HIDE DEF n, asked
<1>5. \A k \in Range(Reached) : /\ View(k) /\ k.seq \in Nat /\ Reaching(k) # {}
                                /\ \A i \in Reaching(k) : k.seq <= accepted[i].seq
  BY <1>1, <1>2, ContextFields
<1>6. SameView(asked)
  BY <1>1, <1>2, <1>4, ContextFields DEF SameView
<1>7. Children.max_history \in Nat
  BY BatchAssumption DEF Pool
<1>8. /\ DOMAIN fetched = Range(asked)
      /\ \A k \in Range(asked) : RowFacts(fetched[k], log, k, Children)
  BY <1>2, <1>4, <1>5, <1>6, <1>7, FetchedRows
<1> HIDE DEF fetched
<1>9. ASSUME NEW k \in Range(asked), k.node \in Accounts, fetched[k].status = "history_capacity_exceeded"
      PROVE  FALSE
  <2>1. k \in Range(Reached) /\ k \notin hubs
    BY <1>4
  <2>2. View(k) /\ k.seq \in Nat /\ Reaching(k) # {}
    BY <1>5, <2>1
  <2>3. PICK rel \in Range(Relations) : Cardinality(Counted(log, k.seq, k, rel)) > Children.max_history
    BY <1>8, <1>9 DEF RowFacts
  <2>4. Cardinality(Counted(log, k.seq, k, rel)) \in Nat
    BY <1>2, <2>2, CountedFinite
  <2>5. Cardinality(Counted(log, k.seq, k, rel)) > Threshold
    BY <1>7, <2>3, <2>4, ThresholdIs
  <2>6. HubBefore(k.seq, k)
    BY <1>2, <2>2, <2>5, HubBeforeIs
  <2>7. ASSUME NEW i \in Reaching(k) PROVE HubBefore(accepted[i].seq, k)
    <3>1. accepted[i].seq \in Nat /\ k.seq <= accepted[i].seq
      BY <1>2, <1>5, <2>1, RootFields DEF Reaching
    <3>2. QED
      BY <1>2, <2>2, <2>6, <3>1, HubBeforeLater
  <2>8. IsStub(k, Anchor(k))
    BY <1>2, <1>9, <2>2, <2>7, StubByEveryRoot
  <2>9. QED
    BY <2>1, <2>8
<1>10. \A k \in rejected' : k \in Range(asked) /\ rows'[k] = fetched[k]
  BY <1>1
<1>11. RejectedKnown'
  BY <1>1, <1>9, <1>10 DEF RejectedKnown
<1>12. Reached' = Reached /\ \A k : Anchor(k)' = Anchor(k)
  BY <1>1, ReachedStays
<1>13. StubsKnown'
  <2>1. \A k, c : IsStub(k, c)' <=> IsStub(k, c)
    BY <1>1, StubStays DEF graphVars
  <2>2. QED
    BY <1>1, <1>12, <2>1 DEF StubsKnown
<1>14. GraphKnown'
  <2>1. prepared > 0
    BY <1>2 DEF GraphKnown
  <2>2. QED
    BY <1>1, <1>2, <2>1, GraphStays
<1>15. RootsKnown' /\ RootsTold' /\ FirstKnown' /\ WithheldKnown'
  BY <1>1, <1>2 DEF BatchInv, RootsKnown, RootsTold, FirstKnown, WithheldKnown
<1>16. QED
  BY <1>11, <1>13, <1>14, <1>15 DEF BatchInv

\* A draw has the slots of the contexts it is given.
LEMMA NeighboursOfEach ==
    ASSUME NEW messages, NEW keys, NEW hop, NEW neighbours \in Neighbours(messages, keys, hop)
    PROVE  DOMAIN neighbours = DOMAIN messages
BY DEF Neighbours, KeyDraw, LibraryDraw

\* The histories are withheld of the contexts the batch has.
LEMMA AssembleKeeps ==
    ASSUME BatchInv, Assemble
    PROVE  BatchInv'
<1>1. /\ stage = "children" /\ stage' = "done" /\ unique' = Contexts
      /\ second' \in Neighbours(ContextMessages, Contexts, 2)
      /\ withheld' = [p \in DOMAIN second' |-> {j \in DOMAIN second'[p] :
                         IsStub([Contexts[p] EXCEPT !.node = second'[p][j].peer], Anchor(Contexts[p]))}]
      /\ UNCHANGED <<graphVars, accepted, first, stubs, rejected, rows>>
  BY DEF Assemble
<1>2. Reached' = Reached /\ \A k : Anchor(k)' = Anchor(k)
  BY <1>1, ReachedStays
<1>3. Contexts' = Contexts
  BY <1>1, <1>2 DEF Contexts
<1>4. \A k, c : IsStub(k, c)' <=> IsStub(k, c)
  BY <1>1, StubStays DEF graphVars
<1>5. DOMAIN second' = DOMAIN Contexts
  <2>1. DOMAIN second' = DOMAIN ContextMessages
    BY <1>1, NeighboursOfEach
  <2>2. QED
    BY <2>1 DEF ContextMessages
<1>6. WithheldKnown'
  <2>1. \A p \in DOMAIN second' : withheld'[p] =
          {j \in DOMAIN second'[p] :
             IsStub([Contexts[p] EXCEPT !.node = second'[p][j].peer], Anchor(Contexts[p]))}
    BY <1>1
  <2>2. QED
    BY <1>1, <1>2, <1>3, <1>4, <1>5, <2>1 DEF WithheldKnown
<1>7. StubsKnown'
  BY <1>1, <1>2, <1>4 DEF BatchInv, StubsKnown
<1>8. GraphKnown'
  <2>1. prepared > 0
    BY <1>1 DEF BatchInv, GraphKnown
  <2>2. QED
    BY <1>1, <2>1, GraphStays DEF BatchInv
<1>9. RootsKnown' /\ RootsTold' /\ FirstKnown' /\ RejectedKnown'
  BY <1>1 DEF BatchInv, RootsKnown, RootsTold, FirstKnown, RejectedKnown
<1>10. QED
  BY <1>6, <1>7, <1>8, <1>9 DEF BatchInv

\* A batch that fails has drawn nothing further.
LEMMA RefuseDrawKeeps ==
    ASSUME BatchInv, RefuseDraw
    PROVE  BatchInv'
<1>1. stage' = "failed" /\ UNCHANGED <<graphVars, accepted, rows, rejected, second>> /\ NextDraw # {}
  BY DEF RefuseDraw
<1>2. stage \in {"roots", "children"}
  BY <1>1 DEF NextDraw
<1>3. prepared > 0
  BY <1>2 DEF BatchInv, GraphKnown
<1>4. GraphKnown'
  BY <1>1, <1>3, GraphStays DEF BatchInv
<1>5. RootsKnown' /\ RootsTold' /\ FirstKnown' /\ StubsKnown' /\ WithheldKnown' /\ RejectedKnown'
  BY <1>1, <1>2
     DEF BatchInv, RootsKnown, RootsTold, FirstKnown, StubsKnown, WithheldKnown, RejectedKnown
<1>6. QED
  BY <1>4, <1>5 DEF BatchInv

\* The invariant holds initially and every step keeps it.
LEMMA BatchInvariant == Spec => []BatchInv
<1>1. Init => BatchInv
  <2> SUFFICES ASSUME Init PROVE BatchInv
    OBVIOUS
  <2>1. log \in Log
    BY BatchAssumption DEF Init, Log
  <2>2. GraphKnown
    BY <2>1 DEF Init, GraphKnown
  <2>3. accepted = <<>> /\ Range(accepted) = {}
    BY DEF Init, Range
  <2>4. RootsKnown
    BY <2>3 DEF RootsKnown
  <2>5. RootsTold /\ FirstKnown /\ StubsKnown /\ WithheldKnown /\ RejectedKnown
    BY DEF Init, RootsTold, FirstKnown, StubsKnown, WithheldKnown, RejectedKnown
  <2>6. QED
    BY <2>2, <2>4, <2>5 DEF BatchInv
<1>2. BatchInv /\ [Next]_vars => BatchInv'
  <2> SUFFICES ASSUME BatchInv, [Next]_vars PROVE BatchInv'
    OBVIOUS
  <2>1. CASE Ingest
    BY <2>1, IngestKeeps
  <2>2. CASE Prepare
    BY <2>2, PrepareKeeps
  <2>3. CASE FetchRoots
    BY <2>3, FetchRootsKeeps
  <2>4. CASE SelectFirst
    BY <2>4, SelectFirstKeeps
  <2>5. CASE FetchChildren
    BY <2>5, FetchChildrenKeeps
  <2>6. CASE Assemble
    BY <2>6, AssembleKeeps
  <2>7. CASE RefuseDraw
    BY <2>7, RefuseDrawKeeps
  <2>8. CASE UNCHANGED vars
    <3>1. UNCHANGED <<registry, batchVars>> /\ UNCHANGED graphVars /\ stage' = stage
      BY <2>8 DEF vars, graphVars, batchVars
    <3>2. GraphKnown'
      BY <3>1 DEF BatchInv, GraphKnown, Registered, graphVars, Threshold
    <3>3. QED
      BY <3>1, <3>2, BatchStays DEF BatchInv
  <2>9. QED
    BY <2>1, <2>2, <2>3, <2>4, <2>5, <2>6, <2>7, <2>8 DEF Next
<1>3. QED
  BY <1>1, <1>2, PTL DEF Spec

\* Whatever the graph, the pools, the fan-outs and the sampler: a context of a batch is a stub,
\* and an outermost peer's history is withheld, exactly when it is a hub before the cutoff of
\* every root that reaches it, and a fetched account never fails for its capacity.
THEOREM StubsCorrect == Spec => []StubsFromThePast
<1>1. BatchInv => StubsFromThePast
  BY InvStubs
<1>2. QED
  BY <1>1, BatchInvariant, PTL
-------------------------------------------------------------------------------
(* What a batch holds is from the past of the context that holds it.                       *)

\* Until they are drawn from: the rows of the roots, then those of the contexts.
RowsShown ==
    /\ stage \in {"roots", "first"} =>
         \A k \in Range(accepted) :
           k \in DOMAIN rows /\ Told(rows[k].messages, k.seq) /\ Shown(rows[k].messages, k)
    /\ stage = "children" =>
         \A k \in Range(Contexts) : Told(RowMessages(k), k.seq) /\ Shown(RowMessages(k), k)

\* What the slots of the roots hold.
FirstShown ==
    stage \in {"first", "children", "done"} =>
      \A i \in DOMAIN accepted : Shown(Range(first[i]), accepted[i])

\* A slot leads to the context of its key, or nowhere: the key was rejected.
PositionsKnown ==
    stage = "done" =>
      \A i \in DOMAIN accepted : \A j \in DOMAIN first[i] :
        IF SlotKeys(i)[j] \in rejected THEN positions[i][j] = 0
        ELSE positions[i][j] \in DOMAIN second /\ unique[positions[i][j]] = SlotKeys(i)[j]

\* What the slots of the contexts hold.
SecondShown ==
    stage = "done" => \A p \in DOMAIN second : Shown(Range(second[p]), unique[p])

SlotsInv == RowsShown /\ FirstShown /\ PositionsKnown /\ SecondShown

\* Of a batch that is done: a root's slots hold messages it may be shown, and each leads nowhere,
\* its neighbour having been rejected, or to the context of that neighbour at the sequence number
\* of the message, whose slots hold messages that context may be shown.
BatchFromThePast ==
    stage = "done" =>
      /\ \A i \in DOMAIN accepted : \A j \in DOMAIN first[i] :
           LET m == first[i][j]
               p == positions[i][j]
           IN /\ InPast(m, accepted[i])
              /\ IF ChildKey(m, accepted[i]) \in rejected THEN p = 0
                 ELSE p \in DOMAIN second /\ unique[p] = ChildKey(m, accepted[i])
      /\ \A p \in DOMAIN second : \A j \in DOMAIN second[p] : InPast(second[p][j], unique[p])

\* What a context may be shown depends on nothing that changes.
LEMMA ShownSubset ==
    ASSUME NEW messages, NEW key, Shown(messages, key), NEW some \in SUBSET messages
    PROVE  Shown(some, key)
BY DEF Shown

\* A batch that is left alone holds what it did.
LEMMA SlotsStay ==
    ASSUME SlotsInv, UNCHANGED batchVars
    PROVE  SlotsInv'
<1> USE DEF SlotsInv, batchVars
<1>1. Contexts' = Contexts
  BY ReachedStays DEF Contexts
<1>2. \A i : SlotKeys(i)' = SlotKeys(i)
  BY DEF SlotKeys
<1>3. \A k : RowMessages(k)' = RowMessages(k)
  BY DEF RowMessages
<1>4. RowsShown'
  BY <1>1, <1>3 DEF RowsShown, Told, Shown, InPast
<1>5. FirstShown' /\ SecondShown'
  BY DEF FirstShown, SecondShown, Shown, InPast
<1>6. PositionsKnown'
  BY <1>2 DEF PositionsKnown
<1>7. QED
  BY <1>4, <1>5, <1>6

\* The rows of the roots.
LEMMA FetchRootsShown ==
    ASSUME BatchInv, FetchRoots
    PROVE  SlotsInv'
<1> DEFINE Keys(roots, view) == [i \in DOMAIN roots |-> RootKey(roots[i], view)]
<1>1. PICK roots \in RootSets, view \in Views :
        /\ rows' = Fetched(Keys(roots, view), Roots)
        /\ accepted' = Without(Keys(roots, view), {k \in Range(Keys(roots, view)) : rows'[k].status # "ok"})
        /\ stage' = IF accepted' # <<>> THEN "roots" ELSE "empty"
  BY DEF FetchRoots
<1> DEFINE keys == Keys(roots, view)
           n == Len(roots)
<1>2. /\ roots \in Seq(Accounts \X Cutoffs) /\ Cutoffs \subseteq Nat /\ Roots.max_history \in Nat
  BY BatchAssumption DEF Pool
<1>3. n \in Nat /\ DOMAIN keys = 1..n /\ \A i \in 1..n : keys[i] = RootKey(roots[i], view)
  BY <1>2
<1>4. \A i \in 1..n : roots[i][2] \in Cutoffs
  <2>1. \A i \in 1..n : roots[i] \in Accounts \X Cutoffs
    BY <1>2
  <2>2. QED
    BY <2>1
<1>5. \A i \in 1..n : keys[i].seq \in Nat /\ keys[i].scoped = view[1] /\ keys[i].phase = view[2]
  BY <1>2, <1>3, <1>4 DEF RootKey
<1> HIDE DEF n, Keys
<1>6. SameView(keys)
  BY <1>3, <1>5 DEF SameView
<1>7. log \in Log
  BY DEF BatchInv, GraphKnown
<1>8. /\ DOMAIN rows' = Range(keys)
      /\ \A k \in Range(keys) : RowFacts(rows'[k], log, k, Roots)
  BY <1>1, <1>2, <1>3, <1>5, <1>6, <1>7, FetchedRows
<1>9. Range(accepted') \subseteq Range(keys)
  <2> DEFINE bad == {k \in Range(keys) : rows'[k].status # "ok"}
  <2>1. accepted' = Without(keys, bad)
    BY <1>1
  <2> HIDE DEF bad
  <2>2. accepted' \in Seq(Range(keys) \ bad)
    BY <1>3, <2>1, WithoutOthers
  <2>3. QED
    BY <2>2, MembersIn
<1>10. RowsShown'
  <2>1. \A k \in Range(accepted') :
          k \in DOMAIN rows' /\ Told(rows'[k].messages, k.seq) /\ Shown(rows'[k].messages, k)
    BY <1>8, <1>9 DEF RowFacts
  <2>2. stage' \in {"roots", "empty"}
    BY <1>1
  <2>3. QED
    BY <2>1, <2>2 DEF RowsShown, Told, Shown, InPast
<1>11. FirstShown' /\ PositionsKnown' /\ SecondShown'
  BY <1>1 DEF FirstShown, PositionsKnown, SecondShown
<1>12. QED
  BY <1>10, <1>11 DEF SlotsInv

\* The slots of the roots.
LEMMA SelectFirstShown ==
    ASSUME BatchInv, SlotsInv, SelectFirst
    PROVE  SlotsInv'
<1> DEFINE n == Len(accepted)
<1>1. /\ stage = "roots" /\ stage' = "first" /\ first' \in Neighbours(RootMessages, accepted, 1)
      /\ UNCHANGED <<accepted, rows>>
  BY DEF SelectFirst
<1>2. n \in Nat /\ DOMAIN accepted = 1..n
  BY DEF BatchInv, RootsKnown
<1> HIDE DEF n
<1>3. /\ DOMAIN RootMessages = 1..n
      /\ \A i \in 1..n : /\ RootMessages[i] = rows[accepted[i]].messages
                          /\ accepted[i].seq \in Nat /\ Told(RootMessages[i], accepted[i].seq)
                          /\ Shown(RootMessages[i], accepted[i])
  BY <1>1, <1>2, RootFields DEF RootMessages, BatchInv, SlotsInv, RowsShown
<1>4. ToldEach(RootMessages, accepted, n)
  BY <1>2, <1>3 DEF ToldEach
<1>5. \A i \in 1..n : first'[i] \in Seq(RootMessages[i])
  <2>1. 1 \in 1..2
    OBVIOUS
  <2>2. QED
    BY <1>1, <1>2, <1>4, <2>1, NeighboursMembers
<1>6. \A i \in 1..n : Shown(Range(first'[i]), accepted[i])
  BY <1>3, <1>5, MembersIn, ShownSubset
<1>7. FirstShown'
  BY <1>1, <1>2, <1>6 DEF FirstShown, Shown, InPast
<1>8. RowsShown'
  BY <1>1 DEF SlotsInv, RowsShown, Told, Shown, InPast
<1>9. PositionsKnown' /\ SecondShown'
  BY <1>1 DEF PositionsKnown, SecondShown
<1>10. QED
  BY <1>7, <1>8, <1>9 DEF SlotsInv

\* The rows of the children, beside those of the roots.
LEMMA FetchChildrenShown ==
    ASSUME BatchInv, SlotsInv, FetchChildren
    PROVE  SlotsInv'
<1> DEFINE hubs == {k \in Range(Reached) : IsStub(k, Anchor(k))}
           asked == Without(Reached, hubs)
           fetched == Fetched(asked, Children)
           n == Len(asked)
<1>1. /\ stage = "first" /\ stage' = "children" /\ stubs' = hubs
      /\ rejected' = {k \in Range(asked) : fetched[k].status # "ok"}
      /\ rows' = [k \in Range(asked) \cup DOMAIN rows |-> IF k \in Range(asked) THEN fetched[k] ELSE rows[k]]
      /\ UNCHANGED <<accepted, first>>
  BY DEF FetchChildren
<1>2. RootsKnown /\ FirstKnown /\ log \in Log /\ SlotsSequences
  BY <1>1, SlotsKnown DEF BatchInv, GraphKnown
<1>3. /\ asked \in Seq(Range(Reached) \ hubs) /\ Range(Reached) \ hubs \subseteq Range(asked)
  <2>1. Reached \in Seq(Range(Reached))
    BY <1>2, ReachedInSlots
  <2> HIDE DEF hubs
  <2>2. QED
    BY <2>1, MembersIn, WithoutOthers
<1>4. /\ n \in Nat /\ DOMAIN asked = 1..n /\ Range(asked) \subseteq Range(Reached) \ hubs
      /\ \A i \in 1..n : asked[i] \in Range(Reached)
  <2> HIDE DEF hubs, asked
  <2>1. n \in Nat /\ DOMAIN asked = 1..n /\ Range(asked) \subseteq Range(Reached) \ hubs
    BY <1>3, MembersIn
  <2>2. QED
    BY <2>1 DEF Range
<1>5. hubs \subseteq Range(Reached)
  OBVIOUS
<1> HIDE DEF n, asked, hubs
<1>6. \A i \in 1..n : asked[i].seq \in Nat
  BY <1>1, <1>2, <1>4, ContextFields
<1>7. SameView(asked)
  BY <1>1, <1>2, <1>4, ContextFields DEF SameView
<1>8. Children.max_history \in Nat
  BY BatchAssumption DEF Pool
<1>9. \A k \in Range(asked) : RowFacts(fetched[k], log, k, Children)
  BY <1>2, <1>4, <1>6, <1>7, <1>8, FetchedRows
<1> HIDE DEF fetched
<1>10. Reached' = Reached
  BY <1>1, ReachedStays
<1>11. Range(Contexts') \subseteq Range(accepted) \cup Range(Reached)
  <2>1. Contexts' = ContextsOf(accepted, Reached, rejected')
    BY <1>1, <1>10 DEF Contexts, ContextsOf
  <2>2. accepted \in Seq(Range(accepted)) /\ Reached \in Seq(Range(Reached))
    BY <1>2, ReachedInSlots DEF SlotsSequences
  <2>3. Contexts' \in Seq(Range(accepted) \cup (Range(Reached) \ rejected'))
    BY <2>1, <2>2, ContextsOfRoots
  <2>4. QED
    BY <2>3, MembersIn
<1>12. ASSUME NEW k \in Range(accepted) PROVE Told(RowMessages(k)', k.seq) /\ Shown(RowMessages(k)', k)
  <2>1. k \notin Range(Reached)
    BY <1>2, ReachedInSlots
  <2>2. k \notin hubs /\ k \notin Range(asked)
    BY <1>4, <1>5, <2>1
  <2>3. k \in DOMAIN rows /\ Told(rows[k].messages, k.seq) /\ Shown(rows[k].messages, k)
    BY <1>1 DEF SlotsInv, RowsShown
  <2>4. RowMessages(k)' = rows[k].messages
    BY <1>1, <2>2, <2>3 DEF RowMessages
  <2>5. QED
    BY <2>3, <2>4
<1>13. ASSUME NEW k \in Range(Reached) PROVE Told(RowMessages(k)', k.seq) /\ Shown(RowMessages(k)', k)
  <2>1. CASE k \in hubs
    <3>1. RowMessages(k)' = {}
      BY <1>1, <2>1 DEF RowMessages
    <3>2. Told({}, k.seq) /\ Shown({}, k)
      BY FS_EmptySet DEF Told, Shown
    <3>3. QED
      BY <3>1, <3>2
  <2>2. CASE k \notin hubs
    <3>1. k \in Range(asked)
      BY <1>3, <2>2
    <3>2. RowMessages(k)' = fetched[k].messages
      BY <1>1, <2>2, <3>1 DEF RowMessages
    <3>3. QED
      BY <1>9, <3>1, <3>2 DEF RowFacts
  <2>3. QED
    BY <2>1, <2>2
<1>14. RowsShown'
  <2>1. \A k \in Range(Contexts') : Told(RowMessages(k)', k.seq) /\ Shown(RowMessages(k)', k)
    BY <1>11, <1>12, <1>13
  <2>2. QED
    BY <1>1, <2>1 DEF RowsShown, Told, Shown, InPast
<1>15. FirstShown'
  BY <1>1 DEF SlotsInv, FirstShown, Shown, InPast
<1>16. PositionsKnown' /\ SecondShown'
  BY <1>1 DEF PositionsKnown, SecondShown
<1>17. QED
  BY <1>14, <1>15, <1>16 DEF SlotsInv

\* The second draw, and what the slots of the roots lead to.
LEMMA AssembleShown ==
    ASSUME BatchInv, SlotsInv, Assemble
    PROVE  SlotsInv'
<1> DEFINE n == Len(Contexts)
<1>1. /\ stage = "children" /\ stage' = "done" /\ unique' = Contexts
      /\ second' \in Neighbours(ContextMessages, Contexts, 2)
      /\ positions' = [i \in DOMAIN accepted |-> [j \in DOMAIN first[i] |->
                          IF SlotKeys(i)[j] \in rejected THEN 0
                          ELSE CHOOSE p \in DOMAIN Contexts : Contexts[p] = SlotKeys(i)[j]]]
      /\ UNCHANGED <<accepted, first, rejected>>
  BY DEF Assemble
<1>2. RootsKnown /\ FirstKnown /\ SlotsSequences
  BY <1>1, SlotsKnown DEF BatchInv
<1>3. /\ Range(Contexts) \subseteq Range(accepted) \cup Range(Reached)
      /\ Range(accepted) \cup (Range(Reached) \ rejected) \subseteq Range(Contexts)
      /\ n \in Nat /\ DOMAIN Contexts = 1..n
  BY <1>2, ContextsReached, MembersIn
<1>4. ASSUME NEW p \in 1..n
      PROVE  /\ Contexts[p].seq \in Nat /\ Told(ContextMessages[p], Contexts[p].seq)
             /\ Shown(ContextMessages[p], Contexts[p])
  <2>1. Contexts[p] \in Range(Contexts)
    BY <1>3 DEF Range
  <2>2. ContextMessages[p] = RowMessages(Contexts[p])
    BY <1>3 DEF ContextMessages
  <2>3. Told(RowMessages(Contexts[p]), Contexts[p].seq) /\ Shown(RowMessages(Contexts[p]), Contexts[p])
    BY <1>1, <2>1 DEF SlotsInv, RowsShown
  <2>4. Contexts[p].seq \in Nat
    <3>1. \A k \in Range(Reached) : k.seq \in Nat
      BY <1>1, <1>2, ContextFields
    <3>2. \A k \in Range(accepted) : k.seq \in Nat
      BY <1>2, RootFields DEF Range
    <3>3. QED
      BY <1>3, <2>1, <3>1, <3>2
  <2>5. QED
    BY <2>2, <2>3, <2>4
<1>5. DOMAIN ContextMessages = 1..n
  BY <1>3 DEF ContextMessages
<1> HIDE DEF n
<1>6. ToldEach(ContextMessages, Contexts, n)
  BY <1>3, <1>4, <1>5 DEF ToldEach
<1>7. DOMAIN second' = 1..n /\ \A p \in 1..n : second'[p] \in Seq(ContextMessages[p])
  <2>1. 2 \in 1..2
    OBVIOUS
  <2>2. QED
    BY <1>1, <1>3, <1>6, <2>1, NeighboursMembers
<1>8. SecondShown'
  <2>1. \A p \in 1..n : Shown(Range(second'[p]), Contexts[p])
    BY <1>4, <1>7, MembersIn, ShownSubset
  <2>2. QED
    BY <1>1, <1>7, <2>1 DEF SecondShown, Shown, InPast
<1>9. ASSUME NEW i \in DOMAIN accepted, NEW j \in DOMAIN first[i], SlotKeys(i)[j] \notin rejected
      PROVE  positions'[i][j] \in DOMAIN second' /\ unique'[positions'[i][j]] = SlotKeys(i)[j]
  <2>1. SlotKeys(i)[j] \in SlotRange
    BY DEF SlotRange, SlotKeys, Range
  <2>2. SlotKeys(i)[j] \in Range(Contexts)
    BY <1>2, <1>3, <1>9, <2>1, ReachedInSlots
  <2>3. \E p \in DOMAIN Contexts : Contexts[p] = SlotKeys(i)[j]
    BY <2>2 DEF Range
  <2>4. positions'[i][j] = CHOOSE p \in DOMAIN Contexts : Contexts[p] = SlotKeys(i)[j]
    BY <1>1, <1>9
  <2>5. QED
    BY <1>1, <1>3, <1>7, <2>3, <2>4
<1>10. PositionsKnown'
  <2>1. \A i : SlotKeys(i)' = SlotKeys(i)
    BY <1>1 DEF SlotKeys
  <2>2. \A i \in DOMAIN accepted : \A j \in DOMAIN first[i] :
          SlotKeys(i)[j] \in rejected => positions'[i][j] = 0
    BY <1>1
  <2>3. \A i \in DOMAIN accepted : \A j \in DOMAIN first[i] :
          IF SlotKeys(i)[j] \in rejected THEN positions'[i][j] = 0
          ELSE positions'[i][j] \in DOMAIN second' /\ unique'[positions'[i][j]] = SlotKeys(i)[j]
    BY <1>9, <2>2
  <2>4. UNCHANGED <<accepted, first, rejected>>
    BY <1>1
  <2>5. QED
    BY <2>1, <2>3, <2>4 DEF PositionsKnown
<1>11. FirstShown'
  BY <1>1 DEF SlotsInv, FirstShown, Shown, InPast
<1>12. RowsShown'
  BY <1>1 DEF RowsShown
<1>13. QED
  BY <1>8, <1>10, <1>11, <1>12 DEF SlotsInv

\* Whatever the graph, the events posted meanwhile, the pools, the quotas and the sampler: no
\* context of a batch holds a payment from its cutoff on, an association of another time or an
\* account its view hides, and each slot leads to the context of the neighbour it holds.
THEOREM BatchCorrect == Spec => []BatchFromThePast
<1>1. Init => SlotsInv
  BY DEF Init, SlotsInv, RowsShown, FirstShown, PositionsKnown, SecondShown
<1>2. BatchInv /\ SlotsInv /\ [Next]_vars => SlotsInv'
  <2> SUFFICES ASSUME BatchInv, SlotsInv, [Next]_vars PROVE SlotsInv'
    OBVIOUS
  <2>1. CASE UNCHANGED batchVars
    BY <2>1, SlotsStay
  <2>2. CASE FetchRoots
    BY <2>2, FetchRootsShown
  <2>3. CASE SelectFirst
    BY <2>3, SelectFirstShown
  <2>4. CASE FetchChildren
    BY <2>4, FetchChildrenShown
  <2>5. CASE Assemble
    BY <2>5, AssembleShown
  <2>6. CASE RefuseDraw
    <3>1. stage' = "failed"
      BY <2>6 DEF RefuseDraw
    <3>2. QED
      BY <3>1 DEF SlotsInv, RowsShown, FirstShown, PositionsKnown, SecondShown
  <2>7. CASE Ingest \/ Prepare \/ UNCHANGED vars
    <3>1. UNCHANGED batchVars
      BY <2>7 DEF Ingest, Prepare, vars, batchVars
    <3>2. QED
      BY <2>1, <3>1
  <2>8. QED
    BY <2>2, <2>3, <2>4, <2>5, <2>6, <2>7 DEF Next
<1>3. SlotsInv => BatchFromThePast
  <2> SUFFICES ASSUME SlotsInv, stage = "done" PROVE BatchFromThePast
    BY DEF BatchFromThePast
  <2>1. \A i \in DOMAIN accepted : \A j \in DOMAIN first[i] :
          InPast(first[i][j], accepted[i]) /\ SlotKeys(i)[j] = ChildKey(first[i][j], accepted[i])
    BY DEF SlotsInv, FirstShown, Shown, Range, SlotKeys
  <2>2. \A p \in DOMAIN second : \A j \in DOMAIN second[p] : InPast(second[p][j], unique[p])
    BY DEF SlotsInv, SecondShown, Shown, Range
  <2>3. QED
    BY <2>1, <2>2 DEF SlotsInv, PositionsKnown, BatchFromThePast
<1>4. QED
  BY <1>1, <1>2, <1>3, BatchInvariant, PTL DEF Spec
-------------------------------------------------------------------------------
(* A graph, of which some entries may be hidden.                                           *)

Logs == Seq(Entry)

\* Entries of such a graph.
LEMMA EntryKinds ==
    ASSUME NEW g \in Logs, NEW n \in DOMAIN g
    PROVE  /\ n \in Nat \ {0} /\ n <= Len(g) /\ Len(g) \in Nat /\ DOMAIN g = 1..Len(g)
           /\ g[n].op \in {"pay", "bind", "unbind", "hidden"}
           /\ Mentioned(g[n]) \subseteq Nodes
           /\ IsPayment(g, n) =>
                /\ g[n] \in Payment
                /\ g[n].from \in Accounts /\ g[n].to \in Accounts \cup {None}
                /\ g[n].ftok \in Tokens \cup {None} /\ g[n].ttok \in Tokens \cup {None}
                /\ Endpoints(g, n) \subseteq Accounts /\ g[n].from \in Endpoints(g, n)
                /\ Accounts \cap Mentioned(g[n]) = Endpoints(g, n)
           /\ g[n].op \in {"bind", "unbind"} =>
                /\ g[n] \in Binding
                /\ g[n].token \in Tokens /\ g[n].account \in Accounts
                /\ Mentioned(g[n]) = {g[n].token, g[n].account}
           /\ Time(g, n) \in Nat \ {0} /\ Time(g, n) <= n
<1>1. /\ n \in Nat \ {0} /\ n <= Len(g) /\ Len(g) \in Nat /\ DOMAIN g = 1..Len(g)
      /\ g[n] \in Payment \cup Binding \cup [op : {"hidden"}, nodes : SUBSET Nodes, late : Nat]
  BY DEF Logs, Entry
<1>2. None \notin Accounts /\ None \notin Tokens /\ Accounts \cap Tokens = {}
  BY GraphAssumption DEF Nodes
<1>3. CASE g[n] \in Payment
  <2>1. /\ g[n].op = "pay" /\ g[n].late \in Nat
        /\ g[n].from \in Accounts /\ g[n].to \in Accounts \cup {None}
        /\ g[n].ftok \in Tokens \cup {None} /\ g[n].ttok \in Tokens \cup {None}
    BY <1>3 DEF Payment
  <2>2. Mentioned(g[n]) = {g[n].from, g[n].to, g[n].ftok, g[n].ttok} \ {None}
    BY <2>1 DEF Mentioned
  <2>3. Mentioned(g[n]) \subseteq Nodes
    BY <2>1, <2>2 DEF Nodes
  <2>4. /\ Endpoints(g, n) \subseteq Accounts /\ g[n].from \in Endpoints(g, n)
        /\ Accounts \cap Mentioned(g[n]) = Endpoints(g, n)
    BY <1>2, <2>1, <2>2 DEF Endpoints
  <2>5. Time(g, n) \in Nat \ {0} /\ Time(g, n) <= n
    BY <1>1, <2>1 DEF Time
  <2>6. QED
    BY <1>1, <1>3, <2>1, <2>3, <2>4, <2>5
<1>4. CASE g[n] \in Binding
  <2>1. g[n].op \in {"bind", "unbind"} /\ g[n].token \in Tokens /\ g[n].account \in Accounts
    BY <1>4 DEF Binding
  <2>2. Mentioned(g[n]) = {g[n].token, g[n].account}
    BY <2>1 DEF Mentioned
  <2>3. Time(g, n) = n /\ ~IsPayment(g, n)
    BY <2>1 DEF Time, IsPayment
  <2>4. QED
    BY <1>1, <1>4, <2>1, <2>2, <2>3 DEF Nodes
<1>5. CASE g[n] \in [op : {"hidden"}, nodes : SUBSET Nodes, late : Nat]
  <2>1. g[n].op = "hidden" /\ g[n].nodes \in SUBSET Nodes /\ g[n].late \in Nat
    BY <1>5
  <2>2. Mentioned(g[n]) = g[n].nodes /\ ~IsPayment(g, n)
    BY <2>1 DEF Mentioned, IsPayment
  <2>3. Time(g, n) \in Nat \ {0} /\ Time(g, n) <= n
    BY <1>1, <2>1 DEF Time
  <2>4. QED
    BY <1>1, <2>1, <2>2, <2>3
<1>6. QED
  BY <1>1, <1>3, <1>4, <1>5

\* The first entry that mentions an entity.
LEMMA FirstIs ==
    ASSUME NEW g \in Logs, NEW v, Known(g, v)
    PROVE  /\ FirstSeen(g, v) \in DOMAIN g /\ v \in Mentioned(g[FirstSeen(g, v)])
           /\ \A n \in DOMAIN g : v \in Mentioned(g[n]) => FirstSeen(g, v) <= n
<1> DEFINE S == {n \in DOMAIN g : v \in Mentioned(g[n])}
<1>1. S \in SUBSET Nat /\ S # {}
  BY DEF Known, Logs
<1>2. FirstSeen(g, v) = Min(S)
  BY DEF FirstSeen
<1>3. Min(S) \in S /\ \A k \in S : Min(S) <= k
  <2> HIDE DEF S
  <2>1. QED
    BY <1>1, MinLeast
<1>4. QED
  BY <1>2, <1>3

-------------------------------------------------------------------------------
(* What the accumulators know exactly: which payments the view of a call shows.            *)

\* A payment all of whose accounts a view shows.
Showing(g, key, n) == \A a \in Endpoints(g, n) : InPhase(key, a)

Exact(acc, g, key) ==
    /\ Allows(acc, key)
    /\ \A a \in acc.checked : InPhase(key, a) => a \in acc.allowed
    /\ \A n \in acc.blocked : ~Showing(g, key, n)

\* scope_events blocks exactly the payments with an account outside the view.
LEMMA ScopeExact ==
    ASSUME NEW acc, NEW g, NEW key, Exact(acc, g, key), NEW events, NEW next,
           next = ScopeEvents(acc, g, key, events)
    PROVE  /\ Exact(next, g, key)
           /\ \A n \in events : n \in next.blocked <=> ~Showing(g, key, n)
<1>1. Allows(next, key) /\ \A n \in events \ next.blocked : Showing(g, key, n)
  BY ScopeAllows DEF Exact, Showing
<1>2. CASE ~key.scoped
  <2>1. next = acc
    BY <1>2 DEF ScopeEvents
  <2>2. QED
    BY <1>1, <2>1 DEF Exact
<1>3. CASE key.scoped
  <2> DEFINE endpoints == UNION {Endpoints(g, n) : n \in events}
             allowed == acc.allowed \cup {a \in endpoints \ acc.checked : InPhase(key, a)}
             checked == acc.checked \cup endpoints
             blocked == acc.blocked \cup {n \in events : ~(Endpoints(g, n) \subseteq allowed)}
  <2>1. next = [acc EXCEPT !.checked = checked, !.allowed = allowed, !.blocked = blocked]
    BY <1>3 DEF ScopeEvents
  <2>2. \A a \in checked : InPhase(key, a) => a \in allowed
    BY DEF Exact
  <2>3. \A n \in blocked : n \in acc.blocked \/ (n \in events /\ ~(Endpoints(g, n) \subseteq allowed))
    OBVIOUS
  <2>4. \A n \in events : Endpoints(g, n) \subseteq checked
    OBVIOUS
  <2> HIDE DEF endpoints, checked, allowed, blocked
  <2>5. next = [checked |-> checked, allowed |-> allowed, blocked |-> blocked, senders |-> acc.senders]
    BY <2>1 DEF Exact, Allows
  <2>6. next.checked = checked /\ next.allowed = allowed /\ next.blocked = blocked
    BY <2>5
  <2>7. \A n \in blocked : ~Showing(g, key, n)
    BY <2>2, <2>3, <2>4 DEF Exact, Showing
  <2>8. QED
    BY <1>1, <2>2, <2>6, <2>7 DEF Exact
<1>4. QED
  BY <1>2, <1>3

\* Every counted payment has its one sender, whatever earlier requests counted.
LEMMA RolesExact ==
    ASSUME NEW acc, NEW g, NEW key, Exact(acc, g, key), NEW events, NEW counted,
           counted = CountRoles(ResetRoles(acc, events), events)
    PROVE  /\ Exact(counted, g, key)
           /\ \A n \in events : counted.senders[n] = 1
<1> DEFINE s == [n \in DOMAIN acc.senders \cup events |-> IF n \in events THEN 0 ELSE acc.senders[n]]
           reset == [checked |-> acc.checked, allowed |-> acc.allowed, blocked |-> acc.blocked,
                     senders |-> s]
           t == [n \in DOMAIN s |-> IF n \in events THEN s[n] + 1 ELSE s[n]]
<1>1. acc = [checked |-> acc.checked, allowed |-> acc.allowed, blocked |-> acc.blocked,
             senders |-> acc.senders]
  BY DEF Exact, Allows
<1>2. ResetRoles(acc, events) = reset
  <2>1. ResetRoles(acc, events) = [acc EXCEPT !.senders = s]
    BY DEF ResetRoles
  <2> HIDE DEF s
  <2>2. QED
    BY <1>1, <2>1
<1>3. \A n \in events : n \in DOMAIN s /\ s[n] = 0
  OBVIOUS
<1>4. \A n \in events : t[n] = 1
  <2> HIDE DEF s
  <2>1. QED
    BY <1>3
<1>5. counted = [reset EXCEPT !.senders = t]
  BY <1>2 DEF CountRoles
<1> HIDE DEF s, t
<1>6. counted = [checked |-> acc.checked, allowed |-> acc.allowed, blocked |-> acc.blocked, senders |-> t]
  BY <1>5
<1>7. /\ counted.checked = acc.checked /\ counted.allowed = acc.allowed
      /\ counted.blocked = acc.blocked /\ counted.senders = t
  BY <1>6
<1>8. QED
  BY <1>4, <1>6, <1>7 DEF Exact, Allows

-------------------------------------------------------------------------------
(* The sequence of a set in an order: each member once, the earlier before the later.      *)

\* The ranks of a strict total order are those of a sequence, and grow with it.
LEMMA RanksGrow ==
    ASSUME NEW S, IsFiniteSet(S), NEW R, StrictTotal(R, S), NEW x \in S, NEW y \in S
    PROVE  /\ Cardinality({z \in S : <<z, x>> \in R}) \in 0..(Cardinality(S) - 1)
           /\ <<x, y>> \in R => Cardinality({z \in S : <<z, x>> \in R}) < Cardinality({z \in S : <<z, y>> \in R})
<1> DEFINE Below(u) == {z \in S : <<z, u>> \in R}
<1>1. ASSUME NEW u \in S PROVE IsFiniteSet(Below(u)) /\ Cardinality(Below(u)) \in 0..(Cardinality(S) - 1)
  <2>1. Below(u) \in SUBSET (S \ {u})
    BY DEF StrictTotal
  <2>2. IsFiniteSet(S \ {u}) /\ Cardinality(S \ {u}) = Cardinality(S) - 1
    BY FS_RemoveElement
  <2> HIDE DEF Below
  <2>3. IsFiniteSet(Below(u)) /\ Cardinality(Below(u)) <= Cardinality(S) - 1
    BY <2>1, <2>2, FS_Subset
  <2>4. Cardinality(Below(u)) \in Nat /\ Cardinality(S) \in Nat
    BY <2>3, FS_CardinalityType
  <2>5. QED
    BY <2>3, <2>4
<1>2. ASSUME <<x, y>> \in R PROVE Cardinality(Below(x)) < Cardinality(Below(y))
  <2>1. Below(x) \in SUBSET Below(y) /\ x \in Below(y) /\ x \notin Below(x)
    BY <1>2 DEF StrictTotal
  <2>2. IsFiniteSet(Below(y)) /\ Cardinality(Below(x)) \in Nat /\ Cardinality(Below(y)) \in Nat
    BY <1>1
  <2> HIDE DEF Below
  <2>3. Cardinality(Below(x)) <= Cardinality(Below(y)) /\ Cardinality(Below(x)) # Cardinality(Below(y))
    BY <2>1, <2>2, FS_Subset
  <2>4. QED
    BY <2>2, <2>3
<1>3. QED
  BY <1>1, <1>2

\* What a sequence of a set by its ranks is.
InOrder(s, S, R) ==
    /\ s \in Seq(S) /\ Len(s) = Cardinality(S) /\ DOMAIN s = 1..Len(s)
    /\ \A i, j \in DOMAIN s : i < j => <<s[i], s[j]>> \in R
    /\ \A i, j \in DOMAIN s : s[i] = s[j] => i = j
    /\ Range(s) = S

BelowOf(S, R, x) == Cardinality({y \in S : <<y, x>> \in R})

ByRank(s, S, R) == s = [i \in 1..Cardinality(S) |-> CHOOSE x \in S : BelowOf(S, R, x) = i - 1]

\* The sequence of the ranks is the set in order.
LEMMA OrderedInOrder ==
    ASSUME NEW S, IsFiniteSet(S), NEW R, StrictTotal(R, S), NEW s, ByRank(s, S, R)
    PROVE  InOrder(s, S, R)
<1>2. s \in Seq(S) /\ DOMAIN s = 1..Cardinality(S)
  <2>1. \A t : ByRank(t, S, R) => t \in Seq(S) /\ DOMAIN t = 1..Cardinality(S)
    BY OrderedMembers, Zenon DEF ByRank, BelowOf
  <2>2. QED
    BY <2>1
<1> DEFINE At(i) == CHOOSE x \in S : BelowOf(S, R, x) = i - 1
<1>3. \A i \in 1..Cardinality(S) : At(i) \in S /\ BelowOf(S, R, At(i)) = i - 1
  <2>1. \A i \in 1..Cardinality(S) : \E x \in S : BelowOf(S, R, x) = i - 1
    BY Ranked DEF BelowOf
  <2>2. QED
    BY <2>1
<1>4. \A i \in 1..Cardinality(S) : s[i] = At(i)
  BY DEF ByRank
<1> DEFINE n == Cardinality(S)
           Place(x) == BelowOf(S, R, x)
<1>1. /\ n \in Nat /\ DOMAIN s = 1..n
      /\ \A i \in 1..n : s[i] = At(i) /\ At(i) \in S /\ Place(At(i)) = i - 1
  BY <1>2, <1>3, <1>4, FS_CardinalityType
<1>5. /\ \A x \in S : Place(x) \in 0..(n - 1)
      /\ \A x, y \in S : <<x, y>> \in R => Place(x) < Place(y)
  <2>1. \A x \in S : Place(x) \in 0..(n - 1)
    BY RanksGrow DEF BelowOf
  <2>2. \A x, y \in S : <<x, y>> \in R => Place(x) < Place(y)
    BY RanksGrow DEF BelowOf
  <2>3. QED
    BY <2>1, <2>2
<1> HIDE DEF n, Place, At
<1>6. \A i \in 1..n : s[i] \in S /\ Place(s[i]) = i - 1
  BY <1>1
<1>7. Len(s) = n
  BY <1>1, <1>2
<1>8. ASSUME NEW x \in S, NEW y \in S, Place(x) = Place(y) PROVE x = y
  <2>1. Place(x) \in Int /\ Place(y) \in Int
    BY <1>1, <1>5
  <2>2. <<x, y>> \notin R /\ <<y, x>> \notin R
    BY <1>5, <1>8, <2>1
  <2>3. QED
    BY <2>2 DEF StrictTotal
<1>9. ASSUME NEW i \in 1..n, NEW j \in 1..n, i < j PROVE <<s[i], s[j]>> \in R
  <2>1. s[i] # s[j]
    BY <1>6, <1>9
  <2>2. <<s[j], s[i]>> \notin R
    BY <1>5, <1>6, <1>9
  <2>3. QED
    BY <1>6, <2>1, <2>2 DEF StrictTotal
<1>10. \A i, j \in 1..n : s[i] = s[j] => i = j
  BY <1>6
<1>11. ASSUME NEW x \in S PROVE \E i \in 1..n : s[i] = x
  <2>0. Place(x) \in 0..(n - 1) /\ n \in Nat
    BY <1>1, <1>5
  <2> DEFINE i == Place(x) + 1
  <2>1. i \in 1..n /\ i - 1 = Place(x)
    BY <2>0
  <2> HIDE DEF i
  <2>2. s[i] \in S /\ Place(s[i]) = Place(x)
    BY <1>6, <2>1
  <2>3. QED
    BY <1>8, <2>1, <2>2
<1>12. Range(s) = S
  BY <1>1, <1>6, <1>11 DEF Range
<1>13. QED
  BY <1>2, <1>7, <1>9, <1>10, <1>12 DEF InOrder, n

\* The relation of the latest first.
Later(S) == {p \in S \X S : p[1] > p[2]}

\* Descending gives the later numbers first.
LEMMA DescendingInOrder ==
    ASSUME NEW S \in SUBSET Nat, IsFiniteSet(S)
    PROVE  InOrder(Descending(S), S, Later(S))
<1> DEFINE R == {p \in S \X S : p[1] > p[2]}
<1>1. StrictTotal(R, S)
  <2>1. \A x, y \in S : <<x, y>> \in R <=> x > y
    OBVIOUS
  <2>2. \A x \in S : x \in Nat
    OBVIOUS
  <2> HIDE DEF R
  <2>3. QED
    BY <2>1, <2>2 DEF StrictTotal
<1>2. ByRank(Descending(S), S, R)
  <2>1. \A x \in S : {y \in S : <<y, x>> \in R} = {y \in S : y > x}
    OBVIOUS
  <2> HIDE DEF R
  <2>2. \A x \in S : BelowOf(S, R, x) = Cardinality({y \in S : y > x})
    BY <2>1 DEF BelowOf
  <2>3. ASSUME NEW i
        PROVE  (CHOOSE x \in S : BelowOf(S, R, x) = i - 1)
                 = CHOOSE x \in S : Cardinality({y \in S : y > x}) = i - 1
    BY <2>2
  <2>4. Descending(S) = [i \in 1..Cardinality(S) |->
                           CHOOSE x \in S : Cardinality({y \in S : y > x}) = i - 1]
    BY DEF Descending, Ordered
  <2>5. QED
    BY <2>3, <2>4, Zenon DEF ByRank
<1>3. QED
  <2>1. R = Later(S)
    BY DEF Later
  <2> HIDE DEF R
  <2>2. QED
    BY <1>1, <1>2, <2>1, OrderedInOrder

-------------------------------------------------------------------------------
(* The three passes of the sampling. *)

\* The values v that the recent pass goes through.
RecentVia(g, rel, ordered, pool, base, n, v) ==
    /\ v[0] = base
    /\ \A k \in 1..n : v[k] = RecentStep(g, rel, ordered, pool, v[k - 1], k - 1)
    /\ RecentPass(g, rel, ordered, pool, base) = v[n]

\* The recent pass goes over the ranks one after the other.
LEMMA RecentRun ==
    ASSUME NEW g, NEW rel, NEW ordered, NEW pool, NEW base, NEW n \in Nat, Len(ordered) = n
    PROVE  \E v : RecentVia(g, rel, ordered, pool, base, n, v)
<1> DEFINE Step(s, k) == RecentStep(g, rel, ordered, pool, s, Ranks(ordered)[k])
           Is(f, k) == f = [d \in SUBSET (1..k) |-> IF d = {} THEN base
                              ELSE RecentStep(g, rel, ordered, pool, f[d \ {Max(d)}], Ranks(ordered)[Max(d)])]
           S == {k \in 0..n : \E f : Is(f, k)}
<1>1. 0 \in S
  <2>1. SUBSET (1..0) = {{}}
    OBVIOUS
  <2>2. Is([d \in SUBSET (1..0) |-> base], 0)
    BY <2>1
  <2> HIDE DEF Is
  <2>3. QED
    BY <2>2
<1>2. ASSUME NEW k \in 0..(n - 1), k \in S PROVE k + 1 \in S
  <2>1. PICK f : Is(f, k)
    BY <1>2
  <2>2. \A d \in SUBSET (1..k) : f[d] = IF d = {} THEN base ELSE Step(f[d \ {Max(d)}], Max(d))
    BY <2>1
  <2> HIDE DEF Step
  <2> DEFINE more == [d \in SUBSET (1..k + 1) |->
                       IF k + 1 \in d THEN Step(f[d \ {k + 1}], k + 1) ELSE f[d]]
  <2>3. \A d \in SUBSET (1..k) : more[d] = f[d]
    <3>1. \A d \in SUBSET (1..k) : d \in SUBSET (1..k + 1) /\ k + 1 \notin d
      OBVIOUS
    <3>2. QED
      BY <3>1
  <2>4. ASSUME NEW d \in SUBSET (1..k + 1)
        PROVE  more[d] = IF d = {} THEN base ELSE Step(more[d \ {Max(d)}], Max(d))
    <3>1. CASE k + 1 \in d
      <4>1. Max(d) = k + 1 /\ d \ {k + 1} \in SUBSET (1..k)
        BY <3>1, MaxPosition
      <4>2. more[d] = Step(f[d \ {k + 1}], k + 1)
        BY <3>1
      <4> HIDE DEF more
      <4>3. QED
        BY <2>3, <3>1, <4>1, <4>2
    <3>2. CASE k + 1 \notin d
      <4>1. d \in SUBSET (1..k) /\ (d # {} => Max(d) \in d)
        BY <3>2, MaxPosition
      <4>2. more[d] = f[d] /\ more[d \ {Max(d)}] = f[d \ {Max(d)}]
        <5> HIDE DEF more
        <5>1. QED
          BY <2>3, <4>1
      <4> HIDE DEF more
      <4>3. QED
        BY <2>2, <4>1, <4>2
    <3>3. QED
      BY <3>1, <3>2
  <2>5. more = [d \in SUBSET (1..k + 1) |-> more[d]]
    OBVIOUS
  <2> HIDE DEF more
  <2>6. Is(more, k + 1)
    BY <2>4, <2>5 DEF Step
  <2> HIDE DEF Is
  <2>7. QED
    BY <2>6
<1>3. n \in S
  <2> HIDE DEF S
  <2>1. 0..n \subseteq S /\ n \in 0..n
    BY <1>1, <1>2, UpTo
  <2>2. QED
    BY <2>1
<1> DEFINE h == CHOOSE f : Is(f, n)
<1>4. RecentPass(g, rel, ordered, pool, base) = h[1..n]
  BY DEF RecentPass, FoldLeft, MapThenFoldSet, Ranks
<1>5. Is(h, n)
  BY <1>3
<1>6. \A d \in SUBSET (1..n) : h[d] = IF d = {} THEN base ELSE Step(h[d \ {Max(d)}], Max(d))
  <2> HIDE DEF h
  <2>1. QED
    BY <1>5
<1> DEFINE v == [k \in 0..n |-> h[1..k]]
<1> HIDE DEF h, Is, S
<1>7. v[0] = base
  <2>1. {} \in SUBSET (1..n) /\ (1..0) = {} /\ 0 \in 0..n
    OBVIOUS
  <2>2. QED
    BY <1>6, <2>1
<1>8. ASSUME NEW k \in 1..n PROVE v[k] = RecentStep(g, rel, ordered, pool, v[k - 1], k - 1)
  <2> HIDE DEF Step
  <2>1. h[1..k] = Step(h[1..(k - 1)], k)
    BY <1>6, Prefix
  <2>2. k - 1 \in 0..n /\ k \in 0..n
    OBVIOUS
  <2>3. v[k] = h[1..k] /\ v[k - 1] = h[1..(k - 1)]
    BY <2>2
  <2>4. Ranks(ordered)[k] = k - 1
    BY DEF Ranks
  <2> HIDE DEF v
  <2>5. QED
    BY <2>1, <2>3, <2>4 DEF Step
<1>9. RecentPass(g, rel, ordered, pool, base) = v[n]
  BY <1>4
<1> HIDE DEF v
<1>10. RecentVia(g, rel, ordered, pool, base, n, v)
  BY <1>7, <1>8, <1>9 DEF RecentVia
<1>11. QED
  BY <1>10

\* The values v that the older pass goes through.
OlderVia(g, rel, ordered, pool, base, n, v) ==
    /\ v[0] = base
    /\ \A k \in 1..n : v[k] = OlderStep(g, rel, ordered, pool, v[k - 1], k - 1)
    /\ OlderPass(g, rel, ordered, pool, base) = v[n]

\* The older pass goes over the ranks one after the other.
LEMMA OlderRun ==
    ASSUME NEW g, NEW rel, NEW ordered, NEW pool, NEW base, NEW n \in Nat, Len(ordered) = n
    PROVE  \E v : OlderVia(g, rel, ordered, pool, base, n, v)
<1> DEFINE Step(s, k) == OlderStep(g, rel, ordered, pool, s, Ranks(ordered)[k])
           Is(f, k) == f = [d \in SUBSET (1..k) |-> IF d = {} THEN base
                              ELSE OlderStep(g, rel, ordered, pool, f[d \ {Max(d)}], Ranks(ordered)[Max(d)])]
           S == {k \in 0..n : \E f : Is(f, k)}
<1>1. 0 \in S
  <2>1. SUBSET (1..0) = {{}}
    OBVIOUS
  <2>2. Is([d \in SUBSET (1..0) |-> base], 0)
    BY <2>1
  <2> HIDE DEF Is
  <2>3. QED
    BY <2>2
<1>2. ASSUME NEW k \in 0..(n - 1), k \in S PROVE k + 1 \in S
  <2>1. PICK f : Is(f, k)
    BY <1>2
  <2>2. \A d \in SUBSET (1..k) : f[d] = IF d = {} THEN base ELSE Step(f[d \ {Max(d)}], Max(d))
    BY <2>1
  <2> HIDE DEF Step
  <2> DEFINE more == [d \in SUBSET (1..k + 1) |->
                       IF k + 1 \in d THEN Step(f[d \ {k + 1}], k + 1) ELSE f[d]]
  <2>3. \A d \in SUBSET (1..k) : more[d] = f[d]
    <3>1. \A d \in SUBSET (1..k) : d \in SUBSET (1..k + 1) /\ k + 1 \notin d
      OBVIOUS
    <3>2. QED
      BY <3>1
  <2>4. ASSUME NEW d \in SUBSET (1..k + 1)
        PROVE  more[d] = IF d = {} THEN base ELSE Step(more[d \ {Max(d)}], Max(d))
    <3>1. CASE k + 1 \in d
      <4>1. Max(d) = k + 1 /\ d \ {k + 1} \in SUBSET (1..k)
        BY <3>1, MaxPosition
      <4>2. more[d] = Step(f[d \ {k + 1}], k + 1)
        BY <3>1
      <4> HIDE DEF more
      <4>3. QED
        BY <2>3, <3>1, <4>1, <4>2
    <3>2. CASE k + 1 \notin d
      <4>1. d \in SUBSET (1..k) /\ (d # {} => Max(d) \in d)
        BY <3>2, MaxPosition
      <4>2. more[d] = f[d] /\ more[d \ {Max(d)}] = f[d \ {Max(d)}]
        <5> HIDE DEF more
        <5>1. QED
          BY <2>3, <4>1
      <4> HIDE DEF more
      <4>3. QED
        BY <2>2, <4>1, <4>2
    <3>3. QED
      BY <3>1, <3>2
  <2>5. more = [d \in SUBSET (1..k + 1) |-> more[d]]
    OBVIOUS
  <2> HIDE DEF more
  <2>6. Is(more, k + 1)
    BY <2>4, <2>5 DEF Step
  <2> HIDE DEF Is
  <2>7. QED
    BY <2>6
<1>3. n \in S
  <2> HIDE DEF S
  <2>1. 0..n \subseteq S /\ n \in 0..n
    BY <1>1, <1>2, UpTo
  <2>2. QED
    BY <2>1
<1> DEFINE h == CHOOSE f : Is(f, n)
<1>4. OlderPass(g, rel, ordered, pool, base) = h[1..n]
  BY DEF OlderPass, FoldLeft, MapThenFoldSet, Ranks
<1>5. Is(h, n)
  BY <1>3
<1>6. \A d \in SUBSET (1..n) : h[d] = IF d = {} THEN base ELSE Step(h[d \ {Max(d)}], Max(d))
  <2> HIDE DEF h
  <2>1. QED
    BY <1>5
<1> DEFINE v == [k \in 0..n |-> h[1..k]]
<1> HIDE DEF h, Is, S
<1>7. v[0] = base
  <2>1. {} \in SUBSET (1..n) /\ (1..0) = {} /\ 0 \in 0..n
    OBVIOUS
  <2>2. QED
    BY <1>6, <2>1
<1>8. ASSUME NEW k \in 1..n PROVE v[k] = OlderStep(g, rel, ordered, pool, v[k - 1], k - 1)
  <2> HIDE DEF Step
  <2>1. h[1..k] = Step(h[1..(k - 1)], k)
    BY <1>6, Prefix
  <2>2. k - 1 \in 0..n /\ k \in 0..n
    OBVIOUS
  <2>3. v[k] = h[1..k] /\ v[k - 1] = h[1..(k - 1)]
    BY <2>2
  <2>4. Ranks(ordered)[k] = k - 1
    BY DEF Ranks
  <2> HIDE DEF v
  <2>5. QED
    BY <2>1, <2>3, <2>4 DEF Step
<1>9. OlderPass(g, rel, ordered, pool, base) = v[n]
  BY <1>4
<1> HIDE DEF v
<1>10. OlderVia(g, rel, ordered, pool, base, n, v)
  BY <1>7, <1>8, <1>9 DEF OlderVia
<1>11. QED
  BY <1>10

\* The values v that the distinct pass goes through.
DistinctVia(g, rel, ordered, pool, base, n, v) ==
    /\ v[0] = base
    /\ \A k \in 1..n : v[k] = DistinctStep(g, rel, ordered, pool, v[k - 1], k - 1)
    /\ DistinctPass(g, rel, ordered, pool, base) = v[n]

\* The distinct pass goes over the ranks one after the other.
LEMMA DistinctRun ==
    ASSUME NEW g, NEW rel, NEW ordered, NEW pool, NEW base, NEW n \in Nat, Len(ordered) = n
    PROVE  \E v : DistinctVia(g, rel, ordered, pool, base, n, v)
<1> DEFINE Step(s, k) == DistinctStep(g, rel, ordered, pool, s, Ranks(ordered)[k])
           Is(f, k) == f = [d \in SUBSET (1..k) |-> IF d = {} THEN base
                              ELSE DistinctStep(g, rel, ordered, pool, f[d \ {Max(d)}], Ranks(ordered)[Max(d)])]
           S == {k \in 0..n : \E f : Is(f, k)}
<1>1. 0 \in S
  <2>1. SUBSET (1..0) = {{}}
    OBVIOUS
  <2>2. Is([d \in SUBSET (1..0) |-> base], 0)
    BY <2>1
  <2> HIDE DEF Is
  <2>3. QED
    BY <2>2
<1>2. ASSUME NEW k \in 0..(n - 1), k \in S PROVE k + 1 \in S
  <2>1. PICK f : Is(f, k)
    BY <1>2
  <2>2. \A d \in SUBSET (1..k) : f[d] = IF d = {} THEN base ELSE Step(f[d \ {Max(d)}], Max(d))
    BY <2>1
  <2> HIDE DEF Step
  <2> DEFINE more == [d \in SUBSET (1..k + 1) |->
                       IF k + 1 \in d THEN Step(f[d \ {k + 1}], k + 1) ELSE f[d]]
  <2>3. \A d \in SUBSET (1..k) : more[d] = f[d]
    <3>1. \A d \in SUBSET (1..k) : d \in SUBSET (1..k + 1) /\ k + 1 \notin d
      OBVIOUS
    <3>2. QED
      BY <3>1
  <2>4. ASSUME NEW d \in SUBSET (1..k + 1)
        PROVE  more[d] = IF d = {} THEN base ELSE Step(more[d \ {Max(d)}], Max(d))
    <3>1. CASE k + 1 \in d
      <4>1. Max(d) = k + 1 /\ d \ {k + 1} \in SUBSET (1..k)
        BY <3>1, MaxPosition
      <4>2. more[d] = Step(f[d \ {k + 1}], k + 1)
        BY <3>1
      <4> HIDE DEF more
      <4>3. QED
        BY <2>3, <3>1, <4>1, <4>2
    <3>2. CASE k + 1 \notin d
      <4>1. d \in SUBSET (1..k) /\ (d # {} => Max(d) \in d)
        BY <3>2, MaxPosition
      <4>2. more[d] = f[d] /\ more[d \ {Max(d)}] = f[d \ {Max(d)}]
        <5> HIDE DEF more
        <5>1. QED
          BY <2>3, <4>1
      <4> HIDE DEF more
      <4>3. QED
        BY <2>2, <4>1, <4>2
    <3>3. QED
      BY <3>1, <3>2
  <2>5. more = [d \in SUBSET (1..k + 1) |-> more[d]]
    OBVIOUS
  <2> HIDE DEF more
  <2>6. Is(more, k + 1)
    BY <2>4, <2>5 DEF Step
  <2> HIDE DEF Is
  <2>7. QED
    BY <2>6
<1>3. n \in S
  <2> HIDE DEF S
  <2>1. 0..n \subseteq S /\ n \in 0..n
    BY <1>1, <1>2, UpTo
  <2>2. QED
    BY <2>1
<1> DEFINE h == CHOOSE f : Is(f, n)
<1>4. DistinctPass(g, rel, ordered, pool, base) = h[1..n]
  BY DEF DistinctPass, FoldLeft, MapThenFoldSet, Ranks
<1>5. Is(h, n)
  BY <1>3
<1>6. \A d \in SUBSET (1..n) : h[d] = IF d = {} THEN base ELSE Step(h[d \ {Max(d)}], Max(d))
  <2> HIDE DEF h
  <2>1. QED
    BY <1>5
<1> DEFINE v == [k \in 0..n |-> h[1..k]]
<1> HIDE DEF h, Is, S
<1>7. v[0] = base
  <2>1. {} \in SUBSET (1..n) /\ (1..0) = {} /\ 0 \in 0..n
    OBVIOUS
  <2>2. QED
    BY <1>6, <2>1
<1>8. ASSUME NEW k \in 1..n PROVE v[k] = DistinctStep(g, rel, ordered, pool, v[k - 1], k - 1)
  <2> HIDE DEF Step
  <2>1. h[1..k] = Step(h[1..(k - 1)], k)
    BY <1>6, Prefix
  <2>2. k - 1 \in 0..n /\ k \in 0..n
    OBVIOUS
  <2>3. v[k] = h[1..k] /\ v[k - 1] = h[1..(k - 1)]
    BY <2>2
  <2>4. Ranks(ordered)[k] = k - 1
    BY DEF Ranks
  <2> HIDE DEF v
  <2>5. QED
    BY <2>1, <2>3, <2>4 DEF Step
<1>9. DistinctPass(g, rel, ordered, pool, base) = v[n]
  BY <1>4
<1> HIDE DEF v
<1>10. DistinctVia(g, rel, ordered, pool, base, n, v)
  BY <1>7, <1>8, <1>9 DEF DistinctVia
<1>11. QED
  BY <1>10

-------------------------------------------------------------------------------
(* What the passes take, as ranks of the visible payments, the latest of them first.        *)

Tagged(ordered, R, stratum) == {<<ordered[i], stratum>> : i \in R}

SampledAt(ordered, R, O, D) ==
    Tagged(ordered, R, "recent") \cup Tagged(ordered, O, "older") \cup Tagged(ordered, D, "distinct")
SelectedAt(ordered, R, O, D) == {ordered[i] : i \in R \cup O \cup D}
PeersAt(g, rel, ordered, R, O, D) == {Peer(g, ordered[i], rel) : i \in R \cup O \cup D}

\* The values of the passes once the ranks R, O and D are taken in the three strata.
TakenWith(g, rel, ordered, R, O, D, diverse) ==
    [sampled |-> SampledAt(ordered, R, O, D), selected |-> SelectedAt(ordered, R, O, D),
     peers |-> PeersAt(g, rel, ordered, R, O, D), diverse |-> diverse]
TakenAt(g, rel, ordered, R, O, D) == TakenWith(g, rel, ordered, R, O, D, Cardinality(D))

\* Taking a payment, field by field.
LEMMA TakeIs ==
    ASSUME NEW s, NEW n, NEW stratum, NEW peer,
           s = [sampled |-> s.sampled, selected |-> s.selected, peers |-> s.peers, diverse |-> s.diverse]
    PROVE  Take(s, n, stratum, peer) =
             [sampled |-> s.sampled \cup {<<n, stratum>>}, selected |-> s.selected \cup {n},
              peers |-> s.peers \cup {peer}, diverse |-> s.diverse]
<1> DEFINE a == s.sampled
           b == s.selected
           c == s.peers
           d == s.diverse
<1>1. s = [sampled |-> a, selected |-> b, peers |-> c, diverse |-> d]
  OBVIOUS
<1> DEFINE x == a \cup {<<n, stratum>>}
           y == b \cup {n}
           z == c \cup {peer}
<1>2. Take(s, n, stratum, peer) = [s EXCEPT !.sampled = x, !.selected = y, !.peers = z]
  BY DEF Take
<1> HIDE DEF x, y, z, a, b, c, d
<1> DEFINE t == [s EXCEPT !.sampled = x]
           u == [t EXCEPT !.selected = y]
           v == [u EXCEPT !.peers = z]
<1>3. Take(s, n, stratum, peer) = v
  BY <1>2
<1>4. t = [sampled |-> x, selected |-> b, peers |-> c, diverse |-> d]
  BY <1>1
<1> HIDE DEF t
<1>5. u = [sampled |-> x, selected |-> y, peers |-> c, diverse |-> d]
  BY <1>4
<1> HIDE DEF u
<1>6. v = [sampled |-> x, selected |-> y, peers |-> z, diverse |-> d]
  BY <1>5
<1> HIDE DEF v
<1>7. QED
  BY <1>3, <1>6 DEF x, y, z, a, b, c, d

\* The distinct pass counts what it takes.
OneMore(s) == [s EXCEPT !.diverse = @ + 1]

\* Taking the payment of a rank.
TakeNth(g, rel, ordered, s, k, stratum) == Take(s, ordered[k], stratum, Peer(g, ordered[k], rel))

\* The ranks U, V and W are R, O and D with k in one stratum.
Adds(ordered, R, O, D, k, stratum, U, V, W) ==
    /\ U \cup V \cup W = (R \cup O \cup D) \cup {k}
    /\ SampledAt(ordered, U, V, W) = SampledAt(ordered, R, O, D) \cup {<<ordered[k], stratum>>}

\* Taking a rank in a stratum adds it to what was taken.
LEMMA TakeRank ==
    ASSUME NEW g, NEW rel, NEW ordered, NEW R, NEW O, NEW D, NEW k, NEW s,
           s = TakenAt(g, rel, ordered, R, O, D), NEW stratum,
           NEW U, NEW V, NEW W, Adds(ordered, R, O, D, k, stratum, U, V, W)
    PROVE  TakeNth(g, rel, ordered, s, k, stratum) =
             TakenWith(g, rel, ordered, U, V, W, Cardinality(D))
<1> DEFINE n == ordered[k]
           peer == Peer(g, ordered[k], rel)
           selected == SelectedAt(ordered, R, O, D)
           peers == PeersAt(g, rel, ordered, R, O, D)
           more == SelectedAt(ordered, U, V, W)
           known == PeersAt(g, rel, ordered, U, V, W)
           a == SampledAt(ordered, R, O, D)
           b == SampledAt(ordered, U, V, W)
           c == Cardinality(D)
<1>1. s = [sampled |-> a, selected |-> selected, peers |-> peers, diverse |-> c]
  BY Zenon DEF TakenAt, TakenWith
<1>2. more = selected \cup {n} /\ known = peers \cup {peer}
  BY DEF SelectedAt, PeersAt, Adds
<1> HIDE DEF n, peer, selected, peers, more, known, a, b, c
<1>3. Take(s, n, stratum, peer) =
        [sampled |-> a \cup {<<n, stratum>>}, selected |-> selected \cup {n},
         peers |-> peers \cup {peer}, diverse |-> c]
  <2>1. /\ s.sampled = a /\ s.selected = selected /\ s.peers = peers /\ s.diverse = c
        /\ s = [sampled |-> s.sampled, selected |-> s.selected, peers |-> s.peers, diverse |-> s.diverse]
    BY <1>1
  <2>2. Take(s, n, stratum, peer) =
          [sampled |-> s.sampled \cup {<<n, stratum>>}, selected |-> s.selected \cup {n},
           peers |-> s.peers \cup {peer}, diverse |-> s.diverse]
    BY <2>1, TakeIs
  <2>3. QED
    BY <2>1, <2>2
<1>4. b = a \cup {<<n, stratum>>}
  BY DEF a, b, n, Adds
<1>5. Take(s, n, stratum, peer) = [sampled |-> b, selected |-> more, peers |-> known, diverse |-> c]
  BY <1>2, <1>3, <1>4
<1>6. QED
  BY <1>5, Zenon DEF n, peer, more, known, b, c, TakenWith, TakeNth

\* Each pass adds the rank it takes to its stratum.
LEMMA TakeRecentAt ==
    ASSUME NEW g, NEW rel, NEW ordered, NEW R, NEW O, NEW D, NEW k, NEW s,
           s = TakenAt(g, rel, ordered, R, O, D), NEW U, U = R \cup {k}
    PROVE  TakeNth(g, rel, ordered, s, k, "recent") = TakenAt(g, rel, ordered, U, O, D)
<1>1. U \cup O \cup D = (R \cup O \cup D) \cup {k}
  OBVIOUS
<1>2. Adds(ordered, R, O, D, k, "recent", U, O, D)
  BY <1>1 DEF SampledAt, Tagged, Adds
<1>3. TakeNth(g, rel, ordered, s, k, "recent") =
        TakenWith(g, rel, ordered, U, O, D, Cardinality(D))
  BY <1>2, TakeRank
<1>4. QED
  BY <1>3, Zenon DEF TakenAt

\* The same for the older ones.
LEMMA TakeOlderAt ==
    ASSUME NEW g, NEW rel, NEW ordered, NEW R, NEW O, NEW D, NEW k, NEW s,
           s = TakenAt(g, rel, ordered, R, O, D), NEW V, V = O \cup {k}
    PROVE  TakeNth(g, rel, ordered, s, k, "older") = TakenAt(g, rel, ordered, R, V, D)
<1>1. R \cup V \cup D = (R \cup O \cup D) \cup {k}
  OBVIOUS
<1>2. Adds(ordered, R, O, D, k, "older", R, V, D)
  BY <1>1 DEF SampledAt, Tagged, Adds
<1>3. TakeNth(g, rel, ordered, s, k, "older") =
        TakenWith(g, rel, ordered, R, V, D, Cardinality(D))
  BY <1>2, TakeRank
<1>4. QED
  BY <1>3, Zenon DEF TakenAt

\* The same for those of new peers, which are counted.
LEMMA TakeDistinctAt ==
    ASSUME NEW g, NEW rel, NEW ordered, NEW R, NEW O, NEW D, NEW k, NEW s,
           s = TakenAt(g, rel, ordered, R, O, D), NEW W, W = D \cup {k}, IsFiniteSet(D), k \notin D
    PROVE  OneMore(TakeNth(g, rel, ordered, s, k, "distinct"))
             = TakenAt(g, rel, ordered, R, O, W)
<1>1. R \cup O \cup W = (R \cup O \cup D) \cup {k}
  OBVIOUS
<1>2. Adds(ordered, R, O, D, k, "distinct", R, O, W)
  BY <1>1 DEF SampledAt, Tagged, Adds
<1> DEFINE t == TakeNth(g, rel, ordered, s, k, "distinct")
           b == SampledAt(ordered, R, O, W)
           more == SelectedAt(ordered, R, O, W)
           known == PeersAt(g, rel, ordered, R, O, W)
           c == Cardinality(D)
<1>3. t = TakenWith(g, rel, ordered, R, O, W, Cardinality(D))
  BY <1>2, TakeRank
<1>4. Cardinality(W) = c + 1
  BY FS_AddElement
<1>5. t = [sampled |-> b, selected |-> more, peers |-> known, diverse |-> c]
  BY <1>3, Zenon DEF TakenWith
<1> HIDE DEF t, b, more, known, c
<1>6. OneMore(t) = [sampled |-> b, selected |-> more, peers |-> known, diverse |-> Cardinality(W)]
  BY <1>4, <1>5 DEF OneMore
<1>7. QED
  BY <1>6, Zenon DEF TakenAt, TakenWith, t, b, more, known

\* Of a set of ranks, those up to k.
Upto(T, k) == {x \in T : x <= k}

\* Of a set of ranks, none lie up to 0 and all up to the last.
LEMMA UptoEnds ==
    ASSUME NEW n \in Nat, NEW T \in SUBSET (1..n)
    PROVE  Upto(T, 0) = {} /\ Upto(T, n) = T
<1>1. \A x \in T : ~(x <= 0) /\ x <= n
  OBVIOUS
<1>2. QED
  BY <1>1, Zenon DEF Upto

\* One rank further.
LEMMA UptoNext ==
    ASSUME NEW n \in Nat, NEW T \in SUBSET (1..n), NEW k \in 1..n
    PROVE  Upto(T, k) = IF k \in T THEN Upto(T, k - 1) \cup {k} ELSE Upto(T, k - 1)
<1>1. \A x \in T : x <= k <=> (x <= k - 1 \/ x = k)
  OBVIOUS
<1>2. k \in T => Upto(T, k) = Upto(T, k - 1) \cup {k}
  BY <1>1 DEF Upto
<1>3. k \notin T => Upto(T, k) = Upto(T, k - 1)
  BY <1>1 DEF Upto
<1>4. QED
  BY <1>2, <1>3

\* One step of the recent pass.
LEMMA RecentNext ==
    ASSUME NEW g, NEW rel, NEW ordered, NEW pool, NEW r \in Nat, NEW k, k = r + 1,
           NEW P, NEW O, NEW D, NEW s, s = TakenAt(g, rel, ordered, P, O, D),
           NEW Q, Q = IF r < pool.recent THEN P \cup {k} ELSE P
    PROVE  RecentStep(g, rel, ordered, pool, s, r) = TakenAt(g, rel, ordered, Q, O, D)
<1>1. ordered[r + 1] = ordered[k]
  OBVIOUS
<1>2. CASE r < pool.recent
  <2>1. Q = P \cup {k}
    BY <1>2
  <2>2. TakeNth(g, rel, ordered, s, k, "recent") = TakenAt(g, rel, ordered, Q, O, D)
    BY <2>1, TakeRecentAt
  <2>3. QED
    BY <1>1, <1>2, <2>2, Zenon DEF RecentStep, PeerAt, TakeNth
<1>3. CASE ~(r < pool.recent)
  <2>1. Q = P
    BY <1>3
  <2>2. RecentStep(g, rel, ordered, pool, s, r) = s
    BY <1>3, Zenon DEF RecentStep
  <2>3. QED
    BY <2>1, <2>2
<1>4. QED
  BY <1>2, <1>3

\* The recent ranks, as a set of the ranks.
LEMMA RecentRanksAre ==
    ASSUME NEW ordered, NEW pool, pool.recent \in Nat, NEW n \in Nat, Len(ordered) = n
    PROVE  /\ RecentRanks(ordered, pool) = {i \in 1..n : i <= pool.recent}
           /\ RecentRanks(ordered, pool) \in SUBSET (1..n)
<1>1. Min({pool.recent, Len(ordered)}) = IF pool.recent <= n THEN pool.recent ELSE n
  <2>1. pool.recent \in Int /\ n \in Int
    OBVIOUS
  <2>2. QED
    BY <2>1, OfTwo, Zenon
<1>2. RecentRanks(ordered, pool) = 1..(IF pool.recent <= n THEN pool.recent ELSE n)
  BY <1>1 DEF RecentRanks
<1>3. QED
  BY <1>2

\* The recent pass takes the recent ranks.
LEMMA RecentTaken ==
    ASSUME NEW g, NEW rel, NEW ordered, NEW pool, pool.recent \in Nat,
           NEW n \in Nat, Len(ordered) = n
    PROVE  RecentPass(g, rel, ordered, pool, NothingTaken)
             = TakenAt(g, rel, ordered, RecentRanks(ordered, pool), {}, {})
<1> DEFINE R == {i \in 1..n : i <= pool.recent}
           e == {}
           At(k) == TakenAt(g, rel, ordered, Upto(R, k), e, e)
<1>1. PICK v : RecentVia(g, rel, ordered, pool, NothingTaken, n, v)
  BY RecentRun
<1>2. RecentRanks(ordered, pool) = R
  BY RecentRanksAre
<1>3. R \in SUBSET (1..n) /\ \A k \in 1..n : k - 1 < pool.recent <=> k \in R
  OBVIOUS
<1> HIDE DEF R, e
<1> DEFINE S == {k \in 0..n : v[k] = At(k)}
<1>4. 0 \in S
  <2>1. TakenAt(g, rel, ordered, {}, e, e) = NothingTaken
    BY FS_EmptySet DEF TakenAt, TakenWith, SampledAt, SelectedAt, PeersAt, NothingTaken, Tagged, e
  <2>2. 0 \in 0..n
    OBVIOUS
  <2>3. Upto(R, 0) = {}
    BY <1>3, UptoEnds
  <2>4. QED
    BY <1>1, <2>1, <2>2, <2>3 DEF RecentVia
<1>5. ASSUME NEW k \in 0..(n - 1), k \in S PROVE k + 1 \in S
  <2> DEFINE c == k + 1
  <2>1. c \in 1..n /\ c - 1 = k /\ k \in Nat /\ c = k + 1 /\ c \in 0..n
    OBVIOUS
  <2> HIDE DEF c
  <2> DEFINE P == Upto(R, k)
  <2>2. v[k] = TakenAt(g, rel, ordered, P, e, e)
    BY <1>5
  <2>3. v[c] = RecentStep(g, rel, ordered, pool, v[k], k)
    BY <1>1, <2>1 DEF RecentVia
  <2>4. Upto(R, c) = IF k < pool.recent THEN P \cup {c} ELSE P
    <3>1. Upto(R, c) = IF c \in R THEN Upto(R, c - 1) \cup {c} ELSE Upto(R, c - 1)
      BY <1>3, <2>1, UptoNext
    <3>2. k < pool.recent <=> c \in R
      BY <1>3, <2>1
    <3>3. QED
      BY <2>1, <3>1, <3>2, Zenon
  <2> HIDE DEF P
  <2> DEFINE Q == Upto(R, c)
  <2> HIDE DEF Q
  <2>5. RecentStep(g, rel, ordered, pool, v[k], k) = TakenAt(g, rel, ordered, Q, e, e)
    BY <2>1, <2>2, <2>4, RecentNext DEF Q
  <2>6. v[c] = At(c)
    BY <2>3, <2>5 DEF Q
  <2>7. QED
    BY <2>1, <2>6 DEF c
<1> HIDE DEF S
<1>6. 0..n \subseteq S /\ n \in 0..n
  BY <1>4, <1>5, UpTo
<1>7. v[n] = At(n) /\ Upto(R, n) = R
  BY <1>3, <1>6, UptoEnds DEF S
<1>8. RecentPass(g, rel, ordered, pool, NothingTaken)
        = TakenAt(g, rel, ordered, RecentRanks(ordered, pool), {}, {})
  BY <1>1, <1>2, <1>7 DEF e, RecentVia
<1>9. QED
  BY <1>8

\* A share of a number is no more than it.
LEMMA Share ==
    ASSUME NEW a \in Nat, NEW b \in Nat, NEW j \in 1..b
    PROVE  (a * j) \div (b + 1) \in 0..a
<1>1. a * j \in Nat /\ a * j <= a * b /\ a * b <= a * (b + 1)
  OBVIOUS
<1> DEFINE x == a * j
           d == b + 1
<1>2. x \in Nat /\ d \in Nat \ {0} /\ x <= a * d
  BY <1>1
<1> HIDE DEF x, d
<1>3. (x \div d) \in Nat /\ (x \div d) <= a
  BY <1>2
<1>4. QED
  BY <1>3 DEF x, d

\* The older ranks: those that the older pass asks for, but the recent ones.
LEMMA OlderRanksAre ==
    ASSUME NEW ordered, NEW pool, pool.recent \in Nat, pool.older \in Nat,
           NEW n \in Nat, Len(ordered) = n
    PROVE  /\ OlderRanks(ordered, pool) \in SUBSET (1..n)
           /\ \A k \in 1..n : k \in OlderRanks(ordered, pool) <=>
                /\ n > pool.recent
                /\ k - 1 \in {pool.recent + ((n - pool.recent - 1) * j) \div (pool.older + 1)
                                : j \in 1..pool.older}
                /\ k \notin RecentRanks(ordered, pool)
<1> DEFINE r == pool.recent
           Part(j) == ((n - r - 1) * j) \div (pool.older + 1)
           asked == {r + 1 + Part(j) : j \in 1..pool.older}
<1>1. r \in Nat /\ n \in Nat
  OBVIOUS
<1>2. CASE n <= r
  <2>1. OlderRanks(ordered, pool) = {}
    BY <1>2 DEF OlderRanks
  <2>2. QED
    BY <1>1, <1>2, <2>1
<1>3. CASE n > r
  <2>1. OlderRanks(ordered, pool) = asked \ RecentRanks(ordered, pool)
    BY <1>1, <1>3 DEF OlderRanks
  <2>2. \A j \in 1..pool.older : Part(j) \in 0..(n - r - 1)
    <3>1. n - r - 1 \in Nat
      BY <1>1, <1>3
    <3>2. QED
      BY <3>1, Share
  <2> HIDE DEF Part, r
  <2>3. asked \in SUBSET (1..n)
    BY <1>1, <1>3, <2>2
  <2>4. \A k \in 1..n : k \in asked <=> k - 1 \in {r + Part(j) : j \in 1..pool.older}
    <3>1. \A k \in 1..n : \A j \in 1..pool.older : k = r + 1 + Part(j) <=> k - 1 = r + Part(j)
      BY <1>1, <2>2
    <3>2. QED
      BY <3>1
  <2> HIDE DEF asked
  <2>5. QED
    BY <1>3, <2>1, <2>3, <2>4 DEF r, Part
<1>4. QED
  BY <1>1, <1>2, <1>3

\* What the older pass asks of a rank, and that a rank has a payment of its own.
OlderAsks(ordered, pool, r) ==
    /\ Len(ordered) > pool.recent
    /\ r \in {pool.recent + ((Len(ordered) - pool.recent - 1) * j) \div (pool.older + 1)
                : j \in 1..pool.older}
OneEach(ordered, n) == \A x, y \in 1..n : ordered[x] = ordered[y] => x = y
Apart(ordered, k, T) == \A x \in T : ordered[x] # ordered[k] \/ x = k

\* One step of the older pass: the rank asked for is taken unless it was.
LEMMA OlderNext ==
    ASSUME NEW g, NEW rel, NEW ordered, NEW pool, NEW r \in Nat, NEW k, k = r + 1,
           NEW R, NEW P, NEW D, NEW s, s = TakenAt(g, rel, ordered, R, P, D),
           Apart(ordered, k, R \cup P \cup D)
    PROVE  OlderStep(g, rel, ordered, pool, s, r) =
             IF OlderAsks(ordered, pool, r) /\ k \notin R \cup P \cup D
             THEN TakeNth(g, rel, ordered, s, k, "older") ELSE s
<1>1. ordered[r + 1] = ordered[k]
  OBVIOUS
<1>2. ordered[k] \in s.selected <=> k \in R \cup P \cup D
  <2>1. s.selected = SelectedAt(ordered, R, P, D)
    BY DEF TakenAt, TakenWith
  <2>2. QED
    BY <2>1 DEF SelectedAt, Apart
<1>3. QED
  BY <1>1, <1>2, Zenon DEF OlderStep, PeerAt, OlderAsks, TakeNth

\* The older pass takes the older ranks.
LEMMA OlderTaken ==
    ASSUME NEW g, NEW rel, NEW ordered, NEW pool, pool.recent \in Nat, pool.older \in Nat,
           NEW n \in Nat, Len(ordered) = n,
           OneEach(ordered, n),
           NEW R, R = RecentRanks(ordered, pool)
    PROVE  OlderPass(g, rel, ordered, pool, TakenAt(g, rel, ordered, R, {}, {}))
             = TakenAt(g, rel, ordered, R, OlderRanks(ordered, pool), {})
<1> DEFINE O == OlderRanks(ordered, pool)
           e == {}
           base == TakenAt(g, rel, ordered, R, e, e)
           At(k) == TakenAt(g, rel, ordered, R, Upto(O, k), e)
           Asked(r) == OlderAsks(ordered, pool, r)
<1>1. PICK v : OlderVia(g, rel, ordered, pool, base, n, v)
  BY OlderRun
<1>2. /\ O \in SUBSET (1..n)
      /\ \A k \in 1..n : k \in O <=> Asked(k - 1) /\ k \notin R
  BY OlderRanksAre DEF OlderAsks
<1>3. R \in SUBSET (1..n)
  BY RecentRanksAre
<1>0. e = {}
  OBVIOUS
<1> HIDE DEF O, e
<1> DEFINE S == {k \in 0..n : v[k] = At(k)}
<1>4. 0 \in S
  <2>1. Upto(O, 0) = e
    BY <1>0, <1>2, UptoEnds
  <2>2. 0 \in 0..n
    OBVIOUS
  <2>3. QED
    BY <1>1, <2>1, <2>2 DEF OlderVia
<1>5. ASSUME NEW k \in 0..(n - 1), k \in S PROVE k + 1 \in S
  <2> DEFINE c == k + 1
  <2>1. c \in 1..n /\ c - 1 = k /\ k \in Nat /\ c = k + 1 /\ c \in 0..n
    OBVIOUS
  <2> HIDE DEF c
  <2> DEFINE P == Upto(O, k)
             Q == Upto(O, c)
  <2>2. v[k] = TakenAt(g, rel, ordered, R, P, e)
    BY <1>5
  <2>3. v[c] = OlderStep(g, rel, ordered, pool, v[k], k)
    BY <1>1, <2>1 DEF OlderVia
  <2>4. Q = IF c \in O THEN P \cup {c} ELSE P
    BY <1>2, <2>1, UptoNext
  <2>5. P \in SUBSET (1..n) /\ c \notin P
    <3>1. P \in SUBSET (1..n)
      BY <1>2 DEF Upto
    <3>2. \A x \in O : x <= k => x # c
      BY <1>2, <2>1
    <3>3. QED
      BY <3>1, <3>2 DEF Upto
  <2>6. c \in O <=> Asked(k) /\ c \notin R \cup P \cup e
    BY <1>0, <1>2, <2>1, <2>5
  <2> HIDE DEF P, Q
  <2>7. Apart(ordered, c, R \cup P \cup e)
    BY <1>0, <1>3, <2>1, <2>5 DEF Apart, OneEach
  <2>8. OlderStep(g, rel, ordered, pool, v[k], k) =
          IF Asked(k) /\ c \notin R \cup P \cup e
          THEN TakeNth(g, rel, ordered, v[k], c, "older") ELSE v[k]
    BY <2>1, <2>2, <2>7, OlderNext
  <2>9. CASE c \in O
    <3>1. Q = P \cup {c} /\ v[c] = TakeNth(g, rel, ordered, v[k], c, "older")
      BY <2>3, <2>4, <2>6, <2>8, <2>9
    <3>2. TakeNth(g, rel, ordered, v[k], c, "older") = TakenAt(g, rel, ordered, R, Q, e)
      <4> DEFINE s == v[k]
      <4>1. s = TakenAt(g, rel, ordered, R, P, e) /\ Q = P \cup {c}
        BY <2>2, <3>1
      <4> HIDE DEF s
      <4>2. TakeNth(g, rel, ordered, s, c, "older") = TakenAt(g, rel, ordered, R, Q, e)
        BY <4>1, TakeOlderAt
      <4>3. QED
        BY <4>2 DEF s
    <3>3. v[c] = At(c)
      BY <3>1, <3>2 DEF Q
    <3>4. QED
      BY <2>1, <3>3 DEF c
  <2>10. CASE c \notin O
    <3>1. Q = P /\ v[c] = v[k]
      BY <2>3, <2>4, <2>6, <2>8, <2>10
    <3>2. v[c] = At(c)
      BY <2>2, <3>1 DEF Q
    <3>3. QED
      BY <2>1, <3>2 DEF c
  <2>11. QED
    BY <2>9, <2>10
<1> HIDE DEF S
<1>6. 0..n \subseteq S /\ n \in 0..n
  BY <1>4, <1>5, UpTo
<1>7. v[n] = At(n) /\ Upto(O, n) = O
  BY <1>2, <1>6, UptoEnds DEF S
<1>8. OlderPass(g, rel, ordered, pool, base) = TakenAt(g, rel, ordered, R, O, e)
  BY <1>1, <1>7 DEF OlderVia
<1>9. QED
  BY <1>8 DEF O, e

\* The first ranks of a set, at most m of them.
Below(F, x) == {y \in F : y < x}
FirstOf(F, m) == {x \in F : Cardinality(Below(F, x)) < m}

\* P is what of F is taken before k, and k is taken as long as fewer than m are.
TakesFirst(F, m, k, P) ==
    /\ IsFiniteSet(P) /\ P \in SUBSET Below(F, k)
    /\ Cardinality(P) < m => P = Below(F, k)
    /\ k \in FirstOf(F, m) <=> k \in F /\ Cardinality(P) < m

\* As long as fewer than m are taken, all are taken.
LEMMA FirstTaken ==
    ASSUME NEW n \in Nat, NEW F \in SUBSET (1..n), NEW m \in Nat, NEW k \in 1..n,
           NEW P, P = Below(FirstOf(F, m), k)
    PROVE  TakesFirst(F, m, k, P)
<1>1. ASSUME NEW x \in 1..n
      PROVE  /\ IsFiniteSet(Below(F, x)) /\ Cardinality(Below(F, x)) \in Nat
  <2>1. Below(F, x) \in SUBSET (1..n)
    BY DEF Below
  <2>3. IsFiniteSet(1..n)
    BY FS_Interval
  <2>2. QED
    BY <2>1, <2>3, FS_Subset, FS_CardinalityType
<1>2. \A x \in F : x \in 1..n /\ x \in Nat
  OBVIOUS
<1>3. P = {x \in F : Cardinality(Below(F, x)) < m /\ x < k}
  BY DEF Below, FirstOf
<1>4. P \in SUBSET Below(F, k)
  BY <1>3 DEF Below
<1>5. IsFiniteSet(P) /\ Cardinality(P) \in Nat /\ Cardinality(P) <= Cardinality(Below(F, k))
  <2>1. QED
    BY <1>1, <1>4, FS_Subset, FS_CardinalityType
<1>6. ASSUME Cardinality(P) < m PROVE P = Below(F, k)
  <2> DEFINE Late == {x \in F : x < k /\ x \notin P}
  <2>1. ASSUME Late # {} PROVE FALSE
    <3>1. Late \in SUBSET Nat
      BY <1>2
    <3>2. PICK x \in Late : \A y \in Late : x <= y
      <4> HIDE DEF Late
      <4>1. QED
        BY <2>1, <3>1, MinLeast
    <3>3. Below(F, x) \in SUBSET P
      <4>1. \A y \in Below(F, x) : y \notin Late /\ y \in F /\ y < k
        BY <1>2, <3>2 DEF Below
      <4>2. QED
        BY <4>1
    <3>4. x \in F /\ x < k /\ x \in 1..n /\ x \notin P
      BY <1>2, <3>2
    <3> HIDE DEF Late
    <3>5. Cardinality(Below(F, x)) <= Cardinality(P) /\ Cardinality(Below(F, x)) \in Nat
      BY <1>1, <1>5, <3>3, <3>4, FS_Subset
    <3>6. Cardinality(Below(F, x)) < m
      BY <1>5, <1>6, <3>5
    <3>7. QED
      BY <1>3, <3>4, <3>6
  <2>2. QED
    BY <1>4, <2>1 DEF Below
<1>7. k \in FirstOf(F, m) <=> k \in F /\ Cardinality(Below(F, k)) < m
  BY DEF FirstOf
<1>8. k \in FirstOf(F, m) <=> k \in F /\ Cardinality(P) < m
  <2>1. Cardinality(Below(F, k)) \in Nat
    BY <1>1
  <2>2. QED
    BY <1>5, <1>6, <1>7, <2>1
<1>9. QED
  BY <1>4, <1>5, <1>6, <1>8 DEF TakesFirst

\* The ranks of the payments with a peer not among those of T or of an earlier rank.
NewPeers(g, rel, ordered, T) ==
    {i \in DOMAIN ordered : \A j \in T \cup 1..(i - 1) : Peer(g, ordered[j], rel) # Peer(g, ordered[i], rel)}

Sized(ordered, n) == Len(ordered) = n /\ DOMAIN ordered = 1..n

\* k is of N by what of N, P, is before it.
NewRank(g, rel, ordered, R, O, m, k, N, P) ==
    /\ k \in N <=> /\ Cardinality(P) < m
                   /\ Peer(g, ordered[k], rel) \notin PeersAt(g, rel, ordered, R, O, P)
    /\ IsFiniteSet(P) /\ k \notin P

\* A rank is of those to be taken exactly when the distinct pass takes it.
LEMMA DistinctRank ==
    ASSUME NEW g, NEW rel, NEW ordered, NEW n \in Nat, Sized(ordered, n),
           NEW R \in SUBSET (1..n), NEW O \in SUBSET (1..n),
           NEW m \in Nat, NEW k \in 1..n, NEW N, N = FirstOf(NewPeers(g, rel, ordered, R \cup O), m),
           NEW P, P = Below(N, k)
    PROVE  NewRank(g, rel, ordered, R, O, m, k, N, P)
<1> DEFINE T == R \cup O
           Of(i) == Peer(g, ordered[i], rel)
           F == NewPeers(g, rel, ordered, T)
<1>1. F \in SUBSET (1..n) /\ \A i \in 1..n : i \in F <=> \A j \in T \cup 1..(i - 1) : Of(j) # Of(i)
  BY DEF NewPeers, Sized
<1> HIDE DEF T, F, Of
<1>10. N = FirstOf(F, m)
  BY DEF F, T
<1>2. /\ IsFiniteSet(P) /\ P \in SUBSET {y \in F : y < k}
      /\ Cardinality(P) < m => P = {y \in F : y < k}
      /\ k \in N <=> k \in F /\ Cardinality(P) < m
  <2>1. P = Below(FirstOf(F, m), k) /\ N = FirstOf(F, m)
    BY <1>10
  <2>2. F \in SUBSET (1..n)
    BY <1>1
  <2>3. TakesFirst(F, m, k, P)
    BY <2>1, <2>2, FirstTaken
  <2>4. QED
    BY <2>1, <2>3 DEF Below, TakesFirst
<1>3. ASSUME k \in N, NEW i \in T \cup P PROVE Of(k) # Of(i)
  <2>1. k \in F /\ \A y \in P : y \in 1..(k - 1)
    <3>1. \A y \in P : y \in 1..n /\ y < k
      BY <1>1, <1>2
    <3>2. \A y \in 1..n : y < k => y \in 1..(k - 1)
      OBVIOUS
    <3>3. QED
      BY <1>2, <1>3, <3>1, <3>2
  <2>2. QED
    BY <1>1, <2>1, <1>3
<1>4. ASSUME Cardinality(P) < m, \A i \in T \cup P : Of(k) # Of(i) PROVE k \in N
  <2>1. ASSUME NEW j \in T \cup 1..(k - 1) PROVE Of(j) # Of(k)
    <3>1. CASE j \in T
      BY <1>4, <3>1
    <3>2. CASE j \in 1..(k - 1) /\ Of(j) = Of(k)
      <4> DEFINE Same == {x \in 1..(k - 1) : Of(x) = Of(k)}
      <4>1. Same \in SUBSET Nat /\ j \in Same
        BY <3>2
      <4>2. PICK x \in Same : \A y \in Same : x <= y
        <5> HIDE DEF Same
        <5>1. QED
          BY <4>1, MinLeast
      <4>3. x \in 1..n /\ x < k /\ Of(x) = Of(k)
        BY <4>2
      <4>4. ASSUME NEW i \in T \cup 1..(x - 1) PROVE Of(i) # Of(x)
        <5>1. CASE i \in T
          BY <1>4, <4>3, <5>1
        <5>2. CASE i \in 1..(x - 1)
          <6>1. i \in 1..(k - 1) /\ ~(x <= i)
            BY <4>3, <5>2
          <6>2. i \notin Same
            BY <4>2, <6>1
          <6>3. QED
            BY <4>3, <6>1, <6>2
        <5>3. QED
          BY <5>1, <5>2
      <4>5. x \in F
        BY <1>1, <4>3, <4>4
      <4>6. x \in P
        BY <1>2, <1>4, <4>3, <4>5
      <4>7. QED
        BY <1>4, <4>3, <4>6
    <3>3. QED
      BY <3>1, <3>2
  <2>2. k \in F
    BY <1>1, <2>1
  <2>3. QED
    BY <1>2, <1>4, <2>2
<1>5. k \in N => Cardinality(P) < m
  BY <1>2
<1>6. k \notin P
  BY <1>2
<1>7. k \in N <=> Cardinality(P) < m /\ \A i \in T \cup P : Of(k) # Of(i)
  BY <1>3, <1>4, <1>5
<1>8. Of(k) \in PeersAt(g, rel, ordered, R, O, P) <=> \E i \in T \cup P : Of(k) = Of(i)
  BY DEF PeersAt, Of, T
<1>9. QED
  BY <1>2, <1>6, <1>7, <1>8 DEF Of, NewRank

\* One step of the distinct pass.
LEMMA DistinctNext ==
    ASSUME NEW g, NEW rel, NEW ordered, NEW pool, NEW r \in Nat, NEW k, k = r + 1,
           NEW R, NEW O, NEW P, NEW s, s = TakenAt(g, rel, ordered, R, O, P)
    PROVE  DistinctStep(g, rel, ordered, pool, s, r) =
             IF /\ Cardinality(P) < pool.distinct
                /\ Peer(g, ordered[k], rel) \notin PeersAt(g, rel, ordered, R, O, P)
             THEN OneMore(TakeNth(g, rel, ordered, s, k, "distinct")) ELSE s
<1>1. ordered[r + 1] = ordered[k]
  OBVIOUS
<1>2. /\ s.selected = SelectedAt(ordered, R, O, P) /\ s.peers = PeersAt(g, rel, ordered, R, O, P)
      /\ s.diverse = Cardinality(P)
  BY DEF TakenAt, TakenWith
<1>3. ordered[k] \in SelectedAt(ordered, R, O, P) =>
        Peer(g, ordered[k], rel) \in PeersAt(g, rel, ordered, R, O, P)
  BY DEF SelectedAt, PeersAt
<1> DEFINE known == PeersAt(g, rel, ordered, R, O, P)
           chosen == SelectedAt(ordered, R, O, P)
           c == Cardinality(P)
<1> HIDE DEF known, chosen, c
<1>4. DistinctStep(g, rel, ordered, pool, s, r) =
        IF c < pool.distinct /\ ordered[k] \notin chosen /\ Peer(g, ordered[k], rel) \notin known
        THEN OneMore(TakeNth(g, rel, ordered, s, k, "distinct")) ELSE s
  BY <1>1, <1>2, Zenon DEF DistinctStep, PeerAt, OneMore, TakeNth, known, chosen, c
<1>5. QED
  BY <1>3, <1>4, Zenon DEF known, chosen, c

\* The distinct pass takes the first ranks with new peers.
LEMMA DistinctTaken ==
    ASSUME NEW g, NEW rel, NEW ordered, NEW pool, pool.distinct \in Nat,
           NEW n \in Nat, Sized(ordered, n),
           NEW R \in SUBSET (1..n), NEW O \in SUBSET (1..n)
    PROVE  DistinctPass(g, rel, ordered, pool, TakenAt(g, rel, ordered, R, O, {}))
             = TakenAt(g, rel, ordered, R, O, FirstOf(NewPeers(g, rel, ordered, R \cup O), pool.distinct))
<1> DEFINE N == FirstOf(NewPeers(g, rel, ordered, R \cup O), pool.distinct)
           e == {}
           base == TakenAt(g, rel, ordered, R, O, e)
           At(k) == TakenAt(g, rel, ordered, R, O, Upto(N, k))
<1>1. PICK v : DistinctVia(g, rel, ordered, pool, base, n, v)
  BY DistinctRun DEF Sized
<1>2. N \in SUBSET (1..n)
  BY DEF FirstOf, NewPeers, Sized
<1>3. ASSUME NEW k \in 1..n
      PROVE  /\ k \in N <=> /\ Cardinality(Below(N, k)) < pool.distinct
                            /\ Peer(g, ordered[k], rel) \notin PeersAt(g, rel, ordered, R, O, Below(N, k))
             /\ IsFiniteSet(Below(N, k)) /\ k \notin Below(N, k)
  <2> DEFINE P == Below(N, k)
             m == pool.distinct
  <2>1. m \in Nat /\ N = FirstOf(NewPeers(g, rel, ordered, R \cup O), m) /\ P = Below(N, k)
    OBVIOUS
  <2> HIDE DEF N, m, P
  <2>2. NewRank(g, rel, ordered, R, O, m, k, N, P)
    BY <2>1, DistinctRank
  <2>3. QED
    BY <2>2 DEF m, P, NewRank
<1>0. e = {}
  OBVIOUS
<1> HIDE DEF N, e
<1> DEFINE S == {k \in 0..n : v[k] = At(k)}
<1>4. 0 \in S
  <2>1. Upto(N, 0) = e
    BY <1>0, <1>2, UptoEnds
  <2>2. 0 \in 0..n
    OBVIOUS
  <2>3. QED
    BY <1>1, <2>1, <2>2 DEF DistinctVia
<1>5. ASSUME NEW k \in 0..(n - 1), k \in S PROVE k + 1 \in S
  <2> DEFINE c == k + 1
  <2>1. c \in 1..n /\ c - 1 = k /\ k \in Nat /\ c = k + 1 /\ c \in 0..n
    OBVIOUS
  <2> HIDE DEF c
  <2> DEFINE P == Below(N, c)
             Q == Upto(N, c)
             s == v[k]
  <2>10. P = Upto(N, k)
    <3>1. \A x \in N : x < c <=> x <= k
      BY <1>2, <2>1
    <3>2. QED
      BY <3>1 DEF Below, Upto
  <2>2. s = TakenAt(g, rel, ordered, R, O, P)
    BY <1>5, <2>10
  <2>3. v[c] = DistinctStep(g, rel, ordered, pool, s, k)
    BY <1>1, <2>1 DEF DistinctVia
  <2>4. Q = IF c \in N THEN P \cup {c} ELSE P
    <3>1. \A x \in N : x <= c <=> (x < c \/ x = c)
      BY <1>2, <2>1
    <3>2. QED
      BY <3>1 DEF Below, Upto
  <2>5. /\ IsFiniteSet(P) /\ c \notin P
        /\ c \in N <=> /\ Cardinality(P) < pool.distinct
                       /\ Peer(g, ordered[c], rel) \notin PeersAt(g, rel, ordered, R, O, P)
    BY <1>3, <2>1
  <2> HIDE DEF P, Q, s
  <2>6. DistinctStep(g, rel, ordered, pool, s, k) =
          IF c \in N THEN OneMore(TakeNth(g, rel, ordered, s, c, "distinct")) ELSE s
    <3>1. DistinctStep(g, rel, ordered, pool, s, k) =
            IF /\ Cardinality(P) < pool.distinct
               /\ Peer(g, ordered[c], rel) \notin PeersAt(g, rel, ordered, R, O, P)
            THEN OneMore(TakeNth(g, rel, ordered, s, c, "distinct")) ELSE s
      BY <2>1, <2>2, DistinctNext
    <3>2. QED
      BY <2>5, <3>1, Zenon
  <2>7. CASE c \in N
    <3>1. Q = P \cup {c} /\ v[c] = OneMore(TakeNth(g, rel, ordered, s, c, "distinct"))
      BY <2>3, <2>4, <2>6, <2>7
    <3>2. OneMore(TakeNth(g, rel, ordered, s, c, "distinct")) = TakenAt(g, rel, ordered, R, O, Q)
      BY <2>2, <2>5, <3>1, TakeDistinctAt
    <3>3. v[c] = At(c)
      BY <3>1, <3>2 DEF Q
    <3>4. QED
      BY <2>1, <3>3 DEF c
  <2>8. CASE c \notin N
    <3>1. Q = P /\ v[c] = s
      BY <2>3, <2>4, <2>6, <2>8
    <3>2. v[c] = At(c)
      BY <2>2, <3>1 DEF Q
    <3>3. QED
      BY <2>1, <3>2 DEF c
  <2>9. QED
    BY <2>7, <2>8
<1> HIDE DEF S
<1>6. 0..n \subseteq S /\ n \in 0..n
  BY <1>4, <1>5, UpTo
<1>7. v[n] = At(n) /\ Upto(N, n) = N
  BY <1>2, <1>6, UptoEnds DEF S
<1>8. DistinctPass(g, rel, ordered, pool, base) = TakenAt(g, rel, ordered, R, O, N)
  BY <1>1, <1>7 DEF DistinctVia
<1>9. QED
  BY <1>8 DEF N, e

-------------------------------------------------------------------------------
\* What is sampled of a relation: the ranks of the three strata.
ThreeStrata(g, rel, ordered, pool) ==
    LET R == RecentRanks(ordered, pool)
        O == OlderRanks(ordered, pool)
    IN SampledAt(ordered, R, O, FirstOf(NewPeers(g, rel, ordered, R \cup O), pool.distinct))

\* The passes of the query take the three strata of the reference: the recent ranks, the evenly
\* spaced older ones and the first payments of new peers.
LEMMA SampledIs ==
    ASSUME NEW g, NEW rel, NEW ordered, NEW pool \in Pool,
           NEW n \in Nat, Sized(ordered, n), OneEach(ordered, n)
    PROVE  Sampled(g, rel, ordered, pool) = ThreeStrata(g, rel, ordered, pool)
<1>1. pool.recent \in Nat /\ pool.older \in Nat /\ pool.distinct \in Nat
  BY DEF Pool
<1> DEFINE R == RecentRanks(ordered, pool)
           O == OlderRanks(ordered, pool)
           N == FirstOf(NewPeers(g, rel, ordered, R \cup O), pool.distinct)
<1>2. R \in SUBSET (1..n) /\ O \in SUBSET (1..n)
  BY <1>1, RecentRanksAre, OlderRanksAre DEF Sized
<1>3. RecentPass(g, rel, ordered, pool, NothingTaken) = TakenAt(g, rel, ordered, R, {}, {})
  BY <1>1, RecentTaken DEF Sized
<1>4. OlderPass(g, rel, ordered, pool, TakenAt(g, rel, ordered, R, {}, {}))
        = TakenAt(g, rel, ordered, R, O, {})
  BY <1>1, OlderTaken DEF Sized
<1>5. DistinctPass(g, rel, ordered, pool, TakenAt(g, rel, ordered, R, O, {}))
        = TakenAt(g, rel, ordered, R, O, N)
  BY <1>1, <1>2, DistinctTaken
<1>6. Sampled(g, rel, ordered, pool) = TakenAt(g, rel, ordered, R, O, N).sampled
  BY <1>3, <1>4, <1>5, SampledPasses
<1>7. QED
  BY <1>6 DEF TakenAt, TakenWith, ThreeStrata

\* The reference's strata of a relation are those ranks of the visible history.
LEMMA StratifyIs ==
    ASSUME NEW g, NEW key, NEW rel, NEW pool
    PROVE  Stratify(g, key, rel, pool) = ThreeStrata(g, rel, Descending(VisibleHistory(g, key, rel)), pool)
<1> DEFINE rows0 == Descending(VisibleHistory(g, key, rel))
           R == RecentRanks(rows0, pool)
           O == OlderRanks(rows0, pool)
           fresh == {i \in DOMAIN rows0 :
                      \A j \in (R \cup O) \cup 1..(i - 1) : Peer(g, rows0[j], rel) # Peer(g, rows0[i], rel)}
           N == {i \in fresh : Cardinality({j \in fresh : j < i}) < pool.distinct}
<1>1. Stratify(g, key, rel, pool) =
        {<<rows0[i], "recent">> : i \in R} \cup {<<rows0[i], "older">> : i \in O}
          \cup {<<rows0[i], "distinct">> : i \in N}
  BY DEF Stratify, DistinctRanks
<1>2. N = FirstOf(NewPeers(g, rel, rows0, R \cup O), pool.distinct)
  BY DEF FirstOf, NewPeers, Below
<1>3. QED
  BY <1>1, <1>2 DEF ThreeStrata, SampledAt, Tagged

-------------------------------------------------------------------------------
(* The scans of a request, exactly.                                                        *)

\* The visible history of a relation is finite.
LEMMA HistoryFinite ==
    ASSUME NEW g \in Logs, NEW key, NEW rel, NEW V, V = VisibleHistory(g, key, rel)
    PROVE  /\ V \in SUBSET Nat /\ V \in SUBSET (DOMAIN g) /\ IsFiniteSet(V) /\ Cardinality(V) \in Nat
           /\ \A n \in V : IsPayment(g, n) /\ Showing(g, key, n)
<1>1. V \in SUBSET (DOMAIN g) /\ \A n \in V : IsPayment(g, n) /\ Showing(g, key, n)
  BY DEF VisibleHistory, Incident, Showing
<1>2. DOMAIN g = 1..Len(g) /\ Len(g) \in Nat
  BY DEF Logs
<1>3. IsFiniteSet(1..Len(g))
  BY <1>2, FS_Interval
<1>4. V \in SUBSET (1..Len(g))
  BY <1>1, <1>2
<1>5. IsFiniteSet(V) /\ Cardinality(V) \in Nat
  BY <1>3, <1>4, FS_Subset, FS_CardinalityType
<1>6. V \in SUBSET Nat
  BY <1>2, <1>4
<1>7. QED
  BY <1>1, <1>5, <1>6

\* A scan sees the visible history of its relation.
LEMMA VisibleIs ==
    ASSUME NEW acc, NEW g, NEW key, Exact(acc, g, key), NEW rel, NEW next,
           next = ScopeEvents(acc, g, key, AskedOf(g, key, rel))
    PROVE  Exact(next, g, key) /\ VisibleOf(g, key, rel, next) = VisibleHistory(g, key, rel)
<1> DEFINE events == AskedOf(g, key, rel)
<1>1. next = ScopeEvents(acc, g, key, events)
  OBVIOUS
<1> HIDE DEF events
<1>2. Exact(next, g, key) /\ \A n \in events : n \in next.blocked <=> ~Showing(g, key, n)
  BY <1>1, ScopeExact
<1>3. \A n : n \in VisibleOf(g, key, rel, next) <=> n \in events /\ g[n].usd /\ Showing(g, key, n)
  BY <1>2 DEF VisibleOf, events
<1>4. \A n : n \in VisibleHistory(g, key, rel) <=> n \in events /\ g[n].usd /\ Showing(g, key, n)
  BY DEF VisibleHistory, events, AskedOf, Showing
<1>5. QED
  <2>1. \A n : n \in VisibleOf(g, key, rel, next) <=> n \in VisibleHistory(g, key, rel)
    BY <1>3, <1>4
  <2>2. QED
    BY <1>2, <2>1

\* What is sampled of the visible history is what the reference stratifies.
LEMMA SampledStratify ==
    ASSUME NEW g \in Logs, NEW key, NEW rel, NEW pool \in Pool
    PROVE  Sampled(g, rel, Descending(VisibleHistory(g, key, rel)), pool) = Stratify(g, key, rel, pool)
<1> DEFINE V == VisibleHistory(g, key, rel)
           s == Descending(V)
           n == Cardinality(V)
<1>1. V \in SUBSET Nat /\ IsFiniteSet(V) /\ n \in Nat
  BY HistoryFinite
<1>2. InOrder(s, V, Later(V))
  <2> HIDE DEF V
  <2>1. QED
    BY <1>1, DescendingInOrder
<1>3. Sized(s, n) /\ OneEach(s, n)
  <2> HIDE DEF V, s
  <2>1. QED
    BY <1>2 DEF InOrder, Sized, OneEach, n
<1> HIDE DEF n, s, V
<1>4. Sampled(g, rel, s, pool) = ThreeStrata(g, rel, s, pool)
  BY <1>1, <1>3, SampledIs
<1>5. Stratify(g, key, rel, pool) = ThreeStrata(g, rel, s, pool)
  BY StratifyIs DEF s, V
<1>6. QED
  BY <1>4, <1>5 DEF s, V

ScannedUpTo(k) == {Relations[j] : j \in 1..k}
HistoryOf(g, key, Rs) == UNION {{<<n, rel>> : n \in VisibleHistory(g, key, rel)} : rel \in Rs}
EventsOf(g, key, pool, Rs) ==
    UNION {{<<s[1], rel, s[2]>> : s \in Stratify(g, key, rel, pool)} : rel \in Rs}
Crowding(g, key, pool, Rs) ==
    \E rel \in Rs : Cardinality(VisibleHistory(g, key, rel)) > pool.max_history
Misroled(g, key, Rs) == \E rel \in Rs : \E n \in VisibleHistory(g, key, rel) : InvalidRoles(g, n)

\* A scan after some relations.
ScanIs(scan, g, key, pool, Rs) ==
    /\ scan = [status |-> scan.status, acc |-> scan.acc, invalid |-> scan.invalid,
               history |-> scan.history, events |-> scan.events]
    /\ Exact(scan.acc, g, key)
    /\ scan.status = IF Crowding(g, key, pool, Rs) THEN "history_capacity_exceeded" ELSE "ok"
    /\ scan.status = "ok" =>
         /\ scan.invalid <=> Misroled(g, key, Rs)
         /\ scan.history = HistoryOf(g, key, Rs)
         /\ scan.events = EventsOf(g, key, pool, Rs)

\* One relation more.
LEMMA ScanOne ==
    ASSUME NEW g \in Logs, NEW key, NEW pool \in Pool, NEW Rs, NEW rel, NEW scan,
           ScanIs(scan, g, key, pool, Rs), NEW next, next = ScanRelation(scan, g, key, pool, rel)
    PROVE  ScanIs(next, g, key, pool, Rs \cup {rel})
<1> DEFINE acc == ScopeEvents(scan.acc, g, key, AskedOf(g, key, rel))
           V == VisibleHistory(g, key, rel)
           counted == CountRoles(ResetRoles(acc, V), V)
           picked == Stratify(g, key, rel, pool)
           invalid == scan.invalid \/ \E n \in V : counted.senders[n] # 1 \/ InvalidRoles(g, n)
           history == scan.history \cup {<<n, rel>> : n \in V}
           events == scan.events \cup {<<s[1], rel, s[2]>> : s \in picked}
           Qs == Rs \cup {rel}
<1>1. /\ Crowding(g, key, pool, Qs) <=> Crowding(g, key, pool, Rs) \/ Cardinality(V) > pool.max_history
      /\ Misroled(g, key, Qs) <=> Misroled(g, key, Rs) \/ \E n \in V : InvalidRoles(g, n)
      /\ HistoryOf(g, key, Qs) = HistoryOf(g, key, Rs) \cup {<<n, rel>> : n \in V}
      /\ EventsOf(g, key, pool, Qs) = EventsOf(g, key, pool, Rs) \cup {<<s[1], rel, s[2]>> : s \in picked}
  <2>1. Crowding(g, key, pool, Qs) <=> Crowding(g, key, pool, Rs) \/ Cardinality(V) > pool.max_history
    BY DEF Crowding
  <2>2. Misroled(g, key, Qs) <=> Misroled(g, key, Rs) \/ \E n \in V : InvalidRoles(g, n)
    BY DEF Misroled
  <2>3. HistoryOf(g, key, Qs) = HistoryOf(g, key, Rs) \cup {<<n, rel>> : n \in V}
    BY DEF HistoryOf
  <2>4. EventsOf(g, key, pool, Qs) = EventsOf(g, key, pool, Rs) \cup {<<s[1], rel, s[2]>> : s \in picked}
    BY DEF EventsOf
  <2>5. QED
    BY <2>1, <2>2, <2>3, <2>4
<1>2. Exact(acc, g, key) /\ VisibleOf(g, key, rel, acc) = V
  <2>1. acc = ScopeEvents(scan.acc, g, key, AskedOf(g, key, rel)) /\ Exact(scan.acc, g, key)
    BY DEF ScanIs
  <2> HIDE DEF acc
  <2>2. QED
    BY <2>1, VisibleIs
<1>3. Sampled(g, rel, Descending(V), pool) = picked
  BY SampledStratify
<1>4. CASE scan.status # "ok"
  <2>1. next = scan
    BY <1>4 DEF ScanRelation
  <2>2. Crowding(g, key, pool, Rs) /\ scan.status = "history_capacity_exceeded"
    BY <1>4 DEF ScanIs
  <2>3. Crowding(g, key, pool, Qs)
    BY <1>1, <2>2
  <2>4. QED
    BY <1>4, <2>1, <2>2, <2>3 DEF ScanIs
<1>5. ASSUME scan.status = "ok", Cardinality(V) > pool.max_history
      PROVE  ScanIs(next, g, key, pool, Qs)
  <2>1. next = [scan EXCEPT !.status = "history_capacity_exceeded", !.acc = acc]
    BY <1>2, <1>5 DEF ScanRelation, AskedOf, VisibleOf
  <2>2. Crowding(g, key, pool, Qs)
    BY <1>1, <1>5
  <2> HIDE DEF V, acc, Qs
  <2>3. next = [status |-> "history_capacity_exceeded", acc |-> acc, invalid |-> scan.invalid,
                history |-> scan.history, events |-> scan.events]
    BY <2>1 DEF ScanIs
  <2>4. next.status = "history_capacity_exceeded" /\ next.acc = acc /\ next.invalid = scan.invalid
        /\ next.history = scan.history /\ next.events = scan.events
    BY <2>3
  <2>5. QED
    BY <1>2, <2>2, <2>3, <2>4 DEF ScanIs
<1>6. ASSUME scan.status = "ok", ~(Cardinality(V) > pool.max_history)
      PROVE  ScanIs(next, g, key, pool, Qs)
  <2>1. next = [scan EXCEPT !.acc = counted, !.invalid = invalid, !.history = history, !.events = events]
    <3> DEFINE A == AskedOf(g, key, rel)
               U == VisibleOf(g, key, rel, acc)
    <3>1. next = IF Cardinality(U) > pool.max_history
                 THEN [scan EXCEPT !.status = "history_capacity_exceeded", !.acc = acc]
                 ELSE [scan EXCEPT
                         !.acc = CountRoles(ResetRoles(acc, U), U),
                         !.invalid = @ \/ \E n \in U : CountRoles(ResetRoles(acc, U), U).senders[n] # 1 \/ InvalidRoles(g, n),
                         !.history = @ \cup {<<n, rel>> : n \in U},
                         !.events = @ \cup {<<s[1], rel, s[2]>> : s \in Sampled(g, rel, Descending(U), pool)}]
      BY <1>6, Zenon DEF ScanRelation, AskedOf, VisibleOf
    <3>2. QED
      BY <1>2, <1>3, <1>6, <3>1
  <2>2. Exact(counted, g, key) /\ \A n \in V : counted.senders[n] = 1
    <3>1. counted = CountRoles(ResetRoles(acc, V), V)
      OBVIOUS
    <3> HIDE DEF V, acc, counted
    <3>2. QED
      BY <1>2, <3>1, RolesExact
  <2>3. invalid <=> scan.invalid \/ \E n \in V : InvalidRoles(g, n)
    <3> HIDE DEF counted, V
    <3>1. QED
      BY <2>2, Zenon
  <2>4. ~Crowding(g, key, pool, Rs) /\ ~Crowding(g, key, pool, Qs)
    BY <1>1, <1>6 DEF ScanIs
  <2>5. /\ scan.invalid <=> Misroled(g, key, Rs)
        /\ scan.history = HistoryOf(g, key, Rs)
        /\ scan.events = EventsOf(g, key, pool, Rs)
    BY <1>6 DEF ScanIs
  <2>6. /\ invalid <=> Misroled(g, key, Qs)
        /\ history = HistoryOf(g, key, Qs)
        /\ events = EventsOf(g, key, pool, Qs)
    <3> HIDE DEF Qs, V, invalid, picked
    <3>1. QED
      BY <1>1, <2>3, <2>5
  <2> HIDE DEF counted, V, acc, invalid, history, picked, events, Qs
  <2>7. next = [status |-> "ok", acc |-> counted, invalid |-> invalid, history |-> history,
                events |-> events]
    BY <1>6, <2>1 DEF ScanIs
  <2>8. next.acc = counted /\ next.events = events /\ next.status = "ok" /\ next.history = history
        /\ next.invalid = invalid
    BY <2>7
  <2>9. QED
    BY <2>2, <2>4, <2>6, <2>7, <2>8 DEF ScanIs
<1>7. QED
  BY <1>4, <1>5, <1>6

\* The scans of a request are those of the reference.
LEMMA ScannedIs ==
    ASSUME NEW g \in Logs, NEW key, NEW pool \in Pool, NEW acc, Exact(acc, g, key)
    PROVE  ScanIs(Scanned(acc, g, key, pool), g, key, pool, Range(Relations))
<1> DEFINE n == 4
<1>1. n \in Nat /\ n = 4
  OBVIOUS
<1> HIDE DEF n
<1>2. PICK v : /\ v[0] = NoScan(acc)
               /\ \A k \in 1..n : v[k] = ScanRelation(v[k - 1], g, key, pool, Relations[k])
               /\ Scanned(acc, g, key, pool) = v[n]
  BY <1>1, ScanSteps
<1> DEFINE S == {k \in 0..n : ScanIs(v[k], g, key, pool, ScannedUpTo(k))}
<1>3. 0 \in S
  <2> DEFINE start == NoScan(acc)
  <2>1. /\ start = [status |-> start.status, acc |-> start.acc, invalid |-> start.invalid,
                    history |-> start.history, events |-> start.events]
        /\ start.acc = acc /\ start.status = "ok" /\ start.events = {} /\ start.history = {}
        /\ start.invalid = FALSE
    BY DEF NoScan
  <2>2. ScannedUpTo(0) = {}
    BY DEF ScannedUpTo
  <2>3. /\ ~Crowding(g, key, pool, {}) /\ ~Misroled(g, key, {})
        /\ HistoryOf(g, key, {}) = {} /\ EventsOf(g, key, pool, {}) = {}
    BY DEF Crowding, Misroled, HistoryOf, EventsOf
  <2> HIDE DEF start
  <2>4. ScanIs(start, g, key, pool, ScannedUpTo(0))
    BY <2>1, <2>2, <2>3 DEF ScanIs
  <2>5. QED
    BY <1>1, <1>2, <2>4 DEF start
<1>4. ASSUME NEW k \in 0..(n - 1), k \in S PROVE k + 1 \in S
  <2>1. ScanIs(v[k], g, key, pool, ScannedUpTo(k)) /\ k + 1 \in 1..n /\ (k + 1) - 1 = k
    BY <1>1, <1>4
  <2>2. v[k + 1] = ScanRelation(v[k], g, key, pool, Relations[k + 1])
    BY <1>2, <2>1
  <2>3. ScannedUpTo(k + 1) = ScannedUpTo(k) \cup {Relations[k + 1]}
    <3>1. \A j : j \in 1..(k + 1) <=> j \in 1..k \/ j = k + 1
      BY <1>1
    <3>2. QED
      BY <3>1, Zenon DEF ScannedUpTo
  <2>4. ScanIs(v[k + 1], g, key, pool, ScannedUpTo(k + 1))
    BY <2>1, <2>2, <2>3, ScanOne
  <2>5. QED
    BY <1>1, <2>1, <2>4
<1> HIDE DEF S
<1>5. 0..n \subseteq S
  BY <1>1, <1>3, <1>4, UpTo
<1>6. ScannedUpTo(4) = Range(Relations)
  <2>1. DOMAIN Relations = 1..4
    BY DEF Relations
  <2>2. QED
    BY <2>1 DEF ScannedUpTo, Range
<1>7. QED
  BY <1>1, <1>2, <1>5, <1>6 DEF S

-------------------------------------------------------------------------------
(* The chronology of an account's history.                                                 *)

PairOf(g, h) == <<h[2], g[h[1]].rail, Peer(g, h[1], h[2])>>

More(f, x, y) == [z \in DOMAIN f \cup {x} |-> IF z = x THEN y ELSE f[z]]

NoChronicle == [monotone |-> TRUE, pairs |-> <<>>, prior |-> <<>>]

\* What the pair of a payment knows once the payment is counted.
Counts(g, c, h) ==
    [count |-> IF PairOf(g, h) \in DOMAIN c.pairs THEN c.pairs[PairOf(g, h)].count + 1 ELSE 1,
     first |-> IF PairOf(g, h) \in DOMAIN c.pairs THEN c.pairs[PairOf(g, h)].first ELSE Time(g, h[1]),
     last |-> Time(g, h[1])]

ChronStep(g, c, h) ==
    CASE ~c.monotone -> c
      [] c.monotone /\ PairOf(g, h) \notin DOMAIN c.pairs ->
           [c EXCEPT !.pairs = More(c.pairs, PairOf(g, h), Counts(g, c, h))]
      [] c.monotone /\ PairOf(g, h) \in DOMAIN c.pairs /\ Time(g, h[1]) < c.pairs[PairOf(g, h)].last ->
           [c EXCEPT !.monotone = FALSE]
      [] OTHER -> [c EXCEPT !.prior = More(@, h, c.pairs[PairOf(g, h)]),
                            !.pairs = More(c.pairs, PairOf(g, h), Counts(g, c, h))]

ChronPass(g, s) == FoldLeft(LAMBDA c, h : ChronStep(g, c, h), NoChronicle, s)

\* The values v that the chronology goes through.
ChronVia(g, s, n, v) ==
    /\ v[0] = NoChronicle
    /\ \A k \in 1..n : v[k] = ChronStep(g, v[k - 1], s[k])
    /\ ChronPass(g, s) = v[n]

\* The chronology goes over the history in its order.
LEMMA ChronRun ==
    ASSUME NEW g, NEW s, NEW n \in Nat, DOMAIN s = 1..n
    PROVE  \E v : ChronVia(g, s, n, v)
<1> DEFINE Step(c, k) == ChronStep(g, c, s[k])
           Is(f, k) == f = [d \in SUBSET (1..k) |-> IF d = {} THEN NoChronicle
                              ELSE ChronStep(g, f[d \ {Max(d)}], s[Max(d)])]
           S == {k \in 0..n : \E f : Is(f, k)}
<1>1. 0 \in S
  <2>1. SUBSET (1..0) = {{}}
    OBVIOUS
  <2>2. Is([d \in SUBSET (1..0) |-> NoChronicle], 0)
    BY <2>1
  <2> HIDE DEF Is
  <2>3. QED
    BY <2>2
<1>2. ASSUME NEW k \in 0..(n - 1), k \in S PROVE k + 1 \in S
  <2>1. PICK f : Is(f, k)
    BY <1>2
  <2>2. \A d \in SUBSET (1..k) : f[d] = IF d = {} THEN NoChronicle ELSE Step(f[d \ {Max(d)}], Max(d))
    BY <2>1
  <2> HIDE DEF Step
  <2> DEFINE more == [d \in SUBSET (1..k + 1) |->
                       IF k + 1 \in d THEN Step(f[d \ {k + 1}], k + 1) ELSE f[d]]
  <2>3. \A d \in SUBSET (1..k) : more[d] = f[d]
    <3>1. \A d \in SUBSET (1..k) : d \in SUBSET (1..k + 1) /\ k + 1 \notin d
      OBVIOUS
    <3>2. QED
      BY <3>1
  <2>4. ASSUME NEW d \in SUBSET (1..k + 1)
        PROVE  more[d] = IF d = {} THEN NoChronicle ELSE Step(more[d \ {Max(d)}], Max(d))
    <3>1. CASE k + 1 \in d
      <4>1. Max(d) = k + 1 /\ d \ {k + 1} \in SUBSET (1..k)
        BY <3>1, MaxPosition
      <4>2. more[d] = Step(f[d \ {k + 1}], k + 1)
        BY <3>1
      <4> HIDE DEF more
      <4>3. QED
        BY <2>3, <3>1, <4>1, <4>2
    <3>2. CASE k + 1 \notin d
      <4>1. d \in SUBSET (1..k) /\ (d # {} => Max(d) \in d)
        BY <3>2, MaxPosition
      <4>2. more[d] = f[d] /\ more[d \ {Max(d)}] = f[d \ {Max(d)}]
        <5> HIDE DEF more
        <5>1. QED
          BY <2>3, <4>1
      <4> HIDE DEF more
      <4>3. QED
        BY <2>2, <4>1, <4>2
    <3>3. QED
      BY <3>1, <3>2
  <2>5. more = [d \in SUBSET (1..k + 1) |-> more[d]]
    OBVIOUS
  <2> HIDE DEF more
  <2>6. Is(more, k + 1)
    BY <2>4, <2>5 DEF Step
  <2> HIDE DEF Is
  <2>7. QED
    BY <2>6
<1>3. n \in S
  <2> HIDE DEF S
  <2>1. 0..n \subseteq S /\ n \in 0..n
    BY <1>1, <1>2, UpTo
  <2>2. QED
    BY <2>1
<1> DEFINE h == CHOOSE f : Is(f, n)
<1>4. ChronPass(g, s) = h[1..n]
  BY DEF ChronPass, FoldLeft, MapThenFoldSet
<1>5. Is(h, n)
  BY <1>3
<1>6. \A d \in SUBSET (1..n) : h[d] = IF d = {} THEN NoChronicle ELSE Step(h[d \ {Max(d)}], Max(d))
  <2> HIDE DEF h
  <2>1. QED
    BY <1>5
<1> DEFINE v == [k \in 0..n |-> h[1..k]]
<1> HIDE DEF h, Is, S
<1>7. v[0] = NoChronicle
  <2>1. {} \in SUBSET (1..n) /\ (1..0) = {} /\ 0 \in 0..n
    OBVIOUS
  <2>2. QED
    BY <1>6, <2>1
<1>8. ASSUME NEW k \in 1..n PROVE v[k] = ChronStep(g, v[k - 1], s[k])
  <2> HIDE DEF Step
  <2>1. h[1..k] = Step(h[1..(k - 1)], k)
    BY <1>6, Prefix
  <2>2. k - 1 \in 0..n /\ k \in 0..n
    OBVIOUS
  <2>3. v[k] = h[1..k] /\ v[k - 1] = h[1..(k - 1)]
    BY <2>2
  <2> HIDE DEF v
  <2>5. QED
    BY <2>1, <2>3 DEF Step
<1>9. ChronPass(g, s) = v[n]
  BY <1>4
<1> HIDE DEF v
<1>10. ChronVia(g, s, n, v)
  BY <1>7, <1>8, <1>9 DEF ChronVia
<1>11. QED
  BY <1>10

\* Ascending by sequence number, then by relation.
Place(h) == CHOOSE r \in DOMAIN Relations : Relations[r] = h[2]
Sooner(H) == {p \in H \X H : p[1][1] < p[2][1] \/ (p[1][1] = p[2][1] /\ Place(p[1]) > Place(p[2]))}
ByAge(H) ==
    [i \in 1..Cardinality(H) |->
        CHOOSE x \in H : Cardinality({y \in H : y[1] < x[1] \/ (y[1] = x[1] /\ Place(y) > Place(x))}) = i - 1]

\* The chronology is one pass over the payments by their age.
LEMMA ChronologyPass ==
    ASSUME NEW g, NEW H
    PROVE  Chronology(g, H) = ChronPass(g, ByAge(H))
BY DEF Chronology, ChronPass, ChronStep, ByAge, Ordered, Place, Counts, More, PairOf, NoChronicle,
       FoldLeft, MapThenFoldSet

\* The visible payments by their relations.
Payments(g, H) == \A h \in H : h = <<h[1], h[2]>> /\ h[1] \in DOMAIN g /\ h[2] \in Range(Relations)

\* The history by age: each payment once, an earlier sequence number first.
LEMMA ByAgeInOrder ==
    ASSUME NEW g \in Logs, NEW H, IsFiniteSet(H), Payments(g, H)
    PROVE  InOrder(ByAge(H), H, Sooner(H))
<1> DEFINE R == Sooner(H)
           sooner(x, y) == x[1] < y[1] \/ (x[1] = y[1] /\ Place(x) > Place(y))
<1>1. \A x, y \in H : <<x, y>> \in R <=> sooner(x, y)
  BY DEF Sooner
<1>2. \A h \in H : h[1] \in Nat /\ Place(h) \in Int /\ Relations[Place(h)] = h[2] /\ h = <<h[1], h[2]>>
  <2>1. DOMAIN Relations = 1..4
    BY DEF Relations
  <2>2. DOMAIN g \subseteq Nat
    BY DEF Logs
  <2>3. ASSUME NEW h \in H PROVE Place(h) \in 1..4 /\ Relations[Place(h)] = h[2]
    <3>1. \E r \in DOMAIN Relations : Relations[r] = h[2]
      BY DEF Payments, Range
    <3>2. Place(h) \in DOMAIN Relations /\ Relations[Place(h)] = h[2]
      BY <3>1 DEF Place
    <3>3. QED
      BY <2>1, <3>2
  <2>4. QED
    BY <2>2, <2>3 DEF Payments
<1>3. \A x, y \in H : x[1] = y[1] /\ Place(x) = Place(y) => x = y
  BY <1>2
<1> HIDE DEF R
<1>4. StrictTotal(R, H)
  <2>1. \A x \in H : ~sooner(x, x)
    BY <1>2
  <2>2. \A x, y, z \in H : sooner(x, y) /\ sooner(y, z) => sooner(x, z)
    BY <1>2
  <2>3. \A x, y \in H : x # y => sooner(x, y) \/ sooner(y, x)
    BY <1>2, <1>3
  <2> HIDE DEF sooner
  <2>4. QED
    BY <1>1, <2>1, <2>2, <2>3 DEF StrictTotal
<1>5. ByRank(ByAge(H), H, R)
  <2>1. \A x \in H : {y \in H : <<y, x>> \in R} = {y \in H : sooner(y, x)}
    BY <1>1
  <2>2. \A x \in H : BelowOf(H, R, x) = Cardinality({y \in H : sooner(y, x)})
    BY <2>1 DEF BelowOf
  <2> HIDE DEF sooner
  <2>3. ASSUME NEW i
        PROVE  (CHOOSE x \in H : BelowOf(H, R, x) = i - 1)
                 = CHOOSE x \in H : Cardinality({y \in H : sooner(y, x)}) = i - 1
    BY <2>2
  <2>4. ByAge(H) = [i \in 1..Cardinality(H) |-> CHOOSE x \in H : Cardinality({y \in H : sooner(y, x)}) = i - 1]
    BY Zenon DEF ByAge, sooner
  <2>5. QED
    BY <2>3, <2>4, Zenon DEF ByRank
<1>6. QED
  BY <1>4, <1>5, OrderedInOrder DEF R

-------------------------------------------------------------------------------
(* What the chronology knows after some of the history.                                    *)

\* The times of some payments, and what the chronology keeps of those of a pair.
TimesAt(g, T) == {Time(g, n) : n \in T}
Stat(g, T) ==
    [count |-> Cardinality(T), first |-> Min(TimesAt(g, T)), last |-> Max(TimesAt(g, T))]

\* The least and the greatest are the only ones.
LEMMA MinIs ==
    ASSUME NEW S \in SUBSET Nat, NEW m \in S, \A k \in S : m <= k
    PROVE  Min(S) = m
<1>1. Min(S) \in S /\ Min(S) <= m
  BY MinLeast
<1>2. Min(S) \in Nat /\ m \in Nat /\ m <= Min(S)
  BY <1>1
<1>3. QED
  BY <1>1, <1>2

\* A member no other exceeds is the maximum.
LEMMA MaxIs ==
    ASSUME NEW S \in SUBSET Nat, NEW m \in S, \A k \in S : k <= m
    PROVE  Max(S) = m
<1>1. \E x \in S : \A y \in S : x >= y
  OBVIOUS
<1>2. Max(S) \in S /\ \A y \in S : Max(S) >= y
  BY <1>1 DEF Max
<1>3. Max(S) \in Nat /\ m \in Nat /\ Max(S) >= m /\ Max(S) <= m
  BY <1>2
<1>4. QED
  BY <1>3

\* The times of some payments of a graph.
LEMMA TimesOf ==
    ASSUME NEW g \in Logs, NEW T \in SUBSET (DOMAIN g), T # {}, IsFiniteSet(T)
    PROVE  /\ TimesAt(g, T) \in SUBSET Nat /\ TimesAt(g, T) # {} /\ IsFiniteSet(TimesAt(g, T))
           /\ Stat(g, T).count \in Nat /\ Stat(g, T).count # 0
           /\ Stat(g, T).first \in TimesAt(g, T) /\ Stat(g, T).last \in TimesAt(g, T)
           /\ \A n \in T : Stat(g, T).first <= Time(g, n) /\ Time(g, n) <= Stat(g, T).last
<1> DEFINE S == TimesAt(g, T)
<1>1. \A n \in T : Time(g, n) \in Nat
  BY EntryKinds
<1>2. S \in SUBSET Nat /\ S # {} /\ IsFiniteSet(S)
  <2>1. IsFiniteSet(S)
    <3> DEFINE f == [n \in T |-> Time(g, n)]
    <3>1. f \in Surjection(T, S)
      BY DEF Surjection, TimesAt
    <3> HIDE DEF f, S
    <3>2. QED
      BY <3>1, FS_Surjection
  <2>2. QED
    BY <1>1, <2>1 DEF TimesAt
<1>3. \A n \in T : Time(g, n) \in S
  BY DEF TimesAt
<1>4. Min(S) \in S /\ \A k \in S : Min(S) <= k
  <2> HIDE DEF S
  <2>1. QED
    BY <1>2, MinLeast
<1>5. Max(S) \in S /\ \A k \in S : k <= Max(S)
  <2> HIDE DEF S
  <2>1. QED
    BY <1>2, MaxGreatest
<1>6. Cardinality(T) \in Nat /\ Cardinality(T) # 0
  BY FS_CardinalityType, FS_EmptySet
<1> HIDE DEF S
<1>7. Stat(g, T).count = Cardinality(T) /\ Stat(g, T).first = Min(S) /\ Stat(g, T).last = Max(S)
  BY DEF Stat, S
<1>8. QED
  BY <1>2, <1>3, <1>4, <1>5, <1>6, <1>7 DEF S

\* The first payment of a pair.
LEMMA StatOne ==
    ASSUME NEW g \in Logs, NEW x \in DOMAIN g
    PROVE  Stat(g, {x}) = [count |-> 1, first |-> Time(g, x), last |-> Time(g, x)]
<1> DEFINE t == Time(g, x)
<1>1. t \in Nat
  BY EntryKinds
<1>2. TimesAt(g, {x}) = {t}
  BY DEF TimesAt
<1>3. Cardinality({x}) = 1
  BY FS_Singleton
<1> HIDE DEF t
<1>4. Min({t}) = t /\ Max({t}) = t
  BY <1>1, MinIs, MaxIs
<1>5. QED
  BY <1>2, <1>3, <1>4 DEF Stat, t

\* A later payment of a pair, by both clocks.
LEMMA StatAdd ==
    ASSUME NEW g \in Logs, NEW T \in SUBSET (DOMAIN g), T # {}, IsFiniteSet(T), NEW x \in DOMAIN g,
           x \notin T, ~(Time(g, x) < Stat(g, T).last), NEW U, U = T \cup {x}
    PROVE  Stat(g, U) = [count |-> Stat(g, T).count + 1, first |-> Stat(g, T).first, last |-> Time(g, x)]
<1> DEFINE t == Time(g, x)
           S == TimesAt(g, T)
           R == TimesAt(g, U)
           low == Stat(g, T).first
           high == Stat(g, T).last
<1>1. t \in Nat
  BY EntryKinds
<1>2. S \in SUBSET Nat /\ low \in S /\ high \in S
  BY TimesOf
<1>3. \A k \in S : low <= k /\ k <= high
  BY TimesOf DEF TimesAt
<1>4. R = S \cup {t}
  BY DEF TimesAt
<1>5. ~(t < high)
  OBVIOUS
<1>6. Cardinality(U) = Stat(g, T).count + 1
  BY FS_AddElement DEF Stat
<1>7. Min(R) = low /\ Max(R) = t
  <2> HIDE DEF t, S, R, low, high
  <2>1. R \in SUBSET Nat /\ low \in R /\ t \in R /\ low \in Nat /\ high \in Nat
    BY <1>1, <1>2, <1>4
  <2>2. \A k \in R : low <= k
    BY <1>1, <1>2, <1>3, <1>4, <1>5, <2>1
  <2>3. \A k \in R : k <= t
    <3>1. \A k \in S : k \in Nat /\ k <= high
      BY <1>2, <1>3
    <3>2. QED
      BY <1>1, <1>4, <1>5, <2>1, <3>1
  <2>4. QED
    BY <2>1, <2>2, <2>3, MinIs, MaxIs
<1>8. QED
  BY <1>6, <1>7 DEF Stat

\* The payments of a pair; the earlier ones of a payment's pair; a pair whose clocks go back.
OfPair(g, P, p) == {h \in P : PairOf(g, h) = p}
PairNums(g, P, p) == {h[1] : h \in OfPair(g, P, p)}
EarlierIn(g, P, h) == {n \in PairNums(g, P, PairOf(g, h)) : n < h[1]}
BackwardIn(g, P) ==
    \E h, k \in P : PairOf(g, h) = PairOf(g, k) /\ h[1] < k[1] /\ Time(g, k[1]) < Time(g, h[1])
PairsIn(g, P) == {PairOf(g, h) : h \in P}
Repeated(g, P) == {h \in P : EarlierIn(g, P, h) # {}}

\* What the chronology knows once it went over P.
ChronIs(c, g, P) ==
    /\ c = [monotone |-> c.monotone, pairs |-> c.pairs, prior |-> c.prior]
    /\ c.monotone \in BOOLEAN
    /\ c.monotone <=> ~BackwardIn(g, P)
    /\ c.monotone =>
         /\ DOMAIN c.pairs = PairsIn(g, P)
         /\ \A p \in PairsIn(g, P) : c.pairs[p] = Stat(g, PairNums(g, P, p))
         /\ DOMAIN c.prior = Repeated(g, P)
         /\ \A h \in Repeated(g, P) : c.prior[h] = Stat(g, EarlierIn(g, P, h))

\* A payment that comes after all of its pair.
Newer(g, P, x) == x \notin P /\ \A h \in P : PairOf(g, h) = PairOf(g, x) => h[1] < x[1]

\* What a payment of the pair p, after all of P's, makes of what P knows.
PairsGrown(g, P, Q, x, p) ==
    LET T == PairNums(g, P, p) IN
    /\ PairNums(g, Q, p) = T \cup {x[1]} /\ x[1] \notin T
    /\ T \in SUBSET (DOMAIN g) /\ IsFiniteSet(T)
    /\ \A q : q # p => PairNums(g, Q, q) = PairNums(g, P, q)
    /\ EarlierIn(g, Q, x) = T
    /\ \A h \in P : EarlierIn(g, Q, h) = EarlierIn(g, P, h)
    /\ p \in PairsIn(g, P) <=> T # {}
    /\ PairsIn(g, Q) = PairsIn(g, P) \cup {p}
    /\ Repeated(g, Q) = IF T = {} THEN Repeated(g, P) ELSE Repeated(g, P) \cup {x}

\* What a new payment changes.
LEMMA PairGrows ==
    ASSUME NEW g \in Logs, NEW P, IsFiniteSet(P), Payments(g, P), NEW x, Newer(g, P, x),
           NEW Q, Q = P \cup {x}, NEW p, p = PairOf(g, x), Payments(g, Q)
    PROVE  PairsGrown(g, P, Q, x, p)
<1>0. \A h \in Q : h[1] \in DOMAIN g /\ h[1] \in Nat
  <2>1. DOMAIN g \in SUBSET Nat
    BY DEF Logs
  <2>2. QED
    BY <2>1 DEF Payments
<1>1. PairNums(g, Q, p) = PairNums(g, P, p) \cup {x[1]}
  <2>1. OfPair(g, Q, p) = OfPair(g, P, p) \cup {x}
    BY DEF OfPair
  <2>2. QED
    BY <2>1 DEF PairNums
<1>2. \A n \in PairNums(g, P, p) : n < x[1] /\ n \in DOMAIN g
  BY <1>0 DEF PairNums, OfPair, Newer
<1>3. x[1] \notin PairNums(g, P, p)
  <2>1. x[1] \in Nat
    BY <1>0
  <2>2. ~(x[1] < x[1])
    BY <2>1
  <2>3. QED
    BY <1>2, <2>2
<1>4. IsFiniteSet(PairNums(g, P, p))
  <2> DEFINE f == [h \in OfPair(g, P, p) |-> h[1]]
  <2>1. f \in Surjection(OfPair(g, P, p), PairNums(g, P, p))
    BY DEF Surjection, PairNums
  <2>2. IsFiniteSet(OfPair(g, P, p))
    <3>1. OfPair(g, P, p) \in SUBSET P
      BY DEF OfPair
    <3>2. QED
      BY <3>1, FS_Subset
  <2> HIDE DEF f
  <2>3. QED
    BY <2>1, <2>2, FS_Surjection
<1>5. ASSUME NEW q, q # p PROVE PairNums(g, Q, q) = PairNums(g, P, q)
  <2>1. OfPair(g, Q, q) = OfPair(g, P, q)
    BY <1>5 DEF OfPair
  <2>2. QED
    BY <2>1 DEF PairNums
<1>6. EarlierIn(g, Q, x) = PairNums(g, P, p)
  <2>1. \A n \in PairNums(g, Q, p) : n < x[1] <=> n \in PairNums(g, P, p)
    <3>1. x[1] \in Nat
      BY <1>0
    <3>2. ~(x[1] < x[1])
      BY <3>1
    <3>3. QED
      BY <1>1, <1>2, <3>2
  <2>2. QED
    BY <1>1, <2>1 DEF EarlierIn
<1>7. ASSUME NEW h \in P PROVE EarlierIn(g, Q, h) = EarlierIn(g, P, h)
  <2>1. CASE PairOf(g, h) # p
    BY <1>5, <2>1 DEF EarlierIn
  <2>2. CASE PairOf(g, h) = p
    <3>1. h[1] < x[1] /\ h[1] \in Nat /\ x[1] \in Nat
      BY <1>0, <2>2 DEF Newer
    <3>2. ~(x[1] < h[1])
      BY <3>1
    <3>3. QED
      BY <1>1, <2>2, <3>2 DEF EarlierIn
  <2>3. QED
    BY <2>1, <2>2
<1>8. p \in PairsIn(g, P) <=> PairNums(g, P, p) # {}
  BY DEF PairsIn, PairNums, OfPair
<1>9. PairsIn(g, Q) = PairsIn(g, P) \cup {p}
  BY DEF PairsIn
<1>10. Repeated(g, Q) = IF PairNums(g, P, p) = {} THEN Repeated(g, P) ELSE Repeated(g, P) \cup {x}
  <2>1. Repeated(g, Q) = {h \in P : EarlierIn(g, P, h) # {}} \cup {h \in {x} : EarlierIn(g, Q, h) # {}}
    BY <1>7 DEF Repeated
  <2>2. QED
    BY <1>6, <2>1 DEF Repeated
<1>11. PairNums(g, P, p) \in SUBSET (DOMAIN g)
  BY <1>2
<1>12. QED
  BY <1>1, <1>3, <1>4, <1>5, <1>6, <1>7, <1>8, <1>9, <1>10, <1>11 DEF PairsGrown

\* One payment more.
LEMMA ChronNext ==
    ASSUME NEW g \in Logs, NEW P, IsFiniteSet(P), Payments(g, P), NEW x, Newer(g, P, x),
           NEW Q, Q = P \cup {x}, Payments(g, Q), NEW c, ChronIs(c, g, P),
           NEW next, next = ChronStep(g, c, x)
    PROVE  ChronIs(next, g, Q)
<1> DEFINE p == PairOf(g, x)
           T == PairNums(g, P, p)
           t == Time(g, x[1])
<1>1. /\ PairNums(g, Q, p) = T \cup {x[1]} /\ x[1] \notin T
      /\ T \in SUBSET (DOMAIN g) /\ IsFiniteSet(T)
      /\ \A q : q # p => PairNums(g, Q, q) = PairNums(g, P, q)
      /\ EarlierIn(g, Q, x) = T
      /\ \A h \in P : EarlierIn(g, Q, h) = EarlierIn(g, P, h)
      /\ p \in PairsIn(g, P) <=> T # {}
      /\ PairsIn(g, Q) = PairsIn(g, P) \cup {p}
      /\ Repeated(g, Q) = IF T = {} THEN Repeated(g, P) ELSE Repeated(g, P) \cup {x}
  <2>1. PairsGrown(g, P, Q, x, p)
    BY PairGrows
  <2>2. QED
    BY <2>1 DEF PairsGrown
<1>2. /\ c = [monotone |-> c.monotone, pairs |-> c.pairs, prior |-> c.prior]
      /\ c.monotone \in BOOLEAN
      /\ c.monotone <=> ~BackwardIn(g, P)
  BY DEF ChronIs
<1>3. /\ DOMAIN g \in SUBSET Nat
      /\ \A h \in Q : h[1] \in DOMAIN g /\ h[1] \in Nat /\ Time(g, h[1]) \in Nat
  <2>1. DOMAIN g \in SUBSET Nat
    BY DEF Logs
  <2>2. \A h \in Q : h[1] \in DOMAIN g
    BY DEF Payments
  <2>3. \A h \in Q : Time(g, h[1]) \in Nat
    BY <2>2, EntryKinds
  <2>4. QED
    BY <2>1, <2>2, <2>3
<1>4. BackwardIn(g, Q) <=> BackwardIn(g, P) \/ \E h \in P : PairOf(g, h) = p /\ t < Time(g, h[1])
  <2>1. ASSUME NEW h \in Q, NEW k \in Q, PairOf(g, h) = PairOf(g, k), h[1] < k[1], Time(g, k[1]) < Time(g, h[1])
        PROVE  BackwardIn(g, P) \/ \E z \in P : PairOf(g, z) = p /\ t < Time(g, z[1])
    <3>1. CASE h \in P /\ k \in P
      BY <2>1, <3>1 DEF BackwardIn
    <3>2. CASE h = x
      <4>1. ~(x[1] < x[1])
        BY <1>3
      <4>2. k \in P
        BY <2>1, <3>2, <4>1
      <4>3. k[1] < x[1] /\ k[1] \in Nat /\ x[1] \in Nat
        BY <1>3, <2>1, <3>2, <4>2 DEF Newer
      <4>4. QED
        BY <2>1, <3>2, <4>3
    <3>3. CASE h \in P /\ k = x
      BY <2>1, <3>3
    <3>4. QED
      BY <3>1, <3>2, <3>3
  <2>2. ASSUME NEW h \in P, PairOf(g, h) = p, t < Time(g, h[1]) PROVE BackwardIn(g, Q)
    <3>1. h[1] < x[1]
      BY <2>2 DEF Newer
    <3>2. QED
      BY <2>2, <3>1 DEF BackwardIn
  <2>3. BackwardIn(g, P) => BackwardIn(g, Q)
    BY DEF BackwardIn
  <2>4. QED
    BY <2>1, <2>2, <2>3 DEF BackwardIn
<1>5. CASE ~c.monotone
  <2>1. next = c
    BY <1>5 DEF ChronStep
  <2>2. BackwardIn(g, Q)
    BY <1>2, <1>4, <1>5
  <2>3. QED
    BY <1>2, <1>5, <2>1, <2>2 DEF ChronIs
<1>6. ASSUME c.monotone
      PROVE  /\ DOMAIN c.pairs = PairsIn(g, P)
             /\ \A q \in PairsIn(g, P) : c.pairs[q] = Stat(g, PairNums(g, P, q))
             /\ DOMAIN c.prior = Repeated(g, P)
             /\ \A h \in Repeated(g, P) : c.prior[h] = Stat(g, EarlierIn(g, P, h))
             /\ ~BackwardIn(g, P) /\ c.monotone = TRUE
  BY <1>6 DEF ChronIs
<1> DEFINE stat == Counts(g, c, x)
           pairs == More(c.pairs, p, stat)
           prior == More(c.prior, x, c.pairs[p])
<1>7. ASSUME c.monotone, stat = Stat(g, PairNums(g, Q, p))
      PROVE  /\ DOMAIN pairs = PairsIn(g, Q)
             /\ \A q \in PairsIn(g, Q) : pairs[q] = Stat(g, PairNums(g, Q, q))
  <2> HIDE DEF stat, p, T
  <2>1. DOMAIN pairs = PairsIn(g, P) \cup {p}
    BY <1>6, <1>7 DEF More
  <2>2. \A q \in PairsIn(g, P) \cup {p} : pairs[q] = IF q = p THEN stat ELSE c.pairs[q]
    BY <1>6, <1>7 DEF More
  <2> HIDE DEF pairs
  <2>3. QED
    BY <1>1, <1>6, <1>7, <2>1, <2>2
<1>8. ASSUME c.monotone, p \notin DOMAIN c.pairs PROVE ChronIs(next, g, Q)
  <2>1. T = {} /\ PairNums(g, Q, p) = {x[1]} /\ Repeated(g, Q) = Repeated(g, P)
    <3>1. T = {}
      BY <1>1, <1>6, <1>8
    <3>2. QED
      BY <1>1, <3>1
  <2>2. stat = Stat(g, PairNums(g, Q, p))
    <3>1. stat = [count |-> 1, first |-> t, last |-> t]
      BY <1>8 DEF Counts
    <3>2. Stat(g, {x[1]}) = [count |-> 1, first |-> t, last |-> t]
      BY <1>3, StatOne
    <3>3. QED
      BY <2>1, <3>1, <3>2
  <2>3. DOMAIN pairs = PairsIn(g, Q) /\ \A q \in PairsIn(g, Q) : pairs[q] = Stat(g, PairNums(g, Q, q))
    BY <1>7, <1>8, <2>2
  <2>4. ~BackwardIn(g, Q)
    <3>1. \A h \in P : PairOf(g, h) # p
      BY <1>6, <1>8 DEF PairsIn
    <3>2. QED
      BY <1>4, <1>6, <1>8, <3>1
  <2>5. \A h \in Repeated(g, Q) : EarlierIn(g, Q, h) = EarlierIn(g, P, h)
    BY <1>1, <2>1 DEF Repeated
  <2>6. next = [c EXCEPT !.pairs = pairs]
    BY <1>8 DEF ChronStep
  <2> HIDE DEF pairs, stat, p, T, t
  <2>7. next = [monotone |-> c.monotone, pairs |-> pairs, prior |-> c.prior]
    BY <1>2, <2>6
  <2>8. next.monotone = c.monotone /\ next.pairs = pairs /\ next.prior = c.prior
    BY <2>7
  <2>9. /\ DOMAIN c.prior = Repeated(g, Q)
        /\ \A h \in Repeated(g, Q) : c.prior[h] = Stat(g, EarlierIn(g, Q, h))
    BY <1>6, <1>8, <2>1, <2>5
  <2>10. QED
    BY <1>2, <1>8, <2>3, <2>4, <2>7, <2>8, <2>9 DEF ChronIs
<1>9. ASSUME c.monotone, p \in DOMAIN c.pairs
      PROVE  /\ T # {} /\ c.pairs[p] = Stat(g, T)
             /\ \A h \in P : PairOf(g, h) = p => h[1] \in T
             /\ \A n \in T : \E h \in P : PairOf(g, h) = p /\ h[1] = n
             /\ c.pairs[p].last \in Nat
             /\ \E n \in T : Time(g, n) = c.pairs[p].last
             /\ \A n \in T : Time(g, n) \in Nat /\ Time(g, n) <= c.pairs[p].last
  <2>1. T # {} /\ c.pairs[p] = Stat(g, T)
    BY <1>1, <1>6, <1>9
  <2>2. /\ \A h \in P : PairOf(g, h) = p => h[1] \in T
        /\ \A n \in T : \E h \in P : PairOf(g, h) = p /\ h[1] = n
    BY DEF PairNums, OfPair
  <2>3. /\ TimesAt(g, T) \in SUBSET Nat /\ Stat(g, T).last \in TimesAt(g, T)
        /\ \A n \in T : Time(g, n) <= Stat(g, T).last
    BY <1>1, <2>1, TimesOf
  <2>4. \A n \in T : Time(g, n) \in Nat
    BY <2>3 DEF TimesAt
  <2>5. \E n \in T : Time(g, n) = Stat(g, T).last
    BY <2>3 DEF TimesAt
  <2> HIDE DEF T, p
  <2>6. QED
    BY <2>1, <2>2, <2>3, <2>4, <2>5
<1>10. ASSUME c.monotone, p \in DOMAIN c.pairs, t < c.pairs[p].last PROVE ChronIs(next, g, Q)
  <2>1. next = [c EXCEPT !.monotone = FALSE]
    BY <1>10 DEF ChronStep
  <2>2. next = [monotone |-> FALSE, pairs |-> c.pairs, prior |-> c.prior]
    BY <1>2, <2>1
  <2>3. \E h \in P : PairOf(g, h) = p /\ t < Time(g, h[1])
    <3> HIDE DEF p, T, t
    <3>1. QED
      BY <1>9, <1>10
  <2>4. BackwardIn(g, Q)
    BY <1>4, <2>3
  <2>5. next.monotone = FALSE /\ next.pairs = c.pairs /\ next.prior = c.prior
    BY <2>2
  <2>6. QED
    BY <2>2, <2>4, <2>5 DEF ChronIs
<1>11. ASSUME c.monotone, p \in DOMAIN c.pairs, ~(t < c.pairs[p].last) PROVE ChronIs(next, g, Q)
  <2>1. T # {} /\ Repeated(g, Q) = Repeated(g, P) \cup {x} /\ c.pairs[p] = Stat(g, T)
    BY <1>1, <1>9, <1>11
  <2>2. stat = Stat(g, PairNums(g, Q, p))
    <3>1. stat = [count |-> c.pairs[p].count + 1, first |-> c.pairs[p].first, last |-> t]
      BY <1>11 DEF Counts
    <3>2. ~(t < Stat(g, T).last)
      BY <1>11, <2>1
    <3>3. Stat(g, PairNums(g, Q, p)) = [count |-> Stat(g, T).count + 1, first |-> Stat(g, T).first, last |-> t]
      <4> DEFINE y == x[1]
                 U == PairNums(g, Q, p)
      <4>1. /\ y \in DOMAIN g /\ y \notin T /\ U = T \cup {y}
            /\ T \in SUBSET (DOMAIN g) /\ T # {} /\ IsFiniteSet(T)
            /\ ~(Time(g, y) < Stat(g, T).last)
        BY <1>1, <1>3, <2>1, <3>2
      <4> HIDE DEF T, U, y
      <4>2. Stat(g, U) = [count |-> Stat(g, T).count + 1, first |-> Stat(g, T).first, last |-> Time(g, y)]
        BY <4>1, StatAdd
      <4>3. QED
        BY <4>2 DEF U, y
    <3>4. QED
      BY <2>1, <3>1, <3>3
  <2>3. DOMAIN pairs = PairsIn(g, Q) /\ \A q \in PairsIn(g, Q) : pairs[q] = Stat(g, PairNums(g, Q, q))
    BY <1>7, <1>11, <2>2
  <2>4. ~BackwardIn(g, Q)
    <3>1. \A h \in P : PairOf(g, h) = p => ~(t < Time(g, h[1]))
      <4>1. t \in Nat
        BY <1>3
      <4> HIDE DEF p, T, t
      <4>2. QED
        BY <1>9, <1>11, <4>1
    <3>2. QED
      BY <1>4, <1>6, <1>11, <3>1
  <2>5. next = [c EXCEPT !.prior = prior, !.pairs = pairs]
    BY <1>11 DEF ChronStep
  <2>6. x \notin P
    BY DEF Newer
  <2>7. \A h \in Repeated(g, P) : h \in P /\ h # x /\ EarlierIn(g, Q, h) = EarlierIn(g, P, h)
    BY <1>1, <2>6 DEF Repeated
  <2> HIDE DEF pairs, stat, T, p, t
  <2>8. DOMAIN prior = Repeated(g, Q) /\ \A h \in Repeated(g, Q) : prior[h] = Stat(g, EarlierIn(g, Q, h))
    <3>1. DOMAIN prior = Repeated(g, P) \cup {x}
      BY <1>6, <1>11 DEF More
    <3>2. \A h \in Repeated(g, P) \cup {x} : prior[h] = IF h = x THEN c.pairs[p] ELSE c.prior[h]
      BY <1>6, <1>11 DEF More
    <3> HIDE DEF prior
    <3>3. QED
      BY <1>1, <1>6, <1>11, <2>1, <2>7, <3>1, <3>2
  <2> HIDE DEF prior
  <2>9. next = [monotone |-> c.monotone, pairs |-> pairs, prior |-> prior]
    BY <1>2, <2>5
  <2>10. next.monotone = c.monotone /\ next.pairs = pairs /\ next.prior = prior
    BY <2>9
  <2>11. QED
    BY <1>2, <1>11, <2>3, <2>4, <2>8, <2>9, <2>10 DEF ChronIs
<1>12. QED
  BY <1>5, <1>8, <1>10, <1>11

\* The chronology of a history knows, of each payment, the earlier ones of its pair, unless
\* the clocks of a pair go back.
LEMMA ChronologyIs ==
    ASSUME NEW g \in Logs, NEW H, IsFiniteSet(H), Payments(g, H)
    PROVE  ChronIs(Chronology(g, H), g, H)
<1> DEFINE s == ByAge(H)
           n == Len(s)
           Upon(k) == {s[i] : i \in 1..k}
<1>1. InOrder(s, H, Sooner(H))
  BY ByAgeInOrder
<1>2. /\ n \in Nat /\ DOMAIN s = 1..n
      /\ \A i \in 1..n : s[i] \in H
      /\ \A i, j \in 1..n : i < j => <<s[i], s[j]>> \in Sooner(H)
      /\ \A i, j \in 1..n : s[i] = s[j] => i = j
      /\ Range(s) = H
  <2>1. n \in Nat
    <3>1. s \in Seq(H)
      BY <1>1 DEF InOrder
    <3> HIDE DEF s
    <3>2. QED
      BY <3>1
  <2>2. \A i \in DOMAIN s : s[i] \in H
    <3>1. s \in Seq(H)
      BY <1>1 DEF InOrder
    <3> HIDE DEF s
    <3>2. QED
      BY <3>1
  <2>3. QED
    BY <1>1, <2>1, <2>2 DEF InOrder
<1>3. Chronology(g, H) = ChronPass(g, s)
  BY ChronologyPass
<1> HIDE DEF s, n
<1>4. PICK v : ChronVia(g, s, n, v)
  BY <1>2, ChronRun
<1>5. /\ v[0] = NoChronicle /\ ChronPass(g, s) = v[n]
      /\ \A k \in 1..n : v[k] = ChronStep(g, v[k - 1], s[k])
  BY <1>4 DEF ChronVia
<1> DEFINE S == {k \in 0..n : ChronIs(v[k], g, Upon(k))}
<1>6. 0 \in S
  <2>1. Upon(0) = {}
    OBVIOUS
  <2>2. ChronIs(NoChronicle, g, {})
    <3>1. ~BackwardIn(g, {}) /\ PairsIn(g, {}) = {} /\ Repeated(g, {}) = {}
      BY DEF BackwardIn, PairsIn, Repeated
    <3>2. DOMAIN NoChronicle.pairs = {} /\ DOMAIN NoChronicle.prior = {}
      BY DEF NoChronicle
    <3>3. NoChronicle.monotone = TRUE
          /\ NoChronicle = [monotone |-> NoChronicle.monotone, pairs |-> NoChronicle.pairs, prior |-> NoChronicle.prior]
      BY DEF NoChronicle
    <3>4. QED
      BY <3>1, <3>2, <3>3 DEF ChronIs
  <2>3. 0 \in 0..n
    BY <1>2
  <2> HIDE DEF Upon
  <2>4. QED
    BY <1>5, <2>1, <2>2, <2>3
<1>7. ASSUME NEW k \in 0..(n - 1), k \in S PROVE k + 1 \in S
  <2> DEFINE x == s[k + 1]
             P == Upon(k)
             Q == Upon(k + 1)
  <2>1. k + 1 \in 1..n /\ k + 1 \in 0..n /\ (k + 1) - 1 = k /\ k \in Nat
    BY <1>2
  <2>2. v[k + 1] = ChronStep(g, v[k], x)
    BY <1>5, <2>1
  <2>3. Q = P \cup {x}
    <3>1. \A i : i \in 1..(k + 1) <=> i \in 1..k \/ i = k + 1
      BY <2>1
    <3>2. QED
      BY <3>1, Zenon
  <2>4. \A i \in 1..k : i \in 1..n /\ i < k + 1
    BY <1>2, <2>1
  <2>5. P \in SUBSET H /\ Q \in SUBSET H /\ x \in H
    <3>1. P \in SUBSET H
      BY <1>2, <2>4
    <3>2. x \in H
      BY <1>2, <2>1
    <3>3. QED
      BY <2>3, <3>1, <3>2
  <2>6. Newer(g, P, x)
    <3>1. ASSUME NEW i \in 1..k, PairOf(g, s[i]) = PairOf(g, x) PROVE s[i][1] < x[1]
      <4>1. <<s[i], x>> \in Sooner(H)
        BY <1>2, <2>1, <2>4
      <4>2. s[i][1] < x[1] \/ (s[i][1] = x[1] /\ Place(s[i]) > Place(x))
        BY <4>1 DEF Sooner
      <4>3. s[i][2] = x[2]
        BY <3>1 DEF PairOf
      <4>4. Place(s[i]) = Place(x)
        BY <4>3 DEF Place
      <4>5. CASE s[i][1] = x[1]
        <5>1. s[i] = x
          <6>1. s[i] \in H /\ x \in H
            BY <1>2, <2>1, <2>4
          <6>2. s[i] = <<s[i][1], s[i][2]>> /\ x = <<x[1], x[2]>>
            BY <6>1 DEF Payments
          <6>3. QED
            BY <4>3, <4>5, <6>2
        <5>2. i = k + 1
          BY <1>2, <2>1, <2>4, <5>1
        <5>3. QED
          BY <2>4, <5>2
      <4>6. QED
        BY <4>2, <4>5
    <3>2. x \notin P
      <4>1. \A i \in 1..k : s[i] # x
        <5>1. \A i \in 1..k : i # k + 1
          BY <2>1
        <5>2. QED
          BY <1>2, <2>1, <2>4, <5>1
      <4>2. QED
        BY <4>1
    <3>3. QED
      BY <3>1, <3>2 DEF Newer
  <2>7. ChronIs(v[k], g, P)
    BY <1>7
  <2>8. IsFiniteSet(P) /\ Payments(g, P) /\ Payments(g, Q)
    BY <2>5, FS_Subset DEF Payments
  <2> HIDE DEF P, Q, x
  <2>9. ChronIs(v[k + 1], g, Q)
    BY <2>2, <2>3, <2>6, <2>7, <2>8, ChronNext
  <2>10. QED
    BY <2>1, <2>9 DEF Q
<1>8. n \in S
  <2> HIDE DEF S
  <2>1. 0..n \subseteq S /\ n \in 0..n
    BY <1>2, <1>6, <1>7, UpTo
  <2>2. QED
    BY <2>1
<1>9. Upon(n) = H
  BY <1>2 DEF Range
<1>10. QED
  BY <1>3, <1>5, <1>8, <1>9

-------------------------------------------------------------------------------
(* The row of a request, by the plain definition of the queries.                           *)

Crowded(g, key, pool) ==
    \E rel \in Range(Relations) : Cardinality(VisibleHistory(g, key, rel)) > pool.max_history
Backward(g, key) ==
    \E rel \in Range(Relations) : \E p, n \in VisibleHistory(g, key, rel) :
      p < n /\ g[p].rail = g[n].rail /\ Peer(g, p, rel) = Peer(g, n, rel) /\ Time(g, n) < Time(g, p)
BadRoles(g, key) ==
    \E rel \in Range(Relations) : \E n \in VisibleHistory(g, key, rel) : InvalidRoles(g, n)
RefusedRow(status) == [status |-> status, messages |-> {}]
Seen(g, key) ==
    /\ FirstSeen(g, key.node) <= key.seq
    /\ Time(g, FirstSeen(g, key.node)) <= key.ts
    /\ key.node \in Accounts => InPhase(key, key.node)
PlainRow(g, key, pool) ==
    IF Crowded(g, key, pool) THEN RefusedRow("history_capacity_exceeded")
    ELSE IF key.node \in Accounts /\ Backward(g, key) THEN RefusedRow("nonmonotonic_pair_clock")
    ELSE IF BadRoles(g, key) THEN RefusedRow("invalid_payment_fields")
    ELSE [status |-> "ok", messages |-> ReferenceMessages(g, key, pool) \cup Associations(g, key, pool)]
RowOf(g, key, pool) ==
    IF ~Known(g, key.node) THEN RefusedRow("missing_entity")
    ELSE IF ~Seen(g, key) THEN RefusedRow("invisible_entity")
    ELSE PlainRow(g, key, pool)

\* The whole visible history of a context, by relations.
LEMMA HistoryPayments ==
    ASSUME NEW g \in Logs, NEW key, NEW H, H = HistoryOf(g, key, Range(Relations))
    PROVE  /\ IsFiniteSet(H) /\ Payments(g, H)
           /\ \A n, rel : <<n, rel>> \in H <=> rel \in Range(Relations) /\ n \in VisibleHistory(g, key, rel)
<1>1. \A h \in H : \E n, rel : h = <<n, rel>> /\ rel \in Range(Relations) /\ n \in VisibleHistory(g, key, rel)
  BY DEF HistoryOf
<1>2. \A n, rel : <<n, rel>> \in H <=> rel \in Range(Relations) /\ n \in VisibleHistory(g, key, rel)
  BY DEF HistoryOf
<1>3. \A rel, n : n \in VisibleHistory(g, key, rel) => n \in DOMAIN g
  BY DEF VisibleHistory, Incident
<1>4. Payments(g, H)
  BY <1>1, <1>3 DEF Payments
<1>5. IsFiniteSet(H)
  <2> DEFINE D == 1..Len(g)
             R == Range(Relations)
  <2>1. IsFiniteSet(D)
    <3>1. Len(g) \in Nat
      BY DEF Logs
    <3>2. QED
      BY <3>1, FS_Interval
  <2>2. IsFiniteSet(R)
    <3>1. Relations \in Surjection(1..4, R)
      <4>1. DOMAIN Relations = 1..4 /\ Relations = [i \in 1..4 |-> Relations[i]]
        BY DEF Relations
      <4>2. QED
        BY <4>1 DEF Surjection, Range
    <3>2. IsFiniteSet(1..4)
      <4> DEFINE m == 4
      <4>1. m \in Int
        OBVIOUS
      <4> HIDE DEF m
      <4>2. IsFiniteSet(1..m)
        BY <4>1, FS_Interval
      <4>3. QED
        BY <4>2 DEF m
    <3>3. QED
      BY <3>1, <3>2, FS_Surjection
  <2>3. H \in SUBSET (D \X R)
    <3>1. DOMAIN g = D
      BY DEF Logs
    <3> HIDE DEF D
    <3>2. QED
      BY <1>1, <1>3, <3>1
  <2> HIDE DEF D, R
  <2>4. IsFiniteSet(D \X R)
    BY <2>1, <2>2, FS_Product
  <2>5. QED
    BY <2>3, <2>4, FS_Subset
<1>6. QED
  BY <1>2, <1>4, <1>5

\* A chronology is refused exactly when the clocks of a pair go back.
LEMMA BackwardIs ==
    ASSUME NEW g \in Logs, NEW key, NEW H, H = HistoryOf(g, key, Range(Relations))
    PROVE  BackwardIn(g, H) <=> Backward(g, key)
<1>1. /\ Payments(g, H)
      /\ \A n, rel : <<n, rel>> \in H <=> rel \in Range(Relations) /\ n \in VisibleHistory(g, key, rel)
  BY HistoryPayments
<1>2. \A n, rel : PairOf(g, <<n, rel>>) = <<rel, g[n].rail, Peer(g, n, rel)>>
  BY DEF PairOf
<1>3. ASSUME NEW h \in H, NEW k \in H, PairOf(g, h) = PairOf(g, k), h[1] < k[1], Time(g, k[1]) < Time(g, h[1])
      PROVE  Backward(g, key)
  <2>1. h = <<h[1], h[2]>> /\ k = <<k[1], k[2]>>
    BY <1>1 DEF Payments
  <2>2. h[2] = k[2] /\ g[h[1]].rail = g[k[1]].rail /\ Peer(g, h[1], h[2]) = Peer(g, k[1], k[2])
    BY <1>3 DEF PairOf
  <2>3. /\ h[2] \in Range(Relations) /\ h[1] \in VisibleHistory(g, key, h[2])
        /\ k[1] \in VisibleHistory(g, key, h[2])
    BY <1>1, <2>1, <2>2
  <2>4. QED
    BY <1>3, <2>2, <2>3 DEF Backward
<1>4. ASSUME NEW rel \in Range(Relations), NEW p \in VisibleHistory(g, key, rel), NEW n \in VisibleHistory(g, key, rel),
             p < n, g[p].rail = g[n].rail, Peer(g, p, rel) = Peer(g, n, rel), Time(g, n) < Time(g, p)
      PROVE  BackwardIn(g, H)
  <2> DEFINE h == <<p, rel>>
             k == <<n, rel>>
  <2>1. h \in H /\ k \in H
    BY <1>1
  <2>2. PairOf(g, h) = PairOf(g, k)
    BY <1>2, <1>4
  <2>3. h[1] < k[1] /\ Time(g, k[1]) < Time(g, h[1])
    BY <1>4
  <2> HIDE DEF h, k
  <2>4. QED
    BY <2>1, <2>2, <2>3 DEF BackwardIn
<1>5. QED
  BY <1>3, <1>4 DEF Backward, BackwardIn

\* What the chronology knows of a payment is the earlier payments of its pair.
LEMMA EarlierIs ==
    ASSUME NEW g \in Logs, NEW key, key.node \in Accounts, ~Backward(g, key),
           NEW H, H = HistoryOf(g, key, Range(Relations)),
           NEW rel \in Range(Relations), NEW n \in VisibleHistory(g, key, rel)
    PROVE  EarlierIn(g, H, <<n, rel>>) = EarlierOfPair(g, key, rel, n)
<1>1. /\ Payments(g, H)
      /\ \A m, r : <<m, r>> \in H <=> r \in Range(Relations) /\ m \in VisibleHistory(g, key, r)
  BY HistoryPayments
<1> DEFINE p == PairOf(g, <<n, rel>>)
           V == VisibleHistory(g, key, rel)
<1>2. \A m : m \in PairNums(g, H, p) <=> m \in V /\ g[m].rail = g[n].rail /\ Peer(g, m, rel) = Peer(g, n, rel)
  <2>1. ASSUME NEW h \in H, PairOf(g, h) = p
        PROVE  h[1] \in V /\ g[h[1]].rail = g[n].rail /\ Peer(g, h[1], rel) = Peer(g, n, rel)
    <3>1. h[2] = rel /\ g[h[1]].rail = g[n].rail /\ Peer(g, h[1], h[2]) = Peer(g, n, rel)
      BY <2>1 DEF PairOf
    <3>2. h = <<h[1], h[2]>>
      BY <1>1 DEF Payments
    <3>3. QED
      BY <1>1, <3>1, <3>2
  <2>2. ASSUME NEW m \in V, g[m].rail = g[n].rail, Peer(g, m, rel) = Peer(g, n, rel)
        PROVE  m \in PairNums(g, H, p)
    <3> DEFINE h == <<m, rel>>
    <3>1. h \in H /\ PairOf(g, h) = p /\ h[1] = m
      BY <1>1, <2>2 DEF PairOf
    <3> HIDE DEF h, p
    <3>2. QED
      BY <3>1 DEF PairNums, OfPair
  <2>3. QED
    BY <2>1, <2>2 DEF PairNums, OfPair
<1>3. \A m \in V : m < n /\ g[m].rail = g[n].rail /\ Peer(g, m, rel) = Peer(g, n, rel) => Time(g, m) <= Time(g, n)
  <2>1. \A m \in V : Time(g, m) \in Nat
    <3>1. \A m \in V : m \in DOMAIN g
      BY DEF VisibleHistory, Incident
    <3>2. QED
      BY <3>1, EntryKinds
  <2>2. \A m \in V : m < n /\ g[m].rail = g[n].rail /\ Peer(g, m, rel) = Peer(g, n, rel) => ~(Time(g, n) < Time(g, m))
    BY DEF Backward
  <2>3. QED
    BY <2>1, <2>2
<1>4. EarlierIn(g, H, <<n, rel>>) = {m \in PairNums(g, H, p) : m < n}
  BY DEF EarlierIn
<1>5. EarlierOfPair(g, key, rel, n)
        = {m \in V : m < n /\ Time(g, m) <= Time(g, n) /\ g[m].rail = g[n].rail /\ Peer(g, m, rel) = Peer(g, n, rel)}
  BY DEF EarlierOfPair
<1> HIDE DEF p, V
<1>6. QED
  BY <1>2, <1>3, <1>4, <1>5

\* What is known of some earlier payments of a pair, and what a message at t says of it.
PriorOf(g, T) == IF T = {} THEN NoPrior ELSE Stat(g, T)
Said(g, T, t, prior) ==
    /\ prior.count = Cardinality(T)
    /\ (IF prior.count = 0 THEN t ELSE prior.first) = Min(TimesAt(g, T) \cup {t})
    /\ prior.last = Max(TimesAt(g, T) \cup {0})

\* What a message says of the earlier payments of the pair.
LEMMA PriorSaid ==
    ASSUME NEW g \in Logs, NEW T \in SUBSET (DOMAIN g), IsFiniteSet(T), NEW t \in Nat,
           \A n \in T : Time(g, n) <= t
    PROVE  Said(g, T, t, PriorOf(g, T))
<1> DEFINE prior == PriorOf(g, T)
<1>1. CASE T = {}
  <2>1. prior.count = 0 /\ prior.last = 0 /\ Cardinality(T) = 0 /\ TimesAt(g, T) = {}
    BY <1>1, FS_EmptySet DEF NoPrior, TimesAt, PriorOf
  <2>2. Min({t}) = t /\ Max({0}) = 0
    BY MinIs, MaxIs
  <2>3. QED
    BY <2>1, <2>2 DEF Said
<1>2. CASE T # {}
  <2> DEFINE S == TimesAt(g, T)
             low == Stat(g, T).first
             high == Stat(g, T).last
  <2>1. /\ S \in SUBSET Nat /\ low \in S /\ high \in S
        /\ Stat(g, T).count # 0 /\ prior = Stat(g, T)
    BY <1>2, TimesOf DEF PriorOf
  <2>2. \A k \in S : low <= k /\ k <= high
    BY <1>2, TimesOf DEF TimesAt
  <2>3. \A k \in S : k <= t
    BY DEF TimesAt
  <2>4. Stat(g, T).count = Cardinality(T)
    BY DEF Stat
  <2> HIDE DEF S, low, high
  <2>5. Min(S \cup {t}) = low
    <3> DEFINE Q == S \cup {t}
    <3>1. Q \in SUBSET Nat /\ low \in Q /\ \A k \in Q : low <= k
      BY <2>1, <2>2, <2>3
    <3> HIDE DEF Q
    <3>2. Min(Q) = low
      BY <3>1, MinIs
    <3>3. QED
      BY <3>2 DEF Q
  <2>6. Max(S \cup {0}) = high
    <3> DEFINE Q == S \cup {0}
    <3>1. Q \in SUBSET Nat /\ high \in Q /\ \A k \in Q : k <= high
      BY <2>1, <2>2
    <3> HIDE DEF Q
    <3>2. Max(Q) = high
      BY <3>1, MaxIs
    <3>3. QED
      BY <3>2 DEF Q
  <2>7. QED
    BY <2>1, <2>4, <2>5, <2>6 DEF S, low, high, Said
<1>3. QED
  BY <1>1, <1>2

\* The flow the rows tell is that of the reference.
LEMMA FlowIs ==
    ASSUME NEW g \in Logs, NEW key, key.node \in Nodes, NEW H, H = HistoryOf(g, key, Range(Relations)),
           NEW n, NEW rel
    PROVE  FlowOf(key, g, H, n, rel) = Flow(g, key, rel, n)
<1> DEFINE opposite == {h[1] : h \in {k \in H : (k[2] \in Outgoing) # (rel \in Outgoing)}}
           outs == UNION {VisibleHistory(g, key, r) : r \in {s \in Range(Relations) : (s \in Outgoing) = TRUE}}
           ins == UNION {VisibleHistory(g, key, r) : r \in {s \in Range(Relations) : (s \in Outgoing) = FALSE}}
           other == UNION {VisibleHistory(g, key, r) : r \in {s \in Range(Relations) : (s \in Outgoing) # (rel \in Outgoing)}}
           after(S) == {p \in S : p > n /\ Time(g, p) >= Time(g, n)}
           before(S) == {p \in S : p < n /\ Time(g, p) <= Time(g, n)}
<1>1. opposite = other
  <2>1. /\ Payments(g, H)
        /\ \A m, r : <<m, r>> \in H <=> r \in Range(Relations) /\ m \in VisibleHistory(g, key, r)
    BY HistoryPayments
  <2>2. ASSUME NEW h \in H, (h[2] \in Outgoing) # (rel \in Outgoing) PROVE h[1] \in other
    <3>1. h = <<h[1], h[2]>>
      BY <2>1 DEF Payments
    <3>2. h[2] \in Range(Relations) /\ h[1] \in VisibleHistory(g, key, h[2])
      BY <2>1, <3>1
    <3>3. QED
      BY <2>2, <3>2
  <2>3. ASSUME NEW r \in Range(Relations), (r \in Outgoing) # (rel \in Outgoing), NEW m \in VisibleHistory(g, key, r)
        PROVE  m \in opposite
    <3> DEFINE h == <<m, r>>
    <3>1. h \in H /\ h[1] = m /\ h[2] = r
      BY <2>1
    <3> HIDE DEF h
    <3>2. QED
      BY <2>3, <3>1
  <2>4. QED
    BY <2>2, <2>3
<1>2. key.node \in Tokens <=> key.node \notin Accounts
  BY GraphAssumption DEF Nodes
<1>3. FlowOf(key, g, H, n, rel)
        = LET found == IF rel \in Outgoing THEN before(opposite) ELSE after(opposite)
          IN CASE key.node \in Tokens \/ found = {} -> 0
               [] rel \in Outgoing /\ key.node \in Accounts /\ found # {} -> Max(found)
               [] OTHER -> Min(found)
  BY DEF FlowOf
<1>4. Flow(g, key, rel, n)
        = CASE key.node \in Accounts /\ rel \notin Outgoing /\ after(outs) # {} -> Min(after(outs))
            [] key.node \in Accounts /\ rel \in Outgoing /\ before(ins) # {} -> Max(before(ins))
            [] OTHER -> 0
  BY DEF Flow
<1>5. CASE rel \in Outgoing
  <2>1. ins = other
    BY <1>5
  <2> DEFINE found == before(other)
  <2>2. FlowOf(key, g, H, n, rel) = IF key.node \in Tokens \/ found = {} THEN 0 ELSE Max(found)
    <3>1. before(opposite) = found
      BY <1>1
    <3> HIDE DEF opposite, before, after, found
    <3>2. QED
      BY <1>2, <1>3, <1>5, <3>1
  <2>3. Flow(g, key, rel, n) = IF key.node \in Tokens \/ found = {} THEN 0 ELSE Max(found)
    <3>1. before(ins) = found
      BY <2>1
    <3> HIDE DEF outs, ins, before, after, found
    <3>2. QED
      BY <1>2, <1>4, <1>5, <3>1
  <2>4. QED
    BY <2>2, <2>3
<1>6. CASE rel \notin Outgoing
  <2>1. outs = other
    BY <1>6
  <2> DEFINE found == after(other)
  <2>2. FlowOf(key, g, H, n, rel) = IF key.node \in Tokens \/ found = {} THEN 0 ELSE Min(found)
    <3>1. after(opposite) = found
      BY <1>1
    <3> HIDE DEF opposite, before, after, found
    <3>2. QED
      BY <1>2, <1>3, <1>6, <3>1
  <2>3. Flow(g, key, rel, n) = IF key.node \in Tokens \/ found = {} THEN 0 ELSE Min(found)
    <3>1. after(outs) = found
      BY <2>1
    <3> HIDE DEF outs, ins, before, after, found
    <3>2. QED
      BY <1>2, <1>4, <1>6, <3>1
  <2>4. QED
    BY <2>2, <2>3
<1>7. QED
  BY <1>5, <1>6

\* What is stratified is visible.
LEMMA StratifyMembers ==
    ASSUME NEW g \in Logs, NEW key, NEW rel, NEW pool \in Pool, NEW s \in Stratify(g, key, rel, pool)
    PROVE  s[1] \in VisibleHistory(g, key, rel)
<1> DEFINE V == VisibleHistory(g, key, rel)
           ranked == Descending(V)
           n == Len(ranked)
           R == RecentRanks(ranked, pool)
           O == OlderRanks(ranked, pool)
           N == FirstOf(NewPeers(g, rel, ranked, R \cup O), pool.distinct)
<1>1. V \in SUBSET Nat /\ IsFiniteSet(V)
  BY HistoryFinite
<1>2. InOrder(ranked, V, Later(V))
  <2> HIDE DEF V
  <2>1. QED
    BY <1>1, DescendingInOrder
<1> HIDE DEF ranked, V
<1>3. n \in Nat /\ DOMAIN ranked = 1..n /\ \A i \in 1..n : ranked[i] \in V
  BY <1>2 DEF InOrder
<1>4. pool.recent \in Nat /\ pool.older \in Nat
  BY DEF Pool
<1>5. R \in SUBSET (1..n) /\ O \in SUBSET (1..n)
  <2> HIDE DEF n
  <2>1. Len(ranked) = n
    BY DEF n
  <2>2. QED
    BY <1>3, <1>4, <2>1, RecentRanksAre, OlderRanksAre
<1>6. N \in SUBSET (1..n)
  BY <1>3 DEF FirstOf, NewPeers
<1>7. Stratify(g, key, rel, pool) = SampledAt(ranked, R, O, N)
  BY StratifyIs DEF ThreeStrata, ranked, V
<1>8. \E i \in R \cup O \cup N : s[1] = ranked[i]
  <2> HIDE DEF R, O, N
  <2>1. QED
    BY <1>7 DEF SampledAt, Tagged
<1>9. QED
  BY <1>3, <1>5, <1>6, <1>8 DEF V

\* The earlier payments of a pair are visible payments, no later by either clock.
LEMMA EarlierFacts ==
    ASSUME NEW g \in Logs, NEW key, NEW rel, NEW n, NEW T, T = EarlierOfPair(g, key, rel, n)
    PROVE  T \in SUBSET (DOMAIN g) /\ IsFiniteSet(T) /\ \A p \in T : Time(g, p) <= Time(g, n)
<1> DEFINE other == [key EXCEPT !.node = g[n].from]
           r == IF rel \in Zelle THEN "zelle_out" ELSE "payment_out"
           A == VisibleHistory(g, key, rel)
           B == VisibleHistory(g, other, r)
<1>1. A \in SUBSET (DOMAIN g) /\ IsFiniteSet(A)
  BY HistoryFinite
<1>2. B \in SUBSET (DOMAIN g) /\ IsFiniteSet(B)
  BY HistoryFinite
<1>3. T \in SUBSET A \/ T \in SUBSET B
  BY DEF EarlierOfPair
<1>4. \A p \in T : Time(g, p) <= Time(g, n)
  BY DEF EarlierOfPair
<1> HIDE DEF A, B
<1>5. QED
  BY <1>1, <1>2, <1>3, <1>4, FS_Subset

\* What the scan of the sender's payments finds for a Token's payment is what the reference
\* counts, whatever else was sampled.
LEMMA PriorScanIs ==
    ASSUME NEW g \in Logs, NEW key \in Key, key.node \in Tokens, NEW acc, Exact(acc, g, key),
           NEW sampled, NEW candidates, candidates = PriorCandidates(g, sampled),
           NEW next, next = ScopeEvents(acc, g, key, candidates),
           NEW rel \in Range(Relations), NEW n \in VisibleHistory(g, key, rel), n \in sampled,
           NEW T, T = EarlierOfPair(g, key, rel, n)
    PROVE  PriorScan(next, g, candidates, n) = PriorOf(g, T)
<1> DEFINE other == [key EXCEPT !.node = g[n].from]
           r == IF rel \in Zelle THEN "zelle_out" ELSE "payment_out"
           W == VisibleHistory(g, other, r)
           prior == {p \in candidates \ next.blocked :
                       /\ g[p].from = g[n].from
                       /\ Recipient(g, p) = Recipient(g, n) /\ g[p].rail = g[n].rail
                       /\ p < n /\ Time(g, p) <= Time(g, n)}
<1>1. other.node = g[n].from /\ other.seq = key.seq /\ other.ts = key.ts
      /\ other.scoped = key.scoped /\ other.phase = key.phase
  BY DEF Key
<1>2. key.node \notin Accounts
  BY GraphAssumption
<1>3. /\ n \in DOMAIN g /\ IsPayment(g, n) /\ (g[n].rail = "zelle") = (rel \in Zelle)
      /\ n < key.seq /\ Time(g, n) <= key.ts
  BY DEF VisibleHistory, Incident, Before
<1>4. \A p \in candidates : p \in next.blocked <=> ~Showing(g, key, p)
  BY ScopeExact
<1>5. T = {p \in W : /\ p < n /\ Time(g, p) <= Time(g, n) /\ g[p].rail = g[n].rail
                     /\ Recipient(g, p) = Recipient(g, n)}
  BY <1>2 DEF EarlierOfPair
<1>6. r \in Outgoing /\ (r \in Zelle) = (rel \in Zelle)
  BY DEF Outgoing, Zelle
<1>7. ASSUME NEW p, p \in DOMAIN g, IsPayment(g, p), p < n, Time(g, p) <= Time(g, n), g[p].rail = g[n].rail
      PROVE  /\ p \in W <=> g[p].usd /\ g[p].from = g[n].from /\ Showing(g, key, p)
             /\ g[p].from = g[n].from => (p \in candidates <=> g[p].usd)
  <2>1. g[n].from \in Accounts /\ g[p].ftok \in Tokens \cup {None} /\ g[p].ftok \notin Accounts
    <3>1. g[n].from \in Accounts /\ g[p].ftok \in Tokens \cup {None}
      BY <1>3, <1>7, EntryKinds
    <3>2. QED
      BY <3>1, GraphAssumption DEF Nodes
  <2>2. Before(g, p, other)
    <3>1. p \in Nat /\ n \in Nat /\ key.seq \in Nat /\ key.ts \in Nat /\ Time(g, p) \in Nat /\ Time(g, n) \in Nat
      BY <1>3, <1>7, EntryKinds DEF Key
    <3>2. p < key.seq /\ Time(g, p) <= key.ts
      BY <1>3, <1>7, <3>1
    <3>3. QED
      BY <1>1, <3>2 DEF Before
  <2>3. p \in Incident(g, other.node, r) <=> g[p].from = g[n].from
    BY <1>1, <1>3, <1>6, <1>7, <2>1 DEF Incident
  <2>4. (\A a \in Endpoints(g, p) : InPhase(other, a)) <=> Showing(g, key, p)
    BY <1>1 DEF Showing, InPhase
  <2>5. p \in W <=> g[p].usd /\ g[p].from = g[n].from /\ Showing(g, key, p)
    <3> HIDE DEF other, r
    <3>1. QED
      BY <2>2, <2>3, <2>4 DEF VisibleHistory
  <2>6. QED
    BY <1>7, <2>5 DEF PriorCandidates
<1>8. prior = T
  <2>1. \A p \in candidates : p \in DOMAIN g /\ IsPayment(g, p)
    BY DEF PriorCandidates
  <2>2. \A p \in W : p \in DOMAIN g /\ IsPayment(g, p)
    BY DEF VisibleHistory, Incident
  <2> HIDE DEF W
  <2>3. \A p : p \in prior <=> p \in T
    BY <1>4, <1>5, <1>7, <2>1, <2>2
  <2> HIDE DEF prior
  <2>4. QED
    BY <2>3
<1>9. PriorScan(next, g, candidates, n) = IF prior = {} THEN NoPrior ELSE Stat(g, prior)
  BY DEF PriorScan, Stat, TimesAt
<1>10. QED
  BY <1>8, <1>9 DEF PriorOf

\* The reference's message of a stratified payment.
RefMessage(g, key, rel, n, stratum) ==
    [relation |-> rel, peer |-> Peer(g, n, rel), seq |-> n, ts |-> Time(g, n),
     stratum |-> stratum, prior |-> Cardinality(EarlierOfPair(g, key, rel, n)),
     first |-> Min(TimesAt(g, EarlierOfPair(g, key, rel, n)) \cup {Time(g, n)}),
     last |-> Max(TimesAt(g, EarlierOfPair(g, key, rel, n)) \cup {0}),
     flow |-> Flow(g, key, rel, n)]

\* The reference's messages, by the sampled events.
LEMMA ReferenceIs ==
    ASSUME NEW g, NEW key, NEW pool
    PROVE  ReferenceMessages(g, key, pool)
             = {RefMessage(g, key, e[2], e[1], e[3]) : e \in EventsOf(g, key, pool, Range(Relations))}
<1> DEFINE Of(rel) == {RefMessage(g, key, rel, s[1], s[2]) : s \in Stratify(g, key, rel, pool)}
           E == EventsOf(g, key, pool, Range(Relations))
<1>1. ReferenceMessages(g, key, pool) = UNION {Of(rel) : rel \in Range(Relations)}
  BY DEF ReferenceMessages, RefMessage, TimesAt
<1>2. ASSUME NEW rel \in Range(Relations), NEW s \in Stratify(g, key, rel, pool)
      PROVE  \E e \in E : RefMessage(g, key, rel, s[1], s[2]) = RefMessage(g, key, e[2], e[1], e[3])
  <2> DEFINE e == <<s[1], rel, s[2]>>
  <2>1. e \in E /\ e[1] = s[1] /\ e[2] = rel /\ e[3] = s[2]
    BY DEF EventsOf
  <2> HIDE DEF e, E
  <2>2. QED
    BY <2>1
<1>3. ASSUME NEW e \in E
      PROVE  \E rel \in Range(Relations) : \E s \in Stratify(g, key, rel, pool) :
               RefMessage(g, key, rel, s[1], s[2]) = RefMessage(g, key, e[2], e[1], e[3])
  <2>1. PICK rel \in Range(Relations) : \E s \in Stratify(g, key, rel, pool) : e = <<s[1], rel, s[2]>>
    BY DEF EventsOf
  <2>2. PICK s \in Stratify(g, key, rel, pool) : e = <<s[1], rel, s[2]>>
    BY <2>1
  <2>3. e[1] = s[1] /\ e[2] = rel /\ e[3] = s[2]
    BY <2>2
  <2>4. QED
    BY <2>3
<1> HIDE DEF E
<1>4. QED
  BY <1>1, <1>2, <1>3 DEF E

\* What a message is made of, once what is known of the pair is what the reference counts.
LEMMA MessageIs ==
    ASSUME NEW g \in Logs, NEW key \in Key, NEW scan, scan.history = HistoryOf(g, key, Range(Relations)),
           NEW e, NEW n, NEW rel, n = e[1], rel = e[2], n \in VisibleHistory(g, key, rel),
           NEW T, T = EarlierOfPair(g, key, rel, n),
           NEW prior, prior = PriorOf(g, T)
    PROVE  PaymentMessage(key, g, scan, e, prior) = RefMessage(g, key, e[2], e[1], e[3])
<1> DEFINE t == Time(g, n)
<1>1. T \in SUBSET (DOMAIN g) /\ IsFiniteSet(T) /\ \A p \in T : Time(g, p) <= t
  BY EarlierFacts
<1>2. t \in Nat
  <2>1. n \in DOMAIN g
    BY DEF VisibleHistory, Incident
  <2>2. QED
    BY <2>1, EntryKinds
<1>3. /\ prior.count = Cardinality(T)
      /\ (IF prior.count = 0 THEN t ELSE prior.first) = Min(TimesAt(g, T) \cup {t})
      /\ prior.last = Max(TimesAt(g, T) \cup {0})
  <2> HIDE DEF t
  <2>1. Said(g, T, t, prior)
    BY <1>1, <1>2, PriorSaid
  <2>2. QED
    BY <2>1 DEF Said
<1>4. FlowOf(key, g, scan.history, n, rel) = Flow(g, key, rel, n)
  <2>1. key.node \in Nodes
    BY DEF Key
  <2>2. QED
    BY <2>1, FlowIs
<1>5. PaymentMessage(key, g, scan, e, prior)
        = [relation |-> rel, peer |-> Peer(g, n, rel), seq |-> n, ts |-> t,
           stratum |-> e[3], prior |-> prior.count,
           first |-> IF prior.count = 0 THEN t ELSE prior.first,
           last |-> prior.last, flow |-> FlowOf(key, g, scan.history, n, rel)]
  BY DEF PaymentMessage
<1>6. RefMessage(g, key, e[2], e[1], e[3])
        = [relation |-> rel, peer |-> Peer(g, n, rel), seq |-> n, ts |-> t,
           stratum |-> e[3], prior |-> Cardinality(T),
           first |-> Min(TimesAt(g, T) \cup {t}),
           last |-> Max(TimesAt(g, T) \cup {0}), flow |-> Flow(g, key, rel, n)]
  BY DEF RefMessage
<1> HIDE DEF t
<1>7. QED
  BY <1>3, <1>4, <1>5, <1>6

\* What the query knows of an earlier payment: from the chronology for an account, from the
\* scan of the senders for a token.
KnownOf(g, key, scan, chronology, next, candidates, e) ==
    CASE key.node \in Tokens -> PriorScan(next, g, candidates, e[1])
      [] key.node \notin Tokens /\ <<e[1], e[2]>> \in DOMAIN chronology.prior ->
           chronology.prior[<<e[1], e[2]>>]
      [] OTHER -> NoPrior

\* What is known when the messages are made.
AtMessages(g, key, scan, chronology, candidates, next) ==
    /\ scan.history = HistoryOf(g, key, Range(Relations))
    /\ key.node \in Accounts => ~Backward(g, key)
    /\ Exact(scan.acc, g, key)
    /\ chronology = Chronology(g, scan.history)
    /\ key.node \in Tokens => candidates = PriorCandidates(g, {e[1] : e \in scan.events})
    /\ next = ScopeEvents(scan.acc, g, key, candidates)

\* The chronology of an account and the scan of the senders of a token's payments count the same
\* earlier payments of a pair as the reference.
LEMMA KnownIs ==
    ASSUME NEW g \in Logs, NEW key \in Key, NEW scan, NEW chronology, NEW candidates, NEW next,
           AtMessages(g, key, scan, chronology, candidates, next),
           NEW e \in scan.events, e[2] \in Range(Relations), e[1] \in VisibleHistory(g, key, e[2]),
           NEW T, T = EarlierOfPair(g, key, e[2], e[1])
    PROVE  KnownOf(g, key, scan, chronology, next, candidates, e) = PriorOf(g, T)
<1> USE DEF AtMessages
<1> DEFINE n == e[1]
           rel == e[2]
<1>1. CASE key.node \in Tokens
  <2> DEFINE sampled == {d[1] : d \in scan.events}
  <2>1. n \in sampled
    OBVIOUS
  <2> HIDE DEF n, rel, sampled
  <2>2. PriorScan(next, g, candidates, n) = PriorOf(g, T)
    BY <1>1, <2>1, PriorScanIs DEF n, rel, sampled
  <2>3. QED
    BY <1>1, <2>2 DEF KnownOf, n
<1>2. CASE key.node \in Accounts
  <2> DEFINE H == HistoryOf(g, key, Range(Relations))
             h == <<n, rel>>
  <2>1. /\ IsFiniteSet(H) /\ Payments(g, H)
        /\ h \in H
    BY HistoryPayments
  <2>2. ChronIs(chronology, g, H)
    <3> HIDE DEF H
    <3>1. chronology = Chronology(g, H)
      BY DEF H
    <3>2. QED
      BY <2>1, <3>1, ChronologyIs
  <2>3. ~BackwardIn(g, H)
    BY <1>2, BackwardIs
  <2>4. EarlierIn(g, H, h) = T
    BY <1>2, EarlierIs
  <2> HIDE DEF H, h
  <2>5. /\ DOMAIN chronology.prior = Repeated(g, H)
        /\ \A k \in Repeated(g, H) : chronology.prior[k] = Stat(g, EarlierIn(g, H, k))
    BY <2>2, <2>3 DEF ChronIs
  <2>6. h \in Repeated(g, H) <=> T # {}
    BY <2>1, <2>4 DEF Repeated
  <2>7. key.node \notin Tokens
    BY <1>2, GraphAssumption
  <2>8. KnownOf(g, key, scan, chronology, next, candidates, e)
          = IF h \in DOMAIN chronology.prior THEN chronology.prior[h] ELSE NoPrior
    BY <2>7 DEF KnownOf, h
  <2>9. QED
    BY <2>4, <2>5, <2>6, <2>8 DEF PriorOf
<1>3. QED
  BY <1>1, <1>2 DEF Key, Nodes

\* The row that follows the scans.
LEMMA AfterScansRow ==
    ASSUME NEW g \in Logs, NEW key \in Key, NEW pool \in Pool,
           NEW scan, ScanIs(scan, g, key, pool, Range(Relations))
    PROVE  /\ AfterScans(scan, g, key, pool).row = PlainRow(g, key, pool)
           /\ Exact(AfterScans(scan, g, key, pool).acc, g, key)
<1> DEFINE chronology == Chronology(g, scan.history)
           candidates == IF key.node \in Accounts THEN {}
                         ELSE PriorCandidates(g, {e[1] : e \in scan.events})
           priorAcc == ScopeEvents(scan.acc, g, key, candidates)
           said == {PaymentMessage(key, g, scan, e, KnownOf(g, key, scan, chronology, priorAcc, candidates, e)) :
                      e \in scan.events}
           messages == said \cup Associations(g, key, pool)
           answer == AfterScans(scan, g, key, pool)
           H == HistoryOf(g, key, Range(Relations))
<1>0. /\ key.node \in Accounts \/ key.node \in Tokens
      /\ key.node \in Accounts => key.node \notin Tokens
  BY GraphAssumption DEF Key, Nodes
<1>1. answer =
        CASE scan.status # "ok" -> Refused(scan.status, scan.acc)
          [] scan.status = "ok" /\ key.node \in Accounts /\ ~chronology.monotone ->
               Refused("nonmonotonic_pair_clock", scan.acc)
          [] scan.status = "ok" /\ (key.node \in Accounts => chronology.monotone) /\ scan.invalid ->
               Refused("invalid_payment_fields", scan.acc)
          [] OTHER -> [acc |-> priorAcc, row |-> [status |-> "ok", messages |-> messages]]
  BY DEF AfterScans, KnownOf
<1>2. /\ Exact(scan.acc, g, key)
      /\ scan.status = IF Crowded(g, key, pool) THEN "history_capacity_exceeded" ELSE "ok"
      /\ ~Crowded(g, key, pool) =>
           /\ scan.invalid <=> BadRoles(g, key)
           /\ scan.history = H
           /\ scan.events = EventsOf(g, key, pool, Range(Relations))
  <2>1. Crowding(g, key, pool, Range(Relations)) <=> Crowded(g, key, pool)
    BY DEF Crowding, Crowded
  <2>2. Misroled(g, key, Range(Relations)) <=> BadRoles(g, key)
    BY DEF Misroled, BadRoles
  <2>3. QED
    BY <2>1, <2>2 DEF ScanIs
<1>3. Exact(priorAcc, g, key)
  <2> HIDE DEF candidates
  <2>1. QED
    BY <1>2, ScopeExact
<1>4. ~Crowded(g, key, pool) => (chronology.monotone <=> ~Backward(g, key))
  <2>1. IsFiniteSet(H) /\ Payments(g, H)
    BY HistoryPayments
  <2>2. ChronIs(Chronology(g, H), g, H)
    <3> HIDE DEF H
    <3>1. QED
      BY <2>1, ChronologyIs
  <2>3. BackwardIn(g, H) <=> Backward(g, key)
    BY BackwardIs
  <2> HIDE DEF H
  <2>4. QED
    BY <1>2, <2>2, <2>3 DEF ChronIs
<1>5. ASSUME ~Crowded(g, key, pool), key.node \in Accounts => ~Backward(g, key)
      PROVE  said = ReferenceMessages(g, key, pool)
  <2> DEFINE E == EventsOf(g, key, pool, Range(Relations))
  <2>1. scan.events = E /\ scan.history = HistoryOf(g, key, Range(Relations))
    BY <1>2, <1>5
  <2>2. \A e \in E : e[2] \in Range(Relations) /\ e[1] \in VisibleHistory(g, key, e[2])
    <3>1. ASSUME NEW e \in E PROVE e[2] \in Range(Relations) /\ e[1] \in VisibleHistory(g, key, e[2])
      <4>1. PICK rel \in Range(Relations) : \E s \in Stratify(g, key, rel, pool) : e = <<s[1], rel, s[2]>>
        BY DEF EventsOf
      <4>2. PICK s \in Stratify(g, key, rel, pool) : e = <<s[1], rel, s[2]>>
        BY <4>1
      <4>3. s[1] \in VisibleHistory(g, key, rel)
        BY StratifyMembers
      <4>4. e[1] = s[1] /\ e[2] = rel
        BY <4>2
      <4>5. QED
        BY <4>3, <4>4
    <3>2. QED
      BY <3>1
  <2> HIDE DEF E
  <2>3. key.node \in Tokens => candidates = PriorCandidates(g, {e[1] : e \in scan.events})
    BY <1>0
  <2> HIDE DEF candidates, chronology, priorAcc
  <2>4. ASSUME NEW e \in E
        PROVE  PaymentMessage(key, g, scan, e, KnownOf(g, key, scan, chronology, priorAcc, candidates, e))
                 = RefMessage(g, key, e[2], e[1], e[3])
    <3> DEFINE T == EarlierOfPair(g, key, e[2], e[1])
               prior == KnownOf(g, key, scan, chronology, priorAcc, candidates, e)
    <3>1. e \in scan.events /\ e[2] \in Range(Relations) /\ e[1] \in VisibleHistory(g, key, e[2])
      BY <2>1, <2>2
    <3>2. prior = PriorOf(g, T)
      <4>1. chronology = Chronology(g, scan.history) /\ priorAcc = ScopeEvents(scan.acc, g, key, candidates)
        BY DEF chronology, priorAcc
      <4>2. AtMessages(g, key, scan, chronology, candidates, priorAcc)
        BY <1>2, <1>5, <2>1, <2>3, <4>1 DEF AtMessages
      <4>3. T = EarlierOfPair(g, key, e[2], e[1])
        OBVIOUS
      <4> HIDE DEF T
      <4>4. QED
        BY <3>1, <4>2, <4>3, KnownIs
    <3> HIDE DEF T, prior
    <3>3. T = EarlierOfPair(g, key, e[2], e[1])
      BY DEF T
    <3>4. PaymentMessage(key, g, scan, e, prior) = RefMessage(g, key, e[2], e[1], e[3])
      BY <2>1, <3>1, <3>2, <3>3, MessageIs
    <3>5. QED
      BY <3>4 DEF prior
  <2>5. ReferenceMessages(g, key, pool) = {RefMessage(g, key, e[2], e[1], e[3]) : e \in E}
    BY ReferenceIs DEF E
  <2>6. said = {RefMessage(g, key, e[2], e[1], e[3]) : e \in E}
    BY <2>1, <2>4
  <2>7. QED
    BY <2>5, <2>6
<1> HIDE DEF chronology, candidates, priorAcc, said, H, answer
<1>6. \A status : Refused(status, scan.acc).row = RefusedRow(status) /\ Refused(status, scan.acc).acc = scan.acc
  BY DEF Refused, RefusedRow
<1>7. CASE Crowded(g, key, pool)
  <2>1. answer = Refused("history_capacity_exceeded", scan.acc)
    BY <1>1, <1>2, <1>7
  <2>2. QED
    BY <1>2, <1>6, <1>7, <2>1 DEF PlainRow, answer
<1>8. CASE ~Crowded(g, key, pool) /\ key.node \in Accounts /\ Backward(g, key)
  <2>1. answer = Refused("nonmonotonic_pair_clock", scan.acc)
    BY <1>1, <1>2, <1>4, <1>8
  <2>2. QED
    BY <1>2, <1>6, <1>8, <2>1 DEF PlainRow, answer
<1>9. CASE ~Crowded(g, key, pool) /\ ~(key.node \in Accounts /\ Backward(g, key)) /\ BadRoles(g, key)
  <2>1. answer = Refused("invalid_payment_fields", scan.acc)
    BY <1>1, <1>2, <1>4, <1>9
  <2>2. QED
    BY <1>2, <1>6, <1>9, <2>1 DEF PlainRow, answer
<1>10. CASE ~Crowded(g, key, pool) /\ ~(key.node \in Accounts /\ Backward(g, key)) /\ ~BadRoles(g, key)
  <2>1. said = ReferenceMessages(g, key, pool)
    BY <1>5, <1>10
  <2>2. answer = [acc |-> priorAcc, row |-> [status |-> "ok", messages |-> messages]]
    <3> HIDE DEF messages
    <3>1. QED
      BY <1>1, <1>2, <1>4, <1>10
  <2>3. answer.acc = priorAcc /\ answer.row = [status |-> "ok", messages |-> messages]
    BY <2>2
  <2>4. QED
    BY <1>3, <1>10, <2>1, <2>3 DEF PlainRow, answer
<1>11. QED
  BY <1>7, <1>8, <1>9, <1>10 DEF answer

\* The answer to a request, whatever earlier requests of the call left behind.
LEMMA AnswerRow ==
    ASSUME NEW g \in Logs, NEW key \in Key, NEW pool \in Pool, NEW acc, Exact(acc, g, key)
    PROVE  /\ Answer(g, key, pool, acc).row = RowOf(g, key, pool)
           /\ Exact(Answer(g, key, pool, acc).acc, g, key)
<1> DEFINE scan == Scanned(acc, g, key, pool)
           after == AfterScans(scan, g, key, pool)
           answer == Answer(g, key, pool, acc)
           late == \/ FirstSeen(g, key.node) > key.seq
                   \/ Time(g, FirstSeen(g, key.node)) > key.ts
                   \/ key.node \in Accounts /\ ~InPhase(key, key.node)
<1>1. after.row = PlainRow(g, key, pool) /\ Exact(after.acc, g, key)
  <2>1. ScanIs(scan, g, key, pool, Range(Relations))
    BY ScannedIs
  <2> HIDE DEF scan
  <2>2. QED
    BY <2>1, AfterScansRow
<1>2. answer = CASE ~Known(g, key.node) -> Refused("missing_entity", acc)
                 [] Known(g, key.node) /\ late -> Refused("invisible_entity", acc)
                 [] OTHER -> after
  BY DEF Answer
<1>3. \A status : Refused(status, acc).row = RefusedRow(status) /\ Refused(status, acc).acc = acc
  BY DEF Refused, RefusedRow
<1>4. Known(g, key.node) => (late <=> ~Seen(g, key))
  <2>1. ASSUME Known(g, key.node)
        PROVE  FirstSeen(g, key.node) \in Nat /\ Time(g, FirstSeen(g, key.node)) \in Nat
    <3>1. FirstSeen(g, key.node) \in DOMAIN g
      BY <2>1, FirstIs
    <3>2. QED
      BY <3>1, EntryKinds
  <2>2. key.seq \in Nat /\ key.ts \in Nat
    BY DEF Key
  <2>3. QED
    BY <2>1, <2>2 DEF Seen
<1> HIDE DEF after, answer, late
<1>5. CASE ~Known(g, key.node)
  BY <1>2, <1>3, <1>5 DEF RowOf, answer
<1>6. CASE Known(g, key.node) /\ ~Seen(g, key)
  <2>1. answer = Refused("invisible_entity", acc)
    BY <1>2, <1>4, <1>6
  <2>2. QED
    BY <1>3, <1>6, <2>1 DEF RowOf, answer
<1>7. CASE Known(g, key.node) /\ Seen(g, key)
  <2>1. answer = after
    BY <1>2, <1>4, <1>7
  <2>2. QED
    BY <1>1, <1>7, <2>1 DEF RowOf, answer
<1>8. QED
  BY <1>5, <1>6, <1>7

\* Accumulators that are exact for one key are exact for another key of the view.
LEMMA ExactEach ==
    ASSUME NEW acc, NEW g, NEW key, NEW other, key.scoped = other.scoped, key.phase = other.phase,
           Exact(acc, g, key)
    PROVE  Exact(acc, g, other)
<1>1. \A a : InPhase(key, a) <=> InPhase(other, a)
  BY DEF InPhase
<1>2. Allows(acc, other)
  BY AllowsEach DEF Exact
<1>3. QED
  BY <1>1, <1>2 DEF Exact, Showing

\* Every row of a call is the answer to its request alone.
LEMMA CallRowOf ==
    ASSUME NEW g \in Logs, NEW keys, NEW n \in Nat, DOMAIN keys = 1..n, SameView(keys),
           \A i \in 1..n : keys[i] \in Key, NEW pool \in Pool
    PROVE  \A i \in 1..n : Call(g, keys, pool).rows[i] = RowOf(g, keys[i], pool)
<1>0. PICK v : CallRun(v, g, keys, pool, n)
  BY CallSteps
<1>1. /\ v[0] = [rows |-> <<>>, acc |-> Catalog(keys)]
      /\ \A k \in 1..n : v[k] = CallStep(g, pool, v[k - 1], keys[k])
      /\ Call(g, keys, pool) = v[n]
  BY <1>0 DEF CallRun
<1> DEFINE all == {RowOf(g, keys[k], pool) : k \in 1..n}
           Good(k) == /\ v[k].rows \in Seq(all) /\ Len(v[k].rows) = k
                      /\ \A i \in 1..k : v[k].rows[i] = RowOf(g, keys[i], pool)
                      /\ \A i \in 1..n : Exact(v[k].acc, g, keys[i])
           S == {k \in 0..n : Good(k)}
<1>2. Good(0)
  <2>1. v[0].rows = <<>> /\ v[0].acc = Catalog(keys)
    BY <1>1
  <2>2. <<>> \in Seq(all) /\ Len(<<>>) = 0
    OBVIOUS
  <2>3. ASSUME NEW i \in 1..n PROVE Exact(Catalog(keys), g, keys[i])
    <3> DEFINE seen == {a \in Accounts : \E j \in DOMAIN keys : keys[j].node = a /\ InPhase(keys[j], a)}
    <3>1. \E senders : Catalog(keys) = [checked |-> {}, allowed |-> seen, blocked |-> {},
                                        senders |-> senders]
      <4>1. Catalog(keys) = [NoAccumulators EXCEPT !.allowed = seen]
        BY DEF Catalog
      <4> HIDE DEF seen
      <4>2. QED
        BY <4>1 DEF NoAccumulators
    <3>2. \A a \in seen : InPhase(keys[i], a)
      BY DEF InPhase, SameView
    <3> HIDE DEF seen
    <3>3. QED
      BY <3>1, <3>2 DEF Exact, Allows
  <2> HIDE DEF all
  <2>4. QED
    BY <2>1, <2>2, <2>3
<1>3. ASSUME NEW k \in 0..(n - 1), Good(k) PROVE Good(k + 1)
  <2> DEFINE next == Answer(g, keys[k + 1], pool, v[k].acc)
  <2>1. k + 1 \in 1..n /\ (k + 1) - 1 = k /\ k \in Nat
    OBVIOUS
  <2>2. RowOf(g, keys[k + 1], pool) \in all
    BY <2>1
  <2> HIDE DEF all
  <2>3. /\ v[k].rows \in Seq(all) /\ Len(v[k].rows) = k
        /\ \A i \in 1..n : Exact(v[k].acc, g, keys[i])
        /\ \A i \in 1..k : v[k].rows[i] = RowOf(g, keys[i], pool)
    BY <1>3
  <2>4. next.row = RowOf(g, keys[k + 1], pool) /\ Exact(next.acc, g, keys[k + 1])
    <3> HIDE DEF Good
    <3>1. QED
      BY <2>1, <2>3, AnswerRow
  <2> HIDE DEF next, Good
  <2>5. v[k + 1].rows = Append(v[k].rows, next.row) /\ v[k + 1].acc = next.acc
    <3>1. v[k + 1] = CallStep(g, pool, v[k], keys[k + 1])
      BY <1>1, <2>1
    <3>2. QED
      BY <3>1 DEF CallStep, next
  <2>6. \A i \in 1..n : Exact(next.acc, g, keys[i])
    BY <2>1, <2>4, ExactEach DEF SameView
  <2>7. /\ v[k + 1].rows \in Seq(all) /\ Len(v[k + 1].rows) = k + 1
        /\ \A i \in 1..k : v[k + 1].rows[i] = v[k].rows[i]
        /\ v[k + 1].rows[k + 1] = next.row
    <3> DEFINE s == v[k].rows
               x == next.row
    <3>1. s \in Seq(all) /\ x \in all /\ Len(s) = k /\ v[k + 1].rows = Append(s, x)
      BY <2>2, <2>3, <2>4, <2>5
    <3> HIDE DEF s, x
    <3>2. Append(s, x) \in Seq(all) /\ Len(Append(s, x)) = k + 1
          /\ (\A i \in 1..k : Append(s, x)[i] = s[i]) /\ Append(s, x)[k + 1] = x
      BY <3>1, <2>1
    <3>3. QED
      BY <3>1, <3>2 DEF s, x
  <2>8. \A i \in 1..(k + 1) : i \in 1..k \/ i = k + 1
    BY <2>1
  <2>9. QED
    BY <2>3, <2>4, <2>5, <2>6, <2>7, <2>8 DEF Good
<1> HIDE DEF Good
<1>4. 0 \in S /\ \A k \in 0..(n - 1) : k \in S => k + 1 \in S
  <2>1. \A k \in 0..(n - 1) : k + 1 \in 0..n
    OBVIOUS
  <2>2. QED
    BY <1>2, <1>3, <2>1
<1> HIDE DEF S
<1>5. 0..n \subseteq S
  BY <1>4, UpTo
<1>6. Good(n)
  BY <1>5 DEF S
<1>7. QED
  BY <1>1, <1>6 DEF Good

-------------------------------------------------------------------------------
(* Two graphs that agree before a cutoff on what the view of a context shows.              *)

\* An entry that says nothing to the view: one left out, or of an account of a later partition.
Unseen(g, key, n) ==
    g[n].op = "hidden" \/ \E a \in Accounts \cap Mentioned(g[n]) : ~InPhase(key, a)

Alike(g, h, key, n) ==
    /\ Mentioned(g[n]) = Mentioned(h[n]) /\ Time(g, n) = Time(h, n)
    /\ g[n] = h[n] \/ (Unseen(g, key, n) /\ Unseen(h, key, n))

Agree(g, h, key) ==
    \A n \in Nat : n < key.seq =>
      /\ n \in DOMAIN g <=> n \in DOMAIN h
      /\ n \in DOMAIN g => Alike(g, h, key, n)

\* The contexts of one cutoff and view.
SameCutoff(key, other) ==
    other.seq = key.seq /\ other.ts = key.ts /\ other.scoped = key.scoped /\ other.phase = key.phase

\* Agreement goes both ways, and is that of all contexts of the cutoff and view.
LEMMA AgreeBoth ==
    ASSUME NEW g, NEW h, NEW key, Agree(g, h, key), NEW other, SameCutoff(key, other)
    PROVE  Agree(h, g, key) /\ Agree(g, h, other)
<1>1. \A a : InPhase(key, a) <=> InPhase(other, a)
  BY DEF InPhase, SameCutoff
<1>2. ASSUME NEW n \in Nat, n < key.seq
      PROVE  /\ n \in DOMAIN h <=> n \in DOMAIN g
             /\ n \in DOMAIN h => Alike(h, g, key, n)
  <2>1. /\ n \in DOMAIN h <=> n \in DOMAIN g
        /\ n \in DOMAIN g => Alike(g, h, key, n)
    BY <1>2 DEF Agree
  <2>2. Alike(g, h, key, n) => Alike(h, g, key, n)
    BY DEF Alike
  <2>3. QED
    BY <2>1, <2>2
<1>3. ASSUME NEW n \in Nat, n < other.seq
      PROVE  /\ n \in DOMAIN g <=> n \in DOMAIN h
             /\ n \in DOMAIN g => Alike(g, h, other, n)
  <2>1. n < key.seq
    BY <1>3 DEF SameCutoff
  <2>2. /\ n \in DOMAIN g <=> n \in DOMAIN h
        /\ n \in DOMAIN g => Alike(g, h, key, n)
    BY <2>1 DEF Agree
  <2>3. \A f : Unseen(f, key, n) <=> Unseen(f, other, n)
    BY <1>1 DEF Unseen
  <2>4. Alike(g, h, key, n) => Alike(g, h, other, n)
    BY <2>3 DEF Alike
  <2>5. QED
    BY <2>2, <2>4
<1>4. QED
  BY <1>2, <1>3 DEF Agree

\* An entry whose accounts the view shows is the same in both.
LEMMA SameEntry ==
    ASSUME NEW g \in Logs, NEW h \in Logs, NEW key, Agree(g, h, key),
           NEW n \in DOMAIN g, n < key.seq, ~Unseen(g, key, n)
    PROVE  n \in DOMAIN h /\ g[n] = h[n] /\ Time(g, n) = Time(h, n)
<1>1. n \in Nat
  BY EntryKinds
<1>2. n \in DOMAIN h /\ Alike(g, h, key, n)
  BY <1>1 DEF Agree
<1>3. QED
  BY <1>2 DEF Alike

\* What one of them shows of a history, the other shows.
LEMMA HistoryShown ==
    ASSUME NEW g \in Logs, NEW h \in Logs, NEW key, Agree(g, h, key), NEW rel,
           NEW n \in VisibleHistory(g, key, rel)
    PROVE  n \in VisibleHistory(h, key, rel) /\ n \in DOMAIN g /\ g[n] = h[n] /\ Time(g, n) = Time(h, n)
<1>1. /\ n \in Incident(g, key.node, rel) /\ Before(g, n, key) /\ g[n].usd
      /\ \A a \in Endpoints(g, n) : InPhase(key, a)
  BY DEF VisibleHistory
<1>2. n \in DOMAIN g /\ IsPayment(g, n) /\ n < key.seq
  BY <1>1 DEF Incident, Before
<1>3. ~Unseen(g, key, n)
  <2>1. Accounts \cap Mentioned(g[n]) = Endpoints(g, n) /\ g[n].op # "hidden"
    BY <1>2, EntryKinds DEF IsPayment
  <2>2. QED
    BY <1>1, <2>1 DEF Unseen
<1>4. n \in DOMAIN h /\ g[n] = h[n] /\ Time(g, n) = Time(h, n)
  BY <1>2, <1>3, SameEntry
<1>5. n \in Incident(h, key.node, rel)
  BY <1>1, <1>4 DEF Incident, IsPayment
<1>6. Before(h, n, key) /\ Endpoints(h, n) = Endpoints(g, n)
  BY <1>1, <1>4 DEF Before, Endpoints
<1>7. QED
  BY <1>1, <1>2, <1>4, <1>5, <1>6 DEF VisibleHistory

\* The visible history of any context of the cutoff and view is the same.
LEMMA SameHistory ==
    ASSUME NEW g \in Logs, NEW h \in Logs, NEW key, Agree(g, h, key),
           NEW other, SameCutoff(key, other), NEW rel
    PROVE  /\ VisibleHistory(g, other, rel) = VisibleHistory(h, other, rel)
           /\ \A n \in VisibleHistory(g, other, rel) :
                n \in DOMAIN g /\ n \in DOMAIN h /\ g[n] = h[n] /\ Time(g, n) = Time(h, n)
<1>1. Agree(g, h, other) /\ Agree(h, g, other)
  <2>1. Agree(g, h, other)
    BY AgreeBoth
  <2>2. SameCutoff(other, other)
    BY DEF SameCutoff
  <2>3. QED
    BY <2>1, <2>2, AgreeBoth
<1>2. \A n \in VisibleHistory(g, other, rel) :
        n \in VisibleHistory(h, other, rel) /\ n \in DOMAIN g /\ g[n] = h[n] /\ Time(g, n) = Time(h, n)
  BY <1>1, HistoryShown
<1>3. \A n \in VisibleHistory(h, other, rel) : n \in VisibleHistory(g, other, rel) /\ n \in DOMAIN h
  BY <1>1, HistoryShown
<1>4. QED
  BY <1>2, <1>3

\* An entity first observed before the cutoff is first observed there in both.
LEMMA SameFirst ==
    ASSUME NEW g \in Logs, NEW h \in Logs, NEW key \in Key, Agree(g, h, key),
           NEW v, Known(g, v), FirstSeen(g, v) < key.seq
    PROVE  /\ Known(h, v) /\ FirstSeen(h, v) = FirstSeen(g, v)
           /\ Time(h, FirstSeen(h, v)) = Time(g, FirstSeen(g, v))
<1> DEFINE n == FirstSeen(g, v)
           m == FirstSeen(h, v)
<1>1. n \in DOMAIN g /\ v \in Mentioned(g[n]) /\ \A k \in DOMAIN g : v \in Mentioned(g[k]) => n <= k
  BY FirstIs
<1>2. n \in Nat /\ n < key.seq /\ key.seq \in Nat
  BY <1>1, EntryKinds DEF Key
<1>3. n \in DOMAIN h /\ Alike(g, h, key, n)
  BY <1>1, <1>2 DEF Agree
<1>4. v \in Mentioned(h[n]) /\ Time(g, n) = Time(h, n)
  BY <1>1, <1>3 DEF Alike
<1>5. Known(h, v)
  BY <1>3, <1>4 DEF Known
<1>6. m \in DOMAIN h /\ v \in Mentioned(h[m]) /\ m <= n
  BY <1>3, <1>4, <1>5, FirstIs
<1>7. m \in Nat /\ m < key.seq
  <2>1. m \in Nat
    BY <1>6, EntryKinds
  <2> HIDE DEF m, n
  <2>2. QED
    BY <1>2, <1>6, <2>1
<1>8. m \in DOMAIN g /\ v \in Mentioned(g[m])
  BY <1>6, <1>7 DEF Agree, Alike
<1>9. n <= m
  BY <1>1, <1>8
<1> HIDE DEF n, m
<1>10. m = n
  BY <1>2, <1>6, <1>7, <1>9
<1>11. QED
  BY <1>4, <1>5, <1>10 DEF n, m

\* The checks on the roles of a visible payment refuse the same.
LEMMA SameRoles ==
    ASSUME NEW g \in Logs, NEW h \in Logs, NEW key \in Key, Agree(g, h, key), NEW rel,
           NEW n \in VisibleHistory(g, key, rel)
    PROVE  InvalidRoles(g, n) <=> InvalidRoles(h, n)
<1>1. /\ n \in DOMAIN g /\ n \in DOMAIN h /\ g[n] = h[n] /\ Time(g, n) = Time(h, n)
      /\ n < key.seq /\ n \in Nat
  <2>1. SameCutoff(key, key)
    BY DEF SameCutoff
  <2>2. n \in DOMAIN g /\ n \in DOMAIN h /\ g[n] = h[n] /\ Time(g, n) = Time(h, n)
    BY <2>1, SameHistory
  <2>3. QED
    BY <2>2, EntryKinds DEF VisibleHistory, Before
<1>2. ASSUME NEW v \in Mentioned(g[n])
      PROVE  FirstSeen(h, v) = FirstSeen(g, v) /\ Time(h, FirstSeen(h, v)) = Time(g, FirstSeen(g, v))
  <2>1. Known(g, v)
    BY <1>1, <1>2 DEF Known
  <2>2. FirstSeen(g, v) <= n /\ FirstSeen(g, v) \in DOMAIN g
    BY <1>1, <1>2, <2>1, FirstIs
  <2>3. FirstSeen(g, v) \in Nat
    BY <2>2, EntryKinds
  <2>4. FirstSeen(g, v) < key.seq
    BY <1>1, <2>2, <2>3 DEF Key
  <2>5. QED
    BY <2>1, <2>4, SameFirst
<1>3. Recipient(g, n) = Recipient(h, n)
  BY <1>1 DEF Recipient
<1>4. QED
  BY <1>1, <1>2, <1>3 DEF InvalidRoles

\* The strata of a relation are the same.
LEMMA SameStrata ==
    ASSUME NEW g \in Logs, NEW h \in Logs, NEW key, Agree(g, h, key), NEW rel, NEW pool \in Pool
    PROVE  Stratify(g, key, rel, pool) = Stratify(h, key, rel, pool)
<1> DEFINE V == VisibleHistory(g, key, rel)
           ranked == Descending(V)
           n == Len(ranked)
           R == RecentRanks(ranked, pool)
           O == OlderRanks(ranked, pool)
<1>0. SameCutoff(key, key)
  BY DEF SameCutoff
<1>1. /\ V = VisibleHistory(h, key, rel) /\ \A p \in V : g[p] = h[p]
      /\ V \in SUBSET Nat /\ IsFiniteSet(V)
  <2>1. V = VisibleHistory(h, key, rel) /\ \A p \in V : g[p] = h[p]
    BY <1>0, SameHistory
  <2>2. V \in SUBSET Nat /\ IsFiniteSet(V)
    BY HistoryFinite
  <2>3. QED
    BY <2>1, <2>2
<1>2. /\ Stratify(g, key, rel, pool) = ThreeStrata(g, rel, ranked, pool)
      /\ Stratify(h, key, rel, pool) = ThreeStrata(h, rel, ranked, pool)
  BY <1>1, StratifyIs
<1>3. n \in Nat /\ DOMAIN ranked = 1..n /\ \A i \in 1..n : ranked[i] \in V
  <2>1. InOrder(ranked, V, Later(V))
    <3> HIDE DEF V
    <3>1. QED
      BY <1>1, DescendingInOrder
  <2> HIDE DEF ranked, V
  <2>2. QED
    BY <2>1 DEF InOrder
<1>4. \A p \in V : Peer(g, p, rel) = Peer(h, p, rel)
  BY <1>1 DEF Peer, Recipient
<1>5. R \in SUBSET (1..n) /\ O \in SUBSET (1..n)
  <2>1. pool.recent \in Nat /\ pool.older \in Nat
    BY DEF Pool
  <2> HIDE DEF n, ranked
  <2>2. Len(ranked) = n
    BY DEF n
  <2>3. QED
    BY <1>3, <2>1, <2>2, RecentRanksAre, OlderRanksAre
<1> HIDE DEF ranked, V, R, O
<1>6. NewPeers(g, rel, ranked, R \cup O) = NewPeers(h, rel, ranked, R \cup O)
  <2>1. \A i \in 1..n : Peer(g, ranked[i], rel) = Peer(h, ranked[i], rel)
    BY <1>3, <1>4
  <2>2. \A i \in 1..n : \A j \in (R \cup O) \cup 1..(i - 1) : j \in 1..n
    BY <1>3, <1>5
  <2>3. QED
    BY <1>3, <2>1, <2>2 DEF NewPeers
<1>7. QED
  BY <1>2, <1>6 DEF ThreeStrata, R, O

\* The earlier payments of a pair are the same.
LEMMA SameEarlier ==
    ASSUME NEW g \in Logs, NEW h \in Logs, NEW key \in Key, Agree(g, h, key), NEW rel,
           NEW n \in VisibleHistory(g, key, rel), NEW T, T = EarlierOfPair(g, key, rel, n)
    PROVE  EarlierOfPair(h, key, rel, n) = T /\ TimesAt(h, T) = TimesAt(g, T)
<1> DEFINE other == [key EXCEPT !.node = g[n].from]
           r == IF rel \in Zelle THEN "zelle_out" ELSE "payment_out"
           A == VisibleHistory(g, key, rel)
           B == VisibleHistory(g, other, r)
<1>1. SameCutoff(key, key) /\ SameCutoff(key, other)
  BY DEF SameCutoff, Key
<1>2. g[n] = h[n] /\ Time(g, n) = Time(h, n)
  BY <1>1, SameHistory
<1>3. A = VisibleHistory(h, key, rel) /\ \A p \in A : g[p] = h[p] /\ Time(g, p) = Time(h, p)
  BY <1>1, SameHistory
<1>4. B = VisibleHistory(h, other, r) /\ \A p \in B : g[p] = h[p] /\ Time(g, p) = Time(h, p)
  <2> HIDE DEF other, r
  <2>1. QED
    BY <1>1, SameHistory
<1>5. /\ T = {p \in IF key.node \in Accounts THEN A ELSE B :
                /\ p < n /\ Time(g, p) <= Time(g, n)
                /\ g[p].rail = g[n].rail
                /\ IF key.node \in Accounts THEN Peer(g, p, rel) = Peer(g, n, rel)
                   ELSE Recipient(g, p) = Recipient(g, n)}
      /\ EarlierOfPair(h, key, rel, n)
           = {p \in IF key.node \in Accounts THEN A ELSE B :
                /\ p < n /\ Time(h, p) <= Time(h, n)
                /\ h[p].rail = h[n].rail
                /\ IF key.node \in Accounts THEN Peer(h, p, rel) = Peer(h, n, rel)
                   ELSE Recipient(h, p) = Recipient(h, n)}
  <2>1. [key EXCEPT !.node = h[n].from] = other
    BY <1>2
  <2>2. QED
    BY <1>3, <1>4, <2>1 DEF EarlierOfPair
<1> HIDE DEF A, B
<1>6. \A p \in A \cup B : /\ g[p] = h[p] /\ Time(g, p) = Time(h, p)
                          /\ Peer(g, p, rel) = Peer(h, p, rel) /\ Recipient(g, p) = Recipient(h, p)
  BY <1>3, <1>4 DEF Peer, Recipient
<1>7. Peer(g, n, rel) = Peer(h, n, rel) /\ Recipient(g, n) = Recipient(h, n)
  BY <1>2 DEF Peer, Recipient
<1>8. EarlierOfPair(h, key, rel, n) = T
  BY <1>2, <1>5, <1>6, <1>7
<1>9. \A p \in T : Time(g, p) = Time(h, p)
  BY <1>5, <1>6
<1>10. TimesAt(h, T) = TimesAt(g, T)
  BY <1>9 DEF TimesAt
<1>11. QED
  BY <1>8, <1>10

\* The flow of a payment is the same.
LEMMA SameFlow ==
    ASSUME NEW g \in Logs, NEW h \in Logs, NEW key, Agree(g, h, key), NEW rel, NEW r,
           NEW n \in VisibleHistory(g, key, r)
    PROVE  Flow(g, key, rel, n) = Flow(h, key, rel, n)
<1> DEFINE out == {s \in Range(Relations) : (s \in Outgoing) = TRUE}
           in == {s \in Range(Relations) : (s \in Outgoing) = FALSE}
           outs == UNION {VisibleHistory(g, key, s) : s \in out}
           ins == UNION {VisibleHistory(g, key, s) : s \in in}
<1>0. SameCutoff(key, key)
  BY DEF SameCutoff
<1>1. \A s : VisibleHistory(g, key, s) = VisibleHistory(h, key, s)
  BY <1>0, SameHistory
<1>2. \A s : \A p \in VisibleHistory(g, key, s) : Time(g, p) = Time(h, p)
  BY <1>0, SameHistory
<1>3. Time(g, n) = Time(h, n) /\ (\A p \in outs : Time(g, p) = Time(h, p)) /\ (\A p \in ins : Time(g, p) = Time(h, p))
  BY <1>2
<1> DEFINE next(f) == {p \in outs : p > n /\ Time(f, p) >= Time(f, n)}
           previous(f) == {p \in ins : p < n /\ Time(f, p) <= Time(f, n)}
           flow(S, P) == CASE key.node \in Accounts /\ rel \notin Outgoing /\ S # {} -> Min(S)
                           [] key.node \in Accounts /\ rel \in Outgoing /\ P # {} -> Max(P)
                           [] OTHER -> 0
<1>4. Flow(g, key, rel, n) = flow(next(g), previous(g))
  BY DEF Flow
<1>5. Flow(h, key, rel, n) = flow(next(h), previous(h))
  <2>1. UNION {VisibleHistory(h, key, s) : s \in out} = outs /\ UNION {VisibleHistory(h, key, s) : s \in in} = ins
    BY <1>1
  <2>2. QED
    BY <2>1 DEF Flow
<1>6. next(g) = next(h) /\ previous(g) = previous(h)
  <2> HIDE DEF outs, ins
  <2>1. QED
    BY <1>3
<1> HIDE DEF next, previous, flow
<1>7. QED
  BY <1>4, <1>5, <1>6

\* The messages of the reference are the same.
LEMMA SameReference ==
    ASSUME NEW g \in Logs, NEW h \in Logs, NEW key \in Key, Agree(g, h, key), NEW pool \in Pool
    PROVE  ReferenceMessages(g, key, pool) = ReferenceMessages(h, key, pool)
<1> DEFINE E == EventsOf(g, key, pool, Range(Relations))
<1>0. SameCutoff(key, key)
  BY DEF SameCutoff
<1>1. EventsOf(h, key, pool, Range(Relations)) = E
  <2>1. \A rel : Stratify(g, key, rel, pool) = Stratify(h, key, rel, pool)
    BY SameStrata
  <2>2. QED
    BY <2>1 DEF EventsOf
<1>2. ASSUME NEW e \in E PROVE RefMessage(g, key, e[2], e[1], e[3]) = RefMessage(h, key, e[2], e[1], e[3])
  <2> DEFINE n == e[1]
             rel == e[2]
             T == EarlierOfPair(g, key, rel, n)
  <2>1. n \in VisibleHistory(g, key, rel)
    <3>1. PICK r \in Range(Relations) : \E s \in Stratify(g, key, r, pool) : e = <<s[1], r, s[2]>>
      BY DEF EventsOf
    <3>2. PICK s \in Stratify(g, key, r, pool) : e = <<s[1], r, s[2]>>
      BY <3>1
    <3>3. s[1] \in VisibleHistory(g, key, r)
      BY StratifyMembers
    <3>4. n = s[1] /\ rel = r
      BY <3>2
    <3>5. QED
      BY <3>3, <3>4
  <2> HIDE DEF n, rel
  <2>2. g[n] = h[n] /\ Time(g, n) = Time(h, n)
    BY <1>0, <2>1, SameHistory
  <2>3. EarlierOfPair(h, key, rel, n) = T /\ TimesAt(h, T) = TimesAt(g, T)
    BY <2>1, SameEarlier
  <2>4. Flow(g, key, rel, n) = Flow(h, key, rel, n)
    BY <2>1, SameFlow
  <2>5. Peer(g, n, rel) = Peer(h, n, rel)
    BY <2>2 DEF Peer, Recipient
  <2> HIDE DEF T
  <2>6. T = EarlierOfPair(g, key, rel, n)
    BY DEF T
  <2>7. RefMessage(g, key, rel, n, e[3]) = RefMessage(h, key, rel, n, e[3])
    BY <2>2, <2>3, <2>4, <2>5, <2>6 DEF RefMessage
  <2>8. QED
    BY <2>7 DEF n, rel
<1>3. /\ ReferenceMessages(g, key, pool) = {RefMessage(g, key, e[2], e[1], e[3]) : e \in E}
      /\ ReferenceMessages(h, key, pool) = {RefMessage(h, key, e[2], e[1], e[3]) : e \in E}
  BY <1>1, ReferenceIs
<1> HIDE DEF E
<1>4. QED
  BY <1>2, <1>3

\* The tenures a context sees: active ones, with an account of the view.
TenuresOf(g, key) ==
    {n \in ActiveTenures(g, key) : OtherEnd(g, key, n) \in Accounts => InPhase(key, OtherEnd(g, key, n))}

\* Where a tenure ends.
EndsOf(g, n) == {m \in (n + 1)..Len(g) : g[m] = [g[n] EXCEPT !.op = "unbind"]}

\* A tenure ends at the first unbinding after it, if there is one.
LEMMA ValidToIs ==
    ASSUME NEW g \in Logs, NEW n \in DOMAIN g
    PROVE  /\ EndsOf(g, n) = {} => ValidTo(g, n) = 0
           /\ EndsOf(g, n) # {} => /\ ValidTo(g, n) \in EndsOf(g, n)
                                   /\ \A m \in EndsOf(g, n) : ValidTo(g, n) <= m
           /\ \A m \in EndsOf(g, n) : m \in Nat \ {0} /\ m \in DOMAIN g /\ n < m
<1> DEFINE S == EndsOf(g, n)
<1>1. n \in Nat /\ DOMAIN g = 1..Len(g) /\ Len(g) \in Nat
  BY EntryKinds
<1>2. \A m \in S : m \in Nat \ {0} /\ m \in DOMAIN g /\ n < m
  BY <1>1 DEF EndsOf
<1>3. ValidTo(g, n) = IF S = {} THEN 0 ELSE Min(S)
  BY DEF ValidTo, EndsOf
<1> HIDE DEF S
<1>4. S # {} => Min(S) \in S /\ \A m \in S : Min(S) <= m
  <2>1. S \in SUBSET Nat
    BY <1>2
  <2>2. QED
    BY <2>1, MinLeast
<1>5. QED
  BY <1>2, <1>3, <1>4 DEF S

\* A tenure that one of them shows, the other shows.
LEMMA TenureShown ==
    ASSUME NEW g \in Logs, NEW h \in Logs, NEW key \in Key, Agree(g, h, key),
           key.node \in Accounts => InPhase(key, key.node),
           NEW n \in TenuresOf(g, key)
    PROVE  n \in TenuresOf(h, key) /\ OtherEnd(g, key, n) = OtherEnd(h, key, n)
<1>1. /\ n \in DOMAIN g /\ g[n].op = "bind" /\ n <= key.seq - 1
      /\ key.node \in {g[n].token, g[n].account}
      /\ Time(g, FirstSeen(g, OtherEnd(g, key, n))) <= key.ts
      /\ ValidTo(g, n) = 0 \/ key.seq - 1 < ValidTo(g, n)
      /\ OtherEnd(g, key, n) \in Accounts => InPhase(key, OtherEnd(g, key, n))
  BY DEF TenuresOf, ActiveTenures
<1>2. key.seq \in Nat \ {0} /\ key.node \in Nodes
  BY DEF Key
<1>3. n \in Nat /\ n < key.seq
  <2>1. n \in Nat
    BY <1>1, EntryKinds
  <2>2. QED
    BY <1>1, <1>2, <2>1
<1>4. /\ g[n] \in Binding /\ g[n].token \in Tokens /\ g[n].account \in Accounts
      /\ Mentioned(g[n]) = {g[n].token, g[n].account}
  BY <1>1, EntryKinds
<1>5. g[n].token \notin Accounts /\ g[n].account \notin Tokens
  BY <1>4, GraphAssumption
<1>6. InPhase(key, g[n].account)
  <2>1. CASE key.node \in Tokens
    BY <1>1, <1>4, <2>1 DEF OtherEnd
  <2>2. CASE key.node \notin Tokens
    <3>1. key.node = g[n].account
      BY <1>1, <1>4, <2>2
    <3>2. QED
      BY <1>4, <3>1
  <2>3. QED
    BY <2>1, <2>2
<1>7. ~Unseen(g, key, n)
  <2>1. Accounts \cap Mentioned(g[n]) = {g[n].account}
    BY <1>4, <1>5
  <2>2. QED
    BY <1>1, <1>6, <2>1 DEF Unseen
<1>8. n \in DOMAIN h /\ g[n] = h[n]
  BY <1>1, <1>3, <1>7, SameEntry
<1> DEFINE v == OtherEnd(g, key, n)
<1>9. OtherEnd(h, key, n) = v
  BY <1>8 DEF OtherEnd
<1>10. FirstSeen(h, v) = FirstSeen(g, v) /\ Time(h, FirstSeen(h, v)) = Time(g, FirstSeen(g, v))
  <2>1. v \in Mentioned(g[n])
    BY <1>4 DEF OtherEnd
  <2> HIDE DEF v
  <2>2. Known(g, v)
    BY <1>1, <2>1 DEF Known
  <2>3. FirstSeen(g, v) \in DOMAIN g /\ FirstSeen(g, v) <= n
    BY <1>1, <2>1, <2>2, FirstIs
  <2>4. FirstSeen(g, v) < key.seq
    <3>1. FirstSeen(g, v) \in Nat
      BY <2>3, EntryKinds
    <3>2. QED
      BY <1>2, <1>3, <2>3, <3>1
  <2>5. QED
    BY <2>2, <2>4, SameFirst
<1>11. ValidTo(h, n) = 0 \/ key.seq - 1 < ValidTo(h, n)
  <2> DEFINE m == ValidTo(h, n)
  <2>1. SUFFICES ASSUME m # 0, ~(key.seq - 1 < m) PROVE FALSE
    OBVIOUS
  <2>2. EndsOf(h, n) # {} /\ m \in EndsOf(h, n) /\ m \in Nat \ {0} /\ m \in DOMAIN h /\ n < m
    <3>1. EndsOf(h, n) # {}
      BY <1>8, <2>1, ValidToIs
    <3>2. m \in EndsOf(h, n)
      BY <1>8, <3>1, ValidToIs
    <3>3. m \in Nat \ {0} /\ m \in DOMAIN h /\ n < m
      BY <1>8, <3>2, ValidToIs
    <3>4. QED
      BY <3>1, <3>2, <3>3
  <2> HIDE DEF m
  <2>3. m < key.seq
    BY <1>2, <2>1, <2>2
  <2>4. h[m] = [g[n] EXCEPT !.op = "unbind"]
    BY <1>8, <2>2 DEF EndsOf
  <2>5. h[m].op = "unbind" /\ h[m].account = g[n].account /\ h[m].token = g[n].token
    BY <1>4, <2>4 DEF Binding
  <2>6. ~Unseen(h, key, m)
    <3>1. Accounts \cap Mentioned(h[m]) = {g[n].account}
      BY <1>4, <1>5, <2>5 DEF Mentioned
    <3>2. QED
      BY <1>6, <2>5, <3>1 DEF Unseen
  <2>7. m \in DOMAIN g /\ g[m] = h[m]
    <3>1. Agree(h, g, key)
      <4>1. SameCutoff(key, key)
        BY DEF SameCutoff
      <4>2. QED
        BY <4>1, AgreeBoth
    <3>2. QED
      BY <2>2, <2>3, <2>6, <3>1, SameEntry
  <2>8. m \in EndsOf(g, n)
    <3>1. m \in 1..Len(g) /\ Len(g) \in Nat
      BY <2>7, EntryKinds
    <3>2. m \in (n + 1)..Len(g)
      BY <1>3, <2>2, <3>1
    <3>3. QED
      BY <2>4, <2>7, <3>2 DEF EndsOf
  <2> DEFINE k == ValidTo(g, n)
  <2>9. k \in EndsOf(g, n) /\ k <= m
    BY <1>1, <2>8, ValidToIs
  <2>10. k \in Nat \ {0}
    BY <1>1, <2>9, ValidToIs
  <2>11. k = 0 \/ key.seq - 1 < k
    BY <1>1
  <2> HIDE DEF k
  <2>12. QED
    BY <1>2, <2>2, <2>3, <2>9, <2>10, <2>11
<1>12. n \in ActiveTenures(h, key)
  BY <1>1, <1>8, <1>9, <1>10, <1>11 DEF ActiveTenures
<1>13. QED
  BY <1>1, <1>9, <1>12 DEF TenuresOf

\* The associations are the same.
LEMMA SameAssociations ==
    ASSUME NEW g \in Logs, NEW h \in Logs, NEW key \in Key, Agree(g, h, key), NEW pool,
           key.node \in Accounts => InPhase(key, key.node)
    PROVE  Associations(g, key, pool) = Associations(h, key, pool)
<1>1. Agree(h, g, key)
  <2>1. SameCutoff(key, key)
    BY DEF SameCutoff
  <2>2. QED
    BY <2>1, AgreeBoth
<1> DEFINE V == TenuresOf(g, key)
           kept == {n \in V : Cardinality({m \in V : m > n}) < pool.associations}
           relation == IF key.node \in Tokens THEN "Token_Bound_To_Account"
                       ELSE "Account_Bound_From_Token"
           message(peer) == [relation |-> relation, peer |-> peer, seq |-> key.seq, ts |-> key.ts,
                             stratum |-> "association", prior |-> 0, first |-> key.ts, last |-> 0, flow |-> 0]
<1>2. V = TenuresOf(h, key) /\ \A n \in V : OtherEnd(g, key, n) = OtherEnd(h, key, n)
  <2>1. \A n \in V : n \in TenuresOf(h, key) /\ OtherEnd(g, key, n) = OtherEnd(h, key, n)
    BY TenureShown
  <2>2. \A n \in TenuresOf(h, key) : n \in V
    BY <1>1, TenureShown
  <2>3. QED
    BY <2>1, <2>2
<1>3. Associations(g, key, pool) = {message(OtherEnd(g, key, n)) : n \in kept}
  BY DEF Associations, TenuresOf
<1>4. Associations(h, key, pool) = {message(OtherEnd(h, key, n)) : n \in kept}
  <2>1. Associations(h, key, pool)
          = {message(OtherEnd(h, key, n)) :
               n \in {k \in TenuresOf(h, key) : Cardinality({m \in TenuresOf(h, key) : m > k}) < pool.associations}}
    BY DEF Associations, TenuresOf
  <2> HIDE DEF V
  <2>2. QED
    BY <1>2, <2>1
<1> HIDE DEF message, V
<1>5. QED
  BY <1>2, <1>3, <1>4

\* Two graphs that agree, and know the entity since when, answer with the same row.
LEMMA RowsAlike ==
    ASSUME NEW g \in Logs, NEW h \in Logs, NEW key \in Key, Agree(g, h, key), NEW pool \in Pool,
           Known(g, key.node), Known(h, key.node), FirstSeen(g, key.node) = FirstSeen(h, key.node),
           Time(g, FirstSeen(g, key.node)) = Time(h, FirstSeen(h, key.node))
    PROVE  RowOf(g, key, pool) = RowOf(h, key, pool)
<1>0. SameCutoff(key, key)
  BY DEF SameCutoff
<1>1. Seen(g, key) <=> Seen(h, key)
  BY DEF Seen
<1>2. \A rel : VisibleHistory(g, key, rel) = VisibleHistory(h, key, rel)
  BY <1>0, SameHistory
<1>3. \A rel : \A n \in VisibleHistory(g, key, rel) : g[n] = h[n] /\ Time(g, n) = Time(h, n)
  BY <1>0, SameHistory
<1>4. \A rel : \A n \in VisibleHistory(g, key, rel) : InvalidRoles(g, n) <=> InvalidRoles(h, n)
  BY SameRoles
<1>5. Crowded(g, key, pool) <=> Crowded(h, key, pool)
  BY <1>2 DEF Crowded
<1>6. Backward(g, key) <=> Backward(h, key)
  <2>1. \A rel : \A n \in VisibleHistory(g, key, rel) :
          g[n] = h[n] /\ Time(g, n) = Time(h, n) /\ Peer(g, n, rel) = Peer(h, n, rel)
    BY <1>3 DEF Peer, Recipient
  <2>2. QED
    BY <1>2, <2>1 DEF Backward
<1>7. BadRoles(g, key) <=> BadRoles(h, key)
  BY <1>2, <1>4 DEF BadRoles
<1>8. ASSUME Seen(g, key) PROVE PlainRow(g, key, pool) = PlainRow(h, key, pool)
  <2>1. ReferenceMessages(g, key, pool) = ReferenceMessages(h, key, pool)
    BY SameReference
  <2>2. Associations(g, key, pool) = Associations(h, key, pool)
    BY <1>8, SameAssociations DEF Seen
  <2>3. QED
    BY <1>5, <1>6, <1>7, <2>1, <2>2 DEF PlainRow
<1>9. QED
  BY <1>1, <1>8 DEF RowOf

-------------------------------------------------------------------------------
(* The graphs that agree with the log: its past of a cutoff, and what it grows to.         *)

\* An entry and what is left of it when it is hidden.
LEMMA HiddenIs ==
    ASSUME NEW e \in Payment \cup Binding
    PROVE  /\ e \in Entry /\ Hidden(e) \in Entry /\ Hidden(e).op = "hidden"
           /\ Mentioned(Hidden(e)) = Mentioned(e)
           /\ Hidden(e).late = IF e.op = "pay" THEN e.late ELSE 0
<1>1. e \in Payment => e.op = "pay" /\ e.late \in Nat /\ Mentioned(e) \subseteq Nodes
  <2>1. SUFFICES ASSUME e \in Payment PROVE e.op = "pay" /\ e.late \in Nat /\ Mentioned(e) \subseteq Nodes
    OBVIOUS
  <2>2. /\ e.op = "pay" /\ e.late \in Nat /\ e.from \in Accounts /\ e.to \in Accounts \cup {None}
        /\ e.ftok \in Tokens \cup {None} /\ e.ttok \in Tokens \cup {None}
    BY <2>1 DEF Payment
  <2>3. Mentioned(e) = {e.from, e.to, e.ftok, e.ttok} \ {None}
    BY <2>2 DEF Mentioned
  <2>4. QED
    BY <2>2, <2>3 DEF Nodes
<1>2. e \in Binding => e.op \in {"bind", "unbind"} /\ Mentioned(e) \subseteq Nodes
  <2>1. SUFFICES ASSUME e \in Binding PROVE e.op \in {"bind", "unbind"} /\ Mentioned(e) \subseteq Nodes
    OBVIOUS
  <2>2. e.op \in {"bind", "unbind"} /\ e.token \in Tokens /\ e.account \in Accounts
    BY <2>1 DEF Binding
  <2>3. Mentioned(e) = {e.token, e.account}
    BY <2>2 DEF Mentioned
  <2>4. QED
    BY <2>2, <2>3 DEF Nodes
<1>3. Mentioned(e) \subseteq Nodes /\ (e.op = "pay" => e.late \in Nat)
  <2>1. e \in Binding => e.op # "pay"
    BY <1>2
  <2>2. QED
    BY <1>1, <1>2, <2>1
<1>4. Hidden(e) = [op |-> "hidden", nodes |-> Mentioned(e), late |-> IF e.op = "pay" THEN e.late ELSE 0]
  BY DEF Hidden
<1> DEFINE l == IF e.op = "pay" THEN e.late ELSE 0
           N == Mentioned(e)
<1>5. l \in Nat
  BY <1>3
<1>6. N \in SUBSET Nodes /\ Hidden(e) = [op |-> "hidden", nodes |-> N, late |-> l]
  BY <1>3, <1>4
<1> HIDE DEF l, N
<1>7. Hidden(e) \in [op : {"hidden"}, nodes : SUBSET Nodes, late : Nat]
  BY <1>5, <1>6
<1>8. Hidden(e).op = "hidden" /\ Hidden(e).nodes = N /\ Hidden(e).late = l
  BY <1>6
<1>9. Mentioned(Hidden(e)) = N
  BY <1>8 DEF Mentioned
<1>10. QED
  BY <1>7, <1>8, <1>9 DEF Entry, l, N

\* A log is a graph of which nothing is hidden.
LEMMA LogIsLogs ==
    ASSUME NEW g \in Log
    PROVE  g \in Logs /\ Len(g) \in Nat /\ DOMAIN g = 1..Len(g) /\ \A n \in DOMAIN g : g[n] \in Payment \cup Binding
<1>1. Len(g) \in Nat /\ DOMAIN g = 1..Len(g) /\ \A n \in DOMAIN g : g[n] \in Payment \cup Binding
  BY DEF Log
<1>2. Payment \cup Binding \subseteq Entry
  BY DEF Entry
<1>3. g \in Logs
  <2>1. g \in Seq(Entry)
    BY <1>2, SeqMonotonic DEF Log
  <2>2. QED
    BY <2>1 DEF Logs
<1>4. QED
  BY <1>1, <1>3

\* The past of a cutoff: the entries up to it, some of them hidden.
LEMMA PastIs ==
    ASSUME NEW g \in Log, NEW key \in Key, NEW p, p = Past(g, key.seq, key)
    PROVE  /\ p \in Logs
           /\ \A n : n \in DOMAIN p <=> n \in DOMAIN g /\ n <= key.seq
           /\ \A n \in DOMAIN p : Mentioned(p[n]) = Mentioned(g[n]) /\ Time(p, n) = Time(g, n)
           /\ Agree(g, p, key)
<1> DEFINE Gone(n) == n = key.seq \/ \E a \in Accounts \cap Mentioned(g[n]) : ~InPhase(key, a)
           m == IF key.seq <= Len(g) THEN key.seq ELSE Len(g)
<1>1. /\ Len(g) \in Nat /\ DOMAIN g = 1..Len(g) /\ key.seq \in Nat \ {0}
      /\ \A n \in DOMAIN g : g[n] \in Payment \cup Binding
  BY LogIsLogs DEF Key
<1>2. Min({key.seq, Len(g)}) = m
  <2>1. key.seq \in Int /\ Len(g) \in Int
    BY <1>1
  <2>2. QED
    BY <2>1, OfTwo, Zenon
<1>3. m \in Nat /\ \A n : n \in 1..m <=> n \in DOMAIN g /\ n <= key.seq
  BY <1>1
<1>4. p = [n \in 1..m |-> IF Gone(n) THEN Hidden(g[n]) ELSE g[n]]
  BY <1>2 DEF Past
<1> HIDE DEF m, Gone
<1>5. DOMAIN p = 1..m /\ \A n \in 1..m : p[n] = IF Gone(n) THEN Hidden(g[n]) ELSE g[n]
  BY <1>4
<1>6. \A n \in 1..m : g[n] \in Payment \cup Binding
  BY <1>1, <1>3
<1>7. \A n \in 1..m : p[n] \in Entry /\ Mentioned(p[n]) = Mentioned(g[n])
  BY <1>5, <1>6, HiddenIs
<1>8. p \in Logs
  <2>1. p \in [1..m -> Entry]
    BY <1>4, <1>5, <1>7
  <2>2. p \in Seq(Entry)
    BY <1>3, <2>1, SeqDef, Zenon
  <2>3. QED
    BY <2>2 DEF Logs
<1>9. ASSUME NEW n \in 1..m PROVE Time(p, n) = Time(g, n)
  <2>1. p[n] = IF Gone(n) THEN Hidden(g[n]) ELSE g[n]
    BY <1>5
  <2>2. CASE ~Gone(n)
    BY <2>1, <2>2 DEF Time
  <2>3. CASE Gone(n)
    <3>1. p[n].op = "hidden" /\ p[n].late = IF g[n].op = "pay" THEN g[n].late ELSE 0
      BY <1>6, <2>1, <2>3, HiddenIs
    <3>2. g[n].op \in {"pay", "bind", "unbind"}
      BY <1>6 DEF Payment, Binding
    <3>3. n \in Nat \ {0}
      BY <1>3
    <3>4. Time(p, n) = IF p[n].late < n THEN n - p[n].late ELSE n
      BY <3>1 DEF Time
    <3>5. CASE g[n].op = "pay"
      BY <3>1, <3>4, <3>5 DEF Time
    <3>6. CASE g[n].op # "pay"
      <4>1. Time(g, n) = n
        BY <3>2, <3>6 DEF Time
      <4>2. p[n].late = 0
        BY <3>1, <3>6
      <4>3. QED
        BY <3>3, <3>4, <4>1, <4>2
    <3>7. QED
      BY <3>5, <3>6
  <2>4. QED
    BY <2>2, <2>3
<1>10. ASSUME NEW n \in Nat, n < key.seq
       PROVE  /\ n \in DOMAIN g <=> n \in DOMAIN p
              /\ n \in DOMAIN g => Alike(g, p, key, n)
  <2>1. n \in DOMAIN g <=> n \in DOMAIN p
    BY <1>1, <1>3, <1>5, <1>10
  <2>2. ASSUME n \in DOMAIN g PROVE g[n] = p[n] \/ (Unseen(g, key, n) /\ Unseen(p, key, n))
    <3>1. n \in 1..m /\ p[n] = IF Gone(n) THEN Hidden(g[n]) ELSE g[n]
      BY <1>5, <2>1, <2>2
    <3>2. CASE Gone(n)
      <4>1. n # key.seq
        BY <1>1, <1>10
      <4>2. Unseen(g, key, n)
        BY <3>2, <4>1 DEF Unseen, Gone
      <4>3. p[n].op = "hidden"
        BY <1>6, <3>1, <3>2, HiddenIs
      <4>4. QED
        BY <4>2, <4>3 DEF Unseen
    <3>3. QED
      BY <3>1, <3>2
  <2>3. n \in DOMAIN g => Alike(g, p, key, n)
    BY <1>5, <1>7, <1>9, <2>1, <2>2 DEF Alike
  <2>4. QED
    BY <2>1, <2>3
<1>11. Agree(g, p, key)
  BY <1>10 DEF Agree
<1>12. QED
  BY <1>3, <1>5, <1>7, <1>8, <1>9, <1>11

\* The first entry a longer or a shorter graph shares with this one.
LEMMA FirstShared ==
    ASSUME NEW g \in Logs, NEW h \in Logs, NEW v, Known(g, v), FirstSeen(g, v) \in DOMAIN h,
           \A n \in DOMAIN g : n \in DOMAIN h => Mentioned(h[n]) = Mentioned(g[n]),
           \A n \in DOMAIN h : n < FirstSeen(g, v) => n \in DOMAIN g
    PROVE  Known(h, v) /\ FirstSeen(h, v) = FirstSeen(g, v)
<1> DEFINE n == FirstSeen(g, v)
<1>1. n \in DOMAIN g /\ v \in Mentioned(g[n]) /\ \A m \in DOMAIN g : v \in Mentioned(g[m]) => n <= m
  BY FirstIs
<1>2. v \in Mentioned(h[n]) /\ n \in DOMAIN h
  BY <1>1
<1>3. Known(h, v)
  BY <1>2 DEF Known
<1>4. /\ FirstSeen(h, v) \in DOMAIN h /\ v \in Mentioned(h[FirstSeen(h, v)])
      /\ \A m \in DOMAIN h : v \in Mentioned(h[m]) => FirstSeen(h, v) <= m
  BY <1>3, FirstIs
<1> DEFINE k == FirstSeen(h, v)
<1>5. k \in Nat /\ n \in Nat
  BY <1>1, <1>4, EntryKinds
<1>6. k <= n
  BY <1>2, <1>4
<1>7. ASSUME k < n PROVE FALSE
  <2>1. k \in DOMAIN g
    BY <1>4, <1>7
  <2>2. v \in Mentioned(g[k])
    BY <1>4, <2>1
  <2>3. n <= k
    BY <1>1, <2>1, <2>2
  <2>4. QED
    BY <1>5, <1>7, <2>3
<1>8. QED
  BY <1>3, <1>5, <1>6, <1>7

-------------------------------------------------------------------------------
(* A row that is settled: what the plain definition says of the log, and of every longer   *)
(* one.                                                                                    *)

UnobservedIn(g, key) == \A n \in DOMAIN g : key.node \in Mentioned(g[n]) => n >= key.seq
Absent == {"missing_entity", "invisible_entity"}
SettledIn(g, key, row, pool) ==
    row = RowOf(g, key, pool) \/ (UnobservedIn(g, key) /\ row.status \in Absent)

\* An entity that was not met before the cutoff was not observed.
LEMMA NotMet ==
    ASSUME NEW g \in Logs, NEW key \in Key, NEW pool,
           ~Known(g, key.node) \/ FirstSeen(g, key.node) > key.seq
    PROVE  UnobservedIn(g, key) /\ RowOf(g, key, pool).status \in Absent
<1>1. UnobservedIn(g, key)
  <2> SUFFICES ASSUME NEW n \in DOMAIN g, key.node \in Mentioned(g[n]) PROVE n >= key.seq
    BY DEF UnobservedIn
  <2>1. Known(g, key.node)
    BY DEF Known
  <2>2. FirstSeen(g, key.node) \in DOMAIN g /\ FirstSeen(g, key.node) <= n
    BY <2>1, FirstIs
  <2>3. FirstSeen(g, key.node) \in Nat /\ n \in Nat /\ key.seq \in Nat
    BY <2>2, EntryKinds DEF Key
  <2>4. QED
    BY <2>1, <2>2, <2>3
<1>2. RowOf(g, key, pool).status \in Absent
  <2>1. CASE ~Known(g, key.node)
    BY <2>1 DEF RowOf, RefusedRow, Absent
  <2>2. CASE Known(g, key.node) /\ FirstSeen(g, key.node) > key.seq
    <3>1. FirstSeen(g, key.node) \in Nat /\ key.seq \in Nat
      BY <2>2, FirstIs, EntryKinds DEF Key
    <3>2. ~Seen(g, key)
      BY <2>2, <3>1 DEF Seen
    <3>3. QED
      BY <2>2, <3>2 DEF RowOf, RefusedRow, Absent
  <2>3. QED
    BY <2>1, <2>2
<1>3. QED
  BY <1>1, <1>2

\* A longer log.
Extends(h, g) ==
    /\ h \in Log /\ g \in Logs /\ h \in Logs
    /\ Len(g) \in Nat /\ DOMAIN g = 1..Len(g) /\ DOMAIN h = 1..(Len(g) + 1)
    /\ \A n \in DOMAIN g : n \in DOMAIN h /\ h[n] = g[n] /\ Time(h, n) = Time(g, n)
    /\ \A v : Known(g, v) => /\ Known(h, v) /\ FirstSeen(h, v) = FirstSeen(g, v)
                             /\ Time(h, FirstSeen(h, v)) = Time(g, FirstSeen(g, v))

\* Appending an entry gives such a log.
LEMMA Grown ==
    ASSUME NEW g \in Log, NEW e \in Payment \cup Binding, NEW h, h = Append(g, e)
    PROVE  Extends(h, g)
<1>1. Len(g) \in Nat /\ DOMAIN g = 1..Len(g) /\ g \in Logs
  BY LogIsLogs
<1>2. h \in Log /\ h \in Logs
  <2>1. h \in Log
    BY DEF Log
  <2>2. QED
    BY <2>1, LogIsLogs
<1>3. DOMAIN h = 1..(Len(g) + 1) /\ \A n \in DOMAIN g : h[n] = g[n]
  <2>1. Len(h) = Len(g) + 1
    BY DEF Log
  <2>2. DOMAIN h = 1..Len(h)
    BY <1>2, LogIsLogs
  <2>3. \A n \in 1..Len(g) : h[n] = g[n]
    BY DEF Log
  <2>4. QED
    BY <1>1, <2>1, <2>2, <2>3
<1>4. \A n \in DOMAIN g : n \in DOMAIN h /\ h[n] = g[n] /\ Time(h, n) = Time(g, n)
  <2>1. \A n \in DOMAIN g : n \in DOMAIN h
    BY <1>1, <1>3
  <2>2. QED
    BY <1>3, <2>1 DEF Time
<1>5. ASSUME NEW v, Known(g, v)
      PROVE  /\ Known(h, v) /\ FirstSeen(h, v) = FirstSeen(g, v)
             /\ Time(h, FirstSeen(h, v)) = Time(g, FirstSeen(g, v))
  <2> DEFINE f == FirstSeen(g, v)
  <2>1. f \in DOMAIN g
    BY <1>1, <1>5, FirstIs
  <2>2. \A n \in DOMAIN h : n < f => n \in DOMAIN g
    <3> HIDE DEF f
    <3>1. QED
      BY <1>1, <1>3, <2>1
  <2>3. Known(h, v) /\ FirstSeen(h, v) = f
    <3>1. f \in DOMAIN h /\ \A n \in DOMAIN g : n \in DOMAIN h => Mentioned(h[n]) = Mentioned(g[n])
      BY <1>4, <2>1
    <3>2. QED
      BY <1>1, <1>2, <1>5, <2>2, <3>1, FirstShared
  <2>4. QED
    BY <1>4, <2>1, <2>3
<1>6. QED
  BY <1>1, <1>2, <1>3, <1>4, <1>5 DEF Extends

\* Before its cutoff, a longer log is the same.
LEMMA GrownAgrees ==
    ASSUME NEW g \in Log, NEW e \in Payment \cup Binding, NEW h, h = Append(g, e),
           NEW key \in Key, key.seq <= Len(g) + 1
    PROVE  Agree(g, h, key)
<1>1. /\ Len(g) \in Nat /\ DOMAIN g = 1..Len(g) /\ DOMAIN h = 1..(Len(g) + 1)
      /\ \A n \in DOMAIN g : n \in DOMAIN h /\ h[n] = g[n] /\ Time(h, n) = Time(g, n)
  <2>1. Extends(h, g)
    BY Grown
  <2>2. QED
    BY <2>1 DEF Extends
<1>2. key.seq \in Nat
  BY DEF Key
<1>3. ASSUME NEW n \in Nat, n < key.seq
      PROVE  /\ n \in DOMAIN g <=> n \in DOMAIN h
             /\ n \in DOMAIN g => Alike(g, h, key, n)
  <2>1. n \in DOMAIN g <=> n \in DOMAIN h
    BY <1>1, <1>2, <1>3
  <2>2. QED
    BY <1>1, <2>1 DEF Alike
<1>4. QED
  BY <1>3 DEF Agree

\* A settled row stays settled.
LEMMA SettledStays ==
    ASSUME NEW g \in Log, NEW e \in Payment \cup Binding, NEW h, h = Append(g, e),
           NEW key \in Key, key.seq <= Len(g) + 1, NEW pool \in Pool,
           NEW row, SettledIn(g, key, row, pool)
    PROVE  SettledIn(h, key, row, pool)
<1>1. /\ g \in Logs /\ h \in Logs /\ Len(g) \in Nat /\ DOMAIN g = 1..Len(g) /\ DOMAIN h = 1..(Len(g) + 1)
      /\ \A n \in DOMAIN g : h[n] = g[n]
  <2>1. Extends(h, g)
    BY Grown
  <2>2. QED
    BY <2>1 DEF Extends
<1>2. UnobservedIn(g, key) => UnobservedIn(h, key)
  <2> SUFFICES ASSUME UnobservedIn(g, key), NEW n \in DOMAIN h, key.node \in Mentioned(h[n])
               PROVE  n >= key.seq
    BY DEF UnobservedIn
  <2>1. key.seq \in Nat
    BY DEF Key
  <2>2. CASE n \in DOMAIN g
    BY <1>1, <2>2 DEF UnobservedIn
  <2>3. CASE n \notin DOMAIN g
    BY <1>1, <2>1, <2>3
  <2>4. QED
    BY <2>2, <2>3
<1>3. CASE UnobservedIn(g, key) /\ row.status \in Absent
  BY <1>2, <1>3 DEF SettledIn
<1>4. CASE row = RowOf(g, key, pool) /\ ~Known(g, key.node)
  BY <1>1, <1>2, <1>4, NotMet DEF SettledIn
<1>5. CASE row = RowOf(g, key, pool) /\ Known(g, key.node)
  <2>1. Agree(g, h, key)
    BY GrownAgrees
  <2>2. /\ Known(h, key.node) /\ FirstSeen(h, key.node) = FirstSeen(g, key.node)
        /\ Time(h, FirstSeen(h, key.node)) = Time(g, FirstSeen(g, key.node))
    <3>1. Extends(h, g)
      BY Grown
    <3>2. QED
      BY <1>5, <3>1 DEF Extends
  <2>3. RowOf(g, key, pool) = RowOf(h, key, pool)
    BY <1>1, <1>5, <2>1, <2>2, RowsAlike
  <2>4. QED
    BY <1>5, <2>3 DEF SettledIn
<1>6. QED
  BY <1>3, <1>4, <1>5 DEF SettledIn

\* A settled row is the answer to its request alone, on the past of its cutoff.
LEMMA SettledAlone ==
    ASSUME NEW g \in Log, NEW key \in Key, NEW pool \in Pool, NEW row, SettledIn(g, key, row, pool)
    PROVE  \/ row = Call(Past(g, key.seq, key), <<key>>, pool).rows[1]
           \/ UnobservedIn(g, key) /\ row.status \in Absent
<1> DEFINE p == Past(g, key.seq, key)
           n == FirstSeen(g, key.node)
<1>1. /\ p \in Logs /\ Agree(g, p, key)
      /\ \A m : m \in DOMAIN p <=> m \in DOMAIN g /\ m <= key.seq
      /\ \A m \in DOMAIN p : Mentioned(p[m]) = Mentioned(g[m]) /\ Time(p, m) = Time(g, m)
  BY PastIs
<1> HIDE DEF p
<1>2. g \in Logs /\ key.seq \in Nat
  BY LogIsLogs DEF Key
<1>3. CASE UnobservedIn(g, key) /\ row.status \in Absent
  BY <1>3
<1>4. CASE row = RowOf(g, key, pool) /\ (~Known(g, key.node) \/ n > key.seq)
  BY <1>2, <1>4, NotMet
<1>5. CASE row = RowOf(g, key, pool) /\ Known(g, key.node) /\ ~(n > key.seq)
  <2>1. n \in DOMAIN g
    BY <1>2, <1>5, FirstIs
  <2>2. n \in Nat
    BY <1>2, <2>1, EntryKinds
  <2> HIDE DEF n
  <2>3. n <= key.seq
    BY <1>2, <1>5, <2>2
  <2>4. n \in DOMAIN p /\ Time(p, n) = Time(g, n)
    BY <1>1, <2>1, <2>3
  <2>5. \A m \in DOMAIN g : m \in DOMAIN p => Mentioned(p[m]) = Mentioned(g[m])
    BY <1>1
  <2>6. \A m \in DOMAIN p : m < n => m \in DOMAIN g
    BY <1>1
  <2>7. Known(p, key.node) /\ FirstSeen(p, key.node) = n
    BY <1>1, <1>2, <1>5, <2>4, <2>5, <2>6, FirstShared DEF n
  <2>8. RowOf(g, key, pool) = RowOf(p, key, pool)
    BY <1>1, <1>2, <1>5, <2>4, <2>7, RowsAlike DEF n
  <2>9. Call(p, <<key>>, pool).rows[1] = RowOf(p, key, pool)
    <3> DEFINE keys == <<key>>
    <3>1. DOMAIN keys = 1..1 /\ keys[1] = key
      OBVIOUS
    <3> HIDE DEF keys
    <3>2. SameView(keys)
      BY <3>1 DEF SameView
    <3>3. \A i \in 1..1 : keys[i] \in Key
      BY <3>1
    <3>4. 1 \in Nat /\ 1 \in 1..1
      OBVIOUS
    <3>5. p \in Logs /\ DOMAIN keys = 1..1
      BY <1>1, <3>1
    <3>6. \A i \in 1..1 : Call(p, keys, pool).rows[i] = RowOf(p, keys[i], pool)
      BY <3>2, <3>3, <3>4, <3>5, CallRowOf
    <3>7. Call(p, keys, pool).rows[1] = RowOf(p, keys[1], pool)
      BY <3>4, <3>6
    <3>8. QED
      BY <3>1, <3>7 DEF keys
  <2>10. QED
    BY <1>5, <2>8, <2>9 DEF p
<1>6. QED
  BY <1>3, <1>4, <1>5 DEF SettledIn

\* A message of an entity that had been observed by the clocks of the message.
Met(g, v, seq, ts) == Known(g, v) /\ FirstSeen(g, v) <= seq /\ Time(g, FirstSeen(g, v)) <= ts
MeetsPeer(g, m) ==
    m.peer \in Nodes /\ m.seq \in Nat \ {0} /\ m.ts \in Nat \ {0} /\ Met(g, m.peer, m.seq, m.ts)
AllMet(g, messages) == \A m \in messages : MeetsPeer(g, m)

\* A later log knows of them the same.
LEMMA MetStays ==
    ASSUME NEW g, NEW h, Extends(h, g), NEW m, MeetsPeer(g, m)
    PROVE  MeetsPeer(h, m)
<1>1. Known(g, m.peer) => /\ Known(h, m.peer) /\ FirstSeen(h, m.peer) = FirstSeen(g, m.peer)
                          /\ Time(h, FirstSeen(h, m.peer)) = Time(g, FirstSeen(g, m.peer))
  BY DEF Extends
<1>2. QED
  BY <1>1 DEF MeetsPeer, Met

\* The messages of the payments of a row: with roles that were not refused.
LEMMA PaymentsMet ==
    ASSUME NEW g \in Logs, NEW key, ~BadRoles(g, key), NEW rel \in Range(Relations),
           NEW n \in VisibleHistory(g, key, rel), NEW stratum
    PROVE  MeetsPeer(g, RefMessage(g, key, rel, n, stratum))
<1> DEFINE v == Peer(g, n, rel)
           t == Time(g, n)
<1>1. n \in DOMAIN g /\ IsPayment(g, n)
  BY DEF VisibleHistory, Incident
<1>2. ~InvalidRoles(g, n)
  BY DEF BadRoles
<1>3. /\ n \in Nat \ {0} /\ t \in Nat \ {0} /\ Mentioned(g[n]) \subseteq Nodes
      /\ g[n].from \in Accounts /\ g[n].to \in Accounts \cup {None} /\ g[n].ttok \in Tokens \cup {None}
      /\ g[n].op = "pay"
  BY <1>1, EntryKinds DEF IsPayment
<1>4. v \in Mentioned(g[n])
  <2>1. Mentioned(g[n]) = {g[n].from, g[n].to, g[n].ftok, g[n].ttok} \ {None}
    BY <1>3 DEF Mentioned
  <2>2. Recipient(g, n) # None /\ Recipient(g, n) \in {g[n].to, g[n].ttok}
    BY <1>2 DEF InvalidRoles, Recipient
  <2>3. g[n].from # None
    BY <1>3, GraphAssumption DEF Nodes
  <2>4. QED
    BY <2>1, <2>2, <2>3 DEF Peer
<1>5. Known(g, v)
  BY <1>1, <1>4 DEF Known
<1> DEFINE f == FirstSeen(g, v)
<1>6. f \in DOMAIN g
  BY <1>5, FirstIs
<1>7. f \in Nat /\ Time(g, f) \in Nat
  BY <1>6, EntryKinds
<1>8. ~(f > n \/ Time(g, f) > t)
  BY <1>2, <1>4 DEF InvalidRoles
<1>9. /\ RefMessage(g, key, rel, n, stratum).peer = v
      /\ RefMessage(g, key, rel, n, stratum).seq = n
      /\ RefMessage(g, key, rel, n, stratum).ts = t
  BY DEF RefMessage
<1> HIDE DEF v, t, f
<1>10. f <= n /\ Time(g, f) <= t
  BY <1>3, <1>7, <1>8
<1>11. Met(g, v, n, t)
  BY <1>5, <1>10 DEF Met, f
<1>12. v \in Nodes
  BY <1>3, <1>4
<1>13. QED
  BY <1>3, <1>9, <1>11, <1>12 DEF MeetsPeer

\* The messages of associations: both ends had been observed when the tenure began.
LEMMA AssociationsMet ==
    ASSUME NEW g \in Logs, NEW key \in Key, NEW pool, NEW m \in Associations(g, key, pool)
    PROVE  MeetsPeer(g, m) /\ m.stratum = "association"
<1>1. PICK n \in ActiveTenures(g, key) :
        m.peer = OtherEnd(g, key, n) /\ m.seq = key.seq /\ m.ts = key.ts /\ m.stratum = "association"
  <2> DEFINE relation == IF key.node \in Tokens THEN "Token_Bound_To_Account" ELSE "Account_Bound_From_Token"
             visible == {n \in ActiveTenures(g, key) :
                           OtherEnd(g, key, n) \in Accounts => InPhase(key, OtherEnd(g, key, n))}
             kept == {n \in visible : Cardinality({k \in visible : k > n}) < pool.associations}
             message(n) ==
               [relation |-> relation, peer |-> OtherEnd(g, key, n), seq |-> key.seq, ts |-> key.ts,
                stratum |-> "association", prior |-> 0, first |-> key.ts, last |-> 0, flow |-> 0]
  <2>1. Associations(g, key, pool) = {message(n) : n \in kept}
    BY DEF Associations
  <2>2. kept \subseteq ActiveTenures(g, key)
    OBVIOUS
  <2> HIDE DEF kept, relation
  <2>3. PICK n \in kept : m = message(n)
    BY <2>1
  <2>4. QED
    BY <2>2, <2>3
<1> DEFINE v == OtherEnd(g, key, n)
           f == FirstSeen(g, v)
<1>2. /\ n \in DOMAIN g /\ g[n].op = "bind" /\ n <= key.seq - 1 /\ Time(g, f) <= key.ts
  BY DEF ActiveTenures
<1>3. n \in Nat /\ key.seq \in Nat \ {0} /\ key.ts \in Nat \ {0}
  BY <1>2, EntryKinds DEF Key
<1>4. v \in Mentioned(g[n]) /\ v \in Nodes
  BY <1>2, EntryKinds DEF OtherEnd
<1>5. Known(g, v)
  BY <1>2, <1>4 DEF Known
<1>6. f \in DOMAIN g /\ f <= n
  BY <1>2, <1>4, <1>5, FirstIs
<1>7. f \in Nat
  BY <1>6, EntryKinds
<1>8. f <= key.seq
  <2> HIDE DEF f
  <2>1. QED
    BY <1>2, <1>3, <1>6, <1>7
<1>9. Met(g, v, key.seq, key.ts)
  BY <1>2, <1>5, <1>8 DEF Met
<1>10. QED
  BY <1>1, <1>3, <1>4, <1>9 DEF MeetsPeer

\* What the reference has strata for.
LEMMA StrataAre ==
    ASSUME NEW g, NEW key, NEW rel, NEW pool, NEW s \in Stratify(g, key, rel, pool)
    PROVE  s[2] \in {"recent", "older", "distinct"}
<1> DEFINE ranked == Descending(VisibleHistory(g, key, rel))
           peer(n) == Peer(g, n, rel)
           R == RecentRanks(ranked, pool)
           O == OlderRanks(ranked, pool)
           N == DistinctRanks(ranked, pool, peer)
           of(ranks, stratum) == {<<ranked[i], stratum>> : i \in ranks}
<1>1. Stratify(g, key, rel, pool) = of(R, "recent") \cup of(O, "older") \cup of(N, "distinct")
  BY DEF Stratify
<1> HIDE DEF R, O, N
<1>2. s \in of(R, "recent") \/ s \in of(O, "older") \/ s \in of(N, "distinct")
  BY <1>1
<1> HIDE DEF ranked
<1>3. \A ranks, stratum : s \in of(ranks, stratum) => s[2] = stratum
  OBVIOUS
<1>4. QED
  BY <1>2, <1>3

\* The messages of a row that is answered: payments with the strata of the reference, and
\* associations.
LEMMA RowSplits ==
    ASSUME NEW g \in Logs, NEW key \in Key, NEW pool \in Pool, NEW row, row = RowOf(g, key, pool),
           row.status = "ok"
    PROVE  /\ AllMet(g, row.messages)
           /\ {m \in row.messages : m.stratum # "association"} = ReferenceMessages(g, key, pool)
           /\ ~Crowded(g, key, pool)
<1> DEFINE R == ReferenceMessages(g, key, pool)
           A == Associations(g, key, pool)
<1>1. ~Crowded(g, key, pool) /\ ~BadRoles(g, key) /\ row = [status |-> "ok", messages |-> R \cup A]
  BY DEF RowOf, PlainRow, RefusedRow
<1>2. \A m \in A : MeetsPeer(g, m) /\ m.stratum = "association"
  BY AssociationsMet
<1>3. ASSUME NEW m \in R PROVE MeetsPeer(g, m) /\ m.stratum # "association"
  <2>1. PICK e \in EventsOf(g, key, pool, Range(Relations)) : m = RefMessage(g, key, e[2], e[1], e[3])
    BY ReferenceIs
  <2>10. PICK rel \in Range(Relations) : \E s \in Stratify(g, key, rel, pool) : e = <<s[1], rel, s[2]>>
    BY DEF EventsOf
  <2>2. PICK s \in Stratify(g, key, rel, pool) : e = <<s[1], rel, s[2]>>
    BY <2>10
  <2>3. e[1] = s[1] /\ e[2] = rel /\ e[3] = s[2]
    BY <2>2
  <2>4. s[1] \in VisibleHistory(g, key, rel)
    BY StratifyMembers
  <2>5. s[2] \in {"recent", "older", "distinct"}
    BY StrataAre
  <2>6. m = RefMessage(g, key, rel, s[1], s[2])
    BY <2>1, <2>3
  <2>7. MeetsPeer(g, m)
    BY <1>1, <2>4, <2>6, PaymentsMet
  <2>8. m.stratum = s[2]
    BY <2>6 DEF RefMessage
  <2>9. QED
    BY <2>5, <2>7, <2>8
<1> HIDE DEF R, A
<1>4. row.messages = R \cup A
  BY <1>1
<1>5. {m \in row.messages : m.stratum # "association"} = R
  BY <1>2, <1>3, <1>4
<1>6. AllMet(g, row.messages)
  BY <1>2, <1>3, <1>4 DEF AllMet
<1>7. QED
  BY <1>1, <1>5, <1>6 DEF R

\* Nothing crowds the history of what was not observed.
LEMMA UnobservedFree ==
    ASSUME NEW g \in Logs, NEW key \in Key, NEW pool \in Pool, UnobservedIn(g, key)
    PROVE  ~Crowded(g, key, pool)
<1>1. ASSUME NEW rel, NEW n \in VisibleHistory(g, key, rel) PROVE FALSE
  <2>1. /\ n \in DOMAIN g /\ IsPayment(g, n) /\ n < key.seq
        /\ key.node \in IF rel \in Outgoing THEN {g[n].from, g[n].ftok} ELSE {g[n].to, g[n].ttok}
    BY DEF VisibleHistory, Incident, Before
  <2>2. Mentioned(g[n]) = {g[n].from, g[n].to, g[n].ftok, g[n].ttok} \ {None}
    BY <2>1 DEF IsPayment, Mentioned
  <2>3. key.node # None /\ key.seq \in Nat
    BY GraphAssumption DEF Key, Nodes
  <2>4. key.node \in Mentioned(g[n])
    BY <2>1, <2>2, <2>3
  <2>5. n >= key.seq /\ n \in Nat
    BY <2>1, <2>4, EntryKinds DEF UnobservedIn
  <2>6. QED
    BY <2>1, <2>3, <2>5
<1>2. \A rel : Cardinality(VisibleHistory(g, key, rel)) = 0
  <2>1. \A rel : VisibleHistory(g, key, rel) = {}
    BY <1>1
  <2>2. QED
    BY <2>1, FS_EmptySet
<1>3. pool.max_history \in Nat
  BY DEF Pool
<1>4. QED
  BY <1>2, <1>3 DEF Crowded

-------------------------------------------------------------------------------
(* The rows of a batch.                                                                    *)

\* The rows of the last fetch are settled, for keys whose entities had been met by their
\* timestamps or whose timestamps are those of their cutoffs.
Clocked(g, k) == k.ts = k.seq \/ Met(g, k.node, k.seq, k.ts)
FreshFacts(g, k, row, pool) ==
    k \in Key /\ k.seq <= Len(g) + 1 /\ Clocked(g, k) /\ SettledIn(g, k, row, pool)
FreshKnown == \A k \in Fresh : FreshFacts(log, k, rows[k], FreshPool)

\* The neighbours that may become children had been met by the messages that lead to them.
PeersKnown ==
    /\ stage = "roots" => \A i \in DOMAIN accepted : AllMet(log, rows[accepted[i]].messages)
    /\ stage = "first" => \A i \in DOMAIN accepted : AllMet(log, Range(first[i]))

RowsInv == FreshKnown /\ PeersKnown

\* A neighbour's key is a key, with the clocks of its message.
LEMMA ChildIsKey ==
    ASSUME NEW root \in RootType, NEW g, NEW m, MeetsPeer(g, m), NEW k, k = ChildKey(m, root)
    PROVE  k \in Key /\ Clocked(g, k) /\ k.seq = m.seq
<1>1. /\ k.node = m.peer /\ k.seq = m.seq /\ k.ts = m.ts
      /\ k.scoped = root.scoped /\ k.phase = root.phase
      /\ k = [node |-> m.peer, seq |-> m.seq, ts |-> m.ts, scoped |-> root.scoped, phase |-> root.phase]
  BY DEF ChildKey, RootType
<1>2. m.peer \in Nodes /\ m.seq \in Nat \ {0} /\ m.ts \in Nat \ {0} /\ Met(g, m.peer, m.seq, m.ts)
  BY DEF MeetsPeer
<1>3. root.scoped \in BOOLEAN /\ root.phase \in 1..3
  BY DEF RootType
<1>4. k \in Key
  BY <1>1, <1>2, <1>3 DEF Key
<1>5. QED
  BY <1>1, <1>2, <1>4 DEF Clocked

\* The rows of a fetch are those of the plain definition.
LEMMA FetchedRowOf ==
    ASSUME log \in Log, NEW keys, NEW n \in Nat, DOMAIN keys = 1..n, SameView(keys),
           \A i \in 1..n : keys[i] \in Key, NEW pool \in Pool
    PROVE  /\ DOMAIN Fetched(keys, pool) = Range(keys)
           /\ \A k \in Range(keys) : Fetched(keys, pool)[k] = RowOf(log, k, pool)
<1> DEFINE answers == Call(log, keys, pool).rows
           place(k) == CHOOSE i \in DOMAIN keys : keys[i] = k
<1>1. \A i \in 1..n : answers[i] = RowOf(log, keys[i], pool)
  <2>1. log \in Logs
    BY LogIsLogs
  <2>2. QED
    BY <2>1, CallRowOf
<1>2. \A k \in Range(keys) : place(k) \in 1..n /\ keys[place(k)] = k
  BY DEF Range
<1>3. Fetched(keys, pool) = [k \in Range(keys) |-> answers[place(k)]]
  BY DEF Fetched
<1> HIDE DEF answers, place
<1>4. QED
  BY <1>1, <1>2, <1>3

\* The facts of a row stay.
LEMMA FactsStay ==
    ASSUME NEW g \in Log, NEW e \in Payment \cup Binding, NEW h, h = Append(g, e),
           NEW k, NEW row, NEW pool \in Pool, FreshFacts(g, k, row, pool)
    PROVE  FreshFacts(h, k, row, pool)
<1>1. k \in Key /\ k.seq <= Len(g) + 1 /\ Clocked(g, k) /\ SettledIn(g, k, row, pool)
  BY DEF FreshFacts
<1>2. Extends(h, g)
  BY Grown
<1>3. k.seq <= Len(h) + 1
  <2>1. Len(g) \in Nat /\ Len(h) = Len(g) + 1 /\ k.seq \in Nat
    BY <1>1 DEF Log, Key
  <2>2. QED
    BY <1>1, <2>1
<1>4. Clocked(h, k)
  <2>1. Known(g, k.node) => /\ Known(h, k.node) /\ FirstSeen(h, k.node) = FirstSeen(g, k.node)
                            /\ Time(h, FirstSeen(h, k.node)) = Time(g, FirstSeen(g, k.node))
    BY <1>2 DEF Extends
  <2>2. QED
    BY <1>1, <2>1 DEF Clocked, Met
<1>5. SettledIn(h, k, row, pool)
  BY <1>1, SettledStays
<1>6. QED
  BY <1>1, <1>3, <1>4, <1>5 DEF FreshFacts

\* A batch that is left alone has the same rows of its last fetch.
LEMMA FreshStays ==
    ASSUME UNCHANGED batchVars
    PROVE  /\ Fresh' = Fresh /\ FreshPool' = FreshPool /\ rows' = rows
           /\ accepted' = accepted /\ first' = first /\ stage' = stage
<1>1. Reached' = Reached
  BY ReachedStays DEF batchVars
<1>2. Fresh' = Fresh /\ FreshPool' = FreshPool
  BY <1>1 DEF Fresh, FreshPool, batchVars
<1>3. QED
  BY <1>2 DEF batchVars

\* The graph grows beside a batch.
LEMMA IngestRows ==
    ASSUME BatchInv, RowsInv, Ingest
    PROVE  RowsInv'
<1>1. PICK e \in Entries : log' = Append(log, e)
  BY DEF Ingest
<1>2. log \in Log /\ e \in Payment \cup Binding /\ UNCHANGED batchVars
  BY BatchAssumption DEF BatchInv, GraphKnown, Ingest
<1>3. FreshPool \in Pool
  BY BatchAssumption DEF FreshPool
<1>4. FreshKnown'
  <2>1. \A k \in Fresh : FreshFacts(log', k, rows[k], FreshPool)
    BY <1>1, <1>2, <1>3, FactsStay DEF RowsInv, FreshKnown
  <2>2. QED
    BY <1>2, <2>1, FreshStays DEF FreshKnown, FreshFacts
<1>5. PeersKnown'
  <2>1. Extends(log', log)
    BY <1>1, <1>2, Grown
  <2>2. \A messages : AllMet(log, messages) => AllMet(log', messages)
    BY <2>1, MetStays DEF AllMet
  <2>3. UNCHANGED <<accepted, first, rows, stage>>
    BY <1>2 DEF batchVars
  <2>4. QED
    BY <2>2, <2>3 DEF RowsInv, PeersKnown
<1>6. QED
  BY <1>4, <1>5 DEF RowsInv

\* A step that leaves both alone.
LEMMA QuietRows ==
    ASSUME RowsInv, log' = log, UNCHANGED batchVars
    PROVE  RowsInv'
<1>1. FreshKnown'
  BY FreshStays DEF RowsInv, FreshKnown
<1>2. PeersKnown'
  <2>1. UNCHANGED <<accepted, first, rows, stage>>
    BY DEF batchVars
  <2>2. QED
    BY <2>1 DEF RowsInv, PeersKnown
<1>3. QED
  BY <1>1, <1>2 DEF RowsInv

\* The rows of the roots.
LEMMA FetchRootsRows ==
    ASSUME BatchInv, FetchRoots
    PROVE  RowsInv'
<1> DEFINE Keys(roots, view) == [i \in DOMAIN roots |-> RootKey(roots[i], view)]
<1>1. PICK roots \in RootSets, view \in Views :
        /\ rows' = Fetched(Keys(roots, view), Roots)
        /\ accepted' = Without(Keys(roots, view), {k \in Range(Keys(roots, view)) : rows'[k].status # "ok"})
        /\ stage' = IF accepted' # <<>> THEN "roots" ELSE "empty"
  BY DEF FetchRoots
<1> DEFINE keys == Keys(roots, view)
           n == Len(roots)
<1>2. /\ roots \in Seq(Accounts \X Cutoffs) /\ view \in BOOLEAN \X (1..3)
      /\ Cutoffs \subseteq Nat \ {0} /\ Roots \in Pool
  BY BatchAssumption
<1>3. n \in Nat /\ DOMAIN keys = 1..n /\ \A i \in 1..n : keys[i] = RootKey(roots[i], view)
  BY <1>2
<1>4. \A i \in 1..n : roots[i][1] \in Accounts /\ roots[i][2] \in Cutoffs
  <2>1. \A i \in 1..n : roots[i] \in Accounts \X Cutoffs
    BY <1>2
  <2>2. QED
    BY <2>1
<1>5. view[1] \in BOOLEAN /\ view[2] \in 1..3
  BY <1>2
<1>6. \A i \in 1..n : /\ keys[i] \in Key /\ keys[i].seq \in Cutoffs /\ keys[i].ts = keys[i].seq
                      /\ keys[i].scoped = view[1] /\ keys[i].phase = view[2]
  BY <1>2, <1>3, <1>4, <1>5 DEF RootKey, Key, Nodes
<1> HIDE DEF n, Keys
<1>7. SameView(keys)
  BY <1>3, <1>6 DEF SameView
<1>8. log \in Log /\ Registered(log) /\ UNCHANGED log
  BY DEF BatchInv, GraphKnown, FetchRoots, graphVars
<1>9. DOMAIN rows' = Range(keys) /\ \A k \in Range(keys) : rows'[k] = RowOf(log, k, Roots)
  BY <1>1, <1>2, <1>3, <1>6, <1>7, <1>8, FetchedRowOf
<1>10. \A k \in Range(keys) : k \in Key /\ k.seq \in Cutoffs /\ k.ts = k.seq
  BY <1>3, <1>6 DEF Range
<1>11. FreshKnown'
  <2>1. Fresh' = Range(keys) /\ FreshPool' = Roots
    <3>1. stage' \in {"roots", "empty"}
      BY <1>1
    <3>2. QED
      BY <1>9, <3>1 DEF Fresh, FreshPool
  <2>2. \A k \in Range(keys) : FreshFacts(log', k, rows'[k], Roots)
    <3>1. \A c \in Cutoffs : c <= Len(log) + 1
      BY <1>8 DEF Registered
    <3>2. QED
      BY <1>8, <1>9, <1>10, <3>1 DEF FreshFacts, Clocked, SettledIn
  <2>3. QED
    BY <2>1, <2>2 DEF FreshKnown, FreshFacts
<1>12. PeersKnown'
  <2> DEFINE bad == {k \in Range(keys) : rows'[k].status # "ok"}
  <2>1. accepted' \in Seq(Range(keys) \ bad)
    <3>1. accepted' = Without(keys, bad)
      BY <1>1
    <3> HIDE DEF bad
    <3>2. QED
      BY <1>3, <3>1, WithoutOthers
  <2>2. ASSUME NEW i \in DOMAIN accepted' PROVE AllMet(log', rows'[accepted'[i]].messages)
    <3> DEFINE k == accepted'[i]
    <3>1. k \in Range(keys) \ bad
      <4> HIDE DEF bad
      <4>1. QED
        BY <2>1, <2>2, MembersIn
    <3>2. k \in Range(keys) /\ rows'[k].status = "ok"
      BY <3>1
    <3>3. k \in Key /\ rows'[k] = RowOf(log, k, Roots) /\ log \in Logs
      BY <1>8, <1>9, <1>10, <3>2, LogIsLogs
    <3> HIDE DEF k, bad
    <3>4. AllMet(log, rows'[k].messages)
      BY <1>2, <3>2, <3>3, RowSplits
    <3>5. QED
      BY <1>8, <3>4 DEF k
  <2>3. stage' # "first"
    BY <1>1
  <2>4. QED
    BY <2>2, <2>3 DEF PeersKnown
<1>13. QED
  BY <1>11, <1>12 DEF RowsInv

\* The slots of the roots.
LEMMA SelectFirstRows ==
    ASSUME BatchInv, RowsInv, SelectFirst
    PROVE  RowsInv'
<1> DEFINE n == Len(accepted)
<1>1. /\ stage = "roots" /\ stage' = "first" /\ first' \in Neighbours(RootMessages, accepted, 1)
      /\ UNCHANGED <<accepted, rows, log>>
  BY DEF SelectFirst, graphVars
<1>2. n \in Nat /\ DOMAIN accepted = 1..n
  BY DEF BatchInv, RootsKnown
<1> HIDE DEF n
<1>3. /\ DOMAIN RootMessages = 1..n
      /\ \A i \in 1..n : /\ RootMessages[i] = rows[accepted[i]].messages
                          /\ accepted[i].seq \in Nat /\ Told(RootMessages[i], accepted[i].seq)
                          /\ AllMet(log, RootMessages[i])
  BY <1>1, <1>2, RootFields DEF RootMessages, BatchInv, RootsTold, RowsInv, PeersKnown
<1>4. ToldEach(RootMessages, accepted, n)
  BY <1>2, <1>3 DEF ToldEach
<1>5. \A i \in 1..n : first'[i] \in Seq(RootMessages[i])
  <2>1. 1 \in 1..2
    OBVIOUS
  <2>2. QED
    BY <1>1, <1>2, <1>4, <2>1, NeighboursMembers
<1>6. \A i \in 1..n : AllMet(log, Range(first'[i]))
  BY <1>3, <1>5, MembersIn DEF AllMet
<1>7. PeersKnown'
  BY <1>1, <1>2, <1>6 DEF PeersKnown
<1>8. FreshKnown'
  <2>1. Fresh' = {}
    BY <1>1 DEF Fresh
  <2>2. QED
    BY <2>1 DEF FreshKnown
<1>9. QED
  BY <1>7, <1>8 DEF RowsInv

\* The rows of the children.
LEMMA FetchChildrenRows ==
    ASSUME BatchInv, RowsInv, FetchChildren
    PROVE  RowsInv'
<1> DEFINE hubs == {k \in Range(Reached) : IsStub(k, Anchor(k))}
           asked == Without(Reached, hubs)
           fetched == Fetched(asked, Children)
           n == Len(asked)
<1>1. /\ stage = "first" /\ stage' = "children" /\ stubs' = hubs
      /\ rows' = [k \in Range(asked) \cup DOMAIN rows |-> IF k \in Range(asked) THEN fetched[k] ELSE rows[k]]
      /\ UNCHANGED <<accepted, first, log>>
  BY DEF FetchChildren, graphVars
<1>2. RootsKnown /\ FirstKnown /\ log \in Log /\ SlotsSequences /\ Registered(log)
  BY <1>1, SlotsKnown DEF BatchInv, GraphKnown
<1>3. /\ asked \in Seq(Range(Reached) \ hubs) /\ Range(Reached) \ hubs \subseteq Range(asked)
  <2>1. Reached \in Seq(Range(Reached))
    BY <1>2, ReachedInSlots
  <2> HIDE DEF hubs
  <2>2. QED
    BY <2>1, MembersIn, WithoutOthers
<1>4. /\ n \in Nat /\ DOMAIN asked = 1..n /\ Range(asked) \subseteq Range(Reached) \ hubs
      /\ \A i \in 1..n : asked[i] \in Range(Reached)
  <2> HIDE DEF hubs, asked
  <2>1. n \in Nat /\ DOMAIN asked = 1..n /\ Range(asked) \subseteq Range(Reached) \ hubs
    BY <1>3, MembersIn
  <2>2. QED
    BY <2>1 DEF Range
<1> HIDE DEF n, asked, hubs
<1>5. SameView(asked)
  BY <1>1, <1>2, <1>4, ContextFields DEF SameView
<1>6. ASSUME NEW k \in Range(Reached)
      PROVE  k \in Key /\ k.seq <= Len(log) + 1 /\ Clocked(log, k)
  <2>1. PICK i \in DOMAIN accepted : k \in Range(SlotKeys(i))
    BY <1>2, ReachedInSlots DEF SlotRange
  <2>2. PICK j \in DOMAIN first[i] : k = ChildKey(first[i][j], accepted[i])
    BY <2>1 DEF SlotKeys, Range
  <2>3. first[i][j] \in Range(first[i])
    BY DEF Range
  <2>4. MeetsPeer(log, first[i][j])
    BY <1>1, <2>3 DEF RowsInv, PeersKnown, AllMet
  <2>5. accepted[i] \in RootType /\ accepted[i].seq \in Cutoffs /\ accepted[i].seq \in Nat
    BY <1>2, RootFields
  <2>6. first[i][j].seq \in Nat /\ first[i][j].seq <= accepted[i].seq
    BY <1>1, <1>2, <2>3 DEF FirstKnown
  <2>7. k \in Key /\ Clocked(log, k) /\ k.seq = first[i][j].seq
    BY <2>2, <2>4, <2>5, ChildIsKey
  <2>8. accepted[i].seq <= Len(log) + 1
    BY <1>2, <2>5 DEF Registered
  <2>9. Len(log) \in Nat
    BY <1>2 DEF Log
  <2>10. QED
    BY <2>5, <2>6, <2>7, <2>8, <2>9
<1>7. \A i \in 1..n : asked[i] \in Key
  BY <1>4, <1>6
<1>8. Children \in Pool
  BY BatchAssumption
<1>9. \A k \in Range(asked) : fetched[k] = RowOf(log, k, Children)
  BY <1>2, <1>4, <1>5, <1>7, <1>8, FetchedRowOf
<1> HIDE DEF fetched
<1>10. Fresh' = Range(Reached) \ hubs /\ FreshPool' = Children
  <2>1. Reached' = Reached
    BY <1>1, ReachedStays
  <2>2. QED
    BY <1>1, <2>1 DEF Fresh, FreshPool
<1>11. FreshKnown'
  <2>1. \A k \in Range(Reached) \ hubs : FreshFacts(log', k, rows'[k], Children)
    <3> SUFFICES ASSUME NEW k \in Range(Reached) \ hubs PROVE FreshFacts(log', k, rows'[k], Children)
      OBVIOUS
    <3>1. k \in Range(asked) /\ k \in Range(Reached)
      BY <1>3
    <3>2. rows'[k] = RowOf(log, k, Children)
      BY <1>1, <1>9, <3>1
    <3>3. QED
      BY <1>1, <1>6, <3>1, <3>2 DEF FreshFacts, SettledIn
  <2>2. QED
    BY <1>10, <2>1 DEF FreshKnown, FreshFacts
<1>12. PeersKnown'
  BY <1>1 DEF PeersKnown
<1>13. QED
  BY <1>11, <1>12 DEF RowsInv

\* What a settled row says is what the reference says.
LEMMA SettledSays ==
    ASSUME NEW g \in Log, NEW k, NEW row, NEW pool \in Pool, FreshFacts(g, k, row, pool)
    PROVE  /\ row.status = "ok" =>
                {m \in row.messages : m.stratum # "association"} = ReferenceMessages(g, k, pool)
           /\ row.status = "invisible_entity" =>
                (k.node \in Accounts /\ ~InPhase(k, k.node)) \/ UnobservedIn(g, k)
           /\ row.status # "ok" /\ row.status # "invisible_entity" =>
                (row.status = "history_capacity_exceeded" <=> Crowded(g, k, pool))
<1>1. k \in Key /\ Clocked(g, k) /\ SettledIn(g, k, row, pool) /\ g \in Logs
  BY LogIsLogs DEF FreshFacts
<1>2. UnobservedIn(g, k) => ~Crowded(g, k, pool)
  BY <1>1, UnobservedFree
<1>3. CASE UnobservedIn(g, k) /\ row.status \in Absent
  BY <1>2, <1>3 DEF Absent
<1>4. CASE row = RowOf(g, k, pool) /\ (~Known(g, k.node) \/ FirstSeen(g, k.node) > k.seq)
  <2>1. UnobservedIn(g, k) /\ row.status \in Absent
    BY <1>1, <1>4, NotMet
  <2>2. QED
    BY <1>3, <2>1
<1>5. CASE row = RowOf(g, k, pool) /\ Known(g, k.node) /\ ~(FirstSeen(g, k.node) > k.seq)
  <2> DEFINE f == FirstSeen(g, k.node)
             t == Time(g, f)
  <2>1. f \in DOMAIN g
    BY <1>1, <1>5, FirstIs
  <2>2. f \in Nat /\ t \in Nat /\ t <= f
    BY <1>1, <2>1, EntryKinds
  <2>3. k.seq \in Nat /\ k.ts \in Nat
    BY <1>1 DEF Key
  <2>4. Seen(g, k) <=> (k.node \in Accounts => InPhase(k, k.node))
    <3>1. k.ts = k.seq \/ t <= k.ts
      BY <1>1 DEF Clocked, Met
    <3>2. f <= k.seq
      <4> HIDE DEF f, t
      <4>1. ~(f > k.seq)
        BY <1>5 DEF f
      <4>2. QED
        BY <2>2, <2>3, <4>1
    <3>3. t <= k.ts
      <4> HIDE DEF f, t
      <4>1. QED
        BY <2>2, <2>3, <3>1, <3>2
    <3>4. QED
      BY <3>2, <3>3 DEF Seen
  <2>5. CASE ~Seen(g, k)
    <3>1. row.status = "invisible_entity"
      BY <1>5, <2>5 DEF RowOf, RefusedRow
    <3>2. QED
      BY <2>4, <2>5, <3>1
  <2>6. CASE Seen(g, k)
    <3>1. row = PlainRow(g, k, pool)
      BY <1>5, <2>6 DEF RowOf
    <3>2. /\ row.status # "invisible_entity"
          /\ row.status = "history_capacity_exceeded" <=> Crowded(g, k, pool)
      BY <3>1 DEF PlainRow, RefusedRow
    <3>3. row.status = "ok" =>
            {m \in row.messages : m.stratum # "association"} = ReferenceMessages(g, k, pool)
      BY <1>1, <1>5, RowSplits
    <3>4. QED
      BY <3>2, <3>3
  <2>7. QED
    BY <2>5, <2>6
<1>6. QED
  BY <1>1, <1>3, <1>4, <1>5 DEF SettledIn

\* The facts of the rows say what the properties do.
LEMMA RowsSay ==
    ASSUME BatchInv, RowsInv
    PROVE  RowsAsReference /\ AnswersIndependent
<1>1. log \in Log /\ FreshPool \in Pool
  BY BatchAssumption DEF BatchInv, GraphKnown, FreshPool
<1>2. \A k \in Fresh : FreshFacts(log, k, rows[k], FreshPool)
  BY DEF RowsInv, FreshKnown
<1>3. \A k : UnobservedIn(log, k) <=> Unobserved(k)
  BY DEF UnobservedIn, Unobserved
<1>4. RowsAsReference
  <2>1. ASSUME NEW k \in Fresh
        PROVE  /\ rows[k].status = "ok" =>
                    {m \in rows[k].messages : m.stratum # "association"} = ReferenceMessages(log, k, FreshPool)
               /\ rows[k].status = "invisible_entity" =>
                    (k.node \in Accounts /\ ~InPhase(k, k.node)) \/ Unobserved(k)
               /\ rows[k].status # "ok" /\ rows[k].status # "invisible_entity" =>
                    (rows[k].status = "history_capacity_exceeded" <=> Crowded(log, k, FreshPool))
    BY <1>1, <1>2, <1>3, SettledSays
  <2>2. QED
    BY <2>1 DEF RowsAsReference, Crowded
<1>5. AnswersIndependent
  <2>1. ASSUME NEW k \in Fresh
        PROVE  \/ rows[k] = Call(Past(log, k.seq, k), <<k>>, FreshPool).rows[1]
               \/ Unobserved(k) /\ rows[k].status \in Absent
    <3>1. k \in Key /\ SettledIn(log, k, rows[k], FreshPool)
      BY <1>2 DEF FreshFacts
    <3>2. QED
      BY <1>1, <1>3, <3>1, SettledAlone
  <2>2. QED
    BY <2>1 DEF AnswersIndependent, Absent
<1>6. QED
  BY <1>4, <1>5

\* The rows of a batch are settled.
LEMMA RowsInvariant == Spec => []RowsInv
<1>1. Init => RowsInv
  BY DEF Init, RowsInv, FreshKnown, PeersKnown, Fresh
<1>2. BatchInv /\ RowsInv /\ [Next]_vars => RowsInv'
  <2> SUFFICES ASSUME BatchInv, RowsInv, [Next]_vars PROVE RowsInv'
    OBVIOUS
  <2>1. CASE Ingest
    BY <2>1, IngestRows
  <2>2. CASE Prepare \/ UNCHANGED vars
    <3>1. log' = log /\ UNCHANGED batchVars
      BY <2>2 DEF Prepare, vars, graphVars, batchVars
    <3>2. QED
      BY <3>1, QuietRows
  <2>3. CASE FetchRoots
    BY <2>3, FetchRootsRows
  <2>4. CASE SelectFirst
    BY <2>4, SelectFirstRows
  <2>5. CASE FetchChildren
    BY <2>5, FetchChildrenRows
  <2>6. CASE Assemble \/ RefuseDraw
    <3>1. stage' \in {"done", "failed"}
      BY <2>6 DEF Assemble, RefuseDraw
    <3>2. Fresh' = {}
      BY <3>1 DEF Fresh
    <3>3. QED
      BY <3>1, <3>2 DEF RowsInv, FreshKnown, PeersKnown
  <2>7. QED
    BY <2>1, <2>2, <2>3, <2>4, <2>5, <2>6 DEF Next
<1>3. QED
  BY <1>1, <1>2, BatchInvariant, PTL DEF Spec

\* Whatever the graph, its growth, the pools, the requests of a call and the view: a row that is
\* answered holds the payments of the plain definition with their strata, pair histories and flows,
\* and a request fails for its capacity exactly when a relation has too long a history.
THEOREM RowsCorrect == Spec => []RowsAsReference
BY RowsSay, RowsInvariant, BatchInvariant, PTL

\* A row is what the query answers to that request alone, on a graph without what came after its
\* cutoff and without the accounts of later partitions, or says that its entity is not there.
THEOREM AnswersCorrect == Spec => []AnswersIndependent
BY RowsSay, RowsInvariant, BatchInvariant, PTL

===============================================================================
