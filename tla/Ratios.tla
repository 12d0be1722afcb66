------------------------------- MODULE Ratios -------------------------------
(* Fractions in lowest terms, for the averages that the code computes in floating point. *)
EXTENDS Integers, FiniteSets, FiniteSetsExt

\* Euclid's algorithm.
Divisor(m, n) ==
    LET euclid[a \in Nat, b \in Nat] == IF b = 0 THEN a ELSE euclid[b, a % b]
    IN euclid[m, n]

Ratio(n, d) ==
    LET common == Divisor(IF n < 0 THEN -n ELSE n, d)
    IN [num |-> n \div common, den |-> d \div common]

Zero == Ratio(0, 1)

\* Over the least common denominator, so that the numbers stay small.
Plus(p, q) ==
    LET common == Divisor(p.den, q.den)
    IN Ratio(p.num * (q.den \div common) + q.num * (p.den \div common),
             p.den * (q.den \div common))

Minus(p, q) == Plus(p, [q EXCEPT !.num = -@])
Times(p, q) == Ratio(p.num * q.num, p.den * q.den)
AtMost(p, q) == Minus(p, q).num <= 0

SumOver(set, term(_)) == FoldSet(LAMBDA x, sum : Plus(term(x), sum), Zero, set)
MeanOver(set, term(_)) == Times(SumOver(set, term), Ratio(1, Cardinality(set)))
=============================================================================
