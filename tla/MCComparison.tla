---------------------------- MODULE MCComparison ----------------------------
(* Two variants of two seeds on a split of three mules, two of one ring and one of them     *)
(* known, and three others.                                                                *)
EXTENDS Comparison, TLC

MCPlan == <<[variant |-> "baseline", seed |-> 1], [variant |-> "longer", seed |-> 1],
            [variant |-> "baseline", seed |-> 2], [variant |-> "longer", seed |-> 2]>>
MCRing == <<7, 7, NoRing>>

Good == <<3, 1, 0, 1, -1, -2>>
Tied == <<1, 1, 0, 1, 0, 0>>
Better == <<3, 2, 1, 1, -1, -3>>
Reversed == <<-2, -1, 1, 1, 4, 0>>

MCModels == <<{Good, Tied}, {Good, Better}, {Good}, {Better, Reversed}>>

MCGenerators ==
    {[accounts |-> <<<<0, 1, 0, 1, 2>>, <<1, 1, 2, 0, 0>>, <<2, 0, 1, 1, 1>>>>,
      seeds |-> <<<<0, 0>>, <<1, 0>>, <<1, 1>>>>]}
=============================================================================
