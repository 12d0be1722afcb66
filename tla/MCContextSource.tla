--------------------------- MODULE MCContextSource ---------------------------
(* Small instances of ContextSource: the requests and the key lists of the runs. *)
EXTENDS ContextSource, TLC

CONSTANTS k1, k2, k3

AllRequests == Requests

\* The same keys in both orders and a part of them: fetches hit, claim and await in every mix.
CrossedLists == {<<k1, k2>>, <<k2, k1>>, <<k2>>}

\* Two keys and one of them: a fetch claims one key and awaits the other.
NestedLists == {<<k1, k2>>, <<k2>>}

\* Crossed and overlapping lists of three contexts, so that the LRU churns.
ChurningLists == {<<k1, k2>>, <<k2, k1>>, <<k2, k3>>}

\* Fetches are interchangeable, and so are workers (safety only).
Symmetry == Permutations(Fetches) \cup Permutations(Workers)
===============================================================================
