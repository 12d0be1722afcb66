------------------------------ MODULE MemoryTier ------------------------------
(***************************************************************************)
(* The in-memory LRU of data/context_cache.py: MemoryTier.                 *)
(*                                                                         *)
(* The OrderedDict is the set of keys it holds and the order of their last *)
(* use: <<j, k>> is in older when j stands before k and is dropped first.  *)
(* Rows are determined by their key, so only the keys are kept.            *)
(***************************************************************************)
EXTENDS Integers, Sequences, FiniteSets

CONSTANTS
    Contexts,  \* the (hop, ContextKey) pairs
    Capacity   \* the rows the LRU keeps

ASSUME MemoryAssumption ==
    /\ IsFiniteSet(Contexts)
    /\ Capacity \in Nat

VARIABLES memory, older

memoryVars == <<memory, older>>

MemoryInit == memory = {} /\ older = {}

KeysOf(keys) == {keys[i] : i \in DOMAIN keys}

\* The position of a key in a sequence without duplicates.
Position(keys, k) == CHOOSE i \in DOMAIN keys : keys[i] = k

\* get: the keys held; their recency stays.
Held(keys) == KeysOf(keys) \cap memory

\* put: keep the rows obtained, make every key of the fetch the most recent in the
\* fetch's order, and only then drop the least recent beyond the capacity.
Put(keys, rows) ==
    LET touched == KeysOf(keys) \cap (rows \cup memory)
        kept == memory \cup touched
        order ==
            {p \in kept \X kept :
                /\ p[1] \in touched =>
                     p[2] \in touched /\ Position(keys, p[1]) < Position(keys, p[2])
                /\ p[2] \notin touched => p \in older}
        survivors ==
            {k \in kept : Cardinality({j \in kept : <<k, j>> \in order}) < Capacity}
    IN /\ memory' = survivors
       /\ older' = order \cap (survivors \X survivors)

\* close: rows.clear()
Clear == memory' = {} /\ older' = {}
===============================================================================
