---------------------------- MODULE MCContextQuery ----------------------------
(* A block of contexts, and another thread that makes a query and then a write. *)
EXTENDS ContextQuery

CONSTANTS query, write

ThreeKeys == <<"a", "b", "c">>
QueryThenWrite == <<query, write>>

Caps == [o \in Calls |-> IF o = write THEN 1 ELSE NoCap]

Retries == [o \in Calls |-> IF o \in Parts /\ Size(o) > 1 THEN 0 ELSE 1]
===============================================================================
