----------------------------- MODULE SharedReads -----------------------------
(***************************************************************************)
(* What data/contexts.py promises the builders that share one source, with *)
(* the LRU, the disk, the request pool and the counters left out: a key    *)
(* has at most one reader at a time, and a fetch that meets a key another  *)
(* one reads waits for that reader's verdict, takes its row or fails with  *)
(* it, and never waits before its own keys are settled.                    *)
(***************************************************************************)
CONSTANTS
    Readers,
    Keys,
    Nobody   \* no reader: not one of Readers

VARIABLES
    reader,    \* who reads each key
    verdict,   \* what became of the keys each reader took on
    awaits,    \* the readers each fetch depends on
    stage      \* where each fetch is

readVars == <<reader, verdict, awaits, stage>>

Undecided == [r \in Readers |-> "open"]

Init ==
    /\ reader = [k \in Keys |-> Nobody]
    /\ verdict = Undecided
    /\ awaits = [r \in Readers |-> {}]
    /\ stage = [r \in Readers |-> "new"]

Free(r) == [k \in Keys |-> IF reader[k] = r THEN Nobody ELSE reader[k]]

Moves(r, from, to) ==
    /\ stage[r] = from
    /\ stage' = [stage EXCEPT ![r] = to]

\* Take on keys nobody reads, and depend on the readers of the others.
Ask(r) ==
    /\ Moves(r, "new", "reading")
    /\ \E mine \in SUBSET {k \in Keys : reader[k] = Nobody} :
         reader' = [k \in Keys |-> IF k \in mine THEN r ELSE reader[k]]
    /\ \E others \in SUBSET {reader[k] : k \in Keys} :
         /\ Nobody \notin others
         /\ awaits' = [awaits EXCEPT ![r] = others]
    /\ UNCHANGED verdict

Refuse(r) ==
    /\ Moves(r, "new", "raised")
    /\ UNCHANGED <<reader, verdict, awaits>>

\* Every key taken on was obtained.
Publish(r) ==
    /\ Moves(r, "reading", "waiting")
    /\ reader' = Free(r)
    /\ verdict' = [verdict EXCEPT ![r] = "answered"]
    /\ UNCHANGED awaits

\* One of them could not be: those who depend on r learn it, then the keys are free.
Fail(r) ==
    /\ Moves(r, "reading", "failing")
    /\ verdict' = [verdict EXCEPT ![r] = "failed"]
    /\ UNCHANGED <<reader, awaits>>

GiveUp(r) ==
    /\ Moves(r, "failing", "raised")
    /\ reader' = Free(r)
    /\ UNCHANGED <<verdict, awaits>>

Return(r) ==
    /\ Moves(r, "waiting", "returned")
    /\ \A other \in awaits[r] : verdict[other] = "answered"
    /\ UNCHANGED <<reader, verdict, awaits>>

Raise(r) ==
    /\ Moves(r, "waiting", "raised")
    /\ \E other \in awaits[r] : verdict[other] = "failed"
    /\ UNCHANGED <<reader, verdict, awaits>>

Proceeds(r) == Publish(r) \/ Fail(r) \/ GiveUp(r) \/ Return(r) \/ Raise(r)

Next == \E r \in Readers : Ask(r) \/ Refuse(r) \/ Proceeds(r)

\* Safety alone: what a fetch may do.  A closed source may leave one waiting for ever.
SafeSpec == Init /\ [][Next]_readVars
===============================================================================
