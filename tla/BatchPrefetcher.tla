--------------------------- MODULE BatchPrefetcher ---------------------------
(***************************************************************************)
(* BatchPrefetcher of runtime/workers.py: a consumer thread iterates over  *)
(* batches that the threads of a DaemonPool build ahead of it.  The items  *)
(* are 1..Items in input order, and building item i is call i of the pool. *)
(*                                                                         *)
(* The consumer thread runs the generator (__iter__, _fill), the body of   *)
(* the loop over it and the end of its with block; an error or Ctrl-C may  *)
(* end it while it fills, waits or consumes.  depth = 0 (every item built  *)
(* inline, no pool) has no concurrency and is left out.                    *)
(***************************************************************************)
EXTENDS DaemonPool

CONSTANT Items   \* how many items the input yields

ASSUME PrefetchAssumption ==
    /\ Items \in Nat
    /\ Calls = 1..Items
    /\ Workers # {}

VARIABLES
    at,        \* where the consumer thread is
    taken,     \* how many items were drawn from the input
    pending,   \* the builds submitted and not yet awaited, in order
    current,   \* the build popped last, 0 before the first
    delivered, \* the items whose results the consumer was given, in order
    stopped

prefetchVars == <<at, taken, pending, current, delivered, stopped>>
streamVars == <<poolVars, prefetchVars>>

Depth == Cardinality(Workers)

Points == {"filling", "popping", "waiting", "refilling", "consuming",
            "unwinding", "closing", "joining", "ended", "raised"}

StreamInit ==
    /\ PoolInit
    /\ at = "filling"
    /\ taken = 0
    /\ pending = <<>>
    /\ current = 0
    /\ delivered = <<>>
    /\ stopped = FALSE

-------------------------------------------------------------------------------
(* The generator. *)

Filling == at \in {"filling", "refilling"}

\* _fill draws the next item and submits its build, while fewer than depth are pending.
Fill ==
    /\ Filling
    /\ ~stopped
    /\ Len(pending) < Depth
    /\ taken < Items
    /\ Submit(taken + 1)
    /\ taken' = taken + 1
    /\ pending' = Append(pending, taken + 1)
    /\ UNCHANGED <<at, current, delivered, stopped>>

\* _fill returns: the loop begins, or the result awaited before is yielded.
Filled ==
    /\ Filling
    /\ stopped \/ Len(pending) >= Depth \/ taken = Items
    /\ IF at = "filling"
       THEN at' = "popping" /\ UNCHANGED delivered
       ELSE at' = "consuming" /\ delivered' = Append(delivered, current)
    /\ UNCHANGED <<poolVars, taken, pending, current, stopped>>

Pop ==
    /\ at = "popping"
    /\ pending # <<>>
    /\ current' = Head(pending)
    /\ pending' = Tail(pending)
    /\ at' = "waiting"
    /\ UNCHANGED <<poolVars, taken, delivered, stopped>>

\* Nothing is pending any more: the generator closes the prefetcher and waits.
Exhaust ==
    /\ at = "popping"
    /\ pending = <<>>
    /\ at' = "closing"
    /\ UNCHANGED <<poolVars, taken, pending, current, delivered, stopped>>

\* Mutant: a build that failed is skipped.
AwaitSkips ==
    /\ at = "waiting"
    /\ \/ future[current] = "finished" /\ at' = "refilling"
       \/ future[current] \in {"failed", "cancelled", "notified"} /\ at' = "popping"
    /\ UNCHANGED <<poolVars, taken, pending, current, delivered, stopped>>

\* result() returns or raises what the build left.
Await ==
    /\ at = "waiting"
    /\ \/ future[current] = "finished" /\ at' = "refilling"
       \/ future[current] \in {"failed", "cancelled", "notified"} /\ at' = "unwinding"
    /\ UNCHANGED <<poolVars, taken, pending, current, delivered, stopped>>

-------------------------------------------------------------------------------
(* The body of the loop and the ways iteration ends early. *)

\* A client's loop takes the result it was handed and asks for the next one.
Yielded ==
    /\ at = "consuming"
    /\ at' = "popping"
    /\ UNCHANGED <<poolVars, taken, pending, current, delivered, stopped>>

\* An error in the body, or Ctrl-C wherever the consumer thread is.
Interrupt ==
    /\ at \in {"filling", "refilling", "waiting", "consuming"}
    /\ at' = "unwinding"
    /\ UNCHANGED <<poolVars, taken, pending, current, delivered, stopped>>

Pending == {pending[i] : i \in DOMAIN pending}

\* cancel: no more items, and the builds not yet awaited are cancelled ...
CancelPending ==
    /\ at \in {"unwinding", "closing"}
    /\ ~stopped
    /\ stopped' = TRUE
    /\ Cancel(Pending)
    /\ pending' = <<>>
    /\ UNCHANGED <<at, taken, current, delivered>>

\* ... then the pool is shut down without waiting; an error propagates at once, and a
\* normal end or a break joins the workers next.
StopPool ==
    /\ at \in {"unwinding", "closing"}
    /\ stopped
    /\ Shutdown(TRUE)
    /\ at' = IF at = "unwinding" THEN "raised" ELSE "joining"
    /\ UNCHANGED <<taken, pending, current, delivered, stopped>>

Join ==
    /\ at = "joining"
    /\ Joined
    /\ at' = "ended"
    /\ UNCHANGED <<poolVars, taken, pending, current, delivered, stopped>>

-------------------------------------------------------------------------------
(* The workers build. *)

Build(w) == WorkerStep(w) /\ UNCHANGED prefetchVars

\* What the consumer's thread does by itself; Yielded is a step of its client.
Consumer ==
    \/ Fill \/ Filled \/ Pop \/ Exhaust \/ Await
    \/ CancelPending \/ StopPool \/ Join

\* A new prefetcher.
StreamReset ==
    /\ PoolReset
    /\ at' = "filling"
    /\ taken' = 0
    /\ pending' = <<>>
    /\ current' = 0
    /\ delivered' = <<>>
    /\ stopped' = FALSE

-------------------------------------------------------------------------------
(* Properties. *)

\* Every variable has its type.
StreamTypeOK ==
    /\ PoolTypeOK
    /\ at \in Points
    /\ taken \in 0..Items
    /\ pending \in Seq(Calls)
    /\ current \in 0..Items
    /\ delivered \in Seq(Calls)
    /\ stopped \in BOOLEAN
===============================================================================
