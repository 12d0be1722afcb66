------------------------------ MODULE DaemonPool ------------------------------
(***************************************************************************)
(* The worker pool of runtime/workers.py: DaemonPool runs submitted calls  *)
(* on at most Cardinality(Workers) daemon threads.  Its clients hold the   *)
(* concurrent.futures.Future of every call they submitted.                 *)
(*                                                                         *)
(* The life of a future is CPython's: cancel() moves a pending future to   *)
(* "cancelled"; only the worker that takes it out of the queue later moves *)
(* it on to "notified" (CANCELLED_AND_NOTIFIED), and that second move is   *)
(* the one that wakes concurrent.futures.wait().                           *)
(***************************************************************************)
EXTENDS Integers, Sequences, FiniteSets

CONSTANTS
    Calls,     \* the calls clients may submit, each at most once
    Workers,   \* the threads the pool may start
    NoCall,    \* what a worker holds between two calls
    Stop       \* the None sentinel that ends one worker

ASSUME PoolAssumption ==
    /\ NoCall \notin Calls
    /\ Stop \notin Calls
    /\ IsFiniteSet(Workers)

VARIABLES
    future,    \* the state of every call's Future
    queue,     \* _queue: submitted calls and sentinels, in order
    thread,    \* _threads: which workers were started, which have returned
    held,      \* the call a worker took out of the queue and has not finished
    shutdown   \* _shutdown

poolVars == <<future, queue, thread, held, shutdown>>

FutureStates ==
    {"unsubmitted", "pending", "running", "finished", "failed",
     "cancelled", "notified"}

\* The states in which concurrent.futures.wait() reports a future as done.
Settled == {"finished", "failed", "notified"}

ThreadStates == {"unstarted", "started", "stopped"}

PoolInit ==
    /\ future = [c \in Calls |-> "unsubmitted"]
    /\ queue = <<>>
    /\ thread = [w \in Workers |-> "unstarted"]
    /\ held = [w \in Workers |-> NoCall]
    /\ shutdown = FALSE

\* Another pool, its workers those of no earlier one.
PoolReset ==
    /\ future' = [c \in Calls |-> "unsubmitted"]
    /\ queue' = <<>>
    /\ thread' = [w \in Workers |-> "unstarted"]
    /\ held' = [w \in Workers |-> NoCall]
    /\ shutdown' = FALSE

-------------------------------------------------------------------------------
(* Client operations. *)

\* submit: queue the call and, while fewer threads than workers exist, start one.
Submit(c) ==
    /\ ~shutdown
    /\ future[c] = "unsubmitted"
    /\ future' = [future EXCEPT ![c] = "pending"]
    /\ queue' = Append(queue, c)
    /\ \/ \E w \in Workers :
            /\ thread[w] = "unstarted"
            /\ thread' = [thread EXCEPT ![w] = "started"]
       \/ /\ \A w \in Workers : thread[w] # "unstarted"
          /\ UNCHANGED thread
    /\ UNCHANGED <<held, shutdown>>

\* The futures once those of S are cancelled: a call that runs or has ended is left.
Cancelled(S) ==
    [c \in Calls |-> IF c \in S /\ future[c] = "pending"
                     THEN "cancelled" ELSE future[c]]

\* Future.cancel() on every call of S; the queue keeps them.
Cancel(S) ==
    /\ future' = Cancelled(S)
    /\ UNCHANGED <<queue, thread, held, shutdown>>

Started == {w \in Workers : thread[w] # "unstarted"}

Queued == {queue[i] : i \in DOMAIN queue}

\* Mutant: one sentinel for all threads.
ShutdownStopsOne(cancelFutures) ==
    /\ ~shutdown
    /\ shutdown' = TRUE
    /\ queue' = Append(IF cancelFutures THEN <<>> ELSE queue, Stop)
    /\ future' = IF cancelFutures THEN Cancelled(Queued) ELSE future
    /\ UNCHANGED <<thread, held>>

\* The first shutdown: with cancel_futures the queue is drained and what it held is
\* cancelled, then every started thread gets its sentinel.
Shutdown(cancelFutures) ==
    LET sentinels == [i \in 1..Cardinality(Started) |-> Stop]
    IN /\ ~shutdown
       /\ shutdown' = TRUE
       /\ IF cancelFutures
          THEN /\ queue' = sentinels
               /\ future' = Cancelled(Queued)
          ELSE /\ queue' = queue \o sentinels
               /\ UNCHANGED future
       /\ UNCHANGED <<thread, held>>

\* What shutdown(wait=True) blocks on: every started thread has returned.
Joined == \A w \in Workers : thread[w] # "started"

-------------------------------------------------------------------------------
(* Worker steps: _pool_worker. *)

\* work.get(): the oldest item, a call to run or the sentinel to stop at.
Take(w) ==
    /\ thread[w] = "started"
    /\ held[w] = NoCall
    /\ queue # <<>>
    /\ queue' = Tail(queue)
    /\ \/ /\ Head(queue) = Stop
          /\ thread' = [thread EXCEPT ![w] = "stopped"]
          /\ UNCHANGED held
       \/ /\ Head(queue) # Stop
          /\ held' = [held EXCEPT ![w] = Head(queue)]
          /\ UNCHANGED thread
    /\ UNCHANGED <<future, shutdown>>

\* set_running_or_notify_cancel(): run the call, or drop it when it was cancelled.
Start(w) ==
    /\ held[w] # NoCall
    /\ \/ /\ future[held[w]] = "pending"
          /\ future' = [future EXCEPT ![held[w]] = "running"]
          /\ UNCHANGED held
       \/ /\ future[held[w]] = "cancelled"
          /\ future' = [future EXCEPT ![held[w]] = "notified"]
          /\ held' = [held EXCEPT ![w] = NoCall]
    /\ UNCHANGED <<queue, thread, shutdown>>

\* The call ended: set_result ("finished") or set_exception ("failed").
Finish(w, outcome) ==
    /\ held[w] # NoCall
    /\ future[held[w]] = "running"
    /\ future' = [future EXCEPT ![held[w]] = outcome]
    /\ held' = [held EXCEPT ![w] = NoCall]
    /\ UNCHANGED <<queue, thread, shutdown>>

-------------------------------------------------------------------------------
WorkerStep(w) ==
    \/ Take(w)
    \/ Start(w)
    \/ \E outcome \in {"finished", "failed"} : Finish(w, outcome)

-------------------------------------------------------------------------------
(* Properties. *)

\* Every pool variable has its type; the queue holds calls and sentinels only.
PoolTypeOK ==
    /\ future \in [Calls -> FutureStates]
    /\ queue \in Seq(Calls \cup {Stop})
    /\ thread \in [Workers -> ThreadStates]
    /\ held \in [Workers -> Calls \cup {NoCall}]
    /\ shutdown \in BOOLEAN

===============================================================================
