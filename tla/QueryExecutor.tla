---------------------------- MODULE QueryExecutor ----------------------------
(***************************************************************************)
(* The retrying executor of tigergraph/executor.py: request threads call   *)
(* one TigerGraph server through _retry, which classifies every failure,   *)
(* retries it under the budget of its class and shares one "backoff until" *)
(* time between the threads.                                               *)
(*                                                                         *)
(* A member of Ops is one call of _retry on a thread of its own.  Time is  *)
(* discrete, and the code only ever compares differences of times, so that *)
(* every time is kept relative to the present: what is left of a pause,    *)
(* how long ago an attempt or an outage began.                             *)
(***************************************************************************)
EXTENDS Integers, FiniteSets

CONSTANTS
    Ops,             \* the calls of _retry
    Attempts,        \* the attempts argument of each: an absolute cap, or NoCap
    NoCap,
    TimeoutRetries,  \* timeout_retries of each
    MaxAttempts,     \* max_attempts
    MaxOutage,       \* max_outage_s
    SlowAttempt,     \* slow_attempt_s
    BaseDelay,       \* base_delay_s
    MaxDelay,        \* max_delay_s
    HangLimit        \* how long an attempt may last: the read timeout of every session

ASSUME ExecutorAssumption ==
    /\ IsFiniteSet(Ops)
    /\ NoCap \notin Nat
    /\ Attempts \in [Ops -> (Nat \ {0}) \cup {NoCap}]
    /\ TimeoutRetries \in [Ops -> Nat]
    /\ MaxAttempts \in Nat \ {0}
    /\ MaxOutage \in Nat
    /\ SlowAttempt \in Nat
    /\ BaseDelay \in Nat \ {0}
    /\ MaxDelay \in Nat /\ BaseDelay <= MaxDelay
    /\ HangLimit \in Nat

VARIABLES
    at,        \* where each operation is, or how it ended
    backoff,   \* what is left until _backoff_until, shared by every thread
    sleep,     \* what is left of each operation's sleep
    elapsed,   \* how long its attempt has been under way: now - started
    outage,    \* how long ago its outage began: now - outage_started, or NoOutage
    tally      \* its counters: total, counted, timeouts, deterministic, outages

vars == <<at, backoff, sleep, elapsed, outage, tally>>

\* Failure classes; an error of no class is permanent.
Kinds == {"availability", "server_timeout", "deterministic"}
Permanent == "permanent"

\* What a call may raise: the type of the error; of its HTTP response the status, if there
\* was one, and whether the body is a page; TigerGraph's code REST-3002; and which of the
\* known phrases the message has.
NoResponse == 0
Statuses == {NoResponse, 400, 404, 408, 429, 500, 502, 503, 504}
Phrases == {"unavailable", "timed out", "cannot parse json", "out of memory"}
Errors ==
    [type : {"ServerTimeoutError", "TransientQueryError", "JSONDecodeError", "HTTPError",
             "ConnectionError", "Timeout", "TigerGraphException", "other"},
     status : Statuses, html : BOOLEAN, timeout_code : BOOLEAN, says : SUBSET Phrases]

\* _message_class: a proxy's page that could not be parsed is an outage.
MessageClass(e) ==
    IF "unavailable" \in e.says \/ ("cannot parse json" \in e.says /\ e.html)
      THEN "availability"
    ELSE IF "timed out" \in e.says THEN "server_timeout"
    ELSE IF e.says # {} THEN "deterministic"
    ELSE Permanent

\* _http_class: a 500 with nothing known in its body would come again.
HttpClass(e) ==
    IF e.status = NoResponse THEN "availability"
    ELSE IF e.timeout_code THEN "server_timeout"
    ELSE IF e.status # 500
      THEN IF e.status > 500 \/ e.status \in {408, 429} THEN "availability" ELSE Permanent
    ELSE IF e.html THEN "availability"
    ELSE IF MessageClass(e) = Permanent THEN "deterministic" ELSE MessageClass(e)

FailureClass(e) ==
    CASE e.type \in {"ServerTimeoutError", "Timeout"} -> "server_timeout"
      [] e.type \in {"TransientQueryError", "ConnectionError"} -> "availability"
      [] e.type = "JSONDecodeError" -> IF e.html THEN "availability" ELSE "deterministic"
      [] e.type = "HTTPError" -> HttpClass(e)
      [] e.type = "TigerGraphException" ->
           IF e.timeout_code THEN "server_timeout" ELSE MessageClass(e)
      [] OTHER -> Permanent

\* The classes an attempt may fail with.
Classes == {FailureClass(e) : e \in Errors}

\* The error each class raises once its retries run out.
Endings == {"unavailable", "server_timeout", "transient"}

Over == Endings \cup {"returned", "permanent"}

NoOutage == -1

NoTally == [total |-> 0, counted |-> 0, timeouts |-> 0, deterministic |-> 0, outages |-> 0]

Init ==
    /\ at = [o \in Ops |-> "idle"]
    /\ backoff = 0
    /\ sleep = [o \in Ops |-> 0]
    /\ elapsed = [o \in Ops |-> 0]
    /\ outage = [o \in Ops |-> NoOutage]
    /\ tally = [o \in Ops |-> NoTally]

-------------------------------------------------------------------------------
(* One operation. *)

\* A new operation first waits for the backoff another thread has set.
Begin(o) ==
    /\ at[o] = "idle"
    /\ at' = [at EXCEPT ![o] = "pausing"]
    /\ sleep' = [sleep EXCEPT ![o] = backoff]
    /\ UNCHANGED <<backoff, elapsed, outage, tally>>

\* Mutant: the counters are set up anew in every turn of the loop.
AttemptRecounts(o) ==
    /\ at[o] = "pausing"
    /\ sleep[o] = 0
    /\ at' = [at EXCEPT ![o] = "calling"]
    /\ tally' = [tally EXCEPT ![o] = [NoTally EXCEPT !.total = 1]]
    /\ UNCHANGED <<backoff, sleep, elapsed, outage>>

\* The next turn of the loop, once the pause is over.
Attempt(o) ==
    /\ at[o] = "pausing"
    /\ sleep[o] = 0
    /\ at' = [at EXCEPT ![o] = "calling"]
    /\ tally' = [tally EXCEPT ![o].total = @ + 1]
    /\ UNCHANGED <<backoff, sleep, elapsed, outage>>

\* The operation ended; its locals are gone.
End(o, ending) ==
    /\ at[o] = "calling"
    /\ at' = [at EXCEPT ![o] = ending]
    /\ elapsed' = [elapsed EXCEPT ![o] = 0]
    /\ outage' = [outage EXCEPT ![o] = NoOutage]
    /\ tally' = [tally EXCEPT ![o] = NoTally]
    /\ UNCHANGED sleep

\* Any success ends the shared backoff.
Succeed(o) == End(o, "returned") /\ backoff' = 0

\* An error of no failure class propagates at once.
FailForGood(o) == End(o, "permanent") /\ UNCHANGED backoff

\* Every attempt counts but an availability failure that came fast.
Counts(o, kind) == kind # "availability" \/ elapsed[o] >= SlowAttempt

One(condition) == IF condition THEN 1 ELSE 0

\* The counters once an attempt of o has failed with kind.
Tallied(o, kind) ==
    [tally[o] EXCEPT
        !.counted = @ + One(Counts(o, kind)),
        !.timeouts = @ + One(kind = "server_timeout"),
        !.deterministic = @ + One(kind = "deterministic")]

\* The outage of o began with the first attempt that met one.
OutageAge(o) == IF outage[o] = NoOutage THEN elapsed[o] ELSE outage[o]

\* Mutant: the budget of an outage is not looked at, only the attempts that count.
ExhaustedByCount(o, kind) ==
    LET spent == Tallied(o, kind)
    IN \/ kind = "server_timeout" /\ spent.timeouts > TimeoutRetries[o]
       \/ kind = "deterministic" /\ spent.deterministic > 1
       \/ Attempts[o] # NoCap /\ spent.total >= Attempts[o]
       \/ Attempts[o] = NoCap /\ spent.counted >= MaxAttempts

\* Mutant: an explicit cap is compared with the attempts that count, not with all.
ExhaustedUncapped(o, kind) ==
    LET spent == Tallied(o, kind)
    IN \/ kind = "server_timeout" /\ spent.timeouts > TimeoutRetries[o]
       \/ kind = "deterministic" /\ spent.deterministic > 1
       \/ kind = "availability" /\ OutageAge(o) >= MaxOutage
       \/ Attempts[o] # NoCap /\ spent.counted >= Attempts[o]
       \/ Attempts[o] = NoCap /\ spent.counted >= MaxAttempts

\* The budget of the failure's class, then the caps on attempts.
Exhausted(o, kind) ==
    LET spent == Tallied(o, kind)
    IN \/ kind = "server_timeout" /\ spent.timeouts > TimeoutRetries[o]
       \/ kind = "deterministic" /\ spent.deterministic > 1
       \/ kind = "availability" /\ OutageAge(o) >= MaxOutage
       \/ Attempts[o] # NoCap /\ spent.total >= Attempts[o]
       \/ Attempts[o] = NoCap /\ spent.counted >= MaxAttempts

\* Retries ran out: the class of the failure that ended them names the error.
GiveUp(o, kind) ==
    /\ Exhausted(o, kind)
    /\ End(o, CASE kind = "availability" -> "unavailable"
                [] kind = "server_timeout" -> "server_timeout"
                [] kind = "deterministic" -> "transient")
    /\ UNCHANGED backoff

Least(a, b) == IF a <= b THEN a ELSE b

Most(a, b) == IF a >= b THEN a ELSE b

\* delay: equal jitter on a base that is exponential in the outages met, and capped.
Jitter(base) == {d \in 0..MaxDelay : d <= base /\ base <= 2 * d}

Delays(n) == Jitter(Least(MaxDelay, BaseDelay * 2 ^ (n - 1)))

\* Mutant: the pause is added to the backoff that stands.
BackoffAdds(o) ==
    LET spent == [Tallied(o, "availability") EXCEPT !.outages = @ + 1]
        budget == MaxOutage - OutageAge(o)
    IN /\ at[o] = "calling"
       /\ ~Exhausted(o, "availability")
       /\ \E delay \in Delays(spent.outages) :
            backoff' = backoff + Least(delay, Most(budget, 0))
       /\ sleep' = [sleep EXCEPT ![o] = backoff']
       /\ outage' = [outage EXCEPT ![o] = OutageAge(o)]
       /\ tally' = [tally EXCEPT ![o] = spent]
       /\ at' = [at EXCEPT ![o] = "pausing"]
       /\ elapsed' = [elapsed EXCEPT ![o] = 0]

\* An availability failure extends the shared backoff, never beyond what is left of the
\* operation's own budget, and sleeps until its end, whoever set it.
Backoff(o) ==
    LET spent == [Tallied(o, "availability") EXCEPT !.outages = @ + 1]
        budget == MaxOutage - OutageAge(o)
    IN /\ at[o] = "calling"
       /\ ~Exhausted(o, "availability")
       /\ \E delay \in Delays(spent.outages) :
            backoff' = Most(backoff, Least(delay, Most(budget, 0)))
       /\ sleep' = [sleep EXCEPT ![o] = backoff']
       /\ outage' = [outage EXCEPT ![o] = OutageAge(o)]
       /\ tally' = [tally EXCEPT ![o] = spent]
       /\ at' = [at EXCEPT ![o] = "pausing"]
       /\ elapsed' = [elapsed EXCEPT ![o] = 0]

\* The other failures pause their own thread only.
Retry(o, kind) ==
    /\ kind # "availability"
    /\ at[o] = "calling"
    /\ ~Exhausted(o, kind)
    /\ \E delay \in Jitter(BaseDelay) : sleep' = [sleep EXCEPT ![o] = delay]
    /\ tally' = [tally EXCEPT ![o] = Tallied(o, kind)]
    /\ at' = [at EXCEPT ![o] = "pausing"]
    /\ elapsed' = [elapsed EXCEPT ![o] = 0]
    /\ UNCHANGED <<backoff, outage>>

Respond(o) ==
    \/ Succeed(o)
    \/ Permanent \in Classes /\ FailForGood(o)
    \/ \E kind \in Kinds \cap Classes : GiveUp(o, kind) \/ Retry(o, kind)
    \/ "availability" \in Classes /\ Backoff(o)

-------------------------------------------------------------------------------
(* Time. *)

\* An operation that must act before time passes: its sleep is over, or its attempt has
\* lasted as long as the session lets it.
Due(o) ==
    \/ at[o] = "pausing" /\ sleep[o] = 0
    \/ at[o] = "calling" /\ elapsed[o] >= HangLimit

Active == {o \in Ops : at[o] \in {"pausing", "calling"}}

\* Time matters while an operation is under way or a backoff stands.
Tick ==
    /\ Active # {} \/ backoff > 0
    /\ \A o \in Ops : ~Due(o)
    /\ backoff' = Most(backoff - 1, 0)
    /\ sleep' = [o \in Ops |-> Most(sleep[o] - 1, 0)]
    /\ elapsed' = [o \in Ops |-> IF at[o] = "calling" THEN elapsed[o] + 1 ELSE elapsed[o]]
    /\ outage' = [o \in Ops |-> IF outage[o] = NoOutage THEN NoOutage ELSE outage[o] + 1]
    /\ UNCHANGED <<at, tally>>

Next ==
    \/ \E o \in Ops : Begin(o) \/ Attempt(o) \/ Respond(o)
    \/ Tick

\* Threads are scheduled, time passes, and every attempt ends: sessions have a read timeout.
Fairness ==
    /\ \A o \in Ops : WF_vars(Attempt(o)) /\ WF_vars(Due(o) /\ Respond(o))
    /\ WF_vars(Tick)

Spec == Init /\ [][Next]_vars /\ Fairness

-------------------------------------------------------------------------------
(* Properties. *)

Tallies == [total : Nat, counted : Nat, timeouts : Nat, deterministic : Nat, outages : Nat]

\* Every variable has its type.
TypeOK ==
    /\ at \in [Ops -> {"idle", "pausing", "calling"} \cup Over]
    /\ backoff \in Nat
    /\ sleep \in [Ops -> Nat]
    /\ elapsed \in [Ops -> Nat]
    /\ outage \in [Ops -> Nat \cup {NoOutage}]
    /\ tally \in [Ops -> Tallies]

\* "capped": whoever set or extended the shared backoff, no thread is ever asked to sleep
\* longer than max_delay_s from now.
PausesBounded == backoff <= MaxDelay /\ \A o \in Ops : sleep[o] <= MaxDelay

\* The time one failure other than an outage may cost: a hanging attempt and a pause.
Slip == HangLimit + BaseDelay

\* max_outage_s bounds an operation although others extend the backoff it sleeps on and
\* its attempts hang: once its first outage began, it is over after that budget, one pause
\* and one attempt, and what its own timeouts and deterministic failures cost it.
OutageBounded ==
    \A o \in Ops :
        outage[o] < MaxOutage + MaxDelay + HangLimit + (TimeoutRetries[o] + 1) * Slip

\* "attempts is an absolute cap on all attempts (1 for writes)", max_attempts one on those
\* that count, timeouts are retried timeout_retries times and deterministic failures once.
BudgetsKept ==
    \A o \in Ops :
        /\ Attempts[o] # NoCap => tally[o].total <= Attempts[o]
        /\ Attempts[o] = NoCap => tally[o].counted < MaxAttempts
        /\ tally[o].timeouts <= TimeoutRetries[o]
        /\ tally[o].deterministic <= 1

\* _retry returns or raises, however the server fails and whatever the other threads do:
\* this is why ContextSource may assume that every request ends.  An operation that hung
\* would keep Active from ever being empty again.
OperationsEnd == []<>(Active = {})

-------------------------------------------------------------------------------
(* The inductive invariant the proofs use. *)

\* How often o failed other than by an outage and was retried.
Slips(o) == tally[o].timeouts + tally[o].deterministic

\* An operation that has not begun has spent nothing, one with a cap goes on below it only.
Unspent ==
    \A o \in Ops :
        /\ at[o] = "idle" => tally[o] = NoTally /\ outage[o] = NoOutage
        /\ at[o] \in {"idle", "pausing"} /\ Attempts[o] # NoCap => tally[o].total < Attempts[o]

\* How far the outage of an operation reaches: to the end of its pause, or to the start of
\* its attempt.
OutageReach ==
    \A o \in Ops :
        /\ elapsed[o] <= HangLimit
        /\ at[o] # "calling" => elapsed[o] = 0
        /\ outage[o] # NoOutage =>
             /\ at[o] \in {"pausing", "calling"}
             /\ outage[o] + sleep[o] - elapsed[o] < MaxOutage + MaxDelay + Slips(o) * Slip

IInv ==
    /\ TypeOK
    /\ PausesBounded
    /\ BudgetsKept
    /\ Unspent
    /\ OutageReach
===============================================================================
