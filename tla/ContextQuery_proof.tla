------------------------- MODULE ContextQuery_proof -------------------------
(***************************************************************************)
(* Proofs about the executor of queries and the context query it runs: the *)
(* executor's types and the bounds on every pause, on every budget and on  *)
(* the time an outage may hold an operation; the parts of a block tile it  *)
(* however it is halved, so that the rows answered are those of its keys   *)
(* in their order; and the executor keeps its bounds under the request's   *)
(* calls.                                                                  *)
(***************************************************************************)
EXTENDS ContextQuery, SequenceTheorems, TLAPS

USE ExecutorAssumption DEF ExecutorAssumption

\* A pause is never longer than max_delay_s.
LEMMA JitterIn == \A base : Jitter(base) \subseteq 0..MaxDelay
BY DEF Jitter

\* The pause after a failure other than an outage is at most base_delay_s.
LEMMA BaseJitterIn == \A d \in Jitter(BaseDelay) : d \in Nat /\ d <= BaseDelay /\ d <= MaxDelay
BY DEF Jitter

\* Failing keeps the counters counters, and adds to one of them at most.
LEMMA TalliedType ==
    ASSUME TypeOK, NEW o \in Ops, NEW kind \in Kinds
    PROVE  Tallied(o, kind) \in Tallies
<1>1. tally[o] \in Tallies
  BY DEF TypeOK
<1>2. \A condition : One(condition) \in Nat
  BY DEF One
<1>3. ASSUME NEW t \in Tallies, NEW a \in Nat, NEW b \in Nat, NEW c \in Nat
      PROVE  [t EXCEPT !.counted = @ + a, !.timeouts = @ + b, !.deterministic = @ + c]
               \in Tallies
  <2>1. /\ t.counted + a \in Nat
        /\ t.timeouts + b \in Nat
        /\ t.deterministic + c \in Nat
    BY DEF Tallies
  <2>2. QED
    BY <2>1 DEF Tallies
<1>4. QED
  BY <1>1, <1>2, <1>3 DEF Tallied

\* Initially every variable has its type.
LEMMA InitType == Init => TypeOK
BY DEF Init, TypeOK, NoTally, Tallies, NoOutage

\* The outage an operation is in began a number of seconds ago.
LEMMA OutageAgeType ==
    ASSUME TypeOK, NEW o \in Ops
    PROVE  OutageAge(o) \in Nat
BY DEF TypeOK, OutageAge, NoOutage

\* Every step keeps the types.
LEMMA NextType ==
    ASSUME TypeOK, [Next]_vars
    PROVE  TypeOK'
<1> USE DEF TypeOK
<1>1. ASSUME NEW o \in Ops, Begin(o) PROVE TypeOK'
  BY <1>1 DEF Begin
<1>2. ASSUME NEW o \in Ops, Attempt(o) PROVE TypeOK'
  BY <1>2 DEF Attempt, Tallies
<1>3. ASSUME NEW o \in Ops, NEW ending \in Over, End(o, ending), backoff' \in Nat PROVE TypeOK'
  BY <1>3 DEF End, NoTally, Tallies, NoOutage
<1>4. ASSUME NEW o \in Ops, NEW kind \in Kinds, Retry(o, kind) PROVE TypeOK'
  BY <1>4, BaseJitterIn, TalliedType DEF Retry
<1>5. ASSUME NEW o \in Ops, Backoff(o) PROVE TypeOK'
  <2> DEFINE spent == [Tallied(o, "availability") EXCEPT !.outages = @ + 1]
  <2>1. spent \in Tallies
    <3>1. Tallied(o, "availability") \in Tallies
      BY TalliedType DEF Kinds
    <3>2. \A t \in Tallies : [t EXCEPT !.outages = @ + 1] \in Tallies
      BY DEF Tallies
    <3>3. QED
      BY <3>1, <3>2
  <2>2. backoff' \in Nat
    BY <1>5, JitterIn, OutageAgeType DEF Backoff, Most, Least, Delays
  <2>3. /\ at' = [at EXCEPT ![o] = "pausing"]
        /\ sleep' = [sleep EXCEPT ![o] = backoff']
        /\ elapsed' = [elapsed EXCEPT ![o] = 0]
        /\ outage' = [outage EXCEPT ![o] = OutageAge(o)]
        /\ tally' = [tally EXCEPT ![o] = spent]
    BY <1>5 DEF Backoff
  <2> HIDE DEF spent
  <2>4. QED
    BY <2>1, <2>2, <2>3, OutageAgeType
<1>6. ASSUME Tick PROVE TypeOK'
  BY <1>6 DEF Tick, Most, NoOutage
<1>7. ASSUME NEW o \in Ops, Respond(o) PROVE TypeOK'
  <2>1. CASE Succeed(o)
    BY <2>1, <1>3 DEF Succeed, Over
  <2>2. CASE FailForGood(o)
    BY <2>2, <1>3 DEF FailForGood, Over
  <2>3. ASSUME NEW kind \in Kinds, GiveUp(o, kind) PROVE TypeOK'
    <3>1. PICK ending \in Over : End(o, ending)
      BY <2>3 DEF GiveUp, Kinds, Over, Endings
    <3>2. QED
      BY <2>3, <3>1, <1>3 DEF GiveUp
  <2>4. QED
    BY <1>4, <1>5, <1>7, <2>1, <2>2, <2>3 DEF Respond
<1>8. CASE UNCHANGED vars
  BY <1>8 DEF vars
<1>9. QED
  BY <1>1, <1>2, <1>6, <1>7, <1>8 DEF Next

\* Every variable of the executor always has its type.
THEOREM ExecutorTypeCorrect == Spec => []TypeOK
<1>1. TypeOK /\ [Next]_vars => TypeOK'
  BY NextType
<1>2. QED
  BY <1>1, InitType, PTL DEF Spec

--------------------------------------------------------------------------------
(* The bounds. *)

\* Failures and pauses cost time: Slip is a number, and more failures cost more.
LEMMA SlipGrows ==
    /\ Slip \in Nat
    /\ \A m, n \in Nat : m <= n => m * Slip <= n * Slip
    /\ \A n \in Nat : n * Slip \in Nat /\ (n + 1) * Slip = n * Slip + Slip
<1>1. Slip \in Nat
  BY DEF Slip
<1>2. QED
  BY <1>1

\* Initially no operation has begun.
LEMMA InitInv == Init => IInv
<1> SUFFICES ASSUME Init PROVE IInv
  OBVIOUS
<1>1. TypeOK
  BY InitType
<1>2. PausesBounded
  BY DEF Init, PausesBounded
<1>3. BudgetsKept /\ Unspent
  BY DEF Init, BudgetsKept, Unspent, NoTally
<1>4. OutageReach
  BY DEF Init, OutageReach
<1>5. QED
  BY <1>1, <1>2, <1>3, <1>4 DEF IInv

\* Every pause is within max_delay_s, whoever sets it.
LEMMA PausesNext ==
    ASSUME TypeOK, PausesBounded, [Next]_vars
    PROVE  PausesBounded'
<1> USE DEF TypeOK, PausesBounded
<1>1. ASSUME NEW o \in Ops, Begin(o) PROVE PausesBounded'
  BY <1>1 DEF Begin
<1>2. ASSUME NEW o \in Ops, Attempt(o) PROVE PausesBounded'
  BY <1>2 DEF Attempt
<1>3. ASSUME NEW o \in Ops, NEW ending, End(o, ending), backoff' \in {0, backoff}
      PROVE  PausesBounded'
  BY <1>3 DEF End
<1>4. ASSUME NEW o \in Ops, NEW kind \in Kinds, Retry(o, kind) PROVE PausesBounded'
  BY <1>4, BaseJitterIn DEF Retry
<1>5. ASSUME NEW o \in Ops, Backoff(o) PROVE PausesBounded'
  <2>1. backoff' <= MaxDelay
    BY <1>5, JitterIn, OutageAgeType DEF Backoff, Most, Least, Delays
  <2>2. sleep' = [sleep EXCEPT ![o] = backoff']
    BY <1>5 DEF Backoff
  <2>3. QED
    BY <2>1, <2>2
<1>6. ASSUME Tick PROVE PausesBounded'
  BY <1>6 DEF Tick, Most
<1>7. ASSUME NEW o \in Ops, Respond(o) PROVE PausesBounded'
  BY <1>3, <1>4, <1>5, <1>7 DEF Respond, Succeed, FailForGood, GiveUp
<1>8. CASE UNCHANGED vars
  BY <1>8 DEF vars
<1>9. QED
  BY <1>1, <1>2, <1>6, <1>7, <1>8 DEF Next

\* An operation that goes on after a failure is within every budget of its own.
LEMMA WithinBudget ==
    ASSUME IInv, NEW o \in Ops, NEW kind \in Kinds, at[o] = "calling", ~Exhausted(o, kind)
    PROVE  LET spent == Tallied(o, kind)
           IN /\ spent \in Tallies
              /\ spent.total = tally[o].total
              /\ Attempts[o] # NoCap => spent.total < Attempts[o]
              /\ Attempts[o] = NoCap => spent.counted < MaxAttempts
              /\ spent.timeouts <= TimeoutRetries[o]
              /\ spent.deterministic <= 1
              /\ kind = "availability" =>
                   spent.timeouts + spent.deterministic = Slips(o)
              /\ kind # "availability" =>
                   spent.timeouts + spent.deterministic = Slips(o) + 1
<1> DEFINE spent == Tallied(o, kind)
<1>1. TypeOK /\ BudgetsKept /\ tally[o] \in Tallies
  BY DEF IInv, TypeOK
<1>2. spent \in Tallies
  BY <1>1, TalliedType
<1>3. /\ spent.total = tally[o].total
      /\ spent.timeouts = tally[o].timeouts + One(kind = "server_timeout")
      /\ spent.deterministic = tally[o].deterministic + One(kind = "deterministic")
  BY <1>1 DEF Tallied, Tallies
<1>4. /\ kind = "server_timeout" => spent.timeouts <= TimeoutRetries[o]
      /\ kind = "deterministic" => spent.deterministic <= 1
      /\ Attempts[o] # NoCap => spent.total < Attempts[o]
      /\ Attempts[o] = NoCap => spent.counted < MaxAttempts
  <2>1. spent.timeouts \in Nat /\ spent.deterministic \in Nat /\ spent.total \in Nat
        /\ spent.counted \in Nat
    BY <1>2 DEF Tallies
  <2>2. QED
    BY <2>1 DEF Exhausted
<1>5. tally[o].timeouts <= TimeoutRetries[o] /\ tally[o].deterministic <= 1
  BY <1>1 DEF BudgetsKept
<1>6. tally[o].timeouts \in Nat /\ tally[o].deterministic \in Nat
  BY <1>1 DEF Tallies
<1> HIDE DEF spent
<1>7. CASE kind = "availability"
  BY <1>2, <1>3, <1>4, <1>5, <1>6, <1>7 DEF One, Slips, spent
<1>8. CASE kind = "server_timeout"
  BY <1>2, <1>3, <1>4, <1>5, <1>6, <1>8 DEF One, Slips, spent
<1>9. CASE kind = "deterministic"
  BY <1>2, <1>3, <1>4, <1>5, <1>6, <1>9 DEF One, Slips, spent
<1>10. QED
  BY <1>7, <1>8, <1>9 DEF Kinds

\* What the counters of an operation and the state of the others are after a failure that
\* is retried: only those of the operation change.
LEMMA RetriedInv ==
    ASSUME IInv, NEW o \in Ops, NEW kind \in Kinds, at[o] = "calling", ~Exhausted(o, kind),
           NEW spent \in Tallies,
           spent.total = Tallied(o, kind).total,
           spent.counted = Tallied(o, kind).counted,
           spent.timeouts = Tallied(o, kind).timeouts,
           spent.deterministic = Tallied(o, kind).deterministic,
           tally' = [tally EXCEPT ![o] = spent],
           at' = [at EXCEPT ![o] = "pausing"],
           \A p \in Ops \ {o} : outage'[p] = outage[p]
    PROVE  BudgetsKept' /\ Unspent'
<1> USE DEF IInv, TypeOK
<1>1. BudgetsKept'
  BY WithinBudget DEF BudgetsKept, Tallies
<1>2. Unspent'
  BY WithinBudget DEF Unspent
<1>3. QED
  BY <1>1, <1>2

\* Every step keeps the inductive invariant.
LEMMA NextInv ==
    ASSUME IInv, [Next]_vars
    PROVE  IInv'
<1> SUFFICES BudgetsKept' /\ Unspent' /\ OutageReach'
  BY NextType, PausesNext DEF IInv
<1> USE DEF IInv, TypeOK
<1>1. ASSUME NEW o \in Ops, Begin(o) PROVE BudgetsKept' /\ Unspent' /\ OutageReach'
  <2>1. BudgetsKept' /\ Unspent'
    BY <1>1 DEF Begin, BudgetsKept, Unspent
  <2>2. OutageReach'
    BY <1>1 DEF Begin, OutageReach, Unspent, Slips
  <2>3. QED
    BY <2>1, <2>2
<1>2. ASSUME NEW o \in Ops, Attempt(o) PROVE BudgetsKept' /\ Unspent' /\ OutageReach'
  <2>1. /\ at' = [at EXCEPT ![o] = "calling"] /\ at[o] = "pausing"
        /\ UNCHANGED <<sleep, elapsed, outage>>
    BY <1>2 DEF Attempt
  <2>2. /\ tally'[o].total = tally[o].total + 1 /\ tally'[o].counted = tally[o].counted
        /\ tally'[o].timeouts = tally[o].timeouts
        /\ tally'[o].deterministic = tally[o].deterministic
    BY <1>2 DEF Attempt, Tallies
  <2>3. \A p \in Ops \ {o} : tally'[p] = tally[p] /\ at'[p] = at[p]
    BY <1>2 DEF Attempt
  <2>4. at'[o] = "calling" /\ tally[o].total \in Nat
    BY <2>1 DEF Tallies
  <2>5. BudgetsKept'
    <3>1. Attempts[o] # NoCap => tally'[o].total <= Attempts[o]
      BY <2>1, <2>2, <2>4 DEF Unspent
    <3>2. QED
      BY <2>2, <2>3, <3>1 DEF BudgetsKept
  <2>6. Unspent'
    BY <2>1, <2>3, <2>4 DEF Unspent
  <2>7. OutageReach'
    <3>1. \A p \in Ops : Slips(p)' = Slips(p)
      BY <2>2, <2>3 DEF Slips
    <3>2. QED
      BY <2>1, <2>3, <2>4, <3>1 DEF OutageReach
  <2>8. QED
    BY <2>5, <2>6, <2>7
<1>3. ASSUME NEW o \in Ops, NEW ending \in Over, End(o, ending)
      PROVE  BudgetsKept' /\ Unspent' /\ OutageReach'
  <2>1. /\ at' = [at EXCEPT ![o] = ending] /\ ending \notin {"idle", "pausing", "calling"}
        /\ tally' = [tally EXCEPT ![o] = NoTally]
        /\ elapsed' = [elapsed EXCEPT ![o] = 0]
        /\ outage' = [outage EXCEPT ![o] = NoOutage]
        /\ sleep' = sleep
    BY <1>3 DEF End, Over, Endings
  <2>2. BudgetsKept'
    BY <2>1 DEF BudgetsKept, NoTally
  <2>3. Unspent'
    BY <2>1 DEF Unspent
  <2>4. OutageReach'
    BY <2>1 DEF OutageReach, Slips
  <2>5. QED
    BY <2>2, <2>3, <2>4
<1>4. ASSUME NEW o \in Ops, NEW kind \in Kinds, Retry(o, kind)
      PROVE  BudgetsKept' /\ Unspent' /\ OutageReach'
  <2> DEFINE spent == Tallied(o, kind)
  <2>1. /\ at[o] = "calling" /\ kind # "availability" /\ ~Exhausted(o, kind)
        /\ at' = [at EXCEPT ![o] = "pausing"]
        /\ tally' = [tally EXCEPT ![o] = spent]
        /\ elapsed' = [elapsed EXCEPT ![o] = 0]
        /\ outage' = outage
    BY <1>4 DEF Retry
  <2>2. /\ spent \in Tallies
        /\ spent.timeouts + spent.deterministic = Slips(o) + 1
    BY <2>1, WithinBudget
  <2>3. BudgetsKept' /\ Unspent'
    BY <2>1, <2>2, RetriedInv
  <2> HIDE DEF spent
  <2>4. PICK pause \in Nat : pause <= BaseDelay /\ sleep' = [sleep EXCEPT ![o] = pause]
    BY <1>4, BaseJitterIn DEF Retry
  <2>5. Slips(o) \in Nat
    BY DEF Slips, Tallies
  <2>6. (Slips(o) + 1) * Slip = Slips(o) * Slip + HangLimit + BaseDelay
        /\ Slips(o) * Slip \in Nat
    BY <2>5, SlipGrows DEF Slip
  <2>7. Slips(o)' = Slips(o) + 1 /\ \A p \in Ops \ {o} : Slips(p)' = Slips(p)
    BY <2>1, <2>2 DEF Slips
  <2>8. outage[o] # NoOutage =>
          outage[o] + pause < MaxOutage + MaxDelay + (Slips(o) + 1) * Slip
    <3> DEFINE before == Slips(o) * Slip
               after == (Slips(o) + 1) * Slip
    <3>1. outage[o] # NoOutage =>
            /\ outage[o] \in Nat /\ sleep[o] \in Nat /\ elapsed[o] \in Nat
            /\ elapsed[o] <= HangLimit
            /\ outage[o] + sleep[o] - elapsed[o] < MaxOutage + MaxDelay + before
      BY DEF OutageReach, NoOutage
    <3>2. before \in Nat /\ after = before + HangLimit + BaseDelay
      BY <2>6
    <3> HIDE DEF before, after
    <3>3. outage[o] # NoOutage => outage[o] + pause < MaxOutage + MaxDelay + after
      BY <2>4, <3>1, <3>2
    <3>4. QED
      BY <3>3 DEF after
  <2>9. OutageReach'
    <3>1. ASSUME NEW p \in Ops \ {o}
          PROVE  /\ elapsed'[p] = elapsed[p] /\ at'[p] = at[p] /\ outage'[p] = outage[p]
                 /\ sleep'[p] = sleep[p] /\ Slips(p)' = Slips(p)
      BY <2>1, <2>4, <2>7
    <3>2. elapsed'[o] = 0 /\ at'[o] = "pausing" /\ outage'[o] = outage[o] /\ sleep'[o] = pause
      BY <2>1, <2>4
    <3>3. QED
      BY <2>7, <2>8, <3>1, <3>2 DEF OutageReach
  <2>10. QED
    BY <2>3, <2>9
<1>5. ASSUME NEW o \in Ops, Backoff(o) PROVE BudgetsKept' /\ Unspent' /\ OutageReach'
  <2> DEFINE failed == Tallied(o, "availability")
             spent == [failed EXCEPT !.outages = @ + 1]
  <2>1. /\ at[o] = "calling" /\ ~Exhausted(o, "availability")
        /\ at' = [at EXCEPT ![o] = "pausing"]
        /\ tally' = [tally EXCEPT ![o] = spent]
        /\ elapsed' = [elapsed EXCEPT ![o] = 0]
        /\ outage' = [outage EXCEPT ![o] = OutageAge(o)]
        /\ sleep' = [sleep EXCEPT ![o] = backoff']
    BY <1>5 DEF Backoff
  <2>2. /\ failed \in Tallies
        /\ failed.timeouts + failed.deterministic = Slips(o)
    BY <2>1, WithinBudget DEF Kinds
  <2>3. /\ spent \in Tallies
        /\ spent.total = failed.total /\ spent.counted = failed.counted
        /\ spent.timeouts = failed.timeouts /\ spent.deterministic = failed.deterministic
    <3>1. ASSUME NEW t \in Tallies
          PROVE  LET u == [t EXCEPT !.outages = @ + 1]
                 IN /\ u \in Tallies
                    /\ u.total = t.total /\ u.counted = t.counted
                    /\ u.timeouts = t.timeouts /\ u.deterministic = t.deterministic
      BY DEF Tallies
    <3>2. QED
      BY <2>2, <3>1
  <2> HIDE DEF spent
  <2>4. BudgetsKept' /\ Unspent'
    BY <2>1, <2>3, RetriedInv DEF Kinds
  <2>5. OutageAge(o) \in Nat /\ OutageAge(o) < MaxOutage
    <3>1. OutageAge(o) \in Nat
      BY OutageAgeType
    <3>2. QED
      BY <2>1, <3>1 DEF Exhausted
  <2>6. backoff' \in Nat /\ backoff' <= MaxDelay
    BY NextType, PausesNext DEF PausesBounded
  <2>7. Slips(o)' = Slips(o) /\ \A p \in Ops \ {o} : Slips(p)' = Slips(p)
    BY <2>1, <2>2, <2>3 DEF Slips
  <2>8. Slips(o) * Slip \in Nat
    <3>1. Slips(o) \in Nat
      BY DEF Slips, Tallies
    <3>2. QED
      BY <3>1, SlipGrows
  <2>9. OutageReach'
    <3>1. ASSUME NEW p \in Ops \ {o}
          PROVE  /\ elapsed'[p] = elapsed[p] /\ at'[p] = at[p] /\ outage'[p] = outage[p]
                 /\ sleep'[p] = sleep[p] /\ Slips(p)' = Slips(p)
      BY <2>1, <2>7
    <3>2. /\ elapsed'[o] = 0 /\ at'[o] = "pausing" /\ outage'[o] = OutageAge(o)
          /\ sleep'[o] = backoff'
      BY <2>1
    <3>3. outage'[o] + sleep'[o] - elapsed'[o] < MaxOutage + MaxDelay + Slips(o) * Slip
      BY <2>5, <2>6, <2>8, <3>2
    <3>4. QED
      BY <2>7, <3>1, <3>2, <3>3 DEF OutageReach
  <2>10. QED
    BY <2>4, <2>9
<1>6. ASSUME Tick PROVE BudgetsKept' /\ Unspent' /\ OutageReach'
  <2>1. BudgetsKept' /\ Unspent'
    BY <1>6 DEF Tick, BudgetsKept, Unspent
  <2>2. OutageReach'
    <3> SUFFICES ASSUME NEW o \in Ops
                 PROVE  /\ elapsed'[o] <= HangLimit
                        /\ at'[o] # "calling" => elapsed'[o] = 0
                        /\ outage'[o] # NoOutage =>
                             /\ at'[o] \in {"pausing", "calling"}
                             /\ outage'[o] + sleep'[o] - elapsed'[o]
                                  < MaxOutage + MaxDelay + Slips(o)' * Slip
      BY DEF OutageReach
    <3>1. at' = at /\ Slips(o)' = Slips(o) /\ ~Due(o)
      BY <1>6 DEF Tick, Slips
    <3>2. /\ sleep'[o] = Most(sleep[o] - 1, 0)
          /\ elapsed'[o] = IF at[o] = "calling" THEN elapsed[o] + 1 ELSE elapsed[o]
          /\ outage'[o] = IF outage[o] = NoOutage THEN NoOutage ELSE outage[o] + 1
      BY <1>6 DEF Tick
    <3>3. Slips(o) * Slip \in Nat
      <4>1. Slips(o) \in Nat
        BY DEF Slips, Tallies
      <4>2. QED
        BY <4>1, SlipGrows
    <3>4. elapsed'[o] <= HangLimit /\ (at'[o] # "calling" => elapsed'[o] = 0)
      BY <3>1, <3>2 DEF OutageReach, Due
    <3>5. ASSUME outage'[o] # NoOutage
          PROVE  /\ at'[o] \in {"pausing", "calling"}
                 /\ outage'[o] + sleep'[o] - elapsed'[o]
                      < MaxOutage + MaxDelay + Slips(o)' * Slip
      <4>1. /\ outage[o] \in Nat /\ outage'[o] = outage[o] + 1
            /\ at[o] \in {"pausing", "calling"}
            /\ outage[o] + sleep[o] - elapsed[o] < MaxOutage + MaxDelay + Slips(o) * Slip
        BY <3>2, <3>5 DEF OutageReach, NoOutage
      <4>2. CASE at[o] = "pausing"
        BY <3>1, <3>2, <3>3, <4>1, <4>2 DEF Due, Most
      <4>3. CASE at[o] = "calling"
        BY <3>1, <3>2, <3>3, <4>1, <4>3 DEF Most
      <4>4. QED
        BY <4>1, <4>2, <4>3
    <3>6. QED
      BY <3>4, <3>5
  <2>3. QED
    BY <2>1, <2>2
<1>7. ASSUME NEW o \in Ops, Respond(o) PROVE BudgetsKept' /\ Unspent' /\ OutageReach'
  <2>1. CASE Succeed(o) \/ FailForGood(o)
    BY <2>1, <1>3 DEF Succeed, FailForGood, Over
  <2>2. ASSUME NEW kind \in Kinds, GiveUp(o, kind)
        PROVE  BudgetsKept' /\ Unspent' /\ OutageReach'
    <3>1. PICK ending \in Over : End(o, ending)
      BY <2>2 DEF GiveUp, Kinds, Over, Endings
    <3>2. QED
      BY <3>1, <1>3
  <2>3. QED
    BY <1>4, <1>5, <1>7, <2>1, <2>2 DEF Respond
<1>8. CASE UNCHANGED vars
  BY <1>8 DEF vars, BudgetsKept, Unspent, OutageReach, Slips
<1>9. QED
  BY <1>1, <1>2, <1>6, <1>7, <1>8 DEF Next

\* The inductive invariant holds in every reachable state.
LEMMA InvCorrect == Spec => []IInv
<1>1. IInv /\ [Next]_vars => IInv'
  BY NextInv
<1>2. QED
  BY <1>1, InitInv, PTL DEF Spec

\* What the invariant bounds: pauses, budgets, and the time of an outage.
LEMMA InvBounds == IInv => PausesBounded /\ BudgetsKept /\ OutageBounded
<1> SUFFICES ASSUME IInv, NEW o \in Ops
             PROVE  outage[o] < MaxOutage + MaxDelay + HangLimit
                                  + (TimeoutRetries[o] + 1) * Slip
  BY DEF IInv, OutageBounded
<1> USE DEF IInv, TypeOK
<1>1. Slips(o) \in Nat /\ Slips(o) <= TimeoutRetries[o] + 1
  BY DEF BudgetsKept, Slips, Tallies
<1>2. /\ Slips(o) * Slip \in Nat /\ (TimeoutRetries[o] + 1) * Slip \in Nat
      /\ Slips(o) * Slip <= (TimeoutRetries[o] + 1) * Slip
  BY <1>1, SlipGrows
<1>3. CASE outage[o] = NoOutage
  BY <1>2, <1>3 DEF NoOutage
<1>4. CASE outage[o] # NoOutage
  BY <1>2, <1>4 DEF OutageReach
<1>5. QED
  BY <1>3, <1>4

\* No thread is ever asked to sleep longer than max_delay_s, whoever set the backoff.
THEOREM PausesCorrect == Spec => []PausesBounded
BY InvBounds, InvCorrect, PTL

\* A capped operation is attempted at most as often as its cap says, a write once, and no
\* operation goes beyond the budget of a failure class.
THEOREM BudgetsCorrect == Spec => []BudgetsKept
BY InvBounds, InvCorrect, PTL

\* An outage holds an operation no longer than its budget, one pause, one attempt and the
\* slips the other budgets allow it.
THEOREM OutageCorrect == Spec => []OutageBounded
BY InvBounds, InvCorrect, PTL

-------------------------------------------------------------------------------
(* The context query. *)

-------------------------------------------------------------------------------
(* The inductive invariant. *)

\* The rows are those of the keys before the first part.
RowsBefore ==
    /\ rows \in Seq(Range(Block))
    /\ Len(rows) <= Len(Block)
    /\ \A k \in 1..Len(rows) : rows[k] = Block[k]

\* The parts still to request follow each other from there, up to the end of the block.
PartsTile ==
    /\ todo \in Seq(Parts)
    /\ \A i \in 1..Len(todo) :
         todo[i][1] = IF i = 1 THEN Len(rows) + 1 ELSE todo[i - 1][2] + 1
    /\ todo = <<>> => Len(rows) = Len(Block)
    /\ todo # <<>> => todo[Len(todo)][2] = Len(Block)

\* A request is answered once no part is left, and while one is not it is open.
Decided ==
    /\ verdict \in {"open", "answered", "failed", "timed_out"}
    /\ verdict = "answered" => todo = <<>>
    /\ verdict = "open" => todo # <<>>

QueryInv == RowsBefore /\ PartsTile /\ Decided

-------------------------------------------------------------------------------
(* The rows of one call. *)

\* indexed_rows: in whatever order the rows of a part came, their indexes put them into the
\* order of its keys.
LEMMA RowsIndexed ==
    ASSUME NEW p \in Parts, NEW answer \in Answers(Size(p))
    PROVE  /\ IndexedRows(p, answer) \in Seq(Range(Block))
           /\ Len(IndexedRows(p, answer)) = Size(p)
           /\ \A i \in 1..Size(p) : IndexedRows(p, answer)[i] = Block[p[1] + i - 1]
<1> DEFINE n == Size(p)
           back == AntiFunction(answer)
<1>1. /\ p[1] \in 1..Len(Block) /\ p[2] \in 1..Len(Block) /\ p[1] <= p[2]
      /\ n = p[2] - p[1] + 1 /\ n \in Nat
      /\ Len(Block) \in Nat /\ Block \in Seq(Range(Block))
  BY RequestAssumption DEF Parts, Size
<1>2. /\ answer \in [0..(n - 1) -> 0..(n - 1)]
      /\ \A i \in 0..(n - 1) : \E j \in 0..(n - 1) : answer[j] = i
  BY DEF Answers, Bijection, Injection, Surjection
<1>3. ASSUME NEW i \in 1..n
      PROVE  back[i - 1] \in 0..(n - 1) /\ answer[back[i - 1]] = i - 1
  <2> HIDE DEF n
  <2>0. i - 1 \in 0..(n - 1)
    BY <1>1
  <2>1. PICK j \in 0..(n - 1) : answer[j] = i - 1
    BY <2>0, <1>2
  <2>2. i - 1 \in Range(answer) /\ DOMAIN answer = 0..(n - 1)
    BY <1>2, <2>1 DEF Range
  <2>3. back[i - 1] = CHOOSE s \in DOMAIN answer : i - 1 \in Range(answer) => answer[s] = i - 1
    BY <2>2 DEF AntiFunction, Inverse
  <2>4. QED
    BY <2>1, <2>2, <2>3
<1>4. /\ Keys(p) \in Seq(Range(Block)) /\ Len(Keys(p)) = n
      /\ \A i \in 1..n : Keys(p)[i] = Block[p[1] + i - 1]
  <2> DEFINE lo == p[1]
             hi == p[2]
  <2>1. /\ Block \in Seq(Range(Block)) /\ lo \in 1..Len(Block) /\ hi \in 1..Len(Block)
        /\ n = hi - lo + 1 /\ lo <= hi /\ Keys(p) = SubSeq(Block, lo, hi)
    BY <1>1 DEF Keys
  <2> HIDE DEF n, lo, hi
  <2>2. lo \in Int /\ hi \in Int /\ \A i \in lo..hi : Block[i] \in Range(Block)
    <3>1. \A k \in 1..Len(Block) : Block[k] \in Range(Block)
      BY <2>1
    <3>2. lo..hi \subseteq 1..Len(Block)
      BY <1>1, <2>1
    <3>3. QED
      BY <1>1, <2>1, <3>1, <3>2
  <2>3. /\ SubSeq(Block, lo, hi) \in Seq(Range(Block))
        /\ Len(SubSeq(Block, lo, hi)) = hi - lo + 1
        /\ \A i \in 1..(hi - lo + 1) : SubSeq(Block, lo, hi)[i] = Block[lo + i - 1]
    BY <2>1, <2>2, SubSeqProperties
  <2>4. QED
    BY <2>1, <2>3 DEF lo
<1>5. \A i \in 1..n : Block[p[1] + i - 1] \in Range(Block)
  <2>1. \A k \in 1..Len(Block) : Block[k] \in Range(Block)
    BY <1>1
  <2>2. \A i \in 1..n : p[1] + i - 1 \in 1..Len(Block)
    BY <1>1
  <2>3. QED
    BY <2>1, <2>2
<1>6. IndexedRows(p, answer) = [i \in 1..n |-> Keys(p)[answer[back[i - 1]] + 1]]
  BY DEF IndexedRows
<1> HIDE DEF n, back
<1>7. \A i \in 1..n : IndexedRows(p, answer)[i] = Block[p[1] + i - 1]
  <2> TAKE i \in 1..n
  <2>1. IndexedRows(p, answer)[i] = Keys(p)[(i - 1) + 1]
    BY <1>3, <1>6
  <2>2. (i - 1) + 1 = i
    BY <1>1
  <2>3. QED
    BY <1>4, <2>1, <2>2
<1>8. IndexedRows(p, answer) = [i \in 1..n |-> Block[p[1] + i - 1]]
  BY <1>6, <1>7
<1>9. QED
  BY <1>1, <1>5, <1>8 DEF n

-------------------------------------------------------------------------------
(* The parts. *)

\* While the request is open its part is the first one, and follows the rows.
LEMMA PartUnderWay ==
    ASSUME RowsBefore, PartsTile, todo # <<>>
    PROVE  /\ Part \in Parts /\ Part = todo[1]
           /\ Part[1] = Len(rows) + 1
           /\ Tail(todo) \in Seq(Parts) /\ Len(Tail(todo)) = Len(todo) - 1
           /\ \A i \in 1..Len(Tail(todo)) : Tail(todo)[i] = todo[i + 1]
<1>1. todo \in Seq(Parts) /\ Len(todo) \in Nat /\ Len(todo) >= 1
  BY DEF PartsTile
<1>2. 1 \in 1..Len(todo)
  BY <1>1
<1>3. todo[1][1] = Len(rows) + 1
  BY <1>2 DEF PartsTile
<1>4. QED
  BY <1>1, <1>2, <1>3 DEF Part

\* The rows of a part that was answered are appended, and the next part follows them.
LEMMA AnsweredInv ==
    ASSUME QueryInv, verdict = "open", PartAnswered
    PROVE  QueryInv'
<1>1. RowsBefore /\ PartsTile /\ Decided /\ todo # <<>>
  BY DEF QueryInv, Decided
<1>2. PICK answer \in Answers(Size(Part)) : rows' = rows \o IndexedRows(Part, answer)
  BY DEF PartAnswered
<1> DEFINE new == IndexedRows(Part, answer)
           n == Size(Part)
<1>3. /\ Part \in Parts /\ Part = todo[1] /\ Part[1] = Len(rows) + 1
      /\ todo' \in Seq(Parts) /\ Len(todo') = Len(todo) - 1
      /\ \A i \in 1..Len(todo') : todo'[i] = todo[i + 1]
  BY <1>1, PartUnderWay DEF PartAnswered
<1>4. /\ new \in Seq(Range(Block)) /\ Len(new) = n
      /\ \A i \in 1..n : new[i] = Block[Part[1] + i - 1]
  BY <1>3, RowsIndexed
<1>5. /\ rows \in Seq(Range(Block)) /\ Len(rows) \in Nat
      /\ \A k \in 1..Len(rows) : rows[k] = Block[k]
  BY <1>1 DEF RowsBefore
<1>6. /\ Part[1] \in Nat /\ Part[2] \in Nat /\ Part[1] <= Part[2] /\ Part[2] <= Len(Block)
      /\ n = Part[2] - Part[1] + 1 /\ Len(Block) \in Nat
  BY <1>3, RequestAssumption DEF Parts, Size
<1> HIDE DEF new, n
<1>7. /\ rows' \in Seq(Range(Block)) /\ Len(rows') = Len(rows) + n
      /\ \A k \in 1..Len(rows) : rows'[k] = rows[k]
      /\ \A k \in (Len(rows) + 1)..(Len(rows) + n) : rows'[k] = new[k - Len(rows)]
  <2>1. rows' = rows \o new
    BY <1>2 DEF new
  <2>2. n \in Nat
    BY <1>6
  <2>3. \A s, t \in Seq(Range(Block)) :
          /\ s \o t \in Seq(Range(Block)) /\ Len(s \o t) = Len(s) + Len(t)
          /\ \A k \in 1..Len(s) : (s \o t)[k] = s[k]
          /\ \A k \in (Len(s) + 1)..(Len(s) + Len(t)) : (s \o t)[k] = t[k - Len(s)]
    OBVIOUS
  <2>4. QED
    BY <2>1, <2>2, <2>3, <1>4, <1>5
<1>8. Len(rows') = Part[2]
  BY <1>3, <1>5, <1>6, <1>7
<1>9. RowsBefore'
  <2>1. ASSUME NEW k \in 1..Len(rows') PROVE rows'[k] = Block[k]
    <3>1. CASE k <= Len(rows)
      BY <3>1, <1>5, <1>7
    <3>2. CASE k > Len(rows)
      <4>1. k - Len(rows) \in 1..n /\ k \in (Len(rows) + 1)..(Len(rows) + n)
        BY <3>2, <1>5, <1>6, <1>7
      <4>2. rows'[k] = Block[Part[1] + (k - Len(rows)) - 1]
        BY <4>1, <1>4, <1>7
      <4>3. Part[1] + (k - Len(rows)) - 1 = k
        BY <1>3, <1>5, <4>1
      <4>4. QED
        BY <4>2, <4>3
    <3>3. QED
      BY <3>1, <3>2, <1>5, <1>7
  <2>2. QED
    BY <2>1, <1>6, <1>7, <1>8 DEF RowsBefore
<1>10. PartsTile'
  <2>1. ASSUME NEW i \in 1..Len(todo')
        PROVE  todo'[i][1] = IF i = 1 THEN Len(rows') + 1 ELSE todo'[i - 1][2] + 1
    <3>1. /\ i + 1 \in 1..Len(todo) /\ i + 1 # 1 /\ Len(todo) \in Nat
          /\ i # 1 => i - 1 \in 1..Len(todo') /\ (i - 1) + 1 = i
          /\ (i + 1) - 1 = i
      BY <1>1, <1>3 DEF PartsTile
    <3>2. todo[i + 1][1] = todo[i][2] + 1
      BY <1>1, <3>1 DEF PartsTile
    <3>3. CASE i = 1
      BY <3>2, <3>3, <1>3, <1>8
    <3>4. CASE i # 1
      BY <3>1, <3>2, <3>4, <1>3
    <3>5. QED
      BY <3>3, <3>4
  <2>2. todo[Len(todo)][2] = Len(Block) /\ Len(todo) \in Nat
    BY <1>1 DEF PartsTile
  <2>3. CASE todo' = <<>>
    <3>1. Len(todo) = 1
      BY <2>2, <2>3, <1>3
    <3>2. QED
      BY <2>1, <2>2, <2>3, <3>1, <1>3, <1>8 DEF PartsTile
  <2>4. CASE todo' # <<>>
    <3>1. Len(todo') \in 1..Len(todo') /\ Len(todo') + 1 = Len(todo)
      BY <2>2, <2>4, <1>3
    <3>2. todo'[Len(todo')] = todo[Len(todo)]
      BY <3>1, <1>3
    <3>3. QED
      BY <2>1, <2>2, <2>4, <3>2, <1>3 DEF PartsTile
  <2>5. QED
    BY <2>3, <2>4
<1>11. Decided'
  BY DEF Decided, PartAnswered
<1>12. QED
  BY <1>9, <1>10, <1>11 DEF QueryInv

\* The halves of a part take its place.
LEMMA SplitInv ==
    ASSUME QueryInv, verdict = "open", Split
    PROVE  QueryInv'
<1>1. RowsBefore /\ PartsTile /\ Decided /\ todo # <<>>
  BY DEF QueryInv, Decided
<1> DEFINE middle == Part[1] + Size(Part) \div 2
           left == <<Part[1], middle - 1>>
           right == <<middle, Part[2]>>
<1>2. /\ Part \in Parts /\ Part = todo[1] /\ Part[1] = Len(rows) + 1
      /\ Tail(todo) \in Seq(Parts) /\ Len(Tail(todo)) = Len(todo) - 1
      /\ \A i \in 1..Len(Tail(todo)) : Tail(todo)[i] = todo[i + 1]
  BY <1>1, PartUnderWay
<1>3. /\ Part[1] \in 1..Len(Block) /\ Part[2] \in 1..Len(Block)
      /\ Size(Part) = Part[2] - Part[1] + 1 /\ Size(Part) > 1 /\ Len(Block) \in Nat
  BY <1>2, RequestAssumption DEF Parts, Size, Split
<1>4. Size(Part) \div 2 \in Nat /\ Size(Part) \div 2 >= 1 /\ Size(Part) \div 2 < Size(Part)
  BY <1>3
<1>5. /\ left \in Parts /\ right \in Parts
      /\ left[1] = Part[1] /\ left[2] + 1 = right[1] /\ right[2] = Part[2]
  BY <1>3, <1>4 DEF Parts
<1>6. todo' = <<left, right>> \o Tail(todo)
  BY DEF Split, Halves
<1> HIDE DEF middle, left, right
<1>7. /\ todo' \in Seq(Parts) /\ Len(todo') = Len(todo) + 1 /\ Len(todo) \in Nat
      /\ todo'[1] = left /\ todo'[2] = right
      /\ \A i \in 3..Len(todo') : todo'[i] = todo[i - 1]
  <2>1. Len(todo) \in Nat
    BY <1>1 DEF PartsTile
  <2>2. <<left, right>> \in Seq(Parts)
    BY <1>5
  <2>3. \A i \in 3..(Len(todo) + 1) : (i - 2) + 1 = i - 1 /\ i - 2 \in 1..Len(Tail(todo))
    BY <2>1, <1>2
  <2>4. \A i \in 3..(Len(todo) + 1) : todo'[i] = Tail(todo)[i - 2]
    BY <2>1, <2>2, <1>2, <1>6
  <2>5. QED
    BY <2>1, <2>2, <2>3, <2>4, <1>2, <1>6
<1>8. UNCHANGED rows /\ UNCHANGED verdict
  BY DEF Split
<1>9. PartsTile'
  <2>1. ASSUME NEW i \in 1..Len(todo')
        PROVE  todo'[i][1] = IF i = 1 THEN Len(rows') + 1 ELSE todo'[i - 1][2] + 1
    <3>1. CASE i = 1
      BY <3>1, <1>2, <1>5, <1>7, <1>8
    <3>2. CASE i = 2
      BY <3>2, <1>5, <1>7
    <3>3. CASE i = 3
      <4>1. 2 \in 1..Len(todo) /\ todo'[3] = todo[2] /\ todo'[2] = right
        BY <3>3, <1>7
      <4>2. todo[2][1] = todo[1][2] + 1
        BY <1>1, <4>1 DEF PartsTile
      <4>3. QED
        BY <3>3, <4>1, <4>2, <1>2, <1>5
    <3>4. CASE i > 3
      <4>1. /\ i - 1 \in 1..Len(todo) /\ i - 1 # 1 /\ (i - 1) - 1 = i - 2
            /\ i - 1 \in 3..Len(todo') /\ i \in 3..Len(todo')
        BY <3>4, <1>7
      <4>2. todo'[i] = todo[i - 1] /\ todo'[i - 1] = todo[i - 2]
        BY <4>1, <1>7
      <4>3. todo[i - 1][1] = todo[i - 2][2] + 1
        BY <1>1, <4>1 DEF PartsTile
      <4>4. QED
        BY <3>4, <4>2, <4>3
    <3>5. QED
      BY <3>1, <3>2, <3>3, <3>4, <1>7
  <2>2. todo[Len(todo)][2] = Len(Block)
    BY <1>1 DEF PartsTile
  <2>3. todo'[Len(todo')][2] = Len(Block)
    <3>1. CASE Len(todo) = 1
      BY <3>1, <2>2, <1>2, <1>5, <1>7
    <3>2. CASE Len(todo) # 1
      <4>0. Len(todo) >= 2
        <5>1. todo \in Seq(Parts) /\ todo # <<>>
          BY <1>1 DEF PartsTile
        <5>2. Len(todo) \in Nat /\ Len(todo) # 0
          BY <5>1
        <5>3. \A n \in Nat : n # 0 /\ n # 1 => n >= 2
          OBVIOUS
        <5>4. QED
          BY <3>2, <5>2, <5>3
      <4>1. Len(todo') \in 3..Len(todo') /\ Len(todo') - 1 = Len(todo)
        BY <4>0, <1>7
      <4>2. QED
        BY <4>1, <2>2, <1>7
    <3>3. QED
      BY <3>1, <3>2
  <2>4. todo' # <<>>
    BY <1>1, <1>7
  <2>5. QED
    BY <2>1, <2>3, <2>4, <1>7 DEF PartsTile
<1>10. RowsBefore'
  BY <1>1, <1>8 DEF RowsBefore
<1>11. Decided'
  BY <1>8, <1>9, <1>7 DEF QueryInv, Decided
<1>12. QED
  BY <1>9, <1>10, <1>11 DEF QueryInv

\* Every step of the request keeps the invariant, and those of the executor leave it alone.
LEMMA QueryNextInv ==
    ASSUME QueryInv, [QueryNext]_queryVars
    PROVE  QueryInv'
<1>1. CASE UNCHANGED requestVars
  BY <1>1 DEF requestVars, QueryInv, RowsBefore, PartsTile, Decided
<1>2. CASE RequestStep
  <2>1. CASE PartFailed
    BY <2>1 DEF PartFailed, QueryInv, RowsBefore, PartsTile, Decided
  <2>2. CASE KeyTimedOut
    BY <2>2 DEF KeyTimedOut, QueryInv, RowsBefore, PartsTile, Decided
  <2>3. QED
    BY <1>2, <2>1, <2>2, AnsweredInv, SplitInv DEF RequestStep
<1>3. QED
  BY <1>1, <1>2 DEF QueryNext, ExecutorStep, queryVars

\* The request begins with one part, the whole block.
LEMMA QueryInitInv == QueryInit => QueryInv
<1>1. <<1, Len(Block)>> \in Parts /\ Len(Block) \in Nat
  BY RequestAssumption DEF Parts
<1>2. QED
  BY <1>1 DEF QueryInit, QueryInv, RowsBefore, PartsTile, Decided

\* The rows and the parts tile the block in every reachable state.
LEMMA QueryInvCorrect == QuerySpec => []QueryInv
<1>1. QueryInv /\ [QueryNext]_queryVars => QueryInv'
  BY QueryNextInv
<1>2. QED
  BY <1>1, QueryInitInv, PTL DEF QuerySpec

\* However a block was split, and in whatever order the rows of each call came, the rows
\* answered are those of the block's keys in their order.
THEOREM OrderCorrect == QuerySpec => []RowsInOrder
<1>1. QueryInv => RowsInOrder
  <2> SUFFICES ASSUME QueryInv PROVE RowsInOrder
    OBVIOUS
  <2>1. /\ rows \in Seq(Range(Block)) /\ Block \in Seq(Range(Block))
        /\ Len(rows) <= Len(Block) /\ Len(rows) \in Nat /\ Len(Block) \in Nat
        /\ \A k \in 1..Len(rows) : rows[k] = Block[k]
    BY RequestAssumption DEF QueryInv, RowsBefore
  <2>2. SubSeq(rows, 1, Len(rows)) = SubSeq(Block, 1, Len(rows))
    BY <2>1
  <2>3. verdict = "answered" => Len(rows) = Len(Block)
    BY DEF QueryInv, PartsTile, Decided
  <2>4. Len(rows) = Len(Block) => rows = Block
    BY <2>1
  <2>5. QED
    BY <2>1, <2>2, <2>3, <2>4 DEF RowsInOrder, IsPrefix
<1>2. QED
  BY <1>1, QueryInvCorrect, PTL

-------------------------------------------------------------------------------
(* The executor under the request. *)

\* A step of the request and the other thread is a step of the executor, or leaves it alone.
LEMMA QueryStepsExecutor ==
    ASSUME QueryInv, [QueryNext]_queryVars
    PROVE  [Next]_vars
<1>1. CASE RequestBegins
  <2>1. todo # <<>> /\ RowsBefore /\ PartsTile
    BY <1>1 DEF RequestBegins, QueryInv, Decided
  <2>2. Part \in Ops
    BY <2>1, PartUnderWay, RequestAssumption DEF Calls
  <2>3. QED
    BY <2>2, <1>1 DEF RequestBegins, Next
<1>2. CASE OtherBegins
  <2>1. PICK i \in DOMAIN Others : Begin(Others[i])
    BY <1>2 DEF OtherBegins
  <2>2. Others[i] \in Ops
    BY <2>1, RequestAssumption DEF Calls, Range
  <2>3. QED
    BY <2>1, <2>2 DEF Next
<1>3. ASSUME NEW o \in Active, Attempt(o) \/ Respond(o) PROVE [Next]_vars
  BY <1>3 DEF Active, Next
<1>4. CASE Tick
  BY <1>4 DEF Next
<1>5. CASE RequestStep
  BY <1>5 DEF RequestStep
<1>6. CASE UNCHANGED queryVars
  BY <1>6 DEF queryVars
<1>7. QED
  BY <1>1, <1>2, <1>3, <1>4, <1>5, <1>6 DEF QueryNext, ExecutorStep

\* The executor's invariant holds under the request's calls and another thread's.
LEMMA ExecutorInvUnderQuery == QuerySpec => []IInv
<1>1. QueryInv /\ IInv /\ [QueryNext]_queryVars => IInv'
  BY QueryStepsExecutor, NextInv
<1>2. QueryInit => IInv
  BY InitInv DEF QueryInit
<1>3. QED
  BY <1>1, <1>2, QueryInvCorrect, PTL DEF QuerySpec

\* However a request splits its block and whatever calls another thread makes beside it,
\* pauses, budgets and outages stay within their bounds.
THEOREM RequestKeepsBounds ==
    QuerySpec => [](PausesBounded /\ BudgetsKept /\ OutageBounded)
<1>1. IInv => PausesBounded /\ BudgetsKept /\ OutageBounded
  BY InvBounds
<1>2. QED
  BY <1>1, ExecutorInvUnderQuery, PTL
===============================================================================
