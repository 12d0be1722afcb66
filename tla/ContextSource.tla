---------------------------- MODULE ContextSource ----------------------------
(***************************************************************************)
(* The streaming context source of data/contexts.py: threads fetch the     *)
(* contexts of a batch through one bounded LRU, an optional disk tier and  *)
(* one pool of request workers.  Under the lock a fetch claims the keys    *)
(* that neither memory holds nor another fetch has claimed, obtains them   *)
(* outside the lock, publishes them, and only then waits for the keys      *)
(* other fetches had claimed.                                              *)
(*                                                                         *)
(* A member of Fetches is one call of fetch: its thread, its locals and    *)
(* its claim.  Any number of them may be active at once and a call may     *)
(* begin after another returned.  A step is the code between two points    *)
(* where another thread can be told apart: a section under the lock, a     *)
(* submission, a wake-up of wait().  A context stands for its row.         *)
(***************************************************************************)
EXTENDS DaemonPool, MemoryTier

CONSTANTS
    Fetches,    \* the calls of fetch
    NoFetch,    \* no claim
    KeyLists,   \* what a fetch may ask for: sequences of distinct contexts
    BatchSize,  \* request_batch_size
    HasDisk,    \* whether the source has a disk tier
    DiskLoses,  \* whether entries may leave the disk (evicted, corrupted, not written)
    Outcomes,   \* how a request may end: a subset of {"finished", "failed"}
    MayClose    \* whether the source may be closed while fetches are active

\* A request is named by its fetch and its block: the blocks of a fetch are disjoint.
Requests == [fetch : Fetches, block : SUBSET Contexts]

ASSUME SourceAssumption ==
    /\ Calls = Requests
    /\ NoFetch \notin Fetches
    /\ KeyLists \subseteq Seq(Contexts)
    /\ \A keys \in KeyLists : \A i, j \in DOMAIN keys : keys[i] = keys[j] => i = j
    /\ BatchSize \in Nat \ {0}
    /\ HasDisk \in BOOLEAN /\ DiskLoses \in BOOLEAN /\ MayClose \in BOOLEAN
    /\ Outcomes \subseteq {"finished", "failed"}

VARIABLES
    pc,           \* where each fetch is
    want,         \* unique: the keys it asks for, in order
    claimed,      \* the keys it claimed
    shared,       \* the fetch whose claim it awaits, per key
    stored,       \* the claimed keys it read from disk
    fetched,      \* the claimed keys its requests brought
    left,         \* the keys of its blocks not yet submitted
    running,      \* its requests in flight, as its window knows them
    claim,        \* the Future its claimed keys are promised by
    inflight,     \* _inflight: the fetch whose claim each key is under
    disk,         \* the disk tier's readable entries
    admitted,     \* the requests whose worker found the source open
    sent,         \* the requests that reached TigerGraph
    closer,       \* where close is
    waits,        \* whether close waits for the requests under way
    unbegun,      \* the requests no worker had begun when close was called
    requested, memory_hits, disk_hits   \* ContextCounts

callVars == <<admitted, sent, closer, waits, unbegun>>
fetchVars == <<pc, want, claimed, shared, stored, fetched, left, running, claim>>
countVars == <<requested, memory_hits, disk_hits>>
vars == <<poolVars, memoryVars, fetchVars, countVars, inflight, disk, callVars>>

Steps ==
    {"new", "disk", "window", "release", "unwind", "answer", "await",
     "returned", "raised"}

\* The steps at which a fetch holds its claims: from the claim to its release.
Claiming == {"disk", "window", "release", "unwind"}

Ended == {"returned", "raised"}

Unclaimed == [k \in Contexts |-> NoFetch]

Concurrency == Cardinality(Workers)

Closed == closer # "open"

Init ==
    /\ PoolInit
    /\ MemoryInit
    /\ pc = [f \in Fetches |-> "new"]
    /\ want = [f \in Fetches |-> <<>>]
    /\ claimed = [f \in Fetches |-> {}]
    /\ shared = [f \in Fetches |-> Unclaimed]
    /\ stored = [f \in Fetches |-> {}]
    /\ fetched = [f \in Fetches |-> {}]
    /\ left = [f \in Fetches |-> {}]
    /\ running = [f \in Fetches |-> {}]
    /\ claim = [f \in Fetches |-> "open"]
    /\ inflight = Unclaimed
    /\ disk \in IF HasDisk THEN SUBSET Contexts ELSE {{}}
    /\ admitted = {}
    /\ sent = {}
    /\ closer = "open"
    /\ waits = FALSE
    /\ unbegun = {}
    /\ requested = 0 /\ memory_hits = 0 /\ disk_hits = 0

-------------------------------------------------------------------------------
(* fetch: the section that reads the LRU and claims. *)

\* Mutant: a fetch claims every key memory lacks, whoever else has claimed it.
BeginAlone(f) ==
    /\ pc[f] = "new"
    /\ ~Closed
    /\ \E keys \in KeyLists :
         LET hits == Held(keys)
             mine == KeysOf(keys) \ hits
         IN /\ want' = [want EXCEPT ![f] = keys]
            /\ claimed' = [claimed EXCEPT ![f] = mine]
            /\ shared' = [shared EXCEPT ![f] = Unclaimed]
            /\ inflight' = [k \in Contexts |-> IF k \in mine THEN f ELSE inflight[k]]
            /\ requested' = requested + Cardinality(KeysOf(keys))
            /\ memory_hits' = memory_hits + Cardinality(hits)
    /\ pc' = [pc EXCEPT ![f] = "disk"]
    /\ UNCHANGED <<poolVars, memoryVars, stored, fetched, left, running, claim,
                   disk_hits, disk, callVars>>

Begin(f) ==
    /\ pc[f] = "new"
    /\ ~Closed
    /\ \E keys \in KeyLists :
         LET hits == Held(keys)
             others == {k \in KeysOf(keys) \ hits : inflight[k] # NoFetch}
             mine == (KeysOf(keys) \ hits) \ others
         IN /\ want' = [want EXCEPT ![f] = keys]
            /\ claimed' = [claimed EXCEPT ![f] = mine]
            /\ shared' = [shared EXCEPT
                 ![f] = [k \in Contexts |-> IF k \in others THEN inflight[k] ELSE NoFetch]]
            /\ inflight' = [k \in Contexts |-> IF k \in mine THEN f ELSE inflight[k]]
            /\ requested' = requested + Cardinality(KeysOf(keys))
            /\ memory_hits' = memory_hits + Cardinality(hits)
    /\ pc' = [pc EXCEPT ![f] = "disk"]
    /\ UNCHANGED <<poolVars, memoryVars, stored, fetched, left, running, claim,
                   disk_hits, disk, callVars>>

\* A closed source refuses.
Refuse(f) ==
    /\ pc[f] = "new"
    /\ Closed
    /\ pc' = [pc EXCEPT ![f] = "raised"]
    /\ UNCHANGED <<poolVars, memoryVars, countVars, want, claimed, shared, stored,
                   fetched, left, running, claim, inflight, disk, callVars>>

-------------------------------------------------------------------------------
(* _obtain and _run_window: the claimed keys, from disk and from TigerGraph. *)

ReadDisk(f) ==
    /\ pc[f] = "disk"
    /\ LET found == claimed[f] \cap disk
       IN /\ stored' = [stored EXCEPT ![f] = found]
          /\ left' = [left EXCEPT ![f] = claimed[f] \ found]
          /\ disk_hits' = disk_hits + Cardinality(found)
    /\ pc' = [pc EXCEPT ![f] = "window"]
    /\ UNCHANGED <<poolVars, memoryVars, want, claimed, shared, fetched, running, claim,
                   inflight, requested, memory_hits, disk, callVars>>

\* The next block: the first BatchSize keys left, in the order asked for.
NextBlock(f) ==
    LET upTo(k) == {j \in left[f] : Position(want[f], j) <= Position(want[f], k)}
    IN {k \in left[f] : Cardinality(upTo(k)) <= BatchSize}

\* Mutant: the fetch fails without failing its claim.
UnwindSilently(f, others) ==
    /\ Cancel(others)
    /\ running' = [running EXCEPT ![f] = {}]
    /\ pc' = [pc EXCEPT ![f] = "unwind"]
    /\ UNCHANGED claim

\* The error path: cancel the window's other requests and fail the claim.
Unwind(f, others) ==
    /\ Cancel(others)
    /\ running' = [running EXCEPT ![f] = {}]
    /\ claim' = [claim EXCEPT ![f] = "failed"]
    /\ pc' = [pc EXCEPT ![f] = "unwind"]

MaySubmit(f) ==
    /\ pc[f] = "window"
    /\ left[f] # {}
    /\ Cardinality(running[f]) < Concurrency

SubmitBlock(f) ==
    /\ MaySubmit(f)
    /\ LET request == [fetch |-> f, block |-> NextBlock(f)]
       IN /\ Submit(request)
          /\ running' = [running EXCEPT ![f] = @ \cup {request}]
          /\ left' = [left EXCEPT ![f] = @ \ request.block]
    /\ UNCHANGED <<memoryVars, countVars, pc, want, claimed, shared, stored, fetched,
                   claim, inflight, disk, callVars>>

\* submit raises on a pool that was shut down; the block it popped is lost with it.
SubmitRefused(f) ==
    /\ MaySubmit(f)
    /\ shutdown
    /\ Unwind(f, running[f])
    /\ UNCHANGED <<memoryVars, countVars, want, claimed, shared, stored, fetched, left,
                   inflight, disk, callVars>>

\* wait(running, FIRST_COMPLETED): the window is full or has nothing left to submit, and
\* at least one of its requests is done.
Woken(f) ==
    IF pc[f] = "window" /\ (left[f] = {} \/ Cardinality(running[f]) >= Concurrency)
    THEN {r \in running[f] : future[r] \in Settled}
    ELSE {}

Rows(requests) == UNION {r.block : r \in requests}

Collect(f) ==
    /\ Woken(f) # {}
    /\ \A r \in Woken(f) : future[r] = "finished"
    /\ fetched' = [fetched EXCEPT ![f] = @ \cup Rows(Woken(f))]
    /\ running' = [running EXCEPT ![f] = @ \ Woken(f)]
    /\ UNCHANGED <<poolVars, memoryVars, countVars, pc, want, claimed, shared, stored,
                   left, claim, inflight, disk, callVars>>

\* One of the requests done has no result: those read before it count, the others are
\* cancelled, and the fetch fails.
CollectFails(f) ==
    /\ \E bad \in {r \in Woken(f) : future[r] # "finished"} :
       \E read \in SUBSET {r \in Woken(f) : future[r] = "finished"} :
         /\ fetched' = [fetched EXCEPT ![f] = @ \cup Rows(read)]
         /\ Unwind(f, running[f] \ (read \cup {bad}))
    /\ UNCHANGED <<memoryVars, countVars, want, claimed, shared, stored, left, inflight,
                   disk, callVars>>

WindowDone(f) ==
    /\ pc[f] = "window"
    /\ left[f] = {} /\ running[f] = {}
    /\ pc' = [pc EXCEPT ![f] = "release"]
    /\ UNCHANGED <<poolVars, memoryVars, countVars, want, claimed, shared, stored, fetched,
                   left, running, claim, inflight, disk, callVars>>

\* Mutant: only a fetch that succeeded drops its claims.
ReleaseOnSuccess(f) ==
    /\ pc[f] \in {"release", "unwind"}
    /\ Put(want[f], stored[f] \cup fetched[f])
    /\ inflight' = [k \in Contexts |->
                      IF pc[f] = "release" /\ k \in claimed[f] THEN NoFetch ELSE inflight[k]]
    /\ pc' = [pc EXCEPT ![f] = IF pc[f] = "release" THEN "answer" ELSE "raised"]
    /\ UNCHANGED <<poolVars, countVars, want, claimed, shared, stored, fetched, left,
                   running, claim, disk, callVars>>

\* finally, under the lock: whatever was obtained goes into the LRU and the claims that
\* are still this fetch's leave the table.
Release(f) ==
    /\ pc[f] \in {"release", "unwind"}
    /\ Put(want[f], stored[f] \cup fetched[f])
    /\ inflight' = [k \in Contexts |->
                      IF k \in claimed[f] /\ inflight[k] = f THEN NoFetch ELSE inflight[k]]
    /\ pc' = [pc EXCEPT ![f] = IF pc[f] = "release" THEN "answer" ELSE "raised"]
    /\ UNCHANGED <<poolVars, countVars, want, claimed, shared, stored, fetched, left,
                   running, claim, disk, callVars>>

\* claim.set_result
Answer(f) ==
    /\ pc[f] = "answer"
    /\ claim' = [claim EXCEPT ![f] = "answered"]
    /\ pc' = [pc EXCEPT ![f] = "await"]
    /\ UNCHANGED <<poolVars, memoryVars, countVars, want, claimed, shared, stored, fetched,
                   left, running, inflight, disk, callVars>>

-------------------------------------------------------------------------------
(* fetch: wait for the claims of others, in key order. *)

Shared(f) == {k \in Contexts : shared[f][k] # NoFetch}

\* Mutant: a claim that failed is taken for one that was answered.
ReturnAnyway(f) ==
    /\ pc[f] = "await"
    /\ \A k \in Shared(f) : claim[shared[f][k]] # "open"
    /\ disk_hits' = disk_hits + Cardinality({k \in Shared(f) : k \in stored[shared[f][k]]})
    /\ pc' = [pc EXCEPT ![f] = "returned"]
    /\ UNCHANGED <<poolVars, memoryVars, want, claimed, shared, stored, fetched, left,
                   running, claim, inflight, requested, memory_hits, disk, callVars>>

\* Mutant: keys another fetch read from disk are not counted as disk hits.
ReturnUncounted(f) ==
    /\ pc[f] = "await"
    /\ \A k \in Shared(f) : claim[shared[f][k]] = "answered"
    /\ pc' = [pc EXCEPT ![f] = "returned"]
    /\ UNCHANGED <<poolVars, memoryVars, countVars, want, claimed, shared, stored, fetched,
                   left, running, claim, inflight, disk, callVars>>

Return(f) ==
    /\ pc[f] = "await"
    /\ \A k \in Shared(f) : claim[shared[f][k]] = "answered"
    /\ disk_hits' = disk_hits + Cardinality({k \in Shared(f) : k \in stored[shared[f][k]]})
    /\ pc' = [pc EXCEPT ![f] = "returned"]
    /\ UNCHANGED <<poolVars, memoryVars, want, claimed, shared, stored, fetched, left,
                   running, claim, inflight, requested, memory_hits, disk, callVars>>

\* The first claim in key order that is not answered failed: its error is raised here.
AwaitFails(f) ==
    /\ pc[f] = "await"
    /\ \E k \in Shared(f) :
         /\ claim[shared[f][k]] = "failed"
         /\ \A j \in Shared(f) :
              Position(want[f], j) < Position(want[f], k) => claim[shared[f][j]] = "answered"
    /\ pc' = [pc EXCEPT ![f] = "raised"]
    /\ UNCHANGED <<poolVars, memoryVars, countVars, want, claimed, shared, stored, fetched,
                   left, running, claim, inflight, disk, callVars>>

-------------------------------------------------------------------------------
(* The request workers: the pool's steps around _query. *)

sourceVars == <<memoryVars, fetchVars, countVars, inflight, closer, waits, unbegun>>

TakeRequest(w) == Take(w) /\ UNCHANGED <<sourceVars, disk, admitted, sent>>

StartRequest(w) == Start(w) /\ UNCHANGED <<sourceVars, disk, admitted, sent>>

Executing(w) ==
    /\ held[w] # NoCall
    /\ future[held[w]] = "running"

\* Mutant: a worker does not look whether the source was closed meanwhile.
AdmitUnchecked(w) ==
    /\ Executing(w)
    /\ held[w] \notin admitted
    /\ admitted' = admitted \cup {held[w]}
    /\ UNCHANGED <<sourceVars, poolVars, disk, sent>>

\* _query reads _closed, without the lock, before anything else ...
Admit(w) ==
    /\ Executing(w)
    /\ held[w] \notin admitted
    /\ ~Closed
    /\ admitted' = admitted \cup {held[w]}
    /\ UNCHANGED <<sourceVars, poolVars, disk, sent>>

AdmitRefused(w) ==
    /\ Executing(w)
    /\ held[w] \notin admitted
    /\ Closed
    /\ Finish(w, "failed")
    /\ UNCHANGED <<sourceVars, disk, admitted, sent>>

\* ... and never again: the request goes to TigerGraph after that, whatever close did in
\* between.  Its other HTTP calls, the retries and the halves of a block that timed out,
\* are made anywhere between this step and the answer (see ContextQuery).
Send(w) ==
    /\ Executing(w)
    /\ held[w] \in admitted \ sent
    /\ sent' = sent \cup {held[w]}
    /\ UNCHANGED <<sourceVars, poolVars, disk, admitted>>

\* Mutant: the answer is not written to disk.
RespondUnwritten(w) ==
    /\ Executing(w)
    /\ held[w] \in sent
    /\ \E outcome \in Outcomes : Finish(w, outcome)
    /\ UNCHANGED <<sourceVars, disk, admitted, sent>>

\* The answer is written to disk, then becomes the future's result; an error is not.
Respond(w) ==
    /\ Executing(w)
    /\ held[w] \in sent
    /\ \E outcome \in Outcomes :
         /\ Finish(w, outcome)
         /\ disk' = IF HasDisk /\ outcome = "finished"
                    THEN disk \cup held[w].block ELSE disk
    /\ UNCHANGED <<sourceVars, admitted, sent>>

\* An entry leaves the disk: evicted by this process or another, or no longer readable.
LoseEntry ==
    /\ DiskLoses
    /\ \E k \in disk : disk' = disk \ {k}
    /\ UNCHANGED <<sourceVars, poolVars, admitted, sent>>

-------------------------------------------------------------------------------
(* close *)

\* A request that no worker has begun: it waits in the queue, or a worker has only taken it.
NotBegun(r) == future[r] \in {"unsubmitted", "pending", "cancelled", "notified"}

CloseBegins ==
    /\ MayClose
    /\ closer = "open"
    /\ closer' = "flagged"
    /\ waits' \in BOOLEAN
    /\ unbegun' = {r \in Requests : NotBegun(r)}
    /\ UNCHANGED <<poolVars, memoryVars, fetchVars, countVars, inflight, disk, admitted, sent>>

ClosePool ==
    /\ closer = "flagged"
    /\ Shutdown(TRUE)
    /\ closer' = IF waits THEN "joining" ELSE "clearing"
    /\ UNCHANGED <<memoryVars, fetchVars, countVars, inflight, disk, admitted, sent, waits,
                   unbegun>>

CloseJoins ==
    /\ closer = "joining"
    /\ Joined
    /\ closer' = "clearing"
    /\ UNCHANGED <<poolVars, memoryVars, fetchVars, countVars, inflight, disk, admitted, sent,
                   waits, unbegun>>

CloseEnds ==
    /\ closer = "clearing"
    /\ Clear
    /\ closer' = "closed"
    /\ UNCHANGED <<poolVars, fetchVars, countVars, inflight, disk, admitted, sent, waits, unbegun>>

-------------------------------------------------------------------------------
FetchStep(f) ==
    \/ ReadDisk(f)
    \/ SubmitBlock(f)
    \/ SubmitRefused(f)
    \/ Collect(f)
    \/ CollectFails(f)
    \/ WindowDone(f)
    \/ Release(f)
    \/ Answer(f)
    \/ Return(f)
    \/ AwaitFails(f)

RequestStep(w) ==
    \/ TakeRequest(w)
    \/ StartRequest(w)
    \/ Admit(w)
    \/ AdmitRefused(w)
    \/ Send(w)
    \/ Respond(w)

CloseStep == ClosePool \/ CloseJoins \/ CloseEnds

Next ==
    \/ \E f \in Fetches : Begin(f) \/ Refuse(f) \/ FetchStep(f)
    \/ \E w \in Workers : RequestStep(w)
    \/ LoseEntry
    \/ CloseBegins
    \/ CloseStep

\* Threads are scheduled, and a request ends: the query executor gives up on every
\* request after a bounded number of attempts and a bounded outage.
Fairness ==
    /\ \A f \in Fetches : WF_vars(FetchStep(f))
    /\ \A w \in Workers : WF_vars(RequestStep(w))
    /\ WF_vars(CloseStep)

Spec == Init /\ [][Next]_vars /\ Fairness

-------------------------------------------------------------------------------
(* Properties. *)

\* Every variable of the source has its type.
TypeOK ==
    /\ PoolTypeOK
    /\ memory \subseteq Contexts /\ older \subseteq Contexts \X Contexts
    /\ pc \in [Fetches -> Steps]
    /\ want \in [Fetches -> Seq(Contexts)]
    /\ claimed \in [Fetches -> SUBSET Contexts]
    /\ shared \in [Fetches -> [Contexts -> Fetches \cup {NoFetch}]]
    /\ stored \in [Fetches -> SUBSET Contexts]
    /\ fetched \in [Fetches -> SUBSET Contexts]
    /\ left \in [Fetches -> SUBSET Contexts]
    /\ running \in [Fetches -> SUBSET Requests]
    /\ claim \in [Fetches -> {"open", "answered", "failed"}]
    /\ inflight \in [Contexts -> Fetches \cup {NoFetch}]
    /\ disk \subseteq Contexts
    /\ admitted \subseteq Requests /\ sent \subseteq Requests
    /\ closer \in {"open", "flagged", "joining", "clearing", "closed"}
    /\ waits \in BOOLEAN /\ unbegun \subseteq Requests
    /\ requested \in Nat /\ memory_hits \in Nat /\ disk_hits \in Nat

\* _inflight and the locals of the fetches agree: a key is in the table exactly while
\* the fetch that claimed it has neither published nor given it up.  A claim left behind
\* would hang every later fetch of the key, one dropped early would request it twice.
ClaimTable ==
    \A k \in Contexts, f \in Fetches :
        inflight[k] = f <=> pc[f] \in Claiming /\ k \in claimed[f]

\* The LRU never holds a key that is claimed: the rows of a claim are published in the
\* section that drops it, and no other fetch brings rows of that key meanwhile.
CachedOrClaimed == \A k \in memory : inflight[k] = NoFetch

InFlight(r) == future[r] \in {"pending", "running"}

\* "it awaits the claim rather than reading or requesting the key again": two requests
\* of one context are in flight together only when the fetch of one of them has failed
\* and left it to its worker.
SingleFlight ==
    \A r, s \in {q \in Requests : InFlight(q)} :
        r # s /\ r.block \cap s.block # {} =>
            claim[r.fetch] = "failed" \/ claim[s.fetch] = "failed"

\* What a fetch obtained for its claim.
Obtained(f) == stored[f] \cup fetched[f]

\* A fetch that returns has a row for every key: the LRU's, its own, or the row of a
\* claim that was answered with it (rows[key] = other.rows[key] finds it).
ReturnsEveryRow ==
    \A f \in Fetches : pc[f] = "returned" =>
        /\ claimed[f] = Obtained(f)
        /\ \A k \in Shared(f) : k \in Obtained(shared[f][k])

\* "each context is requested once while its entry lasts, however the LRU churns": where
\* entries stay on disk, or the LRU holds every context, the fetches that do not fail send
\* each context to TigerGraph at most once between them.
OneRequestEach ==
    (HasDisk /\ ~DiskLoses) \/ Cardinality(Contexts) <= Capacity
    => \A k \in Contexts :
         Cardinality({r \in sent : k \in r.block /\ claim[r.fetch] # "failed"}) <= 1

\* The (fetch, key) pairs a request of this source answered, its own or an awaited one.
Requested ==
    {p \in Fetches \X Contexts :
        LET f == p[1]  k == p[2]
        IN \/ k \in fetched[f]
           \/ k \in Shared(f) /\ k \in fetched[shared[f][k]]}

\* ContextCounts: every key of every fetch is a memory hit, a disk hit (its own, or the
\* one of the claim it awaited) or came by a request, and is counted as one of them.
CountsAgree ==
    /\ memory_hits + disk_hits <= requested
    /\ (\A f \in Fetches : pc[f] \in {"new", "returned"}) =>
         requested = memory_hits + disk_hits + Cardinality(Requested)

\* A request that is, or may go, to TigerGraph: from the look at _closed to its end.
Calling(r) == r \in admitted /\ InFlight(r)

\* close: a request that no worker had begun when close was called, queued then or submitted
\* later, never goes to TigerGraph, also when a worker gets it before it can be cancelled;
\* and once a close(wait=True) is past its join, no request is on its way there, nor any of
\* its retries.  (A request begun before may go out after close(wait=False) returned.)
NoRequestAfterClose ==
    /\ sent \cap unbegun = {}
    /\ waits /\ closer \in {"clearing", "closed"} => \A r \in Requests : ~Calling(r)

\* fetch/_obtain: a fetch that began returns or raises unless the source is closed.  A
\* claim is always answered or failed, fetches await only earlier claims, and a fetch that
\* awaits keeps no worker, so that none blocks another for ever.
EveryFetchEnds ==
    \A f \in Fetches : pc[f] = "disk" ~> pc[f] \in Ended \/ Closed

\* close returns, with wait=True after the requests that are under way.
CloseReturns == Closed ~> closer = "closed"

\* tests/data/test_contexts.py: "the fetch fails; nothing new is queued" once the source
\* is closed without waiting.
FetchEndsAfterClose ==
    \A f \in Fetches : (Closed /\ pc[f] = "window") ~> pc[f] \in Ended

-------------------------------------------------------------------------------
(* The inductive invariant the proofs use: where the keys of a claim are. *)

\* A request in the window of a fetch is its own, for keys it claimed, and no two of them,
\* nor one of them and the keys still to submit, have a key in common.
WindowDisjoint ==
    \A f \in Fetches :
        /\ running[f] # {} => pc[f] = "window"
        /\ \A r \in running[f] :
             r.fetch = f /\ r.block \subseteq claimed[f] /\ r.block \cap left[f] = {}
        /\ \A r, s \in running[f] : r # s => r.block \cap s.block = {}

\* A request in flight is in the window of its fetch unless that fetch failed.
FlightOwned ==
    \A r \in Requests :
        InFlight(r) /\ claim[r.fetch] # "failed" =>
            pc[r.fetch] = "window" /\ r \in running[r.fetch]

\* The verdict on a claim fits where its fetch is.
ClaimFits ==
    \A f \in Fetches :
        /\ claim[f] = "failed" => pc[f] \in {"unwind", "raised"}
        /\ claim[f] = "answered" => pc[f] \in {"await", "returned", "raised"}

\* The keys of a claim are obtained, in flight or still to submit, and nothing else is.
KeysAccounted ==
    \A f \in Fetches :
        /\ Obtained(f) \subseteq claimed[f]
        /\ left[f] \subseteq claimed[f]
        /\ pc[f] = "new" => claimed[f] = {}
        /\ pc[f] = "disk" => Obtained(f) = {}
        /\ pc[f] = "window" => claimed[f] = Obtained(f) \cup left[f] \cup Rows(running[f])
        /\ pc[f] \in {"release", "answer", "await", "returned"} => claimed[f] = Obtained(f)
        /\ claim[f] = "answered" => claimed[f] = Obtained(f)

\* A fetch awaits a key from a fetch that claimed it, and returned only once answered.
SharedClaimed ==
    \A f \in Fetches :
        \A k \in Shared(f) :
            /\ k \in claimed[shared[f][k]]
            /\ pc[f] = "returned" => claim[shared[f][k]] = "answered"

IInv ==
    /\ TypeOK
    /\ ClaimTable
    /\ WindowDisjoint
    /\ FlightOwned
    /\ ClaimFits
    /\ KeysAccounted
    /\ SharedClaimed
    /\ CachedOrClaimed

-------------------------------------------------------------------------------
(* The source implements SharedReads. *)

\* A fetch takes its keys on when it claims them, publishes them when it releases its
\* claims, and is told apart from a failing one by its claim.
StageOf(step) ==
    CASE step \in {"disk", "window", "release"} -> "reading"
      [] step = "unwind" -> "failing"
      [] step \in {"answer", "await"} -> "waiting"
      [] OTHER -> step

Reads == INSTANCE SharedReads WITH
    Readers <- Fetches,
    Keys <- Contexts,
    Nobody <- NoFetch,
    reader <- inflight,
    verdict <- [f \in Fetches |-> IF pc[f] = "answer" THEN "answered" ELSE claim[f]],
    awaits <- [f \in Fetches |-> {shared[f][k] : k \in Shared(f)}],
    stage <- [f \in Fetches |-> StageOf(pc[f])]

\* To its callers the source is SharedReads, open or closed: one reader per key, and a fetch
\* returns or fails only with the verdicts of all it waited for.  That is what the steps may
\* do; that they are taken is EveryFetchEnds, of a source that is not closed.
ImplementsSharedReads == Reads!SafeSpec
===============================================================================
