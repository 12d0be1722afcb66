------------------------- MODULE ContextSource_proof -------------------------
(***************************************************************************)
(* Proofs about the context source, for every set of fetches, workers and  *)
(* contexts, every capacity and block size, with or without a disk tier,   *)
(* failing requests and a close.                                           *)
(***************************************************************************)
EXTENDS ContextSource, FiniteSetTheorems, TLAPS

USE PoolAssumption, MemoryAssumption, SourceAssumption DEF PoolAssumption, MemoryAssumption, SourceAssumption

USE DEF callVars

\* The sets whose sizes the counters add up are finite.
LEMMA CountsAreNat ==
    ASSUME NEW S, S \subseteq Contexts
    PROVE  Cardinality(S) \in Nat
BY FS_Subset, FS_CardinalityType

\* Initially every variable has its type.
LEMMA InitType == Init => TypeOK
<1> SUFFICES ASSUME Init PROVE TypeOK
  OBVIOUS
<1>1. PoolTypeOK
  <2>1. queue \in Seq(Calls \cup {Stop})
    BY DEF Init, PoolInit
  <2>2. QED
    BY <2>1 DEF Init, PoolInit, PoolTypeOK, FutureStates, ThreadStates
<1>2. disk \subseteq Contexts
  BY DEF Init
<1>3. admitted \subseteq Requests /\ sent \subseteq Requests /\ unbegun \subseteq Requests
  BY DEF Init
<1>4. /\ closer \in {"open", "flagged", "joining", "clearing", "closed"} /\ waits \in BOOLEAN
      /\ claim \in [Fetches -> {"open", "answered", "failed"}]
      /\ requested \in Nat /\ memory_hits \in Nat /\ disk_hits \in Nat
  BY DEF Init
<1>5. memory \subseteq Contexts /\ older \subseteq Contexts \X Contexts
  BY DEF Init, MemoryInit
<1>6. /\ pc \in [Fetches -> Steps]
      /\ want \in [Fetches -> Seq(Contexts)]
      /\ shared \in [Fetches -> [Contexts -> Fetches \cup {NoFetch}]]
      /\ inflight \in [Contexts -> Fetches \cup {NoFetch}]
  BY DEF Init, Steps, Unclaimed
<1>7. /\ claimed \in [Fetches -> SUBSET Contexts]
      /\ stored \in [Fetches -> SUBSET Contexts]
      /\ fetched \in [Fetches -> SUBSET Contexts]
      /\ left \in [Fetches -> SUBSET Contexts]
      /\ running \in [Fetches -> SUBSET Requests]
  BY DEF Init
<1>8. QED
  BY <1>1, <1>2, <1>3, <1>4, <1>5, <1>6, <1>7 DEF TypeOK

\* Every pool step a source action is made of keeps the pool's variables typed.
LEMMA PoolType ==
    ASSUME PoolTypeOK
    PROVE  /\ \A c \in Calls : Submit(c) => PoolTypeOK'
           /\ \A S : Cancel(S) => PoolTypeOK'
           /\ Shutdown(TRUE) => PoolTypeOK'
           /\ \A w \in Workers : Take(w) \/ Start(w) => PoolTypeOK'
           /\ \A w \in Workers, o \in {"finished", "failed"} : Finish(w, o) => PoolTypeOK'
           /\ UNCHANGED poolVars => PoolTypeOK'
<1>1. ASSUME NEW c \in Calls, Submit(c) PROVE PoolTypeOK'
  <2>1. queue' \in Seq(Calls \cup {Stop})
    BY <1>1 DEF PoolTypeOK, Submit
  <2>2. future' \in [Calls -> FutureStates]
    BY <1>1 DEF PoolTypeOK, Submit, FutureStates
  <2>3. thread' \in [Workers -> ThreadStates]
    BY <1>1 DEF PoolTypeOK, Submit, ThreadStates
  <2>4. QED
    BY <1>1, <2>1, <2>2, <2>3 DEF PoolTypeOK, Submit
<1>2. \A S : Cancel(S) => PoolTypeOK'
  BY DEF PoolTypeOK, Cancel, Cancelled, FutureStates
<1>3. Shutdown(TRUE) => PoolTypeOK'
  <2>1. Cardinality(Started) \in Nat
    BY FS_Subset, FS_CardinalityType DEF Started
  <2>2. [i \in 1..Cardinality(Started) |-> Stop] \in Seq(Calls \cup {Stop})
    BY <2>1
  <2>3. QED
    BY <2>2 DEF PoolTypeOK, Shutdown, Cancelled, FutureStates
<1>4. \A w \in Workers : Take(w) \/ Start(w) => PoolTypeOK'
  <2>1. \A w \in Workers : Take(w) => PoolTypeOK'
    BY DEF PoolTypeOK, Take, ThreadStates
  <2>2. \A w \in Workers : Start(w) => PoolTypeOK'
    BY SMTT(30) DEF PoolTypeOK, Start, FutureStates
  <2>3. QED
    BY <2>1, <2>2
<1>5. \A w \in Workers, o \in {"finished", "failed"} : Finish(w, o) => PoolTypeOK'
  BY DEF PoolTypeOK, Finish, FutureStates
<1>6. UNCHANGED poolVars => PoolTypeOK'
  BY DEF PoolTypeOK, poolVars
<1>7. QED
  BY <1>1, <1>2, <1>3, <1>4, <1>5, <1>6

\* The keys of a list a fetch may ask for are contexts.
LEMMA KeysOfIn ==
    ASSUME NEW keys \in KeyLists
    PROVE  keys \in Seq(Contexts) /\ KeysOf(keys) \subseteq Contexts
BY DEF KeysOf

\* A block is taken from the keys left to submit.
LEMMA NextBlockIn == \A f \in Fetches : NextBlock(f) \subseteq left[f]
BY DEF NextBlock

\* What a fetch puts into the memory are contexts.
LEMMA PutIn ==
    ASSUME memory \subseteq Contexts, NEW keys, KeysOf(keys) \subseteq Contexts,
           NEW rows, Put(keys, rows)
    PROVE  memory' \subseteq Contexts /\ older' \subseteq Contexts \X Contexts
<1> DEFINE kept == memory \cup (KeysOf(keys) \cap (rows \cup memory))
<1>1. memory' \subseteq kept /\ older' \subseteq kept \X kept
  BY DEF Put
<1>2. kept \subseteq Contexts
  OBVIOUS
<1> HIDE DEF kept
<1>3. QED
  BY <1>1, <1>2

\* Every step of a fetch keeps the types.
LEMMA FetchType ==
    ASSUME TypeOK, NEW f \in Fetches
    PROVE  Begin(f) \/ Refuse(f) \/ FetchStep(f) => TypeOK'
<1> USE DEF TypeOK, fetchVars, countVars, memoryVars, Steps
<1>1. CASE Begin(f)
  <2>1. PICK keys \in KeyLists :
          LET hits == Held(keys)
              others == {k \in KeysOf(keys) \ hits : inflight[k] # NoFetch}
              mine == (KeysOf(keys) \ hits) \ others
          IN /\ want' = [want EXCEPT ![f] = keys]
             /\ claimed' = [claimed EXCEPT ![f] = mine]
             /\ shared' = [shared EXCEPT
                  ![f] = [k \in Contexts |-> IF k \in others THEN inflight[k] ELSE NoFetch]]
             /\ inflight' = [k \in Contexts |-> IF k \in mine THEN f ELSE inflight[k]]
             /\ requested' = requested + Cardinality(KeysOf(keys))
             /\ memory_hits' = memory_hits + Cardinality(hits)
    BY <1>1 DEF Begin
  <2>2. keys \in Seq(Contexts) /\ KeysOf(keys) \subseteq Contexts
    BY KeysOfIn
  <2>3. Held(keys) \subseteq Contexts
    BY DEF Held
  <2>4. requested' \in Nat /\ memory_hits' \in Nat
    <3>1. Cardinality(KeysOf(keys)) \in Nat /\ Cardinality(Held(keys)) \in Nat
      BY <2>2, <2>3, CountsAreNat
    <3>2. /\ requested' = requested + Cardinality(KeysOf(keys))
          /\ memory_hits' = memory_hits + Cardinality(Held(keys))
      BY <2>1
    <3>3. QED
      BY <3>1, <3>2
  <2>5. PoolTypeOK'
    BY <1>1, PoolType DEF Begin
  <2>6. /\ want' \in [Fetches -> Seq(Contexts)]
        /\ claimed' \in [Fetches -> SUBSET Contexts]
        /\ shared' \in [Fetches -> [Contexts -> Fetches \cup {NoFetch}]]
        /\ inflight' \in [Contexts -> Fetches \cup {NoFetch}]
    BY <2>1, <2>2
  <2>7. QED
    BY <1>1, <2>4, <2>5, <2>6 DEF Begin
<1>2. CASE Refuse(f)
  BY <1>2, PoolType DEF Refuse
<1>3. CASE ReadDisk(f)
  <2>1. Cardinality(claimed[f] \cap disk) \in Nat
    BY CountsAreNat
  <2>2. PoolTypeOK'
    BY <1>3, PoolType DEF ReadDisk
  <2>3. QED
    BY <1>3, <2>1, <2>2 DEF ReadDisk
<1>4. CASE SubmitBlock(f)
  <2> DEFINE request == [fetch |-> f, block |-> NextBlock(f)]
  <2>1. request \in Requests
    BY NextBlockIn DEF Requests
  <2>2. PoolTypeOK'
    BY <1>4, <2>1, PoolType DEF SubmitBlock
  <2>3. running' \in [Fetches -> SUBSET Requests] /\ left' \in [Fetches -> SUBSET Contexts]
    BY <1>4, <2>1 DEF SubmitBlock
  <2>4. QED
    BY <1>4, <2>2, <2>3 DEF SubmitBlock
<1>5. CASE SubmitRefused(f)
  <2>1. PoolTypeOK'
    BY <1>5, PoolType DEF SubmitRefused, Unwind
  <2>2. QED
    BY <1>5, <2>1 DEF SubmitRefused, Unwind
<1>6. CASE Collect(f)
  <2>1. Rows(Woken(f)) \subseteq Contexts
    BY DEF Rows, Woken, Requests
  <2>2. PoolTypeOK'
    BY <1>6, PoolType DEF Collect
  <2>3. QED
    BY <1>6, <2>1, <2>2 DEF Collect
<1>7. CASE CollectFails(f)
  <2>1. PICK bad \in {r \in Woken(f) : future[r] # "finished"},
             read \in SUBSET {r \in Woken(f) : future[r] = "finished"} :
          /\ fetched' = [fetched EXCEPT ![f] = @ \cup Rows(read)]
          /\ Unwind(f, running[f] \ (read \cup {bad}))
    BY <1>7 DEF CollectFails
  <2>2. Rows(read) \subseteq Contexts
    BY DEF Rows, Woken, Requests
  <2>3. PoolTypeOK'
    BY <2>1, PoolType DEF Unwind
  <2>4. QED
    BY <1>7, <2>1, <2>2, <2>3 DEF CollectFails, Unwind
<1>8. CASE WindowDone(f)
  BY <1>8, PoolType DEF WindowDone
<1>9. CASE Release(f)
  <2>1. memory' \subseteq Contexts /\ older' \subseteq Contexts \X Contexts
    <3>1. want[f] \in Seq(Contexts)
      OBVIOUS
    <3>2. KeysOf(want[f]) \subseteq Contexts
      BY <3>1 DEF KeysOf
    <3>3. Put(want[f], stored[f] \cup fetched[f])
      BY <1>9 DEF Release
    <3>4. QED
      BY <3>2, <3>3, PutIn
  <2>2. PoolTypeOK'
    BY <1>9, PoolType DEF Release
  <2>3. inflight' \in [Contexts -> Fetches \cup {NoFetch}]
    BY <1>9 DEF Release
  <2>4. QED
    BY <1>9, <2>1, <2>2, <2>3 DEF Release
<1>10. CASE Answer(f)
  BY <1>10, PoolType DEF Answer
<1>11. CASE Return(f)
  <2>1. Cardinality({k \in Shared(f) : k \in stored[shared[f][k]]}) \in Nat
    BY CountsAreNat DEF Shared
  <2>2. PoolTypeOK'
    BY <1>11, PoolType DEF Return
  <2>3. QED
    BY <1>11, <2>1, <2>2 DEF Return
<1>12. CASE AwaitFails(f)
  BY <1>12, PoolType DEF AwaitFails
<1>13. QED
  BY <1>1, <1>2, <1>3, <1>4, <1>5, <1>6, <1>7, <1>8, <1>9, <1>10, <1>11, <1>12
     DEF FetchStep

\* So does every step of a request worker, of close and of the disk.
LEMMA RequestType ==
    ASSUME TypeOK
    PROVE  /\ \A w \in Workers : RequestStep(w) => TypeOK'
           /\ LoseEntry \/ CloseBegins \/ CloseStep => TypeOK'
<1> USE DEF TypeOK, fetchVars, countVars, memoryVars, sourceVars
<1>1. ASSUME NEW w \in Workers, TakeRequest(w) \/ StartRequest(w) PROVE TypeOK'
  <2>1. PoolTypeOK'
    BY <1>1, PoolType DEF TakeRequest, StartRequest
  <2>2. QED
    BY <1>1, <2>1 DEF TakeRequest, StartRequest
<1>2. ASSUME NEW w \in Workers, Send(w) PROVE TypeOK'
  <2>1. PoolTypeOK'
    BY <1>2, PoolType DEF Send
  <2>2. sent' \subseteq Requests
    BY <1>2 DEF Send, Executing, PoolTypeOK
  <2>3. QED
    BY <1>2, <2>1, <2>2 DEF Send
<1>3. ASSUME NEW w \in Workers, Admit(w) \/ AdmitRefused(w) PROVE TypeOK'
  <2>1. PoolTypeOK'
    BY <1>3, PoolType DEF Admit, AdmitRefused
  <2>2. admitted' \subseteq Requests
    BY <1>3 DEF Admit, AdmitRefused, Executing, PoolTypeOK
  <2>3. QED
    BY <1>3, <2>1, <2>2 DEF Admit, AdmitRefused
<1>4. ASSUME NEW w \in Workers, Respond(w) PROVE TypeOK'
  <2>1. PoolTypeOK'
    BY <1>4, PoolType DEF Respond
  <2>2. disk' \subseteq Contexts
    BY <1>4 DEF Respond, Requests
  <2>3. QED
    BY <1>4, <2>1, <2>2 DEF Respond
<1>5. CASE LoseEntry
  BY <1>5, PoolType DEF LoseEntry
<1>6. CASE CloseBegins
  BY <1>6, PoolType DEF CloseBegins
<1>7. CASE ClosePool
  <2>1. PoolTypeOK'
    BY <1>7, PoolType DEF ClosePool
  <2>2. QED
    BY <1>7, <2>1 DEF ClosePool
<1>8. CASE CloseJoins
  BY <1>8, PoolType DEF CloseJoins
<1>9. CASE CloseEnds
  BY <1>9, PoolType DEF CloseEnds, Clear
<1>10. QED
  BY <1>1, <1>2, <1>3, <1>4, <1>5, <1>6, <1>7, <1>8, <1>9 DEF RequestStep, CloseStep

\* Every variable of the source always has its type.
THEOREM TypeCorrect == Spec => []TypeOK
<1>1. TypeOK /\ [Next]_vars => TypeOK'
  <2>1. ASSUME TypeOK, UNCHANGED vars PROVE TypeOK'
    BY <2>1, PoolType DEF TypeOK, vars, memoryVars, fetchVars, countVars
  <2>2. QED
    BY <2>1, FetchType, RequestType DEF Next
<1>2. QED
  BY <1>1, InitType, PTL DEF Spec

-------------------------------------------------------------------------------
(* The inductive invariant. *)

\* Initially nothing is claimed, in flight or cached.
LEMMA InitInv == Init => IInv
<1> SUFFICES ASSUME Init PROVE IInv
  OBVIOUS
<1>1. TypeOK
  BY InitType
<1>2. ClaimTable /\ CachedOrClaimed
  BY DEF Init, MemoryInit, ClaimTable, CachedOrClaimed, Claiming, Unclaimed
<1>3. WindowDisjoint /\ ClaimFits
  BY DEF Init, WindowDisjoint, ClaimFits
<1>4. FlightOwned
  BY DEF Init, PoolInit, FlightOwned, InFlight
<1>5. KeysAccounted /\ SharedClaimed
  BY DEF Init, KeysAccounted, SharedClaimed, Obtained, Shared, Unclaimed
<1>6. QED
  BY <1>1, <1>2, <1>3, <1>4, <1>5 DEF IInv

\* A step that leaves the fetches and their claims alone, starts no request of its own and
\* adds nothing to the LRU: what workers, the disk and close do.
Quiet ==
    /\ UNCHANGED <<fetchVars, inflight>>
    /\ \A r \in Requests : InFlight(r)' => InFlight(r)
    /\ memory' \subseteq memory

\* The steps of workers, close and the disk leave the fetches and their claims alone, put no
\* request in flight and no row in the LRU.
LEMMA RequestQuiet ==
    ASSUME TypeOK
    PROVE  /\ \A w \in Workers : RequestStep(w) => Quiet
           /\ LoseEntry \/ CloseBegins \/ CloseStep \/ UNCHANGED vars => Quiet
<1> USE DEF TypeOK, PoolTypeOK, Quiet, fetchVars, memoryVars, sourceVars
<1>1. ASSUME NEW w \in Workers, TakeRequest(w) PROVE Quiet
  BY <1>1 DEF TakeRequest, Take, InFlight
<1>2. ASSUME NEW w \in Workers, StartRequest(w) PROVE Quiet
  BY <1>2 DEF StartRequest, Start, InFlight
<1>3. ASSUME NEW w \in Workers, Send(w) PROVE Quiet
  BY <1>3 DEF Send, InFlight, poolVars
<1>4. ASSUME NEW w \in Workers, Admit(w) \/ AdmitRefused(w) PROVE Quiet
  BY <1>4 DEF Admit, AdmitRefused, Finish, InFlight, poolVars
<1>5. ASSUME NEW w \in Workers, Respond(w) PROVE Quiet
  BY <1>5 DEF Respond, Finish, InFlight
<1>6. CASE LoseEntry
  BY <1>6 DEF LoseEntry, InFlight, poolVars
<1>7. CASE CloseBegins
  BY <1>7 DEF CloseBegins, InFlight, poolVars
<1>8. CASE ClosePool
  BY <1>8 DEF ClosePool, Shutdown, Cancelled, InFlight
<1>9. CASE CloseJoins
  BY <1>9 DEF CloseJoins, InFlight, poolVars
<1>10. CASE CloseEnds
  BY <1>10 DEF CloseEnds, Clear, InFlight, poolVars
<1>11. CASE UNCHANGED vars
  BY <1>11 DEF vars, InFlight, poolVars
<1>12. QED
  BY <1>1, <1>2, <1>3, <1>4, <1>5, <1>6, <1>7, <1>8, <1>9, <1>10, <1>11
     DEF RequestStep, CloseStep

\* So they keep the invariant.
LEMMA QuietInv ==
    ASSUME IInv, TypeOK', Quiet
    PROVE  IInv'
<1> USE DEF IInv, Quiet, fetchVars
<1>1. ClaimTable' /\ WindowDisjoint' /\ ClaimFits'
  BY DEF ClaimTable, WindowDisjoint, ClaimFits
<1>2. FlightOwned'
  BY DEF FlightOwned
<1>3. KeysAccounted' /\ SharedClaimed'
  BY DEF KeysAccounted, SharedClaimed, Obtained, Shared
<1>4. CachedOrClaimed'
  BY DEF CachedOrClaimed
<1>5. QED
  BY <1>1, <1>2, <1>3, <1>4

\* A fetch claims only keys nobody has claimed, and none the LRU holds.
LEMMA BeginInv ==
    ASSUME IInv, TypeOK', NEW f \in Fetches, Begin(f)
    PROVE  IInv'
<1> USE DEF IInv, TypeOK, PoolTypeOK, Begin, Held, KeysOf, poolVars, memoryVars
<1>1. ClaimTable'
  BY DEF ClaimTable, Claiming
<1>2. WindowDisjoint'
  BY DEF WindowDisjoint
<1>3. FlightOwned'
  BY DEF FlightOwned, InFlight
<1>4. ClaimFits'
  BY DEF ClaimFits
<1>5. KeysAccounted'
  <2>1. claimed[f] = {} /\ Obtained(f) = {} /\ left[f] = {}
    BY DEF KeysAccounted
  <2>2. claim[f] # "answered"
    BY DEF ClaimFits
  <2>3. ASSUME NEW g \in Fetches, g # f
        PROVE  /\ pc'[g] = pc[g] /\ claimed'[g] = claimed[g] /\ Obtained(g)' = Obtained(g)
               /\ left'[g] = left[g] /\ claim'[g] = claim[g] /\ running'[g] = running[g]
    BY <2>3 DEF Obtained
  <2>4. Obtained(f)' = {} /\ left'[f] = {} /\ pc'[f] = "disk" /\ claim'[f] # "answered"
    BY <2>1, <2>2 DEF Obtained
  <2>5. QED
    BY <2>3, <2>4 DEF KeysAccounted, Rows
<1>6. SharedClaimed'
  <2>1. \A k \in Contexts : inflight[k] # f
    BY DEF ClaimTable, Claiming
  <2>2. \A k \in Contexts, g \in Fetches : inflight[k] = g => k \in claimed'[g]
    BY <2>1 DEF ClaimTable
  <2>3. \A g \in Fetches \ {f} : shared'[g] = shared[g] /\ pc'[g] = pc[g]
    OBVIOUS
  <2>4. \A k \in Contexts, g \in Fetches : k \in claimed[g] => k \in claimed'[g]
    BY DEF KeysAccounted
  <2>5. \A k \in Contexts : shared'[f][k] \in {inflight[k], NoFetch}
    OBVIOUS
  <2>6. QED
    BY <2>2, <2>3, <2>4, <2>5 DEF SharedClaimed, Shared
<1>7. CachedOrClaimed'
  BY DEF CachedOrClaimed
<1>8. QED
  BY <1>1, <1>2, <1>3, <1>4, <1>5, <1>6, <1>7

\* A fetch a closed source refuses claims nothing.
LEMMA RefuseInv ==
    ASSUME IInv, TypeOK', NEW f \in Fetches, Refuse(f)
    PROVE  IInv'
<1> USE DEF IInv, TypeOK, PoolTypeOK, Refuse, poolVars, memoryVars
<1>1. ClaimTable'
  BY DEF ClaimTable, Claiming
<1>2. WindowDisjoint'
  BY DEF WindowDisjoint
<1>3. FlightOwned'
  BY DEF FlightOwned, InFlight
<1>4. ClaimFits'
  BY DEF ClaimFits
<1>5. KeysAccounted'
  BY DEF KeysAccounted, Obtained, Rows
<1>6. SharedClaimed'
  BY DEF SharedClaimed, Shared
<1>7. CachedOrClaimed'
  BY DEF CachedOrClaimed
<1>8. QED
  BY <1>1, <1>2, <1>3, <1>4, <1>5, <1>6, <1>7

\* What the disk lacks is left to submit: the claim stays accounted for.
LEMMA ReadDiskInv ==
    ASSUME IInv, TypeOK', NEW f \in Fetches, ReadDisk(f)
    PROVE  IInv'
<1> USE DEF IInv, TypeOK, PoolTypeOK, ReadDisk, poolVars, memoryVars
<1>1. ClaimTable'
  BY DEF ClaimTable, Claiming
<1>2. WindowDisjoint'
  BY DEF WindowDisjoint
<1>3. FlightOwned'
  BY DEF FlightOwned, InFlight
<1>4. ClaimFits'
  BY DEF ClaimFits
<1>5. KeysAccounted'
  <2>1. running[f] = {} /\ Rows(running[f]) = {}
    <3>1. running[f] = {}
      BY DEF WindowDisjoint
    <3>2. QED
      BY <3>1 DEF Rows
  <2>2. stored'[f] \cup left'[f] = claimed[f] /\ fetched[f] = {}
    BY DEF KeysAccounted, Obtained
  <2>3. claim[f] # "answered"
    BY DEF ClaimFits
  <2>4. QED
    BY <2>1, <2>2, <2>3 DEF KeysAccounted, Obtained, Rows
<1>6. SharedClaimed'
  BY DEF SharedClaimed, Shared
<1>7. CachedOrClaimed'
  BY DEF CachedOrClaimed
<1>8. QED
  BY <1>1, <1>2, <1>3, <1>4, <1>5, <1>6, <1>7

\* A block moves from the keys left into the window, and its request into the pool.
LEMMA SubmitBlockInv ==
    ASSUME IInv, TypeOK', NEW f \in Fetches, SubmitBlock(f)
    PROVE  IInv'
<1> USE DEF IInv, TypeOK, PoolTypeOK, SubmitBlock, Submit, poolVars, memoryVars
<1>0. /\ running' = [running EXCEPT ![f] = running[f] \cup {[fetch |-> f, block |-> NextBlock(f)]}]
      /\ left' = [left EXCEPT ![f] = left[f] \ NextBlock(f)]
      /\ future' = [future EXCEPT ![[fetch |-> f, block |-> NextBlock(f)]] = "pending"]
      /\ NextBlock(f) \subseteq left[f] /\ pc[f] = "window"
      /\ UNCHANGED <<pc, claimed, claim, stored, fetched>>
  BY NextBlockIn DEF SubmitBlock, Submit, MaySubmit
<1>1. ClaimTable'
  BY DEF ClaimTable, Claiming
<1>2. WindowDisjoint'
  <2> DEFINE b == NextBlock(f)
             request == [fetch |-> f, block |-> b]
  <2>1. \A r \in running[f] : r.block \cap b = {}
    BY <1>0 DEF WindowDisjoint
  <2>2. b \subseteq claimed[f]
    BY <1>0 DEF KeysAccounted
  <2>3. request.fetch = f /\ request.block = b
    OBVIOUS
  <2> HIDE DEF b, request
  <2>4. running'[f] = running[f] \cup {request} /\ left'[f] = left[f] \ b
    BY <1>0 DEF b, request
  <2>5. ASSUME NEW g \in Fetches, g # f
        PROVE  running'[g] = running[g] /\ left'[g] = left[g]
    BY <1>0, <2>5
  <2>6. QED
    BY <1>0, <2>1, <2>2, <2>3, <2>4, <2>5 DEF WindowDisjoint
<1>3. FlightOwned'
  <2>1. \A r \in Requests :
          InFlight(r)' => InFlight(r) \/ r = [fetch |-> f, block |-> NextBlock(f)]
    BY <1>0 DEF InFlight
  <2>2. \A g \in Fetches : running[g] \subseteq running'[g]
    BY <1>0
  <2>3. [fetch |-> f, block |-> NextBlock(f)] \in running'[f]
    BY <1>0
  <2>4. QED
    <3>1. pc' = pc /\ claim' = claim
      BY <1>0
    <3>2. \A r \in Requests : r.fetch \in Fetches
      BY DEF Requests
    <3>3. [fetch |-> f, block |-> NextBlock(f)].fetch = f
      OBVIOUS
    <3>4. SUFFICES ASSUME NEW r \in Requests, InFlight(r)', claim[r.fetch] # "failed"
                   PROVE  pc[r.fetch] = "window" /\ r \in running'[r.fetch]
      BY <3>1 DEF FlightOwned
    <3>5. CASE InFlight(r)
      BY <3>2, <3>4, <3>5, <2>2 DEF FlightOwned
    <3>6. CASE r = [fetch |-> f, block |-> NextBlock(f)]
      BY <3>3, <3>6, <2>3, <1>0
    <3>7. QED
      BY <3>4, <3>5, <3>6, <2>1
<1>4. ClaimFits'
  BY DEF ClaimFits
<1>5. KeysAccounted'
  <2>1. Rows(running'[f]) = Rows(running[f]) \cup NextBlock(f)
    BY <1>0 DEF Rows
  <2>2. left[f] \cup Rows(running[f]) = left'[f] \cup Rows(running'[f])
    <3>1. left'[f] = left[f] \ NextBlock(f)
      BY <1>0
    <3>2. NextBlock(f) \subseteq left[f]
      BY <1>0
    <3> HIDE DEF IInv, TypeOK, SubmitBlock
    <3>3. QED
      BY <2>1, <3>1, <3>2
  <2>3. \A g \in Fetches : Obtained(g)' = Obtained(g) /\ left'[g] \subseteq left[g]
    BY <1>0 DEF Obtained
  <2>4. \A g \in Fetches \ {f} : left'[g] = left[g] /\ running'[g] = running[g]
    BY <1>0
  <2>5. QED
    BY <1>0, <2>2, <2>3, <2>4 DEF KeysAccounted, Rows
<1>6. SharedClaimed'
  BY DEF SharedClaimed, Shared
<1>7. CachedOrClaimed'
  BY DEF CachedOrClaimed
<1>8. QED
  BY <1>1, <1>2, <1>3, <1>4, <1>5, <1>6, <1>7

\* A fetch the pool refuses gives its window up and fails its claim.
LEMMA SubmitRefusedInv ==
    ASSUME IInv, TypeOK', NEW f \in Fetches, SubmitRefused(f)
    PROVE  IInv'
<1> USE DEF IInv, TypeOK, PoolTypeOK, SubmitRefused, Unwind, Cancel, Cancelled, MaySubmit, poolVars, memoryVars
<1>1. ClaimTable'
  BY DEF ClaimTable, Claiming
<1>2. WindowDisjoint'
  BY DEF WindowDisjoint
<1>3. FlightOwned'
  BY DEF FlightOwned, InFlight
<1>4. ClaimFits'
  BY DEF ClaimFits
<1>5. KeysAccounted'
  BY DEF KeysAccounted, Obtained, Rows
<1>6. SharedClaimed'
  <2>1. claim[f] # "answered"
    BY DEF ClaimFits
  <2>2. \A g \in Fetches : claim[g] = "answered" => claim'[g] = "answered"
    BY <2>1
  <2>3. \A g \in Fetches : pc'[g] = "returned" => pc[g] = "returned"
    OBVIOUS
  <2>4. \A g \in Fetches : Shared(g)' = Shared(g) /\ \A k \in Shared(g) : shared[g][k] \in Fetches
    BY DEF Shared
  <2>5. shared' = shared /\ claimed' = claimed
    OBVIOUS
  <2>6. QED
    BY <2>2, <2>3, <2>4, <2>5 DEF SharedClaimed
<1>7. CachedOrClaimed'
  BY DEF CachedOrClaimed
<1>8. QED
  BY <1>1, <1>2, <1>3, <1>4, <1>5, <1>6, <1>7

\* The rows of the requests done leave the window for what was fetched.
LEMMA CollectInv ==
    ASSUME IInv, TypeOK', NEW f \in Fetches, Collect(f)
    PROVE  IInv'
<1> USE DEF IInv, TypeOK, PoolTypeOK, Collect, Woken, Settled, poolVars, memoryVars
<1>1. ClaimTable'
  BY DEF ClaimTable, Claiming
<1>2. WindowDisjoint'
  BY DEF WindowDisjoint
<1>3. FlightOwned'
  BY DEF FlightOwned, InFlight
<1>4. ClaimFits'
  BY DEF ClaimFits
<1>5. KeysAccounted'
  BY DEF KeysAccounted, Obtained, Rows
<1>6. SharedClaimed'
  BY DEF SharedClaimed, Shared
<1>7. CachedOrClaimed'
  BY DEF CachedOrClaimed
<1>8. QED
  BY <1>1, <1>2, <1>3, <1>4, <1>5, <1>6, <1>7

\* So do those read before the error; the rest of the window is given up.
LEMMA CollectFailsInv ==
    ASSUME IInv, TypeOK', NEW f \in Fetches, CollectFails(f)
    PROVE  IInv'
<1> USE DEF IInv, TypeOK, PoolTypeOK, CollectFails, Unwind, Cancel, Cancelled, Woken, Settled, poolVars, memoryVars
<1>1. ClaimTable'
  BY DEF ClaimTable, Claiming
<1>2. WindowDisjoint'
  BY DEF WindowDisjoint
<1>3. FlightOwned'
  BY DEF FlightOwned, InFlight
<1>4. ClaimFits'
  BY DEF ClaimFits
<1>5. KeysAccounted'
  BY DEF KeysAccounted, Obtained, Rows
<1>6. SharedClaimed'
  <2>1. claim[f] # "answered"
    BY DEF ClaimFits
  <2>2. \A g \in Fetches : claim[g] = "answered" => claim'[g] = "answered"
    BY <2>1
  <2>3. \A g \in Fetches : pc'[g] = "returned" => pc[g] = "returned"
    OBVIOUS
  <2>4. \A g \in Fetches : Shared(g)' = Shared(g) /\ \A k \in Shared(g) : shared[g][k] \in Fetches
    BY DEF Shared
  <2>5. shared' = shared /\ claimed' = claimed
    OBVIOUS
  <2>6. QED
    BY <2>2, <2>3, <2>4, <2>5 DEF SharedClaimed
<1>7. CachedOrClaimed'
  BY DEF CachedOrClaimed
<1>8. QED
  BY <1>1, <1>2, <1>3, <1>4, <1>5, <1>6, <1>7

\* A window with nothing left has obtained the whole claim.
LEMMA WindowDoneInv ==
    ASSUME IInv, TypeOK', NEW f \in Fetches, WindowDone(f)
    PROVE  IInv'
<1> USE DEF IInv, TypeOK, PoolTypeOK, WindowDone, poolVars, memoryVars
<1>1. ClaimTable'
  BY DEF ClaimTable, Claiming
<1>2. WindowDisjoint'
  BY DEF WindowDisjoint
<1>3. FlightOwned'
  BY DEF FlightOwned, InFlight
<1>4. ClaimFits'
  BY DEF ClaimFits
<1>5. KeysAccounted'
  BY DEF KeysAccounted, Obtained, Rows
<1>6. SharedClaimed'
  BY DEF SharedClaimed, Shared
<1>7. CachedOrClaimed'
  BY DEF CachedOrClaimed
<1>8. QED
  BY <1>1, <1>2, <1>3, <1>4, <1>5, <1>6, <1>7

\* Publishing and dropping the claims in one section keeps LRU and claim table disjoint.
LEMMA ReleaseInv ==
    ASSUME IInv, TypeOK', NEW f \in Fetches, Release(f)
    PROVE  IInv'
<1> USE DEF IInv, TypeOK, PoolTypeOK, Release, Put, KeysOf, poolVars, memoryVars
<1>1. ClaimTable'
  BY DEF ClaimTable, Claiming
<1>2. WindowDisjoint'
  BY DEF WindowDisjoint
<1>3. FlightOwned'
  BY DEF FlightOwned, InFlight
<1>4. ClaimFits'
  BY DEF ClaimFits
<1>5. KeysAccounted'
  BY SMTT(30) DEF KeysAccounted, Obtained, Rows
<1>6. SharedClaimed'
  BY SMTT(30) DEF SharedClaimed, Shared
<1>7. CachedOrClaimed'
  <2>1. memory' \subseteq memory \cup claimed[f]
    BY DEF KeysAccounted, Obtained
  <2>2. \A k \in claimed[f] : inflight[k] = f
    BY DEF ClaimTable, Claiming
  <2>3. \A k \in claimed[f] : inflight'[k] = NoFetch
    BY <2>2
  <2>4. \A k \in memory : inflight'[k] = NoFetch
    BY DEF CachedOrClaimed
  <2>5. QED
    BY <2>1, <2>3, <2>4 DEF CachedOrClaimed
<1>8. QED
  BY <1>1, <1>2, <1>3, <1>4, <1>5, <1>6, <1>7

\* A claim is answered with every key of it.
LEMMA AnswerInv ==
    ASSUME IInv, TypeOK', NEW f \in Fetches, Answer(f)
    PROVE  IInv'
<1> USE DEF IInv, TypeOK, PoolTypeOK, Answer, poolVars, memoryVars
<1>1. ClaimTable'
  BY DEF ClaimTable, Claiming
<1>2. WindowDisjoint'
  BY DEF WindowDisjoint
<1>3. FlightOwned'
  <2>1. claim[f] # "failed"
    BY DEF ClaimFits
  <2>2. \A r \in Requests : r.fetch \in Fetches /\ InFlight(r)' = InFlight(r)
    BY DEF Requests, InFlight
  <2>3. \A g \in Fetches : claim[g] = "failed" => claim'[g] = "failed"
    BY <2>1
  <2>4. \A g \in Fetches : pc[g] = "window" => pc'[g] = "window"
    OBVIOUS
  <2>5. QED
    BY <2>2, <2>3, <2>4 DEF FlightOwned
<1>4. ClaimFits'
  BY DEF ClaimFits
<1>5. KeysAccounted'
  BY DEF KeysAccounted, Obtained, Rows
<1>6. SharedClaimed'
  BY DEF SharedClaimed, Shared
<1>7. CachedOrClaimed'
  BY DEF CachedOrClaimed
<1>8. QED
  BY <1>1, <1>2, <1>3, <1>4, <1>5, <1>6, <1>7

\* A fetch returns only once every claim it awaits was answered.
LEMMA ReturnInv ==
    ASSUME IInv, TypeOK', NEW f \in Fetches, Return(f)
    PROVE  IInv'
<1> USE DEF IInv, TypeOK, PoolTypeOK, Return, poolVars, memoryVars
<1>1. ClaimTable'
  BY DEF ClaimTable, Claiming
<1>2. WindowDisjoint'
  BY DEF WindowDisjoint
<1>3. FlightOwned'
  BY DEF FlightOwned, InFlight
<1>4. ClaimFits'
  BY DEF ClaimFits
<1>5. KeysAccounted'
  BY DEF KeysAccounted, Obtained, Rows
<1>6. SharedClaimed'
  BY DEF SharedClaimed, Shared
<1>7. CachedOrClaimed'
  BY DEF CachedOrClaimed
<1>8. QED
  BY <1>1, <1>2, <1>3, <1>4, <1>5, <1>6, <1>7

\* A fetch that raises an awaited error holds no claim any more.
LEMMA AwaitFailsInv ==
    ASSUME IInv, TypeOK', NEW f \in Fetches, AwaitFails(f)
    PROVE  IInv'
<1> USE DEF IInv, TypeOK, PoolTypeOK, AwaitFails, poolVars, memoryVars
<1>1. ClaimTable'
  BY DEF ClaimTable, Claiming
<1>2. WindowDisjoint'
  BY DEF WindowDisjoint
<1>3. FlightOwned'
  BY DEF FlightOwned, InFlight
<1>4. ClaimFits'
  BY DEF ClaimFits
<1>5. KeysAccounted'
  BY DEF KeysAccounted, Obtained, Rows
<1>6. SharedClaimed'
  BY DEF SharedClaimed, Shared
<1>7. CachedOrClaimed'
  BY DEF CachedOrClaimed
<1>8. QED
  BY <1>1, <1>2, <1>3, <1>4, <1>5, <1>6, <1>7

\* The inductive invariant holds in every reachable state.
THEOREM InvCorrect == Spec => []IInv
<1>1. IInv /\ [Next]_vars => IInv'
  <2> SUFFICES ASSUME IInv, [Next]_vars PROVE IInv'
    OBVIOUS
  <2>1. TypeOK'
    <3>1. CASE UNCHANGED vars
      BY <3>1, PoolType DEF IInv, TypeOK, vars, memoryVars, fetchVars, countVars
    <3>2. QED
      BY <3>1, FetchType, RequestType DEF IInv, Next
  <2>2. CASE UNCHANGED vars
    BY <2>1, <2>2, RequestQuiet, QuietInv DEF IInv
  <2>3. ASSUME NEW f \in Fetches, Begin(f) \/ Refuse(f) \/ FetchStep(f) PROVE IInv'
    BY <2>1, <2>3, BeginInv, RefuseInv, ReadDiskInv, SubmitBlockInv, SubmitRefusedInv,
       CollectInv, CollectFailsInv, WindowDoneInv, ReleaseInv, AnswerInv, ReturnInv,
       AwaitFailsInv DEF FetchStep
  <2>4. ASSUME NEW w \in Workers, RequestStep(w) PROVE IInv'
    BY <2>1, <2>4, RequestQuiet, QuietInv DEF IInv
  <2>5. CASE LoseEntry \/ CloseBegins \/ CloseStep
    BY <2>1, <2>5, RequestQuiet, QuietInv DEF IInv
  <2>6. QED
    BY <2>2, <2>3, <2>4, <2>5 DEF Next
<1>2. QED
  BY <1>1, InitInv, PTL DEF Spec

\* _inflight and the fetches agree, and a claimed key is never in the LRU.
THEOREM ClaimsCorrect == Spec => [](ClaimTable /\ CachedOrClaimed)
<1>1. IInv => ClaimTable /\ CachedOrClaimed
  BY DEF IInv
<1>2. QED
  BY <1>1, InvCorrect, PTL

\* One request of a context is in flight at a time, abandoned ones aside.
THEOREM SingleFlightCorrect == Spec => []SingleFlight
<1>1. IInv => SingleFlight
  <2> SUFFICES ASSUME IInv, NEW r \in Requests, NEW s \in Requests, InFlight(r), InFlight(s),
                      r # s, r.block \cap s.block # {},
                      claim[r.fetch] # "failed", claim[s.fetch] # "failed"
               PROVE  FALSE
    BY DEF SingleFlight
  <2>1. r.fetch \in Fetches /\ s.fetch \in Fetches
    BY DEF Requests
  <2>2. /\ r \in running[r.fetch] /\ pc[r.fetch] = "window"
        /\ s \in running[s.fetch] /\ pc[s.fetch] = "window"
    BY DEF IInv, FlightOwned
  <2>3. r.fetch # s.fetch
    BY <2>1, <2>2 DEF IInv, WindowDisjoint
  <2>4. PICK k \in Contexts : k \in r.block /\ k \in s.block
    BY DEF Requests
  <2>5. k \in claimed[r.fetch] /\ k \in claimed[s.fetch]
    BY <2>1, <2>2, <2>4 DEF IInv, WindowDisjoint
  <2>6. inflight[k] = r.fetch /\ inflight[k] = s.fetch
    BY <2>1, <2>2, <2>5 DEF IInv, ClaimTable, Claiming
  <2>7. QED
    BY <2>3, <2>6
<1>2. QED
  BY <1>1, InvCorrect, PTL

\* A fetch that returns has a row for every key it asked for.
THEOREM RowsCorrect == Spec => []ReturnsEveryRow
<1>1. IInv => ReturnsEveryRow
  <2> SUFFICES ASSUME IInv, NEW f \in Fetches, pc[f] = "returned"
               PROVE  /\ claimed[f] = Obtained(f)
                      /\ \A k \in Shared(f) : k \in Obtained(shared[f][k])
    BY DEF ReturnsEveryRow
  <2>1. claimed[f] = Obtained(f)
    BY DEF IInv, KeysAccounted
  <2>2. ASSUME NEW k \in Shared(f) PROVE k \in Obtained(shared[f][k])
    <3>1. shared[f][k] \in Fetches
      BY DEF Shared, IInv, TypeOK
    <3>2. k \in claimed[shared[f][k]] /\ claim[shared[f][k]] = "answered"
      BY DEF IInv, SharedClaimed
    <3>3. QED
      BY <3>1, <3>2 DEF IInv, KeysAccounted
  <2>3. QED
    BY <2>1, <2>2
<1>2. QED
  BY <1>1, InvCorrect, PTL

-------------------------------------------------------------------------------
(* One request of each context. *)

\* Requests whose fetch has not failed, so that their rows are or will be its rows.
Live(r) == claim[r.fetch] # "failed"

\* The requests of a context that were sent and that count.
SentFor(k) == {r \in sent : k \in r.block /\ Live(r)}

\* Where entries last: on disk, or in an LRU that holds every context.
DiskLasts == HasDisk /\ ~DiskLoses
MemoryLasts == Cardinality(Contexts) <= Capacity

\* What a fetch asks for, in the LRU and in its own claim.
AskedFor ==
    /\ \A f \in Fetches : claimed[f] \subseteq KeysOf(want[f])
    /\ \A k \in Contexts : <<k, k>> \notin older

\* A request that was sent is in the window of its fetch or its rows are among the fetch's.
SentAccounted ==
    \A r \in sent : Live(r) => r \in running[r.fetch] \/ r.block \subseteq fetched[r.fetch]

\* The rows of requests that finished are on disk.
OnDisk ==
    /\ \A r \in Requests : future[r] = "finished" => r.block \subseteq disk
    /\ \A f \in Fetches : fetched[f] \subseteq disk

\* The rows of a fetch that released its claim are in the LRU until the source is closed.
InMemory == \A f \in Fetches : pc[f] \notin Claiming /\ ~Closed => fetched[f] \subseteq memory

\* What a fetch has still to send no one has sent.
Unsent ==
    /\ MemoryLasts => \A f \in Fetches : pc[f] = "disk" => \A k \in claimed[f] : SentFor(k) = {}
    /\ \A f \in Fetches : pc[f] = "window" => \A k \in left[f] : SentFor(k) = {}
    /\ \A f \in Fetches : \A r \in running[f] \ sent : \A k \in r.block : SentFor(k) = {}

SentOnce == \A k \in Contexts : \A r, s \in SentFor(k) : r = s

SentInv ==
    /\ AskedFor /\ SentAccounted
    /\ DiskLasts => OnDisk
    /\ MemoryLasts => InMemory
    /\ DiskLasts \/ MemoryLasts => Unsent /\ SentOnce

-------------------------------------------------------------------------------
(* The counters. *)

\* The (fetch, key) pairs asked for, and how each was answered.
Asked == {p \in Fetches \X Contexts : p[2] \in KeysOf(want[p[1]])}

Hits ==
    {p \in Asked : p[2] \notin claimed[p[1]] /\ p[2] \notin Shared(p[1])}

ReadHere == {p \in Fetches \X Contexts : p[2] \in stored[p[1]]}

ReadThere ==
    {p \in Fetches \X Contexts :
        LET f == p[1]  k == p[2]
        IN pc[f] = "returned" /\ k \in Shared(f) /\ k \in stored[shared[f][k]]}

\* The counters are the sizes of these sets, and nothing is both read and requested.
CountInv ==
    /\ \A f \in Fetches :
         /\ pc[f] = "new" => want[f] = <<>>
         /\ Shared(f) \subseteq KeysOf(want[f])
         /\ claimed[f] \cap Shared(f) = {} /\ stored[f] \cap fetched[f] = {}
         /\ stored[f] \cap (left[f] \cup Rows(running[f])) = {}
    /\ IsFiniteSet(Asked)
    /\ requested = Cardinality(Asked) /\ memory_hits = Cardinality(Hits)
    /\ disk_hits = Cardinality(ReadHere) + Cardinality(ReadThere)

-------------------------------------------------------------------------------
(* Steps, for one request of each context. *)

\* A fetch claims of what it asks for, and a put orders no key before itself.
LEMMA AskedForStep == IInv /\ AskedFor /\ [Next]_vars => AskedFor'
<1> SUFFICES ASSUME IInv, AskedFor, [Next]_vars PROVE AskedFor'
  OBVIOUS
<1> USE DEF IInv, TypeOK
<1>1. ASSUME UNCHANGED <<claimed, want, older>> PROVE AskedFor'
  BY <1>1 DEF AskedFor, KeysOf
<1>2. ASSUME NEW f \in Fetches, Begin(f) PROVE AskedFor'
  <2>1. PICK keys \in KeyLists :
          /\ want' = [want EXCEPT ![f] = keys]
          /\ claimed' = [claimed EXCEPT ![f] =
               (KeysOf(keys) \ Held(keys)) \ {k \in KeysOf(keys) \ Held(keys) : inflight[k] # NoFetch}]
    BY <1>2 DEF Begin
  <2>2. claimed'[f] \subseteq KeysOf(want'[f]) /\ older' = older
    BY <1>2, <2>1 DEF Begin, memoryVars
  <2>3. \A g \in Fetches \ {f} : claimed'[g] = claimed[g] /\ want'[g] = want[g]
    BY <2>1
  <2>4. ASSUME NEW g \in Fetches PROVE claimed'[g] \subseteq KeysOf(want'[g])
    <3>1. CASE g = f
      BY <2>2, <3>1
    <3>2. CASE g # f
      BY <2>3, <3>2 DEF AskedFor
    <3>3. QED
      BY <3>1, <3>2
  <2>5. QED
    BY <2>2, <2>4 DEF AskedFor
<1>3. ASSUME NEW f \in Fetches, Release(f) PROVE AskedFor'
  <2> DEFINE touched == KeysOf(want[f]) \cap ((stored[f] \cup fetched[f]) \cup memory)
  <2>1. \A k : <<k, k>> \in older' =>
          /\ k \in touched => Position(want[f], k) < Position(want[f], k)
          /\ k \notin touched => <<k, k>> \in older
    BY <1>3 DEF Release, Put
  <2>2. \A k \in touched : Position(want[f], k) \in Int
    <3>1. DOMAIN want[f] \subseteq Int
      BY DEF TypeOK
    <3>2. ASSUME NEW k \in touched PROVE \E i \in DOMAIN want[f] : want[f][i] = k
      BY DEF KeysOf
    <3>3. \A k \in touched : Position(want[f], k) \in DOMAIN want[f]
      BY <3>2 DEF Position
    <3>4. QED
      BY <3>1, <3>3
  <2>3. \A k \in touched : ~(Position(want[f], k) < Position(want[f], k))
    <3> HIDE DEF touched
    <3>1. \A x \in Int : ~(x < x)
      OBVIOUS
    <3>2. QED
      BY <2>2, <3>1
  <2>4. \A k \in Contexts : <<k, k>> \notin older'
    BY <2>1, <2>3 DEF AskedFor
  <2>5. UNCHANGED <<claimed, want>>
    BY <1>3 DEF Release
  <2>6. QED
    BY <2>4, <2>5 DEF AskedFor, KeysOf
<1>4. CASE CloseEnds
  BY <1>4 DEF CloseEnds, Clear, fetchVars, AskedFor, KeysOf
<1>5. ASSUME NEW f \in Fetches, Refuse(f) \/ ReadDisk(f) \/ SubmitBlock(f) \/ SubmitRefused(f)
             \/ Collect(f) \/ CollectFails(f) \/ WindowDone(f) \/ Answer(f) \/ Return(f)
             \/ AwaitFails(f)
      PROVE  AskedFor'
  BY <1>1, <1>5 DEF Refuse, ReadDisk, SubmitBlock, SubmitRefused, Collect, CollectFails,
                    WindowDone, Answer, Return, AwaitFails, memoryVars
<1>6. ASSUME NEW w \in Workers, RequestStep(w) PROVE AskedFor'
  BY <1>1, <1>6 DEF RequestStep, TakeRequest, StartRequest, Admit, AdmitRefused, Send, Respond,
                    sourceVars, fetchVars, memoryVars
<1>7. CASE LoseEntry \/ CloseBegins \/ ClosePool \/ CloseJoins \/ UNCHANGED vars
  BY <1>1, <1>7 DEF LoseEntry, CloseBegins, ClosePool, CloseJoins, vars, sourceVars, fetchVars,
                    memoryVars
<1>8. QED
  BY <1>2, <1>3, <1>4, <1>5, <1>6, <1>7 DEF Next, FetchStep, CloseStep

\* A request leaves the window of a fetch that has not failed only with its rows.
LEMMA SentAccountedStep == IInv /\ SentAccounted /\ [Next]_vars => SentAccounted'
<1> SUFFICES ASSUME IInv, SentAccounted, [Next]_vars PROVE SentAccounted'
  OBVIOUS
<1> USE DEF IInv, TypeOK, PoolTypeOK
<1>0. \A r \in Requests : r.fetch \in Fetches
  BY DEF Requests
<1>1. ASSUME UNCHANGED <<sent, running, fetched, claim>> PROVE SentAccounted'
  BY <1>1 DEF SentAccounted, Live
<1>2. ASSUME NEW f \in Fetches, SubmitBlock(f) PROVE SentAccounted'
  <2>1. UNCHANGED <<sent, fetched, claim>>
    BY <1>2 DEF SubmitBlock
  <2>2. \A g \in Fetches : running[g] \subseteq running'[g]
    BY <1>2 DEF SubmitBlock
  <2>3. QED
    BY <1>0, <2>1, <2>2 DEF SentAccounted, Live
\* A fetch that fails: none of its requests is live any more.
<1>3. ASSUME NEW f \in Fetches, claim' = [claim EXCEPT ![f] = "failed"], sent' = sent,
             \A g \in Fetches \ {f} : running'[g] = running[g] /\ fetched'[g] = fetched[g]
      PROVE  SentAccounted'
  <2>1. claim'[f] = "failed" /\ \A g \in Fetches \ {f} : claim'[g] = claim[g]
    BY <1>3
  <2>2. QED
    BY <1>0, <1>3, <2>1 DEF SentAccounted, Live
<1>4. ASSUME NEW f \in Fetches, SubmitRefused(f) PROVE SentAccounted'
  BY <1>3, <1>4 DEF SubmitRefused, Unwind
<1>5. ASSUME NEW f \in Fetches, CollectFails(f) PROVE SentAccounted'
  <2>1. PICK bad \in Woken(f), read \in SUBSET Woken(f) :
          /\ fetched' = [fetched EXCEPT ![f] = @ \cup Rows(read)]
          /\ Unwind(f, running[f] \ (read \cup {bad}))
    BY <1>5 DEF CollectFails
  <2>2. QED
    BY <1>3, <1>5, <2>1 DEF CollectFails, Unwind
<1>6. ASSUME NEW f \in Fetches, Collect(f) PROVE SentAccounted'
  <2>1. /\ sent' = sent /\ claim' = claim
        /\ fetched' = [fetched EXCEPT ![f] = fetched[f] \cup Rows(Woken(f))]
        /\ running' = [running EXCEPT ![f] = running[f] \ Woken(f)]
    BY <1>6 DEF Collect
  <2>2. \A r \in Woken(f) : r.block \subseteq Rows(Woken(f))
    BY DEF Rows
  <2>3. ASSUME NEW r \in sent, Live(r)
        PROVE  r \in running'[r.fetch] \/ r.block \subseteq fetched'[r.fetch]
    <3>1. r \in running[r.fetch] \/ r.block \subseteq fetched[r.fetch]
      BY <2>3 DEF SentAccounted
    <3>2. CASE r.fetch = f
      BY <2>1, <2>2, <3>1, <3>2
    <3>3. CASE r.fetch # f
      BY <1>0, <2>1, <3>1, <3>3
    <3>4. QED
      BY <3>2, <3>3
  <2>4. QED
    BY <2>1, <2>3 DEF SentAccounted, Live
<1>7. ASSUME NEW f \in Fetches, Answer(f) PROVE SentAccounted'
  <2>1. UNCHANGED <<sent, running, fetched>> /\ claim' = [claim EXCEPT ![f] = "answered"]
    BY <1>7 DEF Answer
  <2>2. claim[f] # "failed"
    BY <1>7 DEF Answer, ClaimFits
  <2>3. \A g \in Fetches : claim'[g] # "failed" => claim[g] # "failed"
    BY <2>1, <2>2
  <2>4. QED
    BY <1>0, <2>1, <2>3 DEF SentAccounted, Live
<1>8. ASSUME NEW w \in Workers, Send(w) PROVE SentAccounted'
  <2>1. /\ sent' = sent \cup {held[w]} /\ UNCHANGED <<running, fetched, claim>>
        /\ InFlight(held[w]) /\ held[w] \in Requests
    BY <1>8 DEF Send, Executing, InFlight, sourceVars, fetchVars
  <2>2. Live(held[w]) => held[w] \in running[held[w].fetch]
    BY <2>1 DEF FlightOwned, Live
  <2>3. QED
    BY <2>1, <2>2 DEF SentAccounted, Live
<1>9. ASSUME NEW f \in Fetches, Begin(f) \/ Refuse(f) \/ ReadDisk(f) \/ WindowDone(f)
             \/ Release(f) \/ Return(f) \/ AwaitFails(f)
      PROVE  SentAccounted'
  BY <1>1, <1>9 DEF Begin, Refuse, ReadDisk, WindowDone, Release, Return, AwaitFails
<1>10. ASSUME NEW w \in Workers, TakeRequest(w) \/ StartRequest(w) \/ Admit(w) \/ AdmitRefused(w) \/ Respond(w)
       PROVE  SentAccounted'
  BY <1>1, <1>10 DEF TakeRequest, StartRequest, Admit, AdmitRefused, Respond, sourceVars, fetchVars
<1>11. CASE LoseEntry \/ CloseBegins \/ CloseStep \/ UNCHANGED vars
  BY <1>1, <1>11 DEF LoseEntry, CloseBegins, CloseStep, ClosePool, CloseJoins, CloseEnds, vars,
                     sourceVars, fetchVars
<1>12. QED
  BY <1>2, <1>4, <1>5, <1>6, <1>7, <1>8, <1>9, <1>10, <1>11 DEF Next, FetchStep, RequestStep

\* A disk that loses nothing keeps the rows of every request that finished.
LEMMA OnDiskStep == IInv /\ DiskLasts /\ OnDisk /\ [Next]_vars => OnDisk'
<1> SUFFICES ASSUME IInv, DiskLasts, OnDisk, [Next]_vars PROVE OnDisk'
  OBVIOUS
<1> USE DEF IInv, TypeOK, PoolTypeOK
<1>1. ASSUME \A r \in Requests : future'[r] = "finished" => future[r] = "finished",
             fetched' = fetched, disk \subseteq disk'
      PROVE  OnDisk'
  BY <1>1 DEF OnDisk
\* What a fetch collects has finished.
<1>2. ASSUME NEW f \in Fetches, NEW S \in SUBSET Woken(f), \A r \in S : future[r] = "finished",
             fetched' = [fetched EXCEPT ![f] = fetched[f] \cup Rows(S)], disk' = disk,
             \A r \in Requests : future'[r] = "finished" => future[r] = "finished"
      PROVE  OnDisk'
  <2>1. S \subseteq Requests
    BY DEF Woken
  <2>2. Rows(S) \subseteq disk
    BY <1>2, <2>1 DEF Rows, OnDisk
  <2>3. \A g \in Fetches : fetched'[g] \subseteq disk
    BY <1>2, <2>2 DEF OnDisk
  <2>4. QED
    BY <1>2, <2>3 DEF OnDisk
<1>3. ASSUME NEW f \in Fetches, Collect(f) PROVE OnDisk'
  <2>1. /\ \A r \in Woken(f) : future[r] = "finished"
        /\ fetched' = [fetched EXCEPT ![f] = fetched[f] \cup Rows(Woken(f))]
        /\ disk' = disk /\ future' = future
    BY <1>3 DEF Collect, poolVars
  <2>2. QED
    BY <1>2, <2>1
<1>4. ASSUME NEW f \in Fetches, CollectFails(f) PROVE OnDisk'
  <2>1. PICK bad \in {r \in Woken(f) : future[r] # "finished"},
             read \in SUBSET {r \in Woken(f) : future[r] = "finished"} :
          /\ fetched' = [fetched EXCEPT ![f] = fetched[f] \cup Rows(read)]
          /\ Unwind(f, running[f] \ (read \cup {bad}))
    BY <1>4 DEF CollectFails
  <2>2. \A r \in Requests : future'[r] = "finished" => future[r] = "finished"
    BY <2>1 DEF Unwind, Cancel, Cancelled
  <2>3. disk' = disk
    BY <1>4 DEF CollectFails
  <2>4. QED
    BY <1>2, <2>1, <2>2, <2>3
<1>5. ASSUME NEW f \in Fetches, SubmitBlock(f) \/ SubmitRefused(f) PROVE OnDisk'
  <2>1. \A r \in Requests : future'[r] = "finished" => future[r] = "finished"
    BY <1>5 DEF SubmitBlock, Submit, SubmitRefused, Unwind, Cancel, Cancelled
  <2>2. fetched' = fetched /\ disk' = disk
    BY <1>5 DEF SubmitBlock, SubmitRefused
  <2>3. QED
    BY <1>1, <2>1, <2>2
<1>6. ASSUME NEW f \in Fetches, Begin(f) \/ Refuse(f) \/ ReadDisk(f) \/ WindowDone(f)
             \/ Release(f) \/ Answer(f) \/ Return(f) \/ AwaitFails(f)
      PROVE  OnDisk'
  BY <1>1, <1>6 DEF Begin, Refuse, ReadDisk, WindowDone, Release, Answer, Return, AwaitFails,
                    poolVars
<1>7. ASSUME NEW w \in Workers, TakeRequest(w) \/ StartRequest(w) \/ Admit(w) \/ AdmitRefused(w) \/ Send(w)
      PROVE  OnDisk'
  <2>1. \A r \in Requests : future'[r] = "finished" => future[r] = "finished"
    BY <1>7 DEF TakeRequest, Take, StartRequest, Start, Admit, AdmitRefused, Send, Finish, poolVars
  <2>2. fetched' = fetched /\ disk' = disk
    BY <1>7 DEF TakeRequest, StartRequest, Admit, AdmitRefused, Send, sourceVars, fetchVars
  <2>3. QED
    BY <1>1, <2>1, <2>2
<1>8. ASSUME NEW w \in Workers, Respond(w) PROVE OnDisk'
  <2>1. PICK outcome \in Outcomes :
          /\ Finish(w, outcome)
          /\ disk' = IF HasDisk /\ outcome = "finished" THEN disk \cup held[w].block ELSE disk
    BY <1>8 DEF Respond
  <2>2. fetched' = fetched
    BY <1>8 DEF Respond, sourceVars, fetchVars
  <2>3. future' = [future EXCEPT ![held[w]] = outcome] /\ held[w] \in Requests
    BY <2>1 DEF Finish
  <2>4. disk \subseteq disk' /\ outcome = "finished" => held[w].block \subseteq disk'
    BY <2>1 DEF DiskLasts
  <2>5. \A r \in Requests : future'[r] = "finished" => r.block \subseteq disk'
    BY <2>1, <2>3, <2>4 DEF OnDisk, DiskLasts
  <2>6. disk \subseteq disk'
    BY <2>1
  <2>7. QED
    BY <2>2, <2>5, <2>6 DEF OnDisk
<1>9. ~LoseEntry
  BY DEF LoseEntry, DiskLasts
<1>10. CASE ClosePool
  <2>1. \A r \in Requests : future'[r] = "finished" => future[r] = "finished"
    BY <1>10 DEF ClosePool, Shutdown, Cancelled
  <2>2. QED
    BY <1>1, <1>10, <2>1 DEF ClosePool, fetchVars
<1>11. CASE CloseBegins \/ CloseJoins \/ CloseEnds \/ UNCHANGED vars
  BY <1>1, <1>11 DEF CloseBegins, CloseJoins, CloseEnds, vars, fetchVars, poolVars
<1>12. QED
  BY <1>3, <1>4, <1>5, <1>6, <1>7, <1>8, <1>9, <1>10, <1>11
  DEF Next, FetchStep, RequestStep, CloseStep

\* put: an LRU with room for every context drops none.
LEMMA PutKeeps ==
    ASSUME IInv, AskedFor, MemoryLasts, NEW f \in Fetches, NEW rows \in SUBSET Contexts,
           Put(want[f], rows)
    PROVE  memory \cup (KeysOf(want[f]) \cap rows) \subseteq memory'
<1> USE DEF IInv, TypeOK
<1> DEFINE keys == want[f]
           touched == KeysOf(keys) \cap (rows \cup memory)
           kept == memory \cup touched
           order ==
            {p \in kept \X kept :
                /\ p[1] \in touched =>
                     p[2] \in touched /\ Position(keys, p[1]) < Position(keys, p[2])
                /\ p[2] \notin touched => p \in older}
<1>1. memory' = {k \in kept : Cardinality({j \in kept : <<k, j>> \in order}) < Capacity}
  BY DEF Put
<1>2. kept \subseteq Contexts
  OBVIOUS
<1>3. ASSUME NEW k \in kept PROVE <<k, k>> \notin order
  <2>1. CASE k \in touched
    <3>1. Position(keys, k) \in Int
      <4>1. \E i \in DOMAIN keys : keys[i] = k
        BY <2>1 DEF KeysOf
      <4>2. Position(keys, k) \in DOMAIN keys
        BY <4>1 DEF Position
      <4>3. DOMAIN keys \subseteq Int
        BY DEF TypeOK
      <4>4. QED
        BY <4>2, <4>3
    <3>2. ~(Position(keys, k) < Position(keys, k))
      BY <3>1
    <3> HIDE DEF touched, kept
    <3>3. QED
      BY <2>1, <3>2
  <2>2. CASE k \notin touched
    <3>1. <<k, k>> \notin older
      BY <1>2 DEF AskedFor
    <3> HIDE DEF touched, kept
    <3>2. QED
      BY <2>2, <3>1
  <2>3. QED
    BY <2>1, <2>2
<1> HIDE DEF touched, order
<1>4. ASSUME NEW k \in kept
      PROVE  Cardinality({j \in kept : <<k, j>> \in order}) < Capacity
  <2> DEFINE after == {j \in kept : <<k, j>> \in order}
  <2>1. after \subseteq Contexts \ {k}
    BY <1>2, <1>3
  <2>2. /\ IsFiniteSet(Contexts \ {k})
        /\ Cardinality(Contexts \ {k}) = Cardinality(Contexts) - 1
    BY <1>2, <1>4, FS_RemoveElement
  <2>3. Cardinality(after) <= Cardinality(Contexts \ {k})
    BY <2>1, <2>2, FS_Subset
  <2>4. Cardinality(after) \in Nat /\ Cardinality(Contexts) \in Nat
    BY <2>1, <2>2, FS_Subset, FS_CardinalityType
  <2>5. Cardinality(Contexts) <= Capacity
    BY DEF MemoryLasts
  <2> HIDE DEF after
  <2>6. Cardinality(after) < Capacity
    BY <2>2, <2>3, <2>4, <2>5
  <2>7. QED
    BY <2>6 DEF after
<1> HIDE DEF kept
<1>5. kept \subseteq memory'
  BY <1>1, <1>4
<1>6. QED
  BY <1>5 DEF kept, touched

\* What a fetch obtained is in the LRU once its claim is released.
LEMMA InMemoryStep == IInv /\ AskedFor /\ MemoryLasts /\ InMemory /\ [Next]_vars => InMemory'
<1> SUFFICES ASSUME IInv, AskedFor, MemoryLasts, InMemory, [Next]_vars PROVE InMemory'
  OBVIOUS
<1> USE DEF IInv, TypeOK
<1>1. ASSUME \A g \in Fetches : pc'[g] \notin Claiming =>
                 pc[g] \notin Claiming /\ fetched'[g] = fetched[g],
             memory' = memory, closer' = closer
      PROVE  InMemory'
  BY <1>1 DEF InMemory, Closed
<1>2. ASSUME Closed' PROVE InMemory'
  BY <1>2 DEF InMemory
<1>3. ASSUME NEW f \in Fetches, Release(f) PROVE InMemory'
  <2>1. /\ Put(want[f], stored[f] \cup fetched[f])
        /\ UNCHANGED <<fetched, closer>> /\ pc[f] \in Claiming
        /\ \A g \in Fetches \ {f} : pc'[g] = pc[g]
    BY <1>3 DEF Release, Claiming
  <2>2. memory \cup (KeysOf(want[f]) \cap (stored[f] \cup fetched[f])) \subseteq memory'
    <3>1. stored[f] \cup fetched[f] \in SUBSET Contexts
      OBVIOUS
    <3> HIDE DEF IInv, TypeOK
    <3>2. QED
      BY <2>1, <3>1, PutKeeps
  <2>3. fetched[f] \subseteq KeysOf(want[f])
    BY DEF AskedFor, KeysAccounted, Obtained
  <2>4. QED
    BY <2>1, <2>2, <2>3 DEF InMemory, Closed
<1>4. ASSUME NEW f \in Fetches, Begin(f) \/ ReadDisk(f) \/ SubmitBlock(f) \/ Collect(f)
             \/ WindowDone(f)
      PROVE  InMemory'
  <2>1. /\ pc'[f] \in Claiming /\ UNCHANGED <<memory, closer>>
        /\ \A g \in Fetches \ {f} : pc'[g] = pc[g] /\ fetched'[g] = fetched[g]
    BY <1>4 DEF Begin, ReadDisk, SubmitBlock, MaySubmit, Collect, Woken, WindowDone, Claiming,
                memoryVars
  <2>2. QED
    BY <1>1, <2>1
<1>5. ASSUME NEW f \in Fetches, SubmitRefused(f) PROVE InMemory'
  <2>1. /\ pc'[f] \in Claiming /\ UNCHANGED <<memory, closer>>
        /\ \A g \in Fetches \ {f} : pc'[g] = pc[g] /\ fetched'[g] = fetched[g]
    BY <1>5 DEF SubmitRefused, Unwind, Claiming, memoryVars
  <2>2. QED
    BY <1>1, <2>1
<1>6. ASSUME NEW f \in Fetches, CollectFails(f) PROVE InMemory'
  <2>1. PICK bad \in Woken(f), read \in SUBSET Woken(f) :
          /\ fetched' = [fetched EXCEPT ![f] = @ \cup Rows(read)]
          /\ Unwind(f, running[f] \ (read \cup {bad}))
    BY <1>6 DEF CollectFails
  <2>2. /\ pc'[f] \in Claiming /\ UNCHANGED <<memory, closer>>
        /\ \A g \in Fetches \ {f} : pc'[g] = pc[g] /\ fetched'[g] = fetched[g]
    BY <1>6, <2>1 DEF CollectFails, Unwind, Claiming, memoryVars
  <2>3. QED
    BY <1>1, <2>2
<1>7. ASSUME NEW f \in Fetches, Answer(f) \/ Return(f) \/ AwaitFails(f) PROVE InMemory'
  BY <1>1, <1>7 DEF Answer, Return, AwaitFails, Claiming, memoryVars
<1>8. ASSUME NEW f \in Fetches, Refuse(f) PROVE InMemory'
  BY <1>2, <1>8 DEF Refuse, Closed
<1>9. ASSUME NEW w \in Workers, RequestStep(w) PROVE InMemory'
  BY <1>1, <1>9 DEF RequestStep, TakeRequest, StartRequest, Admit, AdmitRefused, Send, Respond,
                    sourceVars, fetchVars, memoryVars
<1>10. CASE LoseEntry \/ UNCHANGED vars
  BY <1>1, <1>10 DEF LoseEntry, vars, sourceVars, fetchVars, memoryVars
<1>11. CASE CloseBegins \/ CloseStep
  BY <1>2, <1>11 DEF CloseBegins, CloseStep, ClosePool, CloseJoins, CloseEnds, Closed
<1>12. QED
  BY <1>3, <1>4, <1>5, <1>6, <1>7, <1>8, <1>9, <1>10, <1>11 DEF Next, FetchStep

\* A claim that failed stays so, and requests that do not count never count again.
LEMMA SentForShrinks ==
    ASSUME IInv, [Next]_vars, sent' = sent
    PROVE  \A k \in Contexts : SentFor(k)' \subseteq SentFor(k)
<1> USE DEF IInv, TypeOK
<1>1. \A r \in sent : r.fetch \in Fetches
  BY DEF Requests
<1>2. ASSUME \A g \in Fetches : claim[g] = "failed" => claim'[g] = "failed"
      PROVE  \A k \in Contexts : SentFor(k)' \subseteq SentFor(k)
  BY <1>1, <1>2 DEF SentFor, Live
<1>3. ASSUME claim' = claim PROVE \A k \in Contexts : SentFor(k)' \subseteq SentFor(k)
  BY <1>2, <1>3
<1>4. ASSUME NEW f \in Fetches, SubmitRefused(f) \/ CollectFails(f)
      PROVE  \A k \in Contexts : SentFor(k)' \subseteq SentFor(k)
  <2>1. claim' = [claim EXCEPT ![f] = "failed"]
    BY <1>4 DEF SubmitRefused, CollectFails, Unwind
  <2>2. QED
    BY <1>2, <2>1
<1>5. ASSUME NEW f \in Fetches, Answer(f)
      PROVE  \A k \in Contexts : SentFor(k)' \subseteq SentFor(k)
  <2>1. claim' = [claim EXCEPT ![f] = "answered"] /\ claim[f] # "failed"
    BY <1>5 DEF Answer, ClaimFits
  <2>2. QED
    BY <1>2, <2>1
<1>6. ASSUME NEW f \in Fetches, Begin(f) \/ Refuse(f) \/ ReadDisk(f) \/ SubmitBlock(f)
             \/ Collect(f) \/ WindowDone(f) \/ Release(f) \/ Return(f) \/ AwaitFails(f)
      PROVE  claim' = claim
  BY <1>6 DEF Begin, Refuse, ReadDisk, SubmitBlock, Collect, WindowDone, Release, Return,
              AwaitFails
<1>7. ASSUME NEW w \in Workers, RequestStep(w) PROVE claim' = claim
  BY <1>7 DEF RequestStep, TakeRequest, StartRequest, Admit, AdmitRefused, Send, Respond, sourceVars,
              fetchVars
<1>8. ASSUME LoseEntry \/ CloseBegins \/ CloseStep \/ UNCHANGED vars PROVE claim' = claim
  BY <1>8 DEF LoseEntry, CloseBegins, CloseStep, ClosePool, CloseJoins, CloseEnds, vars,
              sourceVars, fetchVars
<1>9. QED
  BY <1>3, <1>4, <1>5, <1>6, <1>7, <1>8 DEF Next, FetchStep

\* A context that is neither in an LRU with room for all nor claimed was not sent for.
LEMMA UnclaimedUnsent ==
    ASSUME IInv, SentAccounted, MemoryLasts, InMemory, ~Closed,
           NEW k \in Contexts \ memory, inflight[k] = NoFetch
    PROVE  SentFor(k) = {}
<1> SUFFICES ASSUME NEW s \in SentFor(k) PROVE FALSE
  OBVIOUS
<1>1. s \in Requests /\ s.fetch \in Fetches /\ k \in s.block /\ Live(s) /\ s \in sent
  BY DEF SentFor, IInv, TypeOK, Requests
<1>2. pc[s.fetch] \notin Claiming \/ k \notin claimed[s.fetch]
  BY <1>1 DEF IInv, ClaimTable
<1>3. CASE s \in running[s.fetch]
  BY <1>1, <1>2, <1>3 DEF IInv, WindowDisjoint, Claiming
<1>4. CASE s.block \subseteq fetched[s.fetch]
  BY <1>1, <1>2, <1>4 DEF IInv, KeysAccounted, Obtained, InMemory
<1>5. QED
  BY <1>1, <1>3, <1>4 DEF SentAccounted

\* A claimed context that a disk that loses nothing lacks was not sent for.
LEMMA UnreadUnsent ==
    ASSUME IInv, SentAccounted, OnDisk, NEW f \in Fetches, pc[f] = "disk",
           NEW k \in claimed[f] \ disk
    PROVE  SentFor(k) = {}
<1> SUFFICES ASSUME NEW s \in SentFor(k) PROVE FALSE
  OBVIOUS
<1>1. /\ s \in Requests /\ s.fetch \in Fetches /\ k \in s.block /\ Live(s) /\ s \in sent
      /\ k \in Contexts
  BY DEF SentFor, IInv, TypeOK, Requests
<1>2. CASE s \in running[s.fetch]
  <2>1. pc[s.fetch] = "window" /\ k \in claimed[s.fetch]
    BY <1>1, <1>2 DEF IInv, WindowDisjoint
  <2>2. inflight[k] = s.fetch /\ inflight[k] = f
    BY <1>1, <2>1 DEF IInv, ClaimTable, Claiming
  <2>3. QED
    BY <2>1, <2>2
<1>3. CASE s.block \subseteq fetched[s.fetch]
  BY <1>1, <1>3 DEF OnDisk
<1>4. QED
  BY <1>1, <1>2, <1>3 DEF SentAccounted

\* A live request in flight is the claim's whose keys it asks for.
LEMMA FlightOfClaim ==
    ASSUME IInv, NEW r \in Requests, InFlight(r), Live(r),
           NEW g \in Fetches, pc[g] \in Claiming, NEW k \in claimed[g], k \in r.block
    PROVE  g = r.fetch
<1>1. r.fetch \in Fetches /\ k \in Contexts
  BY DEF Requests, IInv, TypeOK
<1>2. pc[r.fetch] = "window" /\ r \in running[r.fetch]
  BY DEF IInv, FlightOwned, Live
<1>3. k \in claimed[r.fetch]
  BY <1>1, <1>2 DEF IInv, WindowDisjoint
<1>4. inflight[k] = r.fetch /\ inflight[k] = g
  BY <1>1, <1>2, <1>3 DEF IInv, ClaimTable, Claiming
<1>5. QED
  BY <1>4

\* What a fetch has still to send stays unsent: another fetch of the context awaits it, finds
\* it on disk or finds it in the LRU.
LEMMA UnsentStep ==
    ASSUME IInv, SentInv, DiskLasts \/ MemoryLasts, [Next]_vars
    PROVE  Unsent'
<1>0. /\ SentAccounted /\ Unsent
      /\ DiskLasts => OnDisk
      /\ MemoryLasts => InMemory
  BY DEF SentInv
<1>1. ASSUME sent' = sent,
             \A g \in Fetches : /\ pc'[g] = "disk" => pc[g] = "disk" /\ claimed'[g] = claimed[g]
                                /\ pc'[g] = "window" => pc[g] = "window" /\ left'[g] \subseteq left[g]
                                /\ running'[g] \subseteq running[g]
      PROVE  Unsent'
  <2>1. \A k \in Contexts : SentFor(k) = {} => SentFor(k)' = {}
    BY <1>1, SentForShrinks
  <2>2. \A g \in Fetches : claimed[g] \subseteq Contexts /\ left[g] \subseteq Contexts
                           /\ \A r \in running[g] : r.block \subseteq Contexts
    BY DEF IInv, TypeOK, Requests
  <2>3. MemoryLasts => \A g \in Fetches : pc'[g] = "disk" => \A k \in claimed'[g] : SentFor(k)' = {}
    BY <1>0, <1>1, <2>1, <2>2 DEF Unsent
  <2>4. \A g \in Fetches : pc'[g] = "window" => \A k \in left'[g] : SentFor(k)' = {}
    BY <1>0, <1>1, <2>1, <2>2 DEF Unsent
  <2>5. \A g \in Fetches : \A r \in running'[g] \ sent' : \A k \in r.block : SentFor(k)' = {}
    BY <1>0, <1>1, <2>1, <2>2 DEF Unsent
  <2>6. QED
    BY <2>3, <2>4, <2>5 DEF Unsent, MemoryLasts
<1>2. ASSUME NEW f \in Fetches, Begin(f) PROVE Unsent'
  <2>1. /\ sent' = sent /\ pc'[f] = "disk" /\ ~Closed
        /\ UNCHANGED <<left, running>>
        /\ \A g \in Fetches \ {f} : pc'[g] = pc[g] /\ claimed'[g] = claimed[g]
        /\ claimed'[f] \subseteq {k \in Contexts \ memory : inflight[k] = NoFetch}
    BY <1>2, KeysOfIn DEF Begin, Held, IInv, TypeOK
  <2>2. \A k \in Contexts : SentFor(k) = {} => SentFor(k)' = {}
    BY <2>1, SentForShrinks
  <2>3. MemoryLasts => \A k \in claimed'[f] : SentFor(k) = {}
    BY <1>0, <2>1, UnclaimedUnsent
  <2>4. \A g \in Fetches : claimed[g] \subseteq Contexts /\ left[g] \subseteq Contexts
                           /\ \A r \in running[g] : r.block \subseteq Contexts
    BY DEF IInv, TypeOK, Requests
  <2>5. MemoryLasts => \A g \in Fetches : pc'[g] = "disk" => \A k \in claimed'[g] : SentFor(k)' = {}
    BY <1>0, <2>1, <2>2, <2>3, <2>4 DEF Unsent
  <2>6. \A g \in Fetches : pc'[g] = "window" => \A k \in left'[g] : SentFor(k)' = {}
    BY <1>0, <2>1, <2>2, <2>4 DEF Unsent
  <2>7. \A g \in Fetches : \A r \in running'[g] \ sent' : \A k \in r.block : SentFor(k)' = {}
    BY <1>0, <2>1, <2>2, <2>4 DEF Unsent
  <2>8. QED
    BY <2>5, <2>6, <2>7 DEF Unsent, MemoryLasts
<1>3. ASSUME NEW f \in Fetches, ReadDisk(f) PROVE Unsent'
  <2>1. /\ sent' = sent /\ pc[f] = "disk" /\ pc'[f] = "window" /\ left'[f] = claimed[f] \ disk
        /\ UNCHANGED <<claimed, running>>
        /\ \A g \in Fetches \ {f} : pc'[g] = pc[g] /\ left'[g] = left[g]
    BY <1>3 DEF ReadDisk, IInv, TypeOK
  <2>2. \A k \in Contexts : SentFor(k) = {} => SentFor(k)' = {}
    BY <2>1, SentForShrinks
  <2>3. \A k \in left'[f] : SentFor(k) = {}
    <3>1. CASE MemoryLasts
      BY <1>0, <2>1, <3>1 DEF Unsent
    <3>2. CASE DiskLasts
      BY <1>0, <2>1, <3>2, UnreadUnsent
    <3>3. QED
      BY <3>1, <3>2
  <2>4. \A g \in Fetches : claimed[g] \subseteq Contexts /\ left[g] \subseteq Contexts
                           /\ \A r \in running[g] : r.block \subseteq Contexts
    BY DEF IInv, TypeOK, Requests
  <2>5. MemoryLasts => \A g \in Fetches : pc'[g] = "disk" => \A k \in claimed'[g] : SentFor(k)' = {}
    BY <1>0, <2>1, <2>2, <2>4 DEF Unsent
  <2>6. \A g \in Fetches : pc'[g] = "window" => \A k \in left'[g] : SentFor(k)' = {}
    BY <1>0, <2>1, <2>2, <2>3, <2>4 DEF Unsent
  <2>7. \A g \in Fetches : \A r \in running'[g] \ sent' : \A k \in r.block : SentFor(k)' = {}
    BY <1>0, <2>1, <2>2, <2>4 DEF Unsent
  <2>8. QED
    BY <2>5, <2>6, <2>7 DEF Unsent, MemoryLasts
<1>4. ASSUME NEW f \in Fetches, SubmitBlock(f) PROVE Unsent'
  <2> DEFINE request == [fetch |-> f, block |-> NextBlock(f)]
  <2>1. /\ sent' = sent /\ pc[f] = "window" /\ UNCHANGED <<pc, claimed>>
        /\ running' = [running EXCEPT ![f] = running[f] \cup {request}]
        /\ left' = [left EXCEPT ![f] = left[f] \ NextBlock(f)]
    BY <1>4 DEF SubmitBlock, MaySubmit
  <2>2. \A k \in Contexts : SentFor(k) = {} => SentFor(k)' = {}
    BY <2>1, SentForShrinks
  <2>3. NextBlock(f) \subseteq left[f] /\ request.block = NextBlock(f)
    BY NextBlockIn
  <2> HIDE DEF request
  <2>4. \A g \in Fetches : claimed[g] \subseteq Contexts /\ left[g] \subseteq Contexts
                           /\ \A r \in running[g] : r.block \subseteq Contexts
    BY DEF IInv, TypeOK, Requests
  <2>5. \A g \in Fetches : left'[g] \subseteq left[g]
    BY <2>1 DEF IInv, TypeOK
  <2>6. \A g \in Fetches : \A r \in running'[g] : r \in running[g] \/ (g = f /\ r = request)
    BY <2>1 DEF IInv, TypeOK
  <2>7. MemoryLasts => \A g \in Fetches : pc'[g] = "disk" => \A k \in claimed'[g] : SentFor(k)' = {}
    BY <1>0, <2>1, <2>2, <2>4 DEF Unsent
  <2>8. \A g \in Fetches : pc'[g] = "window" => \A k \in left'[g] : SentFor(k)' = {}
    BY <1>0, <2>1, <2>2, <2>4, <2>5 DEF Unsent
  <2>9. \A k \in request.block : SentFor(k)' = {}
    BY <1>0, <2>1, <2>2, <2>3, <2>4 DEF Unsent
  <2>10. \A g \in Fetches : \A r \in running'[g] \ sent' : \A k \in r.block : SentFor(k)' = {}
    BY <1>0, <2>1, <2>2, <2>4, <2>6, <2>9 DEF Unsent
  <2>11. QED
    BY <2>7, <2>8, <2>10 DEF Unsent, MemoryLasts
<1>5. ASSUME NEW w \in Workers, Send(w) PROVE Unsent'
  <2> DEFINE r == held[w]
  <2>1. /\ sent' = sent \cup {r} /\ UNCHANGED <<pc, claimed, left, running, claim>>
        /\ InFlight(r) /\ r \in Requests
    BY <1>5 DEF Send, Executing, InFlight, sourceVars, fetchVars, IInv, TypeOK, PoolTypeOK
  <2> HIDE DEF r
  <2>2. \A k \in Contexts : SentFor(k)' \subseteq SentFor(k) \cup {r}
    BY <2>1 DEF SentFor, Live
  <2>3. \A k \in Contexts : ~Live(r) \/ k \notin r.block => SentFor(k)' \subseteq SentFor(k)
    BY <2>1 DEF SentFor, Live
  <2>4. \A g \in Fetches : claimed[g] \subseteq Contexts /\ left[g] \subseteq Contexts
                           /\ \A q \in running[g] : q.block \subseteq Contexts
    BY DEF IInv, TypeOK, Requests
  <2>5. Live(r) => r.fetch \in Fetches /\ pc[r.fetch] = "window" /\ r \in running[r.fetch]
    BY <2>1 DEF IInv, FlightOwned, Live, Requests
  <2>6. MemoryLasts => \A g \in Fetches : pc'[g] = "disk" => \A k \in claimed'[g] : SentFor(k)' = {}
    <3> SUFFICES ASSUME MemoryLasts, NEW g \in Fetches, pc[g] = "disk", NEW k \in claimed[g]
                 PROVE  SentFor(k)' = {}
      BY <2>1
    <3>1. SentFor(k) = {}
      BY <1>0 DEF Unsent
    <3>2. ~(Live(r) /\ k \in r.block)
      BY <2>1, <2>5, FlightOfClaim DEF Claiming
    <3>3. QED
      BY <2>3, <2>4, <3>1, <3>2
  <2>7. \A g \in Fetches : pc'[g] = "window" => \A k \in left'[g] : SentFor(k)' = {}
    <3> SUFFICES ASSUME NEW g \in Fetches, pc[g] = "window", NEW k \in left[g]
                 PROVE  SentFor(k)' = {}
      BY <2>1
    <3>1. SentFor(k) = {} /\ k \in claimed[g]
      BY <1>0 DEF Unsent, IInv, KeysAccounted
    <3>2. ~(Live(r) /\ k \in r.block)
      <4> SUFFICES ASSUME Live(r), k \in r.block PROVE FALSE
        OBVIOUS
      <4>1. g = r.fetch
        BY <2>1, <3>1, FlightOfClaim DEF Claiming
      <4>2. QED
        BY <2>5, <4>1 DEF IInv, WindowDisjoint
    <3>3. QED
      BY <2>3, <2>4, <3>1, <3>2
  <2>8. \A g \in Fetches : \A q \in running'[g] \ sent' : \A k \in q.block : SentFor(k)' = {}
    <3> SUFFICES ASSUME NEW g \in Fetches, NEW q \in running[g], q \notin sent, q # r,
                        NEW k \in q.block
                 PROVE  SentFor(k)' = {}
      BY <2>1
    <3>1. SentFor(k) = {} /\ k \in claimed[g] /\ pc[g] = "window"
      BY <1>0 DEF Unsent, IInv, WindowDisjoint
    <3>2. ~(Live(r) /\ k \in r.block)
      <4> SUFFICES ASSUME Live(r), k \in r.block PROVE FALSE
        OBVIOUS
      <4>1. g = r.fetch
        BY <2>1, <3>1, FlightOfClaim DEF Claiming
      <4>2. QED
        BY <2>5, <4>1 DEF IInv, WindowDisjoint
    <3>3. QED
      BY <2>3, <2>4, <3>1, <3>2
  <2>9. QED
    BY <2>6, <2>7, <2>8 DEF Unsent, MemoryLasts
<1>6. ASSUME NEW f \in Fetches, SubmitRefused(f) \/ CollectFails(f) PROVE Unsent'
  <2>1. /\ sent' = sent /\ claimed' = claimed /\ left' = left
        /\ running' = [running EXCEPT ![f] = {}] /\ pc' = [pc EXCEPT ![f] = "unwind"]
    BY <1>6 DEF SubmitRefused, CollectFails, Unwind
  <2>2. QED
    BY <1>1, <2>1 DEF IInv, TypeOK
<1>7. ASSUME NEW f \in Fetches, Collect(f) PROVE Unsent'
  <2>1. /\ UNCHANGED <<sent, claimed, left, pc>>
        /\ running' = [running EXCEPT ![f] = running[f] \ Woken(f)]
    BY <1>7 DEF Collect
  <2>2. QED
    BY <1>1, <2>1 DEF IInv, TypeOK
<1>8. ASSUME NEW f \in Fetches, Refuse(f) \/ WindowDone(f) \/ Release(f) \/ Answer(f)
             \/ Return(f) \/ AwaitFails(f)
      PROVE  Unsent'
  <2>1. UNCHANGED <<sent, claimed, left, running>>
    BY <1>8 DEF Refuse, WindowDone, Release, Answer, Return, AwaitFails
  <2>2. \E step \in Steps \ {"disk", "window"} : pc' = [pc EXCEPT ![f] = step]
    BY <1>8 DEF Refuse, WindowDone, Release, Answer, Return, AwaitFails, Steps
  <2>3. QED
    BY <1>1, <2>1, <2>2 DEF IInv, TypeOK
<1>9. ASSUME NEW w \in Workers, TakeRequest(w) \/ StartRequest(w) \/ Admit(w) \/ AdmitRefused(w) \/ Respond(w)
      PROVE  Unsent'
  BY <1>1, <1>9 DEF TakeRequest, StartRequest, Admit, AdmitRefused, Respond, sourceVars, fetchVars
<1>10. CASE LoseEntry \/ CloseBegins \/ CloseStep \/ UNCHANGED vars
  BY <1>1, <1>10 DEF LoseEntry, CloseBegins, CloseStep, ClosePool, CloseJoins, CloseEnds, vars,
                     sourceVars, fetchVars
<1>11. QED
  BY <1>2, <1>3, <1>4, <1>5, <1>6, <1>7, <1>8, <1>9, <1>10 DEF Next, FetchStep, RequestStep

\* So no context is sent for twice.
LEMMA SentOnceStep ==
    ASSUME IInv, Unsent, SentOnce, [Next]_vars
    PROVE  SentOnce'
<1>1. CASE sent' = sent
  BY <1>1, SentForShrinks DEF SentOnce
<1>2. ASSUME NEW w \in Workers, Send(w) PROVE SentOnce'
  <2> DEFINE r == held[w]
  <2>1. /\ sent' = sent \cup {r} /\ claim' = claim /\ r \notin sent
        /\ InFlight(r) /\ r \in Requests
    BY <1>2 DEF Send, Executing, InFlight, sourceVars, fetchVars, IInv, TypeOK, PoolTypeOK
  <2> HIDE DEF r
  <2>2. Live(r) => r.fetch \in Fetches /\ r \in running[r.fetch]
    BY <2>1 DEF IInv, FlightOwned, Live, Requests
  <2>3. \A k \in Contexts : Live(r) /\ k \in r.block => SentFor(k) = {}
    BY <2>1, <2>2 DEF Unsent
  <2>4. \A k \in Contexts :
          SentFor(k)' = SentFor(k) \cup IF Live(r) /\ k \in r.block THEN {r} ELSE {}
    BY <2>1 DEF SentFor, Live
  <2>5. ASSUME NEW k \in Contexts, NEW a \in SentFor(k)', NEW b \in SentFor(k)' PROVE a = b
    <3>1. CASE Live(r) /\ k \in r.block
      BY <2>3, <2>4, <2>5, <3>1
    <3>2. CASE ~(Live(r) /\ k \in r.block)
      BY <2>4, <2>5, <3>2 DEF SentOnce
    <3>3. QED
      BY <3>1, <3>2
  <2>6. QED
    BY <2>5 DEF SentOnce
<1>3. ASSUME NEW f \in Fetches, Begin(f) \/ Refuse(f) \/ FetchStep(f) PROVE sent' = sent
  BY <1>3 DEF Begin, Refuse, FetchStep, ReadDisk, SubmitBlock, SubmitRefused, Collect,
              CollectFails, WindowDone, Release, Answer, Return, AwaitFails
<1>4. ASSUME NEW w \in Workers, RequestStep(w), ~Send(w) PROVE sent' = sent
  BY <1>4 DEF RequestStep, TakeRequest, StartRequest, Admit, AdmitRefused, Respond
<1>5. LoseEntry \/ CloseBegins \/ CloseStep \/ UNCHANGED vars => sent' = sent
  BY DEF LoseEntry, CloseBegins, CloseStep, ClosePool, CloseJoins, CloseEnds, vars
<1>6. QED
  BY <1>1, <1>2, <1>3, <1>4, <1>5 DEF Next

\* The invariant about what was sent holds in every reachable state.
LEMMA SentCorrect == Spec => []SentInv
<1>1. Init => SentInv
  <2> SUFFICES ASSUME Init PROVE SentInv
    OBVIOUS
  <2>1. AskedFor
    BY DEF Init, MemoryInit, AskedFor
  <2>2. SentAccounted /\ SentOnce
    BY DEF Init, SentAccounted, SentOnce, SentFor
  <2>3. OnDisk /\ InMemory
    BY DEF Init, PoolInit, OnDisk, InMemory
  <2>4. Unsent
    BY DEF Init, Unsent
  <2>5. QED
    BY <2>1, <2>2, <2>3, <2>4 DEF SentInv
<1>2. IInv /\ SentInv /\ [Next]_vars => SentInv'
  <2> SUFFICES ASSUME IInv, SentInv, [Next]_vars PROVE SentInv'
    OBVIOUS
  <2>1. AskedFor' /\ SentAccounted'
    BY AskedForStep, SentAccountedStep DEF SentInv
  <2>2. DiskLasts => OnDisk'
    BY OnDiskStep DEF SentInv
  <2>3. MemoryLasts => InMemory'
    BY InMemoryStep DEF SentInv
  <2>4. DiskLasts \/ MemoryLasts => Unsent' /\ SentOnce'
    BY UnsentStep, SentOnceStep DEF SentInv
  <2>5. QED
    BY <2>1, <2>2, <2>3, <2>4 DEF SentInv, DiskLasts, MemoryLasts
<1>3. QED
  BY <1>1, <1>2, InvCorrect, PTL DEF Spec

\* Where entries last, each context goes to TigerGraph at most once, failed fetches aside.
THEOREM RequestsCorrect == Spec => []OneRequestEach
<1>1. IInv /\ SentInv => OneRequestEach
  <2> SUFFICES ASSUME IInv, SentInv, DiskLasts \/ MemoryLasts, NEW k \in Contexts
               PROVE  Cardinality({r \in sent : k \in r.block /\ claim[r.fetch] # "failed"}) <= 1
    BY DEF OneRequestEach, DiskLasts, MemoryLasts
  <2> DEFINE S == SentFor(k)
  <2>1. \A r, s \in S : r = s
    BY DEF SentInv, SentOnce
  <2>2. S = {} \/ \E r : S = {r}
    <3>1. CASE S = {}
      BY <3>1
    <3>2. ASSUME NEW r \in S PROVE S = {r}
      BY <2>1
    <3> HIDE DEF S
    <3>3. QED
      BY <3>1, <3>2
  <2>3. Cardinality(S) <= 1
    <3> HIDE DEF S
    <3>1. CASE S = {}
      BY <3>1, FS_EmptySet
    <3>2. ASSUME NEW r, S = {r} PROVE Cardinality(S) <= 1
      <4>1. Cardinality({r}) = 1
        BY FS_Singleton
      <4>2. QED
        BY <3>2, <4>1
    <3>3. QED
      BY <2>2, <3>1, <3>2
  <2>4. S = {r \in sent : k \in r.block /\ claim[r.fetch] # "failed"}
    BY DEF SentFor, Live
  <2> HIDE DEF S
  <2>5. QED
    BY <2>3, <2>4
<1>2. QED
  BY <1>1, InvCorrect, SentCorrect, PTL

\* What keeps requests back once close was called: where the requests admitted are, and who
\* runs them.
CloseInv ==
    /\ sent \subseteq admitted
    /\ \A r \in admitted : ~NotBegun(r)
    /\ closer = "open" => unbegun = {}
    /\ admitted \cap unbegun = {}
    /\ \A r \in Requests : future[r] = "running" => \E w \in Workers : held[w] = r
    /\ \A w \in Workers : held[w] # NoCall => thread[w] = "started"
    /\ closer \in {"joining", "clearing", "closed"} => shutdown
    /\ waits /\ closer \in {"clearing", "closed"} => Joined

\* The pool alone: a call that runs is held by a worker, a worker that holds a call has not
\* returned, a call that began is not taken back, and no thread starts after a shutdown.
PoolHeld ==
    /\ \A r \in Requests : future[r] = "running" => \E w \in Workers : held[w] = r
    /\ \A w \in Workers : held[w] # NoCall => thread[w] = "started"

PoolOn ==
    /\ \A r \in Requests : ~NotBegun(r) => ~NotBegun(r)'
    /\ shutdown => shutdown' /\ (Joined => Joined')

LEMMA PoolStep ==
    ASSUME TypeOK, PoolHeld
    PROVE  /\ \A c \in Requests : Submit(c) => PoolHeld' /\ PoolOn
           /\ \A S : Cancel(S) => PoolHeld' /\ PoolOn
           /\ Shutdown(TRUE) => PoolHeld' /\ PoolOn
           /\ \A w \in Workers : Take(w) \/ Start(w) => PoolHeld' /\ PoolOn
           /\ \A w \in Workers, o \in {"finished", "failed"} : Finish(w, o) => PoolHeld' /\ PoolOn
           /\ UNCHANGED poolVars => PoolHeld' /\ PoolOn
<1> USE DEF TypeOK, PoolTypeOK, PoolHeld, PoolOn, NotBegun, Joined, FutureStates, ThreadStates
<1>1. ASSUME NEW c \in Requests, Submit(c) PROVE PoolHeld' /\ PoolOn
  BY <1>1 DEF Submit
<1>2. ASSUME NEW S, Cancel(S) PROVE PoolHeld' /\ PoolOn
  BY <1>2 DEF Cancel, Cancelled
<1>3. ASSUME Shutdown(TRUE) PROVE PoolHeld' /\ PoolOn
  BY <1>3 DEF Shutdown, Cancelled
<1>4. ASSUME NEW w \in Workers, Take(w) PROVE PoolHeld' /\ PoolOn
  BY <1>4 DEF Take
<1>5. ASSUME NEW w \in Workers, Start(w) PROVE PoolHeld' /\ PoolOn
  BY <1>5 DEF Start
<1>6. ASSUME NEW w \in Workers, NEW o \in {"finished", "failed"}, Finish(w, o)
      PROVE PoolHeld' /\ PoolOn
  BY <1>6 DEF Finish
<1>7. ASSUME UNCHANGED poolVars PROVE PoolHeld' /\ PoolOn
  BY <1>7 DEF poolVars
<1>8. QED
  BY <1>1, <1>2, <1>3, <1>4, <1>5, <1>6, <1>7

\* What a fetch, the disk or a request that is only taken, started, refused or answered does
\* admits and sends nothing.
LEMMA CloseKept ==
    ASSUME CloseInv, PoolHeld', PoolOn, TypeOK, UNCHANGED callVars
    PROVE  CloseInv'
BY DEF CloseInv, PoolHeld, PoolOn, TypeOK, callVars, NotBegun

LEMMA CloseStepInv == TypeOK /\ CloseInv /\ [Next]_vars => CloseInv'
<1> SUFFICES ASSUME TypeOK, CloseInv, [Next]_vars PROVE CloseInv'
  OBVIOUS
<1>0. PoolHeld
  BY DEF CloseInv, PoolHeld
<1>1. ASSUME NEW f \in Fetches, Begin(f) \/ Refuse(f) \/ ReadDisk(f) \/ Collect(f)
                                \/ WindowDone(f) \/ Release(f) \/ Answer(f) \/ Return(f)
                                \/ AwaitFails(f)
      PROVE CloseInv'
  <2>1. UNCHANGED poolVars /\ UNCHANGED callVars
    BY <1>1 DEF Begin, Refuse, ReadDisk, Collect, WindowDone, Release, Answer, Return, AwaitFails
  <2>2. QED
    BY <1>0, <2>1, PoolStep, CloseKept
<1>2. ASSUME NEW f \in Fetches, SubmitBlock(f) PROVE CloseInv'
  <2>1. [fetch |-> f, block |-> NextBlock(f)] \in Requests
    BY NextBlockIn DEF TypeOK, Requests
  <2>2. QED
    BY <1>0, <1>2, <2>1, PoolStep, CloseKept DEF SubmitBlock
<1>3. ASSUME NEW f \in Fetches, SubmitRefused(f) \/ CollectFails(f) PROVE CloseInv'
  <2>1. (\E S : Cancel(S)) /\ UNCHANGED callVars
    BY <1>3 DEF SubmitRefused, CollectFails, Unwind
  <2>2. QED
    BY <1>0, <2>1, PoolStep, CloseKept
<1>4. ASSUME NEW w \in Workers, TakeRequest(w) \/ StartRequest(w) PROVE CloseInv'
  BY <1>0, <1>4, PoolStep, CloseKept DEF TakeRequest, StartRequest, sourceVars
<1>5. ASSUME NEW w \in Workers, AdmitRefused(w) \/ Respond(w) PROVE CloseInv'
  <2>1. \E o \in {"finished", "failed"} : Finish(w, o)
    BY <1>5 DEF AdmitRefused, Respond
  <2>2. UNCHANGED callVars
    BY <1>5 DEF AdmitRefused, Respond, sourceVars
  <2>3. QED
    BY <1>0, <2>1, <2>2, PoolStep, CloseKept
<1>6. ASSUME NEW w \in Workers, Admit(w) PROVE CloseInv'
  BY <1>6 DEF Admit, Executing, Closed, CloseInv, NotBegun, Joined, TypeOK, PoolTypeOK, poolVars,
              sourceVars
<1>7. ASSUME NEW w \in Workers, Send(w) PROVE CloseInv'
  BY <1>7 DEF Send, CloseInv, NotBegun, Joined, TypeOK, poolVars, sourceVars
<1>8. CASE LoseEntry \/ UNCHANGED vars
  <2>1. UNCHANGED poolVars /\ UNCHANGED callVars
    BY <1>8 DEF LoseEntry, vars, sourceVars
  <2>2. QED
    BY <1>0, <2>1, PoolStep, CloseKept
<1>9. CASE CloseBegins
  BY <1>9 DEF CloseBegins, CloseInv, NotBegun, Joined, TypeOK, poolVars
<1>10. CASE ClosePool
  <2>1. PoolHeld' /\ PoolOn
    BY <1>0, <1>10, PoolStep DEF ClosePool
  <2>2. shutdown'
    BY <1>10 DEF ClosePool, Shutdown
  <2>3. QED
    BY <1>10, <2>1, <2>2 DEF ClosePool, CloseInv, PoolHeld, PoolOn, TypeOK
<1>11. CASE CloseJoins \/ CloseEnds
  <2>1. PoolHeld' /\ PoolOn
    BY <1>0, <1>11, PoolStep DEF CloseJoins, CloseEnds
  <2>2. /\ UNCHANGED <<admitted, sent, waits, unbegun, shutdown>>
        /\ closer' \in {"clearing", "closed"} /\ shutdown
        /\ waits => Joined
    BY <1>11 DEF CloseJoins, CloseEnds, CloseInv, poolVars
  <2>3. QED
    BY <2>1, <2>2 DEF CloseInv, PoolHeld, PoolOn, TypeOK
<1>12. QED
  BY <1>1, <1>2, <1>3, <1>4, <1>5, <1>6, <1>7, <1>8, <1>9, <1>10, <1>11
     DEF Next, FetchStep, RequestStep, CloseStep

\* _query and close: a request no worker had begun when close was called is never sent, and
\* a close that waits leaves none on its way.
THEOREM CloseCorrect == Spec => []NoRequestAfterClose
<1>1. Init => CloseInv
  BY DEF Init, PoolInit, CloseInv, Joined
<1>2. TypeOK /\ CloseInv => NoRequestAfterClose
  <2> SUFFICES ASSUME TypeOK, CloseInv PROVE NoRequestAfterClose
    OBVIOUS
  <2>1. ASSUME waits, closer \in {"clearing", "closed"}, NEW r \in Requests, Calling(r)
        PROVE FALSE
    <3>1. future[r] = "running"
      BY <2>1 DEF Calling, InFlight, CloseInv, NotBegun
    <3>2. PICK w \in Workers : held[w] = r
      BY <3>1 DEF CloseInv
    <3>3. thread[w] = "started" /\ Joined
      BY <2>1, <3>2 DEF CloseInv
    <3>4. QED
      BY <3>3 DEF Joined
  <2>2. QED
    BY <2>1 DEF NoRequestAfterClose, CloseInv
<1>3. QED
  BY <1>1, <1>2, CloseStepInv, TypeCorrect, PTL DEF Spec

-------------------------------------------------------------------------------
(* Steps of the counters. *)

\* Sets that have nothing in common add up.
LEMMA DisjointUnion ==
    ASSUME NEW A, NEW B, IsFiniteSet(A), IsFiniteSet(B), A \cap B = {}
    PROVE  IsFiniteSet(A \cup B) /\ Cardinality(A \cup B) = Cardinality(A) + Cardinality(B)
<1>1. Cardinality(A) \in Nat /\ Cardinality(B) \in Nat
  BY FS_CardinalityType
<1>2. Cardinality(A \cap B) = 0
  BY FS_EmptySet
<1>3. /\ IsFiniteSet(A \cup B)
      /\ Cardinality(A \cup B) = Cardinality(A) + Cardinality(B) - Cardinality(A \cap B)
  BY FS_Union
<1>4. QED
  BY <1>1, <1>2, <1>3

\* Pairs of one more fetch add their number.
LEMMA AddPairs ==
    ASSUME NEW A, IsFiniteSet(A), NEW f \in Fetches, NEW K \in SUBSET Contexts,
           A \cap ({f} \X K) = {}
    PROVE  /\ IsFiniteSet(A \cup ({f} \X K))
           /\ Cardinality(A \cup ({f} \X K)) = Cardinality(A) + Cardinality(K)
<1>1. IsFiniteSet(K) /\ Cardinality(K) \in Nat
  BY FS_Subset, FS_CardinalityType
<1>2. IsFiniteSet({f}) /\ Cardinality({f}) = 1
  BY FS_Singleton
<1>3. IsFiniteSet({f} \X K) /\ Cardinality({f} \X K) = Cardinality(K)
  BY <1>1, <1>2, FS_Product
<1>4. QED
  BY <1>3, DisjointUnion

\* Steps that change nobody's keys, nor where they came from, leave the counters' sets alone.
LEMMA SamePairs ==
    ASSUME TypeOK, UNCHANGED <<want, claimed, shared, stored>>
    PROVE  /\ Asked' = Asked /\ Hits' = Hits /\ ReadHere' = ReadHere
           /\ \A f : Shared(f)' = Shared(f)
           /\ (\A f \in Fetches : pc'[f] = "returned" <=> pc[f] = "returned") =>
                 ReadThere' = ReadThere
<1>1. Asked' = Asked /\ \A f : Shared(f)' = Shared(f)
  BY DEF Asked, Shared, KeysOf
<1>2. Hits' = Hits
  BY <1>1 DEF Hits
<1>3. ReadHere' = ReadHere
  BY DEF ReadHere
<1>4. (\A f \in Fetches : pc'[f] = "returned" <=> pc[f] = "returned") => ReadThere' = ReadThere
  BY <1>1 DEF ReadThere
<1>5. QED
  BY <1>1, <1>2, <1>3, <1>4

\* The sets are of what was asked for, and no key is answered in two ways.
LEMMA PairsDisjoint ==
    ASSUME IInv, AskedFor, CountInv
    PROVE  /\ Hits \subseteq Asked /\ ReadHere \subseteq Asked /\ ReadThere \subseteq Asked
           /\ Hits \cap ReadHere = {} /\ Hits \cap ReadThere = {} /\ ReadHere \cap ReadThere = {}
           /\ IsFiniteSet(Hits) /\ IsFiniteSet(ReadHere) /\ IsFiniteSet(ReadThere)
<1>1. \A f \in Fetches : /\ stored[f] \subseteq claimed[f] /\ claimed[f] \subseteq KeysOf(want[f])
                         /\ Shared(f) \subseteq KeysOf(want[f]) /\ claimed[f] \cap Shared(f) = {}
  BY DEF IInv, KeysAccounted, Obtained, AskedFor, CountInv
<1>2. Hits \subseteq Asked
  BY DEF Hits
<1>3. ReadHere \subseteq Asked /\ Hits \cap ReadHere = {}
  BY <1>1 DEF ReadHere, Asked, Hits
<1>4. ReadThere \subseteq Asked /\ Hits \cap ReadThere = {}
  BY <1>1 DEF ReadThere, Asked, Hits
<1>5. ReadHere \cap ReadThere = {}
  BY <1>1 DEF ReadHere, ReadThere
<1>6. QED
  BY <1>2, <1>3, <1>4, <1>5, FS_Subset DEF CountInv

\* Every step counts what it answers, once.
LEMMA CountStep == IInv /\ AskedFor /\ CountInv /\ [Next]_vars => CountInv'
<1> SUFFICES ASSUME IInv, AskedFor, CountInv, [Next]_vars PROVE CountInv'
  OBVIOUS
<1>0. TypeOK
  BY DEF IInv
<1> DEFINE Apart(f) ==
             /\ pc[f] = "new" => want[f] = <<>>
             /\ Shared(f) \subseteq KeysOf(want[f])
             /\ claimed[f] \cap Shared(f) = {} /\ stored[f] \cap fetched[f] = {}
             /\ stored[f] \cap (left[f] \cup Rows(running[f])) = {}
\* A step that asks for nothing and reads nothing.
<1>1. ASSUME UNCHANGED <<want, claimed, shared, stored, requested, memory_hits, disk_hits>>,
             \A f \in Fetches : pc'[f] = "returned" <=> pc[f] = "returned",
             \A f \in Fetches : pc'[f] = "new" => pc[f] = "new",
             \A f \in Fetches :
                fetched'[f] \cup left'[f] \cup Rows(running'[f])
                    \subseteq fetched[f] \cup left[f] \cup Rows(running[f])
      PROVE  CountInv'
  <2>1. /\ Asked' = Asked /\ Hits' = Hits /\ ReadHere' = ReadHere /\ ReadThere' = ReadThere
        /\ \A f : Shared(f)' = Shared(f)
    BY <1>0, <1>1, SamePairs
  <2>2. ASSUME NEW f \in Fetches
        PROVE  /\ pc'[f] = "new" => want'[f] = <<>>
               /\ Shared(f)' \subseteq KeysOf(want'[f])
               /\ claimed'[f] \cap Shared(f)' = {} /\ stored'[f] \cap fetched'[f] = {}
               /\ stored'[f] \cap (left'[f] \cup Rows(running'[f])) = {}
    <3>1. Apart(f)
      BY DEF CountInv
    <3>2. QED
      BY <1>1, <2>1, <3>1
  <2>3. \A f \in Fetches : Apart(f)'
    BY <2>2 DEF KeysOf, Rows
  <2>4. QED
    BY <1>1, <2>1, <2>3 DEF CountInv
<1>2. ASSUME NEW f \in Fetches, Begin(f) PROVE CountInv'
  <2>1. PICK keys \in KeyLists :
          LET hits == Held(keys)
              others == {k \in KeysOf(keys) \ hits : inflight[k] # NoFetch}
              mine == (KeysOf(keys) \ hits) \ others
          IN /\ want' = [want EXCEPT ![f] = keys]
             /\ claimed' = [claimed EXCEPT ![f] = mine]
             /\ shared' = [shared EXCEPT
                  ![f] = [k \in Contexts |-> IF k \in others THEN inflight[k] ELSE NoFetch]]
             /\ inflight' = [k \in Contexts |-> IF k \in mine THEN f ELSE inflight[k]]
             /\ requested' = requested + Cardinality(KeysOf(keys))
             /\ memory_hits' = memory_hits + Cardinality(hits)
    BY <1>2 DEF Begin
  <2> DEFINE hits == Held(keys)
             others == {k \in KeysOf(keys) \ hits : inflight[k] # NoFetch}
             mine == (KeysOf(keys) \ hits) \ others
  <2>2. /\ keys \in Seq(Contexts) /\ KeysOf(keys) \subseteq Contexts
        /\ hits \subseteq KeysOf(keys) /\ hits \subseteq Contexts
    BY <1>0, KeysOfIn DEF Held, TypeOK
  <2>3. pc[f] = "new" /\ pc' = [pc EXCEPT ![f] = "disk"]
        /\ UNCHANGED <<stored, fetched, left, running, disk_hits>>
    BY <1>2 DEF Begin
  <2>4. /\ want[f] = <<>> /\ claimed[f] = {} /\ stored[f] = {} /\ left[f] = {} /\ running[f] = {}
    BY <2>3 DEF CountInv, IInv, KeysAccounted, Obtained, WindowDisjoint
  <2>5. /\ want'[f] = keys /\ claimed'[f] = mine /\ Shared(f)' = others
        /\ \A g \in Fetches \ {f} : want'[g] = want[g] /\ claimed'[g] = claimed[g]
                                    /\ shared'[g] = shared[g] /\ pc'[g] = pc[g]
    <3>1. /\ want'[f] = keys /\ claimed'[f] = mine
          /\ shared'[f] = [k \in Contexts |-> IF k \in others THEN inflight[k] ELSE NoFetch]
          /\ \A g \in Fetches \ {f} : want'[g] = want[g] /\ claimed'[g] = claimed[g]
                                    /\ shared'[g] = shared[g] /\ pc'[g] = pc[g]
      BY <1>0, <2>1, <2>3 DEF TypeOK
    <3>2. others \subseteq Contexts
      BY <2>2
    <3>3. Shared(f)' = {k \in Contexts : shared'[f][k] # NoFetch}
      BY DEF Shared
    <3>4. \A k \in others : inflight[k] # NoFetch
      OBVIOUS
    <3> HIDE DEF others, mine, hits
    <3>5. Shared(f)' = others
      BY <3>1, <3>2, <3>3, <3>4
    <3>6. QED
      BY <3>1, <3>5
  <2>6. \A g \in Fetches \ {f} : Shared(g)' = Shared(g)
    BY <2>5 DEF Shared
  <2>7. KeysOf(<<>>) = {}
    BY DEF KeysOf
  <2>8. KeysOf(keys) = hits \cup mine \cup others /\ hits \cap (mine \cup others) = {}
        /\ mine \cap others = {}
    BY <2>2
  <2>9. requested' = requested + Cardinality(KeysOf(keys)) /\ memory_hits' = memory_hits + Cardinality(hits)
    BY <2>1
  <2> HIDE DEF hits, others, mine
  <2>10. Asked' = Asked \cup ({f} \X KeysOf(keys)) /\ Asked \cap ({f} \X KeysOf(keys)) = {}
    <3>1. \A p \in Asked : p[1] # f
      BY <2>4, <2>7 DEF Asked
    <3>2. Asked' = {p \in Fetches \X Contexts : p[2] \in KeysOf(want'[p[1]])}
      BY DEF Asked
    <3>3. \A p \in Fetches \X Contexts :
            p \in Asked' <=> p \in Asked \/ (p[1] = f /\ p[2] \in KeysOf(keys))
      BY <2>4, <2>5, <2>7, <3>2 DEF Asked
    <3>4. QED
      BY <2>2, <3>1, <3>2, <3>3 DEF Asked
  <2>11. Hits' = Hits \cup ({f} \X hits) /\ Hits \cap ({f} \X hits) = {}
    <3>1. \A p \in Asked : p[1] \in Fetches /\ p[1] # f /\ p = <<p[1], p[2]>>
      BY <2>4, <2>7 DEF Asked
    <3>2. Hits' = {p \in Asked' : p[2] \notin claimed'[p[1]] /\ p[2] \notin Shared(p[1])'}
      BY DEF Hits
    <3>3. \A p \in Asked : p \in Hits' <=> p \in Hits
      BY <2>5, <2>6, <2>10, <3>1, <3>2 DEF Hits
    <3>4. \A p \in {f} \X KeysOf(keys) : p \in Hits' <=> p[2] \in hits
      BY <2>5, <2>8, <2>10, <3>2
    <3>5. Hits' \subseteq Asked'
      BY <3>2
    <3>6. Hits \subseteq Asked /\ {f} \X hits \subseteq {f} \X KeysOf(keys)
      BY <2>2 DEF Hits
    <3>7. QED
      BY <2>10, <3>3, <3>4, <3>5, <3>6
  <2>12. ReadHere' = ReadHere
    BY <2>3 DEF ReadHere
  <2>13. ReadThere' = ReadThere
    <3>1. ReadThere' = {p \in Fetches \X Contexts :
              pc'[p[1]] = "returned" /\ p[2] \in Shared(p[1])' /\ p[2] \in stored[shared'[p[1]][p[2]]]}
      BY <2>3 DEF ReadThere
    <3>2. pc[f] # "returned" /\ pc'[f] # "returned"
      BY <1>0, <2>3 DEF TypeOK
    <3>3. \A p \in Fetches \X Contexts : p \in ReadThere' <=> p \in ReadThere
      <4> SUFFICES ASSUME NEW g \in Fetches, NEW k \in Contexts
                   PROVE  (pc'[g] = "returned" /\ k \in Shared(g)' /\ k \in stored[shared'[g][k]])
                          <=> (pc[g] = "returned" /\ k \in Shared(g) /\ k \in stored[shared[g][k]])
        BY <3>1 DEF ReadThere
      <4>1. CASE g = f
        BY <3>2, <4>1
      <4>2. CASE g # f
        BY <2>5, <2>6, <4>2
      <4>3. QED
        BY <4>1, <4>2
    <3>4. QED
      BY <3>1, <3>3 DEF ReadThere
  <2>14. /\ IsFiniteSet(Asked') /\ requested' = Cardinality(Asked')
         /\ memory_hits' = Cardinality(Hits')
    <3>1. IsFiniteSet(Asked) /\ IsFiniteSet(Hits)
      BY PairsDisjoint DEF CountInv
    <3>2. /\ IsFiniteSet(Asked') /\ Cardinality(Asked') = Cardinality(Asked) + Cardinality(KeysOf(keys))
      BY <2>2, <2>10, <3>1, AddPairs
    <3>3. Cardinality(Hits') = Cardinality(Hits) + Cardinality(hits)
      BY <2>2, <2>11, <3>1, AddPairs
    <3>4. QED
      BY <2>9, <3>2, <3>3 DEF CountInv
  <2>15. ASSUME NEW g \in Fetches PROVE Apart(g)'
    <3>1. /\ stored'[g] = stored[g] /\ fetched'[g] = fetched[g] /\ left'[g] = left[g]
          /\ running'[g] = running[g]
      BY <2>3
    <3>2. Apart(g)
      BY DEF CountInv
    <3>3. stored'[g] \cap fetched'[g] = {} /\ stored'[g] \cap (left'[g] \cup Rows(running'[g])) = {}
      BY <3>1, <3>2
    <3>4. /\ pc'[g] = "new" => want'[g] = <<>>
          /\ Shared(g)' \subseteq KeysOf(want'[g]) /\ claimed'[g] \cap Shared(g)' = {}
      <4>1. CASE g = f
        BY <1>0, <2>3, <2>5, <2>8, <4>1 DEF TypeOK
      <4>2. CASE g # f
        BY <2>5, <2>6, <3>2, <4>2
      <4>3. QED
        BY <4>1, <4>2
    <3>5. QED
      BY <3>3, <3>4 DEF KeysOf, Rows
  <2>16. disk_hits' = Cardinality(ReadHere') + Cardinality(ReadThere')
    BY <2>3, <2>12, <2>13 DEF CountInv
  <2>17. QED
    BY <2>14, <2>15, <2>16 DEF CountInv
<1>3. ASSUME NEW f \in Fetches, ReadDisk(f) PROVE CountInv'
  <2> DEFINE found == claimed[f] \cap disk
  <2>1. /\ pc[f] = "disk" /\ pc' = [pc EXCEPT ![f] = "window"]
        /\ stored' = [stored EXCEPT ![f] = found] /\ left' = [left EXCEPT ![f] = claimed[f] \ found]
        /\ disk_hits' = disk_hits + Cardinality(found)
        /\ UNCHANGED <<want, claimed, shared, fetched, running, requested, memory_hits>>
    BY <1>3 DEF ReadDisk
  <2>2. stored[f] = {} /\ fetched[f] = {} /\ running[f] = {} /\ found \subseteq Contexts
    <3>1. stored[f] \cup fetched[f] = {}
      BY <2>1 DEF IInv, KeysAccounted, Obtained
    <3>2. running[f] = {}
      BY <2>1 DEF IInv, WindowDisjoint
    <3>3. disk \subseteq Contexts
      BY <1>0 DEF TypeOK
    <3>4. QED
      BY <3>1, <3>2, <3>3
  <2>3. /\ stored'[f] = found /\ left'[f] \cap found = {} /\ pc'[f] = "window"
        /\ \A g \in Fetches \ {f} : stored'[g] = stored[g] /\ left'[g] = left[g] /\ pc'[g] = pc[g]
    BY <1>0, <2>1 DEF TypeOK
  <2> HIDE DEF found
  <2>4. Asked' = Asked /\ Hits' = Hits /\ \A g : Shared(g)' = Shared(g)
    <3>1. Asked' = Asked /\ \A g : Shared(g)' = Shared(g)
      BY <2>1 DEF Asked, Shared, KeysOf
    <3>2. QED
      BY <2>1, <3>1 DEF Hits
  <2>5. ReadHere' = ReadHere \cup ({f} \X found) /\ ReadHere \cap ({f} \X found) = {}
    BY <2>2, <2>3 DEF ReadHere
  <2>6. ReadThere' = ReadThere
    <3>1. ReadThere' = {p \in Fetches \X Contexts :
              pc'[p[1]] = "returned" /\ p[2] \in Shared(p[1]) /\ p[2] \in stored'[shared[p[1]][p[2]]]}
      BY <2>1, <2>4 DEF ReadThere
    <3>2. ASSUME NEW g \in Fetches, NEW k \in Contexts
          PROVE  (pc'[g] = "returned" /\ k \in Shared(g) /\ k \in stored'[shared[g][k]])
                 <=> (pc[g] = "returned" /\ k \in Shared(g) /\ k \in stored[shared[g][k]])
      <4>1. pc'[g] = "returned" <=> pc[g] = "returned"
        BY <1>0, <2>1, <2>3 DEF TypeOK
      <4>2. ASSUME pc[g] = "returned", k \in Shared(g) PROVE shared[g][k] \in Fetches \ {f}
        <5>1. claim[shared[g][k]] = "answered" /\ shared[g][k] \in Fetches
          BY <1>0, <4>2 DEF IInv, SharedClaimed, Shared, TypeOK
        <5>2. claim[f] # "answered"
          BY <2>1 DEF IInv, ClaimFits
        <5>3. QED
          BY <5>1, <5>2
      <4>3. QED
        BY <2>3, <4>1, <4>2
    <3>3. QED
      BY <3>1, <3>2 DEF ReadThere
  <2>7. Cardinality(ReadHere') = Cardinality(ReadHere) + Cardinality(found)
    BY <2>2, <2>5, PairsDisjoint, AddPairs
  <2>8. disk_hits' = Cardinality(ReadHere') + Cardinality(ReadThere')
    <3>1. /\ Cardinality(ReadHere) \in Nat /\ Cardinality(ReadThere) \in Nat
          /\ Cardinality(found) \in Nat
      BY <2>2, PairsDisjoint, FS_CardinalityType, CountsAreNat
    <3>2. disk_hits = Cardinality(ReadHere) + Cardinality(ReadThere)
      BY DEF CountInv
    <3>3. QED
      BY <2>1, <2>6, <2>7, <3>1, <3>2
  <2>9. ASSUME NEW g \in Fetches PROVE Apart(g)'
    <3>1. Apart(g)
      BY DEF CountInv
    <3>2. stored'[g] \cap fetched'[g] = {} /\ stored'[g] \cap (left'[g] \cup Rows(running'[g])) = {}
      <4>1. CASE g = f
        <5>1. Rows({}) = {}
          BY DEF Rows
        <5>2. QED
          BY <2>1, <2>2, <2>3, <4>1, <5>1
      <4>2. CASE g # f
        BY <2>1, <2>3, <3>1, <4>2
      <4>3. QED
        BY <4>1, <4>2
    <3>3. pc'[g] = "new" => pc[g] = "new"
      BY <2>3
    <3>4. QED
      BY <2>1, <2>4, <3>1, <3>2, <3>3 DEF KeysOf, Rows
  <2>10. QED
    BY <2>1, <2>4, <2>8, <2>9 DEF CountInv
<1>4. ASSUME NEW f \in Fetches, Return(f) PROVE CountInv'
  <2> DEFINE K == {k \in Shared(f) : k \in stored[shared[f][k]]}
  <2>1. /\ pc[f] = "await" /\ pc' = [pc EXCEPT ![f] = "returned"]
        /\ disk_hits' = disk_hits + Cardinality(K)
        /\ UNCHANGED <<want, claimed, shared, stored, fetched, left, running, requested,
                       memory_hits>>
    BY <1>4 DEF Return
  <2>2. K \subseteq Contexts
    BY DEF Shared
  <2>3. /\ Asked' = Asked /\ Hits' = Hits /\ ReadHere' = ReadHere
        /\ \A g : Shared(g)' = Shared(g)
    BY <1>0, <2>1, SamePairs
  <2>4. pc'[f] = "returned" /\ pc[f] # "returned" /\ \A g \in Fetches \ {f} : pc'[g] = pc[g]
    BY <1>0, <2>1 DEF TypeOK
  <2>5. ReadThere' = ReadThere \cup ({f} \X K) /\ ReadThere \cap ({f} \X K) = {}
    <3>1. ReadThere' = {p \in Fetches \X Contexts :
              pc'[p[1]] = "returned" /\ p[2] \in Shared(p[1]) /\ p[2] \in stored[shared[p[1]][p[2]]]}
      BY <2>1, <2>3 DEF ReadThere
    <3>2. \A g \in Fetches, k \in Contexts :
            <<g, k>> \in ReadThere' <=> <<g, k>> \in ReadThere \/ (g = f /\ k \in K)
      BY <2>4, <3>1 DEF ReadThere
    <3>3. ReadThere' \subseteq Fetches \X Contexts /\ ReadThere \subseteq Fetches \X Contexts
      BY <3>1 DEF ReadThere
    <3>4. \A k : <<f, k>> \notin ReadThere
      BY <2>4 DEF ReadThere
    <3> HIDE DEF K
    <3>5. QED
      BY <2>2, <3>2, <3>3, <3>4
  <2> HIDE DEF K
  <2>6. Cardinality(ReadThere') = Cardinality(ReadThere) + Cardinality(K)
    BY <2>2, <2>5, PairsDisjoint, AddPairs
  <2>7. disk_hits' = Cardinality(ReadHere') + Cardinality(ReadThere')
    <3>1. /\ Cardinality(ReadHere) \in Nat /\ Cardinality(ReadThere) \in Nat
          /\ Cardinality(K) \in Nat
      BY <2>2, PairsDisjoint, FS_CardinalityType, CountsAreNat
    <3>2. disk_hits = Cardinality(ReadHere) + Cardinality(ReadThere)
      BY DEF CountInv
    <3>3. QED
      BY <2>1, <2>3, <2>6, <3>1, <3>2
  <2>8. ASSUME NEW g \in Fetches PROVE Apart(g)'
    <3>1. Apart(g) /\ (pc'[g] = "new" => pc[g] = "new")
      BY <2>4 DEF CountInv
    <3>2. QED
      BY <2>1, <2>3, <3>1 DEF KeysOf, Rows
  <2>9. QED
    BY <2>1, <2>3, <2>7, <2>8 DEF CountInv
<1>5. ASSUME NEW f \in Fetches, SubmitBlock(f) PROVE CountInv'
  <2> DEFINE request == [fetch |-> f, block |-> NextBlock(f)]
  <2>1. /\ UNCHANGED <<pc, want, claimed, shared, stored, fetched, requested, memory_hits, disk_hits>>
        /\ running' = [running EXCEPT ![f] = running[f] \cup {request}]
        /\ left' = [left EXCEPT ![f] = left[f] \ NextBlock(f)]
    BY <1>5 DEF SubmitBlock, countVars
  <2>2. NextBlock(f) \subseteq left[f] /\ request.block = NextBlock(f)
    BY NextBlockIn
  <2> HIDE DEF request
  <2>3. Rows(running[f] \cup {request}) = Rows(running[f]) \cup NextBlock(f)
    BY <2>2 DEF Rows
  <2>4. /\ running'[f] = running[f] \cup {request} /\ left'[f] = left[f] \ NextBlock(f)
        /\ \A g \in Fetches \ {f} : running'[g] = running[g] /\ left'[g] = left[g]
    BY <1>0, <2>1 DEF TypeOK
  <2>5. \A g \in Fetches :
          fetched'[g] \cup left'[g] \cup Rows(running'[g])
              \subseteq fetched[g] \cup left[g] \cup Rows(running[g])
    BY <2>1, <2>2, <2>3, <2>4
  <2>6. QED
    BY <1>1, <2>1, <2>5
<1>6. ASSUME NEW f \in Fetches, NEW S \in SUBSET running[f], NEW T \in SUBSET running[f],
             fetched' = [fetched EXCEPT ![f] = fetched[f] \cup Rows(S)],
             running' = [running EXCEPT ![f] = T], left' = left
      PROVE  \A g \in Fetches :
               fetched'[g] \cup left'[g] \cup Rows(running'[g])
                   \subseteq fetched[g] \cup left[g] \cup Rows(running[g])
  <2>1. Rows(S) \subseteq Rows(running[f]) /\ Rows(T) \subseteq Rows(running[f])
    BY DEF Rows
  <2>2. /\ fetched'[f] = fetched[f] \cup Rows(S) /\ running'[f] = T
        /\ \A g \in Fetches \ {f} : running'[g] = running[g] /\ fetched'[g] = fetched[g]
    BY <1>0, <1>6 DEF TypeOK
  <2>3. QED
    BY <1>6, <2>1, <2>2
<1>7. ASSUME NEW f \in Fetches, Collect(f) PROVE CountInv'
  <2>1. /\ UNCHANGED <<pc, want, claimed, shared, stored, left, requested, memory_hits, disk_hits>>
        /\ running' = [running EXCEPT ![f] = running[f] \ Woken(f)]
        /\ fetched' = [fetched EXCEPT ![f] = fetched[f] \cup Rows(Woken(f))]
    BY <1>7 DEF Collect, countVars
  <2>2. Woken(f) \subseteq running[f] /\ running[f] \ Woken(f) \subseteq running[f]
    BY DEF Woken
  <2>3. \A g \in Fetches :
               fetched'[g] \cup left'[g] \cup Rows(running'[g])
                   \subseteq fetched[g] \cup left[g] \cup Rows(running[g])
    BY <1>6, <2>1, <2>2
  <2>4. QED
    BY <1>1, <2>1, <2>3
<1>8. ASSUME NEW f \in Fetches, CollectFails(f) PROVE CountInv'
  <2>1. PICK bad \in Woken(f), read \in SUBSET Woken(f) :
          /\ fetched' = [fetched EXCEPT ![f] = fetched[f] \cup Rows(read)]
          /\ running' = [running EXCEPT ![f] = {}]
          /\ pc' = [pc EXCEPT ![f] = "unwind"]
    BY <1>8 DEF CollectFails, Unwind
  <2>2. /\ UNCHANGED <<want, claimed, shared, stored, left, requested, memory_hits, disk_hits>>
        /\ pc[f] = "window"
    BY <1>8 DEF CollectFails, countVars, Woken
  <2>3. read \subseteq running[f] /\ {} \subseteq running[f]
    BY DEF Woken
  <2>4. \A g \in Fetches :
               fetched'[g] \cup left'[g] \cup Rows(running'[g])
                   \subseteq fetched[g] \cup left[g] \cup Rows(running[g])
    BY <1>6, <2>1, <2>2, <2>3
  <2>5. \A g \in Fetches : /\ pc'[g] = "returned" <=> pc[g] = "returned"
                           /\ pc'[g] = "new" => pc[g] = "new"
    BY <1>0, <2>1, <2>2 DEF TypeOK
  <2>6. QED
    BY <1>1, <2>2, <2>4, <2>5
<1>9. ASSUME NEW f \in Fetches, SubmitRefused(f) PROVE CountInv'
  <2>1. /\ UNCHANGED <<want, claimed, shared, stored, fetched, left, requested, memory_hits, disk_hits>>
        /\ pc[f] = "window" /\ pc' = [pc EXCEPT ![f] = "unwind"]
        /\ running' = [running EXCEPT ![f] = {}]
    BY <1>9 DEF SubmitRefused, Unwind, MaySubmit, countVars
  <2>2. Rows({}) = {}
    BY DEF Rows
  <2>3. \A g \in Fetches : /\ pc'[g] = "returned" <=> pc[g] = "returned"
                           /\ pc'[g] = "new" => pc[g] = "new"
                           /\ running'[g] = running[g] \/ running'[g] = {}
    BY <1>0, <2>1 DEF TypeOK
  <2>4. QED
    BY <1>1, <2>1, <2>2, <2>3
<1>10. ASSUME NEW f \in Fetches, Refuse(f) \/ WindowDone(f) \/ Release(f) \/ Answer(f) \/ AwaitFails(f)
       PROVE  CountInv'
  <2>1. UNCHANGED <<want, claimed, shared, stored, fetched, left, running, requested, memory_hits, disk_hits>>
    BY <1>10 DEF Refuse, WindowDone, Release, Answer, AwaitFails, countVars
  <2>2. /\ \E step \in Steps \ {"new", "returned"} : pc' = [pc EXCEPT ![f] = step]
        /\ pc[f] # "returned"
    BY <1>10 DEF Refuse, WindowDone, Release, Answer, AwaitFails, Steps
  <2>3. \A g \in Fetches : /\ pc'[g] = "returned" <=> pc[g] = "returned"
                           /\ pc'[g] = "new" => pc[g] = "new"
    BY <1>0, <2>2 DEF TypeOK
  <2>4. QED
    BY <1>1, <2>1, <2>3
<1>11. ASSUME UNCHANGED <<fetchVars, countVars>> PROVE CountInv'
  BY <1>1, <1>11 DEF fetchVars, countVars
<1>12. ASSUME NEW w \in Workers, RequestStep(w) PROVE CountInv'
  BY <1>11, <1>12 DEF RequestStep, TakeRequest, StartRequest, Admit, AdmitRefused, Send, Respond, sourceVars
<1>13. CASE LoseEntry \/ CloseBegins \/ CloseStep \/ UNCHANGED vars
  BY <1>11, <1>13 DEF LoseEntry, CloseBegins, CloseStep, ClosePool, CloseJoins, CloseEnds, vars,
                      sourceVars
<1>14. QED
  BY <1>2, <1>3, <1>4, <1>5, <1>7, <1>8, <1>9, <1>10, <1>12, <1>13 DEF Next, FetchStep

\* ContextCounts: every key of every fetch is counted as what answered it, and once.
THEOREM CountsCorrect == Spec => []CountsAgree
<1>1. Init => CountInv
  <2> SUFFICES ASSUME Init PROVE CountInv
    OBVIOUS
  <2>1. \A f \in Fetches : Shared(f) = {}
    BY DEF Init, Shared, Unclaimed
  <2>2. Asked = {} /\ Hits = {}
    BY DEF Init, Asked, Hits, KeysOf
  <2>3. ReadHere = {} /\ ReadThere = {}
    BY DEF Init, ReadHere, ReadThere
  <2>4. \A f \in Fetches : want[f] = <<>> /\ claimed[f] = {} /\ stored[f] = {}
    BY DEF Init
  <2>5. QED
    BY <2>1, <2>2, <2>3, <2>4, FS_EmptySet DEF CountInv, Init
<1>2. IInv /\ SentInv /\ CountInv /\ [Next]_vars => CountInv'
  BY CountStep DEF SentInv
<1>3. IInv /\ SentInv /\ CountInv => CountsAgree
  <2> SUFFICES ASSUME IInv, AskedFor, CountInv PROVE CountsAgree
    BY DEF SentInv
  <2> DEFINE C(S) == Cardinality(S)
             Answered == Hits \cup (ReadHere \cup ReadThere)
  <2>1. /\ Hits \cap (ReadHere \cup ReadThere) = {} /\ ReadHere \cap ReadThere = {}
        /\ IsFiniteSet(Hits) /\ IsFiniteSet(ReadHere) /\ IsFiniteSet(ReadThere)
        /\ Answered \subseteq Asked
    BY PairsDisjoint
  <2>2. IsFiniteSet(ReadHere \cup ReadThere)
        /\ C(ReadHere \cup ReadThere) = C(ReadHere) + C(ReadThere)
    BY <2>1, DisjointUnion
  <2>3. IsFiniteSet(Answered) /\ C(Answered) = C(Hits) + C(ReadHere \cup ReadThere)
    BY <2>1, <2>2, DisjointUnion
  <2>4. /\ C(Hits) \in Nat /\ C(ReadHere) \in Nat /\ C(ReadThere) \in Nat /\ C(Asked) \in Nat
        /\ C(Answered) \in Nat
    BY <2>1, <2>3, FS_CardinalityType DEF CountInv
  <2>5. C(Answered) = memory_hits + disk_hits
    BY <2>2, <2>3, <2>4 DEF CountInv
  <2>6. C(Answered) <= C(Asked)
    BY <2>1, FS_Subset DEF CountInv
  <2>7. memory_hits + disk_hits <= requested
    BY <2>5, <2>6 DEF CountInv
  <2>8. ASSUME \A f \in Fetches : pc[f] \in {"new", "returned"}
        PROVE  requested = memory_hits + disk_hits + C(Requested)
    <3>1. ASSUME NEW f \in Fetches, NEW k \in Contexts
          PROVE  /\ <<f, k>> \in Asked <=> <<f, k>> \in Answered \cup Requested
                 /\ ~(<<f, k>> \in Answered /\ <<f, k>> \in Requested)
      <4>1. /\ <<f, k>> \in Asked <=> k \in KeysOf(want[f])
            /\ <<f, k>> \in Hits <=> k \in KeysOf(want[f]) /\ k \notin claimed[f] /\ k \notin Shared(f)
            /\ <<f, k>> \in ReadHere <=> k \in stored[f]
            /\ <<f, k>> \in ReadThere <=>
                 pc[f] = "returned" /\ k \in Shared(f) /\ k \in stored[shared[f][k]]
            /\ <<f, k>> \in Requested <=>
                 k \in fetched[f] \/ (k \in Shared(f) /\ k \in fetched[shared[f][k]])
        BY DEF Asked, Hits, ReadHere, ReadThere, Requested
      <4>2. /\ stored[f] \cap fetched[f] = {} /\ claimed[f] \cap Shared(f) = {}
            /\ stored[f] \cup fetched[f] \subseteq claimed[f]
            /\ claimed[f] \subseteq KeysOf(want[f]) /\ Shared(f) \subseteq KeysOf(want[f])
        BY DEF CountInv, IInv, KeysAccounted, Obtained, AskedFor
      <4>3. CASE pc[f] = "new"
        <5>1. KeysOf(want[f]) = {}
          BY <4>3 DEF CountInv, KeysOf
        <5>2. QED
          BY <4>1, <4>2, <5>1
      <4>4. CASE pc[f] = "returned"
        <5>1. claimed[f] = stored[f] \cup fetched[f]
          BY <4>4 DEF IInv, KeysAccounted, Obtained
        <5>2. k \in Shared(f) =>
                /\ k \in stored[shared[f][k]] \cup fetched[shared[f][k]]
                /\ stored[shared[f][k]] \cap fetched[shared[f][k]] = {}
          <6> SUFFICES ASSUME k \in Shared(f)
                       PROVE  /\ k \in stored[shared[f][k]] \cup fetched[shared[f][k]]
                              /\ stored[shared[f][k]] \cap fetched[shared[f][k]] = {}
            OBVIOUS
          <6>1. shared[f][k] \in Fetches
            BY DEF Shared, IInv, TypeOK
          <6>2. k \in claimed[shared[f][k]] /\ claim[shared[f][k]] = "answered"
            BY <4>4 DEF IInv, SharedClaimed
          <6>3. QED
            BY <6>1, <6>2 DEF IInv, KeysAccounted, Obtained, CountInv
        <5>3. QED
          BY <4>1, <4>2, <4>4, <5>1, <5>2
      <4>5. QED
        BY <2>8, <4>3, <4>4
    <3>2. Asked \subseteq Fetches \X Contexts /\ Answered \subseteq Fetches \X Contexts
          /\ Requested \subseteq Fetches \X Contexts
      BY <2>1 DEF Asked, Requested
    <3> HIDE DEF Answered
    <3>3. Asked = Answered \cup Requested /\ Answered \cap Requested = {}
      BY <3>1, <3>2
    <3>4. IsFiniteSet(Requested)
      BY <3>3, FS_Subset DEF CountInv
    <3>5. C(Asked) = C(Answered) + C(Requested)
      BY <2>3, <3>3, <3>4, DisjointUnion
    <3>6. QED
      BY <2>5, <3>5 DEF CountInv
  <2>9. QED
    BY <2>7, <2>8 DEF CountsAgree
<1>4. QED
  BY <1>1, <1>2, <1>3, InvCorrect, SentCorrect, PTL DEF Spec

-------------------------------------------------------------------------------
(* The refinement of SharedReads: the initial states of the source are initial states of  *)
(* SharedReads, and every step of a fetch, a worker, the disk or close is a step of       *)
(* SharedReads or none.                                                                   *)

Verdict == [f \in Fetches |-> IF pc[f] = "answer" THEN "answered" ELSE claim[f]]
Awaits == [f \in Fetches |-> {shared[f][k] : k \in Shared(f)}]
Stage == [f \in Fetches |-> StageOf(pc[f])]

\* What a step of the source does to the state SharedReads sees.
SeenSame == inflight' = inflight /\ Verdict' = Verdict /\ Awaits' = Awaits /\ Stage' = Stage

\* The steps that leave the fetches alone change nothing SharedReads sees.
LEMMA QuietSeen ==
    ASSUME Quiet
    PROVE  SeenSame
BY DEF Quiet, fetchVars, SeenSame, Verdict, Awaits, Stage, Shared

\* Initial states map to initial states.
LEMMA InitReads == Init => Reads!Init
<1> SUFFICES ASSUME Init PROVE Reads!Init
  OBVIOUS
<1>1. inflight = [k \in Contexts |-> NoFetch]
  BY DEF Init, Unclaimed
<1>2. Verdict = [f \in Fetches |-> "open"]
  BY DEF Init, Verdict
<1>3. Awaits = [f \in Fetches |-> {}]
  BY DEF Init, Awaits, Shared, Unclaimed
<1>4. Stage = [f \in Fetches |-> "new"]
  BY DEF Init, Stage, StageOf
<1>5. QED
  BY <1>1, <1>2, <1>3, <1>4 DEF Reads!Init, Reads!Undecided, Verdict, Awaits, Stage

\* The stages of the other fetches stay when only the pc of f changes.
LEMMA StageMoves ==
    ASSUME TypeOK, NEW f \in Fetches, NEW step \in Steps, pc' = [pc EXCEPT ![f] = step]
    PROVE  Stage' = [Stage EXCEPT ![f] = StageOf(step)]
BY DEF TypeOK, Stage

\* Claiming keys is Ask.
LEMMA BeginReads ==
    ASSUME IInv, NEW f \in Fetches, Begin(f)
    PROVE  Reads!Ask(f)
<1> USE DEF IInv, TypeOK
<1>1. PICK keys \in KeyLists :
        LET hits == Held(keys)
            others == {k \in KeysOf(keys) \ hits : inflight[k] # NoFetch}
            mine == (KeysOf(keys) \ hits) \ others
        IN /\ shared' = [shared EXCEPT
                ![f] = [k \in Contexts |-> IF k \in others THEN inflight[k] ELSE NoFetch]]
           /\ inflight' = [k \in Contexts |-> IF k \in mine THEN f ELSE inflight[k]]
  BY DEF Begin
<1> DEFINE met == {k \in KeysOf(keys) \ Held(keys) : inflight[k] # NoFetch}
           mine == (KeysOf(keys) \ Held(keys)) \ met
           others == {inflight[k] : k \in met}
<1>2. met \subseteq Contexts /\ mine \subseteq Contexts
  BY KeysOfIn
<1>3. /\ mine \in SUBSET {k \in Contexts : inflight[k] = NoFetch}
      /\ inflight' = [k \in Contexts |-> IF k \in mine THEN f ELSE inflight[k]]
  BY <1>1, <1>2
<1>4. /\ others \in SUBSET {inflight[k] : k \in Contexts} /\ NoFetch \notin others
  BY <1>2
<1>5. \A k \in Contexts : shared'[f][k] = IF k \in met THEN inflight[k] ELSE NoFetch
  BY <1>1
<1> HIDE DEF mine, met
<1>6. \A k \in met : inflight[k] # NoFetch
  BY DEF met
<1>7. Shared(f)' = met
  BY <1>2, <1>5, <1>6 DEF Shared
<1>8. {shared'[f][k] : k \in Shared(f)'} = others
  <2>1. \A k \in met : shared'[f][k] = inflight[k]
    BY <1>2, <1>5
  <2>2. {shared'[f][k] : k \in Shared(f)'} = {shared'[f][k] : k \in met}
    BY <1>7
  <2>3. {shared'[f][k] : k \in met} = {inflight[k] : k \in met}
    <3>1. \A x : x \in {shared'[f][k] : k \in met} <=> \E k \in met : x = shared'[f][k]
      BY Zenon
    <3>2. \A x : x \in {inflight[k] : k \in met} <=> \E k \in met : x = inflight[k]
      BY Zenon
    <3>3. \A x : x \in {shared'[f][k] : k \in met} <=> x \in {inflight[k] : k \in met}
      BY <2>1, <3>1, <3>2
    <3>4. QED
      BY <3>3, Zenon
  <2>4. QED
    BY <2>2, <2>3, Zenon
<1>9. \A g \in Fetches \ {f} : shared'[g] = shared[g]
  BY DEF Begin
<1>10. Awaits' = [Awaits EXCEPT ![f] = others]
  <2>1. \A g \in Fetches \ {f} : Shared(g)' = Shared(g)
    BY <1>9 DEF Shared
  <2>2. Awaits' = [g \in Fetches |-> {shared'[g][k] : k \in Shared(g)'}]
    BY DEF Awaits
  <2>3. \A g \in Fetches \ {f} : {shared'[g][k] : k \in Shared(g)'} = Awaits[g]
    BY <1>9, <2>1 DEF Awaits
  <2>4. QED
    <3>1. Awaits'[f] = others
      BY <1>8, <2>2
    <3>2. \A g \in Fetches \ {f} : Awaits'[g] = Awaits[g]
      BY <2>2, <2>3
    <3>3. DOMAIN Awaits' = Fetches /\ DOMAIN Awaits = Fetches
      BY DEF Awaits
    <3>4. Awaits' = [g \in Fetches |-> Awaits'[g]]
      BY <2>2
    <3> HIDE DEF others
    <3>5. QED
      BY <3>1, <3>2, <3>3, <3>4
<1>11. pc' = [pc EXCEPT ![f] = "disk"] /\ pc[f] = "new" /\ claim' = claim
  BY DEF Begin
<1>12. Verdict' = Verdict
  BY <1>11 DEF Verdict
<1>13. Stage[f] = "new" /\ Stage' = [Stage EXCEPT ![f] = "reading"]
  BY <1>11 DEF Stage, StageOf
<1>14. QED
  BY <1>3, <1>4, <1>10, <1>12, <1>13 DEF Reads!Ask, Reads!Moves, Stage, Awaits, Verdict

\* A refusal is Refuse.
LEMMA RefuseReads ==
    ASSUME IInv, NEW f \in Fetches, Refuse(f)
    PROVE  Reads!Refuse(f)
<1> USE DEF IInv, TypeOK
<1>1. /\ pc' = [pc EXCEPT ![f] = "raised"] /\ pc[f] = "new"
      /\ UNCHANGED <<claim, shared, inflight>>
  BY DEF Refuse
<1>2. Verdict' = Verdict /\ Awaits' = Awaits
  BY <1>1 DEF Verdict, Awaits, Shared
<1>3. Stage[f] = "new" /\ Stage' = [Stage EXCEPT ![f] = "raised"]
  BY <1>1 DEF Stage, StageOf
<1>4. QED
  BY <1>1, <1>2, <1>3 DEF Reads!Refuse, Reads!Moves, Stage, Awaits, Verdict

\* Reading the disk, submitting, collecting and the verdict itself change nothing seen.
LEMMA InnerReads ==
    ASSUME IInv, NEW f \in Fetches,
           ReadDisk(f) \/ SubmitBlock(f) \/ Collect(f) \/ WindowDone(f) \/ Answer(f)
    PROVE  SeenSame
<1> USE DEF IInv, TypeOK
<1>1. UNCHANGED <<inflight, shared>>
  BY DEF ReadDisk, SubmitBlock, Collect, WindowDone, Answer
<1>2. \A g \in Fetches : StageOf(pc'[g]) = StageOf(pc[g])
  BY DEF ReadDisk, SubmitBlock, Collect, WindowDone, Answer, StageOf
<1>3. \A g \in Fetches : (IF pc'[g] = "answer" THEN "answered" ELSE claim'[g])
                           = (IF pc[g] = "answer" THEN "answered" ELSE claim[g])
  BY DEF ReadDisk, SubmitBlock, Collect, WindowDone, Answer
<1>4. QED
  BY <1>1, <1>2, <1>3 DEF SeenSame, Verdict, Awaits, Stage, Shared

\* Failing the claim is Fail.
LEMMA UnwindReads ==
    ASSUME IInv, NEW f \in Fetches, SubmitRefused(f) \/ CollectFails(f)
    PROVE  Reads!Fail(f)
<1> USE DEF IInv, TypeOK
<1>1. /\ pc' = [pc EXCEPT ![f] = "unwind"] /\ pc[f] = "window"
      /\ claim' = [claim EXCEPT ![f] = "failed"]
      /\ UNCHANGED <<shared, inflight>>
  BY DEF SubmitRefused, CollectFails, Unwind, MaySubmit, Woken
<1>2. Verdict' = [Verdict EXCEPT ![f] = "failed"] /\ Awaits' = Awaits
  <2>1. Awaits' = Awaits
    BY <1>1 DEF Awaits, Shared
  <2>2. /\ Verdict' = [g \in Fetches |-> IF pc'[g] = "answer" THEN "answered" ELSE claim'[g]]
        /\ Verdict = [g \in Fetches |-> IF pc[g] = "answer" THEN "answered" ELSE claim[g]]
    BY DEF Verdict
  <2>3. QED
    BY <1>1, <2>1, <2>2
<1>3. Stage[f] = "reading" /\ Stage' = [Stage EXCEPT ![f] = "failing"]
  BY <1>1 DEF Stage, StageOf
<1>4. QED
  BY <1>1, <1>2, <1>3 DEF Reads!Fail, Reads!Moves, Stage, Awaits, Verdict

\* Releasing the claims is Publish for a fetch that succeeded and GiveUp for one that failed.
LEMMA ReleaseReads ==
    ASSUME IInv, NEW f \in Fetches, Release(f)
    PROVE  Reads!Publish(f) \/ Reads!GiveUp(f)
<1> USE DEF IInv, TypeOK
<1>1. inflight' = [k \in Contexts |-> IF inflight[k] = f THEN NoFetch ELSE inflight[k]]
  BY DEF Release, ClaimTable
<1>2. claim' = claim /\ shared' = shared
  BY DEF Release
<1>3. Awaits' = Awaits
  BY <1>2 DEF Awaits, Shared
<1>4. CASE pc[f] = "release"
  <2>1. pc' = [pc EXCEPT ![f] = "answer"]
    BY <1>4 DEF Release
  <2>2. Verdict' = [Verdict EXCEPT ![f] = "answered"]
    BY <1>2, <2>1 DEF Verdict
  <2>3. Stage[f] = "reading" /\ Stage' = [Stage EXCEPT ![f] = "waiting"]
    BY <1>4, <2>1 DEF Stage, StageOf
  <2>4. QED
    BY <1>1, <1>3, <2>2, <2>3
       DEF Reads!Publish, Reads!Free, Reads!Moves, Stage, Awaits, Verdict
<1>5. CASE pc[f] = "unwind"
  <2>1. pc' = [pc EXCEPT ![f] = "raised"]
    BY <1>5 DEF Release
  <2>2. Verdict' = Verdict
    BY <1>2, <1>5, <2>1 DEF Verdict
  <2>3. Stage[f] = "failing" /\ Stage' = [Stage EXCEPT ![f] = "raised"]
    BY <1>5, <2>1 DEF Stage, StageOf
  <2>4. QED
    BY <1>1, <1>3, <2>2, <2>3
       DEF Reads!GiveUp, Reads!Free, Reads!Moves, Stage, Awaits, Verdict
<1>6. QED
  BY <1>4, <1>5 DEF Release

\* Returning is Return and raising an awaited error is Raise.
LEMMA EndReads ==
    ASSUME IInv, NEW f \in Fetches
    PROVE  /\ Return(f) => Reads!Return(f)
           /\ AwaitFails(f) => Reads!Raise(f)
<1> USE DEF IInv, TypeOK
<1>1. \A g \in Fetches : claim[g] # "open" => Verdict[g] = claim[g]
  BY DEF ClaimFits, Verdict
<1>2. \A k \in Shared(f) : shared[f][k] \in Fetches
  BY DEF Shared
<1>3. ASSUME Return(f) PROVE Reads!Return(f)
  <2>1. /\ pc' = [pc EXCEPT ![f] = "returned"] /\ pc[f] = "await"
        /\ UNCHANGED <<claim, shared, inflight>>
        /\ \A k \in Shared(f) : claim[shared[f][k]] = "answered"
    BY <1>3 DEF Return
  <2>2. Verdict' = Verdict /\ Awaits' = Awaits
    BY <2>1 DEF Verdict, Awaits, Shared
  <2>3. Stage[f] = "waiting" /\ Stage' = [Stage EXCEPT ![f] = "returned"]
    BY <2>1 DEF Stage, StageOf
  <2>4. \A other \in Awaits[f] : Verdict[other] = "answered"
    BY <1>1, <1>2, <2>1 DEF Awaits
  <2>5. QED
    BY <2>1, <2>2, <2>3, <2>4 DEF Reads!Return, Reads!Moves, Stage, Awaits, Verdict
<1>4. ASSUME AwaitFails(f) PROVE Reads!Raise(f)
  <2>1. /\ pc' = [pc EXCEPT ![f] = "raised"] /\ pc[f] = "await"
        /\ UNCHANGED <<claim, shared, inflight>>
        /\ \E k \in Shared(f) : claim[shared[f][k]] = "failed"
    BY <1>4 DEF AwaitFails
  <2>2. Verdict' = Verdict /\ Awaits' = Awaits
    BY <2>1 DEF Verdict, Awaits, Shared
  <2>3. Stage[f] = "waiting" /\ Stage' = [Stage EXCEPT ![f] = "raised"]
    BY <2>1 DEF Stage, StageOf
  <2>4. \E other \in Awaits[f] : Verdict[other] = "failed"
    BY <1>1, <1>2, <2>1 DEF Awaits
  <2>5. QED
    BY <2>1, <2>2, <2>3, <2>4 DEF Reads!Raise, Reads!Moves, Stage, Awaits, Verdict
<1>5. QED
  BY <1>3, <1>4

\* Every step of the source is a step of SharedReads or leaves what it sees unchanged.
LEMMA NextReads ==
    ASSUME IInv, [Next]_vars
    PROVE  [Reads!Next]_Reads!readVars
<1>1. SeenSame => UNCHANGED Reads!readVars
  BY DEF SeenSame, Reads!readVars, Verdict, Awaits, Stage
<1>2. ASSUME NEW f \in Fetches, Begin(f) \/ Refuse(f) \/ FetchStep(f)
      PROVE  [Reads!Next]_Reads!readVars
  <2>1. CASE Begin(f) \/ Refuse(f)
    BY <2>1, BeginReads, RefuseReads DEF Reads!Next
  <2>2. CASE SubmitRefused(f) \/ CollectFails(f) \/ Release(f) \/ Return(f) \/ AwaitFails(f)
    BY <2>2, UnwindReads, ReleaseReads, EndReads DEF Reads!Next, Reads!Proceeds
  <2>3. CASE ReadDisk(f) \/ SubmitBlock(f) \/ Collect(f) \/ WindowDone(f) \/ Answer(f)
    BY <2>3, <1>1, InnerReads
  <2>4. QED
    BY <1>2, <2>1, <2>2, <2>3 DEF FetchStep
<1>3. ASSUME NEW w \in Workers, RequestStep(w) PROVE [Reads!Next]_Reads!readVars
  BY <1>1, <1>3, RequestQuiet, QuietSeen DEF IInv
<1>4. CASE LoseEntry \/ CloseBegins \/ CloseStep \/ UNCHANGED vars
  BY <1>1, <1>4, RequestQuiet, QuietSeen DEF IInv
<1>5. QED
  BY <1>2, <1>3, <1>4 DEF Next

\* Callers of the source may rely on SharedReads: whatever interleaving of fetches,
\* workers, failures, evictions and close the source goes through.
THEOREM SourceImplementsReads == Spec => ImplementsSharedReads
<1>1. Init => Reads!Init
  BY InitReads
<1>2. IInv /\ [Next]_vars => [Reads!Next]_Reads!readVars
  BY NextReads
<1>3. QED
  BY <1>1, <1>2, InvCorrect, PTL DEF Spec, Reads!SafeSpec, ImplementsSharedReads
===============================================================================
