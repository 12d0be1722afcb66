----------------------------- MODULE ContextQuery -----------------------------
(***************************************************************************)
(* One request of a context source: query_context_split of                 *)
(* tigergraph/context_query.py, on top of the executor.                    *)
(*                                                                         *)
(* A block of contexts is one call of the executor.  When TigerGraph times *)
(* out on it, it is halved and its halves are requested one after the      *)
(* other, down to single contexts.  Another thread makes its own calls     *)
(* meanwhile: it shares the executor's backoff and nothing else.           *)
(***************************************************************************)
EXTENDS QueryExecutor, Sequences, SequencesExt

CONSTANTS
    Block,   \* the contexts of the request: a sequence of distinct keys
    Others   \* the calls of another thread, one after the other: a sequence

\* A part of the block is the interval of its positions.
Parts == {p \in (1..Len(Block)) \X (1..Len(Block)) : p[1] <= p[2]}

Calls == Parts \cup Range(Others)

Size(p) == p[2] - p[1] + 1

Keys(p) == SubSeq(Block, p[1], p[2])

\* query_context_rows: a block of several keys is not repeated when it times out.
ASSUME RequestAssumption ==
    /\ Block \in Seq(Range(Block)) /\ Len(Block) > 0 /\ IsInjective(Block)
    /\ Others \in Seq(Range(Others)) /\ IsInjective(Others) /\ Range(Others) \cap Parts = {}
    /\ Ops = Calls
    /\ \A p \in Parts :
         /\ Attempts[p] = NoCap
         /\ TimeoutRetries[p] = IF Size(p) > 1 THEN 0 ELSE 1

VARIABLES
    todo,    \* the parts still to request, in order: the recursion's stack
    rows,    \* the rows of the parts before them, a row standing for its key
    verdict  \* what became of the request: "open", "answered" or its error

requestVars == <<todo, rows, verdict>>
queryVars == <<vars, requestVars>>

QueryInit ==
    /\ Init
    /\ todo = <<<<1, Len(Block)>>>>
    /\ rows = <<>>
    /\ verdict = "open"

\* The part under way, while the request is.
Part == Head(todo)

\* TigerGraph answers each key once, with a row that has the key's index, in any order:
\* the index of the row that comes i-th.
Answers(n) == Bijection(0..(n - 1), 0..(n - 1))

\* indexed_rows: the row of each key, by its index.
IndexedRows(p, answer) ==
    LET row(i) == Keys(p)[answer[i] + 1]
    IN [i \in 1..Size(p) |-> row(AntiFunction(answer)[i - 1])]

\* The call returned and its rows pass their checks.
PartAnswered ==
    /\ at[Part] = "returned"
    /\ \E answer \in Answers(Size(Part)) : rows' = rows \o IndexedRows(Part, answer)
    /\ todo' = Tail(todo)
    /\ verdict' = IF todo' = <<>> THEN "answered" ELSE "open"

\* An answer that is incomplete, duplicated or of other contexts, or an error the executor
\* gave up on, is the request's error.
PartFailed ==
    /\ at[Part] \in {"returned", "unavailable", "transient", "permanent"}
    /\ verdict' = "failed"
    /\ UNCHANGED <<todo, rows>>

TimedOut(p) == at[p] = "server_timeout"

\* A single context that keeps timing out is named by the error.
KeyTimedOut ==
    /\ TimedOut(Part)
    /\ Size(Part) = 1
    /\ verdict' = "timed_out"
    /\ UNCHANGED <<todo, rows>>

Halves(left, right) == todo' = <<left, right>> \o Tail(todo)

\* Mutant: the halves are requested the wrong way round.
SplitSwapped ==
    /\ TimedOut(Part)
    /\ Size(Part) > 1
    /\ LET middle == Part[1] + Size(Part) \div 2
       IN Halves(<<middle, Part[2]>>, <<Part[1], middle - 1>>)
    /\ UNCHANGED <<rows, verdict>>

\* bisected: the left half, then the right one.
Split ==
    /\ TimedOut(Part)
    /\ Size(Part) > 1
    /\ LET middle == Part[1] + Size(Part) \div 2
       IN Halves(<<Part[1], middle - 1>>, <<middle, Part[2]>>)
    /\ UNCHANGED <<rows, verdict>>

RequestStep ==
    /\ verdict = "open"
    /\ PartAnswered \/ PartFailed \/ KeyTimedOut \/ Split
    /\ UNCHANGED vars

\* A call begins when its turn comes: the part under way, the other thread's next one.
RequestBegins == verdict = "open" /\ Begin(Part)

OtherBegins ==
    \E i \in DOMAIN Others :
        /\ \A j \in 1..(i - 1) : at[Others[j]] \in Over
        /\ Begin(Others[i])

ExecutorStep ==
    /\ \/ RequestBegins
       \/ OtherBegins
       \/ \E o \in Active : Attempt(o) \/ Respond(o)
       \/ Tick
    /\ UNCHANGED requestVars

QueryNext == ExecutorStep \/ RequestStep

\* What a thread does as soon as it may.
Prompt(o) == Attempt(o) \/ (Due(o) /\ Respond(o))

RequestThread ==
    \/ RequestStep
    \/ UNCHANGED requestVars /\ (RequestBegins \/ \E p \in Active \cap Parts : Prompt(p))

OtherThread == UNCHANGED requestVars /\ \E o \in Active \ Parts : Prompt(o)

\* Both threads are scheduled, time passes, and every attempt ends.
QueryFairness ==
    /\ WF_queryVars(RequestThread)
    /\ WF_queryVars(OtherThread)
    /\ WF_queryVars(Tick /\ UNCHANGED requestVars)

QuerySpec == QueryInit /\ [][QueryNext]_queryVars /\ QueryFairness

-------------------------------------------------------------------------------
(* Properties. *)

\* query_context_rows, bisected: however the block was split and in whatever order the
\* rows of a call came, the rows answered are those of the block's keys in their order; the
\* source zips them with its keys.
RowsInOrder ==
    /\ IsPrefix(rows, Block)
    /\ verdict = "answered" => rows = Block

\* A request is answered or fails and every call of the executor ends, whatever times out
\* and whatever the other thread meets.
RequestEnds == <>(verdict # "open") /\ OperationsEnd
===============================================================================
