# MulePatternLearner in TLA+

TLA+ modules of the parts of MulePatternLearner whose correctness depends on the order
things happen in, and of those whose data decides what a model may know: threads that
stream contexts from a database, retries that share a backoff, commands that prepare a
graph other commands share, runs whose files must survive a process that dies anywhere,
labels that must not reach a date before the mule was found. `PROJECT.json` lists the
components, the runs, the source lines every definition stands for, the hazards, the
mutants and the theorems.

Sources are named below relative to `src/src/mule_pattern_learner/`, documents and tests to `src/`.

## The system

The program trains graph models that score bank accounts as mules, from a TigerGraph
database. One command prepares a frozen dataset and trains on it, others audit a run,
score accounts with it or study it; a suite repeats training and audits over variants and
seeds. Its moving parts, from the outside in:

    experiments/runner.py, tables.py   a suite: plan, archive, train, audit, compare
      pipeline/prepare.py              a dataset: installation, scope, labels, stages
        tigergraph/{installer,scope,reveal}.py, data/preparation.py
      training/trainer.py              a run: epochs, resume.pt, history.csv, metrics.json
      evaluation/audit.py, inference/score_accounts.py, diagnostics/study.py
        runtime/workers.py             BatchPrefetcher: builds batches on a DaemonPool
          batching/assemble.py         one batch: hubs, draws, stubs, children, positions
            data/contexts.py           ContextSource: fetch, shared by the builders
              data/context_cache.py    MemoryTier (LRU), DiskTier
              runtime/workers.py       DaemonPool of request threads
                tigergraph/context_query.py   one block, halved when it times out
                  tigergraph/executor.py      retries, budgets, a shared backoff
                  tigergraph/render.py        the query that answers it

A builder thread of the prefetcher calls `fetch`; the fetch submits blocks to the source's
pool; a thread of that pool calls the executor; the executor sleeps on the backoff that all
its threads share. What crosses these boundaries is a future. Commands meet in the graph
(queries, types, scope, labels) and in files (dataset, run, audits, study) only, and files
alone survive a process.

### Inventory

| Component | State | Operations | Hard behaviour | What makes it correct |
|---|---|---|---|---|
| DaemonPool | queue, threads, futures, shutdown flag | submit, shutdown, worker loop | cancel against take, several shutdowns, a sentinel per thread | nothing waits for ever |
| BatchPrefetcher | pending builds, the iteration, stopped | fill, await, cancel, close | builds end in any order, errors, break, Ctrl-C | input order, an error at its item |
| ContextSource | claims in `_inflight`, a window per fetch, counters, closed | fetch, close | threads share claims and a bounded pool; partial failures; close | one request per context, every row returned, no hang |
| Context caches | OrderedDict; entries on disk | get, put, evict | eviction while others publish, entries that vanish | what is missing is asked for again, by one fetch |
| TigerGraphExecutor | `_backoff_until`, per-call counters | `_retry`, classification of errors | several threads extend one backoff; four budgets on one clock | pauses, attempts and outages bounded |
| Context query | the recursion's stack | query, bisection on timeouts | order of the halves' rows, other threads' pauses | rows line up with their keys |
| Training run | `_TrainingRun`, `config.json`, `resume.pt`, `history.csv`, `epochs.csv`, model, predictions, `metrics.json` | train, resume, log, save, select, finish | a death between any two writes; other intervals and limits after it | a resumed run equals one that nothing interrupted |
| Suite | run directories, archive, plan, tables | plan, archive, train, audit, compare | an outage or a change of settings half way | a table holds what this plan produced |
| Preparation | `manifest.json`, `accounts.parquet`, the graph's scope and labels | find, prepare, resume, the gate of a run | deaths between stages, several configurations on one graph that grows | a run reads one graph, as its dataset was prepared from it |
| Installer | queries, endpoints, types on the server | install, replace types, verify | a client that gives up while the server compiles | what is verified is linked from current texts |
| Scope, label reveal | scope vertices, label fields | create and finalise, reveal, verify | two writes, labels shared by configurations | labels of the run's own reveal |
| Context and hub queries | accumulators that outlive a request | answer a call of many requests | late entries, ties, rejected requests | rows of a context depend on its key and the past |
| Batch assembly, sampling | rows, draws, positions | fetch, draw, stub, assemble | hubs reached at several moments, packed indices, a GPU library that may err | every slot holds what was drawn for it |
| Label flow | revealed, observed, visible labels | reveal, keep, draw, evaluate, audit | dates of discovery, availability and cutoffs | no label of the future |
| Scoring, audits | files, counters of the source | score, evaluate | errors, Ctrl-C and kills between files | complete files that belong together |
| Study (`mule diagnose`) | tables, `study.json`, what the call has read | analyse, record | failures half way, a source that changes | `study.json` tells what the tables are |
| Comparison | audits, generators, tables | pair, resample, summarise | other accounts rejected in each audit, rings, seeds | differences are the rankings' |
| Data contract, models, loss, console, reports, figures | none, tensors, text | arithmetic and layout | none of order | their numbers |

## The modules

| Module | Models | Uses |
|---|---|---|
| `DaemonPool` | `runtime/workers.py` DaemonPool and the CPython futures it relies on | |
| `MemoryTier` | `data/context_cache.py` MemoryTier | |
| `ContextSource` | `data/contexts.py` with its pool, LRU and disk | DaemonPool, MemoryTier, SharedReads |
| `SharedReads` | what a ContextSource promises the threads that share it | |
| `QueryExecutor` | `tigergraph/executor.py` | |
| `ContextQuery` | `tigergraph/context_query.py`, one block beside another thread's calls | QueryExecutor |
| `BatchPrefetcher` | `runtime/workers.py` BatchPrefetcher | DaemonPool |
| `Scoring` | `mule score` and `mule evaluate` | BatchPrefetcher |
| `DiagnosticStudy` | `mule diagnose`, beside the former | Scoring |
| `TrainingRun` | `training/trainer.py`, `checkpoint.py`, `history.py`, `selection.py`, the run's files | |
| `ExperimentSuite` | `experiments/runner.py` and which files its tables read | |
| `QueryInstall` | `tigergraph/installer.py` and the server as it sees it | |
| `Preparation` | `pipeline/prepare.py`, `data/preparation.py`, `manifest.py`, scope, reveal, the gate of a run | QueryInstall |
| `TemporalGraph` | the log of payments and bindings, what a context sees of it, and the reference of the rows (`reference/gsql_features.py`) | |
| `ContextRows` | the rendered context query (`tigergraph/render.py`) and the hub query | TemporalGraph |
| `CuGraphSampler` | `sampling/cugraph_sampler.py`, `sampling/backend.py`, with pylibcugraph as it answers or errs | |
| `BatchAssembly` | `batching/assemble.py`, `data/hub_registry.py`, `sampling/candidates.py` | ContextRows, CuGraphSampler |
| `LabelReveal` | the reveal (`reference/label_reveal.py`, `gsql/queries/label_reveal.gsql`) | |
| `Ratios`, `AuditSample` | fractions; the audit sample and the metrics over it (`metrics.py`) | |
| `LabelFlow` | labels from the reveal to samples, proxies and audits | LabelReveal, AuditSample |
| `Comparison` | `experiments/tables.py` over `metrics.py` | AuditSample |
| `MC...` | the instances TLC checks | |
| `..._proof` | the theorems, one module per component | |

`SharedReads` is the abstract specification; `ContextSource!Reads` the refinement mapping.
`TemporalGraph!ReferenceMessages` and `AuditSample`'s definitions are the references that
`ContextRows` and the audits are compared with. `TrainingRun!Straight` defines an
uninterrupted run from its inputs alone, without using an action.

### DaemonPool, MemoryTier, BatchPrefetcher
`future`, `queue`, `thread`, `held` and `shutdown` are the attributes of the pool, the local
of its workers and the state of each call's Future. A cancelled future is not yet done for
`concurrent.futures.wait`: the worker that takes it out of the queue moves it to
`"notified"` (CANCELLED_AND_NOTIFIED), which is what wakes a waiter. A joining thread waits
for `Joined`. The LRU is the set of its keys and the order of their last use. The consumer
thread of the prefetcher is `at`: it fills up to `Depth`, pops, awaits, refills, yields,
consumes; it can break out, fail, or be interrupted where the code is in its `with` block.

### ContextSource, SharedReads
A fetch is a member of `Fetches`, its locals are the functions `want` to `claim`. Sections
under the lock are single actions: `Begin` (look up, join claims, claim the rest),
`Release` (publish the rows and drop the claims), `Return` (count). Between them each
submission and each wake-up of `wait()` is a step, because another thread can be told apart
there. `Unwind` is the `except`/`finally` path, `SubmitRefused` a pool that was shut down
between two blocks. A worker takes (`TakeRequest`), starts (`StartRequest`), looks at the closed flag
(`Admit`, `AdmitRefused`), sends later whatever close did meanwhile (`Send`) and answers
(`Respond`, which writes the disk tier); the retries and halves of a request lie between its
`Send` and its answer. Close is the four steps of `close` with its join, if it `waits`;
`unbegun` remembers which requests no worker had begun when it was called. Of the disk tier the keys it can
serve are kept: a write adds, and where `DiskLoses` any entry may leave at any moment, which
covers eviction by this process or another, a refused entry and a directory that cannot be
written. A row is its key.

`SharedReads` has no caches, pool or blocks: at most one reader per key; whoever meets a key
that another reads depends on that reader's verdict; no fetch waits for another before its
own keys are settled.

### QueryExecutor, ContextQuery
Time is discrete and kept relative to the present, because the code compares differences
only. `Respond` is the body of `_retry` after the call: success, a permanent error, giving
up, a shared backoff or a pause of its own thread. `FailureClass` classifies an exception by
its message, status and code; `Classes`, the failures an attempt may have, are those it
gives. `Delays` are the delays jitter may give, whole units only. `Tick` may pass while
nothing is due, and an attempt cannot outlast `HangLimit`, the read timeout of every
session (`tigergraph/client.py`). In `ContextQuery` `todo` is the recursion's stack of
halves, `rows` the rows of the parts before them; `Others` are the calls of another thread.

### TrainingRun
Training is deterministic given the generator state an epoch's schedule was drawn from, so
weights are the set of steps that made them: two runs have the same weights exactly if they
took the same steps with the same draws. `curve` (the selection value of each epoch, 0 if
undefined) and `lost` (the roots TigerGraph rejects) are chosen once. `run` is what a
`ResumeState` holds, `resume` is `resume.pt`, `config`, `history`, `epochs` and `outputs` are
the files. Each process brings a `given` (settings, dataset, manifest), intervals and a
limit: `SameSettings` and `SameDataset` are the checks that refuse it. One action per phase:
`Open`, `Configure`, `Trim` (`keep_history`), `StartEpoch`, `TrainStep`, `Log`, `Save`,
`SelectEpoch`, `Record`, `Write`; `Refused` ends a process at a rejection limit, `Crash` ends
it anywhere, `CrashAppending` inside the append to `history.csv`, the one file not replaced
atomically.

### ExperimentSuite
A file is the experiment it is of (settings, dataset). `Plan` is `plan_run`; a suite runs
the baseline with a choice of variants (`Suites`), goes over `Every` run twice (train, audit)
and writes tables. `OwnError` fails one run, `Outage` stops the suite, `Crash` ends it;
`Change` edits settings or changes the dataset between suites.

### QueryInstall, Preparation
A text is known by its version. The server is external and does what the installer says of
it: CREATE OR REPLACE disables the endpoint of the query it replaces and of no other;
compiling links the texts the callees have at that moment; a compilation (`job`) goes on when
the client gives up or dies, and beside the installs that follow, none of which waits for it.
A query that is created or dropped leaves the job: the old text enables nothing
(`docs/reference/queries.md:290`). Histories say what earlier commands left: `torn` the
endpoints whose callee a command created again without coming to them, `cut` the scopes whose
command died between the two writes. `Preparation` adds the command: what is read from the graph is
known by what it depends on (load, scope, labels), a dataset by its id and its manifest, and
`Open` is the gate (`load_prepared`, `verify_frozen_source`) every run passes. `Ingest`,
`ClearGraph`, `Reload`, `UpdateRepository`, `ServerFault` and `Die` surround it.

### TemporalGraph, ContextRows, CuGraphSampler, BatchAssembly
A log entry is a payment or a binding of a token; its position is its `event_seq`, and it may
be posted late. `Call` answers the requests of a call in turn, carrying the accumulators a
request leaves behind. `HubAccounts` is the hub query. A batch goes through `FetchRoots`,
`SelectFirst`, `FetchChildren`, `Assemble`; `Ingest` adds to the log between them. A draw is
by keys, or the library's: `LibraryRows` answers as asked, in either numbering of batch ids, or
goes wrong in one of the ways of `Faulty`, and `Accepts` is what the code checks of it.

### LabelReveal, LabelFlow, AuditSample, Comparison
What a hash draws (reports, delays, exposures, the order of a capped split) is an input.
`LabelFlow` reveals round by round, keeps accounts by the reservoirs, draws batches,
evaluation samples and audits. `AuditSample` counts weights in integer units and averages
are `Ratios`. `Comparison` audits every run on one sample, without the accounts each audit
rejects, and builds the tables; scores are integer log-odds, the numbers of the generators
an input.

### Scoring, DiagnosticStudy
The commands of a plan run one after the other over the prefetcher; each may fail, be
interrupted or be killed. `rows` and `bad` are what the stream yielded, batch after batch (of
a batch, the set of its accounts: within one the rows follow them), `scores` and `audits` the
files, `served` the source's count of rejections. A study goes over `names`; `memory` is
what the call has read, `tables` and `recorded` are the files, `moved` tells when the graph
first left the source it was prepared from. A call looks at the source once (`CheckSource`)
and reads one thing after another from then on (`ReadTruth`, `ReadInputs`, `ReadSplit` for
each split of the features), and `Ingest` may come before any of them. A table records what
it was computed from: the sources of its reads, the audits, and the feature table with the
sources of that.

## What the runs check

| Run | Instance | Distinct states | Shows |
|---|---|---|---|
| `context_sharing` | 3 fetches of overlapping lists over 3 contexts, LRU of 1 row, blocks of 1, 2 threads, a disk of any content, requests that fail | 1,344,500 | `ClaimTable`, `SingleFlight`, `ReturnsEveryRow`, `OneRequestEach`, `CountsAgree` |
| `context_close` | 2 fetches, blocks of 2, a disk that loses entries, requests that fail, a close at any moment, with or without a join | 260,987 | `NoRequestAfterClose`, `CloseReturns`, `EveryFetchEnds`; the steps of the source are those of `SharedReads` (safety; that they are taken is `EveryFetchEnds`, of an open source) |
| `context_close_hang` | 2 fetches and a close with 1 thread | | expected violation, see Findings |
| `context_query` | a block of 3 contexts, a query and a write of another thread; every class of failure, attempts fast or hanging | 106,569 | `PausesBounded`, `OutageBounded`, `BudgetsKept`, `RowsInOrder`, `RequestEnds` |
| `scoring` | two scores, two evaluations, an evaluation and a study, two studies beside a new query text or an ingestion; 5 accounts in 3 batches, 2 threads, kills and Ctrl-C | 289,884 | `ScoresComplete`, `FilesOfOneAudit`, `StudyTrue`, `CommandEnds` |
| `training_run` | 3 epochs of 2 steps, patience 1, values 0 to 2, six patterns of rejected roots, limits of 0 and 100 %, log every 1 or 2, save never or always, foreign settings and manifests, 1 death | 551,844 | `ResumesExactly`, `HistoryTiles`, `CompleteRun`, `RunCompletes` |
| `training_cut` | 2 epochs of 3 steps, a death that may cut the header | | expected violation, see Findings |
| `suite` | a baseline and two variants of one seed, 2 changes of settings or dataset, 1 error, outage or death | 935,396 | `TablesOfPlan`, `AuditsOfModel`, `ResultsKept`, `SuiteConverges` |
| `preparation` | 2 configurations that differ in their reveal, 3 queries of which one calls another, 2 faults | 257,954 | `InstalledLinks`, `RunsOnWhatWasPrepared`, `PartsReadOnce`, `Resumes` |
| `batch_assembly` | 3 accounts and a token, logs of up to 6 entries and one more between the fetches, 4 sets of roots, 3 hosts, 6 behaviours of the library | 68,753 | `RowsAsReference`, `AnswersIndependent`, `StubsFromThePast`, `SlotsAligned` |
| `data_flow` | 9 accounts, 6 of them mules, 3,072 combinations of graph, budget, cutoffs and ranks | 54,305 | `LabelsFromThePast`, `FutureLabelsUnseen`, `HiddenPopulation`, `RanksAsDefined` |
| `comparison` | 2 variants of 2 seeds, 3 mules (2 of a ring, 1 known) and 2 of 3 others, audits that reject or fail | 11,403 | `PairedFairly`, `RankingsDecide` |

Why the bounds are enough. Two fetches already claim, hit, await and cross; the third makes
a chain (await one that awaits another) and evicts between the other two; one LRU row makes
every publication of two evict; blocks of one key give a fetch two requests on threads others
use. Three contexts are halved twice, the first time unevenly. The outage budget of three units
is longer than one pause, so that it is overrun in several ways. Two steps with intervals of
one and two make the row boundaries of two segments disagree; three epochs and patience one
allow improving, tying, undefined and stopping curves. Three variants let an outage leave one
run done, one half done, one untouched; two changes allow a change and its way back. Two
configurations on one scope with different reveals overwrite each other's labels; two faults
allow one while another is being repaired. Logs of six entries fill a context of three
messages and make a hub; a late payment and two cutoffs put the clocks in conflict. Two mules
or more per split, budgets of one and two, and two cutoffs in a split let the cap, the trace
and the reservoirs each decide. Symmetry is used only in the one run without temporal
properties that has interchangeable fetches and threads.

Deadlock checking is off in every configuration because each of these systems stops: fetches
have returned, operations are over, plans of commands are done, a run is complete or refused.
The liveness properties say that they stop nowhere else.

### Fairness
* Threads of a pool, fetches, the closing thread, consumers and a command that is under way
  take steps while they can: they are operating-system threads and processes, and every
  section under the lock is finite.
* A request or a build ends. A build is fetches and arithmetic; that a fetch ends is
  `EveryFetchEnds`; that a request ends is `RequestEnds`; that an attempt ends is the read
  timeout of every session, and that time passes is `WF(Tick)`. The chain is why no weaker
  assumption is made.
* A run that died is run again (`WF(Open)`), at times with a higher limit (`SF(OpenRaised)`),
  as the guide tells its reader to; a suite is run again with all variants
  (`SF(Start(All))`), because in between single variants may be asked for. In `Preparation`
  every configuration is started again and again, stale queries are installed, and what a
  refusal says is done: a dataset is moved aside, or a graph with outdated types loaded again
  (strong, since other commands take turns; no more than one of the two need happen while
  both are asked for). The server goes on compiling.
* Ctrl-C, kills, deaths, outages, changes, closes and ingestions are owed to nobody; deaths,
  faults and changes are bounded by `MaxCrashes`, `MaxFaults`, `MaxChanges`, and plans are
  finite.

## What is proved

For every value of the constants, checked by TLAPS. Named in brackets is the property of a
run that the theorem states.

* `ContextSource_proof`: `TypeCorrect`, `InvCorrect`, `ClaimsCorrect` (`ClaimTable`),
  `SingleFlightCorrect` (`SingleFlight`), `RowsCorrect` (`ReturnsEveryRow`),
  `RequestsCorrect` (`OneRequestEach`), `CloseCorrect` (`NoRequestAfterClose`),
  `CountsCorrect` (`CountsAgree`), and `SourceImplementsReads` (`ImplementsSharedReads`):
  every behaviour of ContextSource is one of `SharedReads!SafeSpec` under the mapping.
* `ContextQuery_proof`, of the executor: `ExecutorTypeCorrect`, `PausesCorrect`
  (`PausesBounded`), `BudgetsCorrect` (`BudgetsKept`), `OutageCorrect` (`OutageBounded`); of a
  block: `OrderCorrect` (`RowsInOrder`), `RequestKeepsBounds`.
* `TrainingRun_proof`: `RunCorrect`, `ResumeCorrect` (`ResumesExactly`), `HistoryCorrect`
  (`HistoryTiles`), `CompleteCorrect` (`CompleteRun`).
* `ExperimentSuite_proof`: `SuiteTypeCorrect`, `AuditsCorrect` (`AuditsOfModel`),
  `TablesCorrect` (`TablesOfPlan`), `ResultsCorrect` (`ResultsKept`).
* `Preparation_proof`: `PreparationTypeCorrect`, `InstallCorrect` (`InstalledLinks`),
  `RunsCorrect` (`RunsOnWhatWasPrepared`), `PartsCorrect` (`PartsReadOnce`).
* `DiagnosticStudy_proof`: `StudyCorrect` (`StudyTrue`), and of the commands beside a study
  `ScoresCorrect` (`ScoresComplete`), `AuditsOfOneCommand` (`FilesOfOneAudit`).
* `LabelFlow_proof`: `FlowTypeCorrect`, `LabelsCorrect` (`LabelsFromThePast`), `FutureCorrect`
  (`FutureLabelsUnseen`), `HiddenCorrect` (`HiddenPopulation`).
* `BatchAssembly_proof`: `StubsCorrect` (`StubsFromThePast`), `RowsCorrect` (`RowsAsReference`),
  `AnswersCorrect` (`AnswersIndependent`) and `BatchCorrect` (`BatchFromThePast`, in that
  module): what the slots of a finished batch hold and lead to.

Types are theorems only; no run spends a property on them.

**The source.** `SingleFlight` is not inductive: it says nothing of keys a fetch still has to
submit. `IInv` follows the keys of a claim through the fetch: they are obtained, in flight or
still to submit (`KeysAccounted`), the blocks in the window and the rest do not overlap
(`WindowDisjoint`), a request in flight belongs to the window of a fetch that has not failed
(`FlightOwned`), and two fetches never hold one key (`ClaimTable`). `ClaimFits` and
`SharedClaimed` carry the verdict to who awaits it, which gives `ReturnsEveryRow`. The
refinement uses the same invariant: a step of the source maps to one step of SharedReads or
to a stutter. `OneRequestEach` needs where rows last (`OnDisk`, `InMemory`) and that no one
has sent what a fetch has still to send (`Unsent`). `CountsAgree` is about sums of sizes:
`CountInv` says the counters are the cardinalities of disjoint sets of (fetch, key) pairs,
and each action adds one set of pairs to one of them.

**The executor and the block.** `OutageReach`: the age of an outage plus what is left of the
pause, less the attempt under way, stays below the budget, one pause and the slips counted so
far. A failing operation that is retried either is within its budget, or has spent one more
of its slips; other threads may move the backoff meanwhile, and `PausesBounded` caps what
they add. For a block, `RowsBefore` and `PartsTile` say that the rows answered are those of
the keys before the first part still to request and that the parts follow each other to the
end of the block. `RequestKeepsBounds` shows that the composition takes steps of the
executor or none, so that its invariant carries over.

**The run.** `ResumesExactly` says nothing of memory, which is what is saved next. `RunExact`
says that in every phase the state in memory is the one `Straight` has (`At`, `During`), with
the generator an epoch began with; `ResumeExact` the same of `resume.pt`, and that its
settings are those of `config.json`; `HistoryExact` that the rows of `history.csv` tile the
steps with at most a torn last one, that the row of the saved position is among them, and that
the interval under way begins where the table ends; `OutputsExact` which outputs are this
run's in each phase of the end. Lemmas carry the data: `SameInputs` and `SameParts` (what is
computed from inputs stays), `AddStep` (sums over steps grow by a step), `BestStep` (the best
epoch and patience), `KeptIs` (what `keep_history` keeps), `TableAppend` and `RowFollows` (a
row fits where the last one ends).

**The suite.** `FilesAgree` ties a run's audits to its model, `AtRun` what the process knows
of the run it is at, `OnPlan` that the plan stays true of runs it has not come to and that
those it has passed are complete only as wanted, `AllWanted` the same for the whole suite.

**Close.** `CloseInv`: a request that no worker had begun when close was called is never
admitted, because the flag was set before any worker could begin it; past the join of a
close that waits every thread is gone, so that no request is under way (`PoolStep` follows
the requests through the pool).

**Preparation.** `InstallInv`: an endpoint is linked from the texts the server has, or is
one that this install would leave behind if it ended here, or that an earlier one did
(`Fresh`); while files are created, the callers of what is still to come are among it, or
neither enabled nor compiled (`Creating`); whatever is enabled or goes on compiling has a text
(`Compiling`). A compilation beside the install does no harm because it links the texts of its
end. The callers of a query are the least set closed under calls
(`CallersLeast`). `Parts` says of each dataset that, while its counts are
the graph's, its parts were read from that load and scope; `LabelsInPlace` and `Staged` carry
this through the stages of the command.

**The study.** `Accounted` says of each table that it was noted by this call, is about to be,
or agrees with `study.json`, unless a kill or an interrupt left it loose; `FrameInPlace` and
`ReadsFrozen` say what the call keeps in memory: it reads after it has verified the source,
and has read the changed graph only if the change met it. The attempt to prove `ReadsFrozen` showed
that the model let an ingestion after the first one make the source look frozen again; the
action was corrected, and a plan with two ingestions added to the run.

**Scores and audits.** Completeness rests on the prefetcher alone: `InOrder` says that the
builds pending follow the one popped last without a gap while nothing has stopped it, and that
it closes by itself only after the last; what the workers do to a future does not matter, as
long as `result()` is taken from it in turn. `Sorted` then says that the batches taken so far
are sorted into rows and rejections, and that the source's counter exceeds the copy by exactly
those. That batches are disjoint (`BatchesApart`) makes the count one of accounts, that they
cover the accounts (`BatchesCover`) makes no mule go missing. `ScoreFiles`, `Staged` and
`AuditFiles` carry this from file to file; they were checked by TLC on `scoring` first. The
rows of a batch are the set of its accounts rather than a filtered sequence, so that the
prover can reason about them; the last batch of the run is shorter than the others.

**Labels.** An account found by a reveal has a cause before it: an event of its own, or an
account found earlier that it is linked to. The invariant keeps such a trace for each one, so that
`LabelsFromThePast` follows for labels read at any cutoff. `FutureLabelsUnseen` compares two
computations: the reservoirs as the pass over the accounts fills them, and those it would fill
had the later labels never been revealed. The pass is shown to be the recursive function that
`Selection` names, and one step of it to depend on the labels only as far as the account is in
the pool, which no later label changes. `HiddenPopulation` rests on sums in any order: the
weights of the drawn rows of a stratum add up to the stratum, whichever rows were drawn.

**The batch.** What a context's stub rests on is followed from both ends. The registry counts
payments by phase and cutoff (`HubCountIs`, `StubIsHub`), which is what the past of the log
holds; the past before a cutoff stays as the log grows (`HubsStay`), and a hub stays one at later
cutoffs (`HubBeforeLater`), so that the earliest cutoff of the roots that reach a context decides
for all of them (`StubByEveryRoot`). The query gives a root messages from no later than its
cutoff and refuses a request for its capacity only after a scan of more than `max_history` of the
payments the registry counts (`RowFacts`): the passes of the call are followed from request to
request, since accumulators on shared vertices outlive a request (`Allows` says what may be
left in them). The draws, by keys or by the library, fill the slots of a root with
messages of its row (`NeighboursMembers`), whichever result the library gives, if it is
accepted. A child over the capacity would thus be a hub before the cutoff of every root that
reaches it, and is a stub instead. `BatchCorrect` follows the same messages to the end: a row
shows its context only payments from before its cutoff and accounts of its view (`Shown`), a
draw takes from that row, and the positions find every key that was not rejected, because
dropping roots and rejected keys and indexing the rest lose nothing else (`WithoutOthers`,
`IndexOfKeys`, `ContextsOfRoots`). `BatchInv` and `SlotsInv` were checked by TLC on
`batch_assembly` first.
Preparing this proof showed that the model took the accepted roots of a batch to be those that
have a good row, which a rejected root fetched again as somebody's child has as well; the
batch now keeps them as `RootBatch.accepted` does.

**The rows.** That a row is what the plain definition says is proved from the query upwards.
`RowOf` states the row of a request by `VisibleHistory` and `ReferenceMessages` alone, without
accumulators. `CallRowOf` shows that a call of any length answers each request with its
`RowOf`: whatever the requests before it left behind, an account that was looked up is allowed
exactly if the view shows it, and a payment that was blocked is one the view hides (`Exact`).
Below it lie the equivalences a test can only sample: the three passes over the ranks take the
recent, the evenly spaced and the new-peer ranks of `stratify` (`SampledIs`); the chronology
knows of each payment the earlier ones of its pair, and stops exactly at a pair whose clocks
go back (`ChronologyIs`); the scan of a token's senders finds the same earlier payments
(`PriorScanIs`); the flow searched in any order is the reference's (`FlowIs`).
`RowsAlike` then compares two graphs: if they agree before a cutoff on what the view shows
(`Agree`), the row of the cutoff is the same. The past of the cutoff is such a graph
(`PastIs`), which gives `AnswersIndependent`, and so is every longer log (`GrownAgrees`), which
keeps the invariant `RowsInv` while events are posted: the rows fetched last are settled
(`SettledIn`), and the neighbours that may become children had been observed by the clocks of
the messages that lead to them (`PeersKnown`), so that a child is never invisible for its
clocks. `RowsInv` was checked by TLC on `batch_assembly` first.

The proof corrected the model in four places. A hidden payment kept no clock, so that an
account first seen in it could look younger than it is (`Hidden`). A payment a context reaches
by two relations had two equal places in the chronology, which the query orders by the
relation's name (`tigergraph/render.py:199`). The alternatives of two CASEs overlapped (`Flow`,
`AfterScans`). And both properties said more than the code does of an account first observed
at or after its cutoff, which is missing at first and invisible later (`Unobserved`).

Assumptions: those the modules name (`PoolAssumption`, `MemoryAssumption`,
`SourceAssumption`, `ExecutorAssumption`, `InstallAssumption`, `PreparationAssumption`,
`SuiteAssumption`, ...): distinct markers, natural numbers, finite sets, variants and
seeds named once, and that the repository's files hold its queries. `InputAssumption` says
what the configuration and the reveal's inputs are checked for: dates in order
(`config.py:200`), delays that are positive (`reference/label_reveal.py:118`), links between
mules. `BatchAssumption` says that roots are asked at cutoffs of the registry, for which
`HubRegistry.is_stub` otherwise raises. TLC evaluates each in a run.

Induction over data is out of the prover's reach, and the operators of these models that
pick a least element, fold a sequence or filter a table would need it. Three ways around it are
used. A set of
naturals has a least element by well-foundedness (`Least`), so that "the first run that" and
"the last row before" are characterised without induction. And `TrainingRun!RowsAt`, the
filter of `keep_history`, is a recursive function that the proof only ever unfolds at the
least position where two tables could differ. Folds (`FoldLeft`, `FlattenSeq`, the pass of
`Selection`) are a CHOOSE of a recursive function: that one exists is shown by extending it one
position at a time up to the length (`FoldExists`, `UpTo`), after which what each step keeps
holds of the whole (`FoldStays`, `FoldTyped`).

**Only model-checked.** Liveness (`EveryFetchEnds`, `CloseReturns`, `RequestEnds`,
`CommandEnds`, `RunCompletes`, `SuiteConverges`, `Resumes`), which this prover cannot reason
about (ENABLED). `SharedReads` is a safety specification and its refinement is proved; that a
fetch of an open source returns is `EveryFetchEnds`, and Finding 1 is that one of a closed
source may not. `SlotsAligned` of
`BatchAssembly`, `RanksAsDefined` of `LabelFlow` and the properties of `Comparison` compare
whole computations (draws, permutations, sums of fractions) with their references, for which
bounded inputs are the natural check.
`CachedOrClaimed` is proved with `ClaimTable` and not run.

## Findings

1. `context_close_hang`. `DaemonPool.shutdown` cancels the queued futures, and leaves them
   CANCELLED; `wait()` wakes only for CANCELLED_AND_NOTIFIED. A fetch whose requests are all
   still queued when another thread closes the source waits for ever
   (`data/contexts.py:313`), with whoever awaits its claim. The test of close
   (`tests/data/test_contexts.py:288`) keeps one request in flight, whose end wakes the
   fetch. `EveryFetchEnds` therefore speaks of sources that are not closed.
2. `training_cut`. A process that dies in its first append to `history.csv`, after the file
   was created and before its header is complete, cannot be resumed: `keep_history` refuses an
   empty file by accident (it reads `fieldnames` of a closed stream, `artifacts.py:237`) and a
   cut header on purpose. The guide says that an interrupted run resumes when it is run again
   (`docs/how-to/train-and-evaluate.md:51`). `training_run` therefore leaves a cut header out
   (`Tears = {"row"}`) and shows that nothing else gets in the way.

Disagreements between the code and its documents that a property states around, or that
were met while modelling:

* Suite. An outage stops it before later runs are archived; their former audits are then
  compared as complete (`experiments/runner.py:108`, `tables.py:84`). Hence `~stopped` in
  `TablesOfPlan`. Runs of two datasets make `paired_split` raise, so that no table is written,
  where `runner.py:28` says tables still are.
* Scope. `tigergraph/scope.py:257` creates the scope and finalises it by a second write; after
  a death in between every later run is refused (`scope.py:87`), where
  `docs/reference/cli.md:52` says that a stopped preparation resumes. The model has that death;
  `Resumes` excepts the configurations of the scopes it met (`cut`) and nothing else.
* Installer. A command that ends between the CREATE of `fourier64.gsql` and that of the
  context query's file (`tigergraph/installer.py:429`) leaves an enabled context query
  linked to the former text for good: the next command finds the callee's text current and the
  caller's endpoint enabled, so that neither is stale, where `docs/reference/queries.md:287-290`
  has a caller of what changed installed with it. `InstalledLinks` excepts such endpoints
  (`torn`, until they are created or compiled again) and no others.
* Reveal. `ensure_revealed_labels` decides from `reveal_record` alone (`tigergraph/reveal.py:97`),
  which holds version, salt and budget; the labels of a configuration with other split dates
  or another partition are accepted, against `docs/architecture.md:32`.
* `mule score`. Two at once for one file pass `check_new_outputs` (`score_accounts.py:61`)
  and overwrite each other; an end between its two renames leaves scores without their
  list of rejected accounts. The plans of `scoring` run one command at a time.
* `mule diagnose`. A killed or interrupted call leaves tables newer than `study.json` (`loose`
  in `StudyTrue`); `report.md` is redrawn only after all analyses; a skipped analysis keeps its
  old table while `study.json` says skipped (`docs/reference/outputs.md:247`);
  `features.parquet` is kept by query text and columns only, and an ingestion after the first
  read of a call goes unnoticed (`pipeline/diagnose.py:73`): the truth may be of the frozen
  source and the splits of what it became, and later calls, which would be refused if they had
  to read, keep that table and compute from it. `StudyTrue` says that this is all that the
  changed graph reaches.
* Hubs. Token children have no stub though `docs/explanation/sampling.md:140` and
  `data/hub_registry.py:20` read as if every child had; `StubsFromThePast` speaks of accounts.
  `docs/explanation/label-reveal.md:38` has a mule exposed by one found "before"; the trace also
  uses a discovery that a later round replaces by an earlier one.
* Tables. `unpaired` counts accounts within the union of the audits only (`tables.py:253`): one
  that every audit rejected is not counted, where `docs/reference/outputs.md:211` speaks of
  those that some audit rejected. The seed means of `comparison.csv` are of each audit's own
  accounts while the interval is of the shared ones (`tables.py:511`), as `outputs.md:215` says.
* Executor. Its docs (`executor.py:313`, `docs/explanation/leakage-and-scaling.md:162`) date an
  outage from its first failure, the code from the start of the attempt that failed
  (`executor.py:427`), which `OutageBounded` accounts for. A success clears the backoff for
  attempts that follow; it does not wake threads that sleep on it.
* Others. `close` clears the LRU, yet a fetch still active may publish into it afterwards.
  `context_cache.py:109` calls the capacity the most entries of the cache, but every process
  counts its own. `inference/rejections.py:92` ("the count only grows, so failing as soon as it
  is crossed equals failing at the epoch end") is not so for a resumed segment with a lower
  limit.

## Not modelled, and why

* Numbers: models, loss, encodings, amounts, calibration, figures, reports. TLC has no floats,
  and nothing about them depends on order.
* The data contract: validators of rows; `ContextQuery` has their verdict.
* The command line, configuration, paths, console: wiring and layout.
* In `ContextSource`: encoding cadence, rejections, `database_calls`, diagnostics. In the disk
  tier: files, digests, times, bytes.
* In `TrainingRun`: a change of the sampler's backend, host settings, a loss that is not finite,
  `events.jsonl`. A run stopped before its first checkpoint names its dataset by id alone, so
  that `Givens` differ in what `config.json` can tell.
* In `ExperimentSuite`: time estimates; a dataset stands for its sample (`OneSample`).
* In `QueryInstall`: queries the repository no longer has (`drop_retired`), queries of others,
  endpoint parameters, edge types of others. In `Preparation`: the CREATE of a scope is one
  transaction; the counts tell loads apart (a same-count edit goes undetected); the source id stays
  old after a backfill (`tigergraph/provenance.py:42`); data that arrives between the reveal
  and the counts (`pipeline/prepare.py:102`) is unlabelled; labels replaced while a run is
  under way go undetected; a ready dataset of a changed graph is refused until it is moved
  aside.
* In `BatchAssembly`: batch limits, other association relations, clock mismatches; in
  `CuGraphSampler`: handles, streams and device synchronisation, and of the time of an
  accepted edge only its order to the seed's.
* In `Scoring`: a prefetch depth of 0 (builds inline), empty id files, the rejected list that is
  not written atomically while streaming. In `DiagnosticStudy`: the statistics, report,
  events, installation of the analytics query, contexts and pages of the truth.
* In `LabelFlow`: hashes and propensities (inputs); cutoffs need not be midnight; an audit needs
  one cutoff per split; a graph is revealed once (`Preparation` has the second reveals); the
  refusal of more than `POSITIVE_POOL` positives (`data/accounts.py:73`). In `Comparison`: one
  split, average precision, one sample for all audits, so that the refusal of audits that
  disagree (`experiments/tables.py:257`) is in `ExperimentSuite` only (`OneSample`,
  `RefuseTables`).
* In `ContextRows`: of the five accumulators on a payment that a request resets
  (`tigergraph/render.py:462`) the senders' count alone. In `ExperimentSuite`: the digest of the
  manifest (`training/checkpoint.py:161`), since a dataset is known by its id there;
  `TrainingRun` compares both.

`PROJECT.json` lists each component with what is left out of it.

## Plan

Done, in this order: the source with its pool and LRU and `SharedReads`; the prefetcher; the
executor; the run; the suite; installation and preparation; the block; batches and labels;
scoring; comparison; the study; the GPU sampler. Proved, in this order: source, executor,
refinement; study; installation and preparation; suite; block; run.

Then, one after the other: batches and labels; scores and audits beside the study; rows.

Left:

1. Theorems: the life cycle of futures in the pool as one of its own module.
2. Models: `DiskTier` as blocks and an index, shown to implement the set of keys
   ContextSource uses; retired queries in `QueryInstall`; what an installation of the
   analytics queries does to a study.
