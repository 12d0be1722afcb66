----------------------------- MODULE Preparation -----------------------------
(***************************************************************************)
(* Preparing a dataset and opening a run on it, by one command at a time:  *)
(* prepare_dataset (pipeline/prepare.py) with the installation, the scope  *)
(* (tigergraph/scope.py), the label reveal (tigergraph/reveal.py) and the  *)
(* stages of data/preparation.py, then the gate of every run that reads    *)
(* the graph (load_prepared and verify_frozen_source).                     *)
(*                                                                         *)
(* A command may die at any step, the graph may grow or be cleared and     *)
(* loaded again, compilations may fail, the repository may be updated, and *)
(* datasets of several configurations share the graph and its labels.      *)
(* What is read from the graph is known by what it depends on: the data    *)
(* loaded, the scope and the labels.  The vertex counts tell any two loads *)
(* apart (docs: a same-count edit goes undetected).                        *)
(***************************************************************************)
EXTENDS QueryInstall

CONSTANTS
    Configs,     \* records: scope (its id), partition, reveal (its record) and dates
    Hashed,      \* QUERY_FILES: the queries whose text a dataset records
    NoScope, NoLabels, NoDataset, Nothing,
    MaxFaults    \* bound: deaths, failures, updates and changes of the graph

ScopeIds == {c.scope : c \in Configs}

\* One load more than the faults bring, for outdated types on a graph with scopes.
Loads == 1..(MaxFaults + 2)

\* A dataset id: the source id and the settings.
DatasetIds == Loads \X Configs

\* What the graph and the manifests hold: scopes, labels, and what was read of them.
Partitions == {c.partition : c \in Configs}
Scopes == [source : Loads, partition : Partitions, members : Loads, ready : BOOLEAN]
Reveals == [reveal : {c.reveal : c \in Configs}, dates : {c.dates : c \in Configs},
            partition : Partitions, load : Loads, every : BOOLEAN]
Populations == [load : Loads, scope : Scopes, labels : Reveals]
Registries == [load : Loads, scope : Scopes \cup {NoScope}]
Manifests == [counts : Loads, hashes : [Hashed -> Versions],
              status : {"preparing", "ready", "source_changed"},
              accounts : Populations \cup {Nothing}, labels : Reveals \cup {Nothing},
              cutoffs : Loads \cup {Nothing}, hubs : Registries \cup {Nothing}]

ASSUME PreparationAssumption ==
    /\ Hashed \subseteq Queries
    /\ MaxFaults \in Nat
    /\ Configs # {}
    /\ NoScope \notin Scopes /\ NoLabels \notin Reveals /\ NoDataset \notin Manifests
    /\ Nothing \notin Populations \cup Reveals \cup Loads \cup Registries

VARIABLES
    load,     \* the data in the graph, by its vertex counts
    scope,    \* per scope id: the scope vertex and its membership
    labels,   \* the label fields of the graph's accounts
    disk,     \* per dataset id: manifest.json
    parquet,  \* per dataset id: accounts.parquet
    at,       \* where the command is
    cfg,      \* its configuration
    source,   \* the source id it works with, 0 while unknown
    counts,   \* the vertex counts it compares at the end
    refused,  \* the datasets a command was refused for: the person moves them aside
    cut,      \* history: the scopes whose command died between the two writes
    faults

graphVars == <<load, scope, labels, cut>>
commandVars == <<at, cfg, source, counts>>
prepareVars == <<graphVars, disk, parquet, commandVars, refused, faults>>
vars == <<installVars, prepareVars>>

AnyConfig == CHOOSE c \in Configs : TRUE

Init ==
    /\ InstallInit
    /\ load = 1
    /\ scope = [s \in ScopeIds |-> NoScope]
    /\ labels = NoLabels
    /\ cut = {}
    /\ disk = [d \in DatasetIds |-> NoDataset]
    /\ parquet = [d \in DatasetIds |-> Nothing]
    /\ at = "idle"
    /\ cfg = AnyConfig
    /\ source = 0
    /\ counts = 0
    /\ refused = {}
    /\ faults = 0

ds == <<source, cfg>>
manifest == disk[ds]
HasScopes == \E s \in ScopeIds : scope[s] # NoScope
Hashes == [q \in Hashed |-> repo[q]]

\* The command ends here, on this error or with its run; its process forgets all else.
Leave ==
    /\ at' = "idle"
    /\ cfg' = AnyConfig
    /\ source' = 0
    /\ counts' = 0

\* The command goes on at a point, with what it knows.
GoTo(point) == at' = point /\ UNCHANGED <<cfg, source, counts>>

Record(field, value) == disk' = [disk EXCEPT ![ds] = [@ EXCEPT ![field] = value]]

-------------------------------------------------------------------------------
(* prepare_dataset. *)

\* find_datasets: the source ids of the datasets of c.
Found(c) == {s \in Loads : disk[<<s, c>>] # NoDataset}

\* One dataset is reused when it is ready and of the current query texts, or resumed with
\* its source id; with none or several the source id is left to the graph.
Start(c) ==
    /\ at = "idle"
    /\ step = "idle"
    /\ IF \E s \in Loads : Found(c) = {s}
       THEN LET s == CHOOSE x \in Loads : Found(c) = {x}
                m == disk[<<s, c>>]
            IN IF m.hashes # Hashes
               THEN /\ refused' = refused \cup {<<s, c>>}
                    /\ UNCHANGED commandVars
               ELSE /\ at' = IF m.status = "ready" THEN "open" ELSE "install"
                    /\ cfg' = c
                    /\ source' = s
                    /\ UNCHANGED <<counts, refused>>
       ELSE /\ at' = "install"
            /\ cfg' = c
            /\ UNCHANGED <<source, counts, refused>>
    /\ UNCHANGED <<installVars, graphVars, disk, parquet, faults>>

\* `mule install`.
StartInstall ==
    /\ at = "idle"
    /\ Problems # {} \/ types # repo[ScopeTypes]
    /\ at' = "replacing"
    /\ UNCHANGED <<installVars, graphVars, disk, parquet, cfg, source, counts, refused, faults>>

\* install(): a preparation refuses outdated types, `mule install` may replace them.
Install ==
    /\ at \in {"install", "replacing"}
    /\ BeginInstall(at = "replacing", HasScopes) \/ InstallStep
    /\ UNCHANGED prepareVars

InstallFailed ==
    /\ at \in {"install", "replacing"}
    /\ step = "failed"
    /\ LeaveInstall
    /\ Leave
    /\ UNCHANGED <<graphVars, disk, parquet, refused, faults>>

\* The source id is the dataset's, or the scope's, or derived from the counts.
Installed ==
    /\ step = "installed"
    /\ LeaveInstall
    /\ IF at = "replacing"
       THEN Leave
       ELSE /\ at' = "scope"
            /\ source' = IF source # 0 THEN source
                         ELSE IF scope[cfg.scope] # NoScope THEN scope[cfg.scope].source
                         ELSE load
            /\ UNCHANGED <<cfg, counts>>
    /\ UNCHANGED <<graphVars, disk, parquet, refused, faults>>

\* verify_scope: the header is ready, of this source and of this partition.
ScopeVerified(src, c) ==
    /\ scope[c.scope] # NoScope
    /\ scope[c.scope].ready
    /\ scope[c.scope].source = src
    /\ scope[c.scope].partition = c.partition

\* ensure_scope: verify a scope that exists, else the first of the two writes.
EnsureScope ==
    /\ at = "scope"
    /\ IF scope[cfg.scope] # NoScope
       THEN /\ IF ScopeVerified(source, cfg)
               THEN GoTo("reveal") /\ UNCHANGED refused
               ELSE Leave /\ refused' = refused \cup {d \in {ds} : disk[d] # NoDataset}
            /\ UNCHANGED scope
       ELSE /\ scope' = [scope EXCEPT ![cfg.scope] =
                           [source |-> source, partition |-> cfg.partition,
                            members |-> load, ready |-> FALSE]]
            /\ GoTo("finalize")
            /\ UNCHANGED refused
    /\ UNCHANGED <<installVars, load, labels, cut, disk, parquet, faults>>

\* Mutant: the members are counted, but the scope is not marked ready.
FinalizeUnmarked ==
    /\ at = "finalize"
    /\ GoTo("reveal")
    /\ UNCHANGED <<installVars, graphVars, disk, parquet, refused, faults>>

\* The second: mark the scope ready once its members are counted.
FinalizeScope ==
    /\ at = "finalize"
    /\ IF scope[cfg.scope] = NoScope
       THEN Leave /\ UNCHANGED scope
       ELSE /\ scope' = [scope EXCEPT ![cfg.scope].ready = TRUE]
            /\ GoTo("reveal")
    /\ UNCHANGED <<installVars, load, labels, cut, disk, parquet, refused, faults>>

ScopeReady == scope[cfg.scope] # NoScope /\ scope[cfg.scope].ready

\* What the reveal job writes: its record (version, salt, budget) on every account, drawn
\* from the data, each split's cutoff and the scope's partition.
Revealed(c) ==
    [reveal |-> c.reveal, dates |-> c.dates, partition |-> scope[c.scope].partition,
     load |-> load, every |-> TRUE]

\* The job's answer "already_revealed": every mule's label has this record.
AlreadyRevealed(c) == labels # NoLabels /\ labels.reveal = c.reveal /\ labels.every

\* ensure_revealed_labels: reveal a graph without labels, keep this reveal's ...
Reveal ==
    /\ at = "reveal"
    /\ IF ~ScopeReady
       THEN Leave /\ UNCHANGED labels
       ELSE /\ labels' = IF labels = NoLabels THEN Revealed(cfg) ELSE labels
            /\ GoTo(IF labels = NoLabels \/ AlreadyRevealed(cfg) THEN "counts" ELSE "force")
    /\ UNCHANGED <<installVars, load, scope, cut, disk, parquet, refused, faults>>

\* ... and replace those of another one.
ForceReveal ==
    /\ at = "force"
    /\ IF ScopeReady
       THEN labels' = Revealed(cfg) /\ GoTo("counts")
       ELSE Leave /\ UNCHANGED labels
    /\ UNCHANGED <<installVars, load, scope, cut, disk, parquet, refused, faults>>

-------------------------------------------------------------------------------
(* prepare: the stages, each recorded in the manifest when it is done. *)

NewManifest ==
    [counts |-> load, hashes |-> Hashes, status |-> "preparing",
     accounts |-> Nothing, labels |-> Nothing, cutoffs |-> Nothing, hubs |-> Nothing]

\* The counts, and the manifest they and the settings name: a new one, or the one to
\* resume, whose inputs must be the same.
OpenManifest ==
    /\ at = "counts"
    /\ IF manifest = NoDataset
       THEN disk' = [disk EXCEPT ![ds] = NewManifest] /\ UNCHANGED refused
       ELSE /\ refused' = IF manifest.counts = load /\ manifest.hashes = Hashes
                       THEN refused ELSE refused \cup {ds}
            /\ UNCHANGED disk
    /\ IF refused' = refused
       THEN at' = "population" /\ counts' = load /\ UNCHANGED <<cfg, source>>
       ELSE Leave
    /\ UNCHANGED <<installVars, graphVars, parquet, faults>>

\* What the population query answers with: the accounts of the scope and their labels.
Population == [load |-> load, scope |-> scope[cfg.scope], labels |-> labels]

\* Mutant: a resumed preparation reads the population again.
PopulationAgain ==
    /\ at = "population"
    /\ IF ScopeReady
       THEN /\ parquet' = [parquet EXCEPT ![ds] = Population]
            /\ GoTo("record")
       ELSE Leave /\ UNCHANGED parquet
    /\ UNCHANGED <<installVars, graphVars, disk, refused, faults>>

\* _stage_population writes accounts.parquet unless the manifest records it ...
StagePopulation ==
    /\ at = "population"
    /\ IF parquet[ds] # Nothing /\ manifest.accounts # Nothing
       THEN GoTo("labels") /\ UNCHANGED parquet
       ELSE IF ScopeReady
       THEN /\ parquet' = [parquet EXCEPT ![ds] = Population]
            /\ GoTo("record")
       ELSE Leave /\ UNCHANGED parquet
    /\ UNCHANGED <<installVars, graphVars, disk, refused, faults>>

\* ... then records its digest.
RecordPopulation ==
    /\ at = "record"
    /\ Record("accounts", parquet[ds])
    /\ GoTo("labels")
    /\ UNCHANGED <<installVars, graphVars, parquet, refused, faults>>

\* _stage_labels: the observed labels are columns of the accounts on disk, whose digest
\* must be the recorded one.
StageLabels ==
    /\ at = "labels"
    /\ IF parquet[ds] # manifest.accounts
       THEN Leave /\ UNCHANGED disk
       ELSE /\ IF manifest.labels = Nothing
               THEN Record("labels", parquet[ds].labels)
               ELSE UNCHANGED disk
            /\ GoTo("cutoffs")
    /\ UNCHANGED <<installVars, graphVars, parquet, refused, faults>>

\* _stage_cutoffs: the clocks of the events in the graph.
StageCutoffs ==
    /\ at = "cutoffs"
    /\ IF manifest.cutoffs = Nothing THEN Record("cutoffs", load) ELSE UNCHANGED disk
    /\ GoTo("hubs")
    /\ UNCHANGED <<installVars, graphVars, parquet, refused, faults>>

\* _stage_hubs: the hub registry of the scope.
StageHubs ==
    /\ at = "hubs"
    /\ IF manifest.hubs = Nothing
       THEN Record("hubs", [load |-> load, scope |-> scope[cfg.scope]])
       ELSE UNCHANGED disk
    /\ GoTo("ready")
    /\ UNCHANGED <<installVars, graphVars, parquet, refused, faults>>

\* prepare() ends with a ready manifest ...
MarkReady ==
    /\ at = "ready"
    /\ Record("status", "ready")
    /\ GoTo("compare")
    /\ UNCHANGED <<installVars, graphVars, parquet, refused, faults>>

\* ... and only then does prepare_dataset compare the counts once more.
Compare ==
    /\ at = "compare"
    /\ IF load = counts
       THEN GoTo("open") /\ UNCHANGED <<disk, refused>>
       ELSE /\ Record("status", "source_changed")
            /\ refused' = refused \cup {ds}
            /\ Leave
    /\ UNCHANGED <<installVars, graphVars, parquet, faults>>

-------------------------------------------------------------------------------
(* A run opens the dataset. *)

\* load_prepared: a ready dataset of the current query texts and of its digests.
Prepared ==
    /\ manifest.status = "ready"
    /\ manifest.hashes = Hashes
    /\ parquet[ds] = manifest.accounts

\* Mutant: the gate takes the graph's counts on trust.
FrozenUncounted == ScopeVerified(source, cfg) /\ AlreadyRevealed(cfg)

\* verify_frozen_source: the counts, the scope and, by a dry run, the labels.
Frozen ==
    /\ manifest.counts = load
    /\ ScopeVerified(source, cfg)
    /\ AlreadyRevealed(cfg)

\* The gate: stale queries ask for `mule install`, anything else for a new dataset.
Open ==
    /\ at = "open"
    /\ IF Problems = {} /\ Prepared /\ Frozen
       THEN GoTo("running") /\ UNCHANGED refused
       ELSE /\ refused' = IF Problems = {} THEN refused \cup {ds} ELSE refused
            /\ Leave
    /\ UNCHANGED <<installVars, graphVars, disk, parquet, faults>>

\* The run ends.
EndRun ==
    /\ at = "running"
    /\ Leave
    /\ UNCHANGED <<installVars, graphVars, disk, parquet, refused, faults>>

-------------------------------------------------------------------------------
(* The person at the command line and the graph. *)

\* Move a dataset aside that a command was refused for.
MoveAside(d) ==
    /\ at = "idle"
    /\ d \in refused
    /\ disk' = [disk EXCEPT ![d] = NoDataset]
    /\ parquet' = [parquet EXCEPT ![d] = Nothing]
    /\ refused' = refused \ {d}
    /\ UNCHANGED <<installVars, graphVars, commandVars, faults>>

Fault ==
    /\ faults < MaxFaults
    /\ faults' = faults + 1

\* More data is loaded, with mules the reveal has not labelled or without.
Ingest ==
    /\ Fault
    /\ load' = load + 1
    /\ \/ UNCHANGED labels
       \/ labels # NoLabels /\ labels' = [labels EXCEPT !.every = FALSE]
    /\ UNCHANGED <<installVars, scope, cut, disk, parquet, commandVars, refused>>

\* CLEAR GRAPH STORE and a load: scopes and labels are gone, the queries stay.
ClearGraph ==
    /\ load' = load + 1
    /\ scope' = [s \in ScopeIds |-> NoScope]
    /\ labels' = NoLabels
    /\ cut' = {}
    /\ UNCHANGED <<installVars, disk, parquet, commandVars, refused>>

Reload == Fault /\ ClearGraph

\* What the refusal of outdated types on a graph with scopes says to do.
ReloadForTypes ==
    /\ at = "idle"
    /\ Outdated
    /\ HasScopes
    /\ ClearGraph
    /\ UNCHANGED faults

UpdateRepository ==
    /\ Fault
    /\ at = "idle"
    /\ \E edit \in Edits : Update(edit)
    /\ UNCHANGED <<graphVars, disk, parquet, commandVars, refused>>

\* The process dies, or a call of it fails for good.
Die ==
    /\ Fault
    /\ at # "idle"
    /\ cut' = IF at = "finalize" THEN cut \cup {cfg.scope} ELSE cut
    /\ LeaveInstall
    /\ Leave
    /\ UNCHANGED <<load, scope, labels, disk, parquet, refused>>

ServerFault == Fault /\ (GiveUp \/ CompileFails)
                     /\ UNCHANGED <<graphVars, disk, parquet, commandVars, refused>>

CompileStep == (\E q \in Queries : Compile(q)) /\ UNCHANGED prepareVars

Command ==
    \/ Install \/ InstallFailed \/ Installed \/ EnsureScope \/ FinalizeScope
    \/ Reveal \/ ForceReveal \/ OpenManifest \/ StagePopulation \/ RecordPopulation
    \/ StageLabels \/ StageCutoffs \/ StageHubs \/ MarkReady \/ Compare \/ Open \/ EndRun

Next ==
    \/ \E c \in Configs : Start(c)
    \/ StartInstall
    \/ Command
    \/ CompileStep
    \/ \E d \in DatasetIds : MoveAside(d)
    \/ ReloadForTypes
    \/ Ingest \/ Reload \/ UpdateRepository \/ Die \/ ServerFault

\* A command goes on, a compilation ends, and the person runs every command again and
\* does what a refusal says, however often the other commands run in between.
Fairness ==
    /\ WF_vars(Command)
    /\ WF_vars(CompileStep)
    /\ \A c \in Configs : SF_vars(Start(c))
    /\ SF_vars(StartInstall)
    /\ SF_vars((\E d \in DatasetIds : MoveAside(d)) \/ ReloadForTypes)

Spec == Init /\ [][Next]_vars /\ Fairness

-------------------------------------------------------------------------------
(* Properties. *)

\* Every variable has its type.
TypeOK ==
    /\ InstallTypeOK
    /\ load \in Loads
    /\ scope \in [ScopeIds -> Scopes \cup {NoScope}]
    /\ labels \in Reveals \cup {NoLabels}
    /\ disk \in [DatasetIds -> Manifests \cup {NoDataset}]
    /\ parquet \in [DatasetIds -> Populations \cup {Nothing}]
    /\ at \in {"idle", "install", "replacing", "scope", "finalize", "reveal", "force", "counts",
               "population", "record", "labels", "cutoffs", "hubs", "ready", "compare",
               "open", "running"}
    /\ cfg \in Configs
    /\ {source, counts} \subseteq Loads \cup {0}
    /\ cut \subseteq ScopeIds
    /\ refused \subseteq DatasetIds
    /\ faults \in 0..MaxFaults

\* What a run of the dataset that is open reads: the parts of the manifest.
PartsOfGraph ==
    /\ manifest.accounts.load = load
    /\ manifest.accounts.scope = scope[cfg.scope]
    /\ manifest.cutoffs = load
    /\ manifest.hubs = [load |-> load, scope |-> scope[cfg.scope]]
    /\ manifest.labels = manifest.accounts.labels
    /\ manifest.labels.reveal = cfg.reveal
    /\ labels.reveal = cfg.reveal /\ labels.every

\* verify_frozen_source: whatever died, changed or was revealed since, a run begins only on
\* a dataset whose every part was read from the graph as it is now: one load, one scope
\* with its membership, and labels with the record of its own reveal.
RunsOnWhatWasPrepared ==
    [][at = "open" /\ at' = "running" => PartsOfGraph]_vars

\* "A stopped preparation resumes" (docs/reference/cli.md): however the commands of the
\* configurations take turns, once the faults are over every configuration gets its run
\* again and again.  Excepted are those on a scope whose command died between the two writes:
\* its vertex is there, not ready, and every later command is refused for it.
Resumes == \A c \in Configs : []<>(c.scope \in cut \/ (at = "running" /\ cfg = c))

\* A part of a dataset that is kept is read once; what is recorded is what is on disk.
KeepsParts ==
    \A d \in DatasetIds :
        /\ disk[d] # NoDataset /\ disk'[d] # NoDataset =>
             \A part \in {"accounts", "labels", "cutoffs", "hubs"} :
                disk[d][part] # Nothing => disk'[d][part] = disk[d][part]
        /\ disk'[d] # NoDataset /\ disk'[d].accounts # Nothing =>
             parquet'[d] = disk'[d].accounts

\* "a resumed preparation skips the stages the manifest records": no step reads or replaces
\* a part that is recorded, or its file.
PartsReadOnce == [][KeepsParts]_vars
===============================================================================
