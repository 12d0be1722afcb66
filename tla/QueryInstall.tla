----------------------------- MODULE QueryInstall -----------------------------
(***************************************************************************)
(* install of tigergraph/installer.py, on one command at a time: bring the *)
(* queries of the repository's GSQL files and the scope's types onto the   *)
(* server.  A text is known by its version, 0 for one the server lacks.    *)
(*                                                                         *)
(* The server is external and follows what the installer and               *)
(* docs/reference/queries.md say of it: CREATE OR REPLACE disables the     *)
(* endpoint of the query it replaces, and of no other, until the query is  *)
(* installed again, so that a compilation of the old text enables nothing; *)
(* compiling a query links the texts its callees have at that moment into  *)
(* it; a request without -force skips what is enabled; and a compilation   *)
(* goes on when the client gives up or dies, beside the next install too.  *)
(***************************************************************************)
EXTENDS Integers, Sequences, FiniteSets

CONSTANTS
    Queries,    \* the queries of the repository
    CallPairs,  \* <<caller, callee>>: which query's text calls which
    Files,      \* the GSQL files in install order, each the set of its queries
    UseTypes,   \* the queries whose text names a scope type
    ScopeTypes, \* the name of gsql/schema/scope_vertex.gsql among the sources
    Edits       \* what an update of the repository may change: sets of sources

Sources == Queries \cup {ScopeTypes}

ASSUME InstallAssumption ==
    /\ ScopeTypes \notin Queries
    /\ CallPairs \subseteq Queries \X Queries
    /\ UseTypes \subseteq Queries
    /\ Edits \subseteq SUBSET Sources
    /\ Files \in Seq(SUBSET Queries)
    /\ UNION {Files[f] : f \in DOMAIN Files} = Queries
    \* A query is created after those it calls, or the server would refuse its text.
    /\ \A pair \in CallPairs, f \in DOMAIN Files :
         pair[1] \in Files[f] => \E g \in 1..f : pair[2] \in Files[g]

VARIABLES
    repo,      \* the version of every source in the repository
    text,      \* the version of every query's text on the server, 0 without it
    enabled,   \* the queries whose REST endpoint is installed and enabled
    compiled,  \* per query: the versions of the texts linked into its endpoint
    types,     \* the version of the graph's scope types, 0 without them
    job,       \* the queries the server is compiling
    step,      \* where the command's install is
    names,     \* the queries it installs
    created,   \* the queries it still has to create
    drops,     \* the queries it still has to drop before it replaces the types
    forced,    \* whether it replaced the types, so that it installs with -force
    torn       \* history: the endpoints that a command ended before it created again

serverVars == <<text, enabled, compiled, types, job>>
clientVars == <<step, names, created, drops, forced>>
installVars == <<repo, serverVars, clientVars, torn>>

Versions == 0..2

Closed(S) == \A pair \in CallPairs : pair[2] \in S => pair[1] \in S

\* _with_callers: S and every query that calls one of them, directly or not.
WithCallers(S) ==
    {q \in Queries : \A T \in SUBSET Queries : S \subseteq T /\ Closed(T) => q \in T}

\* The texts linked into a query: its own and those it calls, directly or not.
Linked(q) == {p \in Queries : q \in WithCallers({p})}

Texts(q) == [p \in Linked(q) |-> text[p]]

\* query_problems: the queries whose server text is missing or differs ...
Differing == {q \in Queries : text[q] # repo[q]}

\* ... and those with any problem, such as a disabled endpoint.
Problems == Differing \cup (Queries \ enabled)

\* scope_schema: the graph's types are neither missing nor those of the file.
Outdated == types \notin {0, repo[ScopeTypes]}

InstallInit ==
    /\ repo = [s \in Sources |-> 1]
    /\ text = [q \in Queries |-> 0]
    /\ enabled = {}
    /\ compiled = [q \in Queries |-> [p \in Linked(q) |-> 0]]
    /\ types = 0
    /\ job = {}
    /\ step = "idle"
    /\ names = {}
    /\ created = {}
    /\ drops = {}
    /\ forced = FALSE
    /\ torn = {}

-------------------------------------------------------------------------------
(* The client. *)

\* scope_dependents: the server's queries that name a scope type or call one that does.
Dependents == {q \in WithCallers({p \in UseTypes : text[p] # 0}) : text[q] # 0}

\* install begins with the scope types.  Outdated ones are refused, unless the command may
\* replace them (`mule install`) and no scope vertex stands on them.
BeginInstall(replace, hasScopes) ==
    /\ step = "idle"
    /\ IF Outdated
       THEN IF replace /\ ~hasScopes
            THEN step' = "drop" /\ drops' = Dependents /\ forced' = TRUE
            ELSE step' = "failed" /\ UNCHANGED <<drops, forced>>
       ELSE /\ step' = IF types = 0 THEN "types" ELSE "check"
            /\ UNCHANGED <<drops, forced>>
    /\ UNCHANGED <<repo, serverVars, names, created, torn>>

\* replace_scope_types: DROP QUERY one by one, callers first ...
DropQuery ==
    /\ step = "drop"
    /\ \E q \in drops :
         /\ \A pair \in CallPairs : pair[2] = q => pair[1] \notin drops
         /\ drops' = drops \ {q}
         /\ text' = [text EXCEPT ![q] = 0]
         /\ enabled' = enabled \ {q}
         /\ job' = job \ {q}
         /\ torn' = torn \ {q}
    /\ UNCHANGED <<repo, compiled, types, step, names, created, forced>>

\* ... then the types.
DropTypes ==
    /\ step = "drop"
    /\ drops = {}
    /\ types' = 0
    /\ step' = "types"
    /\ UNCHANGED <<repo, text, enabled, compiled, job, names, created, drops, forced, torn>>

\* _add_scope_types: apply the repository's file to a graph without the types.
AddTypes ==
    /\ step = "types"
    /\ types' = repo[ScopeTypes]
    /\ step' = "check"
    /\ UNCHANGED <<repo, text, enabled, compiled, job, names, created, drops, forced, torn>>

\* Mutant: the callers of a query that is created again are not.
CheckAlone ==
    /\ step = "check"
    /\ names' = IF forced THEN Queries ELSE Problems
    /\ created' = Differing
    /\ step' = IF names' = {} THEN "verify" ELSE "create"
    /\ UNCHANGED <<repo, serverVars, drops, forced, torn>>

\* The stale queries, and among them those whose text has to be created again: each time
\* with their callers, which link them in.
Check ==
    /\ step = "check"
    /\ names' = IF forced THEN Queries ELSE WithCallers(Problems)
    /\ created' = WithCallers(Differing)
    /\ step' = IF names' = {} THEN "verify" ELSE "create"
    /\ UNCHANGED <<repo, serverVars, drops, forced, torn>>

\* One CREATE OR REPLACE per file, in file order.
Create ==
    /\ step = "create"
    /\ created # {}
    /\ \E f \in DOMAIN Files :
         /\ Files[f] \cap created # {}
         /\ \A g \in DOMAIN Files : g < f => Files[g] \cap created = {}
         /\ text' = [q \in Queries |->
                       IF q \in Files[f] \cap created THEN repo[q] ELSE text[q]]
         /\ enabled' = enabled \ (Files[f] \cap created)
         /\ job' = job \ (Files[f] \cap created)
         /\ torn' = torn \ (Files[f] \cap created)
         /\ created' = created \ Files[f]
    /\ UNCHANGED <<repo, compiled, types, step, names, drops, forced>>

\* The install request: the server compiles what is named and, without -force, not enabled,
\* beside what it still compiles of an earlier request.
Request ==
    /\ step = "create"
    /\ created = {}
    /\ job' = job \cup IF forced THEN names ELSE names \ enabled
    /\ step' = "wait"
    /\ UNCHANGED <<repo, text, enabled, compiled, types, names, created, drops, forced, torn>>

\* The request, its status or the endpoint listing says how the compilation ended.
Answered ==
    /\ step = "wait"
    /\ names \subseteq enabled \/ names \cap job = {}
    /\ step' = IF names \subseteq enabled THEN "verify" ELSE "failed"
    /\ UNCHANGED <<repo, serverVars, names, created, drops, forced, torn>>

\* The deadline passed while the server compiles.
GiveUp ==
    /\ step = "wait"
    /\ job # {}
    /\ step' = "failed"
    /\ UNCHANGED <<repo, serverVars, names, created, drops, forced, torn>>

\* verify_sources decides.
Verify ==
    /\ step = "verify"
    /\ step' = IF Problems = {} THEN "installed" ELSE "failed"
    /\ UNCHANGED <<repo, serverVars, names, created, drops, forced, torn>>

\* Of the queries still to be created, the endpoints that link a callee that need not be,
\* such as one that was created again just now.
LeftBehind ==
    IF step = "create"
    THEN {q \in created \cap enabled : (Linked(q) \ {q}) \cap (names \ created) # {}}
    ELSE {}

\* The command goes on or ends; the process forgets its install.
LeaveInstall ==
    /\ step' = "idle"
    /\ names' = {}
    /\ created' = {}
    /\ drops' = {}
    /\ forced' = FALSE
    /\ torn' = torn \cup LeftBehind
    /\ UNCHANGED <<repo, serverVars>>

InstallStep ==
    \/ DropQuery \/ DropTypes \/ AddTypes \/ Check \/ Create \/ Request \/ Answered \/ Verify

-------------------------------------------------------------------------------
(* The server and the repository. *)

Compile(q) ==
    /\ q \in job
    /\ job' = job \ {q}
    /\ enabled' = enabled \cup {q}
    /\ compiled' = [compiled EXCEPT ![q] = Texts(q)]
    /\ torn' = torn \ {q}
    /\ UNCHANGED <<repo, text, types, clientVars>>

\* The compilation fails: what is left of it stays as it was.
CompileFails ==
    /\ job # {}
    /\ job' = {}
    /\ UNCHANGED <<repo, text, enabled, compiled, types, clientVars, torn>>

\* The repository's files are updated between two commands.
Update(edit) ==
    /\ step = "idle"
    /\ repo' = [s \in Sources |-> IF s \in edit THEN 2 ELSE repo[s]]
    /\ UNCHANGED <<serverVars, clientVars, torn>>

-------------------------------------------------------------------------------
(* Properties. *)

\* Every variable has its type.
InstallTypeOK ==
    /\ repo \in [Sources -> {1, 2}]
    /\ text \in [Queries -> Versions]
    /\ enabled \subseteq Queries
    /\ DOMAIN compiled = Queries
    /\ \A q \in Queries : compiled[q] \in [Linked(q) -> Versions]
    /\ types \in Versions
    /\ job \subseteq Queries
    /\ step \in {"idle", "drop", "types", "check", "create", "wait", "verify", "installed",
                 "failed"}
    /\ names \subseteq Queries /\ created \subseteq Queries /\ drops \subseteq Queries
    /\ forced \in BOOLEAN /\ torn \subseteq Queries

\* The endpoint serves the repository's text, linked with that of every query it calls.
LinksCurrent(q) == q \in enabled /\ compiled[q] = [p \in Linked(q) |-> repo[p]]

\* "changing encode_fourier64 reinstalls the context query" (docs/reference/queries.md):
\* whatever compilations failed, were given up or still went on before, an install that
\* verifies leaves every endpoint linked with the current texts.  Excepted is an endpoint
\* whose callee an earlier command created again, and which that command ended before it
\* created again too: the next one finds the callee's text current and the caller's endpoint
\* enabled, and never links the caller again.
InstalledLinks == step = "installed" => \A q \in Queries \ torn : LinksCurrent(q)
===============================================================================
