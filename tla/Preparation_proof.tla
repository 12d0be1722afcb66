-------------------------- MODULE Preparation_proof --------------------------
(***************************************************************************)
(* Proofs about Preparation and QueryInstall: what an install that         *)
(* verifies leaves on the server, which parts a dataset keeps, and what a  *)
(* run that begins reads.                                                  *)
(***************************************************************************)
EXTENDS Preparation, TLAPS

USE InstallAssumption DEF InstallAssumption

-----------------------------------------------------------------------------
(* Queries and those that call them. *)

\* The callers of some queries are a set of queries that has those, is closed under calls,
\* and is within every set that has and is.
LEMMA CallersLeast ==
    ASSUME NEW S \in SUBSET Queries
    PROVE  /\ S \subseteq WithCallers(S)
           /\ WithCallers(S) \in SUBSET Queries
           /\ Closed(WithCallers(S))
           /\ \A T \in SUBSET Queries : S \subseteq T /\ Closed(T) => WithCallers(S) \subseteq T
<1>1. \A T \in SUBSET Queries : S \subseteq T /\ Closed(T) => WithCallers(S) \subseteq T
  BY DEF WithCallers
<1>2. S \subseteq WithCallers(S) /\ WithCallers(S) \in SUBSET Queries
  BY DEF WithCallers
<1>3. ASSUME NEW pair \in CallPairs, pair[2] \in WithCallers(S)
      PROVE  pair[1] \in WithCallers(S)
  <2>1. pair[1] \in Queries
    OBVIOUS
  <2>2. ASSUME NEW T \in SUBSET Queries, S \subseteq T, Closed(T) PROVE pair[1] \in T
    BY <1>1, <1>3, <2>2 DEF Closed
  <2>3. QED
    BY <2>1, <2>2 DEF WithCallers
<1>4. Closed(WithCallers(S))
  BY <1>3 DEF Closed
<1>5. QED
  BY <1>1, <1>2, <1>4

\* The callers of a caller are callers.
LEMMA CallersOfCallers ==
    ASSUME NEW S \in SUBSET Queries, NEW p \in WithCallers(S)
    PROVE  WithCallers({p}) \subseteq WithCallers(S)
<1>1. p \in Queries /\ {p} \in SUBSET Queries
  BY CallersLeast
<1>2. QED
  BY <1>1, CallersLeast

-----------------------------------------------------------------------------
(* The invariant of an install. *)

\* What the server has enabled or compiles has a text.
Compiling == \A q \in enabled \cup job : text[q] # 0

\* While the files are created: every other text is the repository's, and the callers of
\* what is still to be created are too, or are disabled and not compiled.
Creating ==
    step = "create" =>
        /\ created \subseteq names
        /\ \A q \in Queries \ created : text[q] = repo[q]
        /\ \A p \in created : \A q \in WithCallers({p}) : q \in enabled \cup job => q \in created

\* A query on the server has what it calls; while the queries are dropped, the callers of
\* those that will be dropped will be too.
Complete ==
    /\ \A pair \in CallPairs : text[pair[1]] # 0 => text[pair[2]] # 0
    /\ step = "drop" => \A pair \in CallPairs :
                           pair[2] \in drops /\ text[pair[1]] # 0 => pair[1] \in drops

\* An endpoint serves the texts the server has now, or would be left behind if the command
\* ended here, or was by an earlier one.
Fresh == \A q \in enabled : compiled[q] = Texts(q) \/ q \in torn \cup LeftBehind

Verified == step = "installed" => Problems = {}

InstallInv ==
    /\ InstallTypeOK
    /\ Compiling /\ Creating /\ Verified
    /\ Complete /\ Fresh

\* A query without callers on the server is linked into no endpoint but its own.
LEMMA Uncalled ==
    ASSUME InstallTypeOK, Compiling,
           \A pair \in CallPairs : text[pair[1]] # 0 => text[pair[2]] # 0,
           NEW q \in Queries,
           \A pair \in CallPairs : pair[2] = q => text[pair[1]] = 0,
           NEW r \in enabled, q \in Linked(r)
    PROVE  r = q
<1> DEFINE T == {q} \cup {p \in Queries : text[p] = 0}
<1>1. Closed(T)
  <2> SUFFICES ASSUME NEW pair \in CallPairs, pair[2] \in T PROVE pair[1] \in T
    BY DEF Closed
  <2>1. pair[1] \in Queries
    OBVIOUS
  <2>2. QED
    BY <2>1
<1>2. T \in SUBSET Queries /\ {q} \subseteq T
  OBVIOUS
<1>3. r \in WithCallers({q})
  BY DEF Linked
<1>4. r \in T
  BY <1>1, <1>2, <1>3, CallersLeast
<1>5. QED
  BY <1>4 DEF Compiling

\* Nothing is being installed at first.
LEMMA InstallInitInv == InstallInit => InstallInv
<1> SUFFICES ASSUME InstallInit PROVE InstallInv
  OBVIOUS
<1>1. InstallTypeOK
  <2>1. \A q \in Queries : compiled[q] \in [Linked(q) -> Versions]
    BY DEF InstallInit, Versions
  <2>2. repo \in [Sources -> {1, 2}] /\ text \in [Queries -> Versions] /\ types \in Versions
    BY DEF InstallInit, Versions
  <2>3. DOMAIN compiled = Queries
    BY DEF InstallInit
  <2>4. QED
    BY <2>1, <2>2, <2>3 DEF InstallInit, InstallTypeOK
<1>2. Compiling /\ Creating /\ Verified /\ Complete /\ Fresh
  BY DEF InstallInit, Compiling, Creating, Verified, Complete, Fresh, Sources
<1>3. QED
  BY <1>1, <1>2 DEF InstallInv

\* What the steps of an install may be, for any command.
InstallAct ==
    \/ \E replace, hasScopes \in BOOLEAN : BeginInstall(replace, hasScopes)
    \/ InstallStep \/ LeaveInstall \/ GiveUp \/ CompileFails
    \/ \E q \in Queries : Compile(q)
    \/ \E edit \in Edits : Update(edit)
    \/ UNCHANGED installVars

\* Every step keeps the types.
LEMMA InstallType == InstallTypeOK /\ InstallAct => InstallTypeOK'
<1> SUFFICES ASSUME InstallTypeOK, InstallAct PROVE InstallTypeOK'
  OBVIOUS
<1> USE DEF InstallTypeOK
<1>1. ASSUME NEW replace, NEW hasScopes, BeginInstall(replace, hasScopes) PROVE InstallTypeOK'
  <2>1. Dependents \in SUBSET Queries
    BY DEF Dependents, WithCallers
  <2>2. /\ UNCHANGED <<repo, text, enabled, compiled, types, job, names, created, torn>>
        /\ step' \in {"drop", "failed", "types", "check"}
        /\ drops' \in {drops, Dependents} /\ forced' \in {forced, TRUE}
    BY <1>1 DEF BeginInstall, serverVars
  <2>3. QED
    BY <2>1, <2>2
<1>2. CASE DropQuery
  BY <1>2 DEF DropQuery, Versions
<1>3. CASE DropTypes \/ AddTypes
  BY <1>3 DEF DropTypes, AddTypes, Versions, Sources
<1>4. CASE Check
  BY <1>4 DEF Check, WithCallers, serverVars
<1>5. CASE Create
  BY <1>5 DEF Create, Versions, Sources
<1>6. CASE Request \/ Answered \/ Verify \/ GiveUp \/ CompileFails
  BY <1>6 DEF Request, Answered, Verify, GiveUp, CompileFails, serverVars, clientVars
<1>7. CASE LeaveInstall
  BY <1>7 DEF LeaveInstall, LeftBehind, serverVars
<1>8. ASSUME NEW q \in Queries, Compile(q) PROVE InstallTypeOK'
  <2>1. Texts(q) \in [Linked(q) -> Versions]
    BY DEF Texts, Linked
  <2>2. QED
    BY <1>8, <2>1 DEF Compile, clientVars
<1>9. ASSUME NEW edit \in Edits, Update(edit) PROVE InstallTypeOK'
  BY <1>9 DEF Update, serverVars, clientVars
<1>10. CASE UNCHANGED installVars
  BY <1>10 DEF installVars, serverVars, clientVars
<1>11. QED
  BY <1>1, <1>2, <1>3, <1>4, <1>5, <1>6, <1>7, <1>8, <1>9, <1>10 DEF InstallAct, InstallStep

\* Every step of an install keeps its invariant.
LEMMA InstallNext == InstallInv /\ InstallAct => InstallInv'
<1> SUFFICES ASSUME InstallInv, InstallAct
             PROVE  Compiling' /\ Creating' /\ Verified' /\ Complete' /\ Fresh'
  BY InstallType DEF InstallInv
<1> USE DEF InstallInv
<1>t. InstallTypeOK
  OBVIOUS
<1>p. \A pair \in CallPairs : pair[1] \in Queries /\ pair[2] \in Queries
  OBVIOUS
<1>z. \A q \in Queries : repo[q] # 0
  BY DEF InstallTypeOK, Sources
<1> DEFINE Goal == Compiling' /\ Creating' /\ Verified' /\ Complete' /\ Fresh'
<1>1. ASSUME NEW replace, NEW hasScopes, BeginInstall(replace, hasScopes) PROVE Goal
  <2>1. \A pair \in CallPairs :
          pair[2] \in Dependents /\ text[pair[1]] # 0 => pair[1] \in Dependents
    <3> DEFINE U == {p \in UseTypes : text[p] # 0}
    <3>1. Closed(WithCallers(U))
      BY CallersLeast
    <3>2. QED
      BY <3>1, <1>p DEF Dependents, Closed
  <2>2. /\ UNCHANGED <<repo, text, enabled, compiled, job, torn>>
        /\ step = "idle"
        /\ step' \in {"drop", "types", "check", "failed"}
        /\ step' = "drop" => drops' = Dependents
    BY <1>1 DEF BeginInstall, serverVars
  <2>3. Compiling' /\ Creating' /\ Verified'
    BY <2>2 DEF Compiling, Creating, Verified
  <2>4. Complete' /\ Fresh'
    BY <2>1, <2>2 DEF Complete, Fresh, Texts, LeftBehind
  <2>5. QED
    BY <2>3, <2>4
<1>2. CASE DropQuery
  <2>1. PICK q \in drops :
          /\ \A pair \in CallPairs : pair[2] = q => pair[1] \notin drops
          /\ drops' = drops \ {q}
          /\ text' = [text EXCEPT ![q] = 0]
          /\ enabled' = enabled \ {q}
          /\ job' = job \ {q}
          /\ torn' = torn \ {q}
    BY <1>2 DEF DropQuery
  <2>2. step = "drop" /\ UNCHANGED <<repo, compiled, types, step, names, created, forced>>
    BY <1>2 DEF DropQuery
  <2>3. q \in Queries /\ drops \subseteq Queries /\ text \in [Queries -> Versions]
    BY <1>t DEF InstallTypeOK
  <2>4. \A p \in Queries : text'[p] = IF p = q THEN 0 ELSE text[p]
    BY <2>1, <2>3
  <2>5. Compiling' /\ Creating' /\ Verified'
    BY <1>t, <2>1, <2>2, <2>4 DEF Compiling, Creating, Verified, InstallTypeOK
  <2>6. Complete' /\ Fresh'
    <3>1. \A pair \in CallPairs : text[pair[1]] # 0 => text[pair[2]] # 0
      BY DEF Complete
    <3>2. \A pair \in CallPairs : pair[2] = q => text[pair[1]] = 0
      BY <2>1, <2>2 DEF Complete
    <3>3. Complete'
      BY <2>1, <2>2, <2>4, <3>1, <3>2, <1>p DEF Complete
    <3>4. ASSUME NEW r \in enabled', r \notin torn' PROVE compiled'[r] = Texts(r)'
      <4>1. r \in enabled /\ r # q /\ r \notin torn /\ LeftBehind = {}
        BY <2>1, <2>2, <3>4 DEF LeftBehind
      <4>2. q \notin Linked(r)
        BY <1>t, <2>3, <3>1, <3>2, <4>1, Uncalled
      <4>3. \A p \in Linked(r) : text'[p] = text[p]
        BY <2>4, <4>2 DEF Linked
      <4>4. compiled[r] = Texts(r)
        BY <4>1 DEF Fresh
      <4>5. QED
        BY <2>2, <4>3, <4>4 DEF Texts
    <3>5. QED
      BY <3>3, <3>4 DEF Fresh
  <2>7. QED
    BY <2>5, <2>6
<1>3. CASE DropTypes \/ AddTypes
  <2>1. /\ UNCHANGED <<repo, text, enabled, compiled, job, created, drops, torn>>
        /\ step \in {"drop", "types"} /\ step' \in {"types", "check"}
    BY <1>3 DEF DropTypes, AddTypes
  <2>2. QED
    BY <2>1 DEF Compiling, Creating, Verified, Complete, Fresh, Texts, LeftBehind
<1>4. CASE Check
  <2>1. /\ UNCHANGED <<repo, text, enabled, compiled, job, drops, torn>>
        /\ step = "check" /\ step' \in {"verify", "create"}
        /\ names' \in {Queries, WithCallers(Problems)}
        /\ created' = WithCallers(Differing)
    BY <1>4 DEF Check, serverVars
  <2>2. Differing \in SUBSET Queries /\ Problems \in SUBSET Queries /\ Differing \subseteq Problems
    BY DEF Differing, Problems
  <2>3. Creating'
    <3>1. \A q \in Queries \ WithCallers(Differing) : text[q] = repo[q]
      BY <2>2, CallersLeast DEF Differing
    <3>2. \A p \in WithCallers(Differing) : WithCallers({p}) \subseteq WithCallers(Differing)
      BY <2>2, CallersOfCallers
    <3>3. created' \subseteq names'
      <4>1. WithCallers(Problems) \in SUBSET Queries /\ Closed(WithCallers(Problems))
            /\ Problems \subseteq WithCallers(Problems)
        BY <2>2, CallersLeast
      <4>2. WithCallers(Differing) \subseteq WithCallers(Problems)
        BY <2>2, <4>1, CallersLeast
      <4>3. QED
        BY <2>1, <4>1, <4>2
    <3> HIDE DEF WithCallers
    <3>4. \A p : WithCallers({p})' = WithCallers({p})
      BY DEF WithCallers, Closed
    <3>5. QED
      BY <2>1, <3>1, <3>2, <3>3, <3>4 DEF Creating
  <2>4. Compiling' /\ Verified'
    BY <2>1 DEF Compiling, Verified
  <2>5. Complete' /\ Fresh'
    BY <2>1 DEF Complete, Fresh, Texts, LeftBehind
  <2>6. QED
    BY <2>3, <2>4, <2>5
<1>5. CASE Create
  <2>1. PICK f \in DOMAIN Files :
          /\ \A g \in DOMAIN Files : g < f => Files[g] \cap created = {}
          /\ text' = [q \in Queries |->
                       IF q \in Files[f] \cap created THEN repo[q] ELSE text[q]]
          /\ enabled' = enabled \ (Files[f] \cap created)
          /\ job' = job \ (Files[f] \cap created)
          /\ torn' = torn \ (Files[f] \cap created)
          /\ created' = created \ Files[f]
    BY <1>5 DEF Create
  <2>2. /\ step = "create"
        /\ UNCHANGED <<repo, compiled, types, step, names, drops, forced>>
    BY <1>5 DEF Create
  <2>3. /\ created \subseteq names
        /\ \A q \in Queries \ created : text[q] = repo[q]
        /\ \A p \in created : \A q \in WithCallers({p}) : q \in enabled \cup job => q \in created
    BY <2>2 DEF Creating
  <2>4. \A q \in Queries : text'[q] = IF q \in Files[f] \cap created THEN repo[q] ELSE text[q]
    BY <2>1
  <2>5. Creating'
    BY <2>1, <2>2, <2>3, <2>4 DEF Creating, WithCallers, Closed
  <2>6. Compiling' /\ Verified'
    BY <1>t, <1>z, <2>1, <2>2, <2>4 DEF Compiling, Verified, InstallTypeOK
  <2>7. Complete'
    <3> SUFFICES ASSUME NEW pair \in CallPairs, text'[pair[1]] # 0 PROVE text'[pair[2]] # 0
      BY <2>2 DEF Complete
    <3>1. CASE text[pair[2]] # 0
      BY <1>p, <1>z, <2>4, <3>1
    <3>2. CASE text[pair[2]] = 0
      <4>1. pair[1] \in Files[f] \cap created
        BY <1>p, <2>4, <3>2 DEF Complete
      <4>2. pair[2] \in created
        BY <1>p, <1>z, <2>3, <3>2
      <4>3. PICK g \in 1..f : pair[2] \in Files[g]
        BY <4>1
      <4>4. f \in 1..Len(Files) /\ Len(Files) \in Nat
        OBVIOUS
      <4>5. g \in DOMAIN Files /\ (g < f \/ g = f)
        BY <4>4
      <4>6. g = f
        BY <2>1, <4>2, <4>3, <4>5
      <4>7. QED
        BY <1>p, <1>z, <2>4, <4>2, <4>3, <4>6
    <3>3. QED
      BY <3>1, <3>2
  <2>8. Fresh'
    <3> SUFFICES ASSUME NEW r \in enabled', r \notin torn', compiled'[r] # Texts(r)'
                 PROVE  r \in LeftBehind'
      BY DEF Fresh
    <3>1. r \in Queries /\ r \in enabled /\ r \notin Files[f] \cap created /\ r \notin torn
      BY <1>t, <2>1 DEF InstallTypeOK
    <3>2. CASE r \in LeftBehind
      BY <2>1, <2>2, <3>1, <3>2 DEF LeftBehind
    <3>3. CASE compiled[r] = Texts(r)
      <4>1. PICK p \in Linked(r) : text'[p] # text[p]
        BY <2>2, <3>3 DEF Texts
      <4>2. p \in Queries /\ p \in Files[f] \cap created /\ r \in WithCallers({p})
        BY <2>4, <4>1 DEF Linked
      <4>3. r \in created /\ p # r
        BY <2>3, <3>1, <4>2
      <4>4. p \in (Linked(r) \ {r}) \cap (names' \ created')
        BY <2>1, <2>2, <2>3, <4>1, <4>2, <4>3
      <4>5. r \in created' \cap enabled'
        BY <2>1, <3>1, <4>3
      <4>6. QED
        BY <2>2, <4>4, <4>5 DEF LeftBehind
    <3>4. QED
      BY <3>1, <3>2, <3>3 DEF Fresh
  <2>9. QED
    BY <2>5, <2>6, <2>7, <2>8
<1>6. CASE Request
  <2>1. /\ UNCHANGED <<repo, text, enabled, compiled, created, drops, torn>>
        /\ step = "create" /\ created = {} /\ step' = "wait"
        /\ job' \subseteq job \cup names
    BY <1>6 DEF Request
  <2>2. \A q \in Queries : text[q] # 0
    BY <1>z, <2>1 DEF Creating
  <2>3. Compiling'
    BY <1>t, <2>1, <2>2 DEF Compiling, InstallTypeOK
  <2>4. QED
    BY <2>1, <2>3 DEF Creating, Verified, Complete, Fresh, Texts, LeftBehind
<1>7. CASE Answered \/ Verify \/ GiveUp \/ CompileFails
  <2>1. /\ UNCHANGED <<repo, text, enabled, compiled, names, created, drops, torn>>
        /\ \/ step' = step /\ job' = {}
           \/ step \in {"wait", "verify"} /\ job' = job /\ step' \in {"failed", "verify"}
           \/ step = "verify" /\ job' = job /\ step' = "installed" /\ Problems = {}
    BY <1>7 DEF Answered, Verify, GiveUp, CompileFails, serverVars, clientVars
  <2>2. Compiling' /\ Creating'
    BY <2>1 DEF Compiling, Creating, WithCallers, Closed
  <2>3. Verified'
    BY <2>1 DEF Verified, Problems, Differing
  <2>4. Complete' /\ Fresh'
    BY <2>1 DEF Complete, Fresh, Texts, LeftBehind
  <2>5. QED
    BY <2>2, <2>3, <2>4
<1>8. CASE LeaveInstall
  <2>1. /\ UNCHANGED <<repo, text, enabled, compiled, job>>
        /\ step' = "idle" /\ torn' = torn \cup LeftBehind
    BY <1>8 DEF LeaveInstall, serverVars
  <2>2. QED
    BY <2>1 DEF Compiling, Creating, Verified, Complete, Fresh, Texts
<1>9. ASSUME NEW q \in Queries, Compile(q) PROVE Goal
  <2>1. /\ q \in job /\ job' = job \ {q}
        /\ enabled' = enabled \cup {q}
        /\ compiled' = [compiled EXCEPT ![q] = Texts(q)]
        /\ torn' = torn \ {q}
        /\ UNCHANGED <<repo, text, step, names, created, drops>>
    BY <1>9 DEF Compile, clientVars
  <2>2. Compiling' /\ Complete'
    BY <2>1 DEF Compiling, Complete
  <2>3. Creating'
    BY <2>1 DEF Creating, WithCallers, Closed
  <2>4. Verified'
    BY <2>1 DEF Verified, Problems, Differing
  <2>5. ASSUME NEW r \in enabled' PROVE compiled'[r] = Texts(r)' \/ r \in torn' \cup LeftBehind'
    <3>1. Texts(r)' = Texts(r)
      BY <2>1 DEF Texts
    <3>2. CASE r = q
      BY <1>t, <2>1, <3>1, <3>2 DEF InstallTypeOK
    <3>3. CASE r # q
      <4>1. r \in enabled /\ (compiled[r] = Texts(r) \/ r \in torn \cup LeftBehind)
        BY <2>1, <3>3 DEF Fresh
      <4>2. compiled'[r] = compiled[r]
        BY <1>t, <2>1, <3>3 DEF InstallTypeOK
      <4>3. r \in LeftBehind => r \in LeftBehind'
        BY <2>1 DEF LeftBehind
      <4>4. QED
        BY <2>1, <3>1, <3>3, <4>1, <4>2, <4>3
    <3>4. QED
      BY <3>2, <3>3
  <2>6. Fresh'
    BY <2>5 DEF Fresh
  <2>7. QED
    BY <2>2, <2>3, <2>4, <2>6
<1>10. ASSUME NEW edit \in Edits, Update(edit) PROVE Goal
  <2>1. /\ step = "idle"
        /\ UNCHANGED <<text, enabled, compiled, job, step, names, created, drops, torn>>
    BY <1>10 DEF Update, serverVars, clientVars
  <2>2. QED
    BY <2>1 DEF Compiling, Creating, Verified, Complete, Fresh, Texts, LeftBehind
<1>11. CASE UNCHANGED installVars
  BY <1>11 DEF installVars, serverVars, clientVars, Compiling, Creating, Verified, Problems,
               Differing, Complete, Fresh, Texts, WithCallers, Closed, LeftBehind
<1>12. QED
  BY <1>1, <1>2, <1>3, <1>4, <1>5, <1>6, <1>7, <1>8, <1>9, <1>10, <1>11
     DEF InstallAct, InstallStep

\* To the install, a step of the preparation is one of its own.
LEMMA NextInstalls == [Next]_vars => InstallAct
<1> SUFFICES ASSUME [Next]_vars PROVE InstallAct
  OBVIOUS
<1> USE DEF InstallAct
<1>1. CASE Install
  <2>1. CASE BeginInstall(at = "replacing", HasScopes)
    <3>1. (at = "replacing") \in BOOLEAN /\ HasScopes \in BOOLEAN
      BY DEF HasScopes
    <3>2. QED
      BY <2>1, <3>1
  <2>2. QED
    BY <1>1, <2>1 DEF Install
<1>2. CASE InstallFailed \/ Installed \/ Die
  BY <1>2 DEF InstallFailed, Installed, Die
<1>3. CASE CompileStep \/ ServerFault \/ UpdateRepository
  BY <1>3 DEF CompileStep, ServerFault, UpdateRepository
<1>4. CASE \/ EnsureScope \/ FinalizeScope \/ Reveal \/ ForceReveal \/ OpenManifest
           \/ StagePopulation \/ RecordPopulation \/ StageLabels \/ StageCutoffs \/ StageHubs
           \/ MarkReady \/ Compare \/ Open \/ EndRun
  BY <1>4 DEF EnsureScope, FinalizeScope, Reveal, ForceReveal, OpenManifest, StagePopulation,
     RecordPopulation, StageLabels, StageCutoffs, StageHubs, MarkReady, Compare, Open, EndRun
<1>5. CASE \/ \E c \in Configs : Start(c)
           \/ StartInstall \/ ReloadForTypes \/ Ingest \/ Reload
           \/ \E d \in DatasetIds : MoveAside(d)
  BY <1>5 DEF Start, StartInstall, ReloadForTypes, Ingest, Reload, ClearGraph, MoveAside
<1>6. CASE UNCHANGED vars
  BY <1>6 DEF vars
<1>7. QED
  BY <1>1, <1>2, <1>3, <1>4, <1>5, <1>6 DEF Next, Command

\* An install that verifies leaves every endpoint linked with the texts of the repository
\* (InstalledLinks), however many were cut short before and whatever the server still
\* compiles of them, but for the endpoints an earlier one left behind its callee.
THEOREM InstallCorrect == Spec => []InstalledLinks
<1>1. Init => InstallInv
  BY InstallInitInv DEF Init
<1>2. InstallInv /\ [Next]_vars => InstallInv'
  BY InstallNext, NextInstalls
<1>3. InstallInv => InstalledLinks
  <2> SUFFICES ASSUME InstallInv, step = "installed", NEW q \in Queries \ torn
               PROVE  LinksCurrent(q)
    BY DEF InstalledLinks
  <2>1. /\ q \in enabled
        /\ \A p \in Queries : text[p] = repo[p]
    BY DEF InstallInv, Verified, Problems, Differing
  <2>2. compiled[q] = Texts(q)
    BY <2>1 DEF InstallInv, Fresh, LeftBehind
  <2>3. QED
    BY <2>1, <2>2 DEF Texts, Linked, LinksCurrent
<1>4. QED
  BY <1>1, <1>2, <1>3, PTL DEF Spec

-----------------------------------------------------------------------------
(* The invariant of the preparation. *)

Installing == {"install", "replacing"}
Stages == {"population", "record", "labels", "cutoffs", "hubs", "ready", "compare"}
Reading == Stages \cup {"open", "running"}
Scoped == {"scope", "finalize", "reveal", "force", "counts"} \cup Stages

\* Only a command that installs is in its install.  From the check on the graph has the
\* types of the repository, which are never newer than those.
TypesInPlace ==
    /\ at \notin Installing => step = "idle"
    /\ types \in 0..repo[ScopeTypes]
    /\ step \in {"check", "create", "wait", "verify", "installed"} \/ at \in Scoped =>
          types = repo[ScopeTypes]

\* The faults load the graph again, and outdated types once more.
LoadsCounted ==
    load <= 2 + faults /\ (repo[ScopeTypes] = 1 \/ (Outdated /\ HasScopes) => load <= 1 + faults)

\* The command knows its source once it is past the installation, and has a manifest from
\* the counts on.
Opened ==
    /\ at \in Scoped \cup Reading => source \in Loads
    /\ at \in Reading => manifest # NoDataset

\* The population was read from the graph of this data and this scope, if that is the graph
\* of the counts, and with the labels of the configuration's reveal.
ReadFrom(accounts, m, c, data, sc) ==
    /\ accounts.labels.reveal = c.reveal
    /\ m.counts = data => accounts.load = data /\ accounts.scope = sc /\ sc # NoScope /\ sc.ready

\* What a manifest records is on disk, of one graph, and complete when it is ready.
PartsOf(m, accounts, c, data, sc) ==
    /\ m.counts <= data
    /\ m.accounts # Nothing => accounts = m.accounts /\ ReadFrom(accounts, m, c, data, sc)
    /\ m.labels # Nothing => m.accounts # Nothing /\ m.labels = m.accounts.labels
    /\ m.cutoffs # Nothing => (m.counts = data => m.cutoffs = data)
    /\ m.hubs # Nothing =>
          /\ m.accounts # Nothing
          /\ m.counts = data => m.hubs = [load |-> data, scope |-> sc]
    /\ m.status = "ready" =>
          m.accounts # Nothing /\ m.labels # Nothing /\ m.cutoffs # Nothing /\ m.hubs # Nothing

Parts ==
    \A s \in Loads, c \in Configs :
        disk[<<s, c>>] # NoDataset =>
            PartsOf(disk[<<s, c>>], parquet[<<s, c>>], c, load, scope[c.scope])

\* Until the population is read, the graph that has its scope has the labels of the reveal.
LabelsInPlace ==
    at \in {"counts", "population"} /\ ScopeReady =>
        labels # NoLabels /\ labels.reveal = cfg.reveal

\* What is on disk when it is recorded, and what the manifest has at each stage.
Staged ==
    /\ at = "record" =>
          /\ manifest.accounts = Nothing
          /\ parquet[ds] # Nothing
          /\ ReadFrom(parquet[ds], manifest, cfg, load, scope[cfg.scope])
    /\ at \in Stages \ {"population", "record"} => manifest.accounts # Nothing
    /\ at \in {"cutoffs", "hubs", "ready", "compare"} => manifest.labels # Nothing
    /\ at \in {"hubs", "ready", "compare"} => manifest.cutoffs # Nothing
    /\ at \in {"ready", "compare"} => manifest.hubs # Nothing

IInv ==
    /\ TypeOK /\ InstallInv
    /\ TypesInPlace /\ LoadsCounted
    /\ Opened /\ Parts /\ LabelsInPlace /\ Staged

\* The steps by what they change of the graph and of the disk.
Quiet ==
    \/ \E c \in Configs : Start(c)
    \/ StartInstall \/ Install \/ InstallFailed \/ Installed \/ CompileStep \/ ServerFault
    \/ Die \/ UpdateRepository \/ Open \/ EndRun \/ UNCHANGED vars

\* None of them changes the graph's data or what is on disk.
LEMMA QuietKeeps == Quiet => UNCHANGED <<load, scope, labels, disk, parquet>>
BY DEF Quiet, Start, StartInstall, Install, InstallFailed, Installed, CompileStep, ServerFault,
       Die, UpdateRepository, Open, EndRun, vars, prepareVars, graphVars

\* Of the graph, a step loads it anew or keeps it with every scope that is ready.
LEMMA GraphStep ==
    TypeOK /\ [Next]_vars =>
        \/ load' = load + 1
        \/ /\ load' = load
           /\ \A s \in ScopeIds : scope[s] # NoScope /\ scope[s].ready => scope'[s] = scope[s]
<1> SUFFICES ASSUME TypeOK, [Next]_vars
             PROVE  \/ load' = load + 1
                    \/ /\ load' = load
                       /\ \A s \in ScopeIds : scope[s] # NoScope /\ scope[s].ready =>
                             scope'[s] = scope[s]
  OBVIOUS
<1>1. CASE Ingest \/ Reload \/ ReloadForTypes
  BY <1>1 DEF Ingest, Reload, ReloadForTypes, ClearGraph
<1>2. CASE EnsureScope \/ FinalizeScope
  <2>1. cfg.scope \in ScopeIds /\ scope \in [ScopeIds -> Scopes \cup {NoScope}]
    BY DEF TypeOK, ScopeIds
  <2>2. CASE EnsureScope
    BY <2>1, <2>2 DEF EnsureScope, GoTo, Leave
  <2>3. CASE FinalizeScope
    <3>1. \A r \in Scopes : r.ready => [r EXCEPT !.ready = TRUE] = r
      BY DEF Scopes
    <3>2. CASE scope[cfg.scope] # NoScope
      <4>1. scope' = [scope EXCEPT ![cfg.scope].ready = TRUE] /\ load' = load
        BY <2>3, <3>2 DEF FinalizeScope
      <4>2. \A s \in ScopeIds : scope'[s] =
              IF s = cfg.scope THEN [scope[s] EXCEPT !.ready = TRUE] ELSE scope[s]
        BY <2>1, <4>1
      <4>3. QED
        BY <2>1, <3>1, <4>1, <4>2
    <3>3. CASE scope[cfg.scope] = NoScope
      BY <2>3, <3>3 DEF FinalizeScope
    <3>4. QED
      BY <3>2, <3>3
  <2>4. QED
    BY <1>2, <2>2, <2>3
<1>3. CASE Quiet
  BY <1>3, QuietKeeps
<1>4. CASE \/ Reveal \/ ForceReveal \/ OpenManifest \/ StagePopulation \/ RecordPopulation
           \/ StageLabels \/ StageCutoffs \/ StageHubs \/ MarkReady \/ Compare
           \/ \E d \in DatasetIds : MoveAside(d)
  BY <1>4 DEF Reveal, ForceReveal, OpenManifest, StagePopulation, RecordPopulation, StageLabels,
     StageCutoffs, StageHubs, MarkReady, Compare, MoveAside, graphVars
<1>5. QED
  BY <1>1, <1>2, <1>3, <1>4 DEF Next, Command, Quiet

\* The types and the install keep their place.
LEMMA TypesStep == TypeOK /\ TypesInPlace /\ [Next]_vars => TypesInPlace'
<1> SUFFICES ASSUME TypeOK, TypesInPlace, [Next]_vars PROVE TypesInPlace'
  OBVIOUS
<1> USE DEF TypesInPlace, Installing, Scoped, Stages
<1>t. repo \in [Sources -> {1, 2}] /\ ScopeTypes \in Sources
  BY DEF TypeOK, InstallTypeOK, Sources
<1>1. CASE Install
  <2>1. at \in Installing /\ at' = at
    BY <1>1 DEF Install, prepareVars, commandVars
  <2>2. CASE BeginInstall(at = "replacing", HasScopes)
    BY <2>1, <2>2 DEF BeginInstall, Outdated, serverVars
  <2>3. CASE DropTypes \/ AddTypes
    BY <1>t, <2>1, <2>3 DEF DropTypes, AddTypes
  <2>4. CASE DropQuery \/ Check \/ Create \/ Request \/ Answered \/ Verify
    BY <2>1, <2>4 DEF DropQuery, Check, Create, Request, Answered, Verify, serverVars
  <2>5. QED
    BY <1>1, <2>2, <2>3, <2>4 DEF Install, InstallStep
<1>2. CASE InstallFailed \/ Installed \/ Die
  BY <1>2 DEF InstallFailed, Installed, Die, Leave, LeaveInstall, serverVars
<1>3. CASE CompileStep \/ ServerFault
  BY <1>3 DEF CompileStep, ServerFault, Compile, GiveUp, CompileFails, serverVars, clientVars,
     prepareVars, commandVars
<1>4. CASE UpdateRepository
  BY <1>4, <1>t DEF UpdateRepository, Update, serverVars, clientVars, commandVars
<1>5. CASE \/ EnsureScope \/ FinalizeScope \/ Reveal \/ ForceReveal \/ OpenManifest
           \/ StagePopulation
  BY <1>5 DEF EnsureScope, FinalizeScope, Reveal, ForceReveal, OpenManifest, StagePopulation,
     GoTo, Leave, installVars, serverVars, clientVars
<1>6. CASE \/ RecordPopulation \/ StageLabels \/ StageCutoffs \/ StageHubs \/ MarkReady
           \/ Compare \/ Open \/ EndRun
  BY <1>6 DEF RecordPopulation, StageLabels, StageCutoffs, StageHubs, MarkReady, Compare, Open,
     EndRun, GoTo, Leave, installVars, serverVars, clientVars
<1>7. CASE \/ \E c \in Configs : Start(c)
           \/ StartInstall \/ Ingest \/ Reload \/ ReloadForTypes
           \/ \E d \in DatasetIds : MoveAside(d)
  BY <1>7 DEF Start, StartInstall, Ingest, Reload, ReloadForTypes, ClearGraph, MoveAside,
     installVars, serverVars, clientVars, commandVars
<1>8. CASE UNCHANGED vars
  BY <1>8 DEF vars, installVars, serverVars, clientVars, prepareVars, commandVars
<1>9. QED
  BY <1>1, <1>2, <1>3, <1>4, <1>5, <1>6, <1>7, <1>8 DEF Next, Command

\* The loads stay counted.
LEMMA LoadsStep ==
    TypeOK /\ TypesInPlace /\ LoadsCounted /\ [Next]_vars => LoadsCounted'
<1> SUFFICES ASSUME TypeOK, TypesInPlace, LoadsCounted, [Next]_vars PROVE LoadsCounted'
  OBVIOUS
<1>t. /\ load \in Nat /\ faults \in Nat /\ types \in Nat
      /\ repo \in [Sources -> {1, 2}] /\ ScopeTypes \in Sources
  BY PreparationAssumption DEF TypeOK, InstallTypeOK, Loads, Versions, Sources
<1>1. CASE Ingest \/ Reload
  BY <1>1, <1>t DEF Ingest, Reload, ClearGraph, Fault, LoadsCounted, Outdated, HasScopes,
     installVars, serverVars
<1>2. CASE ReloadForTypes
  <2>1. repo[ScopeTypes] # 1
    BY <1>2, <1>t DEF ReloadForTypes, Outdated, TypesInPlace
  <2>2. QED
    BY <1>2, <1>t, <2>1 DEF ReloadForTypes, ClearGraph, LoadsCounted, Outdated, HasScopes,
       installVars, serverVars
<1>3. CASE EnsureScope \/ FinalizeScope
  <2>1. ~Outdated' /\ UNCHANGED <<load, faults, repo>>
    BY <1>3 DEF EnsureScope, FinalizeScope, TypesInPlace, Scoped, Outdated, installVars, serverVars
  <2>2. QED
    BY <2>1 DEF LoadsCounted
<1>4. CASE Install
  <2>1. UNCHANGED <<load, faults, scope, repo>>
    BY <1>4 DEF Install, prepareVars, graphVars, BeginInstall, InstallStep, DropQuery, DropTypes,
       AddTypes, Check, Create, Request, Answered, Verify
  <2>2. types' = types \/ ~Outdated'
    BY <1>4 DEF Install, BeginInstall, InstallStep, DropQuery, DropTypes, AddTypes, Check, Create,
       Request, Answered, Verify, serverVars, Outdated
  <2>3. QED
    BY <2>1, <2>2 DEF LoadsCounted, Outdated, HasScopes
<1>5. CASE UpdateRepository
  BY <1>5, <1>t DEF UpdateRepository, Fault, graphVars, LoadsCounted
<1>6. CASE InstallFailed \/ Installed \/ Die \/ CompileStep \/ ServerFault
  <2>1. UNCHANGED <<load, scope, repo, types>> /\ faults' \in {faults, faults + 1}
    BY <1>6 DEF InstallFailed, Installed, Die, CompileStep, ServerFault, Fault, prepareVars,
       graphVars, LeaveInstall, Compile, GiveUp, CompileFails, serverVars
  <2>2. CASE faults' = faults
    BY <2>1, <2>2 DEF LoadsCounted, Outdated, HasScopes
  <2>3. CASE faults' = faults + 1
    <3>1. load' <= 2 + faults' /\ (load <= 1 + faults => load' <= 1 + faults')
      BY <1>t, <2>1, <2>3 DEF LoadsCounted
    <3>2. QED
      BY <2>1, <3>1 DEF LoadsCounted, Outdated, HasScopes
  <2>4. QED
    BY <2>1, <2>2, <2>3
<1>7. CASE \/ Reveal \/ ForceReveal \/ OpenManifest \/ StagePopulation \/ RecordPopulation
           \/ StageLabels \/ StageCutoffs \/ StageHubs \/ MarkReady \/ Compare \/ Open \/ EndRun
           \/ (\E c \in Configs : Start(c)) \/ StartInstall
           \/ (\E d \in DatasetIds : MoveAside(d)) \/ UNCHANGED vars
  <2>1. UNCHANGED <<load, scope, faults, installVars>>
    BY <1>7 DEF Reveal, ForceReveal, OpenManifest, StagePopulation, RecordPopulation, StageLabels,
       StageCutoffs, StageHubs, MarkReady, Compare, Open, EndRun, Start, StartInstall, MoveAside,
       vars, prepareVars, graphVars
  <2>2. QED
    BY <2>1 DEF LoadsCounted, Outdated, HasScopes, installVars, serverVars
<1>8. QED
  BY <1>1, <1>2, <1>3, <1>4, <1>5, <1>6, <1>7 DEF Next, Command

-----------------------------------------------------------------------------
(* The parts of a dataset. *)

\* A stage changes the one field of the manifest that it records.
LEMMA Fields ==
    ASSUME NEW m \in Manifests, NEW v
    PROVE  /\ v \in Populations =>
                /\ [m EXCEPT !["accounts"] = v] \in Manifests
                /\ [m EXCEPT !["accounts"] = v] = [m EXCEPT !.accounts = v]
           /\ v \in Reveals =>
                /\ [m EXCEPT !["labels"] = v] \in Manifests
                /\ [m EXCEPT !["labels"] = v] = [m EXCEPT !.labels = v]
           /\ v \in Loads =>
                /\ [m EXCEPT !["cutoffs"] = v] \in Manifests
                /\ [m EXCEPT !["cutoffs"] = v] = [m EXCEPT !.cutoffs = v]
           /\ v \in Registries =>
                /\ [m EXCEPT !["hubs"] = v] \in Manifests
                /\ [m EXCEPT !["hubs"] = v] = [m EXCEPT !.hubs = v]
           /\ v \in {"ready", "source_changed"} =>
                /\ [m EXCEPT !["status"] = v] \in Manifests
                /\ [m EXCEPT !["status"] = v] = [m EXCEPT !.status = v]
BY DEF Manifests

\* What the stages record is of its type, and so is the manifest they record it in.
LEMMA StageTypes ==
    ASSUME TypeOK, Opened, LabelsInPlace, Staged, at \in Stages
    PROVE  /\ ds \in DatasetIds /\ manifest \in Manifests
           /\ at = "population" /\ ScopeReady => Population \in Populations
           /\ at = "record" => parquet[ds] \in Populations
           /\ at = "labels" /\ parquet[ds] = manifest.accounts => parquet[ds].labels \in Reveals
           /\ at = "hubs" => [load |-> load, scope |-> scope[cfg.scope]] \in Registries
<1> USE DEF TypeOK
<1>1. source \in Loads /\ cfg \in Configs /\ load \in Loads /\ cfg.scope \in ScopeIds
  BY DEF Opened, Scoped, ScopeIds
<1>2. ds \in DatasetIds
  BY <1>1 DEF ds, DatasetIds
<1>3. manifest \in Manifests /\ parquet[ds] \in Populations \cup {Nothing}
  BY <1>2 DEF Opened, Reading, manifest
<1>4. scope[cfg.scope] \in Scopes \cup {NoScope}
  BY <1>1
<1>5. at = "population" /\ ScopeReady => Population \in Populations
  BY <1>1, <1>4 DEF LabelsInPlace, ScopeReady, Population, Populations
<1>6. at = "record" => parquet[ds] \in Populations
  BY <1>3 DEF Staged
<1>7. at = "labels" /\ parquet[ds] = manifest.accounts => parquet[ds].labels \in Reveals
  BY <1>3 DEF Staged, Stages, Populations
<1>8. [load |-> load, scope |-> scope[cfg.scope]] \in Registries
  BY <1>1, <1>4 DEF Registries
<1>9. QED
  BY <1>2, <1>3, <1>5, <1>6, <1>7, <1>8

\* Every variable keeps its type.
LEMMA TypeStep ==
    /\ TypeOK /\ TypesInPlace /\ LoadsCounted /\ Opened /\ LabelsInPlace /\ Staged
    /\ [Next]_vars
    => TypeOK'
<1> SUFFICES ASSUME TypeOK, TypesInPlace, LoadsCounted, Opened, LabelsInPlace, Staged,
                    [Next]_vars
             PROVE  TypeOK'
  OBVIOUS
<1>i. InstallTypeOK'
  BY InstallType, NextInstalls DEF TypeOK
<1>m. MaxFaults \in Nat
  BY PreparationAssumption
<1>f. faults' \in 0..MaxFaults
  <2>1. CASE Fault
    BY <1>m, <2>1 DEF Fault, TypeOK
  <2>2. CASE ~Fault
    <3>1. UNCHANGED faults
      BY <2>2 DEF Next, Command, Start, StartInstall, Install, InstallFailed, Installed,
         EnsureScope, FinalizeScope, Reveal, ForceReveal, OpenManifest, StagePopulation,
         RecordPopulation, StageLabels, StageCutoffs, StageHubs, MarkReady, Compare, Open, EndRun,
         CompileStep, MoveAside, ReloadForTypes, Ingest, Reload, UpdateRepository, Die,
         ServerFault, vars, prepareVars
    <3>2. QED
      BY <3>1 DEF TypeOK
  <2>3. QED
    BY <2>1, <2>2
<1>l. load' \in Loads
  <2>1. load' <= 2 + faults'
    BY LoadsStep DEF LoadsCounted
  <2>2. load' = load \/ load' = load + 1
    BY GraphStep
  <2>3. load \in 1..(MaxFaults + 2)
    BY DEF TypeOK, Loads
  <2>4. faults' \in Nat /\ faults' <= MaxFaults /\ load \in Nat /\ 1 <= load
    BY <1>m, <1>f, <2>3
  <2>5. load' \in Nat /\ 1 <= load' /\ load' <= MaxFaults + 2
    BY <1>m, <2>1, <2>2, <2>4
  <2>6. QED
    BY <1>m, <2>5 DEF Loads
<1> DEFINE Goal == /\ scope' \in [ScopeIds -> Scopes \cup {NoScope}]
                   /\ labels' \in Reveals \cup {NoLabels}
                   /\ disk' \in [DatasetIds -> Manifests \cup {NoDataset}]
                   /\ parquet' \in [DatasetIds -> Populations \cup {Nothing}]
                   /\ at' \in {"idle", "install", "replacing", "scope", "finalize", "reveal",
                               "force", "counts", "population", "record", "labels", "cutoffs",
                               "hubs", "ready", "compare", "open", "running"}
                   /\ cfg' \in Configs
                   /\ {source', counts'} \subseteq Loads \cup {0}
                   /\ refused' \subseteq DatasetIds
<1>k. cut' \subseteq ScopeIds
  <2>1. cfg.scope \in ScopeIds /\ cut \subseteq ScopeIds
    BY DEF TypeOK, ScopeIds
  <2>2. cut' \in {cut, {}, cut \cup {cfg.scope}}
    <3>1. CASE Ingest \/ Reload \/ ReloadForTypes \/ Die
      BY <3>1 DEF Ingest, Reload, ReloadForTypes, ClearGraph, Die
    <3>2. CASE ~(Ingest \/ Reload \/ ReloadForTypes \/ Die)
      BY <3>2
         DEF Next, Command, Install, InstallFailed, Installed, EnsureScope, FinalizeScope, Reveal,
             ForceReveal, OpenManifest, StagePopulation, RecordPopulation, StageLabels,
             StageCutoffs, StageHubs, MarkReady, Compare, Open, EndRun, Start, StartInstall,
             CompileStep, MoveAside, UpdateRepository, ServerFault, vars, prepareVars, graphVars
    <3>3. QED
      BY <3>1, <3>2
  <2>3. QED
    BY <2>1, <2>2
<1> SUFFICES Goal
  BY <1>i, <1>f, <1>l, <1>k DEF TypeOK
<1>c. AnyConfig \in Configs
  BY PreparationAssumption DEF AnyConfig
<1>s. /\ cfg \in Configs /\ cfg.scope \in ScopeIds
      /\ scope[cfg.scope] \in Scopes \cup {NoScope}
  BY DEF TypeOK, ScopeIds
<1>1. ASSUME NEW c \in Configs, Start(c) PROVE Goal
  <2>1. CASE \E x \in Loads : Found(c) = {x}
    <3> DEFINE x == CHOOSE y \in Loads : Found(c) = {y}
    <3>1. x \in Loads /\ <<x, c>> \in DatasetIds
      BY <2>1 DEF DatasetIds
    <3> HIDE DEF x
    <3>2. /\ UNCHANGED <<graphVars, disk, parquet, counts>>
          /\ refused' \in {refused, refused \cup {<<x, c>>}}
          /\ at' \in {at, "open", "install"} /\ cfg' \in {cfg, c} /\ source' \in {source, x}
      BY <1>1, <2>1 DEF Start, commandVars, x
    <3>3. QED
      BY <3>1, <3>2 DEF TypeOK, graphVars
  <2>2. CASE ~\E x \in Loads : Found(c) = {x}
    BY <1>1, <2>2 DEF Start, TypeOK, graphVars
  <2>3. QED
    BY <2>1, <2>2
<1>2. CASE StartInstall \/ Install \/ CompileStep \/ ServerFault \/ UpdateRepository
           \/ UNCHANGED vars
  BY <1>2 DEF StartInstall, Install, CompileStep, ServerFault, UpdateRepository, vars,
     prepareVars, graphVars, commandVars, TypeOK
<1>3. CASE InstallFailed \/ EndRun \/ Die
  BY <1>3, <1>c DEF InstallFailed, EndRun, Die, Leave, graphVars, TypeOK
<1>4. CASE Installed
  <2>1. scope[cfg.scope] # NoScope => scope[cfg.scope].source \in Loads
    BY <1>s DEF Scopes
  <2>2. QED
    BY <1>4, <1>c, <2>1 DEF Installed, Leave, graphVars, TypeOK
<1>5. CASE EnsureScope
  <2>1. source \in Loads /\ ds \in DatasetIds
    BY <1>5 DEF EnsureScope, Opened, Scoped, TypeOK, ds, DatasetIds
  <2>2. [source |-> source, partition |-> cfg.partition, members |-> load, ready |-> FALSE]
          \in Scopes
    BY <2>1, <1>s DEF TypeOK, Scopes, Partitions
  <2>3. QED
    BY <1>5, <1>c, <1>s, <2>1, <2>2 DEF EnsureScope, Leave, GoTo, TypeOK
<1>6. CASE FinalizeScope
  <2>1. \A r \in Scopes : [r EXCEPT !.ready = TRUE] \in Scopes
    BY DEF Scopes
  <2>2. CASE scope[cfg.scope] # NoScope
    <3>1. scope' = [scope EXCEPT ![cfg.scope] = [scope[cfg.scope] EXCEPT !.ready = TRUE]]
      BY <1>6, <2>2 DEF FinalizeScope
    <3>2. scope' \in [ScopeIds -> Scopes \cup {NoScope}]
      BY <1>s, <2>1, <2>2, <3>1 DEF TypeOK
    <3>3. QED
      BY <1>6, <2>2, <3>2 DEF FinalizeScope, GoTo, TypeOK
  <2>3. CASE scope[cfg.scope] = NoScope
    BY <1>6, <1>c, <2>3 DEF FinalizeScope, Leave, TypeOK
  <2>4. QED
    BY <2>2, <2>3
<1>7. CASE Reveal \/ ForceReveal
  <2>1. ScopeReady => Revealed(cfg) \in Reveals
    BY <1>s DEF ScopeReady, Revealed, Reveals, Scopes, TypeOK
  <2>2. QED
    BY <1>7, <1>c, <2>1 DEF Reveal, ForceReveal, Leave, GoTo, TypeOK
<1>8. CASE OpenManifest
  <2>1. ds \in DatasetIds /\ at = "counts"
    BY <1>8 DEF OpenManifest, Opened, Scoped, TypeOK, ds, DatasetIds
  <2>2. Hashes \in [Hashed -> Versions]
    BY PreparationAssumption DEF Hashes, Versions, TypeOK, InstallTypeOK, Sources
  <2>3. NewManifest \in Manifests
    BY <2>2 DEF NewManifest, Manifests, TypeOK
  <2>4. QED
    BY <1>8, <1>c, <2>1, <2>3 DEF OpenManifest, Leave, graphVars, TypeOK
<1>9. CASE StagePopulation
  <2>1. at = "population" /\ at \in Stages
    BY <1>9 DEF StagePopulation, Stages
  <2>2. QED
    BY <1>9, <1>c, <2>1, StageTypes DEF StagePopulation, GoTo, Leave, graphVars, TypeOK
<1>10. CASE RecordPopulation \/ StageLabels \/ StageCutoffs \/ StageHubs \/ MarkReady \/ Compare
  <2>1. at \in Stages /\ UNCHANGED <<scope, labels, parquet>>
    BY <1>10 DEF RecordPopulation, StageLabels, StageCutoffs, StageHubs, MarkReady, Compare,
       Stages, graphVars
  <2>2. ds \in DatasetIds /\ manifest \in Manifests
    BY <2>1, StageTypes
  <2>3. \/ disk' = disk
        \/ \E m \in Manifests : disk' = [disk EXCEPT ![ds] = m]
    <3>1. CASE RecordPopulation
      BY <2>1, <3>1, StageTypes, Fields DEF RecordPopulation, Record, manifest
    <3>2. CASE StageLabels
      BY <2>1, <3>2, StageTypes, Fields DEF StageLabels, Record, manifest
    <3>3. CASE StageCutoffs
      BY <2>1, <3>3, StageTypes, Fields DEF StageCutoffs, Record, manifest, TypeOK
    <3>4. CASE StageHubs
      BY <2>1, <3>4, StageTypes, Fields DEF StageHubs, Record, manifest
    <3>5. CASE MarkReady \/ Compare
      BY <2>1, <3>5, StageTypes, Fields DEF MarkReady, Compare, Record, manifest
    <3>6. QED
      BY <1>10, <3>1, <3>2, <3>3, <3>4, <3>5
  <2>4. disk' \in [DatasetIds -> Manifests \cup {NoDataset}]
    BY <2>2, <2>3 DEF TypeOK
  <2>5. refused' \subseteq DatasetIds
    BY <1>10, <2>2 DEF RecordPopulation, StageLabels, StageCutoffs, StageHubs, MarkReady, Compare,
       TypeOK
  <2>6. QED
    BY <1>10, <1>c, <2>1, <2>4, <2>5 DEF RecordPopulation, StageLabels, StageCutoffs, StageHubs,
       MarkReady, Compare, GoTo, Leave, TypeOK
<1>11. CASE Open
  <2>1. ds \in DatasetIds
    BY <1>11 DEF Open, Opened, Reading, TypeOK, ds, DatasetIds
  <2>2. QED
    BY <1>11, <1>c, <2>1 DEF Open, GoTo, Leave, graphVars, TypeOK
<1>12. CASE Ingest \/ Reload \/ ReloadForTypes
  <2>1. \A r \in Reveals : [r EXCEPT !.every = FALSE] \in Reveals
    BY DEF Reveals
  <2>2. QED
    BY <1>12, <2>1 DEF Ingest, Reload, ReloadForTypes, ClearGraph, commandVars, TypeOK
<1>13. ASSUME NEW d \in DatasetIds, MoveAside(d) PROVE Goal
  BY <1>13 DEF MoveAside, graphVars, commandVars, TypeOK
<1>14. QED
  BY <1>1, <1>2, <1>3, <1>4, <1>5, <1>6, <1>7, <1>8, <1>9, <1>10, <1>11, <1>12, <1>13
     DEF Next, Command

\* Parts stay of one graph when the graph is loaded anew or keeps the scope that is ready.
LEMMA PartsKept ==
    ASSUME NEW m, NEW accounts, NEW c, NEW data, NEW sc, NEW data2, NEW sc2,
           m.counts \in Nat, data \in Nat,
           \/ data2 = data + 1
           \/ data2 = data /\ (sc # NoScope /\ sc.ready => sc2 = sc)
    PROVE  /\ PartsOf(m, accounts, c, data, sc) => PartsOf(m, accounts, c, data2, sc2)
           /\ m.counts <= data /\ ReadFrom(accounts, m, c, data, sc) =>
                 ReadFrom(accounts, m, c, data2, sc2)
<1>1. ASSUME m.counts <= data, ReadFrom(accounts, m, c, data, sc)
      PROVE  ReadFrom(accounts, m, c, data2, sc2)
  <2>1. CASE data2 = data + 1
    BY <1>1, <2>1 DEF ReadFrom
  <2>2. CASE data2 = data /\ (sc # NoScope /\ sc.ready => sc2 = sc)
    BY <1>1, <2>2 DEF ReadFrom
  <2>3. QED
    BY <2>1, <2>2
<1>2. ASSUME PartsOf(m, accounts, c, data, sc) PROVE PartsOf(m, accounts, c, data2, sc2)
  <2>1. CASE data2 = data + 1
    <3>1. m.counts <= data /\ m.counts <= data2 /\ m.counts # data2
      BY <1>2, <2>1 DEF PartsOf
    <3>2. QED
      BY <1>1, <1>2, <3>1 DEF PartsOf
  <2>2. CASE data2 = data /\ (sc # NoScope /\ sc.ready => sc2 = sc)
    <3>1. m.accounts # Nothing /\ m.counts = data => sc2 = sc
      BY <1>2, <2>2 DEF PartsOf, ReadFrom
    <3>2. QED
      BY <1>1, <1>2, <2>2, <3>1 DEF PartsOf
  <2>3. QED
    BY <2>1, <2>2
<1>3. QED
  BY <1>1, <1>2

\* A step that leaves the disk alone keeps the parts.
LEMMA PartsOnDisk ==
    TypeOK /\ Parts /\ [Next]_vars /\ UNCHANGED <<disk, parquet>> => Parts'
<1> SUFFICES ASSUME TypeOK, Parts, [Next]_vars, UNCHANGED <<disk, parquet>>,
                    NEW s \in Loads, NEW c \in Configs, disk[<<s, c>>] # NoDataset
             PROVE  PartsOf(disk[<<s, c>>], parquet[<<s, c>>], c, load', scope'[c.scope])
  BY DEF Parts
<1>1. disk[<<s, c>>] \in Manifests /\ c.scope \in ScopeIds
  BY DEF TypeOK, DatasetIds, ScopeIds
<1>2. disk[<<s, c>>].counts \in Nat /\ load \in Nat
  BY <1>1 DEF TypeOK, Manifests, Loads
<1>3. \/ load' = load + 1
      \/ /\ load' = load
         /\ scope[c.scope] # NoScope /\ scope[c.scope].ready => scope'[c.scope] = scope[c.scope]
  BY <1>1, GraphStep
<1>4. QED
  BY <1>2, <1>3, PartsKept DEF Parts

\* A step that leaves the graph alone, and one dataset's parts in order, keeps the parts.
LEMMA PartsOfOne ==
    ASSUME TypeOK, Parts, UNCHANGED <<load, scope>>, NEW d \in DatasetIds,
           \A e \in DatasetIds \ {d} : disk'[e] = disk[e] /\ parquet'[e] = parquet[e],
           disk'[d] # NoDataset =>
               PartsOf(disk'[d], parquet'[d], d[2], load, scope[d[2].scope])
    PROVE  Parts'
<1> SUFFICES ASSUME NEW s \in Loads, NEW c \in Configs, disk'[<<s, c>>] # NoDataset
             PROVE  PartsOf(disk'[<<s, c>>], parquet'[<<s, c>>], c, load, scope[c.scope])
  BY DEF Parts
<1>1. <<s, c>> \in DatasetIds
  BY DEF DatasetIds
<1>2. CASE <<s, c>> = d
  BY <1>2
<1>3. CASE <<s, c>> # d
  BY <1>1, <1>3 DEF Parts
<1>4. QED
  BY <1>2, <1>3

\* Where the quiet steps take a command.
LEMMA QuietMoves ==
    TypeOK /\ Quiet =>
        \/ UNCHANGED commandVars
        \/ at' \in {"idle", "install", "replacing"}
        \/ at' = "scope" /\ source' \in Loads
        \/ at' = "open" /\ source' \in Loads /\ disk[<<source', cfg'>>] # NoDataset
        \/ at = "open" /\ at' = "running" /\ UNCHANGED <<source, cfg>>
<1> SUFFICES ASSUME TypeOK, Quiet
             PROVE  \/ UNCHANGED commandVars
                    \/ at' \in {"idle", "install", "replacing"}
                    \/ at' = "scope" /\ source' \in Loads
                    \/ at' = "open" /\ source' \in Loads /\ disk[<<source', cfg'>>] # NoDataset
                    \/ at = "open" /\ at' = "running" /\ UNCHANGED <<source, cfg>>
  OBVIOUS
<1>1. ASSUME NEW c \in Configs, Start(c)
      PROVE  \/ UNCHANGED commandVars
             \/ at' = "install"
             \/ at' = "open" /\ source' \in Loads /\ disk[<<source', cfg'>>] # NoDataset
  <2>1. CASE \E x \in Loads : Found(c) = {x}
    <3> DEFINE x == CHOOSE y \in Loads : Found(c) = {y}
    <3>1. x \in Loads /\ Found(c) = {x}
      BY <2>1
    <3> HIDE DEF x
    <3>2. disk[<<x, c>>] # NoDataset
      BY <3>1 DEF Found
    <3>3. \/ UNCHANGED commandVars
          \/ at' \in {"open", "install"} /\ cfg' = c /\ source' = x
      BY <1>1, <2>1 DEF Start, x
    <3>4. QED
      BY <3>1, <3>2, <3>3
  <2>2. CASE ~\E x \in Loads : Found(c) = {x}
    BY <1>1, <2>2 DEF Start
  <2>3. QED
    BY <2>1, <2>2
<1>2. CASE Installed
  <2>1. scope[cfg.scope] \in Scopes \cup {NoScope} /\ load \in Loads
    BY DEF TypeOK, ScopeIds
  <2>2. scope[cfg.scope] # NoScope => scope[cfg.scope].source \in Loads
    BY <2>1 DEF Scopes
  <2>3. QED
    BY <1>2, <2>1, <2>2 DEF Installed, Leave, TypeOK
<1>3. CASE StartInstall \/ InstallFailed \/ Die \/ EndRun \/ Open
  BY <1>3 DEF StartInstall, InstallFailed, Die, EndRun, Open, Leave, GoTo
<1>4. CASE Install \/ CompileStep \/ ServerFault \/ UpdateRepository \/ UNCHANGED vars
  BY <1>4 DEF Install, CompileStep, ServerFault, UpdateRepository, vars, prepareVars
<1>5. QED
  BY <1>1, <1>2, <1>3, <1>4 DEF Quiet

\* Every step keeps the command's place and the parts of every dataset in order.
LEMMA DataStep ==
    /\ TypeOK /\ Opened /\ Parts /\ LabelsInPlace /\ Staged /\ TypeOK' /\ [Next]_vars
    => Opened' /\ Parts' /\ LabelsInPlace' /\ Staged'
<1> SUFFICES ASSUME TypeOK, Opened, Parts, LabelsInPlace, Staged, TypeOK', [Next]_vars
             PROVE  Opened' /\ Parts' /\ LabelsInPlace' /\ Staged'
  OBVIOUS
<1>n. /\ NoDataset \notin Manifests /\ NoLabels \notin Reveals
      /\ Nothing \notin Populations /\ Nothing \notin Reveals
      /\ Nothing \notin Loads /\ Nothing \notin Registries
  BY PreparationAssumption
<1>s. ds = <<source, cfg>> /\ manifest = disk[<<source, cfg>>] /\ cfg \in Configs
  BY DEF ds, manifest, TypeOK
<1>d. at \in Scoped \cup Reading => source \in Loads /\ ds \in DatasetIds
  BY <1>s DEF Opened, DatasetIds
<1>1. CASE Quiet
  <2>1. UNCHANGED <<load, scope, labels, disk, parquet>>
    BY <1>1, QuietKeeps
  <2>2. Parts'
    BY <2>1, PartsOnDisk
  <2>3. CASE UNCHANGED commandVars
    BY <2>1, <2>2, <2>3 DEF commandVars, Opened, LabelsInPlace, ScopeReady, Staged, manifest, ds
  <2>4. CASE ~UNCHANGED commandVars
    <3>1. /\ at' \in {"idle", "install", "replacing", "scope", "open", "running"}
          /\ at' \in {"scope", "open", "running"} => source' \in Loads
          /\ at' \in {"open", "running"} => disk[<<source', cfg'>>] # NoDataset
      BY <1>1, <1>s, <2>4, QuietMoves DEF Opened, Scoped, Reading
    <3>2. Opened'
      BY <2>1, <3>1 DEF Opened, Scoped, Reading, Stages, manifest, ds
    <3>3. QED
      BY <2>2, <3>1, <3>2 DEF LabelsInPlace, Staged, Stages
  <2>5. QED
    BY <2>3, <2>4
<1>2. CASE EnsureScope \/ FinalizeScope \/ Reveal \/ ForceReveal
  <2>1. /\ UNCHANGED <<disk, parquet>>
        /\ at \in {"scope", "finalize", "reveal", "force"}
        /\ \/ at' \in {"finalize", "reveal", "force", "counts"} /\ UNCHANGED <<source, cfg>>
           \/ at' = "idle"
        /\ at' = "counts" => Reveal \/ ForceReveal
    BY <1>2 DEF EnsureScope, FinalizeScope, Reveal, ForceReveal, GoTo, Leave
  <2>2. Parts'
    BY <2>1, PartsOnDisk
  <2>3. Opened' /\ Staged'
    BY <2>1 DEF Opened, Staged, Scoped, Reading, Stages
  <2>4. ASSUME at' = "counts" PROVE labels' # NoLabels /\ labels'.reveal = cfg.reveal /\ cfg' = cfg
    <3>1. (Revealed(cfg) # NoLabels /\ Revealed(cfg).reveal = cfg.reveal) \/ ~ScopeReady
      <4>1. scope[cfg.scope] \in Scopes \cup {NoScope}
        BY <1>s DEF TypeOK, ScopeIds
      <4>2. ScopeReady => Revealed(cfg) \in Reveals
        BY <1>s, <4>1 DEF ScopeReady, Revealed, Reveals, Scopes, TypeOK
      <4>3. QED
        BY <1>n, <4>2 DEF Revealed
    <3>2. CASE Reveal
      BY <2>4, <3>1, <3>2 DEF Reveal, GoTo, Leave, AlreadyRevealed
    <3>3. CASE ForceReveal
      BY <2>4, <3>1, <3>3 DEF ForceReveal, GoTo, Leave
    <3>4. QED
      BY <2>1, <2>4, <3>2, <3>3
  <2>5. LabelsInPlace'
    BY <2>1, <2>4 DEF LabelsInPlace
  <2>6. QED
    BY <2>2, <2>3, <2>5
<1>3. CASE Ingest \/ Reload \/ ReloadForTypes
  <2>1. UNCHANGED <<disk, parquet, commandVars>>
    BY <1>3 DEF Ingest, Reload, ReloadForTypes, ClearGraph
  <2>2. Parts' /\ Opened'
    BY <2>1, PartsOnDisk DEF commandVars, Opened, manifest, ds
  <2>3. LabelsInPlace'
    <3>1. CASE Ingest
      <4>1. /\ scope' = scope
            /\ \/ labels' = labels
               \/ labels # NoLabels /\ labels' = [labels EXCEPT !.every = FALSE]
        BY <3>1 DEF Ingest
      <4>2. \A r \in Reveals : /\ [r EXCEPT !.every = FALSE] \in Reveals
                             /\ [r EXCEPT !.every = FALSE].reveal = r.reveal
        BY DEF Reveals
      <4>3. labels # NoLabels => labels' # NoLabels /\ labels'.reveal = labels.reveal
        <5>1. CASE labels' = labels
          BY <5>1
        <5>2. CASE labels # NoLabels /\ labels' = [labels EXCEPT !.every = FALSE]
          <6>1. labels \in Reveals
            BY <5>2 DEF TypeOK
          <6>2. labels' \in Reveals /\ labels'.reveal = labels.reveal
            BY <4>2, <5>2, <6>1
          <6>3. QED
            BY <1>n, <6>2
        <5>3. QED
          BY <4>1, <5>1, <5>2
      <4>4. QED
        BY <2>1, <4>1, <4>3 DEF LabelsInPlace, ScopeReady, commandVars
    <3>2. CASE Reload \/ ReloadForTypes
      <4>1. scope' = [s \in ScopeIds |-> NoScope] /\ cfg' = cfg
        BY <3>2, <2>1 DEF Reload, ReloadForTypes, ClearGraph, commandVars
      <4>2. ~ScopeReady'
        BY <1>s, <4>1 DEF ScopeReady, ScopeIds
      <4>3. QED
        BY <4>2 DEF LabelsInPlace
    <3>3. QED
      BY <1>3, <3>1, <3>2
  <2>4. Staged'
    <3>1. ASSUME at = "record"
          PROVE  ReadFrom(parquet[ds], manifest, cfg, load', scope'[cfg.scope])
      <4>1. manifest \in Manifests /\ cfg.scope \in ScopeIds /\ load \in Nat
        BY <1>d, <1>s, <3>1 DEF Opened, Reading, Stages, TypeOK, ScopeIds, Loads, Scoped
      <4>2. manifest.counts <= load /\ manifest.counts \in Nat
        <5>1. source \in Loads /\ manifest # NoDataset
          BY <3>1 DEF Opened, Scoped, Reading, Stages
        <5>2. PartsOf(manifest, parquet[ds], cfg, load, scope[cfg.scope])
          BY <1>s, <5>1 DEF Parts
        <5>3. QED
          BY <4>1, <5>2 DEF PartsOf, Manifests, Loads
      <4>3. \/ load' = load + 1
            \/ /\ load' = load
               /\ scope[cfg.scope] # NoScope /\ scope[cfg.scope].ready =>
                     scope'[cfg.scope] = scope[cfg.scope]
        BY <4>1, GraphStep
      <4>4. ReadFrom(parquet[ds], manifest, cfg, load, scope[cfg.scope])
        BY <3>1 DEF Staged
      <4>5. QED
        BY <4>1, <4>2, <4>3, <4>4, PartsKept
    <3>2. QED
      BY <2>1, <3>1 DEF Staged, commandVars, manifest, ds
  <2>5. QED
    BY <2>2, <2>3, <2>4
<1>4. CASE OpenManifest
  <2>1. /\ at = "counts" /\ UNCHANGED <<load, scope, labels, parquet>>
        /\ (at' = "population" /\ UNCHANGED <<source, cfg>>) \/ at' = "idle"
        /\ \/ disk' = disk /\ manifest # NoDataset
           \/ disk' = [disk EXCEPT ![ds] = NewManifest]
    BY <1>4 DEF OpenManifest, Leave, graphVars
  <2>2. ds \in DatasetIds /\ source \in Loads
    BY <1>d, <2>1 DEF Scoped
  <2>3. NewManifest \in Manifests
    <3>1. Hashes \in [Hashed -> Versions]
      BY PreparationAssumption DEF Hashes, Versions, TypeOK, InstallTypeOK, Sources
    <3>2. QED
      BY <3>1 DEF NewManifest, Manifests, TypeOK
  <2>4. PartsOf(NewManifest, parquet[ds], cfg, load, scope[cfg.scope])
    BY DEF PartsOf, NewManifest, TypeOK, Loads
  <2>5. Parts'
    <3>1. CASE disk' = disk
      BY <2>1, <3>1, PartsOnDisk
    <3>2. CASE disk' = [disk EXCEPT ![ds] = NewManifest]
      <4>1. /\ disk'[ds] = NewManifest /\ ds[2] = cfg
            /\ \A e \in DatasetIds \ {ds} : disk'[e] = disk[e] /\ parquet'[e] = parquet[e]
        BY <1>s, <2>1, <2>2, <3>2 DEF TypeOK
      <4>2. QED
        BY <2>1, <2>2, <2>4, <4>1, PartsOfOne
    <3>3. QED
      BY <2>1, <3>1, <3>2
  <2>6. Opened'
    <3>1. at' = "population" => disk'[<<source, cfg>>] # NoDataset
      BY <1>n, <1>s, <2>1, <2>2, <2>3 DEF TypeOK
    <3>2. QED
      BY <2>1, <2>2, <3>1 DEF Opened, Scoped, Reading, Stages, manifest, ds
  <2>7. LabelsInPlace' /\ Staged'
    BY <2>1 DEF LabelsInPlace, ScopeReady, Staged, Stages
  <2>8. QED
    BY <2>5, <2>6, <2>7
<1>5. CASE StagePopulation
  <2>1. /\ at = "population" /\ UNCHANGED <<load, scope, labels, disk>>
        /\ \/ /\ parquet[ds] # Nothing /\ manifest.accounts # Nothing
              /\ parquet' = parquet /\ at' = "labels" /\ UNCHANGED <<source, cfg>>
           \/ /\ ~(parquet[ds] # Nothing /\ manifest.accounts # Nothing)
              /\ ScopeReady
              /\ parquet' = [parquet EXCEPT ![ds] = Population]
              /\ at' = "record" /\ UNCHANGED <<source, cfg>>
           \/ parquet' = parquet /\ at' = "idle"
    BY <1>5 DEF StagePopulation, GoTo, Leave, graphVars
  <2>2. /\ ds \in DatasetIds /\ manifest \in Manifests /\ source \in Loads
        /\ ScopeReady => Population \in Populations
    BY <1>d, <2>1, StageTypes DEF Scoped, Stages
  <2>3. PartsOf(manifest, parquet[ds], cfg, load, scope[cfg.scope])
    BY <1>n, <1>s, <2>2 DEF Parts
  <2>4. Opened' /\ LabelsInPlace'
    BY <1>n, <1>s, <2>1, <2>2 DEF Opened, LabelsInPlace, Scoped, Reading, Stages, manifest, ds
  <2>5. CASE parquet' = parquet /\ at' # "record"
    <3>1. Parts'
      BY <2>1, <2>5, PartsOnDisk
    <3>2. Staged'
      BY <2>1, <2>5 DEF Staged, Stages, manifest, ds
    <3>3. QED
      BY <2>4, <3>1, <3>2
  <2>6. CASE parquet' = [parquet EXCEPT ![ds] = Population] /\ at' = "record"
    <3>1. ScopeReady /\ ~(parquet[ds] # Nothing /\ manifest.accounts # Nothing)
          /\ UNCHANGED <<source, cfg>>
      BY <2>1, <2>6
    <3>2. manifest.accounts = Nothing
      BY <2>3, <3>1 DEF PartsOf
    <3>3. PartsOf(manifest, Population, cfg, load, scope[cfg.scope])
      BY <2>3, <3>2 DEF PartsOf
    <3>4. /\ parquet'[ds] = Population /\ disk'[ds] = manifest /\ ds[2] = cfg
          /\ \A e \in DatasetIds \ {ds} : disk'[e] = disk[e] /\ parquet'[e] = parquet[e]
      BY <1>s, <2>1, <2>2, <2>6 DEF TypeOK
    <3>5. Parts'
      BY <2>1, <2>2, <3>3, <3>4, PartsOfOne
    <3>6. Population # Nothing /\ ReadFrom(Population, manifest, cfg, load, scope[cfg.scope])
      BY <1>n, <2>1, <2>2, <3>1 DEF ReadFrom, Population, LabelsInPlace, ScopeReady
    <3>7. Staged'
      BY <1>s, <2>1, <2>6, <3>1, <3>2, <3>4, <3>6 DEF Staged, Stages, manifest, ds
    <3>8. QED
      BY <2>4, <3>5, <3>7
  <2>7. QED
    BY <2>1, <2>5, <2>6
<1>6. CASE RecordPopulation \/ StageLabels \/ StageCutoffs \/ StageHubs \/ MarkReady \/ Compare
  <2>1. /\ at \in Stages \ {"population"} /\ UNCHANGED <<load, scope, labels, parquet>>
        /\ \/ at' = "idle"
           \/ at' \in {"labels", "cutoffs", "hubs", "ready", "compare", "open"}
              /\ UNCHANGED <<source, cfg>>
    BY <1>6 DEF RecordPopulation, StageLabels, StageCutoffs, StageHubs, MarkReady, Compare,
       Stages, graphVars, GoTo, Leave
  <2>2. ds \in DatasetIds /\ manifest \in Manifests /\ source \in Loads
    BY <1>d, <2>1, StageTypes DEF Scoped
  <2>3. PartsOf(manifest, parquet[ds], cfg, load, scope[cfg.scope])
    BY <1>n, <1>s, <2>2 DEF Parts
  <2> DEFINE n == disk'[ds]
             Sound == /\ n # NoDataset
                      /\ PartsOf(n, parquet[ds], cfg, load, scope[cfg.scope])
                      /\ at' \in Stages => n.accounts # Nothing
                      /\ at' \in {"cutoffs", "hubs", "ready", "compare"} => n.labels # Nothing
                      /\ at' \in {"hubs", "ready", "compare"} => n.cutoffs # Nothing
                      /\ at' \in {"ready", "compare"} => n.hubs # Nothing
  <2>4. /\ \A e \in DatasetIds \ {ds} : disk'[e] = disk[e]
        /\ Sound
    <3> USE DEF TypeOK
    <3> HIDE DEF n
    <3>d. \A v : disk' = [disk EXCEPT ![ds] = v] =>
            disk'[ds] = v /\ \A e \in DatasetIds \ {ds} : disk'[e] = disk[e]
      BY <2>2
    <3>1. CASE RecordPopulation
      <4> DEFINE v == parquet[ds]
      <4>1. at = "record" /\ at' = "labels" /\ disk' = [disk EXCEPT ![ds] = [@ EXCEPT !["accounts"] = v]]
        BY <3>1 DEF RecordPopulation, Record, GoTo
      <4>2. v \in Populations /\ v # Nothing
        BY <1>n, <4>1, StageTypes DEF Stages
      <4>3. /\ disk'[ds] = [manifest EXCEPT !.accounts = v]
            /\ \A e \in DatasetIds \ {ds} : disk'[e] = disk[e]
        BY <1>s, <2>2, <3>d, <4>1, <4>2, Fields
      <4>4. /\ manifest.accounts = Nothing
            /\ ReadFrom(v, manifest, cfg, load, scope[cfg.scope])
        BY <4>1 DEF Staged
      <4> HIDE DEF v
      <4>5. /\ disk'[ds] \in Manifests /\ disk'[ds].accounts = v
            /\ disk'[ds].counts = manifest.counts /\ disk'[ds].labels = manifest.labels
            /\ disk'[ds].cutoffs = manifest.cutoffs /\ disk'[ds].hubs = manifest.hubs
            /\ disk'[ds].status = manifest.status
        BY <2>2, <4>2, <4>3 DEF Manifests
      <4>6. PartsOf(disk'[ds], v, cfg, load, scope[cfg.scope])
        BY <2>3, <4>2, <4>4, <4>5 DEF PartsOf, ReadFrom
      <4>7. QED
        BY <1>n, <4>1, <4>2, <4>3, <4>5, <4>6 DEF n, v
    <3>2. CASE StageLabels
      <4>1. CASE ~(parquet[ds] = manifest.accounts /\ manifest.labels = Nothing)
        <5>1. disk' = disk /\ (at' = "idle" \/ (at' = "cutoffs" /\ manifest.labels # Nothing))
          BY <3>2, <4>1 DEF StageLabels, GoTo, Leave
        <5>2. manifest.accounts # Nothing
          BY <2>1, <3>2 DEF StageLabels, Staged, Stages
        <5>3. QED
          BY <1>n, <1>s, <2>2, <2>3, <5>1, <5>2 DEF Stages, n
      <4>2. CASE parquet[ds] = manifest.accounts /\ manifest.labels = Nothing
        <5> DEFINE v == parquet[ds].labels
        <5>1. /\ at = "labels" /\ at' = "cutoffs" /\ parquet[ds] = manifest.accounts
              /\ manifest.labels = Nothing
              /\ disk' = [disk EXCEPT ![ds] = [@ EXCEPT !["labels"] = v]]
          BY <3>2, <4>2 DEF StageLabels, Record, GoTo, Leave
        <5>2. v \in Reveals /\ v # Nothing /\ manifest.accounts # Nothing
          BY <1>n, <5>1, StageTypes DEF Stages, Staged
        <5>3. /\ disk'[ds] = [manifest EXCEPT !.labels = v]
              /\ \A e \in DatasetIds \ {ds} : disk'[e] = disk[e]
          BY <1>s, <2>2, <3>d, <5>1, <5>2, Fields
        <5> HIDE DEF v
        <5>4. /\ disk'[ds] \in Manifests /\ disk'[ds].labels = v
              /\ disk'[ds].counts = manifest.counts /\ disk'[ds].accounts = manifest.accounts
              /\ disk'[ds].cutoffs = manifest.cutoffs /\ disk'[ds].hubs = manifest.hubs
              /\ disk'[ds].status = manifest.status
          BY <2>2, <5>2, <5>3 DEF Manifests
        <5>5. v = manifest.accounts.labels
          BY <5>1 DEF v
        <5>6. PartsOf(disk'[ds], parquet[ds], cfg, load, scope[cfg.scope])
          BY <2>3, <5>2, <5>4, <5>5 DEF PartsOf, ReadFrom
        <5>7. QED
          BY <1>n, <5>1, <5>2, <5>3, <5>4, <5>6 DEF n
      <4>3. QED
        BY <4>1, <4>2
    <3>3. CASE StageCutoffs
      <4>1. at = "cutoffs" /\ at' = "hubs"
        BY <3>3 DEF StageCutoffs, GoTo
      <4>2. CASE manifest.cutoffs # Nothing
        BY <1>n, <1>s, <2>1, <2>2, <2>3, <3>3, <4>1, <4>2 DEF StageCutoffs, Staged, Stages, n
      <4>3. CASE manifest.cutoffs = Nothing
        <5>1. disk' = [disk EXCEPT ![ds] = [@ EXCEPT !["cutoffs"] = load]]
          BY <3>3, <4>3 DEF StageCutoffs, Record
        <5>2. load \in Loads /\ load # Nothing
          BY <1>n
        <5>3. /\ disk'[ds] = [manifest EXCEPT !.cutoffs = load]
              /\ \A e \in DatasetIds \ {ds} : disk'[e] = disk[e]
          BY <1>s, <2>2, <3>d, <5>1, <5>2, Fields
        <5>4. /\ disk'[ds] \in Manifests /\ disk'[ds].cutoffs = load
              /\ disk'[ds].counts = manifest.counts /\ disk'[ds].accounts = manifest.accounts
              /\ disk'[ds].labels = manifest.labels /\ disk'[ds].hubs = manifest.hubs
              /\ disk'[ds].status = manifest.status
          BY <2>2, <5>2, <5>3 DEF Manifests
        <5>5. PartsOf(disk'[ds], parquet[ds], cfg, load, scope[cfg.scope])
          BY <2>3, <5>2, <5>4 DEF PartsOf, ReadFrom
        <5>6. QED
          BY <1>n, <4>1, <5>2, <5>3, <5>4, <5>5 DEF n, Staged, Stages
      <4>4. QED
        BY <4>2, <4>3
    <3>4. CASE StageHubs
      <4>1. at = "hubs" /\ at' = "ready"
        BY <3>4 DEF StageHubs, GoTo
      <4>2. CASE manifest.hubs # Nothing
        BY <1>n, <1>s, <2>1, <2>2, <2>3, <3>4, <4>1, <4>2 DEF StageHubs, Staged, Stages, n
      <4>3. CASE manifest.hubs = Nothing
        <5> DEFINE v == [load |-> load, scope |-> scope[cfg.scope]]
        <5>1. disk' = [disk EXCEPT ![ds] = [@ EXCEPT !["hubs"] = v]]
          BY <3>4, <4>3 DEF StageHubs, Record
        <5>2. v \in Registries /\ v # Nothing /\ manifest.accounts # Nothing
          BY <1>n, <4>1, StageTypes DEF Stages, Staged
        <5>3. /\ disk'[ds] = [manifest EXCEPT !.hubs = v]
              /\ \A e \in DatasetIds \ {ds} : disk'[e] = disk[e]
          BY <1>s, <2>2, <3>d, <5>1, <5>2, Fields
        <5>4. /\ disk'[ds] \in Manifests /\ disk'[ds].hubs = v
              /\ disk'[ds].counts = manifest.counts /\ disk'[ds].accounts = manifest.accounts
              /\ disk'[ds].labels = manifest.labels /\ disk'[ds].cutoffs = manifest.cutoffs
              /\ disk'[ds].status = manifest.status
          <6> HIDE DEF v
          <6> QED
            BY <2>2, <5>2, <5>3 DEF Manifests
        <5>5. PartsOf(disk'[ds], parquet[ds], cfg, load, scope[cfg.scope])
          BY <2>3, <5>2, <5>4 DEF PartsOf, ReadFrom
        <5>6. QED
          BY <1>n, <4>1, <5>2, <5>3, <5>4, <5>5 DEF n, Staged, Stages
      <4>4. QED
        BY <4>2, <4>3
    <3>5. CASE MarkReady
      <4>1. /\ at = "ready" /\ at' = "compare"
            /\ disk' = [disk EXCEPT ![ds] = [@ EXCEPT !["status"] = "ready"]]
        BY <3>5 DEF MarkReady, GoTo, Record
      <4>2. /\ disk'[ds] = [manifest EXCEPT !.status = "ready"]
            /\ \A e \in DatasetIds \ {ds} : disk'[e] = disk[e]
        BY <1>s, <2>2, <3>d, <4>1, Fields
      <4>3. /\ disk'[ds] \in Manifests /\ disk'[ds].status = "ready"
            /\ disk'[ds].counts = manifest.counts /\ disk'[ds].accounts = manifest.accounts
            /\ disk'[ds].labels = manifest.labels /\ disk'[ds].cutoffs = manifest.cutoffs
            /\ disk'[ds].hubs = manifest.hubs
        BY <2>2, <4>2 DEF Manifests
      <4>4. /\ manifest.accounts # Nothing /\ manifest.labels # Nothing
            /\ manifest.cutoffs # Nothing /\ manifest.hubs # Nothing
        BY <4>1 DEF Staged, Stages
      <4>5. PartsOf(disk'[ds], parquet[ds], cfg, load, scope[cfg.scope])
        BY <2>3, <4>3, <4>4 DEF PartsOf, ReadFrom
      <4>6. QED
        BY <1>n, <4>1, <4>2, <4>3, <4>4, <4>5 DEF n
    <3>6. CASE Compare
      <4>1. at = "compare" /\ at' \in {"open", "idle"}
        BY <3>6 DEF Compare, GoTo, Leave
      <4>2. CASE disk' = disk
        BY <1>n, <1>s, <2>1, <2>2, <2>3, <4>1, <4>2 DEF Stages, n
      <4>3. CASE disk' # disk
        <5>1. disk' = [disk EXCEPT ![ds] = [@ EXCEPT !["status"] = "source_changed"]]
          BY <3>6, <4>3 DEF Compare, Record
        <5>2. /\ disk'[ds] = [manifest EXCEPT !.status = "source_changed"]
              /\ \A e \in DatasetIds \ {ds} : disk'[e] = disk[e]
          BY <1>s, <2>2, <3>d, <5>1, Fields
        <5>3. /\ disk'[ds] \in Manifests /\ disk'[ds].status = "source_changed"
              /\ disk'[ds].counts = manifest.counts /\ disk'[ds].accounts = manifest.accounts
              /\ disk'[ds].labels = manifest.labels /\ disk'[ds].cutoffs = manifest.cutoffs
              /\ disk'[ds].hubs = manifest.hubs
          BY <2>2, <5>2 DEF Manifests
        <5>4. PartsOf(disk'[ds], parquet[ds], cfg, load, scope[cfg.scope])
          BY <2>3, <5>3 DEF PartsOf, ReadFrom
        <5>5. QED
          BY <1>n, <4>1, <5>2, <5>3, <5>4 DEF n, Stages
      <4>4. QED
        BY <4>2, <4>3
    <3>7. QED
      BY <1>6, <3>1, <3>2, <3>3, <3>4, <3>5, <3>6
  <2>5. Parts'
    BY <1>s, <2>1, <2>2, <2>4, PartsOfOne
  <2>6. Opened'
    BY <1>s, <2>1, <2>2, <2>4 DEF Opened, Scoped, Reading, Stages, manifest, ds
  <2>7. LabelsInPlace'
    BY <2>1 DEF LabelsInPlace
  <2>8. Staged'
    BY <1>s, <2>1, <2>4 DEF Staged, Stages, manifest, ds
  <2>9. QED
    BY <2>5, <2>6, <2>7, <2>8
<1>7. ASSUME NEW d \in DatasetIds, MoveAside(d) PROVE Opened' /\ Parts' /\ LabelsInPlace' /\ Staged'
  <2>1. /\ at' = "idle" /\ UNCHANGED <<load, scope>>
        /\ disk'[d] = NoDataset
        /\ \A e \in DatasetIds \ {d} : disk'[e] = disk[e] /\ parquet'[e] = parquet[e]
    BY <1>7 DEF MoveAside, graphVars, commandVars, TypeOK
  <2>2. Parts'
    BY <2>1, PartsOfOne
  <2>3. QED
    BY <2>1, <2>2 DEF Opened, Scoped, Reading, Stages, LabelsInPlace, Staged
<1>8. QED
  BY <1>1, <1>2, <1>3, <1>4, <1>5, <1>6, <1>7 DEF Next, Command, Quiet

-----------------------------------------------------------------------------
(* The theorems. *)

\* The invariant holds of an empty graph and an empty disk.
LEMMA PreparationInit == Init => IInv
<1> SUFFICES ASSUME Init PROVE IInv
  OBVIOUS
<1>1. InstallInv
  BY InstallInitInv DEF Init
<1>2. AnyConfig \in Configs /\ MaxFaults \in Nat
  BY PreparationAssumption DEF AnyConfig
<1>3. TypeOK
  BY <1>1, <1>2 DEF Init, TypeOK, InstallInv, Loads
<1>4. TypesInPlace
  BY DEF Init, InstallInit, TypesInPlace, Installing, Scoped, Stages, Sources
<1>5. LoadsCounted
  BY DEF Init, LoadsCounted
<1>6. Opened /\ Parts /\ LabelsInPlace /\ Staged
  BY DEF Init, Opened, Parts, LabelsInPlace, Staged, Scoped, Reading, Stages, DatasetIds
<1>7. QED
  BY <1>1, <1>3, <1>4, <1>5, <1>6 DEF IInv

\* Every step of an installer, a command, a run or the graph's writers keeps the invariant.
LEMMA PreparationNext == IInv /\ [Next]_vars => IInv'
<1> SUFFICES ASSUME IInv, [Next]_vars PROVE IInv'
  OBVIOUS
<1>1. InstallInv'
  BY InstallNext, NextInstalls DEF IInv
<1>2. TypesInPlace' /\ LoadsCounted'
  BY TypesStep, LoadsStep DEF IInv
<1>3. TypeOK'
  BY TypeStep DEF IInv
<1>4. Opened' /\ Parts' /\ LabelsInPlace' /\ Staged'
  BY <1>3, DataStep DEF IInv
<1>5. QED
  BY <1>1, <1>2, <1>3, <1>4 DEF IInv

\* Every variable of the preparation has its type; the graph is loaded no more often than
\* the bound on the faults and one replacement of the types allow.
THEOREM PreparationTypeCorrect == Spec => []TypeOK
<1>1. IInv => TypeOK
  BY DEF IInv
<1>2. QED
  BY <1>1, PreparationInit, PreparationNext, PTL DEF Spec

\* A run begins only on a dataset whose every part was read from the graph as it is now, with
\* the labels of its reveal (RunsOnWhatWasPrepared).
THEOREM RunsCorrect == Spec => RunsOnWhatWasPrepared
<1>1. ASSUME IInv, [Next]_vars, at = "open", at' = "running" PROVE PartsOfGraph
  <2>1. Open
    BY <1>1 DEF Next, Command, Start, StartInstall, Install, InstallFailed, Installed,
       EnsureScope, FinalizeScope, Reveal, ForceReveal, OpenManifest, StagePopulation,
       RecordPopulation, StageLabels, StageCutoffs, StageHubs, MarkReady, Compare, EndRun,
       CompileStep, MoveAside, ReloadForTypes, Ingest, Reload, ClearGraph, UpdateRepository, Die,
       ServerFault, vars, prepareVars, commandVars, GoTo, Leave
  <2>2. Prepared /\ Frozen
    BY <1>1, <2>1 DEF Open, Leave
  <2>3. manifest # NoDataset /\ source \in Loads /\ cfg \in Configs
    BY <1>1 DEF IInv, Opened, Reading, TypeOK
  <2>4. PartsOf(manifest, parquet[ds], cfg, load, scope[cfg.scope])
    BY <1>1, <2>3 DEF IInv, Parts, manifest, ds
  <2>5. manifest.counts = load /\ AlreadyRevealed(cfg)
    BY <2>2 DEF Frozen
  <2>6. /\ manifest.accounts # Nothing /\ manifest.labels # Nothing
        /\ manifest.cutoffs # Nothing /\ manifest.hubs # Nothing
    BY <2>2, <2>4 DEF Prepared, PartsOf
  <2>7. QED
    BY <2>4, <2>5, <2>6 DEF PartsOf, ReadFrom, PartsOfGraph, AlreadyRevealed
<1>2. QED
  BY <1>1, PreparationInit, PreparationNext, PTL DEF Spec, RunsOnWhatWasPrepared

\* A part that a dataset has recorded is never read again, and is what is on its disk
\* (PartsReadOnce).
THEOREM PartsCorrect == Spec => PartsReadOnce
<1> DEFINE Kept(d) ==
        disk[d] # NoDataset /\ disk'[d] # NoDataset =>
            \A part \in {"accounts", "labels", "cutoffs", "hubs"} :
                disk[d][part] # Nothing => disk'[d][part] = disk[d][part]
<1> DEFINE OnDisk(d) ==
        disk'[d] # NoDataset /\ disk'[d].accounts # Nothing => parquet'[d] = disk'[d].accounts
<1>1. ASSUME IInv, [Next]_vars, NEW d \in DatasetIds PROVE Kept(d)
  <2>1. CASE disk'[d] = disk[d]
    BY <2>1
  <2>2. CASE disk'[d] # disk[d]
    <3>1. disk \in [DatasetIds -> Manifests \cup {NoDataset}]
      BY <1>1 DEF IInv, TypeOK
    <3>2. \/ OpenManifest \/ RecordPopulation \/ StageLabels \/ StageCutoffs \/ StageHubs
          \/ MarkReady \/ Compare
          \/ \E e \in DatasetIds : MoveAside(e)
      <4>1. ~Quiet
        BY <2>2, QuietKeeps
      <4>2. ~(EnsureScope \/ FinalizeScope \/ Reveal \/ ForceReveal \/ StagePopulation
                \/ Ingest \/ Reload \/ ReloadForTypes)
        BY <2>2 DEF EnsureScope, FinalizeScope, Reveal, ForceReveal, StagePopulation, Ingest,
           Reload, ReloadForTypes, ClearGraph
      <4>3. QED
        BY <1>1, <4>1, <4>2 DEF Next, Command, Quiet
    <3>3. CASE OpenManifest
      BY <2>2, <3>1, <3>3 DEF OpenManifest, manifest
    <3>4. ASSUME NEW e \in DatasetIds, MoveAside(e) PROVE Kept(d)
      BY <2>2, <3>1, <3>4 DEF MoveAside
    <3>5. CASE \/ RecordPopulation \/ StageLabels \/ StageCutoffs \/ StageHubs
               \/ MarkReady \/ Compare
      <4>1. at \in Stages
        BY <3>5 DEF RecordPopulation, StageLabels, StageCutoffs, StageHubs, MarkReady, Compare,
           Stages
      <4>2. manifest \in Manifests
        BY <1>1, <4>1, StageTypes DEF IInv
      <4>3. PICK field \in {"accounts", "labels", "cutoffs", "hubs", "status"} : \E v :
              /\ disk' = [disk EXCEPT ![ds] = [@ EXCEPT ![field] = v]]
              /\ field # "status" => manifest[field] = Nothing
        <5>1. CASE RecordPopulation
          BY <1>1, <5>1 DEF RecordPopulation, Record, IInv, Staged
        <5>2. CASE StageLabels \/ StageCutoffs \/ StageHubs
          BY <2>2, <5>2 DEF StageLabels, StageCutoffs, StageHubs, Record
        <5>3. CASE MarkReady \/ Compare
          BY <2>2, <5>3 DEF MarkReady, Compare, Record
        <5>4. QED
          BY <3>5, <5>1, <5>2, <5>3
      <4>4. PICK v :
              /\ d = ds /\ disk'[d] = [manifest EXCEPT ![field] = v]
              /\ field # "status" => manifest[field] = Nothing
        BY <2>2, <3>1, <4>3 DEF manifest
      <4>5. \A part \in {"accounts", "labels", "cutoffs", "hubs"} :
              part # field => disk'[d][part] = manifest[part]
        BY <4>2, <4>4 DEF Manifests
      <4>6. QED
        BY <4>4, <4>5 DEF manifest
    <3>6. QED
      BY <3>2, <3>3, <3>4, <3>5
  <2>3. QED
    BY <2>1, <2>2
<1>2. ASSUME IInv', NEW d \in DatasetIds PROVE OnDisk(d)
  <2>1. PICK s \in Loads, c \in Configs : d = <<s, c>>
    BY DEF DatasetIds
  <2>2. QED
    BY <1>2, <2>1 DEF IInv, Parts, PartsOf
<1>3. IInv /\ IInv' /\ [Next]_vars => KeepsParts
  BY <1>1, <1>2 DEF KeepsParts
<1>4. QED
  BY <1>3, PreparationInit, PreparationNext, PTL DEF Spec, PartsReadOnce
=============================================================================
