------------------------------- MODULE Scoring -------------------------------
(***************************************************************************)
(* The commands that score accounts with a run's model, on the batches of  *)
(* BatchPrefetcher: `mule score` (inference/score_accounts.py), which      *)
(* writes two files when all is scored, and `mule evaluate`                *)
(* (evaluation/audit.py), which audits two splits on one context source    *)
(* and writes three files for each.                                        *)
(*                                                                         *)
(* Commands run one at a time.  Any of them may fail, be interrupted or be *)
(* killed between two steps; the person who runs them removes what a kill  *)
(* left behind, or moves finished scores aside.  A file is {} while it     *)
(* does not exist, else the set of its one content.  Within a batch the    *)
(* rows follow its accounts; of each batch a file has the set of those.    *)
(***************************************************************************)
EXTENDS BatchPrefetcher, SequencesExt

CONSTANTS
    Ids,          \* the accounts to score, in order: of the file, or of the audit sample
    BatchSize,
    Rejectable,   \* the accounts TigerGraph may reject
    Mules,        \* those that are mules
    Limit,        \* how many rejected accounts an audit allows
    Plans         \* bound: the sequences of commands that people run

ASSUME ScoringAssumption ==
    /\ Ids \in Seq(Range(Ids)) /\ IsInjective(Ids) /\ BatchSize \in Nat \ {0}
    /\ Items > 0 /\ Len(Ids) \in (Items - 1) * BatchSize + 1..Items * BatchSize
    /\ Rejectable \subseteq Range(Ids) /\ Mules \subseteq Range(Ids) /\ Limit \in Nat
    /\ Plans \subseteq Seq({"score", "evaluate", "study", "upgrade", "ingest"})

Splits == <<"validation", "test">>

VARIABLES
    todo,      \* the commands of the plan still to run
    commands,  \* how many commands were begun
    step,      \* where the command is; "idle" between two
    split,     \* the split an evaluation is at, 0 for `mule score`
    rows, bad, \* the accounts scored and those rejected, of each batch as it was yielded
    served,    \* the rejections the context source has counted
    before,    \* SourceRejections.of: a copy of them from before the sample
    scores,    \* the files of `mule score`: [output, rejected, pending, pending_rejected]
    audits,    \* the files of each split's audit: [scores, rejected, report]
    cut        \* a command ended between the replacements of its two files

commandVars == <<todo, commands, step, split>>
streamed == <<rows, bad, served, before>>
fileVars == <<scores, audits, cut>>
scoringVars == <<streamVars, commandVars, streamed, fileVars>>

Missing == {}
Written(ids) == {[by |-> commands, ids |-> ids]}

NoScores == [output |-> Missing, rejected |-> Missing,
             pending |-> Missing, pending_rejected |-> Missing]
NoAudit == [scores |-> Missing, rejected |-> Missing, report |-> Missing]

ScoringInit ==
    /\ StreamInit
    /\ todo \in Plans
    /\ commands = 0
    /\ step = "idle"
    /\ split = 0
    /\ rows = <<>> /\ bad = <<>>
    /\ served = 0 /\ before = 0
    /\ scores = NoScores
    /\ audits = [s \in DOMAIN Splits |-> NoAudit]
    /\ cut = FALSE

-----------------------------------------------------------------------------
\* The stream of a command.

\* id_batches, and the slices of an audit sample.
Batch(i) == {Ids[k] : k \in DOMAIN Ids \cap ((i - 1) * BatchSize + 1)..(i * BatchSize)}

\* The accounts of every batch, for instance those rejected.
Accounts(batches) == UNION Range(batches)
Refused == Accounts(bad)

\* A new prefetcher over the batches.
Restream == StreamReset /\ rows' = <<>> /\ bad' = <<>>

\* Predictor.stream: the next batch's accepted roots are rows, the others are rejected; the
\* score command writes them to its pending files.
WriteBatch ==
    /\ step = "streaming"
    /\ Yielded
    /\ \E refused \in SUBSET (Batch(current) \cap Rejectable) :
         /\ rows' = Append(rows, Batch(current) \ refused)
         /\ bad' = Append(bad, refused)
         /\ served' = served + Cardinality(refused)
    /\ scores' = IF split # 0 THEN scores
                 ELSE [scores EXCEPT !.pending = Written(rows'), !.pending_rejected = Written(bad')]
    /\ UNCHANGED <<commandVars, before, audits, cut>>

StreamStep ==
    /\ step = "streaming"
    /\ Consumer
    /\ UNCHANGED <<commandVars, streamed, fileVars>>

InterruptStep ==
    /\ step = "streaming"
    /\ Interrupt
    /\ UNCHANGED <<commandVars, streamed, fileVars>>

BuildStep(w) ==
    /\ step = "streaming"
    /\ Build(w)
    /\ UNCHANGED <<commandVars, streamed, fileVars>>

\* The process is gone: nothing of it is left but its files.
Exit ==
    /\ step' = "idle"
    /\ split' = 0
    /\ Restream
    /\ served' = 0 /\ before' = 0
    /\ UNCHANGED <<todo, commands>>

\* The next command of the plan is given, once the one before has ended.
Begin(command) ==
    /\ step = "idle"
    /\ todo # <<>> /\ Head(todo) = command
    /\ todo' = Tail(todo)
    /\ commands' = commands + 1

-----------------------------------------------------------------------------
\* mule score.

\* check_new_outputs: neither file exists, nor one that another command was writing.
CheckNewOutputs == scores = NoScores

StartScore ==
    /\ Begin("score")
    /\ CheckNewOutputs
    /\ step' = "resolving"
    /\ UNCHANGED <<streamVars, split, streamed, fileVars>>

\* The cutoff and the hubs are known: both pending files are opened.
OpenOutputs ==
    /\ step = "resolving"
    /\ step' = "streaming"
    /\ scores' = [scores EXCEPT !.pending = Written(<<>>), !.pending_rejected = Written(<<>>)]
    /\ UNCHANGED <<streamVars, todo, commands, split, streamed, audits, cut>>

Streamed == step = "streaming" /\ at = "ended"

\* atomic_write(output) ends: the scores are in place.
ReplaceOutput ==
    /\ Streamed /\ split = 0
    /\ scores' = [scores EXCEPT !.output = scores.pending, !.pending = Missing]
    /\ step' = "replaced"
    /\ UNCHANGED <<streamVars, todo, commands, split, streamed, audits, cut>>

\* atomic_write(rejected_output) ends, with a list only if an account was rejected.
ReplaceRejected ==
    /\ step = "replaced"
    /\ scores' = [scores EXCEPT !.rejected = IF Refused = {} THEN @ ELSE scores.pending_rejected,
                                !.pending_rejected = Missing]
    /\ Exit
    /\ UNCHANGED <<audits, cut>>

\* An error or Ctrl-C: atomic_write removes the pending files, whatever is in place stays.
Unwind ==
    /\ \/ step = "resolving"
       \/ step = "streaming" /\ at = "raised"
       \/ step = "replaced"
    /\ scores' = IF split # 0 THEN scores
                 ELSE [scores EXCEPT !.pending = Missing, !.pending_rejected = Missing]
    /\ cut' = (cut \/ (step = "replaced" /\ Refused # {}))
    /\ Exit
    /\ UNCHANGED audits

-----------------------------------------------------------------------------
\* mule evaluate.

\* audited: a split's report is written last.
Audited(s) == audits[s].report # Missing
NextSplit == Min({s \in DOMAIN Splits : ~Audited(s)})

StartEvaluate ==
    /\ Begin("evaluate")
    /\ \E s \in DOMAIN Splits : ~Audited(s)
    /\ split' = NextSplit
    /\ step' = "streaming"
    /\ UNCHANGED <<streamVars, streamed, fileVars>>

\* exceeds_rejection_limit: any positive, or more than the allowed.
ExceedsRejectionLimit == Refused \cap Mules # {} \/ Cardinality(Refused) > Limit

\* A censored sample fails the audit before anything is written.
FailCensored ==
    /\ Streamed /\ split # 0
    /\ ExceedsRejectionLimit
    /\ Exit
    /\ UNCHANGED fileVars

\* write_audit: the scored sample, the rejected accounts or none, then the report.
WriteScores ==
    /\ Streamed /\ split # 0
    /\ ~ExceedsRejectionLimit
    /\ audits' = [audits EXCEPT ![split].scores = Written(rows)]
    /\ step' = "scored"
    /\ UNCHANGED <<streamVars, todo, commands, split, streamed, scores, cut>>

\* Mutant: the list an interrupted audit left stays where no account is rejected now.
WriteRejectedOnly ==
    /\ step = "scored"
    /\ audits' = [audits EXCEPT ![split].rejected = IF Refused = {} THEN @ ELSE Written(bad)]
    /\ step' = "listed"
    /\ UNCHANGED <<streamVars, todo, commands, split, streamed, scores, cut>>

WriteRejected ==
    /\ step = "scored"
    /\ audits' = [audits EXCEPT ![split].rejected = IF Refused = {} THEN Missing ELSE Written(bad)]
    /\ step' = "listed"
    /\ UNCHANGED <<streamVars, todo, commands, split, streamed, scores, cut>>

\* rejection_summary: the rejections served since the copy taken before the sample.
Served == served - before

\* The report is in place; the next split has the same source, and a stream of its own.
WriteReport ==
    /\ step = "listed"
    /\ audits' = [audits EXCEPT ![split].report =
                    {[by |-> commands, rejected |-> Cardinality(Refused), served |-> Served]}]
    /\ \/ /\ \E s \in DOMAIN Splits : s # split /\ ~Audited(s)
          /\ split' = Min({s \in DOMAIN Splits : s # split /\ ~Audited(s)})
          /\ step' = "streaming"
          /\ before' = served
          /\ Restream
          /\ UNCHANGED <<served, todo, commands>>
       \/ /\ \A s \in DOMAIN Splits : s # split => Audited(s)
          /\ Exit
    /\ UNCHANGED <<scores, cut>>

-----------------------------------------------------------------------------
\* The ends of a process from outside, and the person.

\* Killed: the files stay as they are, the pending ones too.
Kill ==
    /\ step # "idle"
    /\ cut' = (cut \/ (step = "replaced" /\ Refused # {}))
    /\ Exit
    /\ UNCHANGED <<scores, audits>>

RemovePending ==
    /\ step = "idle"
    /\ scores.pending # Missing \/ scores.pending_rejected # Missing
    /\ scores' = [scores EXCEPT !.pending = Missing, !.pending_rejected = Missing]
    /\ UNCHANGED <<streamVars, commandVars, streamed, audits, cut>>

MoveScoresAside ==
    /\ step = "idle"
    /\ scores.output # Missing
    /\ scores' = [scores EXCEPT !.output = Missing, !.rejected = Missing]
    /\ cut' = FALSE
    /\ UNCHANGED <<streamVars, commandVars, streamed, audits>>

Command ==
    \/ OpenOutputs \/ WriteBatch \/ StreamStep
    \/ ReplaceOutput \/ ReplaceRejected \/ Unwind
    \/ FailCensored \/ WriteScores \/ WriteRejected \/ WriteReport

ScoringNext ==
    \/ StartScore \/ StartEvaluate
    \/ Command
    \/ \E w \in Workers : BuildStep(w)
    \/ InterruptStep \/ Kill \/ RemovePending \/ MoveScoresAside

-----------------------------------------------------------------------------
\* Every variable has its type.
TypeOK ==
    /\ StreamTypeOK
    /\ \E p \in Plans : IsSuffix(todo, p)
    /\ commands \in Nat
    /\ step \in {"idle", "resolving", "streaming", "replaced", "scored", "listed", "studying"}
    /\ split \in 0..Len(Splits)
    /\ rows \in Seq(SUBSET Range(Ids)) /\ bad \in Seq(SUBSET Range(Ids))
    /\ served \in Nat /\ before \in 0..served

\* The accounts of two files are all of them, batch after batch, each in one file.
Parts(accepted, rejected) ==
    /\ Len(accepted) = Items /\ Len(rejected) = Items
    /\ \A i \in 1..Items :
         accepted[i] = Batch(i) \ rejected[i] /\ rejected[i] \subseteq Batch(i)

NothingOf == [i \in 1..Items |-> {}]
Content(file) == IF file = Missing THEN NothingOf ELSE (CHOOSE f \in file : TRUE).ids

\* Scores in place are complete: a row for every account that was not rejected, batch after
\* batch in the order of the file, with the list of the others beside them, of the same
\* command.  Batches are built out of order, builds fail and commands end at every step; only
\* one that ends between the two replacements leaves scores without their list.
ScoresComplete ==
    scores.output # Missing =>
        IF cut THEN scores.rejected = Missing
        ELSE /\ step # "replaced" => Parts(Content(scores.output), Content(scores.rejected))
             /\ \A o \in scores.output, r \in scores.rejected : o.by = r.by

\* An audit's three files are of one command, whatever earlier ones left: the report stands
\* beside the scores of its sample and, if an account was rejected, the list of those.
\* Together they are the sample; no mule is missing from the scores.  The rejections that
\* the report counts are its sample's, though the splits share a context source.
FilesOfOneAudit ==
    \A s \in DOMAIN Splits : \A r \in audits[s].report :
        /\ \A f \in audits[s].scores \cup audits[s].rejected : f.by = r.by
        /\ Parts(Content(audits[s].scores), Content(audits[s].rejected))
        /\ Cardinality(Accounts(Content(audits[s].rejected))) = r.rejected /\ r.rejected <= Limit
        /\ r.served = r.rejected
        /\ Mules \subseteq Accounts(Content(audits[s].scores))

\* A command ends: the iteration of its stream with results, by an error or interrupted, the
\* workers joined, and what follows it.
CommandEnds == step # "idle" ~> step = "idle"
=============================================================================
