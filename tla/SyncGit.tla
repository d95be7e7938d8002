------------------------------ MODULE SyncGit ------------------------------
(***************************************************************************)
(* kernelhub sync-git (internal/commands/sync_git.go): three git commands  *)
(* (merge-base, log, reflog) with the agent at work between them, the      *)
(* integrity checks, and the write of the run.                             *)
(*                                                                         *)
(* An iteration is its commit.  One run_id; the write is the transaction   *)
(* of appendRunWithMode (HistoryDB).                                       *)
(***************************************************************************)
EXTENDS GitRepo

VARIABLES spc,      \* where the command is
          base,     \* the merge-base, or NoCommit: the whole branch
          since,    \* joins when the base was asked for
          records,  \* what collectGitRecords returns
          due,      \* the commits a complete run has, when git log ran
          how,      \* what the checks have found
          run,      \* the stored run
          commands  \* how many commands were started, for the bound

syncVars == <<spc, base, since, records, due, how, run>>

\* A vetted run has passed the checks; a joined one as well, but the branch was
\* merged into between merge-base and log; a mixed one was upserted from syncs
\* of which one was joined; a forced one has not passed (--force, or a reflog
\* that cannot be read, or the branch was moved without a line).
How == {"vetted", "joined", "mixed", "forced"}
RunRecord == [commits : SUBSET Commits, due : SUBSET Commits, how : How]
NoRun == [commits |-> {}, due |-> {}, how |-> "vetted"]

SyncTypeOK ==
  /\ spc \in {"idle", "log", "reflog", "write", "refused"}
  /\ base \in Ref
  /\ since \in Nat
  /\ records \in SUBSET Commits
  /\ due \in SUBSET Commits
  /\ how \in How
  /\ run \in RunRecord
  /\ commands \in Nat

SyncInit ==
  /\ spc = "idle"
  /\ base = NoCommit
  /\ since = 0
  /\ records = {}
  /\ due = {}
  /\ how = "vetted"
  /\ run = NoRun
  /\ commands = 0

\* Mutant: any common commit.
MergeBasesAny == history[main] \cap history[tip]

\* What git merge-base may answer: a common commit that no other one contains.
MergeBases ==
  LET common == history[main] \cap history[tip] IN
  {c \in common : \A d \in common : c \in history[d] => d = c}

\* merge-base with main, else with master; neither: the whole branch.
MergeBase ==
  /\ spc = "idle"
  /\ spc' = "log"
  /\ since' = joins
  /\ IF MergeBases = {} THEN base' = NoCommit ELSE base' \in MergeBases
  /\ commands' = commands + 1
  /\ UNCHANGED <<records, due, how, run>>

EndSync ==
  /\ base' = NoCommit
  /\ since' = 0
  /\ records' = {}
  /\ due' = {}
  /\ how' = "vetted"

\* Mutant: the blank entry after the last separator is not skipped.
GitLogBlankEntry ==
  /\ spc = "log"
  /\ spc' = "reflog"
  /\ records' = (history[tip] \ history[base]) \cup {NoCommit}
  /\ due' = ever \ history[base]
  /\ UNCHANGED <<base, since, how, run, commands>>

\* git log base..branch --reverse, with each commit's hash and first parent.
GitLog ==
  /\ spc = "log"
  /\ records' = history[tip] \ history[base]
  /\ IF records' = {}
     THEN spc' = "idle" /\ base' = NoCommit /\ since' = 0 /\ UNCHANGED <<due, how>>
     ELSE /\ spc' = "reflog"
          /\ due' = ever \ history[base]
          /\ how' = IF joins = since THEN "vetted" ELSE "joined"
          /\ UNCHANGED <<base, since>>
  /\ UNCHANGED <<run, commands>>

\* Mutant: git log without --reverse.
ChainBrokenBackwards ==
  \E c \in records, d \in records :
    /\ c < d
    /\ \A e \in records : ~ (c < e /\ e < d)
    /\ parent[c] \notin {NoCommit, d}

\* Mutant: no check of the chain.
ChainUnchecked == FALSE

\* validateHistoryIntegrity: the first parent of each record but the first, if
\* it has one, is the record before it.
ChainBroken ==
  \E c \in records, d \in records :
    /\ d < c
    /\ \A e \in records : ~ (d < e /\ e < c)
    /\ parent[c] \notin {NoCommit, d}

\* Mutant: the expression for reset is missing.
ReflogWarnsNoReset == reflog \ {"reset"} # {}

\* validateReflog of a reflog that can be read.
ReflogWarns == reflog # {}

Warned == ChainBroken \/ ReflogWarns

\* The checks decide.  Warnings are passed over with --force, and those of the
\* reflog when git reflog fails.
Validate ==
  /\ spc = "reflog"
  /\ \/ /\ Warned
        /\ spc' = "refused"
        /\ EndSync
     \/ /\ ~ Warned
        /\ spc' = "write"
        /\ how' = IF unlogged = 0 THEN how ELSE "forced"
        /\ UNCHANGED <<base, since, records, due>>
     \/ /\ Warned
        /\ spc' = "write"
        /\ how' = "forced"
        /\ UNCHANGED <<base, since, records, due>>
  /\ UNCHANGED <<run, commands>>

Upserted(a, b) ==
  IF "forced" \in {a, b} THEN "forced" ELSE IF {a, b} = {"vetted"} THEN "vetted" ELSE "mixed"

WriteInsert == run = NoRun /\ run' = [commits |-> records, due |-> due, how |-> how]
WriteReplace == run' = [commits |-> records, due |-> due, how |-> how]
WriteUpsert ==
  run # NoRun /\ run' = [commits |-> run.commits \cup records, due |-> run.due \cup due,
          how |-> Upserted(run.how, how)]

\* appendRunWithMode, in one transaction.
Write ==
  /\ spc = "write"
  /\ WriteInsert \/ WriteReplace \/ WriteUpsert
  /\ spc' = "idle"
  /\ EndSync
  /\ UNCHANGED commands

\* --dry-run, --upsert with --replace, a failing command, the end of a refusal.
EndWithoutWrite ==
  /\ spc # "idle"
  /\ spc' = "idle"
  /\ EndSync
  /\ UNCHANGED <<run, commands>>

SyncNext == MergeBase \/ GitLog \/ Validate \/ Write \/ EndWithoutWrite
=============================================================================
