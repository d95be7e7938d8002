------------------------------ MODULE GitRepo ------------------------------
(***************************************************************************)
(* The repository an agent works in, as sync-git and archive-git see it    *)
(* through git: a branch, main, and the branch's reflog.  All of it is     *)
(* external to KernelHub, whose commands only read it, with one git        *)
(* process per question; the agent may move the branch between any two.    *)
(*                                                                         *)
(* A commit is its number; a later one has a higher number, so the numbers *)
(* give the order of git log --reverse.  0 is no commit.  The reflog is    *)
(* the kinds of its lines that validateReflog's expressions match.         *)
(***************************************************************************)
EXTENDS Integers, FiniteSets

CONSTANT MaxCommits   \* bound on the commits

ASSUME CommitsAssumption == MaxCommits \in Nat \ {0}

VARIABLES parent,     \* first parent of each commit
          history,    \* the commits each commit contains, itself included
          top,        \* the last commit made
          tip, main,  \* what the two branches point to; main may not exist
          reflog,     \* the kinds of suspicious lines
          own,        \* the commits made on the branch
          ever,       \* the commits the branch has ever contained
          joins,      \* how many merges there were into the branch
          unlogged,   \* how many moves of the branch that left no line
          lines       \* how many suspicious lines were written

repoVars == <<parent, history, top, tip, main, reflog, own, ever, joins, unlogged, lines>>

NoCommit == 0
Commits == 1..MaxCommits
Ref == {NoCommit} \cup Commits
Suspicious == {"reset", "rebase", "amend"}

RepoTypeOK ==
  /\ parent \in [Commits -> Ref]
  /\ history \in [Ref -> SUBSET Commits]
  /\ top \in Commits
  /\ tip \in Commits
  /\ main \in Ref
  /\ reflog \in SUBSET Suspicious
  /\ own \in SUBSET Commits
  /\ ever \in SUBSET Commits
  /\ joins \in Nat
  /\ unlogged \in Nat
  /\ lines \in Nat

\* git init and the first commit; without main (or master) the whole branch is
\* the run.
RepoInit ==
  /\ parent = [c \in Commits |-> NoCommit]
  /\ history = [c \in Ref |-> IF c = 1 THEN {1} ELSE {}]
  /\ top = 1
  /\ tip = 1
  /\ main \in {NoCommit, 1}
  /\ reflog = {}
  /\ own = {}
  /\ ever = {1}
  /\ joins = 0
  /\ unlogged = 0
  /\ lines = 0

Made == 1..top

NewCommit(p, others) ==
  /\ top < MaxCommits
  /\ top' = top + 1
  /\ parent' = [parent EXCEPT ![top + 1] = p]
  /\ history' = [history EXCEPT ![top + 1] = history[p] \cup others \cup {top + 1}]

MoveTo(c, commits) ==
  /\ tip' = c
  /\ ever' = ever \cup commits

Log(kind) ==
  /\ reflog' = reflog \cup {kind}
  /\ lines' = lines + 1

(***************************************************************************)
(* The agent on its branch.                                                *)
(***************************************************************************)
\* git commit, git revert.  The reflog quotes the subject, and validateReflog
\* finds the word "amend" there as well.
Commit ==
  /\ NewCommit(tip, {})
  /\ MoveTo(top + 1, history'[top + 1])
  /\ own' = own \cup {top + 1}
  /\ Log("amend") \/ UNCHANGED <<reflog, lines>>
  /\ UNCHANGED <<main, joins, unlogged>>

\* git commit --amend; the post-rewrite hook of prepare only prints.
Amend ==
  /\ NewCommit(parent[tip], {})
  /\ MoveTo(top + 1, history'[top + 1])
  /\ own' = own \cup {top + 1}
  /\ Log("amend")
  /\ UNCHANGED <<main, joins, unlogged>>

\* git rebase, down to one commit.
Rebase ==
  /\ \E c \in Made : NewCommit(c, {})
  /\ MoveTo(top + 1, history'[top + 1])
  /\ own' = own \cup {top + 1}
  /\ Log("rebase")
  /\ UNCHANGED <<main, joins, unlogged>>

Reset ==
  /\ \E c \in Made \ {tip} : MoveTo(c, history[c])
  /\ Log("reset")
  /\ UNCHANGED <<parent, history, top, main, own, joins, unlogged>>

\* git merge of main or of commits left behind, with a merge commit.
Merge ==
  /\ joins' = joins + 1
  /\ \E c \in Made \ history[tip] : NewCommit(tip, history[c])
  /\ MoveTo(top + 1, history'[top + 1])
  /\ own' = own \cup {top + 1}
  /\ UNCHANGED <<main, reflog, unlogged, lines>>

FastForward ==
  /\ joins' = joins + 1
  /\ \E c \in Made \ {tip} : tip \in history[c] /\ MoveTo(c, history[c])
  /\ UNCHANGED <<parent, history, top, main, reflog, own, unlogged, lines>>

\* git branch -f and git checkout -B write "branch: Reset to", which no
\* expression matches; a branch deleted and made again starts a new reflog.
MoveBranch ==
  /\ unlogged' = unlogged + 1
  /\ \E c \in Made : MoveTo(c, history[c])
  /\ reflog' \in {reflog, {}}
  /\ UNCHANGED <<parent, history, top, main, own, joins, lines>>

(***************************************************************************)
(* main.                                                                   *)
(***************************************************************************)
MainCommit ==
  /\ main # NoCommit
  /\ NewCommit(main, {})
  /\ main' = top + 1
  /\ UNCHANGED <<tip, reflog, own, ever, joins, unlogged, lines>>

\* The branch is merged into main.
MainMerge ==
  /\ main \notin {NoCommit, tip}
  /\ \/ main \in history[tip] /\ main' = tip /\ UNCHANGED <<parent, history, top>>
     \/ main \notin history[tip] /\ NewCommit(main, history[tip]) /\ main' = top + 1
  /\ UNCHANGED <<tip, reflog, own, ever, joins, unlogged, lines>>

RepoNext ==
  \/ Commit \/ Amend \/ Rebase \/ Reset \/ Merge \/ FastForward \/ MoveBranch
  \/ MainCommit \/ MainMerge
=============================================================================
