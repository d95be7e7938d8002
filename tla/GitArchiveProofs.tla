-------------------------- MODULE GitArchiveProofs --------------------------
(***************************************************************************)
(* What sync-git, archive-git and restore-git promise of a branch that     *)
(* moves between their git commands, for any number of commits and         *)
(* commands.                                                               *)
(*                                                                         *)
(* While the branch is Clean, every commit it ever had is in its history,  *)
(* and what was asked for at different moments fits together.  A branch    *)
(* that is Clean now was Clean when the earlier questions were asked.      *)
(* That the runs which pass do not fork, and have only commits of the      *)
(* branch, rests on where each commit was made, which comes last.          *)
(***************************************************************************)
EXTENDS GitArchive, FiniteSetTheorems, WellFoundedInduction, TLAPS

-----------------------------------------------------------------------------
\* No move of the branch has left a suspicious line, or none at all.
Clean == reflog = {} /\ unlogged = 0

\* A commit contains what its parents contain, and is younger than that.
Closed ==
  /\ history[NoCommit] = {}
  /\ \A c \in Made :
       /\ parent[c] \in Made \cup {NoCommit}
       /\ c \in history[c]
       /\ history[c] \subseteq Made
       /\ \A d \in history[c] : d <= c /\ history[d] \subseteq history[c]

\* The branch is a line of commits, each made on the one before it.
Line ==
  /\ \A c, d \in history[tip] : d <= c => d \in history[c]
  /\ \A c, d \in history[tip] :
       d < c /\ (\A e \in history[tip] : ~ (d < e /\ e < c)) => parent[c] = d

RepoInv ==
  /\ RepoTypeOK
  /\ Closed
  /\ tip \in Made
  /\ main \in Made \cup {NoCommit}
  /\ ever \subseteq Made
  /\ history[tip] \subseteq ever
  /\ Clean => ever = history[tip]
  /\ Clean /\ joins = 0 => Line

\* A step of the repository adds commits and changes none.
Extends ==
  /\ Made \subseteq Made'
  /\ \A c \in Made : history'[c] = history[c] /\ parent'[c] = parent[c]
  /\ history'[NoCommit] = history[NoCommit]

-----------------------------------------------------------------------------
LEMMA MadeTyped ==
  ASSUME RepoTypeOK
  PROVE  /\ top \in Nat /\ top <= MaxCommits /\ MaxCommits \in Nat
         /\ Made \subseteq Commits /\ Commits \subseteq Nat /\ NoCommit \notin Commits
         /\ 1 \in Commits /\ 1 \in Made
         /\ \A c \in Made : c \in Nat /\ c <= top /\ c < top + 1
BY CommitsAssumption DEF RepoTypeOK, Made, Commits, NoCommit

LEMMA NewCommitKeeps ==
  ASSUME RepoTypeOK, Closed, NEW p \in Made \cup {NoCommit}, NEW others \in SUBSET Made,
         \A d \in others : history[d] \subseteq others, NewCommit(p, others)
  PROVE  /\ top + 1 \in Commits /\ top' = top + 1 /\ Made' = Made \cup {top + 1}
         /\ history' \in [Ref -> SUBSET Commits] /\ parent' \in [Commits -> Ref]
         /\ history'[top + 1] = history[p] \cup others \cup {top + 1}
         /\ parent'[top + 1] = p
         /\ Closed' /\ Extends
<1> DEFINE n == top + 1
<1>1. /\ top < MaxCommits /\ top' = n /\ parent' = [parent EXCEPT ![n] = p]
      /\ history' = [history EXCEPT ![n] = history[p] \cup others \cup {n}]
  BY DEF NewCommit
<1>2. /\ top \in Nat /\ MaxCommits \in Nat /\ Made \subseteq Commits /\ Commits \subseteq Nat
      /\ NoCommit \notin Commits /\ NoCommit # n
      /\ \A c \in Made : c \in Nat /\ c < n
  BY MadeTyped DEF NoCommit
<1>3. n \in Commits /\ n \in Nat BY <1>1, <1>2 DEF Commits
<1>4. Made' = Made \cup {n} BY <1>1, <1>2 DEF Made
<1> HIDE DEF n
<1>5. parent \in [Commits -> Ref] /\ history \in [Ref -> SUBSET Commits] BY DEF RepoTypeOK
<1>6. history[p] \subseteq Made /\ \A d \in history[p] : history[d] \subseteq history[p]
  BY DEF Closed
<1>7. /\ parent' \in [Commits -> Ref] /\ parent'[n] = p
      /\ \A c \in Made : parent'[c] = parent[c]
  BY <1>1, <1>2, <1>3, <1>5 DEF Ref
<1>8. /\ history' \in [Ref -> SUBSET Commits]
      /\ history'[n] = history[p] \cup others \cup {n}
      /\ \A c \in Made : history'[c] = history[c]
      /\ history'[NoCommit] = history[NoCommit]
  <2>1. n \in Ref /\ NoCommit \in Ref /\ \A c \in Made : c \in Ref /\ c # n
    BY <1>2, <1>3 DEF Ref
  <2>2. history[p] \cup others \cup {n} \in SUBSET Commits BY <1>2, <1>3, <1>6
  <2> DEFINE h == history[p] \cup others \cup {n}
  <2>3. history' = [history EXCEPT ![n] = h] /\ h \in SUBSET Commits BY <1>1, <2>2
  <2> HIDE DEF h
  <2>4. history' \in [Ref -> SUBSET Commits] /\ history'[n] = h BY <1>5, <2>1, <2>3
  <2>5. /\ \A c \in Made : history'[c] = history[c]
        /\ history'[NoCommit] = history[NoCommit]
    BY <1>2, <1>5, <2>1, <2>3
  <2> QED BY <2>4, <2>5 DEF h
<1>9. Extends BY <1>4, <1>7, <1>8 DEF Extends
<1>10. Closed'
  <2>1. ASSUME NEW c \in Made
        PROVE  /\ parent'[c] \in Made' \cup {NoCommit}
               /\ c \in history'[c]
               /\ history'[c] \subseteq Made'
               /\ \A d \in history'[c] : d <= c /\ history'[d] \subseteq history'[c]
    <3>1. /\ parent[c] \in Made \cup {NoCommit} /\ c \in history[c] /\ history[c] \subseteq Made
          /\ \A d \in history[c] : d <= c /\ history[d] \subseteq history[c]
      BY DEF Closed
    <3> QED BY <1>4, <1>7, <1>8, <3>1
  <2>2. /\ parent'[n] \in Made' \cup {NoCommit}
        /\ n \in history'[n]
        /\ history'[n] \subseteq Made'
    BY <1>4, <1>6, <1>7, <1>8
  <2>3. ASSUME NEW d \in history'[n] PROVE d <= n /\ history'[d] \subseteq history'[n]
    <3>1. CASE d = n BY <1>3, <3>1
    <3>2. CASE d # n
      <4>1. d \in Made /\ history[d] \subseteq history[p] \cup others
        BY <1>6, <1>8, <3>2
      <4>2. d <= n BY <1>2, <1>3, <4>1
      <4> QED BY <1>8, <4>1, <4>2
    <3> QED BY <3>1, <3>2
  <2>4. history'[NoCommit] = {} BY <1>8 DEF Closed
  <2> QED BY <1>4, <2>1, <2>2, <2>3, <2>4 DEF Closed
<1> QED BY <1>1, <1>3, <1>4, <1>7, <1>8, <1>9, <1>10 DEF n

\* What has to be shown of a move of the branch.
LEMMA MovePreserves ==
  ASSUME RepoInv, RepoTypeOK', Closed', Extends, tip' \in Made', main' \in Made' \cup {NoCommit},
         ever' = ever \cup history'[tip'],
         Clean' => Clean /\ history[tip] \subseteq history'[tip'],
         Clean' /\ joins' = 0 => Line'
  PROVE  RepoInv'
<1>1. ever \subseteq Made /\ (Clean => ever = history[tip]) BY DEF RepoInv
<1>2. history'[tip'] \subseteq Made' BY DEF Closed
<1>3. ever' \subseteq Made' BY <1>1, <1>2 DEF Extends
<1>4. Clean' => ever' = history'[tip'] BY <1>1
<1> QED BY <1>3, <1>4 DEF RepoInv

LEMMA CommitPreserves ==
  ASSUME RepoInv, Commit
  PROVE  RepoInv' /\ Extends
<1> DEFINE n == top + 1
<1>1. /\ NewCommit(tip, {}) /\ tip' = n /\ ever' = ever \cup history'[n] /\ own' = own \cup {n}
      /\ (reflog' = reflog \cup {"amend"} /\ lines' = lines + 1) \/ UNCHANGED <<reflog, lines>>
      /\ UNCHANGED <<main, joins, unlogged>>
  BY DEF Commit, MoveTo, Log
<1>2. /\ RepoTypeOK /\ Closed /\ tip \in Made /\ main \in Made \cup {NoCommit}
      /\ Clean /\ joins = 0 => Line
  BY DEF RepoInv
<1>3. /\ n \in Commits /\ top' = n /\ Made' = Made \cup {n}
      /\ history' \in [Ref -> SUBSET Commits] /\ parent' \in [Commits -> Ref]
      /\ history'[n] = history[tip] \cup {n} /\ parent'[n] = tip
      /\ Closed' /\ Extends
  BY <1>1, <1>2, NewCommitKeeps
<1>4. \A c \in Made : c \in Nat /\ c < n BY <1>2, MadeTyped
<1> HIDE DEF n
<1>5. RepoTypeOK'
  <2>1. ever' \in SUBSET Commits BY <1>1, <1>2, <1>3 DEF RepoTypeOK, Ref
  <2>2. reflog' \in SUBSET Suspicious /\ lines' \in Nat BY <1>1, <1>2 DEF RepoTypeOK, Suspicious
  <2> QED BY <1>1, <1>2, <1>3, <2>1, <2>2 DEF RepoTypeOK
<1>6. Clean' => Clean BY <1>1 DEF Clean
<1>7. ASSUME Clean', joins' = 0 PROVE Line'
  <2>1. Line /\ history[tip] \subseteq Made /\ tip \in history[tip]
        /\ \A d \in history[tip] : d <= tip
    BY <1>1, <1>2, <1>6, <1>7 DEF Closed
  <2>2. \A c \in history[tip] : /\ c \in Nat /\ c < n /\ history'[c] = history[c]
                                /\ parent'[c] = parent[c]
    BY <1>3, <1>4, <2>1 DEF Extends
  <2>3. n \in Nat BY <1>2, <1>3, MadeTyped
  <2>4. ASSUME NEW c \in history'[n], NEW d \in history'[n], d <= c
        PROVE  d \in history'[c]
    BY <1>3, <2>1, <2>2, <2>3, <2>4 DEF Line
  <2>5. ASSUME NEW c \in history'[n], NEW d \in history'[n], d < c,
               \A e \in history'[n] : ~ (d < e /\ e < c)
        PROVE  parent'[c] = d
    <3>1. d # n /\ d \in history[tip] BY <1>3, <2>2, <2>3, <2>5
    <3>2. CASE c = n
      <4>1. d <= tip /\ tip < n /\ ~ (d < tip /\ tip < n) BY <1>3, <2>1, <2>2, <2>5, <3>1, <3>2
      <4>2. d = tip BY <2>1, <2>2, <3>1, <4>1
      <4> QED BY <1>3, <3>2, <4>2
    <3>3. CASE c # n
      <4>1. c \in history[tip] /\ \A e \in history[tip] : ~ (d < e /\ e < c)
        BY <1>3, <2>5, <3>3
      <4>2. parent[c] = d BY <2>1, <2>5, <3>1, <4>1 DEF Line
      <4> QED BY <2>2, <4>1, <4>2
    <3> QED BY <3>2, <3>3
  <2> QED BY <1>1, <2>4, <2>5 DEF Line
<1>8. RepoInv' BY <1>1, <1>2, <1>3, <1>5, <1>6, <1>7, MovePreserves
<1> QED BY <1>3, <1>8

\* A move that leaves a suspicious line, or joins histories, or leaves no line.
LEMMA RewritePreserves ==
  ASSUME RepoInv, NEW p \in Made \cup {NoCommit}, NEW others \in SUBSET Made,
         \A d \in others : history[d] \subseteq others, NewCommit(p, others),
         MoveTo(top + 1, history'[top + 1]), own' = own \cup {top + 1},
         reflog' \in SUBSET Suspicious, joins' \in Nat, lines' \in Nat, UNCHANGED <<main, unlogged>>,
         Clean' => Clean /\ p = tip, ~ (Clean' /\ joins' = 0)
  PROVE  RepoInv' /\ Extends
<1> DEFINE n == top + 1
<1>1. RepoTypeOK /\ Closed /\ tip \in Made /\ main \in Made \cup {NoCommit} BY DEF RepoInv
<1>2. /\ n \in Commits /\ top' = n /\ Made' = Made \cup {n}
      /\ history' \in [Ref -> SUBSET Commits] /\ parent' \in [Commits -> Ref]
      /\ history'[n] = history[p] \cup others \cup {n}
      /\ Closed' /\ Extends
  BY <1>1, NewCommitKeeps
<1>3. tip' = n /\ ever' = ever \cup history'[n] /\ own' = own \cup {n} BY DEF MoveTo
<1> HIDE DEF n
<1>4. RepoTypeOK'
  <2>1. ever' \in SUBSET Commits BY <1>1, <1>2, <1>3 DEF RepoTypeOK, Ref
  <2> QED BY <1>1, <1>2, <1>3, <2>1 DEF RepoTypeOK
<1>5. Clean' => Clean /\ history[tip] \subseteq history'[tip'] BY <1>2, <1>3
<1>6. RepoInv' BY <1>1, <1>2, <1>3, <1>4, <1>5, MovePreserves
<1> QED BY <1>2, <1>6

LEMMA AmendPreserves ==
  ASSUME RepoInv, Amend
  PROVE  RepoInv' /\ Extends
<1>1. parent[tip] \in Made \cup {NoCommit} BY DEF RepoInv, Closed
<1>2. reflog' \in SUBSET Suspicious /\ lines' \in Nat /\ joins' \in Nat /\ reflog' # {}
  BY DEF RepoInv, RepoTypeOK, Amend, Log, Suspicious
<1>3. ~ Clean' BY <1>2 DEF Clean
<1>4. NewCommit(parent[tip], {}) /\ MoveTo(top + 1, history'[top + 1])
      /\ own' = own \cup {top + 1} /\ UNCHANGED <<main, unlogged>>
  BY DEF Amend
<1> QED BY <1>1, <1>2, <1>3, <1>4, RewritePreserves

LEMMA RebasePreserves ==
  ASSUME RepoInv, Rebase
  PROVE  RepoInv' /\ Extends
<1>1. PICK c \in Made : NewCommit(c, {}) BY DEF Rebase
<1>2. reflog' \in SUBSET Suspicious /\ lines' \in Nat /\ joins' \in Nat /\ reflog' # {}
  BY DEF RepoInv, RepoTypeOK, Rebase, Log, Suspicious
<1>3. ~ Clean' BY <1>2 DEF Clean
<1>4. MoveTo(top + 1, history'[top + 1]) /\ own' = own \cup {top + 1} /\ UNCHANGED <<main, unlogged>>
  BY DEF Rebase
<1> QED BY <1>1, <1>2, <1>3, <1>4, RewritePreserves

LEMMA MergePreserves ==
  ASSUME RepoInv, Merge
  PROVE  RepoInv' /\ Extends
<1>1. PICK c \in Made : NewCommit(tip, history[c]) BY DEF Merge
<1>2. /\ history[c] \subseteq Made /\ \A d \in history[c] : history[d] \subseteq history[c]
      /\ tip \in Made
  BY DEF RepoInv, Closed
<1>3. /\ joins' = joins + 1 /\ MoveTo(top + 1, history'[top + 1]) /\ own' = own \cup {top + 1}
      /\ UNCHANGED <<main, reflog, unlogged, lines>>
  BY DEF Merge
<1>4. joins \in Nat /\ reflog \in SUBSET Suspicious /\ lines \in Nat BY DEF RepoInv, RepoTypeOK
<1>5. /\ joins' \in Nat /\ joins' # 0 /\ reflog' \in SUBSET Suspicious /\ lines' \in Nat
      /\ (Clean' => Clean)
  BY <1>3, <1>4 DEF Clean
<1> QED BY <1>1, <1>2, <1>3, <1>5, RewritePreserves

\* A move to a commit that is there.
LEMMA JumpPreserves ==
  ASSUME RepoInv, NEW c \in Made, MoveTo(c, history[c]), UNCHANGED <<parent, history, top, main, own>>,
         reflog' \in SUBSET Suspicious, joins' \in Nat, unlogged' \in Nat, lines' \in Nat,
         Clean' => Clean /\ tip \in history[c], ~ (Clean' /\ joins' = 0)
  PROVE  RepoInv' /\ Extends
<1>1. RepoTypeOK /\ Closed /\ tip \in Made /\ main \in Made \cup {NoCommit} BY DEF RepoInv
<1>2. Made' = Made /\ tip' = c /\ ever' = ever \cup history[c] BY DEF Made, MoveTo
<1>3. Closed' /\ Extends BY <1>1, <1>2 DEF Closed, Extends
<1>4. history[c] \subseteq Made /\ \A d \in history[c] : history[d] \subseteq history[c]
  BY <1>1 DEF Closed
<1>5. RepoTypeOK'
  <2>1. Made \subseteq Commits BY <1>1, MadeTyped
  <2>2. ever' \in SUBSET Commits /\ tip' \in Commits BY <1>1, <1>2, <1>4, <2>1 DEF RepoTypeOK
  <2> QED BY <1>1, <2>2 DEF RepoTypeOK
<1>6. Clean' => Clean /\ history[tip] \subseteq history'[tip'] BY <1>2, <1>4
<1>7. RepoInv' BY <1>1, <1>2, <1>3, <1>5, <1>6, MovePreserves
<1> QED BY <1>3, <1>7

LEMMA ResetPreserves ==
  ASSUME RepoInv, Reset
  PROVE  RepoInv' /\ Extends
<1>1. PICK c \in Made : MoveTo(c, history[c]) BY DEF Reset
<1>2. /\ reflog' \in SUBSET Suspicious /\ lines' \in Nat /\ joins' \in Nat /\ unlogged' \in Nat
      /\ reflog' # {} /\ UNCHANGED <<parent, history, top, main, own>>
  BY DEF RepoInv, RepoTypeOK, Reset, Log, Suspicious
<1>3. ~ Clean' BY <1>2 DEF Clean
<1> QED BY <1>1, <1>2, <1>3, JumpPreserves

LEMMA FastForwardPreserves ==
  ASSUME RepoInv, FastForward
  PROVE  RepoInv' /\ Extends
<1>1. PICK c \in Made : tip \in history[c] /\ MoveTo(c, history[c]) BY DEF FastForward
<1>2. joins' = joins + 1 /\ UNCHANGED <<parent, history, top, main, reflog, own, unlogged, lines>>
  BY DEF FastForward
<1>3. /\ joins \in Nat /\ reflog \in SUBSET Suspicious /\ lines \in Nat /\ unlogged \in Nat
  BY DEF RepoInv, RepoTypeOK
<1>4. /\ joins' \in Nat /\ joins' # 0 /\ reflog' \in SUBSET Suspicious /\ lines' \in Nat
      /\ unlogged' \in Nat /\ (Clean' => Clean)
  BY <1>2, <1>3 DEF Clean
<1> QED BY <1>1, <1>2, <1>4, JumpPreserves

LEMMA MoveBranchPreserves ==
  ASSUME RepoInv, MoveBranch
  PROVE  RepoInv' /\ Extends
<1>1. PICK c \in Made : MoveTo(c, history[c]) BY DEF MoveBranch
<1>2. /\ unlogged' = unlogged + 1 /\ reflog' \in {reflog, {}}
      /\ UNCHANGED <<parent, history, top, main, own, joins, lines>>
  BY DEF MoveBranch
<1>3. /\ joins \in Nat /\ reflog \in SUBSET Suspicious /\ lines \in Nat /\ unlogged \in Nat
  BY DEF RepoInv, RepoTypeOK
<1>4. /\ joins' \in Nat /\ unlogged' # 0 /\ reflog' \in SUBSET Suspicious /\ lines' \in Nat
      /\ unlogged' \in Nat
  BY <1>2, <1>3
<1>5. ~ Clean' BY <1>4 DEF Clean
<1> QED BY <1>1, <1>2, <1>4, <1>5, JumpPreserves

\* A step of main leaves the branch alone.
LEMMA MainPreserves ==
  ASSUME RepoInv, RepoTypeOK', Closed', Extends, main' \in Made' \cup {NoCommit},
         UNCHANGED <<tip, reflog, own, ever, joins, unlogged, lines>>
  PROVE  RepoInv'
<1>1. /\ Closed /\ tip \in Made /\ history[tip] \subseteq ever /\ ever \subseteq Made
      /\ (Clean /\ joins = 0 => Line)
  BY DEF RepoInv
<1>2. history'[tip'] = history[tip] /\ tip' \in Made' BY <1>1 DEF Extends
<1>3. ever' = ever \cup history'[tip'] BY <1>1, <1>2
<1>4. Clean' => Clean /\ history[tip] \subseteq history'[tip'] BY <1>2 DEF Clean
<1>5. ASSUME Clean', joins' = 0 PROVE Line'
  <2>1. Line BY <1>1, <1>4, <1>5
  <2>2. history[tip] \subseteq Made BY <1>1
  <2>3. \A c \in history[tip] : history'[c] = history[c] /\ parent'[c] = parent[c]
    BY <2>2 DEF Extends
  <2> QED BY <1>2, <2>1, <2>3 DEF Line
<1> QED BY <1>2, <1>3, <1>4, <1>5, MovePreserves

LEMMA MainCommitPreserves ==
  ASSUME RepoInv, MainCommit
  PROVE  RepoInv' /\ Extends
<1>1. /\ NewCommit(main, {}) /\ main' = top + 1
      /\ UNCHANGED <<tip, reflog, own, ever, joins, unlogged, lines>>
  BY DEF MainCommit
<1>2. RepoTypeOK /\ Closed /\ main \in Made \cup {NoCommit} BY DEF RepoInv
<1>3. /\ top + 1 \in Commits /\ top' = top + 1 /\ Made' = Made \cup {top + 1}
      /\ history' \in [Ref -> SUBSET Commits] /\ parent' \in [Commits -> Ref]
      /\ Closed' /\ Extends
  BY <1>1, <1>2, NewCommitKeeps
<1>4. RepoTypeOK' BY <1>1, <1>2, <1>3 DEF RepoTypeOK, Ref
<1>5. main' \in Made' \cup {NoCommit} BY <1>1, <1>3
<1> QED BY <1>1, <1>3, <1>4, <1>5, MainPreserves

LEMMA MainMergePreserves ==
  ASSUME RepoInv, MainMerge
  PROVE  RepoInv' /\ Extends
<1>1. /\ UNCHANGED <<tip, reflog, own, ever, joins, unlogged, lines>>
      /\ \/ main' = tip /\ UNCHANGED <<parent, history, top>>
         \/ NewCommit(main, history[tip]) /\ main' = top + 1
  BY DEF MainMerge
<1>2. RepoTypeOK /\ Closed /\ main \in Made \cup {NoCommit} /\ tip \in Made BY DEF RepoInv
<1>3. CASE main' = tip /\ UNCHANGED <<parent, history, top>>
  <2>1. Made' = Made BY <1>3 DEF Made
  <2>2. Closed' /\ Extends BY <1>2, <1>3, <2>1 DEF Closed, Extends
  <2>3. RepoTypeOK' BY <1>1, <1>2, <1>3, MadeTyped DEF RepoTypeOK, Ref
  <2> QED BY <1>1, <1>2, <1>3, <2>1, <2>2, <2>3, MainPreserves
<1>4. CASE NewCommit(main, history[tip]) /\ main' = top + 1
  <2>1. history[tip] \subseteq Made /\ \A d \in history[tip] : history[d] \subseteq history[tip]
    BY <1>2 DEF Closed
  <2>2. /\ top + 1 \in Commits /\ top' = top + 1 /\ Made' = Made \cup {top + 1}
        /\ history' \in [Ref -> SUBSET Commits] /\ parent' \in [Commits -> Ref]
        /\ Closed' /\ Extends
    BY <1>2, <1>4, <2>1, NewCommitKeeps
  <2>3. RepoTypeOK' BY <1>1, <1>2, <1>4, <2>2 DEF RepoTypeOK, Ref
  <2>4. main' \in Made' \cup {NoCommit} BY <1>4, <2>2
  <2> QED BY <1>1, <2>2, <2>3, <2>4, MainPreserves
<1> QED BY <1>1, <1>3, <1>4

\* Everything that a step of the repository means to the commands.
LEMMA RepoNextPreserves ==
  ASSUME RepoInv, RepoNext
  PROVE  /\ RepoInv' /\ Extends /\ ever \subseteq ever'
         /\ Clean' => Clean
         /\ joins' = 0 => joins = 0
<1>1. RepoInv' /\ Extends
  BY CommitPreserves, AmendPreserves, RebasePreserves, ResetPreserves, MergePreserves,
     FastForwardPreserves, MoveBranchPreserves, MainCommitPreserves, MainMergePreserves
     DEF RepoNext
<1>2. joins \in Nat /\ unlogged \in Nat BY DEF RepoInv, RepoTypeOK
<1>3. /\ ever \subseteq ever'
      /\ joins' \in {joins, joins + 1}
      /\ unlogged' \in {unlogged, unlogged + 1}
      /\ reflog' = {} => reflog = {} \/ unlogged' = unlogged + 1
  BY DEF RepoNext, Commit, Amend, Rebase, Reset, Merge, FastForward, MoveBranch, MainCommit,
         MainMerge, MoveTo, Log
<1>4. (Clean' => Clean) /\ (joins' = 0 => joins = 0) BY <1>2, <1>3 DEF Clean
<1> QED BY <1>1, <1>3, <1>4

-----------------------------------------------------------------------------
\* What the commands hold, whatever the branch has done since they asked.
SyncInv ==
  /\ SyncTypeOK
  /\ base \in ever \cup {NoCommit}
  /\ records \subseteq ever
  /\ run.commits \subseteq ever
  /\ spc = "reflog" /\ Clean => due \subseteq records
  /\ spc = "write" /\ how # "forced" => due \subseteq records
  /\ SyncedRunIsComplete
  /\ spc = "reflog" /\ Clean /\ joins = 0 => ~ ChainBroken
  /\ LinearWorkIsAccepted

\* An archive of a branch that was Clean can be restored with its run.
Restorable(a) ==
  a.state = "clean" =>
    /\ a.head \in history[a.tip]
    /\ a.run.how # "forced" => a.run.commits \subseteq history[a.tip]
GoodArchive(a) == a.head \in Made /\ a.tip \in Made /\ Restorable(a)

ArchiveInv ==
  /\ apc \in {"idle", "bundle", "append"}
  /\ headSeen \in Ref
  /\ bundle \in Archive
  /\ archives \subseteq Archive
  /\ apc = "bundle" => headSeen \in ever
  /\ apc = "append" => GoodArchive(bundle)
  /\ \A a \in archives : GoodArchive(a)

RestoreInv ==
  /\ gpc \in {"idle", "fetch", "checkout", "done", "failed"}
  /\ sel \in Archive
  /\ objects \subseteq Commits
  /\ restored \in Ref
  /\ headAt \in Ref
  /\ headOn \in {"unborn", "detached", "branch"}
  /\ gpc # "idle" => GoodArchive(sel)
  /\ gpc \in {"checkout", "done"} =>
       /\ history[sel.tip] \subseteq objects
       /\ sel.ref = "branch" => restored = sel.tip
       /\ sel.ref = "other" => restored = sel.head
  /\ gpc = "done" => headAt = sel.head
  /\ ArchiveIsRestorable

GitInv == RepoInv /\ SyncInv /\ ArchiveInv /\ RestoreInv

-----------------------------------------------------------------------------
(***************************************************************************)
(* A step of the repository under the commands.                            *)
(***************************************************************************)
LEMMA GoodArchiveStable ==
  ASSUME Extends, NEW a \in Archive, GoodArchive(a)
  PROVE  GoodArchive(a)'
BY DEF Extends, GoodArchive, Restorable

LEMMA RepoKeepsCommands ==
  ASSUME GitInv, RepoNext, UNCHANGED <<syncVars, archiveVars, restoreVars, commands>>
  PROVE  GitInv'
<1>1. /\ RepoInv /\ SyncInv /\ ArchiveInv /\ RestoreInv
      /\ UNCHANGED <<spc, base, since, records, due, how, run, commands>>
      /\ UNCHANGED <<apc, headSeen, bundle, archives>>
      /\ UNCHANGED <<gpc, sel, objects, restored, headAt, headOn>>
  BY DEF GitInv, syncVars, archiveVars, restoreVars
<1>2. /\ RepoInv' /\ Extends /\ ever \subseteq ever' /\ ever \subseteq Made
      /\ (Clean' => Clean) /\ (joins' = 0 => joins = 0)
  BY <1>1, RepoNextPreserves DEF RepoInv
<1>3. SyncInv'
  <2>1. SyncTypeOK' BY <1>1 DEF SyncInv, SyncTypeOK
  <2>2. \A c \in records : parent'[c] = parent[c] BY <1>1, <1>2 DEF SyncInv, Extends
  <2>3. ChainBroken' <=> ChainBroken BY <1>1, <2>2 DEF ChainBroken
  <2>4. SyncedRunIsComplete' BY <1>1 DEF SyncInv, SyncedRunIsComplete
  <2>5. LinearWorkIsAccepted'
    <3>1. Clean' /\ joins' = 0 => spc # "refused"
      BY <1>1, <1>2 DEF SyncInv, LinearWorkIsAccepted, Clean
    <3> QED BY <1>1, <3>1 DEF LinearWorkIsAccepted, Clean
  <2>6. spc' = "reflog" /\ Clean' => due' \subseteq records' BY <1>1, <1>2 DEF SyncInv
  <2>7. spc' = "reflog" /\ Clean' /\ joins' = 0 => ~ ChainBroken'
    BY <1>1, <1>2, <2>3 DEF SyncInv
  <2>8. base' \in ever' \cup {NoCommit} /\ records' \subseteq ever' /\ run'.commits \subseteq ever'
    BY <1>1, <1>2 DEF SyncInv
  <2>9. spc' = "write" /\ how' # "forced" => due' \subseteq records' BY <1>1 DEF SyncInv
  <2> QED BY <2>1, <2>4, <2>5, <2>6, <2>7, <2>8, <2>9 DEF SyncInv
<1>4. ArchiveInv'
  <2>1. apc' = "append" => GoodArchive(bundle)' BY <1>1, <1>2, GoodArchiveStable DEF ArchiveInv
  <2>2. \A a \in archives : GoodArchive(a)' BY <1>1, <1>2, GoodArchiveStable DEF ArchiveInv
  <2> QED BY <1>1, <1>2, <2>1, <2>2 DEF ArchiveInv
<1>5. RestoreInv'
  <2>1. gpc # "idle" => GoodArchive(sel)' BY <1>1, <1>2, GoodArchiveStable DEF RestoreInv
  <2>2. gpc \in {"checkout", "done"} => history'[sel.tip] = history[sel.tip]
    BY <1>1, <1>2 DEF RestoreInv, GoodArchive, Extends
  <2> QED BY <1>1, <2>1, <2>2 DEF RestoreInv, ArchiveIsRestorable
<1> QED BY <1>2, <1>3, <1>4, <1>5 DEF GitInv

-----------------------------------------------------------------------------
(***************************************************************************)
(* sync-git.                                                               *)
(***************************************************************************)
LEMMA EndSyncKeeps ==
  ASSUME SyncInv, EndSync, spc' = "idle", ever' = ever, run' \in RunRecord, commands' \in Nat,
         run'.commits \subseteq ever, SyncedRunIsComplete'
  PROVE  SyncInv'
BY DEF SyncInv, EndSync, SyncTypeOK, Ref, How, LinearWorkIsAccepted

LEMMA MergeBaseKeeps ==
  ASSUME RepoInv, SyncInv, MergeBase, UNCHANGED repoVars
  PROVE  SyncInv'
<1>1. /\ spc' = "log" /\ since' = joins /\ base' \in MergeBases \cup {NoCommit}
      /\ commands' = commands + 1 /\ UNCHANGED <<records, due, how, run>>
      /\ UNCHANGED <<tip, main, ever, history, joins, reflog, unlogged>>
  BY DEF MergeBase, repoVars
<1>2. MergeBases \subseteq ever /\ ever \subseteq Made /\ Made \subseteq Commits
  BY MadeTyped DEF MergeBases, RepoInv
<1>3. SyncTypeOK' BY <1>1, <1>2 DEF SyncInv, SyncTypeOK, Ref, RepoInv, RepoTypeOK
<1>4. SyncedRunIsComplete' BY <1>1 DEF SyncInv, SyncedRunIsComplete
<1> QED BY <1>1, <1>2, <1>3, <1>4 DEF SyncInv, LinearWorkIsAccepted

\* On a line of commits, what follows a commit of it is again a line.
LEMMA LineHasNoBreak ==
  ASSUME RepoInv, Clean, joins = 0, base \in ever \cup {NoCommit},
         NEW c \in history[tip] \ history[base], NEW d \in history[tip] \ history[base], d < c,
         \A e \in history[tip] \ history[base] : ~ (d < e /\ e < c)
  PROVE  parent[c] = d
<1>1. Line /\ ever = history[tip] /\ Closed /\ ever \subseteq Made BY DEF RepoInv
<1>2. /\ \A e \in history[tip] : e \in Nat /\ e \in Made
  BY <1>1, MadeTyped DEF RepoInv
<1>3. ASSUME NEW e \in history[tip], d < e, e < c PROVE FALSE
  <2>1. e \in history[base] BY <1>3
  <2>2. base \in history[tip] BY <1>1, <2>1 DEF Closed
  <2>3. e <= base BY <1>1, <1>2, <2>1, <2>2 DEF Closed
  <2>4. d <= base BY <1>2, <1>3, <2>2, <2>3
  <2>5. d \in history[base] BY <1>1, <2>2, <2>4 DEF Line
  <2> QED BY <2>5
<1> QED BY <1>1, <1>3 DEF Line

LEMMA GitLogKeeps ==
  ASSUME RepoInv, SyncInv, GitLog, UNCHANGED repoVars
  PROVE  SyncInv'
<1>1. /\ records' = history[tip] \ history[base] /\ UNCHANGED <<run, commands>>
      /\ UNCHANGED <<parent, history, top, tip, main, reflog, own, ever, joins, unlogged, lines>>
  BY DEF GitLog, repoVars
<1>2. /\ history[tip] \subseteq ever /\ ever \subseteq Made /\ Made \subseteq Commits
      /\ (Clean => ever = history[tip])
  BY MadeTyped DEF RepoInv
<1>3. /\ records' \subseteq ever /\ records' \in SUBSET Commits
      /\ SyncedRunIsComplete' /\ run'.commits \subseteq ever
  BY <1>1, <1>2 DEF SyncInv, SyncedRunIsComplete
<1>4. CASE records' = {}
  <2>1. spc' = "idle" /\ base' = NoCommit /\ since' = 0 /\ UNCHANGED <<due, how>>
    BY <1>4 DEF GitLog
  <2>2. SyncTypeOK' BY <1>1, <1>3, <2>1 DEF SyncInv, SyncTypeOK, Ref
  <2> QED BY <1>1, <1>3, <2>1, <2>2 DEF SyncInv, LinearWorkIsAccepted
<1>5. CASE records' # {}
  <2>1. /\ spc' = "reflog" /\ due' = ever \ history[base] /\ UNCHANGED <<base, since>>
        /\ how' \in {"vetted", "joined"}
    BY <1>5 DEF GitLog
  <2>2. SyncTypeOK' BY <1>1, <1>2, <1>3, <2>1 DEF SyncInv, SyncTypeOK, How
  <2>3. Clean' => due' \subseteq records' BY <1>1, <1>2, <2>1 DEF Clean
  <2>4. ASSUME Clean', joins' = 0 PROVE ~ ChainBroken'
    <3>1. Clean /\ joins = 0 BY <1>1, <2>4 DEF Clean
    <3>2. base \in ever \cup {NoCommit} BY DEF SyncInv
    <3>3. \A c, d \in records' :
            d < c /\ (\A e \in records' : ~ (d < e /\ e < c)) => parent[c] = d
      BY <1>1, <3>1, <3>2, LineHasNoBreak
    <3> QED BY <1>1, <3>3 DEF ChainBroken
  <2> QED BY <1>1, <1>3, <2>1, <2>2, <2>3, <2>4 DEF SyncInv, LinearWorkIsAccepted
<1> QED BY <1>4, <1>5

LEMMA ValidateKeeps ==
  ASSUME RepoInv, SyncInv, Validate, UNCHANGED repoVars
  PROVE  SyncInv'
<1>1. /\ spc = "reflog" /\ UNCHANGED <<run, commands>>
      /\ UNCHANGED <<parent, history, top, tip, main, reflog, own, ever, joins, unlogged, lines>>
  BY DEF Validate, repoVars
<1>2. SyncedRunIsComplete' /\ run'.commits \subseteq ever
  BY <1>1 DEF SyncInv, SyncedRunIsComplete
<1>3. CASE Warned /\ spc' = "refused" /\ EndSync
  <2>1. SyncTypeOK' BY <1>1, <1>3 DEF SyncInv, SyncTypeOK, EndSync, Ref, How
  <2>2. ~ (Clean /\ joins = 0) BY <1>1, <1>3 DEF SyncInv, Warned, ReflogWarns, Clean
  <2>3. LinearWorkIsAccepted' BY <1>1, <2>2 DEF LinearWorkIsAccepted, Clean
  <2> QED BY <1>1, <1>2, <1>3, <2>1, <2>3 DEF SyncInv, EndSync
<1>4. CASE ~ Warned /\ spc' = "write" /\ how' = (IF unlogged = 0 THEN how ELSE "forced")
           /\ UNCHANGED <<base, since, records, due>>
  <2>1. SyncTypeOK' BY <1>1, <1>4 DEF SyncInv, SyncTypeOK, How
  <2>2. how' # "forced" => due' \subseteq records'
    BY <1>1, <1>4 DEF SyncInv, Warned, ReflogWarns, Clean
  <2> QED BY <1>1, <1>2, <1>4, <2>1, <2>2 DEF SyncInv, LinearWorkIsAccepted
<1>5. CASE Warned /\ spc' = "write" /\ how' = "forced" /\ UNCHANGED <<base, since, records, due>>
  <2>1. SyncTypeOK' BY <1>1, <1>5 DEF SyncInv, SyncTypeOK, How
  <2> QED BY <1>1, <1>2, <1>5, <2>1 DEF SyncInv, LinearWorkIsAccepted
<1> QED BY <1>3, <1>4, <1>5 DEF Validate

LEMMA WriteKeeps ==
  ASSUME SyncInv, Write, UNCHANGED repoVars
  PROVE  SyncInv'
<1>1. /\ spc = "write" /\ spc' = "idle" /\ EndSync /\ UNCHANGED commands /\ ever' = ever
      /\ WriteInsert \/ WriteReplace \/ WriteUpsert
  BY DEF Write, repoVars
<1>2. /\ run \in RunRecord /\ how \in How /\ due \in SUBSET Commits /\ records \in SUBSET Commits
      /\ run.commits \subseteq ever /\ records \subseteq ever
      /\ (run.how # "forced" => run.due \subseteq run.commits)
      /\ (how # "forced" => due \subseteq records) /\ commands \in Nat
  BY <1>1 DEF SyncInv, SyncTypeOK, SyncedRunIsComplete
<1>3. CASE run' = [commits |-> records, due |-> due, how |-> how]
  <2>1. run' \in RunRecord /\ run'.commits \subseteq ever BY <1>2, <1>3 DEF RunRecord
  <2>2. SyncedRunIsComplete' BY <1>2, <1>3 DEF SyncedRunIsComplete
  <2> QED BY <1>1, <1>2, <2>1, <2>2, EndSyncKeeps
<1>4. CASE run' = [commits |-> run.commits \cup records, due |-> run.due \cup due,
                   how |-> Upserted(run.how, how)]
  <2>1. /\ run.how \in How /\ run.commits \in SUBSET Commits /\ run.due \in SUBSET Commits
    BY <1>2 DEF RunRecord
  <2>2. /\ Upserted(run.how, how) \in How
        /\ Upserted(run.how, how) # "forced" => run.how # "forced" /\ how # "forced"
    BY <1>2, <2>1 DEF Upserted, How
  <2>3. run' \in RunRecord /\ run'.commits \subseteq ever BY <1>2, <1>4, <2>1, <2>2 DEF RunRecord
  <2>4. SyncedRunIsComplete' BY <1>2, <1>4, <2>2 DEF SyncedRunIsComplete
  <2> QED BY <1>1, <1>2, <2>3, <2>4, EndSyncKeeps
<1> QED BY <1>1, <1>3, <1>4 DEF WriteInsert, WriteReplace, WriteUpsert

LEMMA EndWithoutWriteKeeps ==
  ASSUME SyncInv, EndWithoutWrite, UNCHANGED repoVars
  PROVE  SyncInv'
<1>1. EndSync /\ spc' = "idle" /\ UNCHANGED <<run, commands>> /\ ever' = ever
  BY DEF EndWithoutWrite, repoVars
<1>2. run' \in RunRecord /\ commands' \in Nat /\ run'.commits \subseteq ever /\ SyncedRunIsComplete'
  BY <1>1 DEF SyncInv, SyncTypeOK, SyncedRunIsComplete
<1> QED BY <1>1, <1>2, EndSyncKeeps

LEMMA RepoInvStays ==
  ASSUME RepoInv, UNCHANGED repoVars
  PROVE  RepoInv'
<1>1. UNCHANGED <<parent, history, top, tip, main, reflog, own, ever, joins, unlogged, lines>>
  BY DEF repoVars
<1>2. RepoTypeOK' BY <1>1 DEF RepoInv, RepoTypeOK
<1>3. Closed' BY <1>1 DEF RepoInv, Closed, Made
<1>4. Clean' /\ joins' = 0 => Line' BY <1>1 DEF RepoInv, Line, Clean
<1>5. (Clean' => Clean) /\ Made' = Made BY <1>1 DEF Clean, Made
<1> QED BY <1>1, <1>2, <1>3, <1>4, <1>5 DEF RepoInv

LEMMA SyncInvStays ==
  ASSUME SyncInv, UNCHANGED repoVars, UNCHANGED syncVars, commands' \in Nat
  PROVE  SyncInv'
<1>1. UNCHANGED <<parent, tip, reflog, ever, joins, unlogged>> BY DEF repoVars
<1>2. UNCHANGED <<spc, base, since, records, due, how, run>> BY DEF syncVars
<1>3. SyncTypeOK' BY <1>2 DEF SyncInv, SyncTypeOK
<1>4. (ChainBroken' <=> ChainBroken) /\ (Clean' <=> Clean)
  BY <1>1, <1>2 DEF ChainBroken, Clean
<1>5. SyncedRunIsComplete' /\ LinearWorkIsAccepted'
  BY <1>1, <1>2 DEF SyncInv, SyncedRunIsComplete, LinearWorkIsAccepted
<1> QED BY <1>1, <1>2, <1>3, <1>4, <1>5 DEF SyncInv

-----------------------------------------------------------------------------
(***************************************************************************)
(* archive-git.                                                            *)
(***************************************************************************)
LEMMA NoArchiveTyped ==
  NoArchive \in Archive
<1>1. 1 \in Commits /\ NoRun \in RunRecord
  BY CommitsAssumption DEF Commits, NoRun, RunRecord, How
<1> QED BY <1>1 DEF NoArchive, Archive

LEMMA GoodArchiveStays ==
  ASSUME UNCHANGED repoVars
  PROVE  \A a : GoodArchive(a)' <=> GoodArchive(a)
BY DEF repoVars, GoodArchive, Restorable, Made

LEMMA RevParseKeeps ==
  ASSUME RepoInv, ArchiveInv, RevParse, UNCHANGED repoVars
  PROVE  ArchiveInv'
<1>1. apc' = "bundle" /\ headSeen' = tip /\ UNCHANGED <<bundle, archives>> BY DEF RevParse
<1>2. tip \in ever /\ tip \in Ref /\ ever' = ever
  BY DEF RepoInv, RepoTypeOK, Closed, Ref, repoVars
<1>3. \A a \in archives : GoodArchive(a)' BY GoodArchiveStays DEF ArchiveInv
<1> QED BY <1>1, <1>2, <1>3 DEF ArchiveInv

\* The bundle fits the head that was asked for before.
LEMMA CreateBundleKeeps ==
  ASSUME RepoInv, SyncInv, ArchiveInv, CreateBundle, UNCHANGED repoVars
  PROVE  ArchiveInv'
<1>1. /\ apc = "bundle" /\ apc' = "append" /\ UNCHANGED <<headSeen, archives, commands>>
      /\ bundle' \in [head : {headSeen}, tip : {tip}, ref : {"branch", "other"},
           state : {IF reflog = {} /\ unlogged = 0 THEN "clean" ELSE "rewritten"}, run : {run}]
  BY DEF CreateBundle
<1>2. /\ bundle'.head = headSeen /\ bundle'.tip = tip /\ bundle'.run = run
      /\ bundle'.ref \in {"branch", "other"}
      /\ bundle'.state \in {"clean", "rewritten"} /\ (bundle'.state = "clean" => Clean)
  BY <1>1 DEF Clean
<1>3. /\ headSeen \in ever /\ ever \subseteq Made /\ Made \subseteq Commits /\ tip \in Made
      /\ run \in RunRecord /\ run.commits \subseteq ever
      /\ (Clean => ever = history[tip])
  BY <1>1, MadeTyped DEF ArchiveInv, RepoInv, SyncInv, SyncTypeOK
<1>4. bundle' \in Archive BY <1>1, <1>3 DEF Archive
<1>5. GoodArchive(bundle') BY <1>2, <1>3 DEF GoodArchive, Restorable
<1>6. GoodArchive(bundle)' BY <1>5 DEF repoVars, GoodArchive, Restorable, Made
<1>7. \A a \in archives : GoodArchive(a)' BY GoodArchiveStays DEF ArchiveInv
<1> QED BY <1>1, <1>4, <1>6, <1>7 DEF ArchiveInv

LEMMA AppendArchiveKeeps ==
  ASSUME ArchiveInv, AppendArchive, UNCHANGED repoVars
  PROVE  ArchiveInv'
<1>1. /\ apc = "append" /\ archives' = archives \cup {bundle}
      /\ apc' = "idle" /\ headSeen' = NoCommit /\ bundle' = NoArchive
  BY DEF AppendArchive, EndArchive
<1>2. \A a \in archives \cup {bundle} : GoodArchive(a)' BY <1>1, GoodArchiveStays DEF ArchiveInv
<1> QED BY <1>1, <1>2, NoArchiveTyped DEF ArchiveInv, Ref

LEMMA EndWithoutArchiveKeeps ==
  ASSUME ArchiveInv, EndWithoutArchive, UNCHANGED repoVars
  PROVE  ArchiveInv'
<1>1. /\ archives' = archives /\ apc' = "idle" /\ headSeen' = NoCommit /\ bundle' = NoArchive
  BY DEF EndWithoutArchive, EndArchive
<1>2. \A a \in archives : GoodArchive(a)' BY GoodArchiveStays DEF ArchiveInv
<1> QED BY <1>1, <1>2, NoArchiveTyped DEF ArchiveInv, Ref

LEMMA ArchiveInvStays ==
  ASSUME ArchiveInv, UNCHANGED archiveVars, UNCHANGED repoVars
  PROVE  ArchiveInv'
<1>1. UNCHANGED <<apc, headSeen, bundle, archives>> /\ ever' = ever BY DEF archiveVars, repoVars
<1>2. GoodArchive(bundle)' <=> GoodArchive(bundle) BY <1>1 DEF repoVars, GoodArchive, Restorable, Made
<1>3. \A a \in archives : GoodArchive(a)' BY GoodArchiveStays DEF ArchiveInv
<1> QED BY <1>1, <1>2, <1>3 DEF ArchiveInv

-----------------------------------------------------------------------------
(***************************************************************************)
(* restore-git.                                                            *)
(***************************************************************************)
LEMMA SelectArchiveKeeps ==
  ASSUME ArchiveInv, RestoreInv, SelectArchive, UNCHANGED repoVars
  PROVE  RestoreInv'
<1>1. /\ gpc' = "fetch" /\ sel' \in archives /\ UNCHANGED <<objects, restored, headAt, headOn>>
  BY DEF SelectArchive
<1>2. GoodArchive(sel') /\ sel' \in Archive BY <1>1 DEF ArchiveInv
<1>3. GoodArchive(sel)' BY <1>2 DEF repoVars, GoodArchive, Restorable, Made
<1> QED BY <1>1, <1>2, <1>3 DEF RestoreInv, ArchiveIsRestorable

\* The fetch of an archive of a clean branch finds a ref.
LEMMA FetchKeeps ==
  ASSUME RepoInv, RestoreInv, Fetch, UNCHANGED repoVars
  PROVE  RestoreInv'
<1>1. gpc = "fetch" /\ UNCHANGED <<sel, headAt, headOn, commands>> BY DEF Fetch
<1>2. /\ GoodArchive(sel) /\ sel \in Archive /\ objects \subseteq Commits /\ restored \in Ref
      /\ sel.ref \in {"branch", "other"} /\ sel.tip \in Commits
  BY <1>1 DEF RestoreInv, Archive
<1>3. GoodArchive(sel)' BY <1>1, <1>2 DEF repoVars, GoodArchive, Restorable, Made
<1>4. /\ objects' = (IF headOn = "branch" THEN objects ELSE objects \cup history[sel.tip])
      /\ history' = history
  BY DEF Fetch, repoVars
<1>5. Made \subseteq Commits /\ history[sel.tip] \subseteq Commits
  BY <1>2, MadeTyped DEF RepoInv, RepoTypeOK, Ref
<1>6. objects' \subseteq Commits BY <1>2, <1>4, <1>5
<1>7. CASE headOn # "branch" /\ \E c \in Made : FetchBranch(c)
  <2>1. gpc' = "checkout" /\ \E c \in Made : FetchBranch(c) /\ restored' = c BY <1>7 DEF Fetch
  <2>2. PICK c \in Made : FetchBranch(c) /\ restored' = c BY <2>1
  <2>3. /\ sel.ref = "branch" => restored' = sel.tip
        /\ sel.ref = "other" => restored' = sel.head
    BY <2>2 DEF FetchBranch
  <2>4. restored' \in Ref BY <1>5, <2>2 DEF Ref
  <2>5. history[sel.tip] \subseteq objects' BY <1>4, <1>7
  <2> QED BY <1>1, <1>2, <1>3, <1>4, <1>6, <2>1, <2>3, <2>4, <2>5
          DEF RestoreInv, ArchiveIsRestorable
<1>8. CASE ~ (headOn # "branch" /\ \E c \in Made : FetchBranch(c))
  <2>1. gpc' = "failed" /\ UNCHANGED restored BY <1>8 DEF Fetch
  <2>2. sel.state = "clean" => \E c \in Made : FetchBranch(c)
    <3>1. ASSUME sel.state = "clean", sel.ref = "branch" PROVE FetchBranch(sel.tip) /\ sel.tip \in Made
      BY <1>2, <3>1 DEF FetchBranch, GoodArchive
    <3>2. ASSUME sel.state = "clean", sel.ref = "other" PROVE FetchBranch(sel.head) /\ sel.head \in Made
      BY <1>2, <3>2 DEF FetchBranch, GoodArchive, Restorable
    <3> QED BY <1>2, <3>1, <3>2
  <2>3. ArchiveIsRestorable' BY <1>1, <1>8, <2>2 DEF ArchiveIsRestorable
  <2> QED BY <1>1, <1>2, <1>3, <1>6, <2>1, <2>3 DEF RestoreInv
<1> QED BY <1>7, <1>8

LEMMA RestoreEndKeeps ==
  ASSUME RestoreInv, gpc' = "idle", sel' = NoArchive, UNCHANGED <<objects, restored>>,
         headAt' \in Ref, headOn' \in {"unborn", "detached", "branch"}
  PROVE  RestoreInv'
BY NoArchiveTyped DEF RestoreInv, ArchiveIsRestorable

\* The head is among the commits that were fetched.
LEMMA CheckoutKeeps ==
  ASSUME RestoreInv, Checkout, UNCHANGED repoVars
  PROVE  RestoreInv'
<1>1. gpc = "checkout" /\ UNCHANGED <<objects, restored, commands>> /\ history' = history
  BY DEF Checkout, repoVars
<1>2. /\ GoodArchive(sel) /\ sel \in Archive /\ history[sel.tip] \subseteq objects
      /\ sel.head \in Commits
  BY <1>1 DEF RestoreInv, Archive
<1>3. sel' = sel => GoodArchive(sel)' BY <1>2 DEF repoVars, GoodArchive, Restorable, Made
<1>4. CASE sel.head \in objects /\ headAt' = sel.head /\ headOn' = "detached" /\ gpc' = "done" /\ UNCHANGED sel
  BY <1>1, <1>2, <1>3, <1>4 DEF RestoreInv, ArchiveIsRestorable, Ref
<1>5. CASE sel.head \notin objects /\ gpc' = "failed" /\ UNCHANGED <<sel, headAt, headOn>>
  <2>1. sel.state # "clean" BY <1>2, <1>5 DEF GoodArchive, Restorable
  <2> QED BY <1>1, <1>2, <1>3, <1>5, <2>1 DEF RestoreInv, ArchiveIsRestorable
<1>6. CASE headAt' = restored /\ headOn' = "branch" /\ EndRestore
  <2>1. restored \in Ref BY DEF RestoreInv
  <2> QED BY <1>1, <1>6, <2>1, RestoreEndKeeps DEF EndRestore
<1> QED BY <1>4, <1>5, <1>6 DEF Checkout

LEMMA RestoreEndsKeeps ==
  ASSUME RestoreInv, RestoreEnds
  PROVE  RestoreInv'
<1>1. gpc' = "idle" /\ sel' = NoArchive /\ UNCHANGED <<objects, restored, headAt, headOn>>
  BY DEF RestoreEnds, EndRestore
<1>2. headAt' \in Ref /\ headOn' \in {"unborn", "detached", "branch"} BY <1>1 DEF RestoreInv
<1> QED BY <1>1, <1>2, RestoreEndKeeps

LEMMA RestoreInvStays ==
  ASSUME RestoreInv, UNCHANGED restoreVars, UNCHANGED repoVars
  PROVE  RestoreInv'
<1>1. UNCHANGED <<gpc, sel, objects, restored, headAt, headOn>> /\ history' = history
  BY DEF restoreVars, repoVars
<1>2. GoodArchive(sel)' <=> GoodArchive(sel) BY <1>1 DEF repoVars, GoodArchive, Restorable, Made
<1> QED BY <1>1, <1>2 DEF RestoreInv, ArchiveIsRestorable

-----------------------------------------------------------------------------
LEMMA GitInitial ==
  ASSUME Init
  PROVE  GitInv
<1>1. 1 \in Commits /\ MaxCommits \in Nat BY CommitsAssumption DEF Commits
<1>2. RepoInv
  <2>1. Made = {1} /\ history[NoCommit] = {} /\ history[1] = {1} /\ parent[1] = NoCommit
    BY <1>1 DEF Init, RepoInit, Made, Ref, NoCommit, Commits
  <2>2. RepoTypeOK
    <3>1. parent \in [Commits -> Ref] BY DEF Init, RepoInit, Ref
    <3>2. history \in [Ref -> SUBSET Commits] BY <1>1 DEF Init, RepoInit
    <3> QED BY <1>1, <3>1, <3>2 DEF Init, RepoInit, RepoTypeOK, Ref, NoCommit
  <2>3. Closed BY <2>1 DEF Closed
  <2>4. Line BY <2>1 DEF Line, Init, RepoInit
  <2> QED BY <2>1, <2>2, <2>3, <2>4 DEF RepoInv, Init, RepoInit
<1>3. SyncInv
  BY <1>1 DEF Init, SyncInit, SyncInv, SyncTypeOK, Ref, How, NoRun, RunRecord, SyncedRunIsComplete,
              LinearWorkIsAccepted
<1>4. ArchiveInv /\ RestoreInv
  BY NoArchiveTyped DEF Init, ArchiveInit, ArchiveInv, RestoreInv, Ref, ArchiveIsRestorable
<1> QED BY <1>2, <1>3, <1>4 DEF GitInv

LEMMA GitPreserved ==
  ASSUME GitInv, [Next]_vars
  PROVE  GitInv'
<1>1. RepoInv /\ SyncInv /\ ArchiveInv /\ RestoreInv /\ commands \in Nat
  BY DEF GitInv, SyncInv, SyncTypeOK
<1>2. CASE RepoNext /\ UNCHANGED <<syncVars, archiveVars, restoreVars, commands>>
  BY <1>2, RepoKeepsCommands
<1>3. CASE SyncNext /\ UNCHANGED <<repoVars, archiveVars, restoreVars>>
  <2>1. UNCHANGED repoVars /\ UNCHANGED archiveVars /\ UNCHANGED restoreVars BY <1>3
  <2>2. SyncInv'
    BY <1>1, <1>3, <2>1, MergeBaseKeeps, GitLogKeeps, ValidateKeeps, WriteKeeps,
       EndWithoutWriteKeeps DEF SyncNext
  <2> QED BY <1>1, <2>1, <2>2, RepoInvStays, ArchiveInvStays, RestoreInvStays DEF GitInv
<1>4. CASE ArchiveStep /\ UNCHANGED <<repoVars, syncVars, restoreVars>>
  <2>1. UNCHANGED repoVars /\ UNCHANGED syncVars /\ UNCHANGED restoreVars BY <1>4
  <2>2. ArchiveInv'
    BY <1>1, <1>4, <2>1, RevParseKeeps, CreateBundleKeeps, AppendArchiveKeeps,
       EndWithoutArchiveKeeps DEF ArchiveStep
  <2>3. commands' \in Nat
    BY <1>1, <1>4 DEF ArchiveStep, RevParse, CreateBundle, AppendArchive, EndWithoutArchive
  <2> QED BY <1>1, <2>1, <2>2, <2>3, RepoInvStays, SyncInvStays, RestoreInvStays DEF GitInv
<1>5. CASE RestoreStep /\ UNCHANGED <<repoVars, syncVars, archiveVars>>
  <2>1. UNCHANGED repoVars /\ UNCHANGED syncVars /\ UNCHANGED archiveVars BY <1>5
  <2>2. RestoreInv'
    BY <1>1, <1>5, <2>1, SelectArchiveKeeps, FetchKeeps, CheckoutKeeps, RestoreEndsKeeps
       DEF RestoreStep
  <2>3. commands' \in Nat
    BY <1>1, <1>5 DEF RestoreStep, SelectArchive, Fetch, Checkout, RestoreEnds
  <2> QED BY <1>1, <2>1, <2>2, <2>3, RepoInvStays, SyncInvStays, ArchiveInvStays DEF GitInv
<1>6. CASE UNCHANGED vars
  <2>1. /\ UNCHANGED repoVars /\ UNCHANGED syncVars /\ UNCHANGED archiveVars
        /\ UNCHANGED restoreVars /\ UNCHANGED commands
    BY <1>6 DEF vars
  <2> QED BY <1>1, <2>1, RepoInvStays, SyncInvStays, ArchiveInvStays, RestoreInvStays DEF GitInv
<1> QED BY <1>2, <1>3, <1>4, <1>5, <1>6 DEF Next

\* The invariant of the repository and the commands.
THEOREM GitInvariant == Spec => []GitInv
BY GitInitial, GitPreserved, PTL DEF Spec

\* Repository, run, archives and the restored repository keep their types.
THEOREM GitIsTyped == Spec => []TypeOK
<1>1. GitInv => TypeOK
  BY DEF GitInv, RepoInv, SyncInv, ArchiveInv, RestoreInv, TypeOK, ArchiveTypeOK
<1> QED BY <1>1, GitInvariant, PTL

\* A run that has passed the checks of sync-git lacks no commit its branch has
\* ever had since the fork.
THEOREM SyncedRunsAreComplete == Spec => []SyncedRunIsComplete
<1>1. GitInv => SyncedRunIsComplete BY DEF GitInv, SyncInv
<1> QED BY <1>1, GitInvariant, PTL

\* sync-git refuses no branch of which commits were only added, one by one.
THEOREM LinearWorkPasses == Spec => []LinearWorkIsAccepted
<1>1. GitInv => LinearWorkIsAccepted BY DEF GitInv, SyncInv
<1> QED BY <1>1, GitInvariant, PTL

\* restore-git fails on an archive of a branch that was not rewritten only when
\* the restored branch is checked out.
THEOREM ArchivesCanBeRestored == Spec => []ArchiveIsRestorable
<1>1. GitInv => ArchiveIsRestorable BY DEF GitInv, RestoreInv
<1> QED BY <1>1, GitInvariant, PTL

\* A restore of it has the head on its branch, and the run that was synced.
THEOREM RestoresHaveTheRun == Spec => []RestoreHasRun
<1>1. ASSUME GitInv PROVE RestoreHasRun
  <2>1. SUFFICES ASSUME gpc = "done", sel.state = "clean"
                 PROVE  /\ headAt \in history[restored]
                        /\ sel.run.how # "forced" => sel.run.commits \subseteq objects
    BY DEF RestoreHasRun
  <2>2. /\ GoodArchive(sel) /\ headAt = sel.head /\ history[sel.tip] \subseteq objects
        /\ restored \in {sel.tip, sel.head}
    BY <1>1, <2>1 DEF GitInv, RestoreInv, Archive
  <2>3. sel.head \in history[sel.head] BY <1>1, <2>2 DEF GitInv, RepoInv, Closed, GoodArchive
  <2> QED BY <2>1, <2>2, <2>3 DEF GoodArchive, Restorable
<1> QED BY <1>1, GitInvariant, PTL

-----------------------------------------------------------------------------
(***************************************************************************)
(* Where the commits of a run come from, and that they do not fork.        *)
(*                                                                         *)
(* Foreign commits, those that were made on main, contain one another in   *)
(* the order they were made in; the branch's own commits do as well while  *)
(* it is Clean.  A merge-base that leaves a foreign commit to the log was  *)
(* passed by main in both directions, and the chain of records breaks.     *)
(***************************************************************************)
Foreign == Made \ own

LineageInv ==
  /\ own \subseteq ever
  /\ 1 \in ever /\ 1 \notin own /\ parent[1] = NoCommit
  /\ \A c \in Made : parent[c] < c /\ history[parent[c]] \subseteq history[c]
  /\ \A x, y \in Foreign : x <= y => x \in history[y]
  /\ main = NoCommit => Foreign = {1}
  /\ main # NoCommit => Foreign \subseteq history[main]
  /\ Clean => \A o \in own : /\ parent[o] # NoCommit
                             /\ \A c \in own : c < o => c \in history[parent[o]]

\* In the order of the log, c comes right after d.
After(S, d, c) == d < c /\ \A e \in S : ~ (d < e /\ e < c)

-----------------------------------------------------------------------------
\* In a finite set of numbers with one in P above one outside P, there are two
\* such with no other one between them.
LEMMA Adjacent ==
  ASSUME NEW last \in Nat, NEW S \in SUBSET (0 .. last), NEW P \in SUBSET S,
         NEW x \in S \ P, NEW t \in P, x < t
  PROVE  \E f \in S \ P, o \in P : After(S, f, o)
<1> DEFINE Between(f, o) == {e \in S : f < e /\ e < o}
           T == {U \in SUBSET S : \E f \in S \ P, o \in P : f < o /\ U = Between(f, o)}
<1>1. S \subseteq Int OBVIOUS
<1>2. IsFiniteSet(S)
  <2>1. IsFiniteSet(0 .. last) BY FS_Interval
  <2> QED BY <2>1, FS_Subset
<1>3. Between(x, t) \in T OBVIOUS
<1>4. T # {} BY <1>3
<1>5. T \subseteq FiniteSubsetsOf(S)
  <2>1. FiniteSubsetsOf(S) = SUBSET S BY <1>2, FS_FiniteSubsetsOfFinite
  <2> QED BY <2>1
<1>6. PICK U \in T : \A V \in T : <<V, U>> \notin StrictSubsetOrdering(S)
  <2> HIDE DEF T
  <2> QED BY <1>4, <1>5, FS_StrictSubsetOrderingWellFounded, WFMin
<1>7. PICK f \in S \ P, o \in P : f < o /\ U = Between(f, o) BY <1>6
<1>8. \A f2 \in S \ P, o2 \in P :
        f2 < o2 => <<Between(f2, o2), Between(f, o)>> \notin StrictSubsetOrdering(S)
  <2>1. ASSUME NEW f2 \in S \ P, NEW o2 \in P, f2 < o2 PROVE Between(f2, o2) \in T
    BY <2>1
  <2> HIDE DEF T, Between
  <2> QED BY <1>6, <1>7, <2>1
<1>9. ASSUME NEW f2 \in S \ P, NEW o2 \in P, f2 < o2, f <= f2, o2 <= o,
             f2 # f \/ o2 # o
      PROVE  FALSE
  <2>1. f \in Int /\ o \in Int /\ f2 \in Int /\ o2 \in Int BY <1>1
  <2>2. \A e \in Between(f2, o2) : e \in Between(f, o) BY <1>1, <1>9, <2>1
  <2>3. f2 \in Between(f, o) \/ o2 \in Between(f, o) BY <1>7, <1>9, <2>1
  <2>4. f2 \notin Between(f2, o2) /\ o2 \notin Between(f2, o2) BY <2>1
  <2>5. Between(f, o) \in SUBSET S /\ Between(f2, o2) \in SUBSET S OBVIOUS
  <2>6. <<Between(f2, o2), Between(f, o)>> \in StrictSubsetOrdering(S)
    <3> HIDE DEF Between
    <3> QED BY <2>2, <2>3, <2>4, <2>5 DEF StrictSubsetOrdering
  <2> HIDE DEF Between
  <2> QED BY <1>8, <1>9, <2>6
<1>10. ASSUME NEW e \in S, f < e, e < o PROVE FALSE
  <2>1. f \in Int /\ o \in Int /\ e \in Int BY <1>1
  <2>2. CASE e \in P BY <1>9, <1>10, <2>1, <2>2
  <2>3. CASE e \notin P BY <1>9, <1>10, <2>1, <2>3
  <2> QED BY <2>2, <2>3
<1> QED BY <1>7, <1>10 DEF After

\* The commit before c, in a set that has one below c.
LEMMA Predecessor ==
  ASSUME NEW last \in Nat, NEW S \in SUBSET (0 .. last), NEW b \in S, NEW c \in S, b < c
  PROVE  \E d \in S : b <= d /\ After(S, d, c)
<1> DEFINE P == {e \in S : c <= e}
<1>1. S \subseteq Int OBVIOUS
<1>2. P \in SUBSET S /\ b \in S \ P /\ c \in P BY <1>1
<1>3. PICK f \in S \ P, o \in P : After(S, f, o)
  <2> HIDE DEF P
  <2> QED BY <1>2, Adjacent
<1>4. /\ f < c /\ c <= o /\ f \in S /\ f \in Int /\ o \in Int /\ c \in Int /\ b \in Int
      /\ \A e \in S : ~ (f < e /\ e < o)
  BY <1>1, <1>3 DEF After
<1>5. o = c BY <1>4
<1>6. b <= f BY <1>4, <1>5
<1> QED BY <1>3, <1>4, <1>5, <1>6

LEMMA Greatest ==
  ASSUME NEW last \in Nat, NEW S \in SUBSET (0 .. last), NEW b \in S
  PROVE  \E d \in S : \A e \in S : e <= d
<1> DEFINE next == last + 1
           S2 == S \cup {next}
<1>1. S2 \in SUBSET (0 .. next) /\ b \in S2 /\ next \in S2 /\ b < next /\ next \in Nat
  OBVIOUS
<1>2. PICK d \in S2 : b <= d /\ After(S2, d, next)
  <2> HIDE DEF next, S2
  <2> QED BY <1>1, Predecessor
<1>3. d \in S BY <1>2 DEF After
<1>4. ASSUME NEW e \in S PROVE e <= d
  <2>1. e \in 0 .. last /\ d \in 0 .. last /\ e \in S2 BY <1>3
  <2>2. ~ (d < e /\ e < next) BY <1>2, <2>1 DEF After
  <2> QED BY <2>1, <2>2
<1> QED BY <1>3, <1>4

-----------------------------------------------------------------------------
(***************************************************************************)
(* A step of the repository.                                               *)
(***************************************************************************)
\* What the branch has that the agent did not make comes from main.
LEMMA OwnLineage ==
  ASSUME RepoInv, LineageInv, Clean, NEW c \in own, NEW d \in own, c <= d
  PROVE  c \in history[d]
<1>1. /\ own \subseteq Made /\ Closed /\ \A e \in Made : e \in Nat
  BY MadeTyped DEF RepoInv, LineageInv
<1>2. CASE c = d BY <1>1, <1>2 DEF Closed
<1>3. CASE c # d
  <2>1. c < d BY <1>1, <1>3
  <2>2. c \in history[parent[d]] BY <2>1 DEF LineageInv
  <2> QED BY <1>1, <2>2 DEF LineageInv
<1> QED BY <1>2, <1>3

\* A commit on the branch.
LEMMA BranchLineage ==
  ASSUME RepoInv, LineageInv, NEW p \in Made \cup {NoCommit}, NEW others \in SUBSET Made,
         \A d \in others : history[d] \subseteq others, NewCommit(p, others),
         MoveTo(top + 1, history'[top + 1]), own' = own \cup {top + 1}, main' = main,
         Clean' => Clean /\ p = tip
  PROVE  /\ LineageInv'
         /\ Clean' => /\ history[tip] \subseteq history'[tip']
                      /\ others = {} => history'[tip'] \ own' \subseteq history[tip] \ own
<1> DEFINE n == top + 1
<1>1. /\ RepoTypeOK /\ Closed /\ tip \in Made /\ main \in Made \cup {NoCommit} /\ ever \subseteq Made
      /\ Clean => ever = history[tip]
  BY DEF RepoInv
<1>2. /\ n \in Commits /\ top' = n /\ Made' = Made \cup {n}
      /\ history'[n] = history[p] \cup others \cup {n} /\ parent'[n] = p
      /\ Closed' /\ Extends
  BY <1>1, NewCommitKeeps
<1>3. tip' = n /\ ever' = ever \cup history'[n] /\ own' = own \cup {n} BY DEF MoveTo
<1>4. /\ \A c \in Made : c \in Nat /\ c < n
      /\ 1 \in Made /\ n \in Nat /\ NoCommit < n /\ NoCommit \notin Made
  BY <1>1, <1>2, MadeTyped DEF NoCommit
<1> HIDE DEF n
<1>5. /\ own \subseteq ever /\ 1 \in ever /\ 1 \notin own /\ parent[1] = NoCommit
      /\ \A c \in Made : parent[c] < c /\ history[parent[c]] \subseteq history[c]
  BY DEF LineageInv
<1>6. /\ \A c \in Made : history'[c] = history[c] /\ parent'[c] = parent[c]
      /\ history'[NoCommit] = history[NoCommit]
      /\ \A c \in Made : parent[c] \in Made \cup {NoCommit}
  BY <1>1, <1>2 DEF Extends, Closed
<1>7. Foreign' = Foreign BY <1>2, <1>3, <1>4 DEF Foreign
<1>8. own' \subseteq ever' /\ 1 \in ever' /\ 1 \notin own' /\ parent'[1] = NoCommit
  BY <1>2, <1>3, <1>4, <1>5, <1>6
<1>9. ASSUME NEW c \in Made' PROVE parent'[c] < c /\ history'[parent'[c]] \subseteq history'[c]
  <2>1. CASE c = n
    <3>1. p < n BY <1>4
    <3>2. history'[p] = history[p] BY <1>6
    <3> QED BY <1>2, <2>1, <3>1, <3>2
  <2>2. CASE c # n
    <3>1. c \in Made BY <1>2, <2>2
    <3>2. history'[parent[c]] = history[parent[c]] BY <1>6, <3>1
    <3> QED BY <1>5, <1>6, <3>1, <3>2
  <2> QED BY <2>1, <2>2
<1>10. \A x, y \in Foreign : x <= y => x \in history'[y]
  BY <1>6 DEF LineageInv, Foreign
<1>11. /\ main = NoCommit => Foreign = {1}
       /\ main # NoCommit => Foreign \subseteq history'[main]
  BY <1>1, <1>6 DEF LineageInv
<1>12. ASSUME Clean', NEW o \in own'
       PROVE  parent'[o] # NoCommit /\ \A c \in own' : c < o => c \in history'[parent'[o]]
  <2>1. Clean /\ p = tip /\ own \subseteq history[tip] /\ own \subseteq Made
    BY <1>1, <1>5, <1>12
  <2>2. CASE o = n
    <3>1. parent'[o] = tip /\ history'[tip] = history[tip] /\ tip # NoCommit
      BY <1>1, <1>2, <1>4, <1>6, <2>1, <2>2
    <3>2. \A c \in own' : c < o => c \in own BY <1>3, <1>4, <2>2
    <3> QED BY <2>1, <3>1, <3>2
  <2>3. CASE o # n
    <3>1. o \in own /\ o \in Made BY <1>3, <2>1, <2>3
    <3>2. parent'[o] = parent[o] /\ history'[parent[o]] = history[parent[o]] BY <1>6, <3>1
    <3>3. ASSUME NEW c \in own', c < o PROVE c \in own BY <1>3, <1>4, <3>1, <3>3
    <3> QED BY <2>1, <3>1, <3>2, <3>3 DEF LineageInv
  <2> QED BY <2>2, <2>3
<1>13. LineageInv' BY <1>7, <1>8, <1>9, <1>10, <1>11, <1>12 DEF LineageInv
<1>14. ASSUME Clean' PROVE /\ history[tip] \subseteq history'[tip']
                           /\ others = {} => history'[tip'] \ own' \subseteq history[tip] \ own
  BY <1>2, <1>3, <1>14
<1> QED BY <1>13, <1>14

\* The branch moves to a commit that is there.
LEMMA MoveLineage ==
  ASSUME RepoInv, LineageInv, UNCHANGED <<parent, history, top, main, own>>, ever \subseteq ever',
         Clean' => Clean
  PROVE  LineageInv'
<1>1. Made' = Made /\ Foreign' = Foreign BY DEF Made, Foreign
<1> QED BY <1>1 DEF LineageInv

\* A commit on main, which contains all that main had.
LEMMA MainLineage ==
  ASSUME RepoInv, LineageInv, main # NoCommit, NEW others \in SUBSET Made,
         \A d \in others : history[d] \subseteq others, NewCommit(main, others), main' = top + 1,
         UNCHANGED <<tip, reflog, own, ever, joins, unlogged, lines>>
  PROVE  LineageInv' /\ history'[tip'] = history[tip]
<1> DEFINE n == top + 1
<1>1. /\ RepoTypeOK /\ Closed /\ tip \in Made /\ main \in Made /\ ever \subseteq Made
  BY DEF RepoInv
<1>2. /\ n \in Commits /\ top' = n /\ Made' = Made \cup {n}
      /\ history'[n] = history[main] \cup others \cup {n} /\ parent'[n] = main
      /\ Closed' /\ Extends
  BY <1>1, NewCommitKeeps
<1>3. main' = n OBVIOUS
<1>4. /\ \A c \in Made : c \in Nat /\ c < n
      /\ 1 \in Made /\ n \in Nat /\ NoCommit < n /\ NoCommit \notin Made
  BY <1>1, <1>2, MadeTyped DEF NoCommit
<1> HIDE DEF n
<1>5. /\ own \subseteq ever /\ 1 \in ever /\ 1 \notin own /\ parent[1] = NoCommit
      /\ \A c \in Made : parent[c] < c /\ history[parent[c]] \subseteq history[c]
      /\ Foreign \subseteq history[main]
  BY DEF LineageInv
<1>6. /\ \A c \in Made : history'[c] = history[c] /\ parent'[c] = parent[c]
      /\ history'[NoCommit] = history[NoCommit]
      /\ \A c \in Made : parent[c] \in Made \cup {NoCommit}
  BY <1>1, <1>2 DEF Extends, Closed
<1>7. own \subseteq Made /\ n \notin Made BY <1>1, <1>4, <1>5
<1>8. Foreign' = Foreign \cup {n} BY <1>2, <1>7 DEF Foreign
<1>9. Foreign' \subseteq history'[n] BY <1>2, <1>5, <1>8
<1>10. ASSUME NEW c \in Made' PROVE parent'[c] < c /\ history'[parent'[c]] \subseteq history'[c]
  <2>1. CASE c = n
    <3>1. main < n /\ history'[main] = history[main] BY <1>1, <1>4, <1>6
    <3> QED BY <1>2, <2>1, <3>1
  <2>2. CASE c # n
    <3>1. c \in Made BY <1>2, <2>2
    <3>2. history'[parent[c]] = history[parent[c]] BY <1>6, <3>1
    <3> QED BY <1>5, <1>6, <3>1, <3>2
  <2> QED BY <2>1, <2>2
<1>11. ASSUME NEW x \in Foreign', NEW y \in Foreign', x <= y PROVE x \in history'[y]
  <2>1. CASE y = n BY <1>9, <2>1
  <2>2. CASE y # n
    <3>1. y \in Foreign /\ y \in Made BY <1>8, <2>2 DEF Foreign
    <3>2. x # n BY <1>4, <1>11, <3>1
    <3>3. x \in Foreign BY <1>8, <3>2
    <3> QED BY <1>6, <1>11, <3>1, <3>3 DEF LineageInv
  <2> QED BY <2>1, <2>2
<1>12. Clean' => \A o \in own : /\ parent'[o] # NoCommit
                                /\ \A c \in own : c < o => c \in history'[parent'[o]]
  <2>1. Clean' => Clean BY DEF Clean
  <2>2. \A o \in own : parent'[o] = parent[o] /\ history'[parent[o]] = history[parent[o]]
    BY <1>6, <1>7
  <2> QED BY <2>1, <2>2 DEF LineageInv
<1>13. LineageInv'
  <2>1. parent'[1] = NoCommit BY <1>4, <1>5, <1>6
  <2>2. main' # NoCommit BY <1>3, <1>4
  <2> QED BY <1>3, <1>5, <1>9, <1>10, <1>11, <1>12, <2>1, <2>2 DEF LineageInv
<1> QED BY <1>1, <1>6, <1>13

\* A step of the repository that is not a merge into the branch and leaves no
\* suspicious line adds nothing to the branch but what it makes there.
OnlyGrows ==
  Clean' /\ joins' = joins => /\ history[tip] \subseteq history'[tip']
                              /\ history'[tip'] \ own' \subseteq history[tip] \ own

Descends ==
  /\ LineageInv'
  /\ own \subseteq own'
  /\ joins <= joins'
  /\ main = NoCommit => main' = NoCommit
  /\ OnlyGrows

LEMMA CommitDescends ==
  ASSUME RepoInv, LineageInv, Commit
  PROVE  Descends
<1>1. /\ NewCommit(tip, {}) /\ MoveTo(top + 1, history'[top + 1]) /\ own' = own \cup {top + 1}
      /\ (reflog' = reflog \cup {"amend"}) \/ UNCHANGED <<reflog, lines>>
      /\ UNCHANGED <<main, joins, unlogged>>
  BY DEF Commit, Log
<1>2. Clean' => Clean BY <1>1 DEF Clean
<1>3. tip \in Made /\ joins \in Nat BY DEF RepoInv, RepoTypeOK
<1>4. /\ LineageInv'
      /\ Clean' => /\ history[tip] \subseteq history'[tip']
                   /\ history'[tip'] \ own' \subseteq history[tip] \ own
  BY <1>1, <1>2, <1>3, BranchLineage
<1> QED BY <1>1, <1>3, <1>4 DEF Descends, OnlyGrows

LEMMA AmendDescends ==
  ASSUME RepoInv, LineageInv, Amend
  PROVE  Descends
<1>1. /\ NewCommit(parent[tip], {}) /\ MoveTo(top + 1, history'[top + 1])
      /\ own' = own \cup {top + 1} /\ UNCHANGED <<main, joins>> /\ reflog' # {}
  BY DEF Amend, Log
<1>2. ~ Clean' BY <1>1 DEF Clean
<1>3. parent[tip] \in Made \cup {NoCommit} /\ joins \in Nat BY DEF RepoInv, RepoTypeOK, Closed
<1>4. LineageInv' BY <1>1, <1>2, <1>3, BranchLineage
<1> QED BY <1>1, <1>2, <1>3, <1>4 DEF Descends, OnlyGrows

LEMMA RebaseDescends ==
  ASSUME RepoInv, LineageInv, Rebase
  PROVE  Descends
<1>1. /\ MoveTo(top + 1, history'[top + 1])
      /\ own' = own \cup {top + 1} /\ UNCHANGED <<main, joins>> /\ reflog' # {}
  BY DEF Rebase, Log
<1>2. PICK c \in Made : NewCommit(c, {}) BY DEF Rebase
<1>3. ~ Clean' BY <1>1 DEF Clean
<1>4. joins \in Nat BY DEF RepoInv, RepoTypeOK
<1>5. LineageInv' BY <1>1, <1>2, <1>3, BranchLineage
<1> QED BY <1>1, <1>3, <1>4, <1>5 DEF Descends, OnlyGrows

LEMMA MergeDescends ==
  ASSUME RepoInv, LineageInv, Merge
  PROVE  Descends
<1>1. /\ MoveTo(top + 1, history'[top + 1])
      /\ own' = own \cup {top + 1} /\ joins' = joins + 1
      /\ UNCHANGED <<main, reflog, unlogged, lines>>
  BY DEF Merge
<1>2. PICK c \in Made : NewCommit(tip, history[c]) BY DEF Merge
<1>3. /\ history[c] \subseteq Made /\ \A d \in history[c] : history[d] \subseteq history[c]
      /\ tip \in Made /\ joins \in Nat
  BY DEF RepoInv, RepoTypeOK, Closed
<1>4. Clean' => Clean BY <1>1 DEF Clean
<1>5. LineageInv' BY <1>1, <1>2, <1>3, <1>4, BranchLineage
<1>6. joins' # joins /\ joins <= joins' BY <1>1, <1>3
<1> QED BY <1>1, <1>5, <1>6 DEF Descends, OnlyGrows

LEMMA MoveDescends ==
  ASSUME RepoInv, LineageInv, Reset \/ FastForward \/ MoveBranch
  PROVE  Descends
<1>1. /\ UNCHANGED <<parent, history, top, main, own>> /\ ever \subseteq ever'
      /\ \/ joins' = joins + 1 /\ UNCHANGED <<reflog, unlogged>>
         \/ joins' = joins /\ reflog' # {}
         \/ joins' = joins /\ unlogged' = unlogged + 1
  BY DEF Reset, FastForward, MoveBranch, Log, MoveTo
<1>2. joins \in Nat /\ unlogged \in Nat BY DEF RepoInv, RepoTypeOK
<1>3. (Clean' => Clean) /\ ~ (Clean' /\ joins' = joins) /\ joins <= joins' BY <1>1, <1>2 DEF Clean
<1>4. LineageInv' BY <1>1, <1>3, MoveLineage
<1> QED BY <1>1, <1>3, <1>4 DEF Descends, OnlyGrows

LEMMA MainDescends ==
  ASSUME RepoInv, LineageInv, MainCommit \/ MainMerge
  PROVE  Descends
<1>1. /\ main # NoCommit
      /\ UNCHANGED <<tip, reflog, own, ever, joins, unlogged, lines>>
  BY DEF MainCommit, MainMerge
<1>2. /\ history[tip] \subseteq Made /\ \A d \in history[tip] : history[d] \subseteq history[tip]
      /\ joins \in Nat /\ tip \in Made /\ main \in Made
  BY <1>1 DEF RepoInv, RepoTypeOK, Closed
<1>3. CASE NewCommit(main, {}) /\ main' = top + 1
  <2>1. LineageInv' /\ history'[tip'] = history[tip] BY <1>1, <1>3, MainLineage
  <2> QED BY <1>1, <1>2, <2>1 DEF Descends, OnlyGrows
<1>4. CASE NewCommit(main, history[tip]) /\ main' = top + 1
  <2>1. LineageInv' /\ history'[tip'] = history[tip] BY <1>1, <1>2, <1>4, MainLineage
  <2> QED BY <1>1, <1>2, <2>1 DEF Descends, OnlyGrows
<1>5. CASE main \in history[tip] /\ main' = tip /\ UNCHANGED <<parent, history, top>>
  <2>1. Made' = Made /\ Foreign' = Foreign /\ (Clean' <=> Clean)
    BY <1>1, <1>5 DEF Made, Foreign, Clean
  <2>2. tip # NoCommit /\ NoCommit \notin Made BY <1>2, MadeTyped DEF RepoInv
  <2>3. Foreign \subseteq history[main] /\ history[main] \subseteq history[tip]
    BY <1>1, <1>2, <1>5 DEF LineageInv
  <2>4. LineageInv' BY <1>1, <1>5, <2>1, <2>2, <2>3 DEF LineageInv
  <2> QED BY <1>1, <1>2, <1>5, <2>4 DEF Descends, OnlyGrows
<1> QED BY <1>1, <1>3, <1>4, <1>5 DEF MainCommit, MainMerge

LEMMA RepoNextDescends ==
  ASSUME RepoInv, LineageInv, RepoNext
  PROVE  Descends
BY CommitDescends, AmendDescends, RebaseDescends, MergeDescends, MoveDescends, MainDescends
   DEF RepoNext

-----------------------------------------------------------------------------
(***************************************************************************)
(* What the commands make of that.                                         *)
(***************************************************************************)
\* No two of the commits were made on the same one.
OneLine(S) == \A c, d \in S : parent[c] = parent[d] /\ parent[c] # NoCommit => c = d

\* The check of the chain passes.
Unbroken(S) == \A c, d \in S : After(S, d, c) => parent[c] \in {NoCommit, d}

\* Of the commits that contain the merge-base, only itself is not the branch's.
BasePicked ==
  spc = "log" /\ Clean /\ joins = since =>
    \/ base = NoCommit /\ main = NoCommit
    \/ base \in history[tip] /\ \A x \in history[tip] \ own : base \in history[x] => x = base

OriginInv ==
  /\ since <= joins
  /\ BasePicked
  /\ spc = "reflog" /\ Clean /\ how = "vetted" /\ ~ ChainBroken => records \subseteq own \cup {1}
  /\ spc = "write" /\ how = "vetted" => records \subseteq own \cup {1}
  /\ spc = "write" /\ how \in {"vetted", "joined"} => OneLine(records)
  /\ spc = "write" /\ how = "vetted" /\ run.how = "vetted" => OneLine(records \cup run.commits)
  /\ OnlyOwnCommits
  /\ RunIsOneLine

-----------------------------------------------------------------------------
\* A log from a merge-base that leaves a foreign commit to it has a break where
\* the branch's commits go on.
LEMMA RecordsAreOwn ==
  ASSUME RepoInv, LineageInv, Clean, NEW b \in history[tip],
         \A x \in history[tip] \ own : b \in history[x] => x = b,
         NEW R, R = history[tip] \ history[b], Unbroken(R)
  PROVE  R \subseteq own
<1>1. SUFFICES ASSUME NEW x \in R, x \notin own
               PROVE  FALSE
  OBVIOUS
<1>2. /\ RepoTypeOK /\ Closed /\ tip \in Made /\ history[tip] \subseteq Made /\ tip \in history[tip]
      /\ \A d \in history[tip] : d <= tip /\ history[d] \subseteq history[tip]
      /\ \A c \in Made : c \in Nat /\ c <= top
      /\ top \in Nat /\ b \in Made /\ b \in history[b] /\ x \in Made
  BY <1>1, MadeTyped DEF RepoInv, Closed
<1>3. R \in SUBSET (0 .. top) /\ R \subseteq Made BY <1>2
<1>4. b \in own
  <2>1. SUFFICES ASSUME b \notin own
                 PROVE  FALSE
    OBVIOUS
  <2>2. b \in Foreign /\ x \in Foreign BY <1>1, <1>2, <2>1 DEF Foreign
  <2>3. b \in history[x] \/ x \in history[b] BY <1>2, <2>2 DEF LineageInv
  <2> QED BY <1>1, <1>2, <2>3
<1>5. tip \in own
  <2>1. tip \notin own => tip = b BY <1>2
  <2>2. tip # b BY <1>1
  <2> QED BY <2>1, <2>2
<1>6. tip \in R
  <2>1. tip \in history[b] => history[tip] \subseteq history[b] BY <1>2 DEF Closed
  <2> QED BY <1>1, <1>2, <2>1
<1>7. x < tip
  <2>1. x <= tip /\ x # tip BY <1>1, <1>2, <1>5
  <2> QED BY <1>2, <2>1
<1> DEFINE P == R \cap own
<1>8. /\ top \in Nat /\ R \in SUBSET (0 .. top) /\ P \in SUBSET R
      /\ x \in R \ P /\ tip \in P /\ x < tip
  BY <1>1, <1>2, <1>3, <1>5, <1>6, <1>7
<1>9. PICK f \in R \ P, o \in P : After(R, f, o)
  <2> HIDE DEF P
  <2> QED BY ONLY <1>8, Adjacent
<1>10. /\ f \in history[tip] \ own /\ o \in own /\ o \in R /\ o \in Made /\ f \in R
       /\ o \notin history[b]
  BY <1>3, <1>9
<1>11. parent[o] = f
  <2>1. parent[o] \in {NoCommit, f} BY <1>9, <1>10 DEF Unbroken
  <2> QED BY <1>10, <2>1 DEF LineageInv
<1>12. b < o
  <2>1. o <= b => o \in history[b] BY <1>4, <1>10, OwnLineage
  <2> QED BY <1>2, <1>10, <2>1
<1>13. b \in history[f] BY <1>4, <1>10, <1>11, <1>12 DEF LineageInv
<1> QED BY <1>4, <1>10, <1>13

\* Commits of which each was made on the one before it do not fork.
LEMMA ChainIsLine ==
  ASSUME RepoInv, LineageInv, NEW R \in SUBSET Made, Unbroken(R)
  PROVE  OneLine(R)
<1>1. /\ top \in Nat /\ R \in SUBSET (0 .. top) /\ \A c \in R : c \in Nat /\ parent[c] < c
      /\ \A c \in Made : parent[c] \in Ref /\ c \in Commits
  BY MadeTyped DEF RepoInv, RepoTypeOK, LineageInv
<1>2. ASSUME NEW c \in R, NEW d \in R, c < d, parent[c] = parent[d], parent[c] # NoCommit
      PROVE  FALSE
  <2>1. PICK e \in R : c <= e /\ After(R, e, d) BY <1>1, <1>2, Predecessor
  <2>2. parent[d] = e BY <1>2, <2>1 DEF Unbroken
  <2>3. e < c BY <1>1, <1>2, <2>2
  <2> QED BY <1>1, <2>1, <2>3
<1>3. ASSUME NEW c \in R, NEW d \in R, parent[c] = parent[d], parent[c] # NoCommit
      PROVE  c = d
  BY <1>1, <1>2, <1>3
<1> QED BY <1>3 DEF OneLine

LEMMA OwnIsLine ==
  ASSUME RepoInv, LineageInv, Clean
  PROVE  OneLine(own \cup {1})
<1>1. /\ own \subseteq Made /\ 1 \in Made /\ \A c \in Made : c \in Nat /\ parent[c] < c
      /\ \A c \in Made : parent[c] \in Made \cup {NoCommit}
      /\ \A c \in Made : \A d \in history[c] : d <= c
      /\ parent[1] = NoCommit
  BY MadeTyped DEF RepoInv, LineageInv, Closed
<1>2. ASSUME NEW c \in own \cup {1}, NEW d \in own \cup {1}, c < d, parent[c] = parent[d],
             parent[c] # NoCommit
      PROVE  FALSE
  <2>1. c \in own /\ d \in own /\ parent[c] \in Made BY <1>1, <1>2
  <2>2. c \in history[parent[d]] BY <1>2, <2>1 DEF LineageInv
  <2>3. c <= parent[c] /\ parent[c] < c BY <1>1, <1>2, <2>1, <2>2
  <2> QED BY <1>1, <2>1, <2>3
<1>3. ASSUME NEW c \in own \cup {1}, NEW d \in own \cup {1}, parent[c] = parent[d],
             parent[c] # NoCommit
      PROVE  c = d
  BY <1>1, <1>2, <1>3
<1> QED BY <1>3 DEF OneLine

\* What git merge-base answers about a clean branch.
LEMMA MergeBasePicks ==
  ASSUME RepoInv, LineageInv, Clean
  PROVE  /\ main = NoCommit => MergeBases = {}
         /\ main # NoCommit => MergeBases # {}
         /\ \A b \in MergeBases :
              b \in history[tip] /\ \A x \in history[tip] \ own : b \in history[x] => x = b
<1> DEFINE common == history[main] \cap history[tip]
<1>1. /\ Closed /\ history[tip] \subseteq Made /\ 1 \in history[tip] /\ 1 \in Made
      /\ top \in Nat /\ \A c \in Made : c \in Nat /\ c <= top
  BY MadeTyped DEF RepoInv, LineageInv, Closed
<1>2. main = NoCommit => MergeBases = {} BY <1>1 DEF MergeBases, Closed
<1>3. ASSUME main # NoCommit PROVE MergeBases # {}
  <2>1. 1 \in common BY <1>1, <1>3 DEF LineageInv, Foreign
  <2>2. common \in SUBSET (0 .. top) /\ common \subseteq Made BY <1>1
  <2>3. \E d \in common : \A e \in common : e <= d
    <3> HIDE DEF common
    <3> QED BY <1>1, <2>1, <2>2, Greatest
  <2>4. PICK d \in common : \A e \in common : e <= d BY <2>3
  <2>5. \A e \in common : d \in history[e] => d <= e BY <2>2, <1>1 DEF Closed
  <2>6. \A e \in common : d \in history[e] => e = d BY <1>1, <2>2, <2>4, <2>5
  <2>7. d \in MergeBases BY <2>6 DEF MergeBases
  <2> QED BY <2>7
<1>4. ASSUME NEW b \in MergeBases
      PROVE  b \in history[tip] /\ \A x \in history[tip] \ own : b \in history[x] => x = b
  <2>1. b \in common /\ \A d \in common : b \in history[d] => d = b BY DEF MergeBases
  <2>2. main # NoCommit BY <1>2
  <2>3. \A x \in history[tip] \ own : x \in common BY <1>1, <2>2 DEF LineageInv, Foreign
  <2> QED BY <2>1, <2>3
<1> QED BY <1>2, <1>3, <1>4

LEMMA MergeBaseOrigin ==
  ASSUME RepoInv, LineageInv, OriginInv, MergeBase, UNCHANGED repoVars
  PROVE  OriginInv'
<1>1. /\ spc' = "log" /\ since' = joins /\ UNCHANGED <<records, due, how, run>>
      /\ IF MergeBases = {} THEN base' = NoCommit ELSE base' \in MergeBases
      /\ UNCHANGED <<parent, history, tip, main, own, joins, reflog, unlogged>>
  BY DEF MergeBase, repoVars
<1>2. joins \in Nat BY DEF RepoInv, RepoTypeOK
<1>3. ASSUME Clean PROVE \/ base' = NoCommit /\ main = NoCommit
                         \/ /\ base' \in history[tip]
                            /\ \A x \in history[tip] \ own : base' \in history[x] => x = base'
  BY <1>1, <1>3, MergeBasePicks
<1>4. BasePicked' BY <1>1, <1>3 DEF BasePicked, Clean
<1>5. OnlyOwnCommits' /\ RunIsOneLine' BY <1>1 DEF OriginInv, OnlyOwnCommits, RunIsOneLine
<1> QED BY <1>1, <1>2, <1>4, <1>5 DEF OriginInv

LEMMA GitLogOrigin ==
  ASSUME RepoInv, LineageInv, OriginInv, GitLog, UNCHANGED repoVars
  PROVE  OriginInv'
<1>1. /\ spc = "log" /\ records' = history[tip] \ history[base] /\ UNCHANGED <<run, commands>>
      /\ UNCHANGED <<parent, history, tip, main, own, joins, reflog, unlogged>>
      /\ spc' \in {"idle", "reflog"} /\ since' \in {0, since}
      /\ spc' = "reflog" => how' = (IF joins = since THEN "vetted" ELSE "joined")
  BY DEF GitLog, repoVars
<1>2. joins \in Nat /\ since <= joins BY DEF RepoInv, RepoTypeOK, OriginInv
<1>3. since' <= joins' BY <1>1, <1>2
<1>4. ASSUME spc' = "reflog", Clean', how' = "vetted", ~ ChainBroken'
      PROVE  records' \subseteq own' \cup {1}
  <2>1. joins = since /\ Clean BY <1>1, <1>4 DEF Clean
  <2>2. CASE base = NoCommit /\ main = NoCommit
    <3>1. history[tip] \subseteq Made /\ Foreign = {1} BY <2>2 DEF RepoInv, Closed, LineageInv
    <3> QED BY <1>1, <3>1 DEF Foreign
  <2>3. CASE /\ base \in history[tip]
             /\ \A x \in history[tip] \ own : base \in history[x] => x = base
    <3>1. Unbroken(records') BY <1>1, <1>4 DEF ChainBroken, Unbroken, After
    <3> DEFINE R == history[tip] \ history[base]
    <3>2. Unbroken(R) /\ R = history[tip] \ history[base] BY <1>1, <3>1
    <3> HIDE DEF R
    <3>3. R \subseteq own BY <2>1, <2>3, <3>2, RecordsAreOwn
    <3> QED BY <1>1, <3>2, <3>3
  <2> QED BY <1>1, <2>1, <2>2, <2>3 DEF OriginInv, BasePicked
<1>5. OnlyOwnCommits' /\ RunIsOneLine' BY <1>1 DEF OriginInv, OnlyOwnCommits, RunIsOneLine
<1>6. BasePicked' BY <1>1 DEF BasePicked
<1> QED BY <1>1, <1>3, <1>4, <1>5, <1>6 DEF OriginInv

LEMMA EndSyncOrigin ==
  ASSUME RepoInv, EndSync, spc' \in {"idle", "refused"}, UNCHANGED repoVars,
         OnlyOwnCommits', RunIsOneLine'
  PROVE  OriginInv'
<1>1. since' = 0 /\ joins' = joins /\ joins \in Nat
  BY DEF EndSync, repoVars, RepoInv, RepoTypeOK
<1>2. spc' # "log" /\ spc' # "reflog" /\ spc' # "write" OBVIOUS
<1> QED BY <1>1, <1>2 DEF OriginInv, BasePicked

LEMMA ValidateOrigin ==
  ASSUME RepoInv, SyncInv, LineageInv, OriginInv, Validate, UNCHANGED repoVars
  PROVE  OriginInv'
<1>1. /\ spc = "reflog" /\ UNCHANGED <<run, commands>>
      /\ UNCHANGED <<parent, history, tip, main, own, joins, reflog, unlogged>>
  BY DEF Validate, repoVars
<1>2. OnlyOwnCommits' /\ RunIsOneLine' BY <1>1 DEF OriginInv, OnlyOwnCommits, RunIsOneLine
<1>3. CASE spc' = "refused" /\ EndSync BY <1>2, <1>3, EndSyncOrigin
<1>4. CASE ~ Warned /\ spc' = "write" /\ how' = (IF unlogged = 0 THEN how ELSE "forced")
           /\ UNCHANGED <<base, since, records, due>>
  <2>1. ~ ChainBroken /\ reflog = {} BY <1>4 DEF Warned, ReflogWarns
  <2>2. records \in SUBSET Made BY DEF RepoInv, SyncInv
  <2>3. Unbroken(records) BY <2>1 DEF ChainBroken, Unbroken, After
  <2>4. OneLine(records) BY <2>2, <2>3, ChainIsLine
  <2>5. ASSUME how' = "vetted" PROVE records \subseteq own \cup {1} /\ Clean
    BY <1>1, <1>4, <2>1, <2>5 DEF OriginInv, Clean
  <2>6. ASSUME how' = "vetted", run.how = "vetted" PROVE OneLine(records \cup run.commits)
    <3>1. run.commits \subseteq own \cup {1} BY <2>6 DEF OriginInv, OnlyOwnCommits
    <3>2. records \cup run.commits \subseteq own \cup {1} BY <2>5, <2>6, <3>1
    <3>3. OneLine(own \cup {1}) BY <2>5, <2>6, OwnIsLine
    <3> QED BY <3>2, <3>3 DEF OneLine
  <2>7. OneLine(records)' /\ (OneLine(records \cup run.commits) => OneLine(records \cup run.commits)')
    BY <1>1, <1>4, <2>4 DEF OneLine
  <2> QED BY <1>1, <1>2, <1>4, <2>5, <2>6, <2>7 DEF OriginInv, BasePicked
<1>5. CASE Warned /\ spc' = "write" /\ how' = "forced" /\ UNCHANGED <<base, since, records, due>>
  BY <1>1, <1>2, <1>5 DEF OriginInv, BasePicked
<1> QED BY <1>3, <1>4, <1>5 DEF Validate

LEMMA WriteOrigin ==
  ASSUME RepoInv, OriginInv, Write, UNCHANGED repoVars
  PROVE  OriginInv'
<1>1. /\ spc = "write" /\ spc' = "idle" /\ EndSync /\ UNCHANGED <<parent, own>>
      /\ WriteInsert \/ WriteReplace \/ WriteUpsert
  BY DEF Write, repoVars
<1>2. CASE run' = [commits |-> records, due |-> due, how |-> how]
  <2>1. run'.commits = records /\ run'.how = how BY <1>2
  <2>2. OnlyOwnCommits' BY <1>1, <2>1 DEF OriginInv, OnlyOwnCommits
  <2>3. RunIsOneLine' BY <1>1, <2>1 DEF OriginInv, OneLine, RunIsOneLine
  <2> QED BY <1>1, <2>2, <2>3, EndSyncOrigin
<1>3. CASE run' = [commits |-> run.commits \cup records, due |-> run.due \cup due,
                   how |-> Upserted(run.how, how)]
  <2>1. run'.commits = records \cup run.commits /\ run'.how = Upserted(run.how, how) BY <1>3
  <2>2. /\ run'.how # "joined"
        /\ run'.how = "vetted" => run.how = "vetted" /\ how = "vetted"
    BY <2>1 DEF Upserted
  <2>3. OnlyOwnCommits' BY <1>1, <2>1, <2>2 DEF OriginInv, OnlyOwnCommits
  <2>4. RunIsOneLine' BY <1>1, <2>1, <2>2 DEF OriginInv, OneLine, RunIsOneLine
  <2> QED BY <1>1, <2>3, <2>4, EndSyncOrigin
<1> QED BY <1>1, <1>2, <1>3 DEF WriteInsert, WriteReplace, WriteUpsert

LEMMA EndWithoutWriteOrigin ==
  ASSUME RepoInv, OriginInv, EndWithoutWrite, UNCHANGED repoVars
  PROVE  OriginInv'
<1>1. EndSync /\ spc' = "idle" /\ UNCHANGED run /\ UNCHANGED <<parent, own>>
  BY DEF EndWithoutWrite, repoVars
<1>2. OnlyOwnCommits' /\ RunIsOneLine' BY <1>1 DEF OriginInv, OnlyOwnCommits, RunIsOneLine
<1> QED BY <1>1, <1>2, EndSyncOrigin

\* The branch moves on between two of the git commands.
LEMMA RepoNextOrigin ==
  ASSUME RepoInv, SyncInv, LineageInv, OriginInv, RepoNext, UNCHANGED syncVars
  PROVE  OriginInv'
<1>1. UNCHANGED <<spc, base, since, records, due, how, run>> BY DEF syncVars
<1>2. /\ Extends /\ (Clean' => Clean) /\ ever \subseteq Made
      /\ own \subseteq own' /\ joins <= joins' /\ (main = NoCommit => main' = NoCommit)
      /\ OnlyGrows
  BY RepoNextPreserves, RepoNextDescends DEF RepoInv, Descends
<1>3. /\ joins \in Nat /\ joins' \in Nat /\ since \in Nat /\ since <= joins /\ history[tip] \subseteq Made
      /\ records \subseteq Made /\ run.commits \subseteq Made
  BY <1>2, RepoNextPreserves DEF RepoInv, RepoTypeOK, SyncInv, SyncTypeOK, OriginInv, Closed
<1>4. \A c \in records \cup run.commits : parent'[c] = parent[c] BY <1>2, <1>3 DEF Extends
<1>5. BasePicked'
  <2>1. SUFFICES ASSUME spc = "log", Clean', joins' = since
                 PROVE  \/ base = NoCommit /\ main' = NoCommit
                        \/ /\ base \in history'[tip']
                           /\ \A x \in history'[tip'] \ own' : base \in history'[x] => x = base
    BY <1>1 DEF BasePicked
  <2>2. joins = since /\ joins' = joins /\ Clean BY <1>2, <1>3, <2>1
  <2>3. /\ history[tip] \subseteq history'[tip']
        /\ history'[tip'] \ own' \subseteq history[tip] \ own
    BY <1>2, <2>1, <2>2 DEF OnlyGrows
  <2>4. \A x \in history[tip] : history'[x] = history[x] BY <1>2, <1>3 DEF Extends
  <2> QED BY <1>2, <2>1, <2>2, <2>3, <2>4 DEF OriginInv, BasePicked
<1>6. ChainBroken' <=> ChainBroken BY <1>1, <1>4 DEF ChainBroken
<1>7. spc' = "reflog" /\ Clean' /\ how' = "vetted" /\ ~ ChainBroken' => records' \subseteq own' \cup {1}
  BY <1>1, <1>2, <1>6 DEF OriginInv
<1>8. spc' = "write" /\ how' = "vetted" => records' \subseteq own' \cup {1}
  BY <1>1, <1>2 DEF OriginInv
<1>9. /\ OneLine(records) => OneLine(records)'
      /\ OneLine(records \cup run.commits) => OneLine(records \cup run.commits)'
  BY <1>1, <1>4 DEF OneLine
<1>10. OnlyOwnCommits' BY <1>1, <1>2 DEF OriginInv, OnlyOwnCommits
<1>11. RunIsOneLine' BY <1>1, <1>4 DEF OriginInv, RunIsOneLine
<1>12. since' <= joins' BY <1>1, <1>2, <1>3
<1> QED BY <1>1, <1>5, <1>7, <1>8, <1>9, <1>10, <1>11, <1>12 DEF OriginInv

LEMMA LineageInvStays ==
  ASSUME LineageInv, UNCHANGED repoVars
  PROVE  LineageInv'
<1>1. UNCHANGED <<parent, history, top, main, own, ever, reflog, unlogged>> BY DEF repoVars
<1>2. Made' = Made /\ Foreign' = Foreign /\ (Clean' <=> Clean)
  BY <1>1 DEF Made, Foreign, Clean
<1> QED BY <1>1, <1>2 DEF LineageInv

LEMMA OriginInvStays ==
  ASSUME OriginInv, UNCHANGED repoVars, UNCHANGED syncVars
  PROVE  OriginInv'
<1>1. /\ UNCHANGED <<parent, history, tip, main, own, joins, reflog, unlogged>>
      /\ UNCHANGED <<spc, base, since, records, how, run>>
  BY DEF repoVars, syncVars
<1>2. (Clean' <=> Clean) /\ (ChainBroken' <=> ChainBroken) BY <1>1 DEF Clean, ChainBroken
<1>3. BasePicked' BY <1>1, <1>2 DEF OriginInv, BasePicked
<1>4. /\ OneLine(records) => OneLine(records)'
      /\ OneLine(records \cup run.commits) => OneLine(records \cup run.commits)'
  BY <1>1 DEF OneLine
<1>5. OnlyOwnCommits' /\ RunIsOneLine' BY <1>1 DEF OriginInv, OnlyOwnCommits, RunIsOneLine
<1> QED BY <1>1, <1>2, <1>3, <1>4, <1>5 DEF OriginInv

LEMMA OriginInitial ==
  ASSUME Init
  PROVE  LineageInv /\ OriginInv
<1>1. 1 \in Commits /\ MaxCommits \in Nat BY CommitsAssumption DEF Commits
<1>2. /\ Made = {1} /\ own = {} /\ ever = {1} /\ main \in {NoCommit, 1}
      /\ history[NoCommit] = {} /\ history[1] = {1} /\ parent[1] = NoCommit
  BY <1>1 DEF Init, RepoInit, Made, Ref, NoCommit, Commits
<1>3. Foreign = {1} BY <1>2 DEF Foreign
<1>4. LineageInv BY <1>2, <1>3 DEF LineageInv, NoCommit
<1>5. OriginInv
  BY DEF Init, RepoInit, SyncInit, OriginInv, BasePicked, NoRun, OnlyOwnCommits, RunIsOneLine
<1> QED BY <1>4, <1>5

LEMMA OriginPreserved ==
  ASSUME GitInv, LineageInv, OriginInv, [Next]_vars
  PROVE  LineageInv' /\ OriginInv'
<1>1. RepoInv /\ SyncInv BY DEF GitInv
<1>2. CASE RepoNext /\ UNCHANGED syncVars
  BY <1>1, <1>2, RepoNextDescends, RepoNextOrigin DEF Descends
<1>3. CASE SyncNext /\ UNCHANGED repoVars
  <2>1. OriginInv'
    BY <1>1, <1>3, MergeBaseOrigin, GitLogOrigin, ValidateOrigin, WriteOrigin,
       EndWithoutWriteOrigin DEF SyncNext
  <2> QED BY <1>3, <2>1, LineageInvStays
<1>4. CASE UNCHANGED repoVars /\ UNCHANGED syncVars
  BY <1>4, LineageInvStays, OriginInvStays
<1>5. \/ RepoNext /\ UNCHANGED syncVars
      \/ SyncNext /\ UNCHANGED repoVars
      \/ UNCHANGED repoVars /\ UNCHANGED syncVars
  BY DEF Next, vars
<1> QED BY <1>2, <1>3, <1>4, <1>5

\* The invariant of where the commits of a run come from.
THEOREM OriginInvariant == Spec => [](GitInv /\ LineageInv /\ OriginInv)
<1>1. Init => GitInv /\ LineageInv /\ OriginInv BY GitInitial, OriginInitial
<1>2. GitInv /\ LineageInv /\ OriginInv /\ [Next]_vars => (GitInv /\ LineageInv /\ OriginInv)'
  BY GitPreserved, OriginPreserved
<1> QED BY <1>1, <1>2, PTL DEF Spec

\* A vetted run has no commit that main brought into the log.
THEOREM VettedRunsAreOwn == Spec => []OnlyOwnCommits
<1>1. OriginInv => OnlyOwnCommits BY DEF OriginInv
<1> QED BY <1>1, OriginInvariant, PTL

\* The iterations of a run that has passed the checks do not fork, whatever
\* the agent and main do between the git commands.
THEOREM CheckedRunsDoNotFork == Spec => []RunIsOneLine
<1>1. OriginInv => RunIsOneLine BY DEF OriginInv
<1> QED BY <1>1, OriginInvariant, PTL
=============================================================================
