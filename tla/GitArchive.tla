----------------------------- MODULE GitArchive -----------------------------
(***************************************************************************)
(* kernelhub archive-git and restore-git (internal/commands/archive_git.go *)
(* and restore_git.go) beside the agent and sync-git.  An archive is the   *)
(* answer of git rev-parse and the bundle of a later git bundle create; a  *)
(* restore fetches the bundle into another repository and checks the head  *)
(* out there.                                                              *)
(*                                                                         *)
(* The bundle's encoding and checksum give back what was put in, and are   *)
(* left out.  All archives here have one run_id, so a restore writes the   *)
(* one branch restored/<run_id>.                                           *)
(***************************************************************************)
EXTENDS SyncGit

CONSTANT MaxEvents   \* bound on merges, moves, suspicious lines and commands together

VARIABLES apc,       \* where archive-git is
          headSeen,  \* headCommit
          bundle,    \* the archive to store
          archives,  \* the table archives
          gpc,       \* where restore-git is
          sel,       \* the archive it restores
          objects,   \* the commits in the restored repository
          restored,  \* its branch restored/<run_id>
          headAt,    \* the commit its HEAD is at
          headOn     \* what its HEAD is

archiveVars == <<apc, headSeen, bundle, archives>>
restoreVars == <<gpc, sel, objects, restored, headAt, headOn>>
vars == <<repoVars, syncVars, archiveVars, restoreVars, commands>>

\* The ref in the bundle is a branch of its own name, or (a tag, a remote
\* branch) one that normalizeRef does not find.  state and run are what a
\* property needs to know of the moment: whether the reflog was clean, and the
\* run that was stored.
Archive == [head : Commits, tip : Commits, ref : {"branch", "other"},
            state : {"clean", "rewritten"}, run : RunRecord]
NoArchive == [head |-> 1, tip |-> 1, ref |-> "branch", state |-> "clean", run |-> NoRun]

ArchiveTypeOK ==
  /\ apc \in {"idle", "bundle", "append"}
  /\ headSeen \in Ref
  /\ bundle \in Archive
  /\ archives \in SUBSET Archive
  /\ gpc \in {"idle", "fetch", "checkout", "done", "failed"}
  /\ sel \in Archive
  /\ objects \in SUBSET Commits
  /\ restored \in Ref
  /\ headAt \in Ref
  /\ headOn \in {"unborn", "detached", "branch"}

ArchiveInit ==
  /\ apc = "idle"
  /\ headSeen = NoCommit
  /\ bundle = NoArchive
  /\ archives = {}
  /\ gpc = "idle"
  /\ sel = NoArchive
  /\ objects = {}
  /\ restored = NoCommit
  /\ headAt = NoCommit
  /\ headOn = "unborn"

(***************************************************************************)
(* ArchiveGit.                                                             *)
(***************************************************************************)
RevParse ==
  /\ apc = "idle"
  /\ apc' = "bundle"
  /\ headSeen' = tip
  /\ commands' = commands + 1
  /\ UNCHANGED <<bundle, archives>>

\* Mutant: the bundle is created of the hash that rev-parse gave.
CreateBundleOfHead ==
  /\ apc = "bundle"
  /\ apc' = "append"
  /\ bundle' \in [head : {headSeen}, tip : {headSeen}, ref : {"branch", "other"},
        state : {IF reflog = {} /\ unlogged = 0 THEN "clean" ELSE "rewritten"}, run : {run}]
  /\ UNCHANGED <<headSeen, archives, commands>>

CreateBundle ==
  /\ apc = "bundle"
  /\ apc' = "append"
  /\ bundle' \in [head : {headSeen}, tip : {tip}, ref : {"branch", "other"},
        state : {IF reflog = {} /\ unlogged = 0 THEN "clean" ELSE "rewritten"}, run : {run}]
  /\ UNCHANGED <<headSeen, archives, commands>>

EndArchive ==
  /\ apc' = "idle"
  /\ headSeen' = NoCommit
  /\ bundle' = NoArchive

AppendArchive ==
  /\ apc = "append"
  /\ archives' = archives \cup {bundle}
  /\ EndArchive
  /\ UNCHANGED commands

\* A failing command, --dry-run, a second archive of one head in one second
\* (the id is already there).
EndWithoutArchive ==
  /\ apc # "idle"
  /\ EndArchive
  /\ UNCHANGED <<archives, commands>>

(***************************************************************************)
(* RestoreGit.                                                             *)
(***************************************************************************)
\* selectArchive, by its id or as the last one; ensureGitRepo.
SelectArchive ==
  /\ gpc = "idle"
  /\ sel' \in archives
  /\ gpc' = "fetch"
  /\ commands' = commands + 1
  /\ UNCHANGED <<objects, restored, headAt, headOn>>

\* Mutant: no second fetch by the head's hash.
FetchBranchOnly(c) == sel.ref = "branch" /\ c = sel.tip

\* The commit the refspec names: the branch in the bundle, else the head, which
\* git accepts if the bundle or the repository has it.
FetchBranch(c) ==
  \/ sel.ref = "branch" /\ c = sel.tip
  \/ sel.ref = "other" /\ c = sel.head /\ c \in history[sel.tip] \cup objects

\* git fetch --force of the bundle; it refuses to write the branch that is
\* checked out.
Fetch ==
  /\ gpc = "fetch"
  /\ IF headOn # "branch" /\ \E c \in Made : FetchBranch(c)
     THEN /\ gpc' = "checkout"
          /\ \E c \in Made : FetchBranch(c) /\ restored' = c
     ELSE /\ gpc' = "failed"
          /\ UNCHANGED restored
  /\ objects' = IF headOn = "branch" THEN objects ELSE objects \cup history[sel.tip]
  /\ UNCHANGED <<sel, headAt, headOn, commands>>

EndRestore ==
  /\ gpc' = "idle"
  /\ sel' = NoArchive

\* git checkout --force, of the head or of what --checkout says (here the
\* restored branch).  If the repository lacks the head the restore fails, with
\* the branch already moved.
Checkout ==
  /\ gpc = "checkout"
  /\ \/ /\ sel.head \in objects
        /\ headAt' = sel.head
        /\ headOn' = "detached"
        /\ gpc' = "done"
        /\ UNCHANGED sel
     \/ /\ sel.head \notin objects
        /\ gpc' = "failed"
        /\ UNCHANGED <<sel, headAt, headOn>>
     \/ /\ headAt' = restored
        /\ headOn' = "branch"
        /\ EndRestore
  /\ UNCHANGED <<objects, restored, commands>>

RestoreEnds ==
  /\ gpc # "idle"
  /\ EndRestore
  /\ UNCHANGED <<objects, restored, headAt, headOn, commands>>

ArchiveStep == RevParse \/ CreateBundle \/ AppendArchive \/ EndWithoutArchive
RestoreStep == SelectArchive \/ Fetch \/ Checkout \/ RestoreEnds

(***************************************************************************)
(* The agent, sync-git, archive-git and restore-git, each one process.     *)
(***************************************************************************)
Init == RepoInit /\ SyncInit /\ ArchiveInit

Next ==
  /\ \/ RepoNext /\ UNCHANGED <<syncVars, archiveVars, restoreVars, commands>>
     \/ SyncNext /\ UNCHANGED <<repoVars, archiveVars, restoreVars>>
     \/ ArchiveStep /\ UNCHANGED <<repoVars, syncVars, restoreVars>>
     \/ RestoreStep /\ UNCHANGED <<repoVars, syncVars, archiveVars>>
  /\ joins' + unlogged' + lines' + commands' <= MaxEvents

Spec == Init /\ [][Next]_vars
(***************************************************************************)
(* Properties.                                                             *)
(***************************************************************************)
TypeOK == RepoTypeOK /\ SyncTypeOK /\ ArchiveTypeOK

\* A run that has passed the checks has every commit its branch has ever had
\* since the fork (sync_git.go:63-107), whatever the agent does between the git
\* commands: nothing was dropped by a reset, a rebase or an amend, and later
\* merges of the run (--upsert) lose nothing either.
SyncedRunIsComplete == run.how # "forced" => run.due \subseteq run.commits

\* The iterations of such a run never fork: across all its syncs no two of
\* them were made on the same commit (validateHistoryIntegrity).  An upsert may
\* bring a fork only if main and the branch were merged both ways while one of
\* its syncs ran.
RunIsOneLine ==
  run.how \in {"vetted", "joined"} =>
    \A c, d \in run.commits : parent[c] = parent[d] /\ parent[c] # NoCommit => c = d

\* Without a merge between merge-base and log, which hands main's commits to
\* the log (sync_git.go:147-166), a vetted run has only commits that were made
\* on the branch.
OnlyOwnCommits == run.how = "vetted" => run.commits \subseteq own \cup {1}

\* An agent that only commits, with subjects that no expression of
\* validateReflog matches, is never refused, whatever happens on main.
LinearWorkIsAccepted ==
  reflog = {} /\ joins = 0 /\ unlogged = 0 => spc # "refused"

\* An archive is two answers of git about a branch that may move in between.
\* Of a branch that was not rewritten it can be restored: the fetch finds a ref
\* and the bundle holds the head.  Only a checked-out restored branch is in the
\* way (restore_git.go:82-105).
ArchiveIsRestorable ==
  gpc = "failed" /\ sel.state = "clean" => headOn = "branch"

\* What is restored has the whole run that was synced before the archive was
\* made, and HEAD is in the restored branch.
RestoreHasRun ==
  gpc = "done" /\ sel.state = "clean" =>
    /\ headAt \in history[restored]
    /\ sel.run.how # "forced" => sel.run.commits \subseteq objects
=============================================================================
