---------------------------- MODULE MCGitHistory ----------------------------
(***************************************************************************)
(* The repository, sync-git, archive-git and restore-git on small bounds.  *)
(***************************************************************************)
EXTENDS GitArchive
=============================================================================
