--------------------------- MODULE PatchPipeline ---------------------------
(***************************************************************************)
(* kernelhub patch (internal/commands/patch.go): kernel-adapter writes     *)
(* patches into the output directory, git apply --check tries each on the  *)
(* repository as it is, and if all pass they are applied one after the     *)
(* other.  The output directory keeps the patches of earlier commands.     *)
(* Others edit the repository at any time.                                 *)
(*                                                                         *)
(* A patch changes one stretch of a file from one content to another, and  *)
(* git applies it only where it finds the first.  kernel-adapter is not in *)
(* the repository: what it does to the branches of the target, and whether *)
(* it finds the files there, is left open.                                 *)
(***************************************************************************)
EXTENDS Integers, FiniteSets

CONSTANTS Stretch,    \* stretches of files
          Content,    \* what a stretch may hold
          PatchName   \* the directories of the patches

VARIABLES qpc,       \* where the command is
          mode,      \* --verify, --apply or neither
          tree,      \* the repository as it is checked out
          patches,   \* the output directory
          todo,      \* the patches the present loop has not reached
          passed,    \* summary.Verified > 0, summary.Failed > 0
          changed    \* stretches changed since the patches were made

patchVars == <<qpc, mode, tree, patches, todo, passed, changed>>

PatchFile == [name : PatchName, at : Stretch, old : Content, new : Content]
Modes == {"generate", "verify", "apply"}

PatchTypeOK ==
  /\ qpc \in {"idle", "generate", "verify", "apply", "done"}
  /\ mode \in Modes
  /\ tree \in [Stretch -> Content]
  /\ patches \in SUBSET PatchFile
  /\ \A p, q \in patches : p.name = q.name => p = q
  /\ todo \in SUBSET PatchName
  /\ passed \in SUBSET {"passed", "failed"}
  /\ changed \in SUBSET Stretch

PatchInit ==
  /\ qpc = "idle"
  /\ mode = "verify"
  /\ tree \in [Stretch -> Content]
  /\ patches = {}
  /\ todo = {}
  /\ passed = {}
  /\ changed = {}

StartPatch ==
  /\ qpc \in {"idle", "done"}
  /\ qpc' = "generate"
  /\ mode' \in Modes
  /\ UNCHANGED <<tree, patches, todo, passed, changed>>

\* Mutant: patches of the same name stay beside the new ones.
GenerateBeside ==
  /\ qpc = "generate"
  /\ \E n \in PatchName, p \in [at : Stretch, new : Content] :
       /\ p.new # tree[p.at]
       /\ patches' = patches \cup {[name |-> n, at |-> p.at, old |-> tree[p.at], new |-> p.new]}
  /\ qpc' = IF mode = "generate" THEN "idle" ELSE "verify"
  /\ todo' = {p.name : p \in patches'}
  /\ passed' = {}
  /\ changed' = {}
  /\ UNCHANGED <<mode, tree>>

\* kernel-adapter batch-patch: it makes patches for the repository as it is,
\* over those of the same name.
Generate ==
  /\ qpc = "generate"
  /\ \E names \in SUBSET PatchName :
       \E made \in [names -> {p \in [at : Stretch, new : Content] : p.new # tree[p.at]}] :
         patches' = {p \in patches : p.name \notin names}
                    \cup {[name |-> n, at |-> made[n].at, old |-> tree[made[n].at],
                           new |-> made[n].new] : n \in names}
  /\ qpc' = IF mode = "generate" THEN "idle" ELSE "verify"
  /\ todo' = {p.name : p \in patches'}
  /\ passed' = {}
  /\ changed' = {}
  /\ UNCHANGED <<mode, tree>>

Applies(p) == tree[p.at] = p.old

\* Mutant: the first patch decides.
VerifyNextOnly ==
  /\ qpc = "verify"
  /\ \E p \in patches :
       /\ p.name \in todo
       /\ todo' = {}
       /\ passed' = passed \cup {IF Applies(p) THEN "passed" ELSE "failed"}
  /\ UNCHANGED <<qpc, mode, tree, patches, changed>>

\* git apply --check, with --directory if mmqRoot is below the top.
VerifyNext ==
  /\ qpc = "verify"
  /\ \E p \in patches :
       /\ p.name \in todo
       /\ todo' = todo \ {p.name}
       /\ passed' = passed \cup {IF Applies(p) THEN "passed" ELSE "failed"}
  /\ UNCHANGED <<qpc, mode, tree, patches, changed>>

\* Only a full pass goes on to the apply loop, which reads the directory again;
\* a failure ends the command, and so does an empty directory.
Verified ==
  /\ qpc = "verify"
  /\ todo = {}
  /\ \/ /\ mode = "apply" /\ passed = {"passed"}
        /\ qpc' = "apply"
        /\ todo' = {p.name : p \in patches}
     \/ /\ ~(mode = "apply" /\ passed = {"passed"})
        /\ qpc' = "idle"
        /\ UNCHANGED todo
  /\ UNCHANGED <<mode, tree, patches, passed, changed>>

\* kernel-adapter patch-apply; or git apply without --directory, if kernel-adapter
\* is not on the path, but then Generate has failed.  The patch may be refused
\* although it applies, which is printed, or end on a branch that is not checked
\* out, or in what is checked out; another checkout on the way is an Edit.  The
\* loop goes on.
ApplyNext ==
  /\ qpc = "apply"
  /\ \E p \in patches :
       /\ p.name \in todo
       /\ todo' = todo \ {p.name}
       /\ \/ UNCHANGED <<tree, changed>>
          \/ /\ Applies(p)
             /\ tree' = [tree EXCEPT ![p.at] = p.new]
             /\ changed' = changed \cup {p.at}
  /\ UNCHANGED <<qpc, mode, patches, passed>>

\* "Done": Patch returns nil, whatever the loop has printed.
Applied ==
  /\ qpc = "apply"
  /\ todo = {}
  /\ qpc' = "done"
  /\ UNCHANGED <<mode, tree, patches, todo, passed, changed>>

PatchStops ==
  /\ qpc \notin {"idle", "done"}
  /\ qpc' = "idle"
  /\ todo' = {}
  /\ UNCHANGED <<mode, tree, patches, passed, changed>>

\* Others change the repository: an edit, a checkout, a pull.
Edit ==
  /\ \E f \in [Stretch -> Content] :
       /\ f # tree
       /\ tree' = f
       /\ changed' = changed \cup {s \in Stretch : f[s] # tree[s]}
  /\ UNCHANGED <<qpc, mode, patches, todo, passed>>

PatchStep == Generate \/ VerifyNext \/ Verified \/ ApplyNext \/ Applied \/ PatchStops
=============================================================================
