----------------------------- MODULE Workspace -----------------------------
(***************************************************************************)
(* The two commands around the optimisation loop that write files for      *)
(* others: prepare, run for several kernels at once before the loop, and   *)
(* patch, which brings its results into the target repository.  They share *)
(* no file, so a behaviour has commands of one of the two kinds.           *)
(***************************************************************************)
EXTENDS Prepare, PatchPipeline

CONSTANT MaxCommands   \* bound: commands begun, and edits of the target repository

VARIABLES kind,        \* the commands of this behaviour: "prepare" or "patch"
          commands     \* how many have been

vars == <<prepareVars, patchVars, kind, commands>>

Init == PrepareInit /\ PatchInit /\ kind \in {"prepare", "patch"} /\ commands = 0

Prepares ==
  /\ kind = "prepare"
  /\ \/ /\ commands < MaxCommands /\ commands' = commands + 1
        /\ \E r \in Root : Begin(r)
     \/ /\ UNCHANGED commands
        /\ (\E r \in Root : PrepareStep(r)) \/ Store
  /\ UNCHANGED <<patchVars, kind>>

Patches ==
  /\ kind = "patch"
  /\ \/ /\ commands < MaxCommands /\ commands' = commands + 1
        /\ StartPatch \/ Edit
     \/ /\ UNCHANGED commands
        /\ PatchStep
  /\ UNCHANGED <<prepareVars, kind>>

Next == Prepares \/ Patches

Spec == Init /\ [][Next]_vars

-----------------------------------------------------------------------------
\* Everything has its type; in particular the shapes in a reference file are
\* those of one key of the workload configuration.
TypeOK == PrepareTypeOK /\ PatchTypeOK

\* The configurations of an entry: its sizes, and for each dimension with
\* bounds, those sizes with that dimension alone moved to each bound.
CoversRange(entry, configs) ==
  LET shapes == {c.dims : c \in configs} IN
  /\ entry.dims \in shapes
  /\ \A d \in DOMAIN entry.range :
       \A bound \in {entry.range[d].min, entry.range[d].max} \ {0} :
         \E s \in shapes : /\ d \in DOMAIN s /\ s[d] = bound
                          /\ \A e \in DOMAIN entry.dims \ {d} : s[e] = entry.dims[e]

\* The manifest is written last and shared: when it is whole, and the root it
\* names has begun no later prepare, then that root holds the kernel and the
\* reference it describes, with every shape of the workload applied, whatever
\* prepares of other roots failed, died or ran at the same time.  A later prepare
\* of the same root that fails after its copies leaves a manifest that is not
\* true any more.
ManifestIsTrue ==
  manifest.state = "whole" /\ manifest.turn = turn[manifest.root] =>
    LET r == manifest.root IN
    /\ kernelFile[r] = manifest.kernel
    /\ manifest.source # "none" => reference[r].kernel = manifest.kernel
    /\ manifest.key # NoKey =>
         /\ reference[r].state = "shaped" /\ reference[r].key = manifest.key
         /\ CoversRange(Workload[manifest.key], reference[r].configs)

\* When a prepare for which the workload gives no category has injected the
\* history, its summary has every run of its kernel that was stored when it
\* began, under any of the kernel's names, whatever is stored meanwhile, and is
\* not that of an earlier prepare.  If there were none, an earlier one stays.
SummaryHasPriorRuns ==
  \A r \in Root : ppc[r] = "done" /\ Backend(job[r]) = "" =>
    /\ wanted[r] \subseteq summary[r].runs
    /\ wanted[r] # {} => summary[r].kernel = job[r].kernel

\* "When `--db-path` is provided, `prepare` automatically queries history for
\* prior runs of the same kernel" (program.md:77-78), whatever the category of
\* its workload entry.
HistoryIsInjected ==
  \A r \in Root : ppc[r] = "done" => wanted[r] \subseteq summary[r].runs

\* --apply goes by the checks of the whole directory: in the apply loop a patch
\* not reached yet, one that an earlier command left there too, still applies,
\* unless its stretch has changed since the patches were made, by the work of
\* others during the checks or the loop, or by a patch applied before it.
ApplyIsChecked ==
  qpc = "apply" =>
    \A p \in patches : p.name \in todo /\ p.at \notin changed => Applies(p)
=============================================================================
