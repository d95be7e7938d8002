------------------------------ MODULE Prepare ------------------------------
(***************************************************************************)
(* kernelhub prepare (internal/commands/prepare.go), one process per       *)
(* worktree, as the prompts run it for several kernels at once.  They      *)
(* share the manifest in the project directory, and the database from      *)
(* which each takes the history of its kernel.  A command may fail or die  *)
(* at any step; what the steps before it have written stays.               *)
(*                                                                         *)
(* Files are what they were made from.  The benchmark and context files    *)
(* are copied like the reference and not looked at again, and the guard    *)
(* hook is read by git alone; they and dry runs, which only read, are left *)
(* out.                                                                    *)
(***************************************************************************)
EXTENDS ShapeLookup

CONSTANTS Root,       \* AKO4ALL directories
          Kernel,     \* names derived from --reference-src (deriveKernelName)
          Workload,   \* the shapes of the workload configuration: key -> entry
          Job,        \* the options of a command
          StoredRun   \* runs that may be stored: id, and the kernels and the
                      \* backends that its iterations name

ASSUME JobAssumption ==
  /\ Job # {}
  /\ Job \subseteq [kernel : Kernel, source : {"valid", "invalid", "none"},
                   workload : {"given", "none"}, db : {"given", "none"}]

\* strings.Split gives at least one part.
ASSUME NameAssumption ==
  /\ Kernel \subseteq Seq(STRING) \ {NoKey}
  /\ \A x \in StoredRun : x.kernels \subseteq Seq(STRING) \ {NoKey}

\* A bound that is absent is 0.
ASSUME WorkloadAssumption ==
  \A key \in DOMAIN Workload : \A d \in DOMAIN Workload[key].range :
    Workload[key].range[d].min \in Nat /\ Workload[key].range[d].max \in Nat

VARIABLES ppc,        \* where the command of each root is
          job,        \* its options
          turn,       \* how many prepares the root has seen
          wanted,     \* the runs of the kernel stored when the command began
          kernelFile, \* input/kernel.py
          reference,  \* input/reference.py
          summary,    \* context/history_summary.md
          manifest,   \* workspace/latest_prepare_manifest.json
          stored      \* runs in the database

prepareVars == <<ppc, job, turn, wanted, kernelFile, reference, summary, manifest, stored>>

NoReference == [state |-> "none", kernel |-> NoKey, key |-> NoKey, configs |-> {}]
PartOfFile == [NoReference EXCEPT !.state = "partial"]
NoSummary == [kernel |-> NoKey, runs |-> {}]
NoManifest == [state |-> "none"]

Key(j) == IF j.workload = "given" /\ j.source # "none"
          THEN LookupKey(DOMAIN Workload, j.kernel) ELSE NoKey
Configs(key) == IF key = NoKey THEN {} ELSE ExpandShapeConfigs(Workload[key])

PrepareTypeOK ==
  /\ ppc \in [Root -> {"idle", "kernel", "reference", "override", "truncate", "manifest",
                       "context", "done"}]
  /\ \A r \in Root : job[r] \in Job
  /\ turn \in [Root -> Nat]
  /\ wanted \in [Root -> SUBSET StoredRun]
  /\ kernelFile \in [Root -> Kernel \cup {NoKey}]
  /\ \A r \in Root :
       /\ reference[r].state \in {"none", "partial", "copied", "shaped"}
       /\ reference[r].kernel \in Kernel \cup {NoKey}
       /\ reference[r].configs = Configs(reference[r].key)
  /\ \A r \in Root : summary[r].kernel \in Kernel \cup {NoKey} /\ summary[r].runs \subseteq StoredRun
  /\ manifest.state \in {"none", "empty", "torn", "whole"}
  /\ stored \in SUBSET StoredRun

PrepareInit ==
  /\ ppc = [r \in Root |-> "idle"]
  /\ job = [r \in Root |-> CHOOSE j \in Job : TRUE]
  /\ turn = [r \in Root |-> 0]
  /\ wanted = [r \in Root |-> {}]
  /\ kernelFile = [r \in Root |-> NoKey]
  /\ reference = [r \in Root |-> NoReference]
  /\ summary = [r \in Root |-> NoSummary]
  /\ manifest = NoManifest
  /\ stored = {}

(***************************************************************************)
(* The runs of the same kernel, as a reader would define them: the names   *)
(* have a core in common, with a tool before and a direction behind it     *)
(* that the core itself does not have.                                     *)
(***************************************************************************)
Before == {<<>>} \cup {<<t>> : t \in Tools}
Behind == {<<>>} \cup {<<Directions[i]>> : i \in 1..Len(Directions)}
SameKernel(a, b) ==
  \E i, j \in 1..Len(a) :
    /\ i <= j
    /\ a[i] \notin Tools /\ a[j] \notin {Directions[n] : n \in 1..Len(Directions)}
    /\ \E s, t \in Before, d, e \in Behind :
         /\ a = s \o SubSeq(a, i, j) \o d
         /\ b = t \o SubSeq(a, i, j) \o e

PriorRuns(j) ==
  {x \in stored : \E name \in x.kernels : SameKernel(name, j.kernel)}

\* Prepare hands the category of the shape entry to findRelatedRuns as the
\* backend; the empty string does not filter.
Backend(j) == IF Key(j) = NoKey THEN "" ELSE Workload[Key(j)].category

\* Mutant: names are compared as they are.
FindRelatedRunsExact(j) ==
  {x \in stored : j.kernel \in x.kernels /\ Backend(j) \in {""} \cup x.backends}

\* findRelatedRuns: any iteration may name the kernel, and any the backend.
FindRelatedRuns(j) ==
  {x \in stored : /\ \E name \in x.kernels : Normalize(name) = Normalize(j.kernel)
                  /\ Backend(j) \in {""} \cup x.backends}

(***************************************************************************)
(* The steps of Prepare.                                                   *)
(***************************************************************************)
\* The options, the checks of TASK.md and of the sources, the directories.
Begin(r) ==
  /\ ppc[r] \in {"idle", "done"}
  /\ \E j \in Job :
       /\ j.db = "given" => j.source # "none"
       /\ job' = [job EXCEPT ![r] = j]
       /\ wanted' = [wanted EXCEPT ![r] = IF j.db = "given" THEN PriorRuns(j) ELSE {}]
  /\ turn' = [turn EXCEPT ![r] = @ + 1]
  /\ ppc' = [ppc EXCEPT ![r] = "kernel"]
  /\ UNCHANGED <<kernelFile, reference, summary, manifest, stored>>

\* copyFile creates the target empty before it copies: a copy that fails or is
\* cut off leaves part of the file.
CopyKernel(r) ==
  /\ ppc[r] = "kernel"
  /\ \/ /\ kernelFile' = [kernelFile EXCEPT ![r] = job[r].kernel]
        /\ ppc' = [ppc EXCEPT ![r] = "reference"]
     \/ /\ kernelFile' = [kernelFile EXCEPT ![r] = NoKey]
        /\ ppc' = [ppc EXCEPT ![r] = "idle"]
  /\ UNCHANGED <<job, turn, wanted, reference, summary, manifest, stored>>

CopyReference(r) ==
  /\ ppc[r] = "reference"
  /\ \/ /\ job[r].source = "none"
        /\ ppc' = [ppc EXCEPT ![r] = "override"]
        /\ UNCHANGED reference
     \/ /\ job[r].source # "none"
        /\ \/ /\ reference' = [reference EXCEPT
                   ![r] = [NoReference EXCEPT !.state = "copied", !.kernel = job[r].kernel]]
              /\ ppc' = [ppc EXCEPT ![r] = "override"]
           \/ /\ reference' = [reference EXCEPT ![r] = PartOfFile]
              /\ ppc' = [ppc EXCEPT ![r] = "idle"]
  /\ UNCHANGED <<job, turn, wanted, kernelFile, summary, manifest, stored>>

\* Mutant: shapes that cannot be applied are a warning.
ApplyOverridesWarns(r) ==
  /\ ppc[r] = "override"
  /\ \/ /\ Key(job[r]) = NoKey \/ job[r].source = "invalid"
        /\ UNCHANGED reference
     \/ /\ Key(job[r]) # NoKey /\ job[r].source = "valid"
        /\ reference' = [reference EXCEPT ![r] =
             [state |-> "shaped", kernel |-> job[r].kernel, key |-> Key(job[r]),
              configs |-> Configs(Key(job[r]))]]
  /\ ppc' = [ppc EXCEPT ![r] = "truncate"]
  /\ UNCHANGED <<job, turn, wanted, kernelFile, summary, manifest, stored>>

\* loadWorkloadConfig, lookupShapeEntry and applyMultiShapeOverrides, which
\* validates the reference, checks its syntax afterwards and writes it back.
\* No workload configuration, or no shapes for the kernel: nothing to apply.
ApplyOverrides(r) ==
  /\ ppc[r] = "override"
  /\ \/ /\ Key(job[r]) = NoKey
        /\ ppc' = [ppc EXCEPT ![r] = "truncate"]
        /\ UNCHANGED reference
     \/ /\ Key(job[r]) # NoKey /\ job[r].source = "valid"
        /\ reference' = [reference EXCEPT ![r] =
             [state |-> "shaped", kernel |-> job[r].kernel, key |-> Key(job[r]),
              configs |-> Configs(Key(job[r]))]]
        /\ ppc' = [ppc EXCEPT ![r] = "truncate"]
     \/ /\ Key(job[r]) # NoKey /\ job[r].source = "valid"
        /\ reference' = [reference EXCEPT ![r] = PartOfFile]
        /\ ppc' = [ppc EXCEPT ![r] = "idle"]
     \/ /\ job[r].workload = "given"
        /\ ppc' = [ppc EXCEPT ![r] = "idle"]
        /\ UNCHANGED reference
  /\ UNCHANGED <<job, turn, wanted, kernelFile, summary, manifest, stored>>

\* os.WriteFile of the manifest: the file is emptied, then written, while
\* another prepare may be between the same two steps.
TruncateManifest(r) ==
  /\ ppc[r] = "truncate"
  /\ manifest' = [state |-> "empty"]
  /\ ppc' = [ppc EXCEPT ![r] = "manifest"]
  /\ UNCHANGED <<job, turn, wanted, kernelFile, reference, summary, stored>>

Described(r) ==
  [state |-> "whole", root |-> r, turn |-> turn[r], kernel |-> job[r].kernel,
   source |-> job[r].source, key |-> Key(job[r])]

WriteManifest(r) ==
  /\ ppc[r] = "manifest"
  /\ \/ manifest' = Described(r)
     \/ manifest.state \in {"whole", "torn"} /\ manifest' = [state |-> "torn"]
  /\ ppc' = [ppc EXCEPT ![r] = IF job[r].db = "given" THEN "context" ELSE "idle"]
  /\ UNCHANGED <<job, turn, wanted, kernelFile, reference, summary, stored>>

\* GenerateContextForPrepare.  Without related runs the summary of an earlier
\* prepare stays; a failure is a warning.
InjectContext(r) ==
  /\ ppc[r] = "context"
  /\ \/ /\ summary' = IF FindRelatedRuns(job[r]) = {} THEN summary
             ELSE [summary EXCEPT ![r] =
                    [kernel |-> job[r].kernel, runs |-> FindRelatedRuns(job[r])]]
        /\ ppc' = [ppc EXCEPT ![r] = "done"]
     \/ /\ UNCHANGED summary
        /\ ppc' = [ppc EXCEPT ![r] = "idle"]
  /\ UNCHANGED <<job, turn, wanted, kernelFile, reference, manifest, stored>>

\* The process is killed, or a step that changes nothing here fails.
Stop(r) ==
  /\ ppc[r] \notin {"idle", "done"}
  /\ ppc' = [ppc EXCEPT ![r] = "idle"]
  /\ UNCHANGED <<job, turn, wanted, kernelFile, reference, summary, manifest, stored>>

\* sync-git or the ingest API stores another run.
Store ==
  /\ \E x \in StoredRun \ stored : stored' = stored \cup {x}
  /\ UNCHANGED <<ppc, job, turn, wanted, kernelFile, reference, summary, manifest>>

PrepareStep(r) ==
  \/ CopyKernel(r) \/ CopyReference(r) \/ ApplyOverrides(r) \/ TruncateManifest(r)
  \/ WriteManifest(r) \/ InjectContext(r) \/ Stop(r)
=============================================================================
