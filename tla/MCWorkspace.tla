---------------------------- MODULE MCWorkspace ----------------------------
(***************************************************************************)
(* Two roots, a kernel in two variants and one that is not in the workload *)
(* configuration, an entry with one dimension in bounds and one in half a  *)
(* range, earlier runs under other names of the kernels, one of them from  *)
(* the ingest API, which stores no backend, two patches.                   *)
(***************************************************************************)
EXTENDS Workspace, TLC

MCSymmetry == Permutations(Root) \cup Permutations(PatchName) \cup Permutations(Content)
MCKernel == {<<"cuda", "rms", "v2">>, <<"gemm">>}
MCJob ==
  {[kernel |-> <<"cuda", "rms", "v2">>, source |-> "valid", workload |-> w, db |-> "given"] :
     w \in {"given", "none"}}
  \cup {[kernel |-> <<"cuda", "rms", "v2">>, source |-> "invalid", workload |-> "given", db |-> "none"],
        [kernel |-> <<"gemm">>, source |-> "valid", workload |-> "given", db |-> "given"],
        [kernel |-> <<"gemm">>, source |-> "none", workload |-> "given", db |-> "none"]}
MCWorkload ==
  [k \in {<<"rms", "fwd">>, <<"rms", "add">>} |->
     IF k = <<"rms", "fwd">>
     THEN [category |-> "dense", dims |-> [m |-> 4, n |-> 2],
           range |-> [m |-> [min |-> 1, max |-> 8], n |-> [min |-> 0, max |-> 2]]]
     ELSE [category |-> "cuda", dims |-> [m |-> 4], range |-> <<>>]]
MCStoredRun ==
  {[id |-> 1, kernels |-> {<<"rms", "v2", "forward">>}, backends |-> {"cuda"}],
   [id |-> 2, kernels |-> {<<"rms">>, <<"triton", "gemm", "bwd">>}, backends |-> {}]}
=============================================================================
