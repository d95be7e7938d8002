--------------------------- MODULE MCHistoryReads ---------------------------
(***************************************************************************)
(* Two runs, syncs and POSTs with one or two iterations, a POST with none, *)
(* two recalibrations that can overlap, two snapshot requests.             *)
(***************************************************************************)
EXTENDS HistoryReads, TLC

CONSTANTS r1, r2, h1, h2, h3, c1, c2, q1, q2

It(h, c, s) == [commit_hash |-> h, correctness |-> c, speedup |-> s]

MCPayload ==
  {[run_id |-> r1, iterations |-> <<It(h1, "PASS", 1)>>],
   [run_id |-> r1, iterations |-> <<It(h1, "PASS", 1), It(h2, "PASS", 2)>>],
   [run_id |-> r2, iterations |-> <<It(h3, "FAIL", 0)>>],
   [run_id |-> r2, iterations |-> <<>>]}

MCSpeedup == {1, 3}

Symmetry == Permutations(Recalibrator) \cup Permutations(Reader)
=============================================================================
