--------------------------- MODULE MCHistoryFile ---------------------------
EXTENDS HistoryFile, TLC

Symmetry == Permutations(Proc)
=============================================================================
