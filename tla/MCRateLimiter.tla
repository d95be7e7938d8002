--------------------------- MODULE MCRateLimiter ---------------------------
EXTENDS RateLimiter, TLC

\* The run's constants make forgetting safe, as the server's defaults do.
ASSUME EvictionIsSafe

Symmetry == Permutations(Client)
=============================================================================
