--------------------------- MODULE MCLoadReporting ---------------------------
(* An instance of LoadReporting for TLC. *)
EXTENDS LoadReporting, TLC

CONSTANTS r1, r2, w1, w2

MCRequests == {r1, r2}
MCWorkers == {w1, w2}
MCSymmetry == Permutations(MCRequests) \cup Permutations(MCWorkers)
=============================================================================
