----------------------------- MODULE MCRunLock -----------------------------
(* Small instances of the run lock for TLC.  Calls are interchangeable.      *)
EXTENDS RunLock, TLC

CONSTANTS c1, c2, c3, c4

Symmetry == Permutations(Crashable) \cup Permutations(Call \ Crashable)
=============================================================================
