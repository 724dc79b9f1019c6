------------------------------ MODULE MCKernel ------------------------------
(* Small instances of the kernel for TLC.  The ids of sessions other than    *)
(* the root, of emitters and of respawners are interchangeable.              *)
EXTENDS Kernel, TLC

CONSTANTS root, s1, s2, s3, e1, e2, r1, r2

Symmetry == Permutations(Session \ {Root}) \cup Permutations(Emitter)
              \cup Permutations(Respawner)
=============================================================================
