---------------------------- MODULE MCRootRecovery ----------------------------
(* A small instance of the relocation of a project for TLC.                  *)
EXTENDS RootRecovery, TLC

CONSTANTS root0, s1, s2, s3, e1

Symmetry == Permutations(Session \ {Root})
=============================================================================
