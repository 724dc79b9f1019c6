---------------------------- MODULE MCHeadlessHost ----------------------------
(* A small instance of a host and the sessions it drives for TLC.            *)
EXTENDS HeadlessHost, TLC

CONSTANTS root0, c1, c2, host0

Symmetry == Permutations(Session \ {Root})
=============================================================================
