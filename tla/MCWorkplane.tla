---------------------------- MODULE MCWorkplane -----------------------------
EXTENDS Workplane, TLC

CONSTANTS w1, w2, p1, p2

StreamSymmetry == Permutations(Workstreams)
=============================================================================
