---------------------------- MODULE MCCheckpoint ----------------------------
(* A small instance of the checkpoints for TLC.                              *)
EXTENDS Checkpoint

CONSTANTS e1, e2
=============================================================================
