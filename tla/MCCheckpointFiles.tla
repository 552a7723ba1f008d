------------------------- MODULE MCCheckpointFiles -------------------------
(* A small instance of CheckpointFiles for TLC: one process.               *)
EXTENDS CheckpointFiles, TLC

CONSTANTS p1, x1, x2, c1, c2, c3, c4

Symmetry == Permutations(Ids) \cup Permutations(Execs)
=============================================================================
