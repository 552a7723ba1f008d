--------------------------- MODULE MCMemoryStore ----------------------------
(* A small instance of MemoryStore for TLC.                                *)
EXTENDS MemoryStore, TLC

CONSTANTS i1, i2, a1, a2

Symmetry == Permutations(Ids) \cup Permutations(Agents)
=============================================================================
