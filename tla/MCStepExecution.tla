-------------------------- MODULE MCStepExecution --------------------------
(* Small instances of StepExecution for TLC.                               *)
EXTENDS StepExecution, TLC

CONSTANTS d1, d2

Symmetry == Permutations(Drivers)
=============================================================================
