------------------------------- MODULE MCRuntime -------------------------------
(* Small instances of Runtime for TLC.                                     *)
EXTENDS Runtime

CONSTANTS t1, t2, a1, e1, e2

================================================================================
