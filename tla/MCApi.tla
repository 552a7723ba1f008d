------------------------------- MODULE MCApi --------------------------------
(* Small instance of Api for TLC.                                          *)
EXTENDS Api, TLC

CONSTANTS x1, t1, t2, w1, w2, k1, k2

MCEvents == [exec : Execs, tenant : Contexts]

MCFirstKeys == [k \in Keys |-> IF k = k1 THEN t1 ELSE NoContext]
=============================================================================
