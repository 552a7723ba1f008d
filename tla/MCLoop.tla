------------------------------- MODULE MCLoop -------------------------------
(* Small instances of Loop for TLC.                                        *)
EXTENDS Loop, TLC

CONSTANTS r1, r2, r3

\* One error text per class of _classify_failure that the runtime produces.
MCErrors == {{"policy"}, {"denied!"}, {"capability", "not"}, {"capability"}, {"gateway"},
             {"orchestration"}, {"checkpoint"}, {"tool"}, {}}

MCSymmetry == Permutations({r1, r2, r3})
=============================================================================
