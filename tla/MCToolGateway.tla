--------------------------- MODULE MCToolGateway ----------------------------
(* Small instance of ToolGateway for TLC: a tool below a prefix, one two   *)
(* levels below it, and one whose id is a pattern itself.                  *)
EXTENDS ToolGateway, TLC

CONSTANTS s1, s2, l1, l2, c1, c2

MCToolIds == {<<"db", "query">>, <<"db", "admin", "drop">>, <<"db", "*">>}

MCActions == {<<"db", "query">>, <<"db", "*">>, <<"db", "*", "drop">>}

Symmetry == Permutations({c1, c2}) \cup Permutations({s1, s2}) \cup Permutations({l1, l2})
=============================================================================
