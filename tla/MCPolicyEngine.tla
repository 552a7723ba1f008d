--------------------------- MODULE MCPolicyEngine ---------------------------
(* PolicyEngine for TLC: a family of resources under one prefix, the three *)
(* kinds of targets, and the rules the engine's tests start from.          *)
EXTENDS PolicyEngine

MCResources == {<<"model">>, <<"model", "gpt-4">>}

MCTargets ==
  {[wildcard |-> TRUE, path |-> <<>>],
   [wildcard |-> TRUE, path |-> <<"model">>],
   [wildcard |-> FALSE, path |-> <<"model", "gpt-4">>]}

Rule(target, effect, priority, active, caps) ==
  [target |-> target, effect |-> effect, priority |-> priority, active |-> active,
   required_capabilities |-> caps]

Anything == [wildcard |-> TRUE, path |-> <<>>]
AnyModel == [wildcard |-> TRUE, path |-> <<"model">>]

\* No rule, a rule of low precedence, an inactive one, and one that names a
\* capability.
MCSeeds ==
  {<<>>,
   <<Rule(Anything, "ALLOW", 200, TRUE, {})>>,
   <<Rule(AnyModel, "DENY", 10, FALSE, {})>>,
   <<Rule(AnyModel, "ALLOW", 100, TRUE, {"c1"})>>}

MCCapabilities == {"c1"}
=============================================================================
