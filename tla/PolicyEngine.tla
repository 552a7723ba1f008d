---------------------------- MODULE PolicyEngine ----------------------------
(***************************************************************************)
(* PolicyEngine (control_plane/policy/engine.py) with the decision cache   *)
(* it owns (control_plane/policy/cache.py), the capability registry it     *)
(* consults (core/policies/capability_registry.py) and the two questions   *)
(* the kernel asks of it (control_plane/adapters/to_kernel/policy.py).     *)
(*                                                                         *)
(* A resource is the sequence of its dot-separated segments; a target is   *)
(* such a sequence with a flag for a trailing wildcard, "*" being the      *)
(* wildcard after no segment at all.  No method of the engine awaits       *)
(* anything, so each call is one step.                                     *)
(***************************************************************************)
EXTENDS Integers, Sequences, FiniteSets

CONSTANTS
  Agents,
  Resources,     \* what the adapter passes both as action and as resource
  Targets,       \* targets of rules
  Capabilities,
  HasRegistry,   \* whether the engine was built with a capability registry
  Seeds,         \* the sequences of rules _policies may start with
  ttl_seconds,   \* the literal 300 of cache.py:52 (the constructor's own is not read)
  max_entries,   \* the literal 10_000 of cache.py:48 (likewise)
  MaxPolicies,   \* bound on the number of rules
  MaxTime        \* bound on the clock

PolicyEffect == {"ALLOW", "DENY", "REQUIRE_APPROVAL"}

\* PolicyRule.priority of a rule that names none
DefaultPriority == 100

PolicyRule ==
  [target : Targets, effect : PolicyEffect, priority : Int, active : BOOLEAN,
   required_capabilities : SUBSET Capabilities]

\* matched_rule when no rule matched
NoRule == 0

Results == [decision : PolicyEffect, matched_rule : Nat]

\* The agent_id (and the action) in the key of a capability evaluation is "".
NoAgent == ""
Keys == (Agents \cup {NoAgent}) \X Resources \X SUBSET Capabilities

ASSUME PolicyAssumption ==
  /\ \A r \in Resources : r \in Seq(STRING)
  /\ \A t \in Targets : t.path \in Seq(STRING) /\ t.wildcard \in BOOLEAN
  /\ \A s \in Seeds : s \in Seq(PolicyRule)
  /\ HasRegistry \in BOOLEAN
  /\ NoAgent \notin Agents
  /\ ttl_seconds \in Nat \ {0}
  /\ max_entries \in Nat \ {0}
  /\ MaxPolicies \in Nat
  /\ MaxTime \in Nat

VARIABLES
  policies,       \* _policies, in the dict's insertion order
  capabilities,   \* ids in the capability registry
  cache,          \* _cache._cache: a dict from key to value and expiry
  now,            \* time.time()
  answer          \* history: what the last step answered, and to which question

vars == <<policies, capabilities, cache, now, answer>>

EmptyCache == [k \in {} |-> [value |-> [decision |-> "ALLOW", matched_rule |-> NoRule],
                             expires |-> 0]]

NoAnswer == [by |-> "", resource |-> <<>>, caps |-> {}, allowed |-> FALSE,
             result |-> [decision |-> "DENY", matched_rule |-> NoRule]]

TypeOK ==
  /\ policies \in Seq(PolicyRule)
  /\ capabilities \subseteq Capabilities
  /\ DOMAIN cache \subseteq Keys
  /\ \A k \in DOMAIN cache : cache[k].value \in Results /\ cache[k].expires \in Nat
  /\ now \in Nat
  /\ answer.result \in Results

Init ==
  /\ policies \in Seeds
  /\ capabilities = {}
  /\ cache = EmptyCache
  /\ now = 0
  /\ answer = NoAnswer

-----------------------------------------------------------------------------
(* Which rule decides.                                                     *)

target_matches(target, resource) ==
  IF target.wildcard
  THEN /\ Len(target.path) <= Len(resource)
       /\ \A i \in 1 .. Len(target.path) : target.path[i] = resource[i]
  ELSE target.path = resource

matching_rules(rules, resource) ==
  {i \in 1 .. Len(rules) : rules[i].active /\ target_matches(rules[i].target, resource)}

\* A stable sort by priority puts the oldest of the rules with the lowest
\* number first, whatever its effect.
precedes(rules, i, j) ==
  \/ rules[i].priority < rules[j].priority
  \/ rules[i].priority = rules[j].priority /\ i <= j

best(rules, resource) ==
  CHOOSE i \in matching_rules(rules, resource) :
    \A j \in matching_rules(rules, resource) : precedes(rules, i, j)

\* The decision of the rules alone, without cache and capability checks.
decide(rules, resource) ==
  IF matching_rules(rules, resource) = {}
  THEN [decision |-> "ALLOW", matched_rule |-> NoRule]
  ELSE [decision |-> rules[best(rules, resource)].effect,
        matched_rule |-> best(rules, resource)]

Denial == [decision |-> "DENY", matched_rule |-> NoRule]

-----------------------------------------------------------------------------
(* The cache.  An entry that has expired is deleted by the get that finds  *)
(* it; a full cache drops one of the entries that expire first.            *)

hit(key) == key \in DOMAIN cache /\ now < cache[key].expires

without(c, keys) == [k \in DOMAIN c \ keys |-> c[k]]

evictions(c) ==
  IF Cardinality(DOMAIN c) >= max_entries
  THEN {{k} : k \in {x \in DOMAIN c : \A y \in DOMAIN c : c[x].expires <= c[y].expires}}
  ELSE {{}}

\* Mutant: one entry too many before the oldest goes.
set_late(c, key, value) ==
  {[k \in (DOMAIN c \ e) \cup {key} |->
      IF k = key THEN [value |-> value, expires |-> now + ttl_seconds] ELSE c[k]] :
     e \in IF Cardinality(DOMAIN c) > max_entries THEN evictions(c) ELSE {{}}}

\* The caches set(key, value) may leave.
set(c, key, value) ==
  {[k \in (DOMAIN c \ e) \cup {key} |->
      IF k = key THEN [value |-> value, expires |-> now + ttl_seconds] ELSE c[k]] :
     e \in evictions(c)}

-----------------------------------------------------------------------------
(* The operations.                                                         *)

\* What the adapter makes of a result: anything but ALLOW is a refusal.
allowed(result) == result.decision = "ALLOW"

Answer(by, resource, caps, result) ==
  answer' = [by |-> by, resource |-> resource, caps |-> caps, result |-> result,
             allowed |-> allowed(result)]

\* get and, on a miss, the rules' decision and set.
Decide(by, key, resource, caps) ==
  \/ /\ hit(key)
     /\ Answer(by, resource, caps, cache[key].value)
     /\ UNCHANGED cache
  \/ /\ ~hit(key)
     /\ Answer(by, resource, caps, decide(policies, resource))
     /\ cache' \in set(without(cache, {key}), key, decide(policies, resource))

evaluate(by, agent, resource) ==
  /\ Decide(by, <<agent, resource, {}>>, resource, {})
  /\ UNCHANGED <<policies, capabilities, now>>

\* The two questions the runtime asks through PolicyEngineAdapter.  Both take
\* the intent's action for action and resource: they are one question.
evaluate_intent(agent, action) == evaluate("evaluate_intent", agent, action)

check_capability(action, agent) == evaluate("check_capability", agent, action)

\* What the matching rules themselves require to be registered.
rule_capabilities(resource) ==
  UNION {policies[i].required_capabilities : i \in matching_rules(policies, resource)}

missing(caps) ==
  IF HasRegistry THEN ~(caps \subseteq capabilities) ELSE FALSE

rule_capability_missing(resource) ==
  IF HasRegistry THEN ~(rule_capabilities(resource) \subseteq capabilities)
  ELSE rule_capabilities(resource) # {}

\* evaluate_with_capabilities: an unregistered capability is a denial that is
\* not cached; the capabilities of the rules are looked at on a miss only.
evaluate_with_capabilities(resource, caps) ==
  LET key == <<NoAgent, resource, caps>>
  IN /\ IF missing(caps)
        THEN Answer("engine", resource, caps, Denial) /\ UNCHANGED cache
        ELSE IF ~hit(key) /\ rule_capability_missing(resource)
        THEN Answer("engine", resource, caps, Denial) /\ cache' = without(cache, {key})
        ELSE Decide("engine", key, resource, caps)
     /\ UNCHANGED <<policies, capabilities, now>>

NewRule(target, effect) ==
  [target |-> target, effect |-> effect, priority |-> DefaultPriority, active |-> TRUE,
   required_capabilities |-> {}]

\* Mutant: the rule is added and the cache kept.
create_policy_keeping_cache(target, effect) ==
  /\ Len(policies) < MaxPolicies
  /\ policies' = Append(policies, NewRule(target, effect))
  /\ answer' = NoAnswer
  /\ UNCHANGED <<capabilities, cache, now>>

create_policy(target, effect) ==
  /\ Len(policies) < MaxPolicies
  /\ policies' = Append(policies, NewRule(target, effect))
  /\ cache' = EmptyCache
  /\ answer' = NoAnswer
  /\ UNCHANGED <<capabilities, now>>

register(cap) ==
  /\ HasRegistry
  /\ capabilities' = capabilities \cup {cap}
  /\ answer' = NoAnswer
  /\ UNCHANGED <<policies, cache, now>>

remove(cap) ==
  /\ HasRegistry
  /\ capabilities' = capabilities \ {cap}
  /\ answer' = NoAnswer
  /\ UNCHANGED <<policies, cache, now>>

\* time.time(), a clock that may also be set back
Tick ==
  /\ now' \in (0 .. MaxTime) \ {now}
  /\ answer' = NoAnswer
  /\ UNCHANGED <<policies, capabilities, cache>>

Next ==
  \/ \E a \in Agents, r \in Resources : evaluate_intent(a, r)
  \/ \E a \in Agents, r \in Resources : check_capability(r, a)
  \/ \E r \in Resources, caps \in SUBSET Capabilities : evaluate_with_capabilities(r, caps)
  \/ \E t \in Targets, e \in PolicyEffect : create_policy(t, e)
  \/ \E c \in Capabilities : register(c)
  \/ \E c \in Capabilities : remove(c)
  \/ Tick

Spec == Init /\ [][Next]_vars

-----------------------------------------------------------------------------
(* Properties.                                                             *)

\* Whatever the cache holds is what the rules of this moment would decide:
\* a decision is never served from before a change of the rules, although
\* the entry's time to live has not passed (engine.py: create_policy
\* invalidates; nothing else changes _policies).
CacheTransparent ==
  \A k \in DOMAIN cache : cache[k].value = decide(policies, k[2])

\* set never lets the cache grow past its limit, whatever has expired unseen
\* (cache.py: the comparison before the eviction).
EntriesBounded == Cardinality(DOMAIN cache) <= max_entries
=============================================================================
