---------------------------- MODULE PolicyProofs ----------------------------
(***************************************************************************)
(* Proofs about PolicyEngine: its type invariant, that the decision cache  *)
(* is transparent and bounded, and that the rules' decisions stand.        *)
(***************************************************************************)
EXTENDS PolicyEngine, FiniteSetTheorems, TLAPS

-----------------------------------------------------------------------------
(* What the rules decide.                                                  *)

\* The fields of a rule in _policies.
LEMMA RuleFields ==
  ASSUME NEW rules \in Seq(PolicyRule), NEW i \in 1 .. Len(rules)
  PROVE  /\ rules[i] \in PolicyRule
         /\ rules[i].priority \in Int
         /\ rules[i].effect \in PolicyEffect
<1>1. rules[i] \in PolicyRule
  OBVIOUS
<1> QED
  BY <1>1 DEF PolicyRule

\* The sort has a first element: of any rules that match, one precedes all
\* (the set of the rules strictly before it is minimal under inclusion).
LEMMA FirstExists ==
  ASSUME NEW rules \in Seq(PolicyRule), NEW M \in SUBSET (1 .. Len(rules)), M # {}
  PROVE  \E i \in M : \A j \in M : precedes(rules, i, j)
<1> DEFINE Below(i) == {k \in M : ~precedes(rules, i, k)}
           T == {Below(i) : i \in M}
<1>1. Len(rules) \in Nat
  OBVIOUS
<1>2. IsFiniteSet(M)
  <2>1. IsFiniteSet(1 .. Len(rules))
    BY <1>1, FS_Interval
  <2> QED
    BY <2>1, FS_Subset
<1>3. \A x \in T : x \in SUBSET M /\ IsFiniteSet(x)
  BY <1>2, FS_Subset
<1>4. T \subseteq FiniteSubsetsOf(M)
  BY <1>3 DEF FiniteSubsetsOf
<1>5. PICK x \in T : \A y \in T : <<y, x>> \notin StrictSubsetOrdering(M)
  <2>1. T # {}
    OBVIOUS
  <2>2. IsWellFoundedOn(StrictSubsetOrdering(M), FiniteSubsetsOf(M))
    BY FS_StrictSubsetOrderingWellFounded
  <2> HIDE DEF T
  <2> QED
    BY <1>4, <2>1, <2>2, WFMin
<1>6. PICK i \in M : x = Below(i)
  BY <1>5
<1>7. SUFFICES ASSUME NEW j \in M, ~precedes(rules, i, j)
               PROVE  FALSE
  BY <1>6
<1>8. j \in Below(i) /\ j \notin Below(j)
  BY <1>1, <1>7, RuleFields DEF precedes
<1>9. Below(j) \subseteq Below(i)
  <2>1. \A k \in M : rules[k].priority \in Int /\ k \in Int
    BY <1>1, RuleFields
  <2> QED
    BY <1>7, <2>1 DEF precedes
<1>10. <<Below(j), Below(i)>> \in StrictSubsetOrdering(M)
  BY <1>8, <1>9 DEF StrictSubsetOrdering
<1> QED
  BY <1>5, <1>6, <1>10

\* best is one of the matching rules and precedes all of them.
LEMMA BestIsFirst ==
  ASSUME NEW rules \in Seq(PolicyRule), NEW r, matching_rules(rules, r) # {}
  PROVE  /\ best(rules, r) \in matching_rules(rules, r)
         /\ \A j \in matching_rules(rules, r) : precedes(rules, best(rules, r), j)
<1>1. matching_rules(rules, r) \in SUBSET (1 .. Len(rules))
  BY DEF matching_rules
<1>2. \E i \in matching_rules(rules, r) :
        \A j \in matching_rules(rules, r) : precedes(rules, i, j)
  BY <1>1, FirstExists
<1> QED
  BY <1>2 DEF best

\* The rules' decision is a result.
LEMMA DecideType ==
  ASSUME NEW rules \in Seq(PolicyRule), NEW r
  PROVE  decide(rules, r) \in Results
<1>1. CASE matching_rules(rules, r) = {}
  BY <1>1 DEF decide, Results, PolicyEffect, NoRule
<1>2. CASE matching_rules(rules, r) # {}
  <2>1. best(rules, r) \in 1 .. Len(rules)
    BY <1>2, BestIsFirst DEF matching_rules
  <2>2. rules[best(rules, r)].effect \in PolicyEffect /\ best(rules, r) \in Nat
    BY <2>1, RuleFields
  <2> QED
    BY <1>2, <2>2 DEF decide, Results
<1> QED
  BY <1>1, <1>2

\* A rule of create_policy is appended: it joins the matching rules last, and
\* the older ones are as they were.
LEMMA Appended ==
  ASSUME NEW rules \in Seq(PolicyRule), NEW t \in Targets, NEW e \in PolicyEffect, NEW r
  PROVE  /\ NewRule(t, e) \in PolicyRule
         /\ Append(rules, NewRule(t, e)) \in Seq(PolicyRule)
         /\ \A i \in 1 .. Len(rules) : Append(rules, NewRule(t, e))[i] = rules[i]
         /\ matching_rules(rules, r) \subseteq matching_rules(Append(rules, NewRule(t, e)), r)
         /\ matching_rules(Append(rules, NewRule(t, e)), r)
              \subseteq matching_rules(rules, r) \cup {Len(rules) + 1}
<1> DEFINE new == NewRule(t, e)
           after == Append(rules, new)
<1>1. new \in PolicyRule
  BY DEF NewRule, PolicyRule, DefaultPriority
<1> HIDE DEF new
<1>2. /\ after \in Seq(PolicyRule)
      /\ Len(after) = Len(rules) + 1
      /\ Len(rules) \in Nat
      /\ \A i \in 1 .. Len(rules) : after[i] = rules[i]
  BY <1>1
<1> HIDE DEF after
<1>3. /\ matching_rules(rules, r) \subseteq matching_rules(after, r)
      /\ matching_rules(after, r) \subseteq matching_rules(rules, r) \cup {Len(rules) + 1}
  BY <1>2 DEF matching_rules
<1> QED
  BY <1>1, <1>2, <1>3 DEF new, after

-----------------------------------------------------------------------------
(* What set leaves in the cache.                                           *)

\* set stores the value under the key and changes no other entry it keeps;
\* it keeps the cache within its limit if the key was not there.
LEMMA SetKeeps ==
  ASSUME NEW c, IsFiniteSet(DOMAIN c), NEW key, NEW value, NEW d \in set(c, key, value)
  PROVE  /\ IsFiniteSet(DOMAIN d)
         /\ DOMAIN d \subseteq DOMAIN c \cup {key}
         /\ d[key] = [value |-> value, expires |-> now + ttl_seconds]
         /\ \A k \in DOMAIN d : k # key => k \in DOMAIN c /\ d[k] = c[k]
         /\ (key \notin DOMAIN c /\ Cardinality(DOMAIN c) <= max_entries)
              => Cardinality(DOMAIN d) <= max_entries
<1>1. PICK e \in evictions(c) :
        d = [k \in (DOMAIN c \ e) \cup {key} |->
               IF k = key THEN [value |-> value, expires |-> now + ttl_seconds] ELSE c[k]]
  BY DEF set
<1>2. DOMAIN d = (DOMAIN c \ e) \cup {key}
  BY <1>1
<1>3. /\ d[key] = [value |-> value, expires |-> now + ttl_seconds]
      /\ \A k \in DOMAIN d : k # key => k \in DOMAIN c /\ d[k] = c[k]
  BY <1>1
<1>4. Cardinality(DOMAIN c) \in Nat
  BY FS_CardinalityType
<1>5. /\ IsFiniteSet(DOMAIN d)
      /\ (key \notin DOMAIN c /\ Cardinality(DOMAIN c) <= max_entries)
           => Cardinality(DOMAIN d) <= max_entries
  <2>1. CASE Cardinality(DOMAIN c) >= max_entries
    <3>1. PICK x \in DOMAIN c : e = {x}
      BY <1>1, <2>1 DEF evictions
    <3>2. /\ IsFiniteSet(DOMAIN c \ {x})
          /\ Cardinality(DOMAIN c \ {x}) = Cardinality(DOMAIN c) - 1
      BY <3>1, FS_RemoveElement
    <3>3. /\ IsFiniteSet((DOMAIN c \ {x}) \cup {key})
          /\ key \notin DOMAIN c
               => Cardinality((DOMAIN c \ {x}) \cup {key}) = Cardinality(DOMAIN c)
      <4> DEFINE rest == DOMAIN c \ {x}
      <4>1. /\ IsFiniteSet(rest \cup {key})
            /\ key \notin rest => Cardinality(rest \cup {key}) = Cardinality(rest) + 1
        BY <3>2, FS_AddElement
      <4>2. key \notin DOMAIN c => key \notin rest
        OBVIOUS
      <4> QED
        BY <1>4, <3>2, <4>1, <4>2
    <3> QED
      BY <1>2, <3>1, <3>3
  <2>2. CASE ~(Cardinality(DOMAIN c) >= max_entries)
    <3>1. e = {}
      BY <1>1, <2>2 DEF evictions
    <3>2. DOMAIN d = DOMAIN c \cup {key}
      BY <1>2, <3>1
    <3>3. /\ IsFiniteSet(DOMAIN c \cup {key})
          /\ key \notin DOMAIN c
               => Cardinality(DOMAIN c \cup {key}) = Cardinality(DOMAIN c) + 1
      BY FS_AddElement
    <3> QED
      BY <1>4, <2>2, <3>2, <3>3, PolicyAssumption
  <2> QED
    BY <2>1, <2>2
<1> QED
  BY <1>2, <1>3, <1>5

-----------------------------------------------------------------------------
(* The inductive invariant: the three invariants of the runs, with the     *)
(* finiteness of the cache that its cardinality needs.                     *)

IInv ==
  /\ TypeOK
  /\ CacheTransparent
  /\ IsFiniteSet(DOMAIN cache)
  /\ EntriesBounded

\* The part of IInv that is about the cache.
CacheOK(c, rules) ==
  /\ DOMAIN c \subseteq Keys
  /\ \A k \in DOMAIN c : /\ c[k].value \in Results
                         /\ c[k].expires \in Nat
                         /\ c[k].value = decide(rules, k[2])
  /\ IsFiniteSet(DOMAIN c)
  /\ Cardinality(DOMAIN c) <= max_entries

LEMMA InvSplits ==
  IInv <=> /\ policies \in Seq(PolicyRule)
           /\ capabilities \subseteq Capabilities
           /\ now \in Nat
           /\ answer.result \in Results
           /\ CacheOK(cache, policies)
  BY DEF IInv, TypeOK, CacheTransparent, EntriesBounded, CacheOK

LEMMA InvSplitsPrime ==
  IInv' <=> /\ policies' \in Seq(PolicyRule)
            /\ capabilities' \subseteq Capabilities
            /\ now' \in Nat
            /\ answer'.result \in Results
            /\ CacheOK(cache', policies')
  BY DEF IInv, TypeOK, CacheTransparent, EntriesBounded, CacheOK

\* The empty cache is in order.
LEMMA EmptyCacheOK ==
  ASSUME NEW rules
  PROVE  CacheOK(EmptyCache, rules)
<1>1. DOMAIN EmptyCache = {}
  BY DEF EmptyCache
<1> QED
  BY <1>1, FS_EmptySet, PolicyAssumption DEF CacheOK

\* Deleting an entry keeps the cache in order.
LEMMA WithoutOK ==
  ASSUME NEW c, NEW rules, CacheOK(c, rules), NEW key
  PROVE  /\ CacheOK(without(c, {key}), rules)
         /\ key \notin DOMAIN without(c, {key})
<1> DEFINE d == without(c, {key})
<1>1. DOMAIN d = DOMAIN c \ {key} /\ \A k \in DOMAIN d : d[k] = c[k]
  BY DEF without
<1>2. /\ IsFiniteSet(DOMAIN c \ {key})
      /\ Cardinality(DOMAIN c \ {key}) <= Cardinality(DOMAIN c)
      /\ Cardinality(DOMAIN c \ {key}) \in Nat
      /\ Cardinality(DOMAIN c) \in Nat
  BY FS_Subset, FS_CardinalityType DEF CacheOK
<1> HIDE DEF d
<1>3. /\ DOMAIN d \subseteq Keys
      /\ \A k \in DOMAIN d : /\ d[k].value \in Results
                             /\ d[k].expires \in Nat
                             /\ d[k].value = decide(rules, k[2])
  BY <1>1 DEF CacheOK
<1>4. Cardinality(DOMAIN d) <= max_entries /\ IsFiniteSet(DOMAIN d)
  BY <1>1, <1>2, PolicyAssumption DEF CacheOK
<1>5. CacheOK(d, rules) /\ key \notin DOMAIN d
  BY <1>1, <1>3, <1>4 DEF CacheOK
<1> QED
  BY <1>5 DEF d

\* An evaluation answers with a result and leaves the cache in order.
LEMMA DecideOK ==
  ASSUME IInv, NEW key \in Keys, NEW resource, key[2] = resource, NEW caps, NEW by,
         Decide(by, key, resource, caps)
  PROVE  answer'.result \in Results /\ CacheOK(cache', policies)
<1>1. /\ policies \in Seq(PolicyRule)
      /\ now \in Nat
      /\ CacheOK(cache, policies)
  BY InvSplits
<1>2. CASE hit(key) /\ Answer(by, resource, caps, cache[key].value) /\ UNCHANGED cache
  BY <1>1, <1>2 DEF hit, Answer, CacheOK
<1>3. CASE /\ Answer(by, resource, caps, decide(policies, resource))
           /\ cache' \in set(without(cache, {key}), key, decide(policies, resource))
  <2> DEFINE c == without(cache, {key})
             v == decide(policies, resource)
  <2>1. v \in Results
    BY <1>1, DecideType
  <2>2. CacheOK(c, policies) /\ key \notin DOMAIN c
    BY <1>1, WithoutOK
  <2>3. answer'.result \in Results
    BY <1>3, <2>1 DEF Answer
  <2>4. cache' \in set(c, key, v) /\ v = decide(policies, key[2])
    BY <1>3
  <2> HIDE DEF c, v
  <2>5. /\ IsFiniteSet(DOMAIN cache')
        /\ DOMAIN cache' \subseteq DOMAIN c \cup {key}
        /\ cache'[key] = [value |-> v, expires |-> now + ttl_seconds]
        /\ \A k \in DOMAIN cache' : k # key => k \in DOMAIN c /\ cache'[k] = c[k]
        /\ Cardinality(DOMAIN cache') <= max_entries
    BY <2>2, <2>4, SetKeeps DEF CacheOK
  <2>6. now + ttl_seconds \in Nat
    BY <1>1, PolicyAssumption
  <2>7. CacheOK(cache', policies)
    BY <2>1, <2>2, <2>4, <2>5, <2>6 DEF CacheOK
  <2> QED
    BY <2>3, <2>7
<1> QED
  BY <1>2, <1>3 DEF Decide

LEMMA DenialType ==
  Denial \in Results /\ NoAnswer.result \in Results
  BY DEF Denial, NoAnswer, Results, PolicyEffect, NoRule

LEMMA InvInit ==
  Init => IInv
<1> SUFFICES ASSUME Init PROVE IInv
  OBVIOUS
<1>1. policies \in Seq(PolicyRule)
  BY PolicyAssumption DEF Init
<1> QED
  BY <1>1, EmptyCacheOK, DenialType, InvSplits DEF Init

LEMMA InvNext ==
  IInv /\ [Next]_vars => IInv'
<1> SUFFICES ASSUME IInv, [Next]_vars PROVE IInv'
  OBVIOUS
<1>0. /\ policies \in Seq(PolicyRule)
      /\ capabilities \subseteq Capabilities
      /\ now \in Nat
      /\ answer.result \in Results
      /\ CacheOK(cache, policies)
  BY InvSplits
<1>1. ASSUME NEW a \in Agents, NEW r \in Resources,
             evaluate_intent(a, r) \/ check_capability(r, a)
      PROVE  IInv'
  <2>1. <<a, r, {}>> \in Keys /\ <<a, r, {}>>[2] = r
    BY DEF Keys
  <2>2. answer'.result \in Results /\ CacheOK(cache', policies)
    BY <1>1, <2>1, DecideOK DEF evaluate_intent, check_capability, evaluate
  <2> QED
    BY <1>0, <1>1, <2>2, InvSplitsPrime DEF evaluate_intent, check_capability, evaluate
<1>2. ASSUME NEW r \in Resources, NEW caps \in SUBSET Capabilities,
             evaluate_with_capabilities(r, caps)
      PROVE  IInv'
  <2> DEFINE key == <<NoAgent, r, caps>>
  <2>1. key \in Keys /\ key[2] = r
    BY DEF Keys
  <2>2. \/ Answer("engine", r, caps, Denial) /\ UNCHANGED cache
        \/ Answer("engine", r, caps, Denial) /\ cache' = without(cache, {key})
        \/ Decide("engine", key, r, caps)
    BY <1>2 DEF evaluate_with_capabilities
  <2> HIDE DEF key
  <2>3. answer'.result \in Results /\ CacheOK(cache', policies)
    <3>1. CASE Decide("engine", key, r, caps)
      BY <2>1, <3>1, DecideOK
    <3>2. ASSUME Answer("engine", r, caps, Denial) PROVE answer'.result \in Results
      BY <3>2, DenialType DEF Answer
    <3>3. CASE Answer("engine", r, caps, Denial) /\ UNCHANGED cache
      BY <1>0, <3>2, <3>3
    <3>4. CASE Answer("engine", r, caps, Denial) /\ cache' = without(cache, {key})
      BY <1>0, <3>2, <3>4, WithoutOK
    <3> QED
      BY <2>2, <3>1, <3>3, <3>4
  <2> QED
    BY <1>0, <1>2, <2>3, InvSplitsPrime DEF evaluate_with_capabilities
<1>3. ASSUME NEW t \in Targets, NEW e \in PolicyEffect, create_policy(t, e)
      PROVE  IInv'
  <2>1. policies' \in Seq(PolicyRule)
    BY <1>0, <1>3, Appended DEF create_policy
  <2> QED
    BY <1>0, <1>3, <2>1, EmptyCacheOK, DenialType, InvSplitsPrime DEF create_policy
<1>4. ASSUME NEW c \in Capabilities, register(c) \/ remove(c)
      PROVE  IInv'
  BY <1>0, <1>4, DenialType, InvSplitsPrime DEF register, remove
<1>5. CASE Tick
  BY <1>0, <1>5, DenialType, InvSplitsPrime DEF Tick
<1>6. CASE UNCHANGED vars
  BY <1>0, <1>6, InvSplitsPrime DEF vars
<1> QED
  BY <1>1, <1>2, <1>3, <1>4, <1>5, <1>6 DEF Next

\* IInv holds in every reachable state.
LEMMA InvHolds == Spec => []IInv
  BY InvInit, InvNext, PTL DEF Spec

-----------------------------------------------------------------------------
(* The results.                                                            *)

\* The engine's variables keep their types, whatever rules, capabilities and
\* questions there are (engine.py, cache.py).
THEOREM PolicyTypeCorrect == Spec => []TypeOK
<1>1. IInv => TypeOK
  BY DEF IInv
<1> QED
  BY <1>1, InvHolds, PTL

\* The cache never holds a decision that the rules of the moment would not
\* make: create_policy clears it before anyone can ask again (engine.py).
THEOREM CacheTransparentHolds == Spec => []CacheTransparent
<1>1. IInv => CacheTransparent
  BY DEF IInv
<1> QED
  BY <1>1, InvHolds, PTL

\* The cache never exceeds max_entries (cache.py: set).
THEOREM EntriesBoundedHolds == Spec => []EntriesBounded
<1>1. IInv => EntriesBounded
  BY DEF IInv
<1> QED
  BY <1>1, InvHolds, PTL
=============================================================================
