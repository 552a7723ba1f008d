---------------------------- MODULE ToolRegistry ----------------------------
(***************************************************************************)
(* ToolRegistry (kernel/resources/tool_registry.py) and the router that    *)
(* reads it (SimpleIntentRouter, control_plane/adapters/to_kernel/         *)
(* router.py).  Tool ids and actions are strings; here each is the         *)
(* sequence of its dot-separated segments, and a segment that is "*" has   *)
(* nothing else in it.  A tool id may hold such segments as well, and they *)
(* are then text like any other.  A call that raises changes nothing and   *)
(* is no step.                                                             *)
(***************************************************************************)
EXTENDS Integers, Sequences, FiniteSets

CONSTANTS
  ToolIds,    \* tool ids that may be registered, sequences of segments
  Servers,    \* non-empty MCP server ids
  NoTool,     \* what get returns for an unknown id
  Actions     \* what agents ask for: tool ids and patterns, sequences of segments

ASSUME RegistryAssumption ==
  /\ IsFiniteSet(ToolIds)
  /\ \A t \in ToolIds : t \in Seq(STRING) /\ t # << >>
  /\ \A a \in Actions : a \in Seq(STRING) /\ a # << >>
  /\ NoTool \notin Servers \cup ToolIds

VARIABLE tools   \* _tools: the mcp_server of each registered tool

RegistryTypeOK == tools \in [ToolIds -> Servers \cup {NoTool}]

RegistryInit == tools = [t \in ToolIds |-> NoTool]

registered == {t \in ToolIds : tools[t] # NoTool}

\* An id that is taken is refused (ToolAlreadyRegisteredError).
register(t, s) ==
  /\ t \notin registered
  /\ tools' = [tools EXCEPT ![t] = s]

unregister(t) ==
  /\ t \in registered
  /\ tools' = [tools EXCEPT ![t] = NoTool]

-----------------------------------------------------------------------------
(* Routing.                                                                *)

\* ".*" in a pattern: a "*" with a dot before it.
is_wildcard(a, i) == i > 1 /\ a[i] = "*"

\* The regular expression made of the pattern: every ".*" in it stands for a
\* dot and anything behind it, that is for one or more segments.  end[i] is
\* the segment of the id that the i-th segment of the pattern ends at.
matches(a, t) ==
  \E end \in [0 .. Len(a) -> 0 .. Len(t)] :
    /\ end[0] = 0
    /\ end[Len(a)] = Len(t)
    /\ \A i \in 1 .. Len(a) :
         IF is_wildcard(a, i) THEN end[i] > end[i - 1]
         ELSE end[i] = end[i - 1] + 1 /\ t[end[i]] = a[i]

\* The ids an action matches, registered or not.
matching == [a \in Actions |-> {t \in ToolIds : matches(a, t)}]

match_pattern(a) == matching[a] \cap registered

\* Mutant: among several matches the longest is taken instead of raising.
RoutesLongest(a) ==
  IF a \in registered THEN {a}
  ELSE IF match_pattern(a) = {} THEN {}
  ELSE {CHOOSE t \in match_pattern(a) : \A u \in match_pattern(a) : Len(t) >= Len(u)}

\* The tool route_intent finds, if any: the one registered under the action
\* itself, be it a pattern or not, else the only match.  No match and several
\* matches raise OrchestrationError.
Routes(a) ==
  IF a \in registered THEN {a}
  ELSE IF Cardinality(match_pattern(a)) = 1 THEN match_pattern(a)
  ELSE {}
=============================================================================
