----------------------------- MODULE ToolProofs -----------------------------
(***************************************************************************)
(* Proofs about the parts that call and install tools.                     *)
(*                                                                         *)
(* ToolGateway, for any tools, servers, logs and calls.  The audit log is  *)
(* exact because what an access will be audited with is fixed when it is   *)
(* looked up: its tool from the router on, its server from the lookup on.  *)
(*                                                                         *)
(* PluginLoader, in the last two sections, for any packages and calls.     *)
(***************************************************************************)
EXTENDS ToolGateway, PluginLoader, FiniteSetTheorems, TLAPS

\* What is known of a call before it is over.
Pending ==
  \A c \in Calls :
    /\ pc[c] \in {"new", "routed"} => server[c] = NoServer
    /\ pc[c] \in {"routed", "calling"} => tool[c] \in ToolIds

\* The inductive invariant.
AuditInv == TypeOK /\ Pending /\ AuditedOnce

LEMMA InitAuditInv == Init => AuditInv
  <1> SUFFICES ASSUME Init PROVE AuditInv
    OBVIOUS
  <1>1. TypeOK
    BY DEF Init, TypeOK, RegistryInit, RegistryTypeOK, Counters
  <1>2. Pending
    BY DEF Init, Pending
  <1>3. \A c \in Calls : EntriesOf(c) = {} /\ ~Over(c)
    BY DEF Init, EntriesOf, Over
  <1> QED  BY <1>1, <1>2, <1>3 DEF AuditInv, AuditedOnce

\* A step that ends no call and leaves the audit log alone.
LEMMA UnauditedStep ==
  ASSUME AuditInv, UNCHANGED audit_log,
         \A c \in Calls : Over(c)' = Over(c),
         \A c \in Calls : pc[c] = "cancelled" => pc'[c] = "cancelled",
         \A c \in Calls : Over(c) => pc'[c] = pc[c] /\ tool'[c] = tool[c]
                                     /\ server'[c] = server[c]
  PROVE  AuditedOnce'
  <1>1. \A c \in Calls : EntriesOf(c)' = EntriesOf(c)
    BY DEF EntriesOf
  <1> QED  BY <1>1 DEF AuditInv, AuditedOnce

\* Finish: the one entry of the call that ends is the last of the log.
LEMMA FinishKeeps ==
  ASSUME AuditInv, NEW c \in Calls, NEW srv \in Servers \cup {NoServer},
         NEW counter \in Counters, pc[c] \in {"routed", "calling"},
         Finish(c, srv, counter), UNCHANGED <<tools, clients, event_log, tool>>,
         server' = [server EXCEPT ![c] = srv]
  PROVE  AuditInv'
  <1> DEFINE entry == [call |-> c, tool |-> tool[c], server |-> srv,
                       success |-> counter = "success"]
             n == Len(audit_log) + 1
  <1> USE DEF AuditInv
  <1>0. tool[c] \in ToolIds /\ ~Over(c)
    BY DEF Pending, Over
  <1>1. entry \in Entries
    BY <1>0 DEF Entries
  <1>2. audit_log \in Seq(Entries) /\ audit_log' = Append(audit_log, entry)
    BY DEF TypeOK, Finish, record_audit
  <1>3. pc' = [pc EXCEPT ![c] = IF counter = "success" THEN "returned" ELSE "raised"]
    BY DEF Finish
  <1>4. TypeOK'
    <2>1. audit_log' \in Seq(Entries)
      BY <1>1, <1>2
    <2>2. events' \in [Logs -> Seq(Entries)]
      <3>1. CASE event_log = NoLog
        BY <3>1 DEF Finish, record_audit, emit, TypeOK
      <3>2. CASE event_log # NoLog
        <4>1. event_log \in Logs /\ events' = [events EXCEPT ![event_log] = Append(@, entry)]
          BY <3>2 DEF Finish, record_audit, emit, TypeOK
        <4>2. Append(events[event_log], entry) \in Seq(Entries)
          BY <1>1, <4>1 DEF TypeOK
        <4> QED  BY <4>1, <4>2 DEF TypeOK
      <3> QED  BY <3>1, <3>2
    <2>3. metrics' \in [Counters -> Nat]
      BY DEF Finish, TypeOK
    <2>4. pc' \in [Calls -> {"new", "unrouted", "routed", "calling", "returned", "raised", "cancelled"}]
      BY <1>3 DEF TypeOK
    <2>5. server' \in [Calls -> Servers \cup {NoServer}]
      BY DEF TypeOK
    <2> QED  BY <2>1, <2>2, <2>3, <2>4, <2>5 DEF TypeOK, RegistryTypeOK
  <1>5. Pending'
    BY <1>3 DEF Pending, TypeOK
  <1>6. AuditedOnce'
    <2> SUFFICES ASSUME NEW d \in Calls
                 PROVE  /\ Over(d)' => \E i \in EntriesOf(d)' :
                                         /\ EntriesOf(d)' = {i}
                                         /\ audit_log'[i].tool = tool'[d]
                                         /\ audit_log'[i].server = server'[d]
                                         /\ audit_log'[i].success = (pc'[d] = "returned")
                        /\ ~Over(d)' /\ pc'[d] # "cancelled" => EntriesOf(d)' = {}
      BY DEF AuditedOnce
    <2>1. /\ DOMAIN audit_log' = DOMAIN audit_log \cup {n}
          /\ n \notin DOMAIN audit_log
          /\ audit_log'[n] = entry
          /\ \A i \in DOMAIN audit_log : audit_log'[i] = audit_log[i]
      BY <1>1, <1>2
    <2>2. CASE d = c
      <3>1. EntriesOf(c) = {}
        BY <1>0 DEF AuditedOnce
      <3>2. EntriesOf(c)' = {n}
        BY <2>1, <3>1 DEF EntriesOf
      <3>3. Over(c)' /\ tool'[c] = tool[c] /\ server'[c] = srv
            /\ pc'[c] = (IF counter = "success" THEN "returned" ELSE "raised")
        BY <1>3 DEF Over, TypeOK
      <3>4. (counter = "success") = (pc'[c] = "returned")
        BY <3>3
      <3> QED  BY <2>1, <2>2, <3>2, <3>3, <3>4
    <2>3. CASE d # c
      <3>1. EntriesOf(d)' = EntriesOf(d)
        BY <2>1, <2>3 DEF EntriesOf
      <3>2. pc'[d] = pc[d] /\ tool'[d] = tool[d] /\ server'[d] = server[d]
        BY <1>3, <2>3 DEF TypeOK
      <3>3. \A i \in EntriesOf(d) : audit_log'[i] = audit_log[i]
        BY <2>1 DEF EntriesOf
      <3> QED  BY <3>1, <3>2, <3>3 DEF AuditedOnce, Over
    <2> QED  BY <2>2, <2>3
  <1> QED  BY <1>4, <1>5, <1>6

LEMMA AccessKeeps ==
  ASSUME AuditInv, NEW c \in Calls,
         RegistryMiss(c) \/ ClientMiss(c) \/ CallTool(c) \/ Answered(c) \/ Cancel(c)
  PROVE  AuditInv'
  <1> USE DEF AuditInv
  <1>1. CASE RegistryMiss(c)
    <2>1. server' = [server EXCEPT ![c] = NoServer]
      BY <1>1 DEF RegistryMiss, Pending, TypeOK
    <2> QED  BY <1>1, <2>1, FinishKeeps DEF RegistryMiss, Counters
  <1>2. CASE ClientMiss(c)
    <2>1. tools[tool[c]] \in Servers
      BY <1>2 DEF ClientMiss, Pending, TypeOK, RegistryTypeOK
    <2> QED  BY <1>2, <2>1, FinishKeeps DEF ClientMiss, Counters
  <1>3. CASE CallTool(c)
    <2>1. tools[tool[c]] \in Servers
      BY <1>3 DEF CallTool, Pending, TypeOK, RegistryTypeOK
    <2>2. TypeOK' /\ Pending'
      BY <1>3, <2>1 DEF CallTool, TypeOK, Pending, RegistryTypeOK, trail
    <2>3. AuditedOnce'
      BY <1>3, UnauditedStep DEF CallTool, TypeOK, Over, trail
    <2> QED  BY <2>2, <2>3
  <1>4. CASE Answered(c)
    <2>1. PICK counter \in {"success", "mcp_failure"} : Finish(c, server[c], counter)
      BY <1>4 DEF Answered
    <2>2. server' = [server EXCEPT ![c] = server[c]] /\ server[c] \in Servers \cup {NoServer}
      BY <1>4 DEF Answered, TypeOK
    <2> QED  BY <1>4, <2>1, <2>2, FinishKeeps DEF Answered, Counters
  <1>5. CASE Cancel(c)
    <2>1. TypeOK' /\ Pending'
      BY <1>5 DEF Cancel, TypeOK, Pending, RegistryTypeOK, trail
    <2>2. AuditedOnce'
      BY <1>5, UnauditedStep DEF Cancel, TypeOK, Over, trail
    <2> QED  BY <2>1, <2>2
  <1> QED  BY <1>1, <1>2, <1>3, <1>4, <1>5

LEMMA RouteKeeps ==
  ASSUME AuditInv, NEW c \in Calls, NEW a \in Actions, route_intent(c, a)
  PROVE  AuditInv'
  <1> USE DEF AuditInv
  <1>0. Routes(a) \subseteq ToolIds
    BY DEF Routes, match_pattern, registered
  <1>1. TypeOK'
    BY <1>0 DEF route_intent, TypeOK, RegistryTypeOK, trail
  <1>2. Pending'
    BY <1>0 DEF route_intent, TypeOK, Pending
  <1>3. AuditedOnce'
    BY UnauditedStep DEF route_intent, TypeOK, Over, trail
  <1> QED  BY <1>1, <1>2, <1>3

LEMMA AdministrationKeeps ==
  ASSUME AuditInv,
         \/ \E t \in ToolIds, s \in Servers : Register(t, s)
         \/ \E t \in ToolIds : Unregister(t)
         \/ \E s \in Servers : register_client(s)
         \/ \E l \in Logs : set_event_log(l)
         \/ UNCHANGED vars
  PROVE  AuditInv'
  <1> USE DEF AuditInv
  <1>1. UNCHANGED <<call, trail>>
    BY DEF Register, Unregister, register_client, set_event_log, vars, call, trail
  <1>2. tools' \in [ToolIds -> Servers \cup {NoTool}]
    BY DEF Register, Unregister, register, unregister, register_client, set_event_log, vars,
           TypeOK, RegistryTypeOK
  <1>3. clients' \subseteq Servers /\ event_log' \in Logs \cup {NoLog}
    BY DEF Register, Unregister, register_client, set_event_log, vars, TypeOK
  <1>4. TypeOK' /\ Pending'
    BY <1>1, <1>2, <1>3 DEF TypeOK, RegistryTypeOK, Pending, call, trail
  <1>5. AuditedOnce'
    BY <1>1, UnauditedStep DEF Over, call, trail
  <1> QED  BY <1>4, <1>5

\* The invariant holds in every state.
THEOREM AuditInvHolds == Spec => []AuditInv
  <1>1. AuditInv /\ [Next]_vars => AuditInv'
    BY AccessKeeps, RouteKeeps, AdministrationKeeps DEF Next
  <1> QED  BY <1>1, InitAuditInv, PTL DEF Spec

\* The gateway's variables keep their types, for any constants.
THEOREM GatewayTypeCorrect == Spec => []TypeOK
  <1>1. AuditInv => TypeOK
    BY DEF AuditInv
  <1> QED  BY <1>1, AuditInvHolds, PTL

\* Every access that returned or raised is audited exactly once, with its
\* outcome and the server it was sent to (MCPToolGateway.access_tool).
THEOREM AuditedOnceHolds == Spec => []AuditedOnce
  <1>1. AuditInv => AuditedOnce
    BY DEF AuditInv
  <1> QED  BY <1>1, AuditInvHolds, PTL

-----------------------------------------------------------------------------
(* Routing.                                                                *)

\* A tool set of one is a singleton.
LEMMA OneMatch ==
  ASSUME NEW a, Cardinality(match_pattern(a)) = 1
  PROVE  \E t \in ToolIds : match_pattern(a) = {t}
  <1>1. match_pattern(a) \subseteq ToolIds
    BY DEF match_pattern, registered
  <1>2. IsFiniteSet(match_pattern(a))
    BY <1>1, RegistryAssumption, FS_Subset
  <1> QED  BY <1>1, <1>2, FS_Singleton

\* An action is routed to at most one tool: the one of its own name, or one
\* that it matches.
LEMMA RouteIsOne ==
  ASSUME NEW a, NEW t \in Routes(a)
  PROVE  /\ Routes(a) = {t} /\ t \in registered
         /\ a \in registered => t = a
         /\ a \notin registered => t \in matching[a]
  <1>1. CASE a \in registered
    BY <1>1 DEF Routes
  <1>2. CASE a \notin registered
    <2>1. Cardinality(match_pattern(a)) = 1 /\ Routes(a) = match_pattern(a)
      BY <1>2 DEF Routes
    <2>2. PICK u \in ToolIds : match_pattern(a) = {u}
      BY <2>1, OneMatch
    <2> QED  BY <1>2, <2>1, <2>2 DEF match_pattern
  <1> QED  BY <1>1, <1>2

\* A step turns an action from one registered tool to another only by
\* registering a tool under the action's own name
\* (SimpleIntentRouter.route_intent over ToolRegistry).
THEOREM RoutingIsStableHolds == Spec => RoutingIsStable
  <1>1. ASSUME NEW a \in Actions, Routes(a) \cap registered' # {}, Routes(a)' # {}
        PROVE  \/ Routes(a)' = Routes(a) \cap registered'
               \/ a \in registered' \ registered /\ Routes(a)' = {a}
    <2>1. PICK t : t \in Routes(a) /\ t \in registered'
      BY <1>1
    <2>2. Routes(a) = {t} /\ (a \in registered => t = a) /\ (a \notin registered => t \in matching[a])
      BY <2>1, RouteIsOne
    <2>3. CASE a \in registered'
      <3>1. Routes(a)' = {a}
        BY <2>3 DEF Routes
      <3> QED  BY <2>1, <2>2, <2>3, <3>1
    <2>4. CASE a \notin registered'
      <3>1. t \in match_pattern(a)'
        BY <2>1, <2>2, <2>4 DEF match_pattern, matching, matches
      <3>2. Cardinality(match_pattern(a))' = 1 /\ Routes(a)' = match_pattern(a)'
        BY <1>1, <2>4 DEF Routes
      <3>3. \E u \in ToolIds : match_pattern(a)' = {u}
        <4>1. match_pattern(a)' \subseteq ToolIds
          BY DEF match_pattern, registered
        <4>2. IsFiniteSet(match_pattern(a)')
          BY <4>1, RegistryAssumption, FS_Subset
        <4> QED  BY <3>2, <4>1, <4>2, FS_Singleton
      <3> QED  BY <2>1, <2>2, <3>1, <3>2, <3>3
    <2> QED  BY <2>3, <2>4
  <1>2. [Next]_vars =>
          [\A a \in Actions :
             LET kept == Routes(a) \cap registered'
             IN  kept # {} => \/ Routes(a)' = kept
                              \/ Routes(a)' = {}
                              \/ a \in registered' \ registered /\ Routes(a)' = {a}]_vars
    BY <1>1
  <1> QED  BY <1>2, PTL DEF Spec, RoutingIsStable

-----------------------------------------------------------------------------
(* The three trails of an access.                                          *)

Succeeded == {c \in Calls : pc[c] = "returned"}

\* TrailsAgree counts the calls that returned; they are always finitely many,
\* however many calls there may be.
TrailInv == IsFiniteSet(Succeeded) /\ TrailsAgree

LEMMA InitTrailInv == Init => TrailInv
  <1> SUFFICES ASSUME Init PROVE TrailInv
    OBVIOUS
  <1>1. Succeeded = {}
    BY DEF Init, Succeeded
  <1>2. IsFiniteSet(Succeeded) /\ Cardinality(Succeeded) = 0
    BY <1>1, FS_EmptySet
  <1>3. Len(audit_log) = 0 /\ \A l \in Logs : events[l] = << >>
    BY DEF Init
  <1>4. \A n \in Counters : metrics[n] = 0
    BY DEF Init
  <1> QED  BY <1>2, <1>3, <1>4 DEF TrailInv, TrailsAgree, Succeeded, Counters

\* A step that leaves the trails alone and makes no call return.
LEMMA SilentStep ==
  ASSUME TrailInv, UNCHANGED trail, Succeeded' = Succeeded
  PROVE  TrailInv'
  <1>1. audit_log' = audit_log /\ events' = events /\ metrics' = metrics
    BY DEF trail
  <1>2. IsFiniteSet(Succeeded') /\ metrics'["success"] = Cardinality(Succeeded')
    BY <1>1 DEF TrailInv, TrailsAgree, Succeeded
  <1>3. metrics'["success"] = Cardinality({c \in Calls : pc'[c] = "returned"})
    BY <1>2 DEF Succeeded
  <1> QED  BY <1>1, <1>2, <1>3 DEF TrailInv, TrailsAgree

\* Finish: the new event is of a call that no audit entry, hence no event,
\* was about.
LEMMA FinishAgrees ==
  ASSUME AuditInv, TrailInv, NEW c \in Calls, NEW srv \in Servers \cup {NoServer},
         NEW counter \in Counters, pc[c] \in {"routed", "calling"},
         Finish(c, srv, counter)
  PROVE  TrailInv'
  <1> DEFINE entry == [call |-> c, tool |-> tool[c], server |-> srv,
                       success |-> counter = "success"]
             n == Len(audit_log) + 1
  <1> USE DEF AuditInv
  <1>0. tool[c] \in ToolIds /\ ~Over(c)
    BY DEF Pending, Over
  <1>1. entry \in Entries
    BY <1>0 DEF Entries
  <1>2. audit_log \in Seq(Entries) /\ audit_log' = Append(audit_log, entry)
    BY DEF TypeOK, Finish, record_audit
  <1>3. /\ DOMAIN audit_log' = DOMAIN audit_log \cup {n}
        /\ audit_log'[n] = entry
        /\ \A i \in DOMAIN audit_log : audit_log'[i] = audit_log[i]
        /\ Len(audit_log') = Len(audit_log) + 1
    BY <1>1, <1>2
  <1>4. pc' = [pc EXCEPT ![c] = IF counter = "success" THEN "returned" ELSE "raised"]
        /\ metrics' = [metrics EXCEPT ![counter] = @ + 1]
    BY DEF Finish
  <1>5. /\ metrics["registry_miss"] \in Nat /\ metrics["client_miss"] \in Nat
        /\ metrics["mcp_failure"] \in Nat /\ metrics["success"] \in Nat
        /\ Len(audit_log) \in Nat
    BY <1>2 DEF TypeOK, Counters
  <1>6. metrics'["registry_miss"] + metrics'["client_miss"] + metrics'["mcp_failure"]
          + metrics'["success"] = Len(audit_log')
    <2>1. metrics["registry_miss"] + metrics["client_miss"] + metrics["mcp_failure"]
            + metrics["success"] = Len(audit_log)
      BY DEF TrailInv, TrailsAgree
    <2>2. metrics \in [Counters -> Nat]
      BY DEF TypeOK
    <2> QED  BY <1>3, <1>4, <1>5, <2>1, <2>2 DEF Counters
  <1>7. /\ IsFiniteSet(Succeeded')
        /\ metrics'["success"] = Cardinality(Succeeded')
    <2>1. IsFiniteSet(Succeeded) /\ metrics["success"] = Cardinality(Succeeded)
      BY DEF TrailInv, TrailsAgree, Succeeded
    <2>2. CASE counter = "success"
      <3>1. Succeeded' = Succeeded \cup {c} /\ c \notin Succeeded
        BY <1>0, <1>4, <2>2 DEF Succeeded, Over, TypeOK
      <3>2. metrics'["success"] = metrics["success"] + 1
        BY <1>4, <2>2 DEF TypeOK, Counters
      <3> QED  BY <2>1, <3>1, <3>2, FS_AddElement
    <2>3. CASE counter # "success"
      <3>1. Succeeded' = Succeeded
        BY <1>0, <1>4, <2>3 DEF Succeeded, Over, TypeOK
      <3>2. metrics'["success"] = metrics["success"]
        BY <1>4, <2>3 DEF TypeOK, Counters
      <3> QED  BY <2>1, <3>1, <3>2
    <2> QED  BY <2>2, <2>3
  <1>8. \A l \in Logs : \A i \in DOMAIN events[l] : events[l][i] # entry
    <2>1. EntriesOf(c) = {}
      BY <1>0 DEF AuditedOnce
    <2>2. \A j \in DOMAIN audit_log : audit_log[j] # entry
      BY <2>1 DEF EntriesOf
    <2> QED  BY <2>2 DEF TrailInv, TrailsAgree
  <1>9. ASSUME NEW l \in Logs
        PROVE  \/ events'[l] = events[l]
               \/ /\ l = event_log
                  /\ DOMAIN events'[l] = DOMAIN events[l] \cup {Len(events[l]) + 1}
                  /\ events'[l][Len(events[l]) + 1] = entry
                  /\ \A i \in DOMAIN events[l] : events'[l][i] = events[l][i]
    <2>1. events[l] \in Seq(Entries)
      BY DEF TypeOK
    <2>2. events'[l] = events[l] \/ (l = event_log /\ events'[l] = Append(events[l], entry))
      BY DEF Finish, record_audit, emit, TypeOK
    <2> HIDE DEF entry
    <2> QED  BY <1>1, <2>1, <2>2
  <1> HIDE DEF entry, n
  <1>10. ASSUME NEW l \in Logs, NEW i \in DOMAIN events'[l]
         PROVE  \/ /\ l = event_log /\ i = Len(events[l]) + 1 /\ events'[l][i] = entry
                \/ i \in DOMAIN events[l] /\ events'[l][i] = events[l][i]
    BY <1>9
  <1>11. ASSUME NEW l \in Logs, NEW i \in DOMAIN events'[l]
         PROVE  /\ \E j \in DOMAIN audit_log' : audit_log'[j] = events'[l][i]
                /\ \A k \in Logs : \A j \in DOMAIN events'[k] :
                     events'[k][j] = events'[l][i] => k = l /\ j = i
    <2>1. \E j \in DOMAIN audit_log' : audit_log'[j] = events'[l][i]
      <3>1. CASE events'[l][i] = entry
        <4>1. n \in DOMAIN audit_log' /\ audit_log'[n] = events'[l][i]
          BY <1>3, <3>1
        <4> QED  BY <4>1
      <3>2. CASE i \in DOMAIN events[l] /\ events'[l][i] = events[l][i]
        <4>1. PICK j \in DOMAIN audit_log : audit_log[j] = events[l][i]
          BY <3>2 DEF TrailInv, TrailsAgree
        <4>2. j \in DOMAIN audit_log' /\ audit_log'[j] = events'[l][i]
          BY <1>3, <3>2, <4>1
        <4> QED  BY <4>2
      <3> QED  BY <1>10, <3>1, <3>2
    <2>2. ASSUME NEW k \in Logs, NEW j \in DOMAIN events'[k], events'[k][j] = events'[l][i]
          PROVE  k = l /\ j = i
      <3>1. CASE events'[l][i] = entry
        BY <1>8, <1>10, <2>2, <3>1
      <3>2. CASE events'[l][i] # entry
        <4>1. i \in DOMAIN events[l] /\ events'[l][i] = events[l][i]
          BY <1>10, <3>2
        <4>2. j \in DOMAIN events[k] /\ events'[k][j] = events[k][j]
          BY <1>10, <2>2, <3>2
        <4> QED  BY <2>2, <4>1, <4>2 DEF TrailInv, TrailsAgree
      <3> QED  BY <3>1, <3>2
    <2> QED  BY <2>1, <2>2
  <1> QED  BY <1>6, <1>7, <1>11 DEF TrailInv, TrailsAgree, Succeeded

LEMMA NextTrailInv == AuditInv /\ TrailInv /\ [Next]_vars => TrailInv'
  <1> SUFFICES ASSUME AuditInv, TrailInv, [Next]_vars PROVE TrailInv'
    OBVIOUS
  <1> USE DEF AuditInv
  <1>1. ASSUME NEW c \in Calls, RegistryMiss(c)
        PROVE  TrailInv'
    BY <1>1, FinishAgrees DEF RegistryMiss, Counters
  <1>2. ASSUME NEW c \in Calls, ClientMiss(c)
        PROVE  TrailInv'
    <2>1. tools[tool[c]] \in Servers
      BY <1>2 DEF ClientMiss, Pending, TypeOK, RegistryTypeOK
    <2> QED  BY <1>2, <2>1, FinishAgrees DEF ClientMiss, Counters
  <1>3. ASSUME NEW c \in Calls, Answered(c)
        PROVE  TrailInv'
    <2>1. PICK counter \in {"success", "mcp_failure"} : Finish(c, server[c], counter)
      BY <1>3 DEF Answered
    <2>2. server[c] \in Servers \cup {NoServer}
      BY DEF TypeOK
    <2> QED  BY <1>3, <2>1, <2>2, FinishAgrees DEF Answered, Counters
  <1>4. ASSUME NEW c \in Calls, CallTool(c) \/ Cancel(c) \/ \E a \in Actions : route_intent(c, a)
        PROVE  TrailInv'
    <2>1. UNCHANGED trail
      BY <1>4 DEF CallTool, Cancel, route_intent, trail
    <2>2. Succeeded' = Succeeded
      BY <1>4 DEF CallTool, Cancel, route_intent, Succeeded, TypeOK
    <2> QED  BY <2>1, <2>2, SilentStep
  <1>5. CASE \/ \E t \in ToolIds, s \in Servers : Register(t, s)
             \/ \E t \in ToolIds : Unregister(t)
             \/ \E s \in Servers : register_client(s)
             \/ \E l \in Logs : set_event_log(l)
             \/ UNCHANGED vars
    <2>1. UNCHANGED <<call, trail>>
      BY <1>5 DEF Register, Unregister, register_client, set_event_log, vars, call, trail
    <2> QED  BY <2>1, SilentStep DEF Succeeded, call
  <1> QED  BY <1>1, <1>2, <1>3, <1>4, <1>5 DEF Next

\* The audit log, the event logs and the counters never disagree, for any
\* number of calls, tools and logs (gateway.py: _record_audit and the
\* metrics of access_tool).
THEOREM TrailsAgreeHolds == Spec => []TrailsAgree
  <1>1. TrailInv => TrailsAgree
    BY DEF TrailInv
  <1> QED  BY <1>1, InitTrailInv, NextTrailInv, AuditInvHolds, PTL DEF Spec

-----------------------------------------------------------------------------
(* PluginLoader, on constants and variables of its own: the files.         *)

\* What is true of a directory whose last install succeeded and that nothing
\* has touched since.
GoodDir(d) ==
  /\ good[d] \in Packages
  /\ validate_manifest(good[d]) = "valid"
  /\ plugin_dest(good[d]) = d
  /\ \A f \in Content(good[d]) : disk[d][f] = good[d]

FilesTyped ==
  /\ disk \in [Dirs -> [Files -> Packages \cup {NoFile}]]
  /\ good \in [Dirs -> Packages \cup {NoFile}]

PluginFilesInv ==
  /\ FilesTyped
  /\ \A d \in Dirs : good[d] # NoFile => GoodDir(d)

\* A package has a directory of its own, and its files are files.
LEMMA PackageHome ==
  ASSUME NEW p \in Packages
  PROVE  /\ plugin_dest(p) \in Dirs
         /\ Content(p) \subseteq Files
         /\ p # NoFile
         /\ p.name \in Names
<1>1. p # NoFile
  BY LoaderAssumption
<1>2. p.name \in Names
  BY DEF Names
<1>3. Content(p) \subseteq Files
  <2>1. p.files \in {q.files : q \in Packages}
    OBVIOUS
  <2>2. \A f \in p.files : f \in UNION {q.files : q \in Packages}
    BY <2>1
  <2> QED
    BY <2>2 DEF Content, Files
<1>4. plugin_dest(p) \in Dirs
  BY DEF Dirs
<1> QED
  BY <1>1, <1>2, <1>3, <1>4

\* A change of the files of one directory after which the directory counts as
\* untouched only if it is whole.
LEMMA OneDirChanges ==
  ASSUME PluginFilesInv, NEW d \in Dirs,
         NEW content \in [Files -> Packages \cup {NoFile}],
         NEW g \in Packages \cup {NoFile},
         disk' = [disk EXCEPT ![d] = content], good' = [good EXCEPT ![d] = g],
         g # NoFile => /\ g \in Packages
                       /\ validate_manifest(g) = "valid"
                       /\ plugin_dest(g) = d
                       /\ \A f \in Content(g) : content[f] = g
  PROVE  PluginFilesInv'
<1>1. FilesTyped'
  BY DEF PluginFilesInv, FilesTyped
<1>2. ASSUME NEW e \in Dirs, good'[e] # NoFile
      PROVE  GoodDir(e)'
  <2>1. CASE e = d
    BY <1>2, <2>1 DEF PluginFilesInv, FilesTyped, GoodDir
  <2>2. CASE e # d
    <3>1. good'[e] = good[e] /\ disk'[e] = disk[e]
      BY <2>2 DEF PluginFilesInv, FilesTyped
    <3> QED
      BY <1>2, <3>1 DEF PluginFilesInv, GoodDir
  <2> QED
    BY <2>1, <2>2
<1> QED
  BY <1>1, <1>2 DEF PluginFilesInv

\* Copying files of a package over a directory.
LEMMA OverlaidDir ==
  ASSUME PluginFilesInv, NEW d \in Dirs, NEW p \in Packages, NEW copied,
         disk' = Overlay(d, p, copied)
  PROVE  \E content \in [Files -> Packages \cup {NoFile}] :
           /\ disk' = [disk EXCEPT ![d] = content]
           /\ \A f \in Files : f \in copied => content[f] = p
<1> DEFINE content == [f \in Files |-> IF f \in copied THEN p ELSE disk[d][f]]
<1>1. disk' = [disk EXCEPT ![d] = content]
  BY DEF Overlay
<1>2. content \in [Files -> Packages \cup {NoFile}]
  BY DEF PluginFilesInv, FilesTyped
<1>3. \A f \in Files : f \in copied => content[f] = p
  OBVIOUS
<1> HIDE DEF content
<1> QED
  BY <1>1, <1>2, <1>3

LEMMA InstallKeepsFiles ==
  ASSUME PluginFilesInv, NEW p \in Packages,
         install_from_path(p) \/ InstallRaises(p) \/ Edited(p)
  PROVE  PluginFilesInv'
<1> DEFINE d == plugin_dest(p)
<1>1. d \in Dirs /\ Content(p) \subseteq Files /\ p # NoFile
  BY PackageHome
<1>2. CASE install_from_path(p)
  <2>1. /\ disk' = Overlay(d, p, Content(p))
        /\ good' = [good EXCEPT ![d] = p]
        /\ validate_manifest(p) = "valid"
        /\ plugin_dest(p) = d
    BY <1>2 DEF install_from_path
  <2> HIDE DEF d
  <2>2. PICK content \in [Files -> Packages \cup {NoFile}] :
           /\ disk' = [disk EXCEPT ![d] = content]
           /\ \A f \in Files : f \in Content(p) => content[f] = p
    BY <1>1, <2>1, OverlaidDir
  <2>3. \A f \in Content(p) : content[f] = p
    BY <1>1, <2>2
  <2> QED
    BY <1>1, <2>1, <2>2, <2>3, OneDirChanges
<1>3. CASE InstallRaises(p) \/ Edited(p)
  <2>1. PICK copied : disk' = Overlay(d, p, copied)
    BY <1>3 DEF InstallRaises, Edited
  <2>2. good' = [good EXCEPT ![d] = NoFile]
    BY <1>3 DEF InstallRaises, Edited
  <2> HIDE DEF d
  <2>3. PICK content \in [Files -> Packages \cup {NoFile}] :
           disk' = [disk EXCEPT ![d] = content]
    BY <1>1, <2>1, OverlaidDir
  <2> QED
    BY <1>1, <2>2, <2>3, OneDirChanges
<1> QED
  BY <1>2, <1>3

LEMMA RemoveKeepsFiles ==
  ASSUME PluginFilesInv, NEW n, remove(n)
  PROVE  PluginFilesInv'
<1>1. PICK d : Delete(d)
  BY DEF remove
<1>2. PICK gone \in SUBSET (Below(d) \X Files) :
        disk' = [e \in Dirs |-> [f \in Files |-> IF <<e, f>> \in gone THEN NoFile ELSE disk[e][f]]]
  BY <1>1 DEF Delete
<1>3. good' = [e \in Dirs |-> IF e \in Below(d) THEN NoFile ELSE good[e]]
  BY <1>1 DEF Delete
<1>4. FilesTyped'
  <2>1. \A e \in Dirs : [f \in Files |-> IF <<e, f>> \in gone THEN NoFile ELSE disk[e][f]]
                          \in [Files -> Packages \cup {NoFile}]
    BY DEF PluginFilesInv, FilesTyped
  <2> QED
    BY <1>2, <1>3, <2>1 DEF PluginFilesInv, FilesTyped
<1>5. ASSUME NEW e \in Dirs, good'[e] # NoFile
      PROVE  GoodDir(e)'
  <2>1. e \notin Below(d) /\ good'[e] = good[e]
    BY <1>3, <1>5
  <2>2. \A f \in Files : disk'[e][f] = disk[e][f]
    BY <1>2, <2>1
  <2>3. GoodDir(e)
    BY <1>5, <2>1 DEF PluginFilesInv
  <2>4. Content(good[e]) \subseteq Files
    BY <2>3, PackageHome DEF GoodDir
  <2> QED
    BY <2>1, <2>2, <2>3, <2>4 DEF GoodDir
<1> QED
  BY <1>4, <1>5 DEF PluginFilesInv

\* A plugin whose name is one path component goes where the scan looks.
LEMMA OneComponentIsScanned ==
  ASSUME NEW p \in Packages, one_component(p.name)
  PROVE  plugin_dest(p) \in ScannedDirs
<1>1. type_dir(p) \in PLUGIN_DIRS
  BY LoaderAssumption DEF PluginType, type_dir, PLUGIN_DIRS
<1>2. p.name.parts \in Seq(STRING) /\ Len(p.name.parts) = 1 /\ p.name.up = 0 /\ ~p.name.absolute
  BY LoaderAssumption DEF one_component
<1>3. PICK parts : parts = p.name.parts
  OBVIOUS
<1>4. parts = <<parts[1]>> /\ parts[1] \in Components
  <2>1. 1 \in 1 .. Len(p.name.parts)
    BY <1>2
  <2>2. parts[1] \in Components
    BY <1>3, <2>1 DEF Components
  <2>3. parts \in Seq(STRING) /\ Len(parts) = 1
    BY <1>2, <1>3
  <2> QED
    BY <2>2, <2>3
<1>5. PICK dir : dir = plugin_dir(type_dir(p))
  OBVIOUS
<1>6. PICK S : S = {dir[1], dir[2], dir[3]}
  OBVIOUS
<1>7. dir \in Seq(S) /\ Len(dir) = 3
  <2>1. PICK t : t = type_dir(p)
    OBVIOUS
  <2>2. PICK r : r = "root"
    OBVIOUS
  <2>3. PICK a : a = "agents"
    OBVIOUS
  <2>4. dir = <<r, a, t>>
    BY <1>5, <2>1, <2>2, <2>3 DEF plugin_dir
  <2>5. r \in S /\ a \in S /\ t \in S
    BY <1>6, <2>4
  <2> QED
    BY <2>4, <2>5
<1>8. SubSeq(dir, 1, 3 - 0) = dir
  BY <1>7
<1>9. plugin_dest(p) = plugin_dir(type_dir(p)) \o <<parts[1]>>
  BY <1>2, <1>3, <1>4, <1>5, <1>8 DEF plugin_dest
<1>10. plugin_dest(p) \in Dirs
  BY DEF Dirs
<1> QED
  BY <1>1, <1>4, <1>9, <1>10 DEF ScannedDirs

LEMMA GoodIsListed ==
  ASSUME PluginFilesInv
  PROVE  InstalledIsListed
<1> SUFFICES ASSUME NEW d \in Dirs, good[d] # NoFile
             PROVE  /\ \A f \in Content(good[d]) : disk[d][f] = good[d]
                    /\ plugin_dest(good[d]) = d
                    /\ one_component(good[d].name) =>
                         <<d, good[d]>> \in discover_plugins \/ discovery_raises
                    /\ validate_manifest(good[d]) # "TypeError"
  BY DEF InstalledIsListed
<1>1. GoodDir(d)
  BY DEF PluginFilesInv
<1> DEFINE x == <<d, good[d]>>
<1>2. ASSUME one_component(good[d].name)
      PROVE  x \in discover_plugins \/ discovery_raises
  <2>1. d \in ScannedDirs
    BY <1>1, <1>2, OneComponentIsScanned DEF GoodDir
  <2>2. x \in ScannedDirs \X Packages /\ x[1] = d /\ x[2] = good[d]
    BY <1>1, <2>1 DEF GoodDir
  <2>3. disk[d]["manifest.yaml"] = good[d]
    BY <1>1 DEF GoodDir, Content
  <2> HIDE DEF x
  <2>4. x \in Scanned
    BY <2>2, <2>3 DEF Scanned
  <2> QED
    BY <1>1, <2>2, <2>4 DEF discover_plugins, GoodDir
<1> QED
  BY <1>1, <1>2 DEF GoodDir

-----------------------------------------------------------------------------
(* PluginLoader: the bridge.                                               *)

Call == [kind : {"none", "register", "unregister"}, plugin : Packages \cup {NoFile},
         at : {"idle", "policy", "store", "stored", "over"}]

BridgeTyped ==
  /\ op \in [Ops -> Call]
  /\ caps \in [Names -> Packages \cup {NoFile}]
  /\ registry \in [Names -> Packages \cup {NoFile}]
  /\ disturbed \subseteq Names

\* A call that has begun is for a package, to register or to unregister it.
BegunIsForPackage ==
  \A o \in Ops : op[o] # Idle =>
    op[o].plugin \in Packages /\ op[o].kind \in {"register", "unregister"}

\* o is a call for the name n that is under way.
Busy(o, n) == op[o].at \in {"policy", "store", "stored"} /\ op[o].plugin.name = n

\* A name nobody disturbed: at most one call is under way.  Before it, and
\* until the store acts, store and registry agree; afterwards the store is
\* ahead of the registry by what the call is about to do there.
Sequential(n) ==
  /\ \A o, q \in Ops : Busy(o, n) /\ Busy(q, n) => o = q
  /\ (\A o \in Ops : Busy(o, n) => op[o].at # "stored") => caps[n] = registry[n]
  /\ \A o \in Ops : Busy(o, n) /\ op[o].at = "stored" =>
       caps[n] = IF op[o].kind = "register" THEN op[o].plugin ELSE NoFile

\* A name that somebody has called unregister for.
Unregistered(n) == \E o \in Ops : op[o].kind = "unregister" /\ op[o].plugin.name = n

StoreFirst(n) ==
  ~Unregistered(n) =>
    /\ registry[n] # NoFile => caps[n] # NoFile
    /\ \A o \in Ops : Busy(o, n) /\ op[o].at = "stored" => caps[n] # NoFile

BridgeInv ==
  /\ BridgeTyped
  /\ BegunIsForPackage
  /\ \A n \in Names : n \notin disturbed => Sequential(n)
  /\ \A n \in Names : StoreFirst(n)

\* A call o begins, for a package p.
LEMMA BeginKeepsBridge ==
  ASSUME BridgeInv, NEW o \in Ops, NEW p \in Packages,
         NEW k \in {"register", "unregister"}, NEW at \in {"policy", "store"},
         op[o] = Idle, op' = [op EXCEPT ![o] = [kind |-> k, plugin |-> p, at |-> at]],
         Begins(p.name), UNCHANGED <<caps, registry>>
  PROVE  BridgeInv'
<1> DEFINE begun == [kind |-> k, plugin |-> p, at |-> at]
<1>1. /\ begun \in Call /\ begun.kind = k /\ begun.plugin = p /\ begun.at = at
      /\ begun # Idle
  BY DEF Call, Idle
<1>2. op' = [op EXCEPT ![o] = begun]
  OBVIOUS
<1> HIDE DEF begun
<1>3. /\ op' \in [Ops -> Call]
      /\ op'[o] = begun
      /\ \A q \in Ops \ {o} : op'[q] = op[q]
  BY <1>1, <1>2 DEF BridgeInv, BridgeTyped
<1>4. /\ disturbed' \subseteq Names
      /\ disturbed \subseteq disturbed'
      /\ p.name \notin disturbed' => \A q \in Ops : ~Busy(q, p.name)
  BY PackageHome DEF Begins, Active, Busy, BridgeInv, BridgeTyped
<1>5. BridgeTyped'
  BY <1>3, <1>4 DEF BridgeInv, BridgeTyped
<1>6. BegunIsForPackage'
  BY <1>1, <1>3 DEF BridgeInv, BegunIsForPackage
<1>7. op[o].at = "idle" /\ op[o].kind = "none"
  BY DEF Idle
<1>8. ASSUME NEW n \in Names, n \notin disturbed'
      PROVE  Sequential(n)'
  <2>1. Sequential(n)
    BY <1>4, <1>8 DEF BridgeInv
  <2>2. CASE n = p.name
    <3>1. \A q \in Ops \ {o} : ~Busy(q, n)'
      BY <1>3, <1>4, <1>8, <2>2 DEF Busy
    <3>2. op'[o].at # "stored"
      BY <1>1, <1>3
    <3>3. caps[n] = registry[n]
      BY <1>4, <1>8, <2>1, <2>2 DEF Sequential
    <3> QED
      BY <3>1, <3>2, <3>3 DEF Sequential
  <2>3. CASE n # p.name
    <3>1. ~Busy(o, n) /\ ~Busy(o, n)'
      BY <1>1, <1>3, <1>7, <2>3 DEF Busy
    <3>2. \A q \in Ops : Busy(q, n)' <=> Busy(q, n)
      BY <1>3, <3>1 DEF Busy
    <3> QED
      BY <1>3, <2>1, <3>1, <3>2 DEF Sequential
  <2> QED
    BY <2>2, <2>3
<1>9. ASSUME NEW n \in Names, ~Unregistered(n)'
      PROVE  StoreFirst(n)'
  <2>1. ~Unregistered(n)
    BY <1>3, <1>7, <1>9 DEF Unregistered
  <2>2. \A q \in Ops : Busy(q, n)' /\ op'[q].at = "stored" => Busy(q, n) /\ op[q].at = "stored"
    BY <1>1, <1>3 DEF Busy
  <2> QED
    BY <2>1, <2>2 DEF BridgeInv, StoreFirst
<1>10. \A n \in Names : StoreFirst(n)'
  BY <1>9 DEF StoreFirst
<1> QED
  BY <1>5, <1>6, <1>8, <1>10 DEF BridgeInv

\* What Moves does to the calls.
LEMMA MovesEffect ==
  ASSUME BridgeTyped, NEW o \in Ops, NEW at \in {"store", "stored", "over"}, Moves(o, at)
  PROVE  /\ op' \in [Ops -> Call]
         /\ op'[o].kind = op[o].kind /\ op'[o].plugin = op[o].plugin /\ op'[o].at = at
         /\ \A q \in Ops \ {o} : op'[q] = op[q]
<1>1. op' = [op EXCEPT ![o] = [op[o] EXCEPT !.at = at]]
  BY DEF Moves
<1>2. op[o] \in Call
  BY DEF BridgeTyped
<1> DEFINE moved == [op[o] EXCEPT !.at = at]
<1>3. /\ moved \in Call
      /\ moved.kind = op[o].kind /\ moved.plugin = op[o].plugin /\ moved.at = at
  BY <1>2 DEF Call
<1> HIDE DEF moved
<1>4. op' = [op EXCEPT ![o] = moved]
  BY <1>1 DEF moved
<1> QED
  BY <1>3, <1>4 DEF BridgeTyped

\* A step of the call o, which is for the name n, to `at`.
CallMoves(o, n, at) ==
  /\ op' \in [Ops -> Call]
  /\ op[o].at \in {"policy", "store", "stored"}
  /\ op[o].plugin \in Packages
  /\ op[o].plugin.name = n
  /\ op[o].kind \in {"register", "unregister"}
  /\ op'[o].kind = op[o].kind /\ op'[o].plugin = op[o].plugin /\ op'[o].at = at
  /\ \A q \in Ops \ {o} : op'[q] = op[q]

LEMMA CallMovesHolds ==
  ASSUME BridgeInv, NEW o \in Ops,
         op[o].at \in {"policy", "store", "stored"},
         NEW at \in {"store", "stored", "over"}, Moves(o, at)
  PROVE  CallMoves(o, op[o].plugin.name, at) /\ op[o].plugin.name \in Names
<1>1. op[o] # Idle
  BY DEF Idle
<1>2. op[o].plugin \in Packages /\ op[o].kind \in {"register", "unregister"}
  BY <1>1 DEF BridgeInv, BegunIsForPackage
<1> QED
  BY <1>2, MovesEffect, PackageHome DEF CallMoves, BridgeInv

\* It leaves the calls for other names alone.
LEMMA OtherNames ==
  ASSUME NEW o \in Ops, NEW n, NEW at, CallMoves(o, n, at), NEW m, m # n,
         caps'[m] = caps[m], registry'[m] = registry[m]
  PROVE  (Sequential(m) => Sequential(m)') /\ (StoreFirst(m) => StoreFirst(m)')
<1>1. ~Busy(o, m) /\ ~Busy(o, m)'
  BY DEF CallMoves, Busy
<1>2. \A q \in Ops : Busy(q, m)' <=> Busy(q, m)
  BY <1>1 DEF CallMoves, Busy
<1>3. \A q \in Ops : Busy(q, m) => op'[q] = op[q]
  BY <1>1 DEF CallMoves
<1>4. Unregistered(m)' <=> Unregistered(m)
  BY DEF Unregistered, CallMoves
<1> QED
  BY <1>2, <1>3, <1>4 DEF Sequential, StoreFirst

\* The invariant after a step of a call, given what it is about.
LEMMA CallKeepsBridge ==
  ASSUME BridgeInv, NEW o \in Ops, NEW n \in Names, NEW at \in {"store", "stored", "over"},
         CallMoves(o, n, at),
         caps' \in [Names -> Packages \cup {NoFile}],
         registry' \in [Names -> Packages \cup {NoFile}],
         disturbed' \in {disturbed, disturbed \cup {n}},
         \A m \in Names \ {n} : caps'[m] = caps[m] /\ registry'[m] = registry[m],
         n \notin disturbed' => Sequential(n)',
         StoreFirst(n)'
  PROVE  BridgeInv'
<1>1. BridgeTyped'
  BY DEF BridgeInv, BridgeTyped, CallMoves
<1>2. BegunIsForPackage'
  BY DEF BridgeInv, BegunIsForPackage, CallMoves
<1>3. ASSUME NEW m \in Names, m \notin disturbed' PROVE Sequential(m)'
  BY <1>3, OtherNames DEF BridgeInv
<1>4. ASSUME NEW m \in Names PROVE StoreFirst(m)'
  BY <1>4, OtherNames DEF BridgeInv
<1> QED
  BY <1>1, <1>2, <1>3, <1>4 DEF BridgeInv

\* The policy answers, or a call raises.
LEMMA AnswerKeepsBridge ==
  ASSUME BridgeInv, NEW o \in Ops,
         PolicyAnswers(o) \/ BridgeRaises(o)
  PROVE  BridgeInv'
<1>0. PICK n : n = op[o].plugin.name
  OBVIOUS
<1>1. PICK at \in {"store", "over"} : Moves(o, at)
  BY DEF PolicyAnswers, BridgeRaises
<1>2. /\ UNCHANGED <<caps, registry>>
      /\ op[o].at \in {"policy", "store", "stored"}
      /\ disturbed' \in {disturbed, disturbed \cup {n}}
      /\ n \notin disturbed' => op[o].at = "policy"
  BY <1>0 DEF PolicyAnswers, BridgeRaises
<1>3. CallMoves(o, n, at) /\ n \in Names
  BY <1>0, <1>1, <1>2, CallMovesHolds
<1>4. \A q \in Ops : Busy(q, n)' => Busy(q, n)
  BY <1>2, <1>3 DEF CallMoves, Busy
<1>5. Busy(o, n)
  BY <1>2, <1>3 DEF CallMoves, Busy
<1>6. ASSUME n \notin disturbed' PROVE Sequential(n)'
  <2>1. Sequential(n) /\ op[o].at = "policy"
    BY <1>2, <1>3, <1>6 DEF BridgeInv
  <2>2. \A q \in Ops : Busy(q, n) => q = o
    BY <1>5, <2>1 DEF Sequential
  <2>3. caps[n] = registry[n]
    BY <2>1, <2>2 DEF Sequential
  <2>4. \A q \in Ops : Busy(q, n)' => q = o /\ op'[q].at # "stored"
    BY <1>1, <1>3, <1>4, <2>2 DEF CallMoves
  <2> QED
    BY <1>2, <2>3, <2>4 DEF Sequential
<1>7. StoreFirst(n)'
  <2>1. Unregistered(n) => Unregistered(n)'
    BY <1>3 DEF Unregistered, CallMoves
  <2>2. \A q \in Ops : Busy(q, n)' /\ op'[q].at = "stored" => Busy(q, n) /\ op[q].at = "stored"
    BY <1>1, <1>3, <1>4 DEF CallMoves
  <2> QED
    BY <1>2, <1>3, <2>1, <2>2 DEF BridgeInv, StoreFirst
<1>8. /\ caps' \in [Names -> Packages \cup {NoFile}]
      /\ registry' \in [Names -> Packages \cup {NoFile}]
  BY <1>2 DEF BridgeInv, BridgeTyped
<1> QED
  BY <1>1, <1>2, <1>3, <1>6, <1>7, <1>8, CallKeepsBridge

\* The store adds or removes the capabilities.
LEMMA StoreKeepsBridge ==
  ASSUME BridgeInv, NEW o \in Ops, StoreActs(o)
  PROVE  BridgeInv'
<1>0. PICK n, held : /\ n = op[o].plugin.name
                     /\ held = IF op[o].kind = "register" THEN op[o].plugin ELSE NoFile
  OBVIOUS
<1>1. /\ op[o].at = "store"
      /\ Moves(o, "stored")
      /\ caps' = [caps EXCEPT ![n] = held]
      /\ UNCHANGED <<registry, disturbed>>
  BY <1>0 DEF StoreActs
<1>2. CallMoves(o, n, "stored") /\ n \in Names
  BY <1>0, <1>1, CallMovesHolds
<1>3. /\ held \in Packages \cup {NoFile}
      /\ op[o].kind = "register" => held # NoFile
  BY <1>0, <1>2, PackageHome DEF CallMoves
<1>4. held = IF op'[o].kind = "register" THEN op'[o].plugin ELSE NoFile
  BY <1>0, <1>2 DEF CallMoves
<1>5. /\ caps' \in [Names -> Packages \cup {NoFile}]
      /\ caps'[n] = held
      /\ \A m \in Names \ {n} : caps'[m] = caps[m]
  BY <1>1, <1>2, <1>3 DEF BridgeInv, BridgeTyped
<1>6. Busy(o, n) /\ Busy(o, n)' /\ op'[o].at = "stored"
  BY <1>1, <1>2 DEF CallMoves, Busy
<1>7. \A q \in Ops : Busy(q, n)' <=> Busy(q, n)
  BY <1>2, <1>6 DEF CallMoves, Busy
<1>8. ASSUME n \notin disturbed' PROVE Sequential(n)'
  <2>1. Sequential(n)
    BY <1>1, <1>2, <1>8 DEF BridgeInv
  <2>2. \A q \in Ops : Busy(q, n) => q = o
    BY <1>6, <2>1 DEF Sequential
  <2> QED
    BY <1>4, <1>5, <1>6, <1>7, <2>2 DEF Sequential
<1>9. StoreFirst(n)'
  <2> SUFFICES ASSUME ~Unregistered(n)' PROVE caps'[n] # NoFile
    BY DEF StoreFirst
  <2>1. op[o].kind = "register"
    BY <1>2 DEF Unregistered, CallMoves
  <2> QED
    BY <1>3, <1>5, <2>1
<1>10. registry' \in [Names -> Packages \cup {NoFile}]
  BY <1>1 DEF BridgeInv, BridgeTyped
<1> QED
  BY <1>1, <1>2, <1>5, <1>8, <1>9, <1>10, CallKeepsBridge

\* The last step of a call: the registry follows the store.
LEMMA ToolKeepsBridge ==
  ASSUME BridgeInv, NEW o \in Ops,
         RegisterTool(o) \/ UnregisterTool(o)
  PROVE  BridgeInv'
<1>0. PICK n, held : /\ n = op[o].plugin.name
                     /\ held = IF op[o].kind = "register" THEN op[o].plugin ELSE NoFile
  OBVIOUS
<1>1. /\ op[o].at = "stored"
      /\ Moves(o, "over")
      /\ registry' = [registry EXCEPT ![n] = held]
      /\ UNCHANGED <<caps, disturbed>>
  BY <1>0 DEF RegisterTool, UnregisterTool
<1>2. CallMoves(o, n, "over") /\ n \in Names
  BY <1>0, <1>1, CallMovesHolds
<1>3. held \in Packages \cup {NoFile}
  BY <1>0, <1>2 DEF CallMoves
<1>4. held = IF op[o].kind = "register" THEN op[o].plugin ELSE NoFile
  BY <1>0
<1>5. /\ registry' \in [Names -> Packages \cup {NoFile}]
      /\ \A m \in Names \ {n} : registry'[m] = registry[m]
      /\ registry'[n] = held
  BY <1>1, <1>2, <1>3 DEF BridgeInv, BridgeTyped
<1>6. Busy(o, n) /\ ~Busy(o, n)'
  BY <1>1, <1>2 DEF CallMoves, Busy
<1>7. \A q \in Ops : Busy(q, n)' => Busy(q, n) /\ op'[q] = op[q]
  BY <1>2, <1>6 DEF CallMoves, Busy
<1>8. ASSUME n \notin disturbed' PROVE Sequential(n)'
  <2>1. Sequential(n)
    BY <1>1, <1>2, <1>8 DEF BridgeInv
  <2>2. \A q \in Ops : Busy(q, n) => q = o
    BY <1>6, <2>1 DEF Sequential
  <2>3. \A q \in Ops : ~Busy(q, n)'
    BY <1>6, <1>7, <2>2
  <2>4. caps[n] = held
    BY <1>1, <1>4, <1>6, <2>1 DEF Sequential
  <2> QED
    BY <1>1, <1>5, <1>8, <2>3, <2>4 DEF Sequential
<1>9. StoreFirst(n)'
  <2> SUFFICES ASSUME ~Unregistered(n)' PROVE caps'[n] # NoFile
    BY DEF StoreFirst
  <2>1. ~Unregistered(n)
    BY <1>2 DEF Unregistered, CallMoves
  <2> QED
    BY <1>1, <1>2, <1>6, <2>1 DEF BridgeInv, StoreFirst
<1>10. /\ caps' \in [Names -> Packages \cup {NoFile}]
       /\ disturbed' \in {disturbed, disturbed \cup {n}}
       /\ \A m \in Names \ {n} : caps'[m] = caps[m]
  BY <1>1 DEF BridgeInv, BridgeTyped
<1> QED
  BY <1>2, <1>5, <1>8, <1>9, <1>10, CallKeepsBridge

-----------------------------------------------------------------------------
(* PluginLoader: every step, and the theorems.                             *)

PluginInv == PluginFilesInv /\ BridgeInv

LEMMA InitPlugin == LoaderInit => PluginInv
<1> SUFFICES ASSUME LoaderInit PROVE PluginInv
  OBVIOUS
<1>1. PluginFilesInv
  BY DEF LoaderInit, PluginFilesInv, FilesTyped
<1>2. Idle \in Call /\ Idle.at = "idle" /\ Idle.kind = "none"
  BY DEF Idle, Call
<1>3. \A o \in Ops : op[o] = Idle
  BY DEF LoaderInit
<1>4. BridgeTyped
  BY <1>2 DEF LoaderInit, BridgeTyped
<1>5. \A o \in Ops : \A n : ~Busy(o, n)
  BY <1>2, <1>3 DEF Busy
<1>6. \A n \in Names : caps[n] = NoFile /\ registry[n] = NoFile
  BY DEF LoaderInit
<1> QED
  BY <1>1, <1>3, <1>4, <1>5, <1>6
     DEF PluginInv, BridgeInv, BegunIsForPackage, Sequential, StoreFirst

LEMMA FilesUnchanged ==
  ASSUME PluginFilesInv, UNCHANGED <<disk, good>>
  PROVE  PluginFilesInv'
BY DEF PluginFilesInv, FilesTyped, GoodDir

LEMMA BridgeUnchanged ==
  ASSUME BridgeInv, UNCHANGED <<op, caps, registry, disturbed>>
  PROVE  BridgeInv'
BY DEF BridgeInv, BridgeTyped, BegunIsForPackage, Sequential, StoreFirst, Busy, Unregistered

LEMMA NextPlugin ==
  ASSUME PluginInv, [LoaderNext]_loaderVars
  PROVE  PluginInv'
<1>1. CASE UNCHANGED loaderVars
  BY <1>1, FilesUnchanged, BridgeUnchanged DEF loaderVars, PluginInv
<1>2. ASSUME NEW p \in Packages,
             install_from_path(p) \/ InstallRaises(p) \/ Edited(p)
      PROVE  PluginInv'
  <2>1. UNCHANGED <<op, caps, registry, disturbed>>
    BY <1>2 DEF install_from_path, InstallRaises, Edited, bridge
  <2> QED
    BY <1>2, <2>1, InstallKeepsFiles, BridgeUnchanged DEF PluginInv
<1>3. ASSUME NEW n \in Names, remove(n) PROVE PluginInv'
  <2>1. UNCHANGED <<op, caps, registry, disturbed>>
    BY <1>3 DEF remove, bridge
  <2> QED
    BY <1>3, <2>1, RemoveKeepsFiles, BridgeUnchanged DEF PluginInv
<1>4. ASSUME NEW o \in Ops, NEW p \in Packages, bridge_register(o, p) PROVE PluginInv'
  <2>1. UNCHANGED <<disk, good>>
    BY <1>4 DEF bridge_register, files
  <2>2. PICK at \in {"policy", "store"} :
           op' = [op EXCEPT ![o] = [kind |-> "register", plugin |-> p, at |-> at]]
    BY <1>4 DEF bridge_register
  <2>3. op[o] = Idle /\ Begins(p.name) /\ UNCHANGED <<caps, registry>>
    BY <1>4 DEF bridge_register
  <2>4. BridgeInv'
    BY <2>2, <2>3, BeginKeepsBridge DEF PluginInv
  <2> QED
    BY <2>1, <2>4, FilesUnchanged DEF PluginInv
<1>5. ASSUME NEW o \in Ops, NEW n \in Names, bridge_unregister(o, n) PROVE PluginInv'
  <2>1. UNCHANGED <<disk, good>>
    BY <1>5 DEF bridge_unregister, files
  <2> DEFINE p == Named(n)
  <2>2. p \in Packages /\ p.name = n
    <3>1. \E q \in Packages : q.name = n
      BY DEF Names
    <3> QED
      BY <3>1 DEF Named
  <2>3. /\ op[o] = Idle
        /\ op' = [op EXCEPT ![o] = [kind |-> "unregister", plugin |-> p, at |-> "store"]]
        /\ Begins(n)
        /\ UNCHANGED <<caps, registry>>
    BY <1>5 DEF bridge_unregister
  <2> HIDE DEF p
  <2>4. BridgeInv'
    BY <2>2, <2>3, BeginKeepsBridge DEF PluginInv
  <2> QED
    BY <2>1, <2>4, FilesUnchanged DEF PluginInv
<1>6. ASSUME NEW o \in Ops,
             \/ PolicyAnswers(o) \/ StoreActs(o) \/ BridgeRaises(o)
             \/ RegisterTool(o) \/ UnregisterTool(o)
      PROVE  PluginInv'
  <2>1. UNCHANGED <<disk, good>>
    BY <1>6 DEF PolicyAnswers, StoreActs, BridgeRaises, RegisterTool,
                UnregisterTool, files
  <2>2. BridgeInv'
    BY <1>6, AnswerKeepsBridge, StoreKeepsBridge, ToolKeepsBridge DEF PluginInv
  <2> QED
    BY <2>1, <2>2, FilesUnchanged DEF PluginInv
<1> QED
  BY <1>1, <1>2, <1>3, <1>4, <1>5, <1>6 DEF LoaderNext

\* The inductive invariant holds in every behaviour of the loader.
THEOREM PluginInvHolds == LoaderSpec => []PluginInv
<1>1. LoaderInit => PluginInv
  BY InitPlugin
<1>2. PluginInv /\ [LoaderNext]_loaderVars => PluginInv'
  BY NextPlugin
<1> QED
  BY <1>1, <1>2, PTL DEF LoaderSpec, loaderVars

\* The variables of the loader keep their types.
THEOREM PluginTypeCorrect == LoaderSpec => []LoaderTypeOK
<1>1. PluginInv => LoaderTypeOK
  BY DEF PluginInv, PluginFilesInv, FilesTyped, BridgeInv, BridgeTyped, Call, LoaderTypeOK
<1> QED
  BY <1>1, PluginInvHolds, PTL

\* A plugin whose last install succeeded is whole and, if its name is one path
\* component, listed from its own directory, whatever was half-copied,
\* half-removed or edited before (installer.py, discovery.py).
THEOREM InstalledIsListedHolds == LoaderSpec => []InstalledIsListed
<1>1. PluginInv => InstalledIsListed
  BY GoodIsListed DEF PluginInv
<1> QED
  BY <1>1, PluginInvHolds, PTL

\* Calls of register and unregister that neither overlap nor raise leave the
\* capability store and the tool registry with the same plugin, whatever was
\* registered before (registry_bridge.py).
THEOREM SequentialUseAgreesHolds == LoaderSpec => []SequentialUseAgrees
<1>1. PluginInv => SequentialUseAgrees
  <2> SUFFICES ASSUME PluginInv, NEW n \in Names, n \notin disturbed, Active(n) = {}
               PROVE  caps[n] = registry[n]
    BY DEF SequentialUseAgrees
  <2>1. Sequential(n)
    BY DEF PluginInv, BridgeInv
  <2>2. \A o \in Ops : ~Busy(o, n)
    BY DEF Active, Busy
  <2> QED
    BY <2>1, <2>2 DEF Sequential
<1> QED
  BY <1>1, PluginInvHolds, PTL

\* However calls of register overlap, fail or are refused, no tool is
\* registered before its capabilities are in the store.
THEOREM CapabilitiesFirstHolds == LoaderSpec => []CapabilitiesFirst
<1>1. PluginInv => CapabilitiesFirst
  BY DEF PluginInv, BridgeInv, StoreFirst, Unregistered, CapabilitiesFirst
<1> QED
  BY <1>1, PluginInvHolds, PTL
=============================================================================
