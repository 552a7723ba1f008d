---------------------------- MODULE ToolGateway -----------------------------
(***************************************************************************)
(* MCPToolGateway (kernel/gateway.py) on top of the tool registry and its  *)
(* router.  access_tool looks the tool and the client up in one go and     *)
(* then awaits the MCP server: while it waits, tools and clients are       *)
(* registered anew, the event log is replaced, other accesses start and    *)
(* end, and the waiting task may be cancelled.  The path a router returned *)
(* may be held by the caller for any time before it is used.               *)
(*                                                                         *)
(* The MCP client is external: it answers or raises, at any time or never. *)
(***************************************************************************)
EXTENDS ToolRegistry

CONSTANTS
  Calls,      \* calls of route_intent and then access_tool
  NoServer,   \* the empty mcp_server of an audit entry
  Logs,       \* EventLog objects, one per execution
  NoLog

ASSUME GatewayAssumption ==
  /\ NoServer \notin Servers
  /\ NoLog \notin Logs

VARIABLES
  clients,     \* the servers that have a client in _clients
  event_log,   \* _event_log
  pc,          \* where each call is
  tool,        \* path.tool of each call (NoTool: not routed)
  server,      \* tool_def.mcp_server of each call (NoServer: none)
  audit_log,   \* _audit_log
  events,      \* the GATEWAY_ACCESSED events of each log
  metrics      \* gateway.tool.{registry_miss, client_miss, mcp_failure, success}

vars == <<tools, clients, event_log, pc, tool, server, audit_log, events, metrics>>
call == <<pc, tool, server>>
trail == <<audit_log, events, metrics>>

Counters == {"registry_miss", "client_miss", "mcp_failure", "success"}
Entries == [call : Calls, tool : ToolIds, server : Servers \cup {NoServer}, success : BOOLEAN]

TypeOK ==
  /\ RegistryTypeOK
  /\ clients \subseteq Servers
  /\ event_log \in Logs \cup {NoLog}
  /\ pc \in [Calls -> {"new", "unrouted", "routed", "calling", "returned", "raised", "cancelled"}]
  /\ tool \in [Calls -> ToolIds \cup {NoTool}]
  /\ server \in [Calls -> Servers \cup {NoServer}]
  /\ audit_log \in Seq(Entries)
  /\ events \in [Logs -> Seq(Entries)]
  /\ metrics \in [Counters -> Nat]

Init ==
  /\ RegistryInit
  /\ clients = {}
  /\ event_log = NoLog
  /\ pc = [c \in Calls |-> "new"]
  /\ tool = [c \in Calls |-> NoTool]
  /\ server = [c \in Calls |-> NoServer]
  /\ audit_log = << >>
  /\ events = [l \in Logs |-> << >>]
  /\ metrics = [n \in Counters |-> 0]

-----------------------------------------------------------------------------
(* Administration.                                                         *)

Register(t, s) == register(t, s) /\ UNCHANGED <<clients, event_log, call, trail>>

Unregister(t) == unregister(t) /\ UNCHANGED <<clients, event_log, call, trail>>

\* A client for the server is set, or replaced by another one.
register_client(s) ==
  /\ clients' = clients \cup {s}
  /\ UNCHANGED <<tools, event_log, call, trail>>

set_event_log(l) ==
  /\ event_log' = l
  /\ UNCHANGED <<tools, clients, call, trail>>

-----------------------------------------------------------------------------
(* One access.                                                             *)

route_intent(c, a) ==
  /\ pc[c] = "new"
  /\ \/ \E t \in Routes(a) :
          /\ tool' = [tool EXCEPT ![c] = t]
          /\ pc' = [pc EXCEPT ![c] = "routed"]
     \/ /\ Routes(a) = {}
        /\ pc' = [pc EXCEPT ![c] = "unrouted"]
        /\ UNCHANGED tool
  /\ UNCHANGED <<tools, clients, event_log, server, trail>>

emit(entry) ==
  events' = IF event_log = NoLog THEN events
            ELSE [events EXCEPT ![event_log] = Append(@, entry)]

record_audit(c, srv, success) ==
  LET entry == [call |-> c, tool |-> tool[c], server |-> srv, success |-> success]
  IN  audit_log' = Append(audit_log, entry) /\ emit(entry)

\* Every way out of access_tool but a cancellation: one audit entry, one
\* counter, and the result or GatewayAccessError.
Finish(c, srv, counter) ==
  /\ record_audit(c, srv, counter = "success")
  /\ metrics' = [metrics EXCEPT ![counter] = @ + 1]
  /\ pc' = [pc EXCEPT ![c] = IF counter = "success" THEN "returned" ELSE "raised"]

\* access_tool, up to the await of call_tool.  The adapter in the path is
\* not looked at.
RegistryMiss(c) ==
  /\ pc[c] = "routed"
  /\ tools[tool[c]] = NoTool
  /\ Finish(c, NoServer, "registry_miss")
  /\ UNCHANGED <<tools, clients, event_log, tool, server>>

ClientMiss(c) ==
  /\ pc[c] = "routed"
  /\ LET s == tools[tool[c]]
     IN  /\ s # NoTool
         /\ s \notin clients
         /\ server' = [server EXCEPT ![c] = s]
         /\ Finish(c, s, "client_miss")
  /\ UNCHANGED <<tools, clients, event_log, tool>>

CallTool(c) ==
  /\ pc[c] = "routed"
  /\ LET s == tools[tool[c]]
     IN  /\ s # NoTool
         /\ s \in clients
         /\ server' = [server EXCEPT ![c] = s]
  /\ pc' = [pc EXCEPT ![c] = "calling"]
  /\ UNCHANGED <<tools, clients, event_log, tool, trail>>

\* Mutant: the server is looked up again when the answer is there.
AnsweredAnew(c) ==
  /\ pc[c] = "calling"
  /\ \E counter \in {"success", "mcp_failure"} :
       Finish(c, IF tools[tool[c]] = NoTool THEN NoServer ELSE tools[tool[c]], counter)
  /\ UNCHANGED <<tools, clients, event_log, tool, server>>

\* call_tool returned or raised.  The definition looked up before the await
\* is still the one that is audited.
Answered(c) ==
  /\ pc[c] = "calling"
  /\ \E counter \in {"success", "mcp_failure"} : Finish(c, server[c], counter)
  /\ UNCHANGED <<tools, clients, event_log, tool, server>>

\* Mutant: a cancelled access is counted as a failure.
CancelCounted(c) ==
  /\ pc[c] = "calling"
  /\ pc' = [pc EXCEPT ![c] = "cancelled"]
  /\ metrics' = [metrics EXCEPT !["mcp_failure"] = @ + 1]
  /\ UNCHANGED <<tools, clients, event_log, tool, server, audit_log, events>>

\* The task that awaits the server is cancelled: CancelledError is no
\* Exception, so nothing is audited or counted.
Cancel(c) ==
  /\ pc[c] = "calling"
  /\ pc' = [pc EXCEPT ![c] = "cancelled"]
  /\ UNCHANGED <<tools, clients, event_log, tool, server, trail>>

Next ==
  \/ \E t \in ToolIds, s \in Servers : Register(t, s)
  \/ \E t \in ToolIds : Unregister(t)
  \/ \E s \in Servers : register_client(s)
  \/ \E l \in Logs : set_event_log(l)
  \/ \E c \in Calls, a \in Actions : route_intent(c, a)
  \/ \E c \in Calls : RegistryMiss(c) \/ ClientMiss(c) \/ CallTool(c) \/ Answered(c) \/ Cancel(c)

Spec == Init /\ [][Next]_vars

-----------------------------------------------------------------------------
(* Properties.                                                             *)

Over(c) == pc[c] \in {"returned", "raised"}
EntriesOf(c) == {i \in DOMAIN audit_log : audit_log[i].call = c}

\* An access that has returned or raised is in the audit log exactly once,
\* with its outcome and with the server it was really sent to, however tools
\* and clients were registered while it awaited the answer, and is not there
\* before (MCPToolGateway.access_tool and _record_audit).  Nothing is said of
\* a cancelled access: "every access emits an audit event" (gateway.py:5), but
\* the code has none for it.
AuditedOnce ==
  \A c \in Calls :
    /\ Over(c) => \E i \in EntriesOf(c) :
                    /\ EntriesOf(c) = {i}
                    /\ audit_log[i].tool = tool[c]
                    /\ audit_log[i].server = server[c]
                    /\ audit_log[i].success = (pc[c] = "returned")
    /\ ~Over(c) /\ pc[c] # "cancelled" => EntriesOf(c) = {}

\* The audit log, the event logs and the counters tell the same story: the
\* four counters add up to the audit entries, the successes are the
\* successful entries, and every event is the event of one audit entry, in
\* one log only (the event log may be replaced while accesses are waiting).
TrailsAgree ==
  /\ metrics["registry_miss"] + metrics["client_miss"] + metrics["mcp_failure"]
       + metrics["success"] = Len(audit_log)
  /\ metrics["success"] = Cardinality({c \in Calls : pc[c] = "returned"})
  /\ \A l \in Logs : \A i \in DOMAIN events[l] :
       /\ \E j \in DOMAIN audit_log : audit_log[j] = events[l][i]
       /\ \A k \in Logs : \A j \in DOMAIN events[k] :
            events[k][j] = events[l][i] => k = l /\ j = i

\* Registering and unregistering tools turn an action from one registered
\* tool to another in one case only, when a tool is registered under exactly
\* the action's name ("Exact match preferred over pattern match",
\* router.py:22); otherwise an action that was routed to a tool stays with it
\* while it is registered, or becomes ambiguous and raises.
RoutingIsStable ==
  [][\A a \in Actions :
       LET kept == Routes(a) \cap registered'
       IN  kept # {} => \/ Routes(a)' = kept
                        \/ Routes(a)' = {}
                        \/ a \in registered' \ registered /\ Routes(a)' = {a}]_vars
=============================================================================
