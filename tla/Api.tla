-------------------------------- MODULE Api ---------------------------------
(***************************************************************************)
(* The REST and WebSocket API (api/rest/app.py) with its API keys          *)
(* (api/auth/provider.py), composed with the event publisher it feeds and  *)
(* listens to.  Every submitted intent, every open socket and the listener *)
(* task of every socket is a task of one event loop; they interleave where *)
(* the code awaits: in the runtime, in the publisher's call of Redis, in   *)
(* accept, in the queue and in send_json.  Keys change at any time.        *)
(*                                                                         *)
(* The runtime is the external of this module (Runtime.tla models it): it  *)
(* returns a result, also when it is stopped, or raises.  An API key is    *)
(* identified with its SHA-256 fingerprint, an auth context with its       *)
(* tenant.  Nothing of this state outlives the process.                    *)
(***************************************************************************)
EXTENDS EventBroker

CONSTANTS
  Keys,        \* raw API keys
  NoKey,       \* the empty string
  NoContext,   \* None, the answer of authenticate to an unknown key
  KeyContexts, \* the contexts keys are registered with
  FirstKeys    \* the keys argument of APIKeyAuthProvider

Contexts == Tenants \cup {NoTenant}

\* An execution id is a fresh UUID per intent and has one event.
ASSUME ApiAssumption ==
  /\ Events = [exec : Execs, tenant : Contexts]
  /\ NoKey \notin Keys
  /\ NoContext \notin Contexts
  /\ KeyContexts \subseteq Contexts
  /\ FirstKeys \in [Keys -> KeyContexts \cup {NoContext}]

VARIABLES
  fingerprints,  \* _fingerprints: the context of every key
  runtime,       \* "running" or "stopped"
  request,       \* the POST that creates each execution
  tenant,        \* its local tenant_id
  executions,    \* app.state.executions: the tenant of every record
  ws,            \* the state of each socket; its queue has the same name
  peer,          \* what a socket in accept() will subscribe to
  listener,      \* the listen_queue task of each socket
  taken          \* how many items the listener took from the queue

submission == <<request, tenant, executions>>
socket == <<ws, peer, listener, taken>>
vars == <<brokerVars, fingerprints, runtime, submission, socket>>

TypeOK ==
  /\ BrokerTypeOK
  /\ fingerprints \in [Keys -> KeyContexts \cup {NoContext}]
  /\ runtime \in {"running", "stopped"}
  /\ request \in [Execs -> {"new", "401", "executing", "publishing", "201", "500"}]
  /\ tenant \in [Execs -> Contexts]
  /\ DOMAIN executions \subseteq Execs
  /\ \A x \in DOMAIN executions : executions[x] \in Contexts
  /\ ws \in [Queues -> {"new", "rejected", "accepting", "open", "closed"}]
  /\ peer \in [Queues -> Subscription \cup {<< >>}]
  /\ listener \in [Queues -> {"none", "waiting", "sending", "ended", "failed", "cancelled"}]
  /\ taken \in [Queues -> Nat]
  /\ \A w \in Queues : taken[w] <= Len(queue[w])

NoRecords == [x \in {} |-> NoTenant]

KeyInit == fingerprints = FirstKeys

\* create_app.
Init ==
  /\ BrokerInit
  /\ KeyInit
  /\ runtime = "running"
  /\ request = [x \in Execs |-> "new"]
  /\ tenant = [x \in Execs |-> NoTenant]
  /\ executions = NoRecords
  /\ ws = [w \in Queues |-> "new"]
  /\ peer = [w \in Queues |-> << >>]
  /\ listener = [w \in Queues |-> "none"]
  /\ taken = [w \in Queues |-> 0]

-----------------------------------------------------------------------------
(* API keys.                                                               *)

add_key(k, context) ==
  /\ fingerprints' = [fingerprints EXCEPT ![k] = context]
  /\ UNCHANGED <<brokerVars, runtime, submission, socket>>

remove_key(k) ==
  /\ fingerprints[k] # NoContext
  /\ fingerprints' = [fingerprints EXCEPT ![k] = NoContext]
  /\ UNCHANGED <<brokerVars, runtime, submission, socket>>

\* context = NoContext: keep the old key's.  The old key goes before the new
\* one comes, which may be the same.
rotate_key(old, new, context) ==
  /\ fingerprints[old] # NoContext
  /\ LET target == IF context # NoContext THEN context ELSE fingerprints[old]
     IN  fingerprints' = [fingerprints EXCEPT ![old] = NoContext, ![new] = target]
  /\ UNCHANGED <<brokerVars, runtime, submission, socket>>

authenticate(k) == IF k = NoKey THEN NoContext ELSE fingerprints[k]

\* The dependency of the REST endpoints: the X-API-Key header, 401 without a
\* context.
get_auth_context(x_api_key) == authenticate(x_api_key)

\* A Bearer header decides alone; the other two ways fall through.
ws_authenticate(bearer, protocol, api_key) ==
  CASE bearer # NoKey -> authenticate(bearer)
    [] bearer = NoKey /\ authenticate(protocol) # NoContext -> authenticate(protocol)
    [] OTHER -> authenticate(api_key)

-----------------------------------------------------------------------------
(* Submitting an intent.                                                   *)

event(x) == [exec |-> x, tenant |-> tenant[x]]

\* Authentication, up to the call of the runtime.  x_tenant_id goes before
\* the tenant of the key.
submit_intent(x, k, x_tenant_id) ==
  /\ request[x] = "new"
  /\ LET context == get_auth_context(k)
     IN  IF context = NoContext
         THEN /\ request' = [request EXCEPT ![x] = "401"]
              /\ UNCHANGED tenant
         ELSE /\ request' = [request EXCEPT ![x] = "executing"]
              /\ tenant' = [tenant EXCEPT ![x] =
                              IF x_tenant_id # NoTenant THEN x_tenant_id ELSE context]
  /\ UNCHANGED <<brokerVars, fingerprints, runtime, executions, socket>>

\* general_exception_handler.
RuntimeRaises(x) ==
  /\ request[x] = "executing"
  /\ request' = [request EXCEPT ![x] = "500"]
  /\ UNCHANGED <<brokerVars, fingerprints, runtime, tenant, executions, socket>>

\* Mutant: the record waits for the end of the publishing.
RuntimeReturnsUnrecorded(x) ==
  /\ request[x] = "executing"
  /\ \/ /\ publish_memory(event(x))
        /\ request' = [request EXCEPT ![x] = "201"]
        /\ executions' = [y \in DOMAIN executions \cup {x} |->
                            IF y = x THEN tenant[x] ELSE executions[y]]
     \/ /\ publish(event(x))
        /\ request' = [request EXCEPT ![x] = "publishing"]
        /\ UNCHANGED executions
  /\ UNCHANGED <<fingerprints, runtime, tenant, socket>>

\* The result is recorded and the publishing starts; in memory it also ends.
RuntimeReturns(x) ==
  /\ request[x] = "executing"
  /\ executions' = [y \in DOMAIN executions \cup {x} |->
                      IF y = x THEN tenant[x] ELSE executions[y]]
  /\ \/ publish_memory(event(x)) /\ request' = [request EXCEPT ![x] = "201"]
     \/ publish(event(x)) /\ request' = [request EXCEPT ![x] = "publishing"]
  /\ UNCHANGED <<fingerprints, runtime, tenant, socket>>

RedisStores(x) ==
  /\ request[x] = "publishing"
  /\ ServerStores(event(x))
  /\ UNCHANGED <<fingerprints, runtime, submission, socket>>

\* The publisher raised: the client reads 500 of an intent that ran.
PublishFails(x) ==
  /\ request[x] = "publishing"
  /\ PublishRaises(event(x))
  /\ request' = [request EXCEPT ![x] = "500"]
  /\ UNCHANGED <<fingerprints, runtime, tenant, executions, socket>>

Published(x) ==
  /\ request[x] = "publishing"
  /\ deliver(event(x))
  /\ request' = [request EXCEPT ![x] = "201"]
  /\ UNCHANGED <<fingerprints, runtime, tenant, executions, socket>>

\* A record without tenant is shown to every key.
get_execution_status(x, context) ==
  IF x \in DOMAIN executions /\ executions[x] \in {NoTenant, context} THEN 200 ELSE 403

-----------------------------------------------------------------------------
(* Sockets.                                                                *)

\* execution_events, up to the await of close(4001) or of accept.
connect(w, x, bearer, protocol, api_key) ==
  /\ ws[w] = "new"
  /\ LET context == ws_authenticate(bearer, protocol, api_key)
     IN  IF context = NoContext
         THEN /\ ws' = [ws EXCEPT ![w] = "rejected"]
              /\ UNCHANGED peer
         ELSE /\ ws' = [ws EXCEPT ![w] = "accepting"]
              /\ peer' = [peer EXCEPT ![w] = [exec |-> x, tenant |-> context]]
  /\ UNCHANGED <<brokerVars, fingerprints, runtime, submission, listener, taken>>

\* Accepted: the queue is subscribed and the listener task created.
accept(w) ==
  /\ ws[w] = "accepting"
  /\ ws' = [ws EXCEPT ![w] = "open"]
  /\ subscribe(w, peer[w].exec, peer[w].tenant)
  /\ peer' = [peer EXCEPT ![w] = << >>]
  /\ listener' = [listener EXCEPT ![w] = "waiting"]
  /\ UNCHANGED <<fingerprints, runtime, submission, taken>>

\* The client is gone before it was accepted: nothing was subscribed.
AcceptRaises(w) ==
  /\ ws[w] = "accepting"
  /\ ws' = [ws EXCEPT ![w] = "closed"]
  /\ peer' = [peer EXCEPT ![w] = << >>]
  /\ UNCHANGED <<brokerVars, fingerprints, runtime, submission, listener, taken>>

\* listen_queue: queue.get() returns, send_json starts.
Get(w) ==
  /\ listener[w] = "waiting"
  /\ taken[w] < Len(queue[w])
  /\ taken' = [taken EXCEPT ![w] = @ + 1]
  /\ listener' = [listener EXCEPT ![w] = "sending"]
  /\ UNCHANGED <<brokerVars, fingerprints, runtime, submission, ws, peer>>

\* send_json returns: the event's, or the one of stream.ended, which ends the
\* task.  The socket stays open.
Send(w) ==
  /\ listener[w] = "sending"
  /\ listener' = [listener EXCEPT ![w] = IF queue[w][taken[w]] = End THEN "ended" ELSE "waiting"]
  /\ UNCHANGED <<brokerVars, fingerprints, runtime, submission, ws, peer, taken>>

\* The task dies with the exception; nobody looks at it.
SendRaises(w) ==
  /\ listener[w] = "sending"
  /\ listener' = [listener EXCEPT ![w] = "failed"]
  /\ UNCHANGED <<brokerVars, fingerprints, runtime, submission, ws, peer, taken>>

\* receive() tells of the disconnect: the finally clause.  The listener is
\* over wherever it was, a frame it was sending is lost.
disconnect(w) ==
  /\ ws[w] = "open"
  /\ ws' = [ws EXCEPT ![w] = "closed"]
  /\ listener' = [listener EXCEPT ![w] = "cancelled"]
  /\ taken' = [taken EXCEPT ![w] = 0]
  /\ unsubscribe(w)
  /\ UNCHANGED <<fingerprints, runtime, submission, peer>>

-----------------------------------------------------------------------------
(* The life of the process.                                                *)

\* Mutant: the streams are closed one by one before shutdown, not by it.
shutdown_runtime_only ==
  /\ runtime = "running"
  /\ runtime' = "stopped"
  /\ UNCHANGED <<brokerVars, fingerprints, submission, socket>>

\* lifespan, after the yield.  stop() never suspends, so close_all is part of
\* the same step; intents and sockets of a server that still serves go on.
shutdown ==
  /\ runtime = "running"
  /\ runtime' = "stopped"
  /\ close_all
  /\ UNCHANGED <<fingerprints, submission, socket>>

\* The program that embeds the API closes the stream of one execution.
CloseStream(x) ==
  /\ close(x)
  /\ UNCHANGED <<fingerprints, runtime, submission, socket>>

KeyNext ==
  \/ \E k \in Keys, context \in KeyContexts : add_key(k, context)
  \/ \E k \in Keys : remove_key(k)
  \/ \E old, new \in Keys, context \in KeyContexts \cup {NoContext} : rotate_key(old, new, context)

SubmitNext(x) ==
  \/ \E k \in Keys \cup {NoKey}, t \in Contexts : submit_intent(x, k, t)
  \/ RuntimeRaises(x)
  \/ RuntimeReturns(x)
  \/ RedisStores(x)
  \/ PublishFails(x)
  \/ Published(x)

SocketNext(w) ==
  \/ \E x \in Execs, bearer, protocol, api_key \in Keys \cup {NoKey} :
       connect(w, x, bearer, protocol, api_key)
  \/ accept(w)
  \/ AcceptRaises(w)
  \/ Get(w)
  \/ Send(w)
  \/ SendRaises(w)
  \/ disconnect(w)

Next ==
  \/ KeyNext
  \/ \E x \in Execs : SubmitNext(x)
  \/ \E w \in Queues : SocketNext(w)
  \/ \E x \in MayClose : CloseStream(x)
  \/ shutdown

\* The event loop runs a listener whose queue has an item, and the server's
\* keep-alive makes every send return or raise.
Fairness == \A w \in Queues : WF_vars(Get(w)) /\ WF_vars(Send(w) \/ SendRaises(w))

Spec == Init /\ [][Next]_vars /\ Fairness

-----------------------------------------------------------------------------
(* Properties.                                                             *)

\* What a socket was shown can be asked for: the listener of a socket with a
\* tenant takes only events of executions whose status the endpoint shows to
\* that tenant, although socket, record and event got their tenants from
\* three requests, with keys that may have changed since.
SeenIsVisible ==
  \A w \in Queues : ws[w] = "open" /\ sub[w].tenant # NoTenant =>
    \A i \in 1 .. taken[w] :
      queue[w][i] # End => get_execution_status(queue[w][i].exec, sub[w].tenant) = 200

\* The record is ahead of everything that tells of the run: whatever becomes
\* of the publishing (it may raise after Redis stored the event, and the
\* client reads 500), an execution whose event is under way is in the
\* executions under the tenant of the event.
RunIsRecorded ==
  \A ev \in Events : pub[ev] # "new" =>
    ev.exec \in DOMAIN executions /\ executions[ev.exec] = ev.tenant

\* A socket that is open before shutdown is told the end of its stream once
\* the application has stopped, unless its connection is lost: close_all
\* reaches it whatever it subscribed to and however many events are still in
\* its queue.
ShutdownEndsStreams ==
  \A w \in Queues :
    [](ws[w] = "open" /\ runtime = "running" =>
         [](runtime = "stopped" =>
              <>(ws[w] = "closed" \/ listener[w] \in {"ended", "failed"})))
=============================================================================
