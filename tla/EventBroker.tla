---------------------------- MODULE EventBroker ----------------------------
(***************************************************************************)
(* The EventPublisher protocol (kernel/events/protocol.py) and its three   *)
(* implementations: InMemoryEventPublisher, RedisEventPublisher (Pub/Sub)  *)
(* and RedisStreamPublisher; the program starts with one of Backends and   *)
(* keeps it.  The in-memory publish is one step.  The other two await the  *)
(* Redis server first and deliver to the local queues when the answer is   *)
(* there, so that other tasks publish, subscribe, unsubscribe or close in  *)
(* between.                                                                *)
(*                                                                         *)
(* A queue is modelled by everything that was put in it until its reader   *)
(* unsubscribes, a list of subscribers by the set of its queues: subscribe *)
(* creates the queue it appends, so a list holds it once, and a loop over  *)
(* a list puts into unbounded queues and never suspends.  The Redis server *)
(* is external: it stores or refuses, and its answer may get lost.         *)
(***************************************************************************)
EXTENDS Integers, FiniteSets, Sequences

CONSTANTS
  Backends,    \* the kinds the program may start with
  Execs,       \* execution ids
  Events,      \* records with fields exec and tenant
  Queues,      \* the asyncio queues that subscribe may create
  Tenants,
  NoTenant,    \* the empty tenant id
  End,         \* None, the end-of-stream sentinel
  MaxLen,      \* the maxlen of XADD, 10000 in the code
  MayClose     \* executions whose stream the program closes one by one

ASSUME BrokerAssumption ==
  /\ Backends \subseteq {"memory", "redis", "streams"}
  /\ NoTenant \notin Tenants
  /\ \A ev \in Events : ev.exec \in Execs /\ ev.tenant \in Tenants \cup {NoTenant}
  /\ End \notin Events
  /\ MaxLen \in Nat \ {0}
  /\ MayClose \subseteq Execs

VARIABLES
  backend,      \* "memory", "redis" or "streams"
  subs,         \* _subscribers / _local_queues: the queues of each execution
  sub,          \* what each queue was subscribed with (<< >>: not created)
  queue,        \* everything put into each queue that is in use
  pub,          \* where the publish of each event stands
  stream,       \* Redis: the entries of each execution's stream
  stream_keys   \* RedisStreamPublisher._stream_keys

brokerVars == <<backend, subs, sub, queue, pub, stream, stream_keys>>

Subscription == [exec : Execs, tenant : Tenants \cup {NoTenant}]

BrokerTypeOK ==
  /\ backend \in Backends
  /\ DOMAIN subs \subseteq Execs
  /\ \A x \in DOMAIN subs : subs[x] \subseteq Queues
  /\ sub \in [Queues -> Subscription \cup {<< >>}]
  /\ queue \in [Queues -> Seq(Events \cup {End})]
  /\ pub \in [Events -> {"new", "sending", "stored", "delivered", "raised"}]
  /\ stream \in [Execs -> Seq(Events)]
  /\ stream_keys \subseteq Execs

\* The settings choose the publisher.
create_event_publisher == backend \in Backends

BrokerInit ==
  /\ create_event_publisher
  /\ subs = [x \in {} |-> {}]
  /\ sub = [q \in Queues |-> << >>]
  /\ queue = [q \in Queues |-> << >>]
  /\ pub = [ev \in Events |-> "new"]
  /\ stream = [x \in Execs |-> << >>]
  /\ stream_keys = {}

-----------------------------------------------------------------------------
(* The dict of subscribers.                                                *)

subscribers(x) == IF x \in DOMAIN subs THEN subs[x] ELSE {}

setSubscribers(x, list) ==
  subs' = [y \in DOMAIN subs \cup {x} |-> IF y = x THEN list ELSE subs[y]]

subscribe(q, x, t) ==
  /\ sub[q] = << >>
  /\ sub' = [sub EXCEPT ![q] = [exec |-> x, tenant |-> t]]
  /\ setSubscribers(x, subscribers(x) \cup {q})
  /\ UNCHANGED <<backend, queue, pub, stream, stream_keys>>

\* The list is rebuilt without the queue; the key is assigned in any case.
\* The caller drops the queue.
unsubscribe(q) ==
  /\ sub[q] # << >>
  /\ setSubscribers(sub[q].exec, subscribers(sub[q].exec) \ {q})
  /\ queue' = [queue EXCEPT ![q] = << >>]
  /\ UNCHANGED <<backend, sub, pub, stream, stream_keys>>

-----------------------------------------------------------------------------
(* Publishing.                                                             *)

\* Mutant: tenants are not compared.
accepts_all(q, ev) == TRUE

\* The tenant filter: only two non-empty, different ids exclude each other.
accepts(q, ev) ==
  \/ sub[q].tenant = NoTenant
  \/ ev.tenant = NoTenant
  \/ sub[q].tenant = ev.tenant

put_to_subscribers(ev) ==
  queue' = [q \in Queues |->
              IF q \in subscribers(ev.exec) /\ accepts(q, ev)
              THEN Append(queue[q], ev) ELSE queue[q]]

\* InMemoryEventPublisher.publish.  Its form with an id and a dict behaves
\* like an event without tenant.
publish_memory(ev) ==
  /\ backend = "memory"
  /\ pub[ev] = "new"
  /\ put_to_subscribers(ev)
  /\ pub' = [pub EXCEPT ![ev] = "delivered"]
  /\ UNCHANGED <<backend, subs, sub, stream, stream_keys>>

\* The Redis publishers, up to the await of PUBLISH or XADD.
publish(ev) ==
  /\ backend # "memory"
  /\ pub[ev] = "new"
  /\ pub' = [pub EXCEPT ![ev] = "sending"]
  /\ UNCHANGED <<backend, subs, sub, queue, stream, stream_keys>>

\* What the server may leave of a stream that is trimmed to maxlen: the
\* oldest entries go, and since the client asks for MAXLEN ~ some of those
\* that could go may stay.
trimmed(entries, maxlen) ==
  {SubSeq(entries, n, Len(entries)) :
     n \in {m \in 1 .. Len(entries) + 1 : m = 1 \/ Len(entries) - m + 1 >= maxlen}}

\* XADD: the server appends the entry and trims; Pub/Sub keeps nothing.
ServerStores(ev) ==
  /\ pub[ev] = "sending"
  /\ pub' = [pub EXCEPT ![ev] = "stored"]
  /\ \/ /\ backend = "streams"
        /\ \E kept \in trimmed(Append(stream[ev.exec], ev), MaxLen) :
             stream' = [stream EXCEPT ![ev.exec] = kept]
     \/ backend # "streams" /\ stream' = stream
  /\ UNCHANGED <<backend, subs, sub, queue, stream_keys>>

\* The server refuses, or the connection is lost before or after it stored:
\* publish raises and no local queue gets the event.
PublishRaises(ev) ==
  /\ pub[ev] \in {"sending", "stored"}
  /\ pub' = [pub EXCEPT ![ev] = "raised"]
  /\ UNCHANGED <<backend, subs, sub, queue, stream, stream_keys>>

\* The answer is there: the rest of publish, in one go.
deliver(ev) ==
  /\ pub[ev] = "stored"
  /\ pub' = [pub EXCEPT ![ev] = "delivered"]
  /\ put_to_subscribers(ev)
  /\ stream_keys' = IF backend = "streams" THEN stream_keys \cup {ev.exec} ELSE stream_keys
  /\ UNCHANGED <<backend, subs, sub, stream>>

-----------------------------------------------------------------------------
(* Closing.                                                                *)

\* Mutant: close forgets to drop the subscribers.
close_keeping(closed) ==
  /\ queue' = [q \in Queues |->
                 IF \E x \in closed : q \in subscribers(x)
                 THEN Append(queue[q], End) ELSE queue[q]]
  /\ subs' = subs
  /\ stream_keys' = stream_keys \ closed
  /\ UNCHANGED <<backend, sub, pub, stream>>

\* The sentinel goes to every subscriber of the closed executions, and they
\* leave the dict and the known streams.
end_streams(closed) ==
  /\ queue' = [q \in Queues |->
                 IF \E x \in closed : q \in subscribers(x)
                 THEN Append(queue[q], End) ELSE queue[q]]
  /\ subs' = [x \in DOMAIN subs \ closed |-> subs[x]]
  /\ stream_keys' = stream_keys \ closed
  /\ UNCHANGED <<backend, sub, pub, stream>>

close(x) == end_streams({x})

close_all == end_streams(DOMAIN subs)

-----------------------------------------------------------------------------
(* Properties.                                                             *)

\* The sentinel is the last thing a subscriber sees: nothing, not even a
\* publish that was awaiting the server when the stream was closed, enters a
\* queue after None (the listener of the WebSocket endpoint stops there).
NothingAfterEnd ==
  \A q \in Queues : \A i \in DOMAIN queue[q] : queue[q][i] = End => i = Len(queue[q])
=============================================================================
