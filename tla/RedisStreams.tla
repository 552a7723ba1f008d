---------------------------- MODULE RedisStreams ----------------------------
(***************************************************************************)
(* The consumer side of RedisStreamPublisher (kernel/events/redis_streams  *)
(* .py): consumer groups, XREADGROUP, XACK, XRANGE and XTRIM on top of the *)
(* streams that EventBroker's publish fills.  One process consumes for     *)
(* every tenant: it keeps calling ensure_consumer_group, read_messages and *)
(* acknowledge, as the repository's tests do; nothing in the program calls *)
(* them yet.  Local subscribers are EventBroker's subject and are left out  *)
(* here (Queues is empty).  The Redis server is external.                  *)
(***************************************************************************)
EXTENDS EventBroker

CONSTANTS
  MaxCrashes,     \* bound on restarts of the process
  MaxLostReplies, \* bound on answers to XREADGROUP that get lost
  ReadCount,      \* the count of XREADGROUP, 10 in the code
  ReplayCount,    \* the count of XRANGE, 100 in the code
  MayTrim         \* executions whose stream the program trims

ASSUME StreamsAssumption ==
  /\ Backends = {"streams"}
  /\ MaxCrashes \in Nat
  /\ MaxLostReplies \in Nat
  /\ ReadCount \in Nat \ {0}
  /\ ReplayCount \in Nat \ {0}
  /\ MayTrim \subseteq Execs

VARIABLES
  added,       \* history: every entry XADD ever appended to each stream
  groups,      \* server: pairs <<stream, tenant>> with a consumer group
  fetched,     \* server: entries each group has handed out (its position)
  acked,       \* server: entries each group has acknowledged
  ensuring,    \* tenants for which ensure_consumer_group is running
  todo,        \* its streams without XGROUP CREATE so far
  lost,        \* how many answers to XREADGROUP were lost
  inbox,       \* entries read_messages returned, not yet acknowledged
  crashes      \* how often the process was restarted

consumerVars == <<groups, fetched, acked, ensuring, todo, lost, inbox, crashes>>
streamsVars == <<brokerVars, added, consumerVars>>

Group == Execs \X Tenants

StreamsTypeOK ==
  /\ BrokerTypeOK
  /\ added \in [Execs -> Seq(Events)]
  /\ groups \subseteq Group
  /\ fetched \in [Group -> SUBSET Events]
  /\ acked \in [Group -> SUBSET Events]
  /\ ensuring \subseteq Tenants
  /\ todo \in [Tenants -> SUBSET Execs]
  /\ lost \in 0 .. MaxLostReplies
  /\ inbox \in [Tenants -> SUBSET Events]
  /\ crashes \in 0 .. MaxCrashes

StreamsInit ==
  /\ BrokerInit
  /\ added = [x \in Execs |-> << >>]
  /\ groups = {}
  /\ fetched = [g \in Group |-> {}]
  /\ acked = [g \in Group |-> {}]
  /\ ensuring = {}
  /\ todo = [t \in Tenants |-> {}]
  /\ lost = 0
  /\ inbox = [t \in Tenants |-> {}]
  /\ crashes = 0

-----------------------------------------------------------------------------

\* Mutant: ensure_consumer_group remembers that it has run.
ensure_consumer_group_once(t) ==
  /\ t \notin ensuring
  /\ stream_keys # {}
  /\ \A x \in Execs : <<x, t>> \notin groups
  /\ ensuring' = ensuring \cup {t}
  /\ todo' = [todo EXCEPT ![t] = stream_keys]
  /\ UNCHANGED <<brokerVars, added, groups, fetched, acked, lost, inbox, crashes>>

\* ensure_consumer_group: a snapshot of the known streams (a call that finds
\* every group in place changes nothing and is left out) ...
ensure_consumer_group(t) ==
  /\ t \notin ensuring
  /\ \E x \in stream_keys : <<x, t>> \notin groups
  /\ ensuring' = ensuring \cup {t}
  /\ todo' = [todo EXCEPT ![t] = stream_keys]
  /\ UNCHANGED <<brokerVars, added, groups, fetched, acked, lost, inbox, crashes>>

\* ... one awaited XGROUP CREATE for each, with id 0; BUSYGROUP is ignored ...
xgroup_create(t) ==
  /\ \E x \in todo[t] :
       /\ groups' = groups \cup {<<x, t>>}
       /\ todo' = [todo EXCEPT ![t] = @ \ {x}]
  /\ UNCHANGED <<brokerVars, added, fetched, acked, ensuring, lost, inbox, crashes>>

\* ... and the return.
EnsureReturns(t) ==
  /\ t \in ensuring
  /\ todo[t] = {}
  /\ ensuring' = ensuring \ {t}
  /\ UNCHANGED <<brokerVars, added, groups, fetched, acked, todo, lost, inbox, crashes>>

\* The entries of a stream.
In(list) == {list[i] : i \in DOMAIN list}

\* XREADGROUP with ">" over all known streams: from each the oldest entries
\* never handed out to the group, at most ReadCount of them.  NOGROUP for any
\* of the streams refuses the whole command.
readable(t) == stream_keys # {} /\ \A x \in stream_keys : <<x, t>> \in groups

unread(x, t) ==
  LET new == {i \in DOMAIN stream[x] : stream[x][i] \notin fetched[<<x, t>>]}
  IN  {stream[x][i] : i \in {k \in new : Cardinality({j \in new : j < k}) < ReadCount}}

xreadgroup(t) ==
  /\ readable(t)
  /\ \E x \in stream_keys : unread(x, t) # {}
  /\ fetched' = [g \in Group |->
                   IF g[2] = t /\ g[1] \in stream_keys
                   THEN fetched[g] \cup unread(g[1], t) ELSE fetched[g]]
  /\ UNCHANGED <<brokerVars, added, groups, acked, ensuring, todo, crashes>>

\* read_messages returns every entry of the reply, whatever its tenant.
read_messages(t) ==
  /\ xreadgroup(t)
  /\ inbox' = [inbox EXCEPT ![t] = @ \cup UNION {unread(x, t) : x \in stream_keys}]
  /\ UNCHANGED lost

\* The connection is lost after the server has moved the group's position.
ReplyLost(t) ==
  /\ lost < MaxLostReplies
  /\ xreadgroup(t)
  /\ lost' = lost + 1
  /\ inbox' = inbox

acknowledge(t, ev) ==
  /\ ev \in inbox[t]
  /\ inbox' = [inbox EXCEPT ![t] = @ \ {ev}]
  /\ acked' = [acked EXCEPT ![<<ev.exec, t>>] = @ \cup {ev}]
  /\ UNCHANGED <<brokerVars, added, groups, fetched, ensuring, todo, lost, crashes>>

\* XADD numbers the entries, and trimming drops the oldest: the ids of the
\* entries that are left are the last ones.
dropped(x) == Len(added[x]) - Len(stream[x])

Least(a, b) == IF a < b THEN a ELSE b

\* Mutant: XRANGE with an exclusive start, as for paging.
replay_after(x, start_id) ==
  LET first == IF start_id > dropped(x) THEN start_id - dropped(x) + 1 ELSE 1
  IN  SubSeq(stream[x], first, Least(first + ReplayCount - 1, Len(stream[x])))

\* replay(execution_id, start_id): XRANGE from an id on, count entries.
replay(x, start_id) ==
  LET first == IF start_id > dropped(x) THEN start_id - dropped(x) ELSE 1
  IN  SubSeq(stream[x], first, Least(first + ReplayCount - 1, Len(stream[x])))

\* XTRIM, to whatever length the caller gives.
trim(x) ==
  /\ x \in MayTrim
  /\ \E kept \in trimmed(stream[x], 0) \ {stream[x]} : stream' = [stream EXCEPT ![x] = kept]
  /\ UNCHANGED <<backend, subs, sub, queue, pub, stream_keys, added, consumerVars>>

\* The process dies and comes up again: its memory is gone, the awaiting
\* publishers with it; the server keeps the streams and the groups.
Restart ==
  /\ crashes < MaxCrashes
  /\ crashes' = crashes + 1
  /\ subs' = [x \in {} |-> {}]
  /\ stream_keys' = {}
  /\ pub' = [ev \in Events |-> IF pub[ev] \in {"sending", "stored"} THEN "raised" ELSE pub[ev]]
  /\ ensuring' = {}
  /\ todo' = [t \in Tenants |-> {}]
  /\ inbox' = [t \in Tenants |-> {}]
  /\ UNCHANGED <<backend, sub, queue, stream, added, groups, fetched, acked, lost>>

Publish(ev) ==
  /\ \/ (publish(ev) \/ deliver(ev)) /\ added' = added
     \/ /\ ServerStores(ev)
        /\ added' = [added EXCEPT ![ev.exec] = Append(@, ev)]
  /\ UNCHANGED consumerVars

Raise(ev) == PublishRaises(ev) /\ UNCHANGED <<added, consumerVars>>

Close == (\E x \in MayClose : close(x)) /\ UNCHANGED <<added, consumerVars>>

Consume(t) ==
  \/ ensure_consumer_group(t)
  \/ xgroup_create(t)
  \/ EnsureReturns(t)
  \/ read_messages(t)
  \/ \E ev \in Events : acknowledge(t, ev)

StreamsNext ==
  \/ \E ev \in Events : Publish(ev) \/ Raise(ev)
  \/ \E t \in Tenants : Consume(t) \/ ReplyLost(t)
  \/ \E x \in Execs : trim(x)
  \/ Close
  \/ Restart

\* Publishers and the consuming loop keep going.
StreamsFairness ==
  /\ \A ev \in Events : WF_streamsVars(Publish(ev))
  /\ \A t \in Tenants : WF_streamsVars(Consume(t))

StreamsSpec == StreamsInit /\ [][StreamsNext]_streamsVars /\ StreamsFairness

-----------------------------------------------------------------------------
(* Properties.                                                             *)

\* Whatever groups read and acknowledge, and however often the process was
\* restarted, a client that reconnects with the id of an entry gets that
\* entry and the ones added after it, in order and without a gap, as many as
\* count allows ("for recovery on reconnect", redis_streams.py:208).  Only a
\* stream that is trimmed loses an entry with fewer than maxlen newer ones.
ReplayIsGapless ==
  \A x \in Execs : \A i \in DOMAIN added[x] :
    /\ x \notin MayTrim /\ Len(added[x]) - i < MaxLen => dropped(x) < i
    /\ dropped(x) < i =>
         replay(x, i) = SubSeq(added[x], i, Least(i + ReplayCount - 1, Len(added[x])))

\* An event whose publish returned is eventually acknowledged by the group of
\* every tenant, whatever streams appear while groups are created and read,
\* unless the process restarts, a reply is lost, the event's stream is closed
\* or trimmed, or later events push it out of the stream unread.
DeliveredUnlessDisturbed ==
  \A ev \in Events, t \in Tenants :
    ev.exec \notin MayClose \cup MayTrim =>
      (pub[ev] = "delivered") ~>
        \/ ev \in acked[<<ev.exec, t>>]
        \/ ev \notin In(stream[ev.exec])
        \/ crashes > 0
        \/ lost > 0
=============================================================================
