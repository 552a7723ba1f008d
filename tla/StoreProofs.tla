----------------------------- MODULE StoreProofs ----------------------------
(***************************************************************************)
(* Proofs about the two parts that keep data for later readers.           *)
(*                                                                         *)
(* MemoryStore, for any sets of ids, agents and kinds.  The answers of     *)
(* list_by_agent agree with the store because the index does: it names     *)
(* every stored item under the item's agent, and, for an agent no item was *)
(* saved away from, nothing else.                                          *)
(*                                                                         *)
(* RedisStreams, in the last section, for any streams, groups, restarts    *)
(* and lost replies.  The two share no constant and no variable.           *)
(***************************************************************************)
EXTENDS MemoryStore, RedisStreams, TLAPS

\* What save keeps: every item is in the index of its agent.
Indexed == \A i \in Stored : i \in index[store[i].agent]

\* What save gives up for the agent of an item it overwrites for another.
OwnOnly == \A a \in Agents \ moved : \A i \in index[a] : i \in Stored /\ store[i].agent = a

\* The inductive invariant.
IndexInv == TypeOK /\ Indexed /\ OwnOnly

-----------------------------------------------------------------------------

LEMMA InitIndexInv == Init => IndexInv
  BY DEF Init, IndexInv, TypeOK, Indexed, OwnOnly, Stored

\* The agent of a stored item.
LEMMA StoredItem ==
  ASSUME TypeOK, NEW i \in Stored
  PROVE  i \in Ids /\ store[i] \in MemoryItem /\ store[i].agent \in Agents
  BY DEF TypeOK, Stored, MemoryItem

LEMMA SaveKeeps ==
  ASSUME IndexInv, NEW i \in Ids, NEW item \in MemoryItem, save(i, item)
  PROVE  IndexInv'
  <1> USE DEF IndexInv
  <1>1. item.agent \in Agents /\ item # None
    BY NoneAssumption DEF MemoryItem
  <1>2. TypeOK'
    <2>1. i \in Stored => store[i].agent \in Agents
      BY StoredItem
    <2> QED  BY <1>1, <2>1 DEF TypeOK, save
  <1>3. ASSUME NEW j \in Stored'
        PROVE  j \in index'[store'[j].agent]
    <2>1. CASE j = i
      BY <1>1, <2>1 DEF save, TypeOK
    <2>2. CASE j # i
      <3>1. j \in Stored /\ store'[j] = store[j]
        BY <2>2 DEF save, Stored, TypeOK
      <3>2. store[j].agent \in Agents /\ j \in index[store[j].agent]
        BY <3>1, StoredItem DEF Indexed
      <3> QED  BY <1>1, <3>1, <3>2 DEF save, TypeOK
    <2> QED  BY <2>1, <2>2
  <1>4. ASSUME NEW a \in Agents \ moved', NEW j \in index'[a]
        PROVE  j \in Stored' /\ store'[j].agent = a
    <2>1. a \notin moved
      BY <1>4 DEF save
    <2>2. CASE j = i
      <3>1. j \in Stored' /\ store'[j] = item
        BY <1>1, <2>2 DEF save, Stored, TypeOK
      <3>2. CASE a # item.agent
        <4>1. i \in index[a]
          BY <1>1, <2>2, <3>2, <1>4 DEF save, TypeOK
        <4>2. i \in Stored /\ store[i].agent = a
          BY <4>1, <2>1, <1>4 DEF OwnOnly
        <4>3. a \in moved'
          BY <4>2, <3>2 DEF save
        <4> QED  BY <4>3, <1>4
      <3> QED  BY <3>1, <3>2
    <2>3. CASE j # i
      <3>1. j \in index[a]
        BY <1>1, <2>3, <1>4 DEF save, TypeOK
      <3>2. j \in Stored /\ store[j].agent = a
        BY <3>1, <2>1, <1>4 DEF OwnOnly
      <3> QED  BY <3>2, <2>3 DEF save, Stored, TypeOK
    <2> QED  BY <2>2, <2>3
  <1> QED  BY <1>2, <1>3, <1>4 DEF Indexed, OwnOnly

LEMMA DeleteKeeps ==
  ASSUME IndexInv, NEW i \in Ids, delete(i)
  PROVE  IndexInv'
  <1> USE DEF IndexInv
  <1>1. store[i].agent \in Agents
    BY StoredItem DEF delete
  <1>2. TypeOK'
    BY <1>1 DEF TypeOK, delete
  <1>3. ASSUME NEW j \in Stored'
        PROVE  j \in index'[store'[j].agent]
    <2>1. j # i /\ j \in Stored /\ store'[j] = store[j]
      BY DEF delete, Stored, TypeOK
    <2>2. store[j].agent \in Agents /\ j \in index[store[j].agent]
      BY <2>1, StoredItem DEF Indexed
    <2> QED  BY <1>1, <2>1, <2>2 DEF delete, TypeOK
  <1>4. ASSUME NEW a \in Agents \ moved', NEW j \in index'[a]
        PROVE  j \in Stored' /\ store'[j].agent = a
    <2>1. a \notin moved /\ j \in index[a]
      BY <1>1, <1>4 DEF delete, TypeOK
    <2>2. j \in Stored /\ store[j].agent = a
      BY <2>1 DEF OwnOnly
    <2>3. j # i
      BY <1>1, <1>4, <2>2 DEF delete, TypeOK
    <2> QED  BY <2>2, <2>3 DEF delete, Stored, TypeOK
  <1> QED  BY <1>2, <1>3, <1>4 DEF Indexed, OwnOnly

\* The invariant holds in every state (InMemoryMemoryRepository.save and
\* delete, under a clock that may be set).
THEOREM IndexInvHolds == Spec => []IndexInv
  <1>1. IndexInv /\ [Next]_vars => IndexInv'
    <2> SUFFICES ASSUME IndexInv, [Next]_vars
                 PROVE  IndexInv'
      OBVIOUS
    <2>1. CASE \E i \in Ids, item \in MemoryItem : save(i, item)
      BY <2>1, SaveKeeps
    <2>2. CASE \E i \in Ids : delete(i)
      BY <2>2, DeleteKeeps
    <2>3. CASE Clock
      BY <2>3 DEF Clock, IndexInv, TypeOK, Indexed, OwnOnly, Stored
    <2>4. CASE UNCHANGED vars
      BY <2>4 DEF vars, IndexInv, TypeOK, Indexed, OwnOnly, Stored
    <2> QED  BY <2>1, <2>2, <2>3, <2>4 DEF Next
  <1> QED  BY <1>1, InitIndexInv, PTL DEF Spec

\* The repository's variables keep their types, for any constants.
THEOREM MemoryTypeCorrect == Spec => []TypeOK
  <1>1. IndexInv => TypeOK
    BY DEF IndexInv
  <1> QED  BY <1>1, IndexInvHolds, PTL

\* A list that does not raise lacks no memory of the agent.
THEOREM ListIsCompleteHolds == Spec => []ListIsComplete
  <1>1. IndexInv => ListIsComplete
    <2> SUFFICES ASSUME IndexInv, NEW i \in Ids, get(i) # None,
                        ~list_by_agent(get(i).agent).raises
                 PROVE  i \in list_by_agent(get(i).agent).ids
      BY DEF ListIsComplete
    <2>1. i \in Stored /\ get(i) = store[i]
      BY DEF get
    <2>2. i \in index[store[i].agent]
      BY <2>1 DEF IndexInv, Indexed
    <2> DEFINE shown == {j \in index[store[i].agent] : get(j) # None}
    <2>3. list_by_agent(store[i].agent) = Answer(shown) /\ sorts(shown)
      BY <2>1 DEF list_by_agent, Answer
    <2>4. list_by_agent(store[i].agent).ids = shown
      BY <2>3 DEF Answer
    <2> QED  BY <2>1, <2>2, <2>4
  <1> QED  BY <1>1, IndexInvHolds, PTL

\* For an agent no item was saved away from, the list and a search for
\* everything are one answer, and raise in the same states.
THEOREM ListAgreesHolds == Spec => []ListAgreesWithSearch
  <1>1. IndexInv => ListAgreesWithSearch
    <2> SUFFICES ASSUME IndexInv, NEW a \in Agents \ moved
                 PROVE  list_by_agent(a) = search(a, Kinds)
      BY DEF ListAgreesWithSearch
    <2>1. index[a] = {i \in Stored : store[i].agent = a}
      <3>1. ASSUME NEW i \in index[a] PROVE i \in Stored /\ store[i].agent = a
        BY DEF IndexInv, OwnOnly
      <3>2. ASSUME NEW i \in Stored, store[i].agent = a PROVE i \in index[a]
        BY <3>2 DEF IndexInv, Indexed
      <3> QED  BY <3>1, <3>2
    <2> DEFINE listed == {i \in index[a] : get(i) # None}
               found == {i \in Stored : get(i) # None /\ a \in {None, store[i].agent}
                                        /\ store[i].kind \in Kinds}
    <2>2. \A i \in Stored : store[i].kind \in Kinds
      BY StoredItem DEF IndexInv, MemoryItem
    <2>3. a # None
      BY NoneAssumption
    <2>4. listed = found
      BY <2>1, <2>2, <2>3
    <2>5. list_by_agent(a) = Answer(listed)
      BY <2>1 DEF list_by_agent
    <2>6. search(a, Kinds) = Answer(found)
      BY DEF search
    <2> QED  BY <2>4, <2>5, <2>6
  <1> QED  BY <1>1, IndexInvHolds, PTL

-----------------------------------------------------------------------------
(* RedisStreams.                                                           *)

\* The sequence s is an end of the sequence l.
Ends(s, l) ==
  /\ Len(s) <= Len(l)
  /\ \A j \in 1 .. Len(s) : s[j] = l[Len(l) - Len(s) + j]

\* What is left of a stream are the entries added last ...
KeepsLast == \A x \in Execs : Ends(stream[x], added[x])

\* ... and unless somebody trims it, all of them or at least MaxLen.
KeepsEnough ==
  \A x \in Execs \ MayTrim : Len(stream[x]) >= MaxLen \/ Len(stream[x]) = Len(added[x])

\* The inductive invariant.
StreamsInv ==
  /\ StreamsTypeOK
  /\ KeepsLast
  /\ KeepsEnough

\* What the server does to the entries of a stream.
LEMMA TrimmedEnds ==
  ASSUME NEW s \in Seq(Events), NEW l \in Seq(Events), Ends(s, l),
         NEW maxlen \in Nat, NEW kept \in trimmed(s, maxlen)
  PROVE  /\ kept \in Seq(Events)
         /\ Ends(kept, l)
         /\ Len(kept) = Len(s) \/ Len(kept) >= maxlen
<1>1. PICK n \in 1 .. Len(s) + 1 :
         /\ n = 1 \/ Len(s) - n + 1 >= maxlen
         /\ kept = SubSeq(s, n, Len(s))
  BY DEF trimmed
<1>2. /\ kept \in Seq(Events)
      /\ Len(kept) = Len(s) - n + 1
      /\ \A j \in 1 .. Len(s) - n + 1 : kept[j] = s[n + j - 1]
  BY <1>1
<1>3. Ends(kept, l)
  <2> SUFFICES ASSUME NEW j \in 1 .. Len(kept)
               PROVE  kept[j] = l[Len(l) - Len(kept) + j]
    BY <1>1, <1>2 DEF Ends
  <2>1. n + j - 1 \in 1 .. Len(s) /\ kept[j] = s[n + j - 1]
    BY <1>1, <1>2
  <2>2. s[n + j - 1] = l[Len(l) - Len(s) + (n + j - 1)]
    BY <2>1 DEF Ends
  <2>3. Len(l) - Len(s) + (n + j - 1) = Len(l) - Len(kept) + j
    BY <1>1, <1>2
  <2> QED
    BY <2>1, <2>2, <2>3
<1> QED
  BY <1>1, <1>2, <1>3

LEMMA AppendEnds ==
  ASSUME NEW s \in Seq(Events), NEW l \in Seq(Events), Ends(s, l), NEW ev \in Events
  PROVE  /\ Append(s, ev) \in Seq(Events) /\ Append(l, ev) \in Seq(Events)
         /\ Len(Append(s, ev)) = Len(s) + 1 /\ Len(Append(l, ev)) = Len(l) + 1
         /\ Ends(Append(s, ev), Append(l, ev))
<1>1. /\ Len(s) \in Nat /\ Len(l) \in Nat /\ Len(s) <= Len(l)
      /\ Len(Append(s, ev)) = Len(s) + 1
      /\ Len(Append(l, ev)) = Len(l) + 1
  BY DEF Ends
<1>2. ASSUME NEW j \in 1 .. Len(s) + 1
      PROVE  Append(s, ev)[j] = Append(l, ev)[Len(l) + 1 - (Len(s) + 1) + j]
  <2>1. CASE j = Len(s) + 1
    BY <1>1, <2>1
  <2>2. CASE j # Len(s) + 1
    <3>1. j \in 1 .. Len(s) /\ Append(s, ev)[j] = s[j]
      BY <1>1, <2>2
    <3>2. s[j] = l[Len(l) - Len(s) + j]
      BY <3>1 DEF Ends
    <3>3. /\ Len(l) - Len(s) + j \in 1 .. Len(l)
          /\ Len(l) + 1 - (Len(s) + 1) + j = Len(l) - Len(s) + j
      BY <1>1, <3>1
    <3> QED
      BY <3>1, <3>2, <3>3
  <2> QED
    BY <2>1, <2>2
<1>3. Append(s, ev) \in Seq(Events) /\ Append(l, ev) \in Seq(Events)
  OBVIOUS
<1> DEFINE a == Append(s, ev)
           b == Append(l, ev)
<1>4. Ends(a, b)
  <2>1. Len(a) = Len(s) + 1 /\ Len(b) = Len(l) + 1
    BY <1>1
  <2>2. \A j \in 1 .. Len(s) + 1 : a[j] = b[Len(l) + 1 - (Len(s) + 1) + j]
    BY <1>2
  <2> HIDE DEF a, b
  <2> QED
    BY <1>1, <2>1, <2>2 DEF Ends
<1> QED
  BY <1>1, <1>3, <1>4

\* The entries of a stream are events.
LEMMA EntriesAreEvents ==
  ASSUME NEW s \in Seq(Events)
  PROVE  In(s) \subseteq Events
BY DEF In

\* A step that leaves the streams alone.
LEMMA StreamsUntouched ==
  ASSUME StreamsInv, StreamsTypeOK', UNCHANGED <<stream, added>>
  PROVE  StreamsInv'
BY DEF StreamsInv, KeepsLast, KeepsEnough, Ends

\* A step of the publisher beside the consumers.
LEMMA BrokerStep ==
  ASSUME StreamsInv, BrokerTypeOK', UNCHANGED <<stream, added>>,
         UNCHANGED <<groups, fetched, acked, ensuring, todo, lost, inbox, crashes>>
  PROVE  StreamsInv'
<1>1. StreamsTypeOK'
  BY DEF StreamsInv, StreamsTypeOK
<1> QED
  BY <1>1, StreamsUntouched

\* Putting an event, or the sentinel, into some of the queues.
LEMMA PutType ==
  ASSUME BrokerTypeOK, NEW item \in Events \cup {End}, NEW chosen,
         queue' = [q \in Queues |-> IF q \in chosen THEN Append(queue[q], item) ELSE queue[q]]
  PROVE  queue' \in [Queues -> Seq(Events \cup {End})]
<1>1. \A q \in Queues : queue[q] \in Seq(Events \cup {End})
  BY DEF BrokerTypeOK
<1>2. \A q \in Queues : Append(queue[q], item) \in Seq(Events \cup {End})
  BY <1>1
<1> QED
  BY <1>1, <1>2

LEMMA PublisherPreserves ==
  ASSUME StreamsInv,
         (\E ev \in Events : Publish(ev) \/ Raise(ev)) \/ Close
  PROVE  StreamsInv'
<1> USE BrokerAssumption
<1>0. BrokerTypeOK
  BY DEF StreamsInv, StreamsTypeOK
<1>1. UNCHANGED <<groups, fetched, acked, ensuring, todo, lost, inbox, crashes>>
  BY DEF Publish, Raise, Close, consumerVars
<1>2. ASSUME NEW ev \in Events, Publish(ev) \/ Raise(ev)
      PROVE  StreamsInv'
  <2>1. CASE (publish(ev) \/ PublishRaises(ev)) /\ added' = added
    <3>1. pub' \in [Events -> {"new", "sending", "stored", "delivered", "raised"}]
      BY <1>0, <2>1 DEF publish, PublishRaises, BrokerTypeOK
    <3>2. UNCHANGED <<backend, subs, sub, queue, stream, stream_keys>>
      BY <2>1 DEF publish, PublishRaises
    <3>3. BrokerTypeOK'
      BY <1>0, <3>1, <3>2 DEF BrokerTypeOK
    <3> QED
      BY <1>1, <2>1, <3>2, <3>3, BrokerStep
  <2>2. CASE ServerStores(ev) /\ added' = [added EXCEPT ![ev.exec] = Append(added[ev.exec], ev)]
    <3>0. ev.exec \in Execs /\ backend = "streams"
      BY <1>0, StreamsAssumption DEF BrokerTypeOK
    <3>1. /\ pub' = [pub EXCEPT ![ev] = "stored"]
          /\ UNCHANGED <<backend, subs, sub, queue, stream_keys>>
      BY <2>2 DEF ServerStores
    <3>2. PICK kept \in trimmed(Append(stream[ev.exec], ev), MaxLen) :
             stream' = [stream EXCEPT ![ev.exec] = kept]
      BY <2>2, <3>0 DEF ServerStores
    <3> DEFINE s == stream[ev.exec]
               l == added[ev.exec]
    <3>3. s \in Seq(Events) /\ l \in Seq(Events) /\ Ends(s, l)
      BY <3>0 DEF StreamsInv, StreamsTypeOK, BrokerTypeOK, KeepsLast
    <3>4. kept \in trimmed(Append(s, ev), MaxLen)
      BY <3>2
    <3> HIDE DEF s, l
    <3>5. /\ Append(s, ev) \in Seq(Events) /\ Append(l, ev) \in Seq(Events)
          /\ Len(Append(s, ev)) = Len(s) + 1 /\ Len(Append(l, ev)) = Len(l) + 1
          /\ Ends(Append(s, ev), Append(l, ev))
      BY <3>3, AppendEnds
    <3>6. /\ kept \in Seq(Events)
          /\ Ends(kept, Append(l, ev))
          /\ Len(kept) = Len(s) + 1 \/ Len(kept) >= MaxLen
      BY <3>4, <3>5, TrimmedEnds
    <3>7. /\ stream' \in [Execs -> Seq(Events)] /\ added' \in [Execs -> Seq(Events)]
          /\ stream'[ev.exec] = kept /\ added'[ev.exec] = Append(l, ev)
          /\ \A x \in Execs \ {ev.exec} : stream'[x] = stream[x] /\ added'[x] = added[x]
      BY <2>2, <3>0, <3>2, <3>5, <3>6 DEF StreamsInv, StreamsTypeOK, BrokerTypeOK, l
    <3>8. StreamsTypeOK'
      BY <1>0, <1>1, <3>1, <3>7 DEF StreamsInv, StreamsTypeOK, BrokerTypeOK
    <3>9. KeepsLast'
      <4> SUFFICES ASSUME NEW x \in Execs PROVE Ends(stream'[x], added'[x])
        BY DEF KeepsLast, Ends
      <4>1. CASE x = ev.exec
        BY <3>6, <3>7, <4>1
      <4>2. CASE x # ev.exec
        BY <3>7, <4>2 DEF StreamsInv, KeepsLast
      <4> QED
        BY <4>1, <4>2
    <3>10. KeepsEnough'
      <4> SUFFICES ASSUME NEW x \in Execs \ MayTrim
                   PROVE  Len(stream'[x]) >= MaxLen \/ Len(stream'[x]) = Len(added'[x])
        BY DEF KeepsEnough
      <4>1. CASE x = ev.exec
        <5>1. Len(s) >= MaxLen \/ Len(s) = Len(l)
          BY <4>1 DEF StreamsInv, KeepsEnough, s, l
        <5>2. Len(s) \in Nat /\ Len(l) \in Nat /\ Len(kept) \in Nat
          BY <3>3, <3>6
        <5> QED
          BY <3>5, <3>6, <3>7, <4>1, <5>1, <5>2
      <4>2. CASE x # ev.exec
        BY <3>7, <4>2 DEF StreamsInv, KeepsEnough
      <4> QED
        BY <4>1, <4>2
    <3> QED
      BY <3>8, <3>9, <3>10 DEF StreamsInv
  <2>3. CASE deliver(ev) /\ added' = added
    <3>1. /\ pub' = [pub EXCEPT ![ev] = "delivered"]
          /\ put_to_subscribers(ev)
          /\ stream_keys' \subseteq stream_keys \cup {ev.exec}
          /\ UNCHANGED <<backend, subs, sub, stream>>
      BY <2>3 DEF deliver
    <3>2. PICK chosen : chosen = {q \in Queues : q \in subscribers(ev.exec) /\ accepts(q, ev)}
      OBVIOUS
    <3>3. queue' \in [Queues -> Seq(Events \cup {End})]
      <4>1. queue' = [q \in Queues |-> IF q \in chosen THEN Append(queue[q], ev) ELSE queue[q]]
        BY <3>1, <3>2 DEF put_to_subscribers
      <4> QED
        BY <1>0, <4>1, PutType
    <3>4. BrokerTypeOK'
      BY <1>0, <3>1, <3>3 DEF BrokerTypeOK
    <3> QED
      BY <1>1, <2>3, <3>1, <3>4, BrokerStep
  <2> QED
    BY <1>2, <2>1, <2>2, <2>3 DEF Publish, Raise
<1>3. CASE Close
  <2>1. PICK x \in MayClose : close(x)
    BY <1>3 DEF Close
  <2>2. PICK chosen : chosen = {q \in Queues : \E y \in {x} : q \in subscribers(y)}
    OBVIOUS
  <2>3. /\ queue' = [q \in Queues |->
                       IF q \in chosen THEN Append(queue[q], End) ELSE queue[q]]
        /\ subs' = [y \in DOMAIN subs \ {x} |-> subs[y]]
        /\ stream_keys' = stream_keys \ {x}
        /\ UNCHANGED <<backend, sub, pub, stream>>
        /\ added' = added
    BY <1>3, <2>1, <2>2 DEF Close, close, end_streams
  <2>4. queue' \in [Queues -> Seq(Events \cup {End})]
    BY <1>0, <2>3, PutType
  <2>5. BrokerTypeOK'
    BY <1>0, <2>3, <2>4 DEF BrokerTypeOK
  <2> QED
    BY <1>1, <2>3, <2>5, BrokerStep
<1> QED
  BY <1>2, <1>3

\* The consumer side: it reads the streams and writes none.
LEMMA ConsumerPreserves ==
  ASSUME StreamsInv, NEW t \in Tenants,
         Consume(t) \/ ReplyLost(t)
  PROVE  StreamsInv'
<1> USE BrokerAssumption
<1>0. StreamsTypeOK
  BY DEF StreamsInv
<1>1. UNCHANGED brokerVars
  BY DEF Consume, ReplyLost, ensure_consumer_group, xgroup_create,
         EnsureReturns, read_messages, xreadgroup, acknowledge,
         brokerVars
<1>2. added' = added
  BY DEF Consume, ReplyLost, ensure_consumer_group, xgroup_create,
         EnsureReturns, read_messages, xreadgroup, acknowledge
<1>3. stream' = stream /\ stream_keys' = stream_keys
  BY <1>1 DEF brokerVars
<1>4. BrokerTypeOK'
  BY <1>0, <1>1 DEF StreamsTypeOK, BrokerTypeOK, brokerVars
<1>6. ASSUME StreamsTypeOK' PROVE StreamsInv'
  BY <1>2, <1>3, <1>6, StreamsUntouched
<1>7. CASE ensure_consumer_group(t)
  <2>1. stream_keys \subseteq Execs
    BY <1>0 DEF StreamsTypeOK, BrokerTypeOK
  <2>2. StreamsTypeOK'
    BY <1>0, <1>4, <1>7, <2>1 DEF StreamsTypeOK, ensure_consumer_group
  <2> QED
    BY <1>6, <1>7, <2>2 DEF ensure_consumer_group
<1>8. CASE xgroup_create(t)
  <2>1. PICK x \in todo[t] :
           /\ groups' = groups \cup {<<x, t>>}
           /\ todo' = [todo EXCEPT ![t] = todo[t] \ {x}]
    BY <1>8 DEF xgroup_create
  <2>2. x \in Execs
    BY <1>0 DEF StreamsTypeOK
  <2>3. groups' \subseteq Group /\ todo' \in [Tenants -> SUBSET Execs]
    BY <1>0, <2>1, <2>2 DEF StreamsTypeOK, Group
  <2>4. StreamsTypeOK'
    BY <1>0, <1>4, <1>8, <2>3 DEF StreamsTypeOK, xgroup_create
  <2> QED
    BY <1>6, <1>8, <2>4 DEF xgroup_create
<1>9. CASE EnsureReturns(t)
  <2>1. StreamsTypeOK'
    BY <1>0, <1>4, <1>9 DEF StreamsTypeOK, EnsureReturns
  <2> QED
    BY <1>6, <1>9, <2>1 DEF EnsureReturns
<1>10. ASSUME xreadgroup(t)
       PROVE  /\ fetched' \in [Group -> SUBSET Events]
              /\ UNCHANGED <<groups, acked, ensuring, todo, crashes>>
              /\ (UNION {unread(x, t) : x \in stream_keys}) \subseteq Events
  <2>1. /\ fetched' = [g \in Group |->
                         IF g[2] = t /\ g[1] \in stream_keys
                         THEN fetched[g] \cup unread(g[1], t) ELSE fetched[g]]
        /\ UNCHANGED <<groups, acked, ensuring, todo, crashes>>
    BY <1>10 DEF xreadgroup
  <2>2. \A x \in Execs : unread(x, t) \subseteq Events
    <3> SUFFICES ASSUME NEW x \in Execs, NEW e \in unread(x, t) PROVE e \in Events
      OBVIOUS
    <3>1. stream[x] \in Seq(Events)
      BY <1>0 DEF StreamsTypeOK, BrokerTypeOK
    <3>2. e \in In(stream[x])
      BY DEF unread, In
    <3> QED
      BY <3>1, <3>2, EntriesAreEvents
  <2>3. fetched' \in [Group -> SUBSET Events]
    <3>1. \A g \in Group : g[1] \in Execs /\ fetched[g] \subseteq Events
      BY <1>0 DEF StreamsTypeOK, Group
    <3> QED
      BY <2>1, <2>2, <3>1
  <2>4. stream_keys \subseteq Execs
    BY <1>0 DEF StreamsTypeOK, BrokerTypeOK
  <2> QED
    BY <2>1, <2>2, <2>3, <2>4
<1>11. CASE ReplyLost(t)
  <2>1. xreadgroup(t) /\ lost < MaxLostReplies /\ lost' = lost + 1 /\ inbox' = inbox
    BY <1>11 DEF ReplyLost
  <2>2. lost' \in 0 .. MaxLostReplies
    BY <1>0, <2>1, StreamsAssumption DEF StreamsTypeOK
  <2>3. StreamsTypeOK'
    BY <1>0, <1>2, <1>4, <1>10, <2>1, <2>2 DEF StreamsTypeOK
  <2> QED
    BY <1>6, <1>10, <2>1, <2>3
<1>12. CASE read_messages(t)
  <2>1. /\ xreadgroup(t)
        /\ inbox' = [inbox EXCEPT ![t] = inbox[t] \cup UNION {unread(x, t) : x \in stream_keys}]
        /\ lost' = lost
    BY <1>12 DEF read_messages
  <2>2. inbox' \in [Tenants -> SUBSET Events]
    BY <1>0, <1>10, <2>1 DEF StreamsTypeOK
  <2>3. StreamsTypeOK'
    BY <1>0, <1>2, <1>4, <1>10, <2>1, <2>2 DEF StreamsTypeOK
  <2> QED
    BY <1>6, <2>3
<1>13. ASSUME NEW ev \in Events, acknowledge(t, ev)
       PROVE  StreamsInv'
  <2> DEFINE k == <<ev.exec, t>>
  <2>1. /\ inbox' = [inbox EXCEPT ![t] = inbox[t] \ {ev}]
        /\ acked' = [acked EXCEPT ![k] = acked[k] \cup {ev}]
        /\ UNCHANGED <<groups, fetched, ensuring, todo, lost, crashes>>
    BY <1>13 DEF acknowledge
  <2>2. k \in Group
    BY DEF Group
  <2> HIDE DEF k
  <2>3. acked' \in [Group -> SUBSET Events]
    BY <1>0, <2>1, <2>2 DEF StreamsTypeOK
  <2>4. inbox' \in [Tenants -> SUBSET Events]
    BY <1>0, <2>1 DEF StreamsTypeOK
  <2>5. StreamsTypeOK'
    BY <1>0, <1>2, <1>4, <2>1, <2>3, <2>4 DEF StreamsTypeOK
  <2> QED
    BY <1>6, <2>5
<1> QED
  BY <1>7, <1>8, <1>9, <1>11, <1>12, <1>13 DEF Consume

\* Trimming: only a stream that may be trimmed loses entries, the oldest.
LEMMA TrimPreserves ==
  ASSUME StreamsInv, NEW x \in Execs, trim(x)
  PROVE  StreamsInv'
<1>1. /\ x \in MayTrim
      /\ UNCHANGED <<backend, subs, sub, queue, pub, stream_keys, added>>
      /\ UNCHANGED <<groups, fetched, acked, ensuring, todo, lost, inbox, crashes>>
  BY DEF trim, consumerVars
<1>2. PICK kept \in trimmed(stream[x], 0) : stream' = [stream EXCEPT ![x] = kept]
  BY DEF trim
<1>3. stream[x] \in Seq(Events) /\ added[x] \in Seq(Events) /\ Ends(stream[x], added[x])
  BY DEF StreamsInv, StreamsTypeOK, BrokerTypeOK, KeepsLast
<1>4. kept \in Seq(Events) /\ Ends(kept, added[x])
  BY <1>2, <1>3, TrimmedEnds
<1>5. /\ stream' \in [Execs -> Seq(Events)]
      /\ stream'[x] = kept
      /\ \A y \in Execs \ {x} : stream'[y] = stream[y]
  BY <1>2, <1>4 DEF StreamsInv, StreamsTypeOK, BrokerTypeOK
<1>6. StreamsTypeOK'
  BY <1>1, <1>5 DEF StreamsInv, StreamsTypeOK, BrokerTypeOK
<1>7. KeepsLast'
  <2> SUFFICES ASSUME NEW y \in Execs PROVE Ends(stream'[y], added[y])
    BY <1>1 DEF KeepsLast, Ends
  <2> QED
    BY <1>4, <1>5 DEF StreamsInv, KeepsLast
<1>8. KeepsEnough'
  BY <1>1, <1>5 DEF StreamsInv, KeepsEnough
<1> QED
  BY <1>6, <1>7, <1>8 DEF StreamsInv

\* A restart: the consumers hold nothing, the server keeps the streams.
LEMMA RestartPreserves ==
  ASSUME StreamsInv, Restart
  PROVE  StreamsInv'
<1>1. /\ crashes < MaxCrashes /\ crashes' = crashes + 1
      /\ DOMAIN subs' = {} /\ stream_keys' = {}
      /\ pub' = [ev \in Events |-> IF pub[ev] \in {"sending", "stored"} THEN "raised" ELSE pub[ev]]
      /\ ensuring' = {}
      /\ todo' = [t \in Tenants |-> {}]
      /\ inbox' = [t \in Tenants |-> {}]
      /\ UNCHANGED <<backend, sub, queue, stream, added, groups, fetched, acked, lost>>
  BY DEF Restart
<1>2. pub' \in [Events -> {"new", "sending", "stored", "delivered", "raised"}]
  BY <1>1 DEF StreamsInv, StreamsTypeOK, BrokerTypeOK
<1>3. BrokerTypeOK'
  BY <1>1, <1>2 DEF StreamsInv, StreamsTypeOK, BrokerTypeOK
<1>4. crashes' \in 0 .. MaxCrashes
  BY <1>1, StreamsAssumption DEF StreamsInv, StreamsTypeOK
<1>5. StreamsTypeOK'
  BY <1>1, <1>3, <1>4 DEF StreamsInv, StreamsTypeOK
<1> QED
  BY <1>1, <1>5, StreamsUntouched

LEMMA InitStreams == StreamsInit => StreamsInv
<1> SUFFICES ASSUME StreamsInit PROVE StreamsInv
  OBVIOUS
<1>1. /\ DOMAIN subs = {}
      /\ sub = [q \in Queues |-> << >>]
      /\ queue = [q \in Queues |-> << >>]
      /\ pub = [ev \in Events |-> "new"]
      /\ stream = [x \in Execs |-> << >>]
      /\ stream_keys = {}
      /\ backend \in Backends
      /\ added = [x \in Execs |-> << >>]
  BY DEF StreamsInit, BrokerInit, create_event_publisher
<1>2. /\ queue \in [Queues -> Seq(Events \cup {End})]
      /\ stream \in [Execs -> Seq(Events)] /\ added \in [Execs -> Seq(Events)]
  BY <1>1
<1>3. BrokerTypeOK
  BY <1>1, <1>2 DEF BrokerTypeOK
<1>4. StreamsTypeOK
  BY <1>2, <1>3, StreamsAssumption DEF StreamsInit, StreamsTypeOK
<1>5. KeepsLast /\ KeepsEnough
  BY <1>1 DEF KeepsLast, KeepsEnough, Ends
<1> QED
  BY <1>4, <1>5 DEF StreamsInv

LEMMA NextStreams == StreamsInv /\ [StreamsNext]_streamsVars => StreamsInv'
<1> SUFFICES ASSUME StreamsInv, [StreamsNext]_streamsVars PROVE StreamsInv'
  OBVIOUS
<1>1. CASE UNCHANGED streamsVars
  <2>1. /\ UNCHANGED brokerVars /\ UNCHANGED <<stream, added>>
        /\ UNCHANGED <<groups, fetched, acked, ensuring, todo, lost, inbox, crashes>>
    BY <1>1 DEF streamsVars, brokerVars, consumerVars
  <2>2. BrokerTypeOK'
    BY <2>1 DEF StreamsInv, StreamsTypeOK, BrokerTypeOK, brokerVars
  <2> QED
    BY <2>1, <2>2, BrokerStep
<1>2. CASE StreamsNext
  BY <1>2, PublisherPreserves, ConsumerPreserves, TrimPreserves, RestartPreserves
     DEF StreamsNext
<1> QED
  BY <1>1, <1>2

LEMMA StreamsInvHolds == StreamsSpec => []StreamsInv
BY InitStreams, NextStreams, PTL DEF StreamsSpec

\* StreamsTypeOK holds in every behaviour of the Streams publisher, the
\* server and the consumers.
THEOREM StreamsTypeCorrect == StreamsSpec => []StreamsTypeOK
<1>1. StreamsInv => StreamsTypeOK
  BY DEF StreamsInv
<1> QED
  BY <1>1, StreamsInvHolds, PTL

\* Replay from the id of an entry that is left returns the entries added
\* from there on without a gap, and an entry with fewer than maxlen newer ones
\* is left unless somebody trims its stream: for any lengths, counts, groups,
\* restarts and lost replies.
THEOREM ReplayIsGaplessHolds == StreamsSpec => []ReplayIsGapless
<1>1. StreamsInv => ReplayIsGapless
  <2> SUFFICES ASSUME StreamsInv, NEW x \in Execs, NEW i \in DOMAIN added[x]
               PROVE  /\ x \notin MayTrim /\ Len(added[x]) - i < MaxLen => dropped(x) < i
                      /\ dropped(x) < i =>
                           replay(x, i) = SubSeq(added[x], i, Least(i + ReplayCount - 1, Len(added[x])))
    BY DEF ReplayIsGapless
  <2> DEFINE s == stream[x]
             l == added[x]
  <2>1. s \in Seq(Events) /\ l \in Seq(Events) /\ Ends(s, l)
    BY DEF StreamsInv, StreamsTypeOK, BrokerTypeOK, KeepsLast
  <2>2. i \in 1 .. Len(l) /\ Len(l) \in Nat /\ Len(s) \in Nat /\ dropped(x) = Len(l) - Len(s)
    BY <2>1 DEF dropped
  <2>3. ASSUME x \notin MayTrim, Len(l) - i < MaxLen PROVE dropped(x) < i
    <3>1. Len(s) >= MaxLen \/ Len(s) = Len(l)
      BY <2>3 DEF StreamsInv, KeepsEnough
    <3>2. MaxLen \in Nat
      BY BrokerAssumption
    <3> HIDE DEF s, l
    <3> QED
      BY <2>2, <2>3, <3>1, <3>2
  <2>4. ASSUME dropped(x) < i
        PROVE  replay(x, i) = SubSeq(l, i, Least(i + ReplayCount - 1, Len(l)))
    <3>1. PICK first : first = i - (Len(l) - Len(s))
      OBVIOUS
    <3>2. PICK last : last = Least(first + ReplayCount - 1, Len(s))
      OBVIOUS
    <3>3. PICK end : end = Least(i + ReplayCount - 1, Len(l))
      OBVIOUS
    <3>4. replay(x, i) = SubSeq(s, first, last)
      BY <2>2, <2>4, <3>1, <3>2 DEF replay
    <3>5. ReplayCount \in Nat /\ ReplayCount > 0
      BY StreamsAssumption
    <3>6. Len(s) <= Len(l)
      BY <2>1 DEF Ends
    <3>7. \A j \in 1 .. Len(s) : s[j] = l[Len(l) - Len(s) + j]
      BY <2>1 DEF Ends
    <3>8. /\ first \in Int /\ 1 <= first /\ first <= Len(s)
          /\ i \in Int /\ 1 <= i /\ i <= Len(l)
      <4> HIDE DEF s, l
      <4>1. i \in Int /\ 1 <= i /\ i <= Len(l) /\ Len(l) \in Int /\ Len(s) \in Int
        BY <2>2
      <4>2. Len(l) - Len(s) < i
        BY <2>2, <2>4
      <4> QED
        BY <3>1, <3>6, <4>1, <4>2
    <3>9. /\ last \in Int /\ first <= last /\ last <= Len(s)
          /\ end \in Int /\ i <= end /\ end <= Len(l)
          /\ end - i = last - first
      <4> HIDE DEF s, l
      <4>1. CASE first + ReplayCount - 1 < Len(s)
        BY <2>2, <3>1, <3>2, <3>3, <3>5, <3>6, <3>8, <4>1 DEF Least
      <4>2. CASE ~(first + ReplayCount - 1 < Len(s))
        BY <2>2, <3>1, <3>2, <3>3, <3>5, <3>6, <3>8, <4>2 DEF Least
      <4> QED
        BY <4>1, <4>2
    <3>10. SubSeq(s, first, last) = [j \in 1 .. (last - first + 1) |-> s[first + j - 1]]
      <4> HIDE DEF s
      <4>1. s \in Seq(Events) /\ first \in 1 .. Len(s) /\ last \in 1 .. Len(s)
        BY <2>1, <2>2, <3>8, <3>9
      <4> QED
        BY <4>1
    <3>11. SubSeq(l, i, end) = [j \in 1 .. (end - i + 1) |-> l[i + j - 1]]
      <4> HIDE DEF l
      <4>1. l \in Seq(Events) /\ i \in 1 .. Len(l) /\ end \in 1 .. Len(l)
        BY <2>1, <2>2, <3>8, <3>9
      <4> QED
        BY <4>1
    <3>12. ASSUME NEW j \in 1 .. (last - first + 1)
           PROVE  s[first + j - 1] = l[i + j - 1]
      <4> HIDE DEF s, l
      <4>1. first + j - 1 \in 1 .. Len(s)
        BY <2>2, <3>8, <3>9
      <4>2. s[first + j - 1] = l[Len(l) - Len(s) + (first + j - 1)]
        BY <3>7, <4>1
      <4>3. Len(l) - Len(s) + (first + j - 1) = i + j - 1
        BY <2>2, <3>1, <3>8, <4>1
      <4> QED
        BY <4>2, <4>3
    <3> QED
      BY <3>3, <3>4, <3>9, <3>10, <3>11, <3>12
  <2> QED
    BY <2>3, <2>4
<1> QED
  BY <1>1, StreamsInvHolds, PTL
=============================================================================
