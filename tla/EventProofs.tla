---------------------------- MODULE EventProofs -----------------------------
(***************************************************************************)
(* Theorems about the event publishers and the API that feeds them and     *)
(* listens to them, for every set of executions, queues and tenants, any   *)
(* keys and any choice of the publisher.                                   *)
(***************************************************************************)
EXTENDS Api, TLAPS

-----------------------------------------------------------------------------
(* What the publisher keeps between its operations.                        *)

\* A queue in a list of subscribers was subscribed to that execution.
SubscribersAgree ==
  \A x \in Execs : \A q \in subscribers(x) : q \in Queues /\ sub[q] # << >> /\ sub[q].exec = x

\* A queue that was not created holds nothing.
CreatedFirst == \A q \in Queues : sub[q] = << >> => queue[q] = << >>

\* Every event in a queue was published, and its subscriber accepts it.
QueuedIsPublished ==
  \A q \in Queues : \A i \in DOMAIN queue[q] :
    queue[q][i] # End => pub[queue[q][i]] # "new" /\ accepts(q, queue[q][i])

\* A queue that can still get something has not got the sentinel yet.
SubscribedIsOpen ==
  \A x \in Execs : \A q \in subscribers(x) : \A i \in DOMAIN queue[q] : queue[q][i] # End

BrokerInv ==
  /\ BrokerTypeOK
  /\ SubscribersAgree
  /\ CreatedFirst
  /\ QueuedIsPublished
  /\ SubscribedIsOpen
  /\ NothingAfterEnd

\* Assigning a list in the dict of subscribers.
LEMMA SetSubscribers ==
  ASSUME BrokerTypeOK, NEW x \in Execs, NEW list \in SUBSET Queues, setSubscribers(x, list)
  PROVE  /\ DOMAIN subs' \subseteq Execs
         /\ \A y \in DOMAIN subs' : subs'[y] \subseteq Queues
         /\ \A y \in Execs : subscribers(y)' = IF y = x THEN list ELSE subscribers(y)
<1>1. subs' = [y \in DOMAIN subs \cup {x} |-> IF y = x THEN list ELSE subs[y]]
  BY DEF setSubscribers
<1>2. DOMAIN subs' = DOMAIN subs \cup {x}
  BY <1>1
<1>3. \A y \in DOMAIN subs' : subs'[y] = IF y = x THEN list ELSE subs[y]
  BY <1>1, <1>2
<1>4. \A y \in Execs : subscribers(y)' = IF y \in DOMAIN subs' THEN subs'[y] ELSE {}
  BY DEF subscribers
<1>5. \A y \in Execs : subscribers(y)' = IF y = x THEN list ELSE subscribers(y)
  BY <1>2, <1>3, <1>4 DEF subscribers
<1> QED
  BY <1>2, <1>3, <1>5 DEF BrokerTypeOK

\* Putting one item in each queue of a set.
Put(targets, item) ==
  queue' = [q \in Queues |-> IF q \in targets THEN Append(queue[q], item) ELSE queue[q]]

LEMMA PutEffect ==
  ASSUME BrokerTypeOK, NEW targets, NEW item \in Events \cup {End}, Put(targets, item)
  PROVE  /\ queue' \in [Queues -> Seq(Events \cup {End})]
         /\ \A q \in Queues :
              /\ DOMAIN queue[q] \subseteq DOMAIN queue'[q]
              /\ \A i \in DOMAIN queue[q] : queue'[q][i] = queue[q][i]
              /\ Len(queue[q]) <= Len(queue'[q])
         /\ \A q \in Queues : q \notin targets => queue'[q] = queue[q]
         /\ \A q \in Queues : q \in targets =>
              /\ Len(queue'[q]) = Len(queue[q]) + 1
              /\ \A i \in DOMAIN queue'[q] : i \in DOMAIN queue[q] \/ i = Len(queue[q]) + 1
              /\ queue'[q][Len(queue[q]) + 1] = item
<1>1. \A q \in Queues : queue[q] \in Seq(Events \cup {End})
  BY DEF BrokerTypeOK
<1>2. \A q \in Queues : queue'[q] = IF q \in targets THEN Append(queue[q], item) ELSE queue[q]
  BY DEF Put
<1>3. queue' \in [Queues -> Seq(Events \cup {End})]
  BY <1>1 DEF Put
<1>4. ASSUME NEW q \in Queues, q \notin targets
      PROVE  queue'[q] = queue[q]
  BY <1>2, <1>4
<1>5. ASSUME NEW q \in Queues, q \in targets
      PROVE  /\ DOMAIN queue[q] \subseteq DOMAIN queue'[q]
             /\ \A i \in DOMAIN queue[q] : queue'[q][i] = queue[q][i]
             /\ Len(queue'[q]) = Len(queue[q]) + 1
             /\ \A i \in DOMAIN queue'[q] : i \in DOMAIN queue[q] \/ i = Len(queue[q]) + 1
             /\ queue'[q][Len(queue[q]) + 1] = item
  <2>1. queue'[q] = Append(queue[q], item) /\ queue[q] \in Seq(Events \cup {End})
    BY <1>1, <1>2, <1>5
  <2> QED
    BY <2>1
<1>6. ASSUME NEW q \in Queues
      PROVE  Len(queue[q]) <= Len(queue'[q])
  <2>1. Len(queue[q]) \in Nat
    BY <1>1
  <2> QED
    BY <1>4, <1>5, <2>1
<1>7. ASSUME NEW q \in Queues
      PROVE  /\ DOMAIN queue[q] \subseteq DOMAIN queue'[q]
             /\ \A i \in DOMAIN queue[q] : queue'[q][i] = queue[q][i]
  BY <1>4, <1>5
<1> QED
  BY <1>3, <1>4, <1>5, <1>6, <1>7

\* Delivering an event whose publish has begun.
LEMMA PutToSubscribersPreserves ==
  ASSUME BrokerInv, NEW ev \in Events, put_to_subscribers(ev),
         UNCHANGED <<backend, subs, sub>>, stream' = stream, stream_keys' \subseteq Execs,
         pub' = [pub EXCEPT ![ev] = "delivered"]
  PROVE  /\ BrokerInv'
         /\ \A q \in Queues : Len(queue[q]) <= Len(queue'[q])
<1> USE BrokerAssumption
<1> DEFINE targets == {q \in Queues : q \in subscribers(ev.exec) /\ accepts(q, ev)}
<1>1. ev.exec \in Execs /\ ev # End
  OBVIOUS
<1>2. Put(targets, ev)
  BY DEF put_to_subscribers, Put
<1>3. \A q \in targets : q \in subscribers(ev.exec) /\ accepts(q, ev)
  OBVIOUS
<1> HIDE DEF targets
<1>4. BrokerTypeOK
  BY DEF BrokerInv
<1>5. /\ queue' \in [Queues -> Seq(Events \cup {End})]
      /\ \A q \in Queues :
           /\ DOMAIN queue[q] \subseteq DOMAIN queue'[q]
           /\ \A i \in DOMAIN queue[q] : queue'[q][i] = queue[q][i]
           /\ Len(queue[q]) <= Len(queue'[q])
      /\ \A q \in Queues : q \notin targets => queue'[q] = queue[q]
      /\ \A q \in Queues : q \in targets =>
           /\ Len(queue'[q]) = Len(queue[q]) + 1
           /\ \A i \in DOMAIN queue'[q] : i \in DOMAIN queue[q] \/ i = Len(queue[q]) + 1
           /\ queue'[q][Len(queue[q]) + 1] = ev
  BY <1>2, <1>4, PutEffect
<1>6. \A x \in Execs : subscribers(x)' = subscribers(x)
  BY DEF subscribers
<1>7. /\ pub' \in [Events -> {"new", "sending", "stored", "delivered", "raised"}]
      /\ pub'[ev] # "new"
      /\ \A e \in Events : pub[e] # "new" => pub'[e] # "new"
  BY <1>4 DEF BrokerTypeOK
<1>8. BrokerTypeOK'
  BY <1>4, <1>5, <1>7 DEF BrokerTypeOK
<1>9. SubscribersAgree'
  BY <1>6 DEF BrokerInv, SubscribersAgree
<1>10. CreatedFirst'
  <2> SUFFICES ASSUME NEW q \in Queues, sub[q] = << >> PROVE queue'[q] = << >>
    BY DEF CreatedFirst
  <2>1. q \notin targets
    BY <1>1, <1>3 DEF BrokerInv, SubscribersAgree
  <2> QED
    BY <1>5, <2>1 DEF BrokerInv, CreatedFirst
<1>11. QueuedIsPublished'
  <2> SUFFICES ASSUME NEW q \in Queues, NEW i \in DOMAIN queue'[q], queue'[q][i] # End
               PROVE  pub'[queue'[q][i]] # "new" /\ accepts(q, queue'[q][i])
    BY DEF QueuedIsPublished, accepts
  <2>1. CASE i \in DOMAIN queue[q]
    <3>1. queue'[q][i] = queue[q][i] /\ queue[q][i] \in Events
      BY <1>4, <1>5, <2>1 DEF BrokerTypeOK
    <3> QED
      BY <1>7, <2>1, <3>1 DEF BrokerInv, QueuedIsPublished
  <2>2. CASE i \notin DOMAIN queue[q]
    <3>1. q \in targets /\ queue'[q][i] = ev
      BY <1>5, <2>2
    <3> QED
      BY <1>3, <1>7, <3>1
  <2> QED
    BY <2>1, <2>2
<1>12. SubscribedIsOpen'
  <2> SUFFICES ASSUME NEW x \in Execs, NEW q \in subscribers(x), NEW i \in DOMAIN queue'[q]
               PROVE  queue'[q][i] # End
    BY <1>6 DEF SubscribedIsOpen
  <2>1. q \in Queues
    BY DEF BrokerInv, SubscribersAgree
  <2>2. CASE i \in DOMAIN queue[q]
    BY <1>5, <2>1, <2>2 DEF BrokerInv, SubscribedIsOpen
  <2>3. CASE i \notin DOMAIN queue[q]
    BY <1>1, <1>5, <2>1, <2>3
  <2> QED
    BY <2>2, <2>3
<1>13. NothingAfterEnd'
  <2> SUFFICES ASSUME NEW q \in Queues, NEW i \in DOMAIN queue'[q], queue'[q][i] = End
               PROVE  i = Len(queue'[q])
    BY DEF NothingAfterEnd
  <2>1. CASE q \in targets
    <3>1. q \in subscribers(ev.exec)
      BY <1>3, <2>1
    <3> QED
      BY <1>1, <1>6, <1>12, <3>1 DEF SubscribedIsOpen
  <2>2. CASE q \notin targets
    BY <1>5, <2>2 DEF BrokerInv, NothingAfterEnd
  <2> QED
    BY <2>1, <2>2
<1> QED
  BY <1>5, <1>8, <1>9, <1>10, <1>11, <1>12, <1>13 DEF BrokerInv

\* A publish that begins, is stored or raises touches no queue.
LEMMA PublishingPreserves ==
  ASSUME BrokerInv, NEW ev \in Events,
         publish(ev) \/ ServerStores(ev) \/ PublishRaises(ev)
  PROVE  BrokerInv' /\ queue' = queue
<1> USE BrokerAssumption
<1>1. UNCHANGED <<backend, subs, sub, queue, stream_keys>>
  BY DEF publish, ServerStores, PublishRaises
<1>2. /\ pub' \in [Events -> {"new", "sending", "stored", "delivered", "raised"}]
      /\ \A e \in Events : pub[e] # "new" => pub'[e] # "new"
  BY DEF publish, ServerStores, PublishRaises, BrokerInv, BrokerTypeOK
<1>3. stream' \in [Execs -> Seq(Events)]
  <2>1. stream \in [Execs -> Seq(Events)] /\ ev.exec \in Execs
    BY DEF BrokerInv, BrokerTypeOK
  <2>2. Append(stream[ev.exec], ev) \in Seq(Events)
    BY <2>1
  <2>3. \A kept \in trimmed(Append(stream[ev.exec], ev), MaxLen) : kept \in Seq(Events)
    <3> DEFINE longer == Append(stream[ev.exec], ev)
    <3>1. longer \in Seq(Events)
      BY <2>2
    <3> HIDE DEF longer
    <3>2. ASSUME NEW kept \in trimmed(longer, MaxLen) PROVE kept \in Seq(Events)
      <4>1. PICK n \in 1 .. Len(longer) + 1 : kept = SubSeq(longer, n, Len(longer))
        BY DEF trimmed
      <4> QED
        BY <3>1, <4>1
    <3> QED
      BY <3>2 DEF longer
  <2>4. \/ stream' = stream
        \/ \E kept \in trimmed(Append(stream[ev.exec], ev), MaxLen) :
             stream' = [stream EXCEPT ![ev.exec] = kept]
    BY DEF publish, ServerStores, PublishRaises
  <2> QED
    BY <2>1, <2>3, <2>4
<1>4. \A x \in Execs : subscribers(x)' = subscribers(x)
  BY <1>1 DEF subscribers
<1>5. BrokerTypeOK'
  BY <1>1, <1>2, <1>3 DEF BrokerInv, BrokerTypeOK
<1>6. SubscribersAgree' /\ SubscribedIsOpen'
  BY <1>1, <1>4 DEF BrokerInv, SubscribersAgree, SubscribedIsOpen
<1>7. CreatedFirst' /\ NothingAfterEnd'
  BY <1>1 DEF BrokerInv, CreatedFirst, NothingAfterEnd
<1>8. QueuedIsPublished'
  <2> SUFFICES ASSUME NEW q \in Queues, NEW i \in DOMAIN queue[q], queue[q][i] # End
               PROVE  pub'[queue[q][i]] # "new" /\ accepts(q, queue[q][i])
    BY <1>1 DEF QueuedIsPublished, accepts
  <2>1. queue[q][i] \in Events
    BY DEF BrokerInv, BrokerTypeOK
  <2> QED
    BY <1>2, <2>1 DEF BrokerInv, QueuedIsPublished
<1> QED
  BY <1>1, <1>5, <1>6, <1>7, <1>8 DEF BrokerInv

\* A new queue enters its list empty.
LEMMA SubscribePreserves ==
  ASSUME BrokerInv, NEW q \in Queues, NEW x \in Execs, NEW t \in Tenants \cup {NoTenant},
         subscribe(q, x, t)
  PROVE  BrokerInv' /\ queue' = queue
<1> USE BrokerAssumption
<1>1. /\ UNCHANGED <<backend, queue, pub, stream, stream_keys>>
      /\ sub[q] = << >>
      /\ sub' = [sub EXCEPT ![q] = [exec |-> x, tenant |-> t]]
      /\ setSubscribers(x, subscribers(x) \cup {q})
  BY DEF subscribe
<1>2. BrokerTypeOK
  BY DEF BrokerInv
<1>3. subscribers(x) \cup {q} \in SUBSET Queues
  BY <1>2 DEF subscribers, BrokerTypeOK
<1>4. /\ DOMAIN subs' \subseteq Execs
      /\ \A y \in DOMAIN subs' : subs'[y] \subseteq Queues
      /\ \A y \in Execs : subscribers(y)' = IF y = x THEN subscribers(x) \cup {q} ELSE subscribers(y)
  BY <1>1, <1>2, <1>3, SetSubscribers
<1>5. queue[q] = << >>
  BY <1>1 DEF BrokerInv, CreatedFirst
<1>6. /\ sub' \in [Queues -> Subscription \cup {<< >>}]
      /\ sub'[q] = [exec |-> x, tenant |-> t]
      /\ sub'[q] # << >>
      /\ \A p \in Queues \ {q} : sub'[p] = sub[p]
  BY <1>1, <1>2 DEF BrokerTypeOK, Subscription
<1>7. BrokerTypeOK'
  BY <1>1, <1>2, <1>4, <1>6 DEF BrokerTypeOK
<1>8. SubscribersAgree'
  <2> SUFFICES ASSUME NEW y \in Execs, NEW p \in subscribers(y)'
               PROVE  p \in Queues /\ sub'[p] # << >> /\ sub'[p].exec = y
    BY DEF SubscribersAgree
  <2>1. CASE p = q
    <3>1. y = x
      BY <1>1, <1>4, <2>1 DEF BrokerInv, SubscribersAgree
    <3> QED
      BY <1>6, <2>1, <3>1
  <2>2. CASE p # q
    <3>1. p \in subscribers(y)
      BY <1>4, <2>2
    <3> QED
      BY <1>6, <2>2, <3>1 DEF BrokerInv, SubscribersAgree
  <2> QED
    BY <2>1, <2>2
<1>9. CreatedFirst'
  BY <1>1, <1>5, <1>6 DEF BrokerInv, CreatedFirst
<1>10. QueuedIsPublished'
  <2> SUFFICES ASSUME NEW p \in Queues, NEW i \in DOMAIN queue[p], queue[p][i] # End
               PROVE  pub[queue[p][i]] # "new" /\ accepts(p, queue[p][i])'
    BY <1>1 DEF QueuedIsPublished, accepts
  <2>1. p # q
    BY <1>5
  <2>2. sub'[p] = sub[p]
    BY <1>6, <2>1
  <2> QED
    BY <1>1, <2>2 DEF BrokerInv, QueuedIsPublished, accepts
<1>11. SubscribedIsOpen'
  <2> SUFFICES ASSUME NEW y \in Execs, NEW p \in subscribers(y)', NEW i \in DOMAIN queue[p]
               PROVE  queue[p][i] # End
    BY <1>1 DEF SubscribedIsOpen
  <2>1. p # q
    BY <1>5
  <2>2. p \in subscribers(y)
    BY <1>4, <2>1
  <2> QED
    BY <2>2 DEF BrokerInv, SubscribedIsOpen
<1>12. NothingAfterEnd'
  BY <1>1 DEF BrokerInv, NothingAfterEnd
<1> QED
  BY <1>1, <1>7, <1>8, <1>9, <1>10, <1>11, <1>12 DEF BrokerInv

\* The queue leaves its list and is dropped.
LEMMA UnsubscribePreserves ==
  ASSUME BrokerInv, NEW q \in Queues, unsubscribe(q)
  PROVE  /\ BrokerInv'
         /\ \A p \in Queues \ {q} : queue'[p] = queue[p]
<1> USE BrokerAssumption
<1> DEFINE x == sub[q].exec
<1>1. /\ UNCHANGED <<backend, sub, pub, stream, stream_keys>>
      /\ sub[q] # << >>
      /\ queue' = [queue EXCEPT ![q] = << >>]
      /\ setSubscribers(x, subscribers(x) \ {q})
  BY DEF unsubscribe
<1>2. BrokerTypeOK
  BY DEF BrokerInv
<1>3. x \in Execs
  BY <1>1, <1>2 DEF BrokerTypeOK, Subscription
<1> HIDE DEF x
<1>4. subscribers(x) \ {q} \in SUBSET Queues
  BY <1>2 DEF subscribers, BrokerTypeOK
<1>5. /\ DOMAIN subs' \subseteq Execs
      /\ \A y \in DOMAIN subs' : subs'[y] \subseteq Queues
      /\ \A y \in Execs : subscribers(y)' = IF y = x THEN subscribers(x) \ {q} ELSE subscribers(y)
  BY <1>1, <1>2, <1>3, <1>4, SetSubscribers
<1>6. \A y \in Execs : subscribers(y)' \subseteq subscribers(y)
  BY <1>5
<1>7. << >> \in Seq(Events \cup {End}) /\ DOMAIN << >> = {}
  OBVIOUS
<1>8. /\ queue' \in [Queues -> Seq(Events \cup {End})]
      /\ queue'[q] = << >>
      /\ \A p \in Queues \ {q} : queue'[p] = queue[p]
  BY <1>1, <1>2, <1>7 DEF BrokerTypeOK
<1>9. BrokerTypeOK'
  BY <1>1, <1>2, <1>5, <1>8 DEF BrokerTypeOK
<1>10. SubscribersAgree'
  BY <1>1, <1>6 DEF BrokerInv, SubscribersAgree
<1>11. CreatedFirst'
  BY <1>1, <1>8 DEF BrokerInv, CreatedFirst
<1>12. ASSUME NEW p \in Queues, NEW i \in DOMAIN queue'[p]
       PROVE  i \in DOMAIN queue[p] /\ queue'[p] = queue[p]
  BY <1>7, <1>8
<1>13. QueuedIsPublished'
  BY <1>1, <1>12 DEF BrokerInv, QueuedIsPublished, accepts
<1>14. SubscribedIsOpen'
  <2> SUFFICES ASSUME NEW y \in Execs, NEW p \in subscribers(y)', NEW i \in DOMAIN queue'[p]
               PROVE  queue'[p][i] # End
    BY DEF SubscribedIsOpen
  <2>1. p \in subscribers(y) /\ p \in Queues
    BY <1>6 DEF BrokerInv, SubscribersAgree
  <2> QED
    BY <1>12, <2>1 DEF BrokerInv, SubscribedIsOpen
<1>15. NothingAfterEnd'
  BY <1>12 DEF BrokerInv, NothingAfterEnd
<1> QED
  BY <1>8, <1>9, <1>10, <1>11, <1>13, <1>14, <1>15 DEF BrokerInv

\* The sentinel goes to queues that leave every list with it: each queue is
\* in the list of one execution only.
LEMMA EndStreamsPreserves ==
  ASSUME BrokerInv, NEW closed \in SUBSET Execs, end_streams(closed)
  PROVE  /\ BrokerInv'
         /\ \A q \in Queues : Len(queue[q]) <= Len(queue'[q])
<1> USE BrokerAssumption
<1> DEFINE targets == {q \in Queues : \E x \in closed : q \in subscribers(x)}
<1>1. /\ UNCHANGED <<backend, sub, pub, stream>>
      /\ stream_keys' = stream_keys \ closed
      /\ subs' = [x \in DOMAIN subs \ closed |-> subs[x]]
  BY DEF end_streams
<1>2. Put(targets, End)
  BY DEF end_streams, Put
<1>3. \A q \in targets : q \in Queues /\ \E x \in closed : q \in subscribers(x)
  OBVIOUS
<1>4. \A x \in closed : \A q \in subscribers(x) : q \in targets
  BY DEF BrokerInv, SubscribersAgree
<1> HIDE DEF targets
<1>5. BrokerTypeOK
  BY DEF BrokerInv
<1>6. /\ queue' \in [Queues -> Seq(Events \cup {End})]
      /\ \A q \in Queues :
           /\ DOMAIN queue[q] \subseteq DOMAIN queue'[q]
           /\ \A i \in DOMAIN queue[q] : queue'[q][i] = queue[q][i]
           /\ Len(queue[q]) <= Len(queue'[q])
      /\ \A q \in Queues : q \notin targets => queue'[q] = queue[q]
      /\ \A q \in Queues : q \in targets =>
           /\ Len(queue'[q]) = Len(queue[q]) + 1
           /\ \A i \in DOMAIN queue'[q] : i \in DOMAIN queue[q] \/ i = Len(queue[q]) + 1
           /\ queue'[q][Len(queue[q]) + 1] = End
  BY <1>2, <1>5, PutEffect
<1>7. \A x \in Execs : subscribers(x)' = IF x \in closed THEN {} ELSE subscribers(x)
  <2>1. DOMAIN subs' = DOMAIN subs \ closed /\ \A x \in DOMAIN subs' : subs'[x] = subs[x]
    BY <1>1
  <2>2. \A x \in Execs : subscribers(x)' = IF x \in DOMAIN subs' THEN subs'[x] ELSE {}
    BY DEF subscribers
  <2> QED
    BY <2>1, <2>2 DEF subscribers
<1>8. BrokerTypeOK'
  BY <1>1, <1>5, <1>6 DEF BrokerTypeOK
<1>9. SubscribersAgree'
  BY <1>1, <1>7 DEF BrokerInv, SubscribersAgree
<1>10. CreatedFirst'
  <2> SUFFICES ASSUME NEW q \in Queues, sub[q] = << >> PROVE queue'[q] = << >>
    BY <1>1 DEF CreatedFirst
  <2>1. q \notin targets
    BY <1>3 DEF BrokerInv, SubscribersAgree
  <2> QED
    BY <1>6, <2>1 DEF BrokerInv, CreatedFirst
<1>11. QueuedIsPublished'
  <2> SUFFICES ASSUME NEW q \in Queues, NEW i \in DOMAIN queue'[q], queue'[q][i] # End
               PROVE  pub[queue'[q][i]] # "new" /\ accepts(q, queue'[q][i])
    BY <1>1 DEF QueuedIsPublished, accepts
  <2>1. i \in DOMAIN queue[q] /\ queue'[q][i] = queue[q][i]
    BY <1>6
  <2> QED
    BY <2>1 DEF BrokerInv, QueuedIsPublished
<1>12. ASSUME NEW x \in Execs, NEW q \in subscribers(x)'
       PROVE  q \in Queues /\ q \in subscribers(x) /\ q \notin targets
  <2>1. q \in subscribers(x) /\ x \notin closed
    BY <1>7
  <2>2. q \in Queues /\ sub[q].exec = x
    BY <2>1 DEF BrokerInv, SubscribersAgree
  <2>3. ASSUME q \in targets PROVE FALSE
    <3>1. PICK y \in closed : q \in subscribers(y)
      BY <1>3, <2>3
    <3> QED
      BY <2>1, <2>2, <3>1 DEF BrokerInv, SubscribersAgree
  <2> QED
    BY <2>1, <2>2, <2>3
<1>13. SubscribedIsOpen'
  BY <1>6, <1>12 DEF BrokerInv, SubscribedIsOpen
<1>14. NothingAfterEnd'
  <2> SUFFICES ASSUME NEW q \in Queues, NEW i \in DOMAIN queue'[q], queue'[q][i] = End
               PROVE  i = Len(queue'[q])
    BY DEF NothingAfterEnd
  <2>1. CASE q \in targets
    <3>1. \A j \in DOMAIN queue[q] : queue[q][j] # End
      BY <1>3, <2>1 DEF BrokerInv, SubscribedIsOpen
    <3> QED
      BY <1>6, <2>1, <3>1
  <2>2. CASE q \notin targets
    BY <1>6, <2>2 DEF BrokerInv, NothingAfterEnd
  <2> QED
    BY <2>1, <2>2
<1> QED
  BY <1>6, <1>8, <1>9, <1>10, <1>11, <1>13, <1>14 DEF BrokerInv

-----------------------------------------------------------------------------
(* The application around the publisher.                                   *)

\* A socket in accept() knows what it will subscribe to.
AcceptingKnowsPeer == \A w \in Queues : ws[w] = "accepting" => peer[w] # << >>

\* A record is made once per execution, under the tenant of its request, and
\* only when the runtime has returned.
RecordedOnce ==
  \A x \in DOMAIN executions :
    executions[x] = tenant[x] /\ request[x] \in {"publishing", "201", "500"}

ApiInv ==
  /\ TypeOK
  /\ BrokerInv
  /\ AcceptingKnowsPeer
  /\ RecordedOnce
  /\ RunIsRecorded

\* The part of ApiInv that is about requests and records.
LEMMA SubmissionUnchanged ==
  ASSUME ApiInv, UNCHANGED submission, UNCHANGED pub
  PROVE  RecordedOnce' /\ RunIsRecorded'
BY DEF ApiInv, RecordedOnce, RunIsRecorded, submission

LEMMA BrokerUnchanged ==
  ASSUME BrokerInv, UNCHANGED brokerVars
  PROVE  BrokerInv'
<1>1. UNCHANGED <<backend, subs, sub, queue, pub, stream, stream_keys>>
  BY DEF brokerVars
<1>2. \A x \in Execs : subscribers(x)' = subscribers(x)
  BY <1>1 DEF subscribers
<1>3. BrokerTypeOK'
  BY <1>1 DEF BrokerInv, BrokerTypeOK
<1>4. SubscribersAgree' /\ SubscribedIsOpen'
  BY <1>1, <1>2 DEF BrokerInv, SubscribersAgree, SubscribedIsOpen
<1>5. CreatedFirst' /\ NothingAfterEnd'
  BY <1>1 DEF BrokerInv, CreatedFirst, NothingAfterEnd
<1>6. QueuedIsPublished'
  BY <1>1 DEF BrokerInv, QueuedIsPublished, accepts
<1> QED
  BY <1>3, <1>4, <1>5, <1>6 DEF BrokerInv

LEMMA EventIsEvent ==
  ASSUME TypeOK, NEW x \in Execs
  PROVE  event(x) \in Events /\ event(x).exec = x /\ event(x).tenant = tenant[x]
BY ApiAssumption DEF TypeOK, event

\* add_key, remove_key and rotate_key.
LEMMA KeysPreserve ==
  ASSUME ApiInv, KeyNext
  PROVE  ApiInv'
<1> USE ApiAssumption
<1>1. UNCHANGED <<brokerVars, runtime, submission, socket>>
  BY DEF KeyNext, add_key, remove_key, rotate_key
<1>2. fingerprints' \in [Keys -> KeyContexts \cup {NoContext}]
  <2>1. fingerprints \in [Keys -> KeyContexts \cup {NoContext}]
    BY DEF ApiInv, TypeOK
  <2>2. ASSUME NEW k \in Keys, NEW context \in KeyContexts, add_key(k, context)
        PROVE  fingerprints' \in [Keys -> KeyContexts \cup {NoContext}]
    BY <2>1, <2>2 DEF add_key
  <2>3. ASSUME NEW k \in Keys, remove_key(k)
        PROVE  fingerprints' \in [Keys -> KeyContexts \cup {NoContext}]
    BY <2>1, <2>3 DEF remove_key
  <2>4. ASSUME NEW old \in Keys, NEW new \in Keys, NEW context \in KeyContexts \cup {NoContext},
               rotate_key(old, new, context)
        PROVE  fingerprints' \in [Keys -> KeyContexts \cup {NoContext}]
    <3> DEFINE target == IF context # NoContext THEN context ELSE fingerprints[old]
    <3>1. target \in KeyContexts \cup {NoContext}
      BY <2>1
    <3>2. fingerprints' = [fingerprints EXCEPT ![old] = NoContext, ![new] = target]
      BY <2>4 DEF rotate_key
    <3> HIDE DEF target
    <3> QED
      BY <2>1, <3>1, <3>2
  <2> QED
    BY <2>2, <2>3, <2>4 DEF KeyNext
<1>3. BrokerInv'
  BY <1>1, BrokerUnchanged DEF ApiInv
<1>4. RecordedOnce' /\ RunIsRecorded'
  BY <1>1, SubmissionUnchanged DEF brokerVars
<1>5. AcceptingKnowsPeer'
  BY <1>1 DEF ApiInv, AcceptingKnowsPeer, socket
<1>6. TypeOK'
  BY <1>1, <1>2, <1>3 DEF ApiInv, TypeOK, BrokerInv, brokerVars, submission, socket
<1> QED
  BY <1>3, <1>4, <1>5, <1>6 DEF ApiInv

\* A key is known with a context that is a tenant, or none.
LEMMA AuthenticatedContext ==
  ASSUME TypeOK, NEW k \in Keys \cup {NoKey}, authenticate(k) # NoContext
  PROVE  authenticate(k) \in Contexts
BY ApiAssumption DEF TypeOK, authenticate

LEMMA SubmitPreserves ==
  ASSUME ApiInv, NEW x \in Execs,
         \/ \E k \in Keys \cup {NoKey}, t \in Contexts : submit_intent(x, k, t)
         \/ RuntimeRaises(x)
  PROVE  ApiInv'
<1> USE ApiAssumption
<1>1. /\ UNCHANGED <<brokerVars, fingerprints, runtime, executions, socket>>
      /\ request[x] \in {"new", "executing"}
  BY DEF submit_intent, RuntimeRaises
<1>2. /\ request' \in [Execs -> {"new", "401", "executing", "publishing", "201", "500"}]
      /\ tenant' \in [Execs -> Contexts]
      /\ \A y \in Execs \ {x} : request'[y] = request[y] /\ tenant'[y] = tenant[y]
  <2>1. /\ request \in [Execs -> {"new", "401", "executing", "publishing", "201", "500"}]
        /\ tenant \in [Execs -> Contexts]
    BY DEF ApiInv, TypeOK
  <2>2. CASE RuntimeRaises(x)
    BY <2>1, <2>2 DEF RuntimeRaises
  <2>3. ASSUME NEW k \in Keys \cup {NoKey}, NEW t \in Contexts, submit_intent(x, k, t)
        PROVE  <1>2!:
    <3>1. CASE authenticate(k) = NoContext
      BY <2>1, <2>3, <3>1 DEF submit_intent, get_auth_context
    <3>2. CASE authenticate(k) # NoContext
      <4> DEFINE chosen == IF t # NoTenant THEN t ELSE authenticate(k)
      <4>1. chosen \in Contexts
        BY <3>2, AuthenticatedContext DEF ApiInv
      <4>2. /\ request' = [request EXCEPT ![x] = "executing"]
            /\ tenant' = [tenant EXCEPT ![x] = chosen]
        BY <2>3, <3>2 DEF submit_intent, get_auth_context
      <4> HIDE DEF chosen
      <4> QED
        BY <2>1, <4>1, <4>2
    <3> QED
      BY <3>1, <3>2
  <2> QED
    BY <2>2, <2>3
<1>3. BrokerInv'
  BY <1>1, BrokerUnchanged DEF ApiInv
<1>4. x \notin DOMAIN executions
  BY <1>1 DEF ApiInv, RecordedOnce
<1>5. RecordedOnce'
  BY <1>1, <1>2, <1>4 DEF ApiInv, TypeOK, RecordedOnce
<1>6. RunIsRecorded'
  BY <1>1 DEF ApiInv, RunIsRecorded, brokerVars
<1>7. AcceptingKnowsPeer'
  BY <1>1 DEF ApiInv, AcceptingKnowsPeer, socket
<1>8. TypeOK'
  BY <1>1, <1>2, <1>3 DEF ApiInv, TypeOK, BrokerInv, brokerVars, socket
<1> QED
  BY <1>3, <1>5, <1>6, <1>7, <1>8 DEF ApiInv

\* The runtime has returned: the record comes with the first step of the
\* publishing, and it is the first record of the execution.
LEMMA ReturnPreserves ==
  ASSUME ApiInv, NEW x \in Execs, RuntimeReturns(x)
  PROVE  ApiInv'
<1> USE ApiAssumption
<1>1. /\ request[x] = "executing"
      /\ executions' = [y \in DOMAIN executions \cup {x} |->
                          IF y = x THEN tenant[x] ELSE executions[y]]
      /\ UNCHANGED <<fingerprints, runtime, tenant, socket>>
      /\ \/ publish_memory(event(x)) /\ request' = [request EXCEPT ![x] = "201"]
         \/ publish(event(x)) /\ request' = [request EXCEPT ![x] = "publishing"]
  BY DEF RuntimeReturns
<1>2. event(x) \in Events /\ event(x).exec = x /\ event(x).tenant = tenant[x]
  BY EventIsEvent DEF ApiInv
<1>3. /\ BrokerInv'
      /\ \A q \in Queues : Len(queue[q]) <= Len(queue'[q])
  <2>1. CASE publish_memory(event(x))
    <3>1. /\ put_to_subscribers(event(x))
          /\ UNCHANGED <<backend, subs, sub, stream, stream_keys>>
          /\ pub' = [pub EXCEPT ![event(x)] = "delivered"]
      BY <2>1 DEF publish_memory
    <3>2. BrokerInv /\ stream_keys' \subseteq Execs
      BY <3>1 DEF ApiInv, BrokerInv, BrokerTypeOK
    <3> QED
      BY <1>2, <3>1, <3>2, PutToSubscribersPreserves
  <2>2. CASE publish(event(x))
    <3>1. BrokerInv' /\ queue' = queue
      BY <1>2, <2>2, PublishingPreserves DEF ApiInv
    <3>2. \A q \in Queues : Len(queue[q]) \in Nat
      BY DEF ApiInv, BrokerInv, BrokerTypeOK
    <3> QED
      BY <3>1, <3>2
  <2> QED
    BY <1>1, <2>1, <2>2
<1>4. \A ev \in Events : ev # event(x) => pub'[ev] = pub[ev]
  BY <1>1 DEF publish_memory, publish, ApiInv, TypeOK, BrokerTypeOK
<1>5. /\ x \notin DOMAIN executions
      /\ DOMAIN executions' = DOMAIN executions \cup {x}
      /\ executions'[x] = tenant[x]
      /\ \A y \in DOMAIN executions : executions'[y] = executions[y]
  BY <1>1 DEF ApiInv, RecordedOnce
<1>6. /\ request' \in [Execs -> {"new", "401", "executing", "publishing", "201", "500"}]
      /\ request'[x] \in {"publishing", "201"}
      /\ \A y \in Execs \ {x} : request'[y] = request[y]
  BY <1>1 DEF ApiInv, TypeOK
<1>7. RecordedOnce'
  BY <1>1, <1>5, <1>6 DEF ApiInv, TypeOK, RecordedOnce
<1>8. RunIsRecorded'
  BY <1>2, <1>4, <1>5 DEF ApiInv, RunIsRecorded
<1>9. AcceptingKnowsPeer'
  BY <1>1 DEF ApiInv, AcceptingKnowsPeer, socket
<1>10. \A w \in Queues : taken'[w] <= Len(queue'[w])
  <2> SUFFICES ASSUME NEW w \in Queues PROVE taken[w] <= Len(queue'[w])
    BY <1>1 DEF socket
  <2>1. taken[w] \in Nat /\ Len(queue[w]) \in Nat /\ Len(queue'[w]) \in Nat
    BY <1>3 DEF ApiInv, TypeOK, BrokerInv, BrokerTypeOK
  <2> QED
    BY <1>3, <2>1 DEF ApiInv, TypeOK
<1>11. TypeOK'
  BY <1>1, <1>3, <1>5, <1>6, <1>10 DEF ApiInv, TypeOK, BrokerInv, socket
<1> QED
  BY <1>3, <1>7, <1>8, <1>9, <1>11 DEF ApiInv

\* Redis answers, or does not: the event is already recorded.
LEMMA PublishedPreserves ==
  ASSUME ApiInv, NEW x \in Execs, RedisStores(x) \/ PublishFails(x) \/ Published(x)
  PROVE  ApiInv'
<1> USE ApiAssumption
<1>1. /\ UNCHANGED <<fingerprints, runtime, tenant, executions, socket>>
      /\ request[x] = "publishing"
      /\ \/ ServerStores(event(x)) /\ request' = request
         \/ PublishRaises(event(x)) /\ request' = [request EXCEPT ![x] = "500"]
         \/ deliver(event(x)) /\ request' = [request EXCEPT ![x] = "201"]
  BY DEF RedisStores, PublishFails, Published, submission
<1>2. event(x) \in Events /\ event(x).exec = x
  BY EventIsEvent DEF ApiInv
<1>3. /\ BrokerInv'
      /\ \A q \in Queues : Len(queue[q]) <= Len(queue'[q])
  <2>1. CASE deliver(event(x))
    <3>1. /\ put_to_subscribers(event(x))
          /\ UNCHANGED <<backend, subs, sub, stream>>
          /\ pub' = [pub EXCEPT ![event(x)] = "delivered"]
          /\ stream_keys' \subseteq stream_keys \cup {x}
      BY <1>2, <2>1 DEF deliver
    <3>2. BrokerInv /\ stream_keys' \subseteq Execs
      BY <3>1 DEF ApiInv, BrokerInv, BrokerTypeOK
    <3> QED
      BY <1>2, <3>1, <3>2, PutToSubscribersPreserves
  <2>2. CASE ServerStores(event(x)) \/ PublishRaises(event(x))
    <3>1. BrokerInv' /\ queue' = queue
      BY <1>2, <2>2, PublishingPreserves DEF ApiInv
    <3>2. \A q \in Queues : Len(queue[q]) \in Nat
      BY DEF ApiInv, BrokerInv, BrokerTypeOK
    <3> QED
      BY <3>1, <3>2
  <2> QED
    BY <1>1, <2>1, <2>2
<1>4. \A ev \in Events : pub'[ev] # "new" => pub[ev] # "new"
  BY <1>1, <1>2 DEF ServerStores, PublishRaises, deliver, ApiInv, TypeOK, BrokerTypeOK
<1>5. /\ request' \in [Execs -> {"new", "401", "executing", "publishing", "201", "500"}]
      /\ request'[x] \in {"publishing", "201", "500"}
      /\ \A y \in Execs \ {x} : request'[y] = request[y]
  BY <1>1 DEF ApiInv, TypeOK
<1>6. RecordedOnce'
  BY <1>1, <1>5 DEF ApiInv, TypeOK, RecordedOnce
<1>7. RunIsRecorded'
  BY <1>1, <1>4 DEF ApiInv, RunIsRecorded
<1>8. AcceptingKnowsPeer'
  BY <1>1 DEF ApiInv, AcceptingKnowsPeer, socket
<1>9. \A w \in Queues : taken'[w] <= Len(queue'[w])
  <2> SUFFICES ASSUME NEW w \in Queues PROVE taken[w] <= Len(queue'[w])
    BY <1>1 DEF socket
  <2>1. taken[w] \in Nat /\ Len(queue[w]) \in Nat /\ Len(queue'[w]) \in Nat
    BY <1>3 DEF ApiInv, TypeOK, BrokerInv, BrokerTypeOK
  <2> QED
    BY <1>3, <2>1 DEF ApiInv, TypeOK
<1>10. TypeOK'
  BY <1>1, <1>3, <1>5, <1>9 DEF ApiInv, TypeOK, BrokerInv, socket
<1> QED
  BY <1>3, <1>6, <1>7, <1>8, <1>10 DEF ApiInv

\* The steps of a socket that leave the publisher alone.
LEMMA SocketPreserves ==
  ASSUME ApiInv, NEW w \in Queues,
         \/ \E x \in Execs, bearer, protocol, api_key \in Keys \cup {NoKey} :
              connect(w, x, bearer, protocol, api_key)
         \/ AcceptRaises(w) \/ Get(w) \/ Send(w) \/ SendRaises(w)
  PROVE  ApiInv'
<1> USE ApiAssumption
<1>1. UNCHANGED <<brokerVars, fingerprints, runtime, submission>>
  BY DEF connect, AcceptRaises, Get, Send, SendRaises
<1>2. /\ ws' \in [Queues -> {"new", "rejected", "accepting", "open", "closed"}]
      /\ peer' \in [Queues -> Subscription \cup {<< >>}]
      /\ \A v \in Queues : ws'[v] = "accepting" => peer'[v] # << >>
      /\ listener' \in [Queues -> {"none", "waiting", "sending", "ended", "failed", "cancelled"}]
      /\ taken' \in [Queues -> Nat]
      /\ \A v \in Queues : taken'[v] <= Len(queue[v])
  <2>0. /\ ws \in [Queues -> {"new", "rejected", "accepting", "open", "closed"}]
        /\ peer \in [Queues -> Subscription \cup {<< >>}]
        /\ \A v \in Queues : ws[v] = "accepting" => peer[v] # << >>
        /\ listener \in [Queues -> {"none", "waiting", "sending", "ended", "failed", "cancelled"}]
        /\ taken \in [Queues -> Nat]
        /\ \A v \in Queues : taken[v] <= Len(queue[v])
        /\ \A v \in Queues : Len(queue[v]) \in Nat
    BY DEF ApiInv, TypeOK, AcceptingKnowsPeer, BrokerTypeOK
  <2>1. ASSUME NEW x \in Execs, NEW bearer \in Keys \cup {NoKey}, NEW protocol \in Keys \cup {NoKey},
               NEW api_key \in Keys \cup {NoKey}, connect(w, x, bearer, protocol, api_key)
        PROVE  <1>2!:
    <3> DEFINE context == ws_authenticate(bearer, protocol, api_key)
    <3>1. \E k \in Keys \cup {NoKey} : context = authenticate(k)
      BY DEF ws_authenticate
    <3>2. CASE context = NoContext
      BY <2>0, <2>1, <3>2 DEF connect
    <3>3. CASE context # NoContext
      <4>1. context \in Contexts
        BY <3>1, <3>3, AuthenticatedContext DEF ApiInv
      <4> DEFINE p == [exec |-> x, tenant |-> context]
      <4>2. /\ ws' = [ws EXCEPT ![w] = "accepting"]
            /\ peer' = [peer EXCEPT ![w] = p]
            /\ UNCHANGED <<listener, taken>>
        BY <2>1, <3>3 DEF connect
      <4>3. p \in Subscription /\ p # << >>
        BY <4>1 DEF Subscription, Contexts
      <4> HIDE DEF p, context
      <4> QED
        BY <2>0, <4>2, <4>3
    <3> QED
      BY <3>2, <3>3
  <2>2. CASE AcceptRaises(w)
    BY <2>0, <2>2 DEF AcceptRaises
  <2>3. CASE Get(w)
    BY <2>0, <2>3 DEF Get
  <2>4. CASE Send(w)
    BY <2>0, <2>4 DEF Send
  <2>5. CASE SendRaises(w)
    BY <2>0, <2>5 DEF SendRaises
  <2> QED
    BY <2>1, <2>2, <2>3, <2>4, <2>5
<1>3. BrokerInv'
  BY <1>1, BrokerUnchanged DEF ApiInv
<1>4. RecordedOnce' /\ RunIsRecorded'
  BY <1>1, SubmissionUnchanged DEF brokerVars
<1>5. AcceptingKnowsPeer'
  BY <1>2 DEF AcceptingKnowsPeer
<1>6. TypeOK'
  BY <1>1, <1>2, <1>3 DEF ApiInv, TypeOK, BrokerInv, brokerVars, submission
<1> QED
  BY <1>3, <1>4, <1>5, <1>6 DEF ApiInv

\* A socket subscribes when it is accepted.
LEMMA AcceptPreserves ==
  ASSUME ApiInv, NEW w \in Queues, accept(w)
  PROVE  ApiInv'
<1>1. /\ ws[w] = "accepting"
      /\ ws' = [ws EXCEPT ![w] = "open"]
      /\ subscribe(w, peer[w].exec, peer[w].tenant)
      /\ peer' = [peer EXCEPT ![w] = << >>]
      /\ listener' = [listener EXCEPT ![w] = "waiting"]
      /\ UNCHANGED <<fingerprints, runtime, submission, taken>>
  BY DEF accept
<1>2. peer[w].exec \in Execs /\ peer[w].tenant \in Tenants \cup {NoTenant}
  <2>1. peer[w] \in Subscription
    BY <1>1 DEF ApiInv, TypeOK, AcceptingKnowsPeer
  <2> QED
    BY <2>1 DEF Subscription
<1>3. BrokerInv' /\ queue' = queue
  BY <1>1, <1>2, SubscribePreserves DEF ApiInv
<1>4. RecordedOnce' /\ RunIsRecorded'
  BY <1>1, SubmissionUnchanged DEF subscribe
<1>5. AcceptingKnowsPeer'
  BY <1>1 DEF ApiInv, TypeOK, AcceptingKnowsPeer
<1>6. TypeOK'
  BY <1>1, <1>3 DEF ApiInv, TypeOK, BrokerInv, submission
<1> QED
  BY <1>3, <1>4, <1>5, <1>6 DEF ApiInv

\* The finally clause of a socket.
LEMMA DisconnectPreserves ==
  ASSUME ApiInv, NEW w \in Queues, disconnect(w)
  PROVE  ApiInv'
<1>1. /\ ws' = [ws EXCEPT ![w] = "closed"]
      /\ listener' = [listener EXCEPT ![w] = "cancelled"]
      /\ taken' = [taken EXCEPT ![w] = 0]
      /\ unsubscribe(w)
      /\ UNCHANGED <<fingerprints, runtime, submission, peer>>
  BY DEF disconnect
<1>2. /\ BrokerInv'
      /\ \A v \in Queues \ {w} : queue'[v] = queue[v]
  BY <1>1, UnsubscribePreserves DEF ApiInv
<1>3. RecordedOnce' /\ RunIsRecorded'
  BY <1>1, SubmissionUnchanged DEF unsubscribe
<1>4. AcceptingKnowsPeer'
  BY <1>1 DEF ApiInv, TypeOK, AcceptingKnowsPeer
<1>5. \A v \in Queues : taken'[v] <= Len(queue'[v])
  <2>1. Len(queue'[w]) \in Nat
    BY <1>2 DEF BrokerInv, BrokerTypeOK
  <2> QED
    BY <1>1, <1>2, <2>1 DEF ApiInv, TypeOK
<1>6. TypeOK'
  BY <1>1, <1>2, <1>5 DEF ApiInv, TypeOK, BrokerInv, submission
<1> QED
  BY <1>2, <1>3, <1>4, <1>6 DEF ApiInv

\* Closing one stream or all.
LEMMA ClosePreserves ==
  ASSUME ApiInv, shutdown \/ \E x \in MayClose : CloseStream(x)
  PROVE  ApiInv'
<1> USE BrokerAssumption
<1>1. PICK closed \in SUBSET Execs : end_streams(closed)
  BY DEF shutdown, CloseStream, close, close_all, ApiInv, TypeOK, BrokerTypeOK
<1>2. /\ UNCHANGED <<fingerprints, submission, socket>>
      /\ runtime' \in {"running", "stopped"}
  BY DEF shutdown, CloseStream, ApiInv, TypeOK
<1>3. /\ BrokerInv'
      /\ \A q \in Queues : Len(queue[q]) <= Len(queue'[q])
  BY <1>1, EndStreamsPreserves DEF ApiInv
<1>4. RecordedOnce' /\ RunIsRecorded'
  BY <1>1, <1>2, SubmissionUnchanged DEF end_streams
<1>5. AcceptingKnowsPeer'
  BY <1>2 DEF ApiInv, AcceptingKnowsPeer, socket
<1>6. \A w \in Queues : taken'[w] <= Len(queue'[w])
  <2> SUFFICES ASSUME NEW w \in Queues PROVE taken[w] <= Len(queue'[w])
    BY <1>2 DEF socket
  <2>1. taken[w] \in Nat /\ Len(queue[w]) \in Nat /\ Len(queue'[w]) \in Nat
    BY <1>3 DEF ApiInv, TypeOK, BrokerInv, BrokerTypeOK
  <2> QED
    BY <1>3, <2>1 DEF ApiInv, TypeOK
<1>7. TypeOK'
  BY <1>2, <1>3, <1>6 DEF ApiInv, TypeOK, BrokerInv, submission, socket
<1> QED
  BY <1>3, <1>4, <1>5, <1>7 DEF ApiInv

LEMMA InitBroker == BrokerInit => BrokerInv
<1> SUFFICES ASSUME BrokerInit PROVE BrokerInv
  OBVIOUS
<1> USE BrokerAssumption
<1>1. /\ << >> \in Seq(Events \cup {End}) /\ << >> \in Seq(Events)
      /\ DOMAIN << >> = {} /\ Len(<< >>) = 0
  OBVIOUS
<1>2. /\ DOMAIN subs = {}
      /\ sub = [q \in Queues |-> << >>]
      /\ queue = [q \in Queues |-> << >>]
      /\ pub = [ev \in Events |-> "new"]
      /\ stream = [x \in Execs |-> << >>]
      /\ stream_keys = {}
      /\ backend \in Backends
  BY DEF BrokerInit, create_event_publisher
<1>3. BrokerTypeOK
  <2>1. queue \in [Queues -> Seq(Events \cup {End})]
    BY <1>1, <1>2
  <2>2. stream \in [Execs -> Seq(Events)]
    BY <1>1, <1>2
  <2>3. sub \in [Queues -> Subscription \cup {<< >>}]
    BY <1>2
  <2>4. pub \in [Events -> {"new", "sending", "stored", "delivered", "raised"}]
    BY <1>2
  <2> QED
    BY <1>2, <2>1, <2>2, <2>3, <2>4 DEF BrokerTypeOK
<1>4. \A x \in Execs : subscribers(x) = {}
  BY <1>2 DEF subscribers
<1>5. \A q \in Queues : queue[q] = << >>
  BY <1>2
<1> QED
  BY <1>1, <1>3, <1>4, <1>5
     DEF BrokerInv, SubscribersAgree, CreatedFirst, QueuedIsPublished, SubscribedIsOpen,
         NothingAfterEnd

LEMMA InitApi == Init => ApiInv
<1> SUFFICES ASSUME Init PROVE ApiInv
  OBVIOUS
<1> USE BrokerAssumption, ApiAssumption
<1>1. Len(<< >>) = 0
  OBVIOUS
<1>2. BrokerInit
  BY DEF Init
<1>3. BrokerInv /\ BrokerTypeOK
  BY <1>2, InitBroker DEF BrokerInv
<1>4. \A w \in Queues : queue[w] = << >>
  BY <1>2 DEF BrokerInit
<1>5. \A ev \in Events : pub[ev] = "new"
  BY <1>2 DEF BrokerInit
<1>6. DOMAIN executions = {}
  BY DEF Init, NoRecords
<1>7. \A w \in Queues : taken[w] <= Len(queue[w])
  BY <1>1, <1>4 DEF Init
<1>8. fingerprints \in [Keys -> KeyContexts \cup {NoContext}]
  BY DEF Init, KeyInit
<1>9. tenant \in [Execs -> Contexts]
  BY DEF Init, Contexts
<1>10. TypeOK
  BY <1>3, <1>6, <1>7, <1>8, <1>9 DEF Init, TypeOK
<1>11. AcceptingKnowsPeer /\ RecordedOnce
  BY <1>6 DEF Init, AcceptingKnowsPeer, RecordedOnce
<1>12. RunIsRecorded
  BY <1>5 DEF RunIsRecorded
<1> QED
  BY <1>3, <1>10, <1>11, <1>12 DEF ApiInv

LEMMA NextApi == ApiInv /\ [Next]_vars => ApiInv'
<1> SUFFICES ASSUME ApiInv, [Next]_vars PROVE ApiInv'
  OBVIOUS
<1>1. CASE UNCHANGED vars
  <2>1. UNCHANGED <<brokerVars, fingerprints, runtime, submission, socket>>
    BY <1>1 DEF vars
  <2>2. BrokerInv'
    BY <2>1, BrokerUnchanged DEF ApiInv
  <2>3. RecordedOnce' /\ RunIsRecorded'
    BY <2>1, SubmissionUnchanged DEF brokerVars
  <2>4. AcceptingKnowsPeer'
    BY <2>1 DEF ApiInv, AcceptingKnowsPeer, socket
  <2>5. TypeOK'
    BY <2>1, <2>2 DEF ApiInv, TypeOK, BrokerInv, brokerVars, submission, socket
  <2> QED
    BY <2>2, <2>3, <2>4, <2>5 DEF ApiInv
<1>2. CASE KeyNext
  BY <1>2, KeysPreserve
<1>3. ASSUME NEW x \in Execs, SubmitNext(x) PROVE ApiInv'
  BY <1>3, SubmitPreserves, ReturnPreserves, PublishedPreserves DEF SubmitNext
<1>4. ASSUME NEW w \in Queues, SocketNext(w) PROVE ApiInv'
  BY <1>4, SocketPreserves, AcceptPreserves, DisconnectPreserves DEF SocketNext
<1>5. CASE shutdown \/ \E x \in MayClose : CloseStream(x)
  BY <1>5, ClosePreserves
<1> QED
  BY <1>1, <1>2, <1>3, <1>4, <1>5 DEF Next

LEMMA ApiInvHolds == Spec => []ApiInv
BY InitApi, NextApi, PTL DEF Spec

\* TypeOK holds in every behaviour of the API and its publisher.
THEOREM ApiTypeCorrect == Spec => []TypeOK
<1>1. ApiInv => TypeOK
  BY DEF ApiInv
<1> QED
  BY <1>1, ApiInvHolds, PTL

\* None is the last item of every queue, for all three publishers, with any
\* number of sockets, executions and publishes under way when streams close.
THEOREM NothingAfterEndHolds == Spec => []NothingAfterEnd
<1>1. ApiInv => NothingAfterEnd
  BY DEF ApiInv, BrokerInv
<1> QED
  BY <1>1, ApiInvHolds, PTL

\* Every execution whose event is under way is recorded under the tenant of
\* the event, whatever Redis answers.
THEOREM RunIsRecordedHolds == Spec => []RunIsRecorded
<1>1. ApiInv => RunIsRecorded
  BY DEF ApiInv
<1> QED
  BY <1>1, ApiInvHolds, PTL

\* What the listener of a socket with a tenant has taken is of executions
\* whose status the endpoint shows to that tenant, however keys are added,
\* removed and rotated: the tenant filter of the queue and the record agree
\* on the tenant of the event.
THEOREM SeenIsVisibleHolds == Spec => []SeenIsVisible
<1>1. ApiInv => SeenIsVisible
  <2> SUFFICES ASSUME ApiInv, NEW w \in Queues, sub[w].tenant # NoTenant,
                      NEW i \in 1 .. taken[w], queue[w][i] # End
               PROVE  get_execution_status(queue[w][i].exec, sub[w].tenant) = 200
    BY DEF SeenIsVisible
  <2>1. i \in DOMAIN queue[w] /\ queue[w][i] \in Events
    <3>1. queue[w] \in Seq(Events \cup {End}) /\ taken[w] \in Nat /\ taken[w] <= Len(queue[w])
      BY DEF ApiInv, TypeOK, BrokerTypeOK
    <3> QED
      BY <3>1
  <2>2. pub[queue[w][i]] # "new" /\ accepts(w, queue[w][i])
    BY <2>1 DEF ApiInv, BrokerInv, QueuedIsPublished
  <2>3. /\ queue[w][i].exec \in DOMAIN executions
        /\ executions[queue[w][i].exec] = queue[w][i].tenant
    BY <2>1, <2>2 DEF ApiInv, RunIsRecorded
  <2>4. queue[w][i].tenant \in {NoTenant, sub[w].tenant}
    BY <2>2 DEF accepts
  <2> QED
    BY <2>3, <2>4 DEF get_execution_status
<1> QED
  BY <1>1, ApiInvHolds, PTL
=============================================================================
