---------------------------- MODULE MemoryStore -----------------------------
(***************************************************************************)
(* InMemoryMemoryRepository (infrastructure/storage/memory/in_memory.py):  *)
(* the agents' memories in a dict by id, with an index of the ids of each  *)
(* agent beside it.  No method awaits, so each call is one step; callers   *)
(* save, overwrite and delete in any order, and the wall clock moves and   *)
(* may be set.  What an item is about (content, type, confidence) is its   *)
(* kind, a query the set of the kinds it asks for.                         *)
(***************************************************************************)
EXTENDS Integers

CONSTANTS
  Ids,       \* item ids
  Agents,    \* agent instance ids
  Kinds,
  None,      \* no item; the created_at or expires_at of an item without
  MaxTime    \* bound on the clock

ASSUME MemoryAssumption == MaxTime \in Nat /\ None \notin Nat

Times == 0 .. MaxTime

MemoryItem == [agent : Agents, kind : Kinds, created : Times \cup {None},
               expires : Times \cup {None}]

ASSUME NoneAssumption == None \notin MemoryItem \cup Agents

VARIABLES
  store,     \* _store: the item under each id
  index,     \* _agent_index: the ids of each agent
  now,       \* datetime.now(UTC)
  moved      \* history: agents an item was saved away from, to another agent

vars == <<store, index, now, moved>>

TypeOK ==
  /\ store \in [Ids -> MemoryItem \cup {None}]
  /\ index \in [Agents -> SUBSET Ids]
  /\ now \in Times
  /\ moved \subseteq Agents

Init ==
  /\ store = [i \in Ids |-> None]
  /\ index = [a \in Agents |-> {}]
  /\ now \in Times
  /\ moved = {}

Stored == {i \in Ids : store[i] # None}

-----------------------------------------------------------------------------
(* Writing.                                                                *)

\* Mutant: only a new id is entered into the index.
save_indexing_new(i, item) ==
  /\ store' = [store EXCEPT ![i] = item]
  /\ index' = IF i \in Stored THEN index ELSE [index EXCEPT ![item.agent] = @ \cup {i}]
  /\ moved' = IF i \in Stored /\ store[i].agent # item.agent
              THEN moved \cup {store[i].agent} ELSE moved
  /\ UNCHANGED now

\* The id is entered into the index of the item's agent; where the id was
\* stored for another agent, it stays in that agent's index as well.
save(i, item) ==
  /\ store' = [store EXCEPT ![i] = item]
  /\ index' = [index EXCEPT ![item.agent] = @ \cup {i}]
  /\ moved' = IF i \in Stored /\ store[i].agent # item.agent
              THEN moved \cup {store[i].agent} ELSE moved
  /\ UNCHANGED now

\* Mutant: the id stays in the index.
delete_from_store(i) ==
  /\ i \in Stored
  /\ store' = [store EXCEPT ![i] = None]
  /\ UNCHANGED <<index, now, moved>>

\* Only the index of the agent the item has now is cleaned.
delete(i) ==
  /\ i \in Stored
  /\ store' = [store EXCEPT ![i] = None]
  /\ index' = [index EXCEPT ![store[i].agent] = @ \ {i}]
  /\ UNCHANGED <<now, moved>>

\* Time passes, or the clock is set.
Clock ==
  /\ now' \in Times
  /\ UNCHANGED <<store, index, moved>>

Next ==
  \/ \E i \in Ids, item \in MemoryItem : save(i, item)
  \/ \E i \in Ids : delete(i)
  \/ Clock

Spec == Init /\ [][Next]_vars

-----------------------------------------------------------------------------
(* Reading.                                                                *)

is_expired(i) == store[i].expires # None /\ now > store[i].expires

\* get returns an item that is there and has not expired.
get(i) == IF i \in Stored /\ ~is_expired(i) THEN store[i] ELSE None

\* _sorted compares created_at, with datetime.min (which has no time zone)
\* for an item without: TypeError when it meets one that has a time.
sorts(ids) == \A i, j \in ids : store[i].created = None => store[j].created = None

Answer(ids) == [raises |-> ~sorts(ids), ids |-> IF sorts(ids) THEN ids ELSE {}]

\* search walks through the store, for one agent or (a = None) for all.
search(a, kinds) ==
  Answer({i \in Stored : get(i) # None /\ a \in {None, store[i].agent}
                         /\ store[i].kind \in kinds})

\* list_by_agent goes by the index: KeyError for an id that is not stored.
list_by_agent(a) ==
  IF index[a] \subseteq Stored THEN Answer({i \in index[a] : get(i) # None})
  ELSE [raises |-> TRUE, ids |-> {}]

-----------------------------------------------------------------------------
(* Properties.                                                             *)

\* "All non-expired memories for an agent" (core/contracts/memory_repository
\* .py:50): what list_by_agent returns, when it returns, lacks no memory that
\* get returns for that agent, also when items are overwritten for another
\* agent, come back, expire or are deleted.
ListIsComplete ==
  \A i \in Ids : get(i) # None =>
    LET answer == list_by_agent(get(i).agent) IN answer.raises \/ i \in answer.ids

\* Index and store tell the same: for an agent none of whose memories was
\* ever saved over for another agent, list_by_agent and a search for
\* everything have the same answer, and raise in the same states.
ListAgreesWithSearch ==
  \A a \in Agents \ moved : list_by_agent(a) = search(a, Kinds)
=============================================================================
