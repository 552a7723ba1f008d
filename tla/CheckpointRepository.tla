------------------------ MODULE CheckpointRepository ------------------------
(***************************************************************************)
(* What a checkpoint repository promises (core/contracts/                  *)
(* checkpoint_repository.py), stated by its in-memory implementation       *)
(* (infrastructure/storage/checkpoint/in_memory.py), whose methods do not  *)
(* await: save is one step, and nothing is ever removed.                   *)
(***************************************************************************)
EXTENDS Integers, FiniteSets

CONSTANTS Ids, Execs, Versions

VARIABLE store      \* _store: the checkpoints, each under its own id

Checkpoint == [id : Ids, exec : Execs, version : Versions]

Init == store = {}

\* save: a checkpoint replaces the one with the same id.
save(cp) == store' = {c \in store : c.id # cp.id} \cup {cp}

Next == \E cp \in Checkpoint : save(cp)

Spec == Init /\ [][Next]_store

\* list_by_execution, as a set, and get_latest: some checkpoint of the
\* highest version.
list_by_execution(checkpoints, x) == {c \in checkpoints : c.exec = x}

is_latest(checkpoints, x, cp) ==
  /\ cp \in list_by_execution(checkpoints, x)
  /\ \A c \in list_by_execution(checkpoints, x) : c.version <= cp.version
=============================================================================
