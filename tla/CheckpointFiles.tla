-------------------------- MODULE CheckpointFiles --------------------------
(***************************************************************************)
(* FileSystemCheckpointRepository (infrastructure/storage/checkpoint/      *)
(* file_system.py) under CheckpointPersistenceAdapter (control_plane/      *)
(* adapters/to_kernel/checkpoint.py).  In one process a save runs without  *)
(* await, but it is several file operations: the process may die between   *)
(* any two, and another process of the deployment that uses the same       *)
(* directory may do its own in between.                                    *)
(*                                                                         *)
(* The index is written to index.tmp, a name all processes share, and then *)
(* renamed.  A file is an inode: a process that has index.tmp open goes on *)
(* writing into it after another process has renamed it to index.json.     *)
(***************************************************************************)
EXTENDS Integers, FiniteSets, Sequences

CONSTANTS
  Procs,       \* processes that use the directory
  Ids,         \* checkpoint ids, each generated once
  Execs,
  None,        \* no file
  MaxCrashes,
  MaxErrors    \* bound on the saves that raise

ASSUME FilesAssumption ==
  /\ IsFiniteSet(Ids)
  /\ None \notin Ids
  /\ MaxCrashes \in Nat /\ MaxErrors \in Nat

VARIABLES
  version_counter,  \* CheckpointPersistenceAdapter._version_counter, per process
  pc,               \* the file operation each process does next
  saving,           \* the checkpoint it is saving (None: none)
  loaded,           \* the index it has read and changed
  fd,               \* the inode it has open for writing
  files,            \* checkpoint files, complete ones only
  index_tmp,        \* the inode named index.tmp, or None
  index_json,       \* the inode named index.json, or None
  content,          \* what each inode holds
  returned,         \* history: ids whose save returned, in this order
  forgotten,        \* history: how many had, when an existing index was last misread
  crashes,
  errors

disk == <<files, index_tmp, index_json, content>>
memory == <<version_counter, pc, saving, loaded, fd>>
faults == <<crashes, errors>>
history == <<returned, forgotten>>
vars == <<memory, disk, history, faults>>

\* An index is the set of pairs it lists; a file may also be cut or mixed.
Index == SUBSET (Execs \X Ids)
Cut == [ok |-> FALSE, index |-> {}]
Holding(index) == [ok |-> TRUE, index |-> index]

Checkpoint == [id : Ids, exec : Execs, version : Nat]

TypeOK ==
  /\ version_counter \in [Procs -> [Execs -> Nat]]
  /\ pc \in [Procs -> {"idle", "replace", "load", "open", "dump", "rename"}]
  /\ saving \in [Procs -> Checkpoint \cup {[id |-> None]}]
  /\ loaded \in [Procs -> Index]
  /\ fd \in [Procs -> Ids \cup {None}]
  /\ files \subseteq Checkpoint
  /\ index_tmp \in Ids \cup {None}
  /\ index_json \in Ids \cup {None}
  /\ content \in [Ids -> [ok : BOOLEAN, index : Index]]
  /\ returned \in Seq(Ids)
  /\ forgotten \in Nat
  /\ crashes \in 0 .. MaxCrashes
  /\ errors \in 0 .. MaxErrors

Init ==
  /\ version_counter = [p \in Procs |-> [x \in Execs |-> 0]]
  /\ pc = [p \in Procs |-> "idle"]
  /\ saving = [p \in Procs |-> [id |-> None]]
  /\ loaded = [p \in Procs |-> {}]
  /\ fd = [p \in Procs |-> None]
  /\ files = {}
  /\ index_tmp = None
  /\ index_json = None
  /\ content = [i \in Ids |-> Cut]
  /\ returned = << >>
  /\ forgotten = 0
  /\ crashes = 0
  /\ errors = 0

-----------------------------------------------------------------------------
(* CheckpointPersistenceAdapter.save.                                      *)

\* Ids nobody has used: uuid4 never repeats itself.
Unused == {i \in Ids : /\ \A c \in files : c.id # i
                       /\ \A p \in Procs : saving[p].id # i
                       /\ \A q \in DOMAIN returned : returned[q] # i}

\* Mutant: the counter is not advanced.
save_same_version(p, x) ==
  /\ pc[p] = "idle"
  /\ \E i \in Unused :
       saving' = [saving EXCEPT ![p] = [id |-> i, exec |-> x, version |-> 1]]
  /\ pc' = [pc EXCEPT ![p] = "replace"]
  /\ UNCHANGED <<version_counter, loaded, fd, disk, history, faults>>

\* The version is taken, and the checkpoint goes to its own temporary file.
save(p, x) ==
  /\ pc[p] = "idle"
  /\ \E i \in Unused :
       /\ version_counter' = [version_counter EXCEPT ![p][x] = @ + 1]
       /\ saving' = [saving EXCEPT ![p] =
                       [id |-> i, exec |-> x, version |-> version_counter[p][x] + 1]]
  /\ pc' = [pc EXCEPT ![p] = "replace"]
  /\ UNCHANGED <<loaded, fd, disk, history, faults>>

\* Mutant: the index is updated before the checkpoint file is in place.
ReplaceLater(p) ==
  /\ pc[p] = "replace"
  /\ pc' = [pc EXCEPT ![p] = "load"]
  /\ UNCHANGED <<version_counter, saving, loaded, fd, disk, history, faults>>

\* tmp.replace(dest): the checkpoint can be read by its id.
ReplaceCheckpoint(p) ==
  /\ pc[p] = "replace"
  /\ files' = files \cup {saving[p]}
  /\ pc' = [pc EXCEPT ![p] = "load"]
  /\ UNCHANGED <<version_counter, saving, loaded, fd, index_tmp, index_json, content,
                 history, faults>>

\* _load_index: a missing index, or one that is no JSON, is an empty one.
load_index ==
  IF index_json # None /\ content[index_json].ok THEN content[index_json].index ELSE {}

\* Mutant: the loaded index is dropped.
LoadIndexAfresh(p) ==
  /\ pc[p] = "load"
  /\ loaded' = [loaded EXCEPT ![p] = {<<saving[p].exec, saving[p].id>>}]
  /\ pc' = [pc EXCEPT ![p] = "open"]
  /\ UNCHANGED <<version_counter, saving, fd, disk, history, faults>>

\* The index is read and extended in memory.
LoadIndex(p) ==
  /\ pc[p] = "load"
  /\ loaded' = [loaded EXCEPT ![p] = load_index \cup {<<saving[p].exec, saving[p].id>>}]
  /\ pc' = [pc EXCEPT ![p] = "open"]
  /\ UNCHANGED <<version_counter, saving, fd, disk, history, faults>>

\* The index is there but cannot be opened or read: _load_index turns the
\* OSError into an empty index, and the save goes on with its own entry alone.
LoadIndexFails(p) ==
  /\ pc[p] = "load"
  /\ index_json # None
  /\ loaded' = [loaded EXCEPT ![p] = {<<saving[p].exec, saving[p].id>>}]
  /\ forgotten' = Len(returned)
  /\ pc' = [pc EXCEPT ![p] = "open"]
  /\ UNCHANGED <<version_counter, saving, fd, disk, returned, faults>>

\* Mutant: the index is written in place.
OpenIndexItself(p) ==
  /\ pc[p] = "open"
  /\ LET inode == IF index_json = None THEN saving[p].id ELSE index_json
     IN  /\ index_json' = inode
         /\ index_tmp' = inode
         /\ fd' = [fd EXCEPT ![p] = inode]
         /\ content' = [content EXCEPT ![inode] = Cut]
  /\ pc' = [pc EXCEPT ![p] = "dump"]
  /\ UNCHANGED <<version_counter, saving, loaded, files, history, faults>>

\* _save_index: open(tmp, "w") creates the file or cuts the one that is there.
OpenTmp(p) ==
  /\ pc[p] = "open"
  /\ LET inode == IF index_tmp = None THEN saving[p].id ELSE index_tmp
     IN  /\ index_tmp' = inode
         /\ fd' = [fd EXCEPT ![p] = inode]
         /\ content' = [content EXCEPT ![inode] = Cut]
  /\ pc' = [pc EXCEPT ![p] = "dump"]
  /\ UNCHANGED <<version_counter, saving, loaded, files, index_json, history, faults>>

\* json.dump and close.  Over the bytes of another writer the result is the
\* new index or, when it is the shorter one, unreadable.
Dump(p) ==
  /\ pc[p] = "dump"
  /\ \E result \in {Holding(loaded[p])} \cup (IF content[fd[p]].ok THEN {Cut} ELSE {}) :
       content' = [content EXCEPT ![fd[p]] = result]
  /\ fd' = [fd EXCEPT ![p] = None]
  /\ pc' = [pc EXCEPT ![p] = "rename"]
  /\ UNCHANGED <<version_counter, saving, loaded, files, index_tmp, index_json,
                 history, faults>>

Finish(p) ==
  /\ pc' = [pc EXCEPT ![p] = "idle"]
  /\ saving' = [saving EXCEPT ![p] = [id |-> None]]
  /\ loaded' = [loaded EXCEPT ![p] = {}]
  /\ UNCHANGED version_counter

\* tmp.replace(index): save returns.
RenameTmp(p) ==
  /\ pc[p] = "rename"
  /\ index_tmp # None
  /\ index_json' = index_tmp
  /\ index_tmp' = None
  /\ returned' = Append(returned, saving[p].id)
  /\ Finish(p)
  /\ UNCHANGED <<fd, files, content, forgotten, faults>>

\* A file operation that writes fails (the disk is full, the directory is
\* gone, or another process has renamed index.tmp): save raises
\* CheckpointPersistenceError, and what it has done so far stays.  Reading
\* the index raises nothing: see LoadIndexFails.
SaveRaises(p) ==
  /\ pc[p] \in {"replace", "open", "dump", "rename"}
  /\ Finish(p)
  /\ fd' = [fd EXCEPT ![p] = None]
  /\ errors < MaxErrors
  /\ errors' = errors + 1
  /\ UNCHANGED <<disk, history, crashes>>

\* The process dies and is started again: the adapter counts from 0.
Crash(p) ==
  /\ crashes < MaxCrashes
  /\ crashes' = crashes + 1
  /\ version_counter' = [version_counter EXCEPT ![p] = [x \in Execs |-> 0]]
  /\ pc' = [pc EXCEPT ![p] = "idle"]
  /\ saving' = [saving EXCEPT ![p] = [id |-> None]]
  /\ loaded' = [loaded EXCEPT ![p] = {}]
  /\ fd' = [fd EXCEPT ![p] = None]
  /\ UNCHANGED <<disk, history, errors>>

Step(p) ==
  \/ ReplaceCheckpoint(p) \/ LoadIndex(p) \/ LoadIndexFails(p) \/ OpenTmp(p)
  \/ Dump(p) \/ RenameTmp(p) \/ SaveRaises(p)

\* All ids are used up: nothing more happens.
Done ==
  /\ Unused = {}
  /\ \A p \in Procs : pc[p] = "idle"
  /\ UNCHANGED vars

Next ==
  \/ \E p \in Procs : Step(p) \/ Crash(p) \/ \E x \in Execs : save(p, x)
  \/ Done

Spec == Init /\ [][Next]_vars

-----------------------------------------------------------------------------
(* Reading: get, list_by_execution and get_latest.  A read that meets an    *)
(* OSError finds nothing, for that once; this is what the others find.     *)

\* get: one checkpoint, or none.
get(i) == {c \in files : c.id = i}

\* The checkpoints list_by_execution returns: listed, and their file is there.
listed == UNION {{c \in get(entry[2]) : c.exec = entry[1]} : entry \in load_index}

\* CheckpointPersistenceAdapter.restore: the checkpoint whose state it
\* returns; it raises when there is none.  The index is not asked.
restore(i) == IF get(i) = {} THEN [id |-> None] ELSE CHOOSE c \in get(i) : TRUE

Repository == INSTANCE CheckpointRepository
                WITH store <- listed, Versions <- 1 .. Cardinality(Ids) + MaxErrors

-----------------------------------------------------------------------------
(* Properties.                                                             *)

\* The index never names a checkpoint whose file is not in place, whatever
\* step a crash or an error cuts a save at: the file comes first.
IndexNamesFiles ==
  \A entry \in load_index : \E c \in files : c.exec = entry[1] /\ c.id = entry[2]

\* "previous successful checkpoint is always recoverable (atomic writes)"
\* (docs/P5_DR_PLAN.md:52).  A checkpoint whose save returned can be restored
\* by its id, whatever file operation of a later save a crash or an error of
\* the disk cuts off; and list_by_execution finds it as long as no later save
\* has misread the index (file_system.py:47 makes an unreadable index an empty
\* one, which the save then writes back).  One process; with two the listing
\* loses checkpoints without any error.
SavedIsListed ==
  \A i \in DOMAIN returned :
    /\ restore(returned[i]).id = returned[i]
    /\ i > forgotten => restore(returned[i]) \in listed

\* What the contract does not have: the save that returns has misread the
\* index, and the listing is its own checkpoint alone.
SaveForgets ==
  /\ forgotten = Len(returned)
  /\ \E cp \in Repository!Checkpoint : listed' = {cp}

\* One process: but for the saves that misread the index, the repository of
\* files implements the in-memory one: a save takes effect at the rename of
\* the index or, with a crash, not at all, and nothing else changes a listing.
ImplementsRepository == Repository!Init /\ [][Repository!Next \/ SaveForgets]_listed

\* One process: among the checkpoints of an execution, get_latest (highest
\* version) returns the one whose save returned last, as long as the process
\* has not been restarted: versions are counted in its memory.
LatestIsNewest ==
  \A c, d \in listed : \A i, j \in DOMAIN returned :
    (crashes = 0 /\ c.exec = d.exec /\ c.id = returned[i] /\ d.id = returned[j] /\ i < j)
      => c.version < d.version
=============================================================================
