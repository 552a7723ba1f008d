-------------------------- MODULE CheckpointProofs --------------------------
(***************************************************************************)
(* Proofs about CheckpointFiles.  First what holds for any number of       *)
(* processes that share the directory: the index names only files that are *)
(* in place.  Then what holds for one process, whatever file operation a   *)
(* crash or an error cuts a save at: what was saved can be restored, and is *)
(* listed until a save misreads the index; versions follow the order of    *)
(* the saves; and but for those misreads the repository of files           *)
(* implements the in-memory one.                                           *)
(***************************************************************************)
EXTENDS CheckpointFiles, FiniteSetTheorems, TLAPS

\* Every entry of an index has its file among some checkpoint files.
Written(index, present) ==
  \A entry \in index : \E c \in present : c.exec = entry[1] /\ c.id = entry[2]

\* Where a process is in a save, and what it has in hand there.
InHand ==
  \A p \in Procs :
    /\ pc[p] # "idle" => saving[p] \in Checkpoint
    /\ pc[p] \in {"load", "open", "dump", "rename"} => saving[p] \in files
    /\ pc[p] = "dump" => fd[p] \in Ids
    /\ Written(loaded[p], files)

\* The inductive invariant for any number of processes: whatever an index
\* holds, in memory or in any inode, has its files.
FilesInv ==
  /\ TypeOK
  /\ InHand
  /\ \A i \in Ids : Written(content[i].index, files)

LEMMA InitFilesInv == Init => FilesInv
<1> SUFFICES ASSUME Init PROVE FilesInv
  OBVIOUS
<1>1. TypeOK
  BY FilesAssumption DEF Init, TypeOK, Cut, Index
<1>2. InHand /\ \A i \in Ids : Written(content[i].index, files)
  BY DEF Init, InHand, Written, Cut
<1> QED
  BY <1>1, <1>2 DEF FilesInv

\* A file that is added takes no entry of an index away.
LEMMA WrittenGrows ==
  ASSUME NEW index, NEW present, NEW more, present \subseteq more, Written(index, present)
  PROVE  Written(index, more)
BY DEF Written

\* What load_index finds is an index whose files are there.
LEMMA LoadedIsWritten ==
  ASSUME FilesInv
  PROVE  load_index \in Index /\ Written(load_index, files)
<1>1. CASE index_json # None /\ content[index_json].ok
  BY <1>1 DEF FilesInv, TypeOK, load_index
<1>2. CASE ~(index_json # None /\ content[index_json].ok)
  BY <1>2 DEF load_index, Index, Written
<1> QED
  BY <1>1, <1>2

LEMMA SaveKeepsFiles ==
  ASSUME FilesInv, NEW p \in Procs, NEW x \in Execs, save(p, x)
  PROVE  FilesInv'
<1>0. PICK i \in Unused :
        /\ version_counter' = [version_counter EXCEPT ![p][x] = @ + 1]
        /\ saving' = [saving EXCEPT ![p] =
                        [id |-> i, exec |-> x, version |-> version_counter[p][x] + 1]]
  BY DEF save
<1> DEFINE cp == [id |-> i, exec |-> x, version |-> version_counter[p][x] + 1]
<1>1. cp \in Checkpoint
  BY DEF FilesInv, TypeOK, Checkpoint, Unused
<1>2. /\ pc' = [pc EXCEPT ![p] = "replace"]
      /\ UNCHANGED <<loaded, fd, files, index_tmp, index_json, content, returned, forgotten, crashes,
                     errors>>
  BY DEF save, disk, history, faults
<1>3. version_counter' \in [Procs -> [Execs -> Nat]]
  BY <1>0 DEF FilesInv, TypeOK
<1>4. saving' = [saving EXCEPT ![p] = cp]
  BY <1>0
<1> HIDE DEF cp
<1>5. TypeOK'
  BY <1>1, <1>2, <1>3, <1>4 DEF FilesInv, TypeOK
<1>6. InHand'
  BY <1>1, <1>2, <1>4 DEF FilesInv, TypeOK, InHand
<1> QED
  BY <1>2, <1>5, <1>6 DEF FilesInv

LEMMA ReplaceKeepsFiles ==
  ASSUME FilesInv, NEW p \in Procs, ReplaceCheckpoint(p)
  PROVE  FilesInv'
<1>1. /\ pc[p] = "replace"
      /\ files' = files \cup {saving[p]}
      /\ pc' = [pc EXCEPT ![p] = "load"]
      /\ UNCHANGED <<version_counter, saving, loaded, fd, index_tmp, index_json, content,
                     returned, forgotten, crashes, errors>>
  BY DEF ReplaceCheckpoint, history, faults
<1>2. saving[p] \in Checkpoint
  BY <1>1 DEF FilesInv, InHand
<1>3. TypeOK'
  BY <1>1, <1>2 DEF FilesInv, TypeOK
<1>4. /\ \A q \in Procs : Written(loaded'[q], files')
      /\ \A i \in Ids : Written(content'[i].index, files')
  BY <1>1, WrittenGrows DEF FilesInv, InHand
<1>5. InHand'
  BY <1>1, <1>2, <1>4 DEF FilesInv, TypeOK, InHand
<1> QED
  BY <1>3, <1>4, <1>5 DEF FilesInv

LEMMA LoadKeepsFiles ==
  ASSUME FilesInv, NEW p \in Procs, LoadIndex(p) \/ LoadIndexFails(p)
  PROVE  FilesInv'
<1> DEFINE entry == <<saving[p].exec, saving[p].id>>
<1>1. PICK found \in {load_index, {}} : loaded' = [loaded EXCEPT ![p] = found \cup {entry}]
  BY DEF LoadIndex, LoadIndexFails
<1>2. /\ pc[p] = "load"
      /\ pc' = [pc EXCEPT ![p] = "open"]
      /\ UNCHANGED <<version_counter, saving, fd, files, index_tmp, index_json, content,
                     returned, crashes, errors>>
  BY DEF LoadIndex, LoadIndexFails, disk, history, faults
<1>3. saving[p] \in Checkpoint /\ saving[p] \in files
  BY <1>2 DEF FilesInv, InHand
<1>4. entry \in Execs \X Ids
  BY <1>3 DEF Checkpoint
<1>5. found \cup {entry} \in Index
  BY <1>4, LoadedIsWritten DEF Index
<1>6. Written(found \cup {entry}, files)
  BY <1>3, LoadedIsWritten DEF Written
<1>7. forgotten' \in Nat
  <2>1. Len(returned) \in Nat
    BY DEF FilesInv, TypeOK
  <2> QED
    BY <2>1 DEF LoadIndex, LoadIndexFails, history, FilesInv, TypeOK
<1> HIDE DEF entry
<1>8. TypeOK'
  BY <1>1, <1>2, <1>5, <1>7 DEF FilesInv, TypeOK
<1>9. InHand'
  BY <1>1, <1>2, <1>3, <1>6 DEF FilesInv, TypeOK, InHand
<1> QED
  BY <1>2, <1>8, <1>9 DEF FilesInv

\* OpenTmp and Dump: the inode that is written holds nothing, or the index
\* of the process.
LEMMA WriteKeepsFiles ==
  ASSUME FilesInv, NEW p \in Procs, OpenTmp(p) \/ Dump(p)
  PROVE  FilesInv'
<1>1. PICK inode \in Ids, result \in [ok : BOOLEAN, index : Index] :
        /\ content' = [content EXCEPT ![inode] = result]
        /\ Written(result.index, files)
        /\ fd' \in [Procs -> Ids \cup {None}]
        /\ pc'[p] = "dump" => fd'[p] \in Ids
        /\ \A q \in Procs \ {p} : fd'[q] = fd[q]
        /\ index_tmp' \in Ids \cup {None}
  <2>1. CASE OpenTmp(p)
    <3> DEFINE inode == IF index_tmp = None THEN saving[p].id ELSE index_tmp
    <3>1. /\ pc[p] = "open" /\ index_tmp' = inode /\ fd' = [fd EXCEPT ![p] = inode]
          /\ content' = [content EXCEPT ![inode] = Cut]
      BY <2>1 DEF OpenTmp
    <3>2. saving[p] \in Checkpoint
      BY <3>1 DEF FilesInv, InHand
    <3>3. inode \in Ids
      BY <3>2 DEF FilesInv, TypeOK, Checkpoint
    <3>4. Cut \in [ok : BOOLEAN, index : Index] /\ Written(Cut.index, files)
      BY DEF Cut, Index, Written
    <3> HIDE DEF inode
    <3>5. fd' \in [Procs -> Ids \cup {None}] /\ fd'[p] = inode
          /\ \A q \in Procs \ {p} : fd'[q] = fd[q]
      BY <3>1, <3>3 DEF FilesInv, TypeOK
    <3> QED
      BY <3>1, <3>3, <3>4, <3>5
  <2>2. CASE Dump(p)
    <3>1. PICK result \in {Holding(loaded[p]), Cut} :
            content' = [content EXCEPT ![fd[p]] = result]
      BY <2>2 DEF Dump
    <3>2. fd[p] \in Ids
      BY <2>2 DEF Dump, FilesInv, InHand
    <3>3. loaded[p] \in Index /\ Written(loaded[p], files)
      BY DEF FilesInv, TypeOK, InHand
    <3>4. result \in [ok : BOOLEAN, index : Index] /\ Written(result.index, files)
      <4>1. CASE result = Cut
        BY <4>1 DEF Cut, Index, Written
      <4>2. CASE result = Holding(loaded[p])
        <5>1. result = [ok |-> TRUE, index |-> loaded[p]]
          BY <4>2 DEF Holding
        <5> QED
          BY <3>3, <5>1
      <4> QED
        BY <4>1, <4>2
    <3>5. /\ fd' = [fd EXCEPT ![p] = None] /\ pc' = [pc EXCEPT ![p] = "rename"]
          /\ index_tmp' = index_tmp
      BY <2>2 DEF Dump
    <3>6. fd' \in [Procs -> Ids \cup {None}] /\ pc'[p] = "rename" /\ index_tmp' \in Ids \cup {None}
          /\ \A q \in Procs \ {p} : fd'[q] = fd[q]
      BY <3>5 DEF FilesInv, TypeOK
    <3> QED
      BY <3>1, <3>2, <3>4, <3>6
  <2> QED
    BY <2>1, <2>2
<1>2. /\ \E a \in {"dump", "rename"} : pc' = [pc EXCEPT ![p] = a]
      /\ pc[p] \in {"open", "dump"}
      /\ UNCHANGED <<version_counter, saving, loaded, files, index_json, returned, forgotten,
                     crashes, errors>>
  BY DEF OpenTmp, Dump, history, faults
<1>3. content' \in [Ids -> [ok : BOOLEAN, index : Index]]
  BY <1>1 DEF FilesInv, TypeOK
<1>4. TypeOK'
  BY <1>1, <1>2, <1>3 DEF FilesInv, TypeOK
<1>5. InHand'
  BY <1>1, <1>2 DEF FilesInv, TypeOK, InHand
<1>6. \A i \in Ids : Written(content'[i].index, files')
  BY <1>1, <1>2 DEF FilesInv, TypeOK
<1> QED
  BY <1>4, <1>5, <1>6 DEF FilesInv

\* The ways out of a save: the rename, an error, a crash.
LEMMA EndKeepsFiles ==
  ASSUME FilesInv, NEW p \in Procs, RenameTmp(p) \/ SaveRaises(p) \/ Crash(p)
  PROVE  FilesInv'
<1>1. /\ pc' = [pc EXCEPT ![p] = "idle"]
      /\ saving' = [saving EXCEPT ![p] = [id |-> None]]
      /\ loaded' = [loaded EXCEPT ![p] = {}]
      /\ fd' \in {fd, [fd EXCEPT ![p] = None]}
      /\ UNCHANGED <<files, content, forgotten>>
  BY DEF RenameTmp, SaveRaises, Crash, Finish, disk, history
<1>2. version_counter' \in [Procs -> [Execs -> Nat]]
  <2>1. CASE version_counter' = version_counter
    BY <2>1 DEF FilesInv, TypeOK
  <2>2. CASE version_counter' = [version_counter EXCEPT ![p] = [x \in Execs |-> 0]]
    <3>1. [x \in Execs |-> 0] \in [Execs -> Nat]
      OBVIOUS
    <3> QED
      BY <2>2, <3>1 DEF FilesInv, TypeOK
  <2> QED
    BY <2>1, <2>2 DEF RenameTmp, SaveRaises, Crash, Finish
<1>3. index_tmp' \in Ids \cup {None} /\ index_json' \in Ids \cup {None}
  BY DEF RenameTmp, SaveRaises, Crash, disk, FilesInv, TypeOK
<1>4. crashes' \in 0 .. MaxCrashes /\ errors' \in 0 .. MaxErrors
  BY FilesAssumption DEF RenameTmp, SaveRaises, Crash, faults, FilesInv, TypeOK
<1>5. returned' \in Seq(Ids)
  <2>1. CASE RenameTmp(p)
    <3>1. saving[p] \in Checkpoint /\ returned' = Append(returned, saving[p].id)
      BY <2>1 DEF RenameTmp, FilesInv, InHand
    <3>2. saving[p].id \in Ids
      BY <3>1 DEF Checkpoint
    <3> QED
      BY <3>1, <3>2 DEF FilesInv, TypeOK
  <2>2. CASE SaveRaises(p) \/ Crash(p)
    BY <2>2 DEF SaveRaises, Crash, history, FilesInv, TypeOK
  <2> QED
    BY <2>1, <2>2
<1>6. /\ pc' \in [Procs -> {"idle", "replace", "load", "open", "dump", "rename"}]
      /\ saving' \in [Procs -> Checkpoint \cup {[id |-> None]}]
      /\ loaded' \in [Procs -> Index]
      /\ fd' \in [Procs -> Ids \cup {None}]
  BY <1>1 DEF FilesInv, TypeOK, Index
<1>7. TypeOK'
  BY <1>1, <1>2, <1>3, <1>4, <1>5, <1>6 DEF FilesInv, TypeOK
<1>8. InHand'
  BY <1>1 DEF FilesInv, TypeOK, InHand, Written
<1> QED
  BY <1>1, <1>7, <1>8 DEF FilesInv

LEMMA NextFilesInv == FilesInv /\ [Next]_vars => FilesInv'
<1> SUFFICES ASSUME FilesInv, [Next]_vars PROVE FilesInv'
  OBVIOUS
<1>1. CASE UNCHANGED vars
  BY <1>1 DEF vars, memory, disk, history, faults, FilesInv, TypeOK, InHand
<1>2. CASE Next
  <2>1. CASE Done
    BY <1>1, <2>1 DEF Done
  <2>2. ASSUME NEW p \in Procs, Step(p) \/ Crash(p) \/ \E x \in Execs : save(p, x)
        PROVE  FilesInv'
    BY <2>2, SaveKeepsFiles, ReplaceKeepsFiles, LoadKeepsFiles, WriteKeepsFiles, EndKeepsFiles
       DEF Step
  <2> QED
    BY <1>2, <2>1, <2>2 DEF Next
<1> QED
  BY <1>1, <1>2

\* The inductive invariant holds in every state, for any number of processes.
THEOREM FilesInvHolds == Spec => []FilesInv
BY InitFilesInv, NextFilesInv, PTL DEF Spec

\* The variables keep their types, for any processes, ids and executions.
THEOREM CheckpointTypeCorrect == Spec => []TypeOK
<1>1. FilesInv => TypeOK
  BY DEF FilesInv
<1> QED
  BY <1>1, FilesInvHolds, PTL

\* The index never names a checkpoint whose file is not in place, however
\* many processes share the directory and wherever a save is cut off
\* (file_system.py: save replaces the checkpoint before it updates the index).
THEOREM IndexNamesFilesHolds == Spec => []IndexNamesFiles
<1>1. FilesInv => IndexNamesFiles
  BY LoadedIsWritten DEF IndexNamesFiles, Written
<1> QED
  BY <1>1, FilesInvHolds, PTL

-----------------------------------------------------------------------------
(* One process, p.                                                         *)

\* A checkpoint is known by its id, the one in hand too.
UniqueIds(p) ==
  /\ \A c, d \in files : c.id = d.id => c = d
  /\ pc[p] # "idle" =>
       /\ \A c \in files : c.id = saving[p].id => c = saving[p]
       /\ \A i \in DOMAIN returned : returned[i] # saving[p].id
  /\ pc[p] = "idle" => saving[p] = [id |-> None]
  /\ pc[p] = "replace" => saving[p] \notin files

\* The two index files are two inodes, named after checkpoints whose files
\* were there before the running save opens its own.
Inodes(p) ==
  /\ index_tmp # None => index_tmp # index_json
  /\ index_tmp # None => \E c \in files : c.id = index_tmp
  /\ index_json # None => \E c \in files : c.id = index_json
  /\ pc[p] \in {"replace", "load", "open"} =>
       saving[p].id # index_tmp /\ saving[p].id # index_json

\* What the process has made of the next index.
NextIndex(p) ==
  /\ index_json # None => content[index_json].ok
  /\ pc[p] \in {"open", "dump", "rename"} =>
       \/ loaded[p] = load_index \cup {<<saving[p].exec, saving[p].id>>}
       \/ forgotten = Len(returned) /\ loaded[p] = {<<saving[p].exec, saving[p].id>>}
  /\ pc[p] = "dump" => index_tmp # None /\ fd[p] = index_tmp /\ content[index_tmp] = Cut
  /\ pc[p] = "rename" => index_tmp # None /\ content[index_tmp] = Holding(loaded[p])

\* What was saved has its file and, until a save misreads the index, is in
\* the index under its own execution.
ReturnedIndexed ==
  \A i \in DOMAIN returned :
    \E c \in files : /\ c.id = returned[i]
                     /\ i > forgotten => <<c.exec, c.id>> \in load_index

\* The inductive invariant for one process, together with FilesInv.
SoloInv(p) == UniqueIds(p) /\ Inodes(p) /\ NextIndex(p) /\ ReturnedIndexed

\* An index file that is not touched is read as before.
LEMMA IndexStays ==
  ASSUME index_json' = index_json,
         index_json # None => content'[index_json] = content[index_json]
  PROVE  load_index' = load_index
BY DEF load_index

LEMMA SaveKeepsSolo ==
  ASSUME NEW p, Procs = {p}, FilesInv, SoloInv(p), NEW x \in Execs, save(p, x)
  PROVE  SoloInv(p)'
<1>0. PICK i \in Unused :
        saving' = [saving EXCEPT ![p] =
                     [id |-> i, exec |-> x, version |-> version_counter[p][x] + 1]]
  BY DEF save
<1>1. /\ pc[p] = "idle" /\ pc' = [pc EXCEPT ![p] = "replace"]
      /\ UNCHANGED <<loaded, fd, files, index_tmp, index_json, content, returned, forgotten>>
  BY DEF save, disk, history
<1>2. /\ pc'[p] = "replace" /\ saving'[p].id = i /\ i \in Ids
      /\ \A c \in files : c.id # i
      /\ \A q \in DOMAIN returned : returned[q] # i
  BY <1>0, <1>1 DEF FilesInv, TypeOK, Unused
<1>3. load_index' = load_index
  BY <1>1, IndexStays
<1>4. UniqueIds(p)'
  BY <1>1, <1>2 DEF SoloInv, UniqueIds
<1>5. Inodes(p)'
  BY <1>1, <1>2, FilesAssumption DEF SoloInv, Inodes
<1>6. NextIndex(p)' /\ ReturnedIndexed'
  BY <1>1, <1>2, <1>3 DEF SoloInv, NextIndex, ReturnedIndexed
<1> QED
  BY <1>4, <1>5, <1>6 DEF SoloInv

LEMMA ReplaceKeepsSolo ==
  ASSUME NEW p, Procs = {p}, FilesInv, SoloInv(p), ReplaceCheckpoint(p)
  PROVE  SoloInv(p)'
<1>1. /\ pc[p] = "replace" /\ pc'[p] = "load"
      /\ files' = files \cup {saving[p]}
      /\ UNCHANGED <<saving, loaded, fd, index_tmp, index_json, content, returned, forgotten>>
  BY DEF ReplaceCheckpoint, history, FilesInv, TypeOK
<1>2. load_index' = load_index
  BY <1>1, IndexStays
<1>3. UniqueIds(p)'
  BY <1>1 DEF SoloInv, UniqueIds
<1>4. Inodes(p)'
  BY <1>1 DEF SoloInv, Inodes
<1>5. NextIndex(p)' /\ ReturnedIndexed'
  BY <1>1, <1>2 DEF SoloInv, NextIndex, ReturnedIndexed
<1> QED
  BY <1>3, <1>4, <1>5 DEF SoloInv

LEMMA LoadKeepsSolo ==
  ASSUME NEW p, Procs = {p}, FilesInv, SoloInv(p), LoadIndex(p) \/ LoadIndexFails(p)
  PROVE  SoloInv(p)'
<1> DEFINE entry == <<saving[p].exec, saving[p].id>>
<1>1. /\ pc[p] = "load" /\ pc'[p] = "open"
      /\ UNCHANGED <<saving, fd, files, index_tmp, index_json, content, returned>>
  BY DEF LoadIndex, LoadIndexFails, disk, history, FilesInv, TypeOK
<1>2. load_index' = load_index
  BY <1>1, IndexStays
<1>3. \/ forgotten' = forgotten /\ loaded'[p] = load_index \cup {entry}
      \/ forgotten' = Len(returned) /\ loaded'[p] = {entry}
  BY DEF LoadIndex, LoadIndexFails, history, FilesInv, TypeOK
<1>4. UniqueIds(p)'
  BY <1>1 DEF SoloInv, UniqueIds
<1>5. Inodes(p)'
  BY <1>1 DEF SoloInv, Inodes
<1>6. NextIndex(p)'
  BY <1>1, <1>2, <1>3 DEF SoloInv, NextIndex
<1>7. ReturnedIndexed'
  <2>1. returned \in Seq(Ids)
    BY DEF FilesInv, TypeOK
  <2>2. \A i \in DOMAIN returned : i > forgotten' => i > forgotten
    BY <1>3, <2>1
  <2> QED
    BY <1>1, <1>2, <2>2 DEF SoloInv, ReturnedIndexed
<1> QED
  BY <1>4, <1>5, <1>6, <1>7 DEF SoloInv

LEMMA OpenKeepsSolo ==
  ASSUME NEW p, Procs = {p}, FilesInv, SoloInv(p), OpenTmp(p)
  PROVE  SoloInv(p)' /\ load_index' = load_index
<1> DEFINE inode == IF index_tmp = None THEN saving[p].id ELSE index_tmp
<1>1. /\ pc[p] = "open" /\ pc'[p] = "dump"
      /\ index_tmp' = inode
      /\ fd'[p] = inode
      /\ content' = [content EXCEPT ![inode] = Cut]
      /\ UNCHANGED <<saving, loaded, files, index_json, returned, forgotten>>
  BY DEF OpenTmp, history, FilesInv, TypeOK
<1>2. saving[p] \in Checkpoint /\ saving[p] \in files /\ saving[p].id \in Ids
  BY <1>1 DEF FilesInv, InHand, Checkpoint
<1>3. inode \in Ids /\ inode # index_json /\ inode # None
  BY <1>1, <1>2, FilesAssumption DEF SoloInv, Inodes, FilesInv, TypeOK
<1>4. \E c \in files : c.id = inode
  BY <1>2 DEF SoloInv, Inodes
<1> HIDE DEF inode
<1>5. content'[inode] = Cut /\ \A i \in Ids \ {inode} : content'[i] = content[i]
  BY <1>1, <1>3 DEF FilesInv, TypeOK
<1>6. index_json # None => content'[index_json] = content[index_json]
  BY <1>3, <1>5 DEF FilesInv, TypeOK
<1>7. load_index' = load_index
  BY <1>1, <1>6, IndexStays
<1>8. UniqueIds(p)'
  BY <1>1 DEF SoloInv, UniqueIds
<1>9. Inodes(p)'
  BY <1>1, <1>3, <1>4 DEF SoloInv, Inodes
<1>10. NextIndex(p)' /\ ReturnedIndexed'
  BY <1>1, <1>3, <1>5, <1>6, <1>7 DEF SoloInv, NextIndex, ReturnedIndexed
<1> QED
  BY <1>7, <1>8, <1>9, <1>10 DEF SoloInv

LEMMA DumpKeepsSolo ==
  ASSUME NEW p, Procs = {p}, FilesInv, SoloInv(p), Dump(p)
  PROVE  SoloInv(p)' /\ load_index' = load_index
<1>1. /\ pc[p] = "dump" /\ pc'[p] = "rename"
      /\ UNCHANGED <<saving, loaded, files, index_tmp, index_json, returned, forgotten>>
  BY DEF Dump, history, FilesInv, TypeOK
<1>2. index_tmp \in Ids /\ fd[p] = index_tmp /\ content[index_tmp] = Cut /\ index_tmp # index_json
  BY <1>1 DEF SoloInv, NextIndex, Inodes, FilesInv, TypeOK
<1>3. content' = [content EXCEPT ![index_tmp] = Holding(loaded[p])]
  BY <1>2 DEF Dump, Cut
<1>4. content'[index_tmp] = Holding(loaded[p])
      /\ \A i \in Ids \ {index_tmp} : content'[i] = content[i]
  BY <1>2, <1>3 DEF FilesInv, TypeOK
<1>5. index_json # None => content'[index_json] = content[index_json]
  BY <1>2, <1>4 DEF FilesInv, TypeOK
<1>6. load_index' = load_index
  BY <1>1, <1>5, IndexStays
<1>7. UniqueIds(p)'
  BY <1>1 DEF SoloInv, UniqueIds
<1>8. Inodes(p)'
  BY <1>1 DEF SoloInv, Inodes
<1>9. NextIndex(p)' /\ ReturnedIndexed'
  BY <1>1, <1>2, <1>4, <1>5, <1>6, FilesAssumption DEF SoloInv, NextIndex, ReturnedIndexed
<1> QED
  BY <1>6, <1>7, <1>8, <1>9 DEF SoloInv

LEMMA RenameKeepsSolo ==
  ASSUME NEW p, Procs = {p}, FilesInv, SoloInv(p), RenameTmp(p)
  PROVE  /\ SoloInv(p)'
         /\ \/ load_index' = load_index \cup {<<saving[p].exec, saving[p].id>>}
            \/ forgotten = Len(returned) /\ load_index' = {<<saving[p].exec, saving[p].id>>}
<1> DEFINE entry == <<saving[p].exec, saving[p].id>>
<1>1. /\ pc[p] = "rename" /\ pc'[p] = "idle" /\ saving'[p] = [id |-> None]
      /\ index_json' = index_tmp /\ index_tmp' = None
      /\ returned' = Append(returned, saving[p].id)
      /\ UNCHANGED <<files, content, forgotten>>
  BY DEF RenameTmp, Finish, FilesInv, TypeOK
<1>2. index_tmp # None /\ content[index_tmp] = Holding(loaded[p])
      /\ \/ loaded[p] = load_index \cup {entry}
         \/ forgotten = Len(returned) /\ loaded[p] = {entry}
  BY <1>1 DEF SoloInv, NextIndex
<1>3. load_index' = loaded[p] /\ content[index_tmp].ok
  BY <1>1, <1>2 DEF load_index, Holding
<1>4. saving[p] \in files /\ saving[p].id \in Ids
  BY <1>1 DEF FilesInv, InHand, Checkpoint
<1>5. UniqueIds(p)'
  BY <1>1 DEF SoloInv, UniqueIds
<1>6. Inodes(p)' /\ NextIndex(p)'
  BY <1>1, <1>2, <1>3 DEF SoloInv, Inodes, NextIndex
<1>7. ReturnedIndexed'
  <2> SUFFICES ASSUME NEW i \in DOMAIN returned'
               PROVE  \E c \in files : /\ c.id = returned'[i]
                                       /\ i > forgotten => <<c.exec, c.id>> \in load_index'
    BY <1>1 DEF ReturnedIndexed
  <2>1. returned \in Seq(Ids)
    BY DEF FilesInv, TypeOK
  <2>2. \/ i \in DOMAIN returned /\ returned'[i] = returned[i]
        \/ returned'[i] = saving[p].id
    BY <1>1, <1>4, <2>1
  <2>3. CASE i \in DOMAIN returned /\ returned'[i] = returned[i]
    <3>1. PICK c \in files : c.id = returned[i] /\ (i > forgotten => <<c.exec, c.id>> \in load_index)
      BY <2>3 DEF SoloInv, ReturnedIndexed
    <3>2. i > forgotten => load_index \subseteq loaded[p]
      <4>1. forgotten = Len(returned) => ~(i > forgotten)
        BY <2>1, <2>3
      <4> QED
        BY <1>2, <4>1
    <3> QED
      BY <1>3, <2>3, <3>1, <3>2
  <2>4. CASE returned'[i] = saving[p].id
    BY <1>2, <1>3, <1>4, <2>4
  <2> QED
    BY <2>2, <2>3, <2>4
<1> QED
  BY <1>2, <1>3, <1>5, <1>6, <1>7 DEF SoloInv

LEMMA CutOffKeepsSolo ==
  ASSUME NEW p, Procs = {p}, FilesInv, SoloInv(p), SaveRaises(p) \/ Crash(p)
  PROVE  SoloInv(p)'
<1>1. /\ pc'[p] = "idle" /\ saving'[p] = [id |-> None]
      /\ UNCHANGED <<files, index_tmp, index_json, content, returned, forgotten>>
  BY DEF SaveRaises, Crash, Finish, disk, history, FilesInv, TypeOK
<1>2. load_index' = load_index
  BY <1>1, IndexStays
<1>3. UniqueIds(p)' /\ Inodes(p)'
  BY <1>1 DEF SoloInv, UniqueIds, Inodes
<1>4. NextIndex(p)' /\ ReturnedIndexed'
  BY <1>1, <1>2 DEF SoloInv, NextIndex, ReturnedIndexed
<1> QED
  BY <1>3, <1>4 DEF SoloInv

LEMMA StutterKeepsSolo ==
  ASSUME NEW p, SoloInv(p), UNCHANGED vars
  PROVE  SoloInv(p)' /\ load_index' = load_index
<1>1. UNCHANGED <<pc, saving, loaded, fd, files, index_tmp, index_json, content, returned,
                  forgotten>>
  BY DEF vars, memory, disk, history
<1>2. load_index' = load_index
  BY <1>1, IndexStays
<1> QED
  BY <1>1, <1>2 DEF SoloInv, UniqueIds, Inodes, NextIndex, ReturnedIndexed

\* Every step of the only process is one of these.
LEMMA SoloSteps ==
  ASSUME NEW p, Procs = {p}, [Next]_vars
  PROVE  \/ \E x \in Execs : save(p, x)
         \/ ReplaceCheckpoint(p) \/ LoadIndex(p) \/ LoadIndexFails(p) \/ OpenTmp(p)
         \/ Dump(p) \/ RenameTmp(p) \/ SaveRaises(p) \/ Crash(p)
         \/ UNCHANGED vars
BY DEF Next, Step, Done

LEMMA NextSoloInv ==
  ASSUME NEW p, Procs = {p}, FilesInv, SoloInv(p), [Next]_vars
  PROVE  SoloInv(p)'
BY SoloSteps, SaveKeepsSolo, ReplaceKeepsSolo, LoadKeepsSolo, OpenKeepsSolo, DumpKeepsSolo,
   RenameKeepsSolo, CutOffKeepsSolo, StutterKeepsSolo

LEMMA InitSoloInv ==
  ASSUME NEW p, Procs = {p}, Init
  PROVE  SoloInv(p)
BY DEF Init, SoloInv, UniqueIds, Inodes, NextIndex, ReturnedIndexed

\* With one process, the invariant holds in every state.
THEOREM SoloInvHolds ==
  ASSUME NEW p, Procs = {p}
  PROVE  Spec => []SoloInv(p)
<1>1. Init => SoloInv(p)
  BY InitSoloInv
<1>2. FilesInv /\ SoloInv(p) /\ [Next]_vars => SoloInv(p)'
  BY NextSoloInv
<1> QED
  BY <1>1, <1>2, FilesInvHolds, PTL DEF Spec

\* The checkpoints that list_by_execution finds are the files the index names.
ListedByIndex == listed = {c \in files : <<c.exec, c.id>> \in load_index}

LEMMA ListedMeans == TypeOK => ListedByIndex
<1> SUFFICES ASSUME TypeOK PROVE ListedByIndex
  OBVIOUS
<1>1. load_index \subseteq Execs \X Ids
  BY DEF TypeOK, load_index, Index
<1>2. ASSUME NEW c \in listed
      PROVE  c \in files /\ <<c.exec, c.id>> \in load_index
  <2>1. PICK entry \in load_index : c \in get(entry[2]) /\ c.exec = entry[1]
    BY <1>2 DEF listed
  <2>2. entry = <<entry[1], entry[2]>>
    BY <1>1, <2>1
  <2> QED
    BY <2>1, <2>2 DEF get
<1>3. ASSUME NEW c \in files, <<c.exec, c.id>> \in load_index
      PROVE  c \in listed
  <2> DEFINE entry == <<c.exec, c.id>>
  <2>1. entry \in load_index /\ c \in {d \in get(entry[2]) : d.exec = entry[1]}
    BY <1>3 DEF get
  <2> QED
    BY <2>1 DEF listed
<1> QED
  BY <1>2, <1>3 DEF ListedByIndex

\* A checkpoint whose save returned can be restored by its id, whatever file
\* operation of a later save a crash or an error cuts off, and is listed until
\* a later save misreads the index (file_system.py: save, _load_index and
\* _save_index; P5_DR_PLAN.md:52).
THEOREM SavedIsListedHolds ==
  ASSUME NEW p, Procs = {p}
  PROVE  Spec => []SavedIsListed
<1>1. FilesInv /\ SoloInv(p) => SavedIsListed
  <2> SUFFICES ASSUME FilesInv, SoloInv(p), NEW i \in DOMAIN returned
               PROVE  /\ restore(returned[i]).id = returned[i]
                      /\ i > forgotten => restore(returned[i]) \in listed
    BY DEF SavedIsListed
  <2>1. PICK c \in files : c.id = returned[i] /\ (i > forgotten => <<c.exec, c.id>> \in load_index)
    BY DEF SoloInv, ReturnedIndexed
  <2>2. get(returned[i]) = {c}
    BY <2>1 DEF get, SoloInv, UniqueIds
  <2>3. restore(returned[i]) = c
    BY <2>2 DEF restore
  <2> QED
    BY <2>1, <2>3, ListedMeans DEF FilesInv, ListedByIndex
<1> QED
  BY <1>1, FilesInvHolds, SoloInvHolds, PTL

-----------------------------------------------------------------------------
(* Versions.                                                               *)

\* As long as the counter is not lost, the checkpoint in hand has the highest
\* version of its execution, and the versions follow the saves.
VersionsGrow(p) ==
  crashes = 0 =>
    /\ \A c \in files : c.version <= version_counter[p][c.exec]
    /\ pc[p] # "idle" =>
         /\ saving[p].version <= version_counter[p][saving[p].exec]
         /\ \A c \in files : (c.exec = saving[p].exec /\ c.id # saving[p].id)
                                => c.version < saving[p].version
    /\ \A c, d \in files : \A i, j \in DOMAIN returned :
         (c.exec = d.exec /\ c.id = returned[i] /\ d.id = returned[j] /\ i < j)
           => c.version < d.version

LEMMA SaveKeepsVersions ==
  ASSUME NEW p, Procs = {p}, FilesInv, SoloInv(p), VersionsGrow(p), NEW x \in Execs, save(p, x)
  PROVE  VersionsGrow(p)'
<1>0. PICK i \in Unused :
        /\ version_counter' = [version_counter EXCEPT ![p][x] = @ + 1]
        /\ saving' = [saving EXCEPT ![p] =
                        [id |-> i, exec |-> x, version |-> version_counter[p][x] + 1]]
  BY DEF save
<1>1. UNCHANGED <<files, returned, crashes>>
  BY DEF save, disk, history, faults
<1>2. /\ version_counter[p] \in [Execs -> Nat]
      /\ version_counter'[p] = [version_counter[p] EXCEPT ![x] = @ + 1]
      /\ saving'[p] = [id |-> i, exec |-> x, version |-> version_counter[p][x] + 1]
  BY <1>0 DEF FilesInv, TypeOK
<1>3. \A c \in files : c.exec \in Execs /\ c.version \in Nat
  BY DEF FilesInv, TypeOK, Checkpoint
<1>4. SUFFICES ASSUME crashes = 0
               PROVE  /\ \A c \in files : c.version <= version_counter'[p][c.exec]
                      /\ saving'[p].version <= version_counter'[p][saving'[p].exec]
                      /\ \A c \in files : (c.exec = saving'[p].exec /\ c.id # saving'[p].id)
                                              => c.version < saving'[p].version
  BY <1>1 DEF VersionsGrow
<1>5. \A c \in files : c.version <= version_counter[p][c.exec]
  BY <1>4 DEF VersionsGrow
<1> QED
  BY <1>2, <1>3, <1>5

\* The checkpoint in hand becomes a file, and then one that was returned.
LEMMA ReplaceKeepsVersions ==
  ASSUME NEW p, Procs = {p}, FilesInv, SoloInv(p), VersionsGrow(p), ReplaceCheckpoint(p)
  PROVE  VersionsGrow(p)'
<1>1. /\ pc[p] = "replace"
      /\ files' = files \cup {saving[p]}
      /\ UNCHANGED <<version_counter, saving, returned, crashes>>
  BY DEF ReplaceCheckpoint, history, faults
<1>2. \A i \in DOMAIN returned : returned[i] # saving[p].id
  BY <1>1 DEF SoloInv, UniqueIds
<1> QED
  BY <1>1, <1>2 DEF VersionsGrow

LEMMA RenameKeepsVersions ==
  ASSUME NEW p, Procs = {p}, FilesInv, SoloInv(p), VersionsGrow(p), RenameTmp(p)
  PROVE  VersionsGrow(p)'
<1>1. /\ pc[p] = "rename" /\ pc'[p] = "idle"
      /\ returned' = Append(returned, saving[p].id)
      /\ UNCHANGED <<version_counter, files, crashes>>
  BY DEF RenameTmp, Finish, faults, FilesInv, TypeOK
<1>2. SUFFICES ASSUME crashes = 0, NEW c \in files, NEW d \in files,
                      NEW i \in DOMAIN returned', NEW j \in DOMAIN returned',
                      c.exec = d.exec, c.id = returned'[i], d.id = returned'[j], i < j
               PROVE  c.version < d.version
  BY <1>1 DEF VersionsGrow
<1>3. returned \in Seq(Ids) /\ saving[p].id \in Ids
  BY <1>1 DEF FilesInv, TypeOK, InHand, Checkpoint
<1>4. i \in DOMAIN returned /\ returned'[i] = returned[i]
  BY <1>1, <1>2, <1>3
<1>5. CASE j \in DOMAIN returned
  <2>1. returned'[j] = returned[j]
    BY <1>1, <1>3, <1>5
  <2> QED
    BY <1>2, <1>4, <1>5, <2>1 DEF VersionsGrow
<1>6. CASE j \notin DOMAIN returned
  <2>1. returned'[j] = saving[p].id
    BY <1>1, <1>3, <1>6
  <2>2. d = saving[p] /\ c.id # saving[p].id
    BY <1>1, <1>2, <1>4, <2>1 DEF SoloInv, UniqueIds
  <2> QED
    BY <1>1, <1>2, <2>2 DEF VersionsGrow
<1> QED
  BY <1>5, <1>6

LEMMA NextVersionsGrow ==
  ASSUME NEW p, Procs = {p}, FilesInv, SoloInv(p), VersionsGrow(p), [Next]_vars
  PROVE  VersionsGrow(p)'
<1>1. CASE LoadIndex(p) \/ LoadIndexFails(p) \/ OpenTmp(p) \/ Dump(p)
  <2>1. UNCHANGED <<version_counter, saving, files, returned, crashes>> /\ pc[p] # "idle"
    BY <1>1 DEF LoadIndex, LoadIndexFails, OpenTmp, Dump, disk, history, faults
  <2> QED
    BY <2>1 DEF VersionsGrow
<1>2. CASE SaveRaises(p)
  <2>1. UNCHANGED <<version_counter, files, returned, crashes>> /\ pc'[p] = "idle"
    BY <1>2 DEF SaveRaises, Finish, disk, history, FilesInv, TypeOK
  <2> QED
    BY <2>1 DEF VersionsGrow
<1>3. CASE Crash(p)
  <2>1. crashes' # 0
    BY <1>3 DEF Crash, FilesInv, TypeOK
  <2> QED
    BY <2>1 DEF VersionsGrow
<1>4. CASE UNCHANGED vars
  <2>1. UNCHANGED <<version_counter, pc, saving, files, returned, crashes>>
    BY <1>4 DEF vars, memory, disk, history, faults
  <2> QED
    BY <2>1 DEF VersionsGrow
<1> QED
  BY <1>1, <1>2, <1>3, <1>4, SoloSteps, SaveKeepsVersions, ReplaceKeepsVersions,
     RenameKeepsVersions

\* Until the process is restarted, get_latest returns the checkpoint whose
\* save returned last (checkpoint.py: _version_counter).
THEOREM LatestIsNewestHolds ==
  ASSUME NEW p, Procs = {p}
  PROVE  Spec => []LatestIsNewest
<1>1. Init => VersionsGrow(p)
  BY DEF Init, VersionsGrow
<1>2. FilesInv /\ SoloInv(p) /\ VersionsGrow(p) /\ [Next]_vars => VersionsGrow(p)'
  BY NextVersionsGrow
<1>3. FilesInv /\ VersionsGrow(p) => LatestIsNewest
  <2> SUFFICES ASSUME FilesInv, VersionsGrow(p) PROVE LatestIsNewest
    OBVIOUS
  <2>1. listed \subseteq files
    BY ListedMeans DEF FilesInv, ListedByIndex
  <2> QED
    BY <2>1 DEF LatestIsNewest, VersionsGrow
<1> QED
  BY <1>1, <1>2, <1>3, FilesInvHolds, SoloInvHolds, PTL DEF Spec

-----------------------------------------------------------------------------
(* Refinement.                                                             *)

\* The ids that are used up.
UsedIds(p) == {c.id : c \in files} \cup ({saving[p].id} \ {None})

\* Every version was paid for with an id; a save that fails before its file
\* is in place gives its id back, but costs an error.
VersionsBounded(p) ==
  /\ \A x \in Execs : version_counter[p][x] <= Cardinality(UsedIds(p)) + errors
  /\ pc[p] # "idle" => saving[p].version \in 1 .. Cardinality(Ids) + MaxErrors

LEMMA UsedFinite ==
  ASSUME NEW p, Procs = {p}, TypeOK
  PROVE  /\ IsFiniteSet(UsedIds(p)) /\ Cardinality(UsedIds(p)) \in Nat
         /\ Cardinality(UsedIds(p)) <= Cardinality(Ids) /\ Cardinality(Ids) \in Nat
<1>1. UsedIds(p) \in SUBSET Ids
  <2>1. \A c \in files : c.id \in Ids
    BY DEF TypeOK, Checkpoint
  <2>2. saving[p].id \in Ids \cup {None}
    BY DEF TypeOK, Checkpoint
  <2> QED
    BY <2>1, <2>2 DEF UsedIds
<1> QED
  BY <1>1, FilesAssumption, FS_Subset, FS_CardinalityType

LEMMA SaveKeepsBound ==
  ASSUME NEW p, Procs = {p}, FilesInv, FilesInv', SoloInv(p), VersionsBounded(p),
         NEW x \in Execs, save(p, x)
  PROVE  VersionsBounded(p)'
<1>0. PICK i \in Unused :
        /\ version_counter' = [version_counter EXCEPT ![p][x] = @ + 1]
        /\ saving' = [saving EXCEPT ![p] =
                        [id |-> i, exec |-> x, version |-> version_counter[p][x] + 1]]
  BY DEF save
<1>1. pc[p] = "idle" /\ UNCHANGED <<files, errors>>
  BY DEF save, disk, faults
<1>2. /\ version_counter[p] \in [Execs -> Nat]
      /\ version_counter'[p] = [version_counter[p] EXCEPT ![x] = @ + 1]
      /\ saving'[p].id = i /\ saving'[p].version = version_counter[p][x] + 1
      /\ i \in Ids /\ i # None /\ saving[p].id = None
      /\ errors \in Nat /\ errors <= MaxErrors
  BY <1>0, <1>1, FilesAssumption DEF FilesInv, TypeOK, Unused, SoloInv, UniqueIds
<1>3. UsedIds(p)' = UsedIds(p) \cup {i} /\ i \notin UsedIds(p)
  BY <1>1, <1>2 DEF UsedIds, Unused
<1>4. /\ IsFiniteSet(UsedIds(p)) /\ Cardinality(UsedIds(p)) \in Nat /\ Cardinality(Ids) \in Nat
      /\ Cardinality(UsedIds(p)') <= Cardinality(Ids)
  <2>1. ASSUME TypeOK PROVE Cardinality(UsedIds(p)) <= Cardinality(Ids)
    BY <2>1, UsedFinite
  <2>2. TypeOK' => Cardinality(UsedIds(p)') <= Cardinality(Ids)
    <3>1. UsedIds(p)' \subseteq Ids
      BY <1>2, <1>3 DEF UsedIds, FilesInv, TypeOK, Checkpoint
    <3> QED
      BY <3>1, FilesAssumption, FS_Subset
  <2> QED
    BY <2>2, UsedFinite DEF FilesInv
<1>5. Cardinality(UsedIds(p)') = Cardinality(UsedIds(p)) + 1
  BY <1>3, <1>4, FS_AddElement
<1>6. \A y \in Execs : version_counter[p][y] <= Cardinality(UsedIds(p)) + errors
  BY DEF VersionsBounded
<1>7. \A y \in Execs : version_counter'[p][y] <= Cardinality(UsedIds(p)') + errors'
  BY <1>1, <1>2, <1>4, <1>5, <1>6
<1>8. saving'[p].version \in 1 .. Cardinality(Ids) + MaxErrors
  BY <1>2, <1>4, <1>5, <1>6, FilesAssumption
<1> QED
  BY <1>7, <1>8 DEF VersionsBounded

LEMMA NextVersionsBounded ==
  ASSUME NEW p, Procs = {p}, FilesInv, FilesInv', SoloInv(p), VersionsBounded(p), [Next]_vars
  PROVE  VersionsBounded(p)'
<1>0. /\ version_counter[p] \in [Execs -> Nat] /\ errors \in Nat
      /\ Cardinality(UsedIds(p)) \in Nat /\ IsFiniteSet(UsedIds(p))
  <2>1. Cardinality(UsedIds(p)) \in Nat /\ IsFiniteSet(UsedIds(p))
    BY UsedFinite DEF FilesInv
  <2> QED
    BY <2>1 DEF FilesInv, TypeOK
<1>1. CASE ReplaceCheckpoint(p)
  <2>1. /\ pc[p] = "replace" /\ files' = files \cup {saving[p]}
        /\ UNCHANGED <<version_counter, saving, errors>>
    BY <1>1 DEF ReplaceCheckpoint, faults
  <2>2. saving[p].id # None
    BY <2>1, FilesAssumption DEF FilesInv, InHand, Checkpoint
  <2>3. UsedIds(p)' = UsedIds(p)
    BY <2>1, <2>2 DEF UsedIds
  <2> QED
    BY <2>1, <2>3 DEF VersionsBounded
<1>2. CASE LoadIndex(p) \/ LoadIndexFails(p) \/ OpenTmp(p) \/ Dump(p)
  <2>1. UNCHANGED <<version_counter, saving, files, errors>> /\ pc[p] # "idle"
    BY <1>2 DEF LoadIndex, LoadIndexFails, OpenTmp, Dump, disk, faults
  <2> QED
    BY <2>1 DEF VersionsBounded, UsedIds
<1>3. CASE RenameTmp(p)
  <2>1. /\ pc[p] = "rename" /\ pc'[p] = "idle" /\ saving'[p] = [id |-> None]
        /\ UNCHANGED <<version_counter, files, errors>>
    BY <1>3 DEF RenameTmp, Finish, faults, FilesInv, TypeOK
  <2>2. saving[p] \in files
    BY <2>1 DEF FilesInv, InHand
  <2>3. UsedIds(p)' = UsedIds(p)
    BY <2>1, <2>2 DEF UsedIds
  <2> QED
    BY <2>1, <2>3 DEF VersionsBounded
<1>4. CASE SaveRaises(p)
  <2>1. /\ pc[p] # "idle" /\ pc'[p] = "idle" /\ saving'[p] = [id |-> None]
        /\ errors' = errors + 1
        /\ UNCHANGED <<version_counter, files>>
    BY <1>4 DEF SaveRaises, Finish, disk, FilesInv, TypeOK
  <2>2. UsedIds(p)' = UsedIds(p) \/ UsedIds(p)' = UsedIds(p) \ {saving[p].id}
    BY <2>1 DEF UsedIds
  <2>3. Cardinality(UsedIds(p)') \in Nat /\ Cardinality(UsedIds(p)) <= Cardinality(UsedIds(p)') + 1
    <3>1. CASE UsedIds(p)' = UsedIds(p)
      BY <1>0, <3>1
    <3>2. CASE UsedIds(p)' = UsedIds(p) \ {saving[p].id}
      <4> DEFINE rest == UsedIds(p) \ {saving[p].id}
      <4>1. /\ IsFiniteSet(rest)
            /\ Cardinality(rest) = IF saving[p].id \in UsedIds(p)
                                   THEN Cardinality(UsedIds(p)) - 1 ELSE Cardinality(UsedIds(p))
        BY <1>0, FS_RemoveElement
      <4>2. Cardinality(rest) \in Nat
        BY <4>1, FS_CardinalityType
      <4> HIDE DEF rest
      <4>3. Cardinality(UsedIds(p)) <= Cardinality(rest) + 1
        BY <1>0, <4>1, <4>2
      <4> QED
        BY <3>2, <4>2, <4>3 DEF rest
    <3> QED
      BY <2>2, <3>1, <3>2
  <2>4. \A x \in Execs : version_counter[p][x] <= Cardinality(UsedIds(p)) + errors
    BY DEF VersionsBounded
  <2>5. \A x \in Execs : version_counter'[p][x] <= Cardinality(UsedIds(p)') + errors'
    BY <1>0, <2>1, <2>3, <2>4
  <2> QED
    BY <2>1, <2>5 DEF VersionsBounded
<1>5. CASE Crash(p)
  <2>1. /\ pc'[p] = "idle" /\ saving'[p] = [id |-> None] /\ UNCHANGED <<files, errors>>
        /\ \A x \in Execs : version_counter'[p][x] = 0
    BY <1>5 DEF Crash, disk, FilesInv, TypeOK
  <2>2. UsedIds(p)' = UsedIds(p) \/ UsedIds(p)' = UsedIds(p) \ {saving[p].id}
    BY <2>1 DEF UsedIds
  <2>3. Cardinality(UsedIds(p)') \in Nat
    BY <1>0, <2>2, FS_RemoveElement, FS_CardinalityType
  <2> QED
    BY <1>0, <2>1, <2>3 DEF VersionsBounded
<1>6. CASE UNCHANGED vars
  BY <1>6 DEF vars, memory, disk, faults, VersionsBounded, UsedIds
<1> QED
  BY <1>1, <1>2, <1>3, <1>4, <1>5, <1>6, SoloSteps, SaveKeepsBound

\* A step that leaves the index and the files as they are changes no listing.
LEMMA ListedStays ==
  ASSUME FilesInv, FilesInv', load_index' = load_index, files' = files
  PROVE  listed' = listed
<1>1. ListedByIndex
  BY ListedMeans DEF FilesInv
<1>2. TypeOK' => ListedByIndex'
  BY ListedMeans, PTL
<1> QED
  BY <1>1, <1>2 DEF FilesInv, ListedByIndex

\* Every step of the only process is a save of the abstract repository, or
\* one that forgets, at the rename of the index, or changes nothing of what
\* is listed.
LEMMA StepRefinesRepository ==
  ASSUME NEW p, Procs = {p}, FilesInv, FilesInv', SoloInv(p), VersionsBounded(p), [Next]_vars
  PROVE  [Repository!Next \/ SaveForgets]_listed
<1>1. listed = {c \in files : <<c.exec, c.id>> \in load_index}
  BY ListedMeans DEF FilesInv, ListedByIndex
<1>2. listed' = {c \in files' : <<c.exec, c.id>> \in load_index'}
  <2>1. TypeOK' => ListedByIndex'
    BY ListedMeans, PTL
  <2> QED
    BY <2>1 DEF FilesInv, ListedByIndex
<1>3. ASSUME NEW x \in Execs, save(p, x)
      PROVE  listed' = listed
  <2>1. UNCHANGED <<files, index_json, content>>
    BY <1>3 DEF save, disk
  <2> QED
    BY <2>1, IndexStays, ListedStays
<1>4. CASE ReplaceCheckpoint(p)
  <2>1. /\ pc[p] = "replace" /\ files' = files \cup {saving[p]}
        /\ UNCHANGED <<index_json, content>>
    BY <1>4 DEF ReplaceCheckpoint
  <2>2. load_index' = load_index
    BY <2>1, IndexStays
  <2>3. <<saving[p].exec, saving[p].id>> \notin load_index
    <3>1. SUFFICES ASSUME <<saving[p].exec, saving[p].id>> \in load_index
                   PROVE  FALSE
      OBVIOUS
    <3>2. PICK c \in files : c.id = saving[p].id
      BY <3>1, LoadedIsWritten DEF Written
    <3> QED
      BY <2>1, <3>2 DEF SoloInv, UniqueIds
  <2> QED
    BY <1>1, <1>2, <2>1, <2>2, <2>3
<1>5. CASE LoadIndex(p) \/ LoadIndexFails(p) \/ SaveRaises(p) \/ Crash(p)
  <2>1. UNCHANGED <<files, index_json, content>>
    BY <1>5 DEF LoadIndex, LoadIndexFails, SaveRaises, Crash, disk
  <2> QED
    BY <2>1, IndexStays, ListedStays
<1>6. CASE OpenTmp(p) \/ Dump(p)
  <2>1. load_index' = load_index
    BY <1>6, OpenKeepsSolo, DumpKeepsSolo
  <2>2. files' = files
    BY <1>6 DEF OpenTmp, Dump
  <2> QED
    BY <2>1, <2>2, ListedStays
<1>7. CASE RenameTmp(p)
  <2> DEFINE cp == saving[p]
  <2>1. \/ load_index' = load_index \cup {<<cp.exec, cp.id>>}
        \/ forgotten = Len(returned) /\ load_index' = {<<cp.exec, cp.id>>}
    BY <1>7, RenameKeepsSolo
  <2>2. pc[p] = "rename" /\ files' = files
    BY <1>7 DEF RenameTmp
  <2>3. cp \in files /\ cp \in Checkpoint /\ \A c \in files : c.id = cp.id => c = cp
    BY <2>2 DEF FilesInv, InHand, SoloInv, UniqueIds
  <2>4. cp.version \in 1 .. Cardinality(Ids) + MaxErrors
    BY <2>2 DEF VersionsBounded
  <2>5. cp \in Repository!Checkpoint
    BY <2>3, <2>4 DEF Checkpoint, Repository!Checkpoint
  <2> HIDE DEF cp
  <2>6. CASE load_index' = load_index \cup {<<cp.exec, cp.id>>}
    <3>1. listed' = {c \in listed : c.id # cp.id} \cup {cp}
      BY <1>1, <1>2, <2>2, <2>3, <2>6
    <3> QED
      BY <2>5, <3>1 DEF Repository!Next, Repository!save
  <2>7. CASE forgotten = Len(returned) /\ load_index' = {<<cp.exec, cp.id>>}
    <3>1. listed' = {cp}
      BY <1>2, <2>2, <2>3, <2>7
    <3> QED
      BY <2>5, <2>7, <3>1 DEF SaveForgets
  <2> QED
    BY <2>1, <2>6, <2>7
<1>8. CASE UNCHANGED vars
  <2>1. UNCHANGED <<files, index_json, content>>
    BY <1>8 DEF vars, disk
  <2> QED
    BY <2>1, IndexStays, ListedStays
<1> QED
  BY <1>3, <1>4, <1>5, <1>6, <1>7, <1>8, SoloSteps

\* With one process, FileSystemCheckpointRepository implements the in-memory
\* repository (core/contracts/checkpoint_repository.py), crashes, errors and
\* all, but for the saves that misread the index: a save takes effect at once,
\* at the rename of the index, or not at all.
THEOREM ImplementsRepositoryHolds ==
  ASSUME NEW p, Procs = {p}
  PROVE  Spec => ImplementsRepository
<1>1. Init => VersionsBounded(p) /\ Repository!Init
  <2> SUFFICES ASSUME Init PROVE VersionsBounded(p) /\ Repository!Init
    OBVIOUS
  <2>1. TypeOK /\ load_index = {}
    BY InitFilesInv DEF Init, FilesInv, load_index
  <2>2. listed = {}
    BY <2>1 DEF listed
  <2>3. VersionsBounded(p)
    BY <2>1, UsedFinite DEF Init, VersionsBounded
  <2> QED
    BY <2>2, <2>3 DEF Repository!Init
<1>2. FilesInv /\ FilesInv' /\ SoloInv(p) /\ VersionsBounded(p) /\ [Next]_vars
        => VersionsBounded(p)' /\ [Repository!Next \/ SaveForgets]_listed
  BY NextVersionsBounded, StepRefinesRepository
<1> QED
  BY <1>1, <1>2, FilesInvHolds, SoloInvHolds, PTL DEF Spec, ImplementsRepository
=============================================================================
