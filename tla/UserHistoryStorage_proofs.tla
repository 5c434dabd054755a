--------------------- MODULE UserHistoryStorage_proofs ---------------------
(***************************************************************************)
(* Proofs about UserHistoryStorage for every set of entries: its type;     *)
(* SavedStays, that nothing but the user takes a saved suggestion out of   *)
(* the file; and DiskAgrees, that what is not marked for saving is saved.  *)
(***************************************************************************)
EXTENDS UserHistoryStorage, TLAPS

\* What a task may be.
LEMMA TaskType ==
  /\ NoTask \in [op : {"none", "save", "flag", "load"}, data : {NoFile}]
  /\ \A op \in {"save", "flag", "load"} :
        /\ Task(op, NoFile) \in [op : {"none", "save", "flag", "load"}, data : {NoFile}]
        /\ Task(op, NoFile).op = op
        /\ Task(op, NoFile) # NoTask
  /\ \A op \in {"write", "fill"}, d \in Dic :
        /\ Task(op, d) \in [op : {"write", "fill"}, data : Dic]
        /\ Task(op, d).op = op
        /\ Task(op, d).data = d
        /\ Task(op, d) # NoTask
  /\ NoTask.op = "none"
  BY DEF NoTask, Task

LEMMA TypeInit == Init => TypeOK
  <1> SUFFICES ASSUME Init PROVE TypeOK
    OBVIOUS
  <1>1. dic \in Dic
    BY DEF Init, Dic, Empty
  <1>2. wish \in [Entry -> {"never", "learned", "removed", "cleared"}]
    BY DEF Init
  <1>3. QED
    BY <1>1, <1>2, TaskType DEF Init, TypeOK

LEMMA TypeStep == TypeOK /\ [Next]_vars => TypeOK'
  <1> SUFFICES ASSUME TypeOK, [Next]_vars PROVE TypeOK'
    OBVIOUS
  <1> USE DEF TypeOK
  <1>1. ASSUME NEW e \in Entry, Finish(e) PROVE TypeOK'
    <2>1. PICK S \in SUBSET (Entry \ {e}) :
            /\ dic' = [RemoveAll(dic, S) EXCEPT ![e] = "live"]
            /\ wish' = [x \in Entry |-> IF x = e THEN "learned"
                                       ELSE IF x \in S THEN "removed" ELSE wish[x]]
            /\ saved' = saved \ S
      BY <1>1 DEF Finish
    <2>2. dic' \in Dic
      BY <2>1 DEF RemoveAll, Dic
    <2>3. wish' \in [Entry -> {"never", "learned", "removed", "cleared"}]
      BY <2>1
    <2>4. QED
      BY <1>1, <2>1, <2>2, <2>3 DEF Finish
  <1>2. ASSUME NEW e \in Entry, AddHistoryEntry(e) \/ CommitContext(e) PROVE TypeOK'
    BY <1>2 DEF AddHistoryEntry, CommitContext, ChangedLate, Dic
  <1>3. ASSUME NEW e \in Entry, ClearHistoryEntry(e) PROVE TypeOK'
    BY <1>3 DEF ClearHistoryEntry, RemoveAll, Unwanted, ChangedLate, Dic
  <1>4. ASSUME NEW e \in Entry, Revert(e) PROVE TypeOK'
    BY <1>4 DEF Revert, Unwanted, Dic
  <1>5. CASE Sync
    BY <1>5 DEF Sync, AsyncSave, Task
  <1>6. CASE ClearUnusedHistory
    BY <1>6 DEF ClearUnusedHistory, ChangedLate, AsyncSave, Task, Dic
  <1>7. CASE Reload
    BY <1>7 DEF Reload, Task
  <1>8. CASE Clear
    BY <1>8 DEF Clear, ChangedLate, Dic, Empty
  <1>9. CASE ClearCheck \/ ClearUnlink
    BY <1>9 DEF ClearCheck, ClearUnlink, ClearReturns, ChangedLate
  <1>10. CASE SaveCopy
    <2>1. \/ task' \in [op : {"none", "save", "flag", "load"}, data : {NoFile}]
          \/ task' \in [op : {"write", "fill"}, data : Dic]
      <3>1. CASE task' = NoTask
        BY <3>1, TaskType
      <3>2. CASE task' = Task("write", dic)
        BY <3>2, TaskType
      <3>3. QED
        BY <1>10, <3>1, <3>2 DEF SaveCopy
    <2>2. late' \subseteq Entry
      BY <1>10 DEF SaveCopy
    <2>3. QED
      BY <1>10, <2>1, <2>2 DEF SaveCopy
  <1>11. CASE SaveWrite
    <2>1. task.data \in Dic \ {Empty}
      BY <1>11 DEF SaveWrite, Writable
    <2>2. QED
      BY <1>11, <2>1 DEF SaveWrite, Task
  <1>12. CASE SaveUnlink \/ SaveFails \/ SaveFlag
    <2>1. task' \in [op : {"none", "save", "flag", "load"}, data : {NoFile}]
      BY <1>12, TaskType DEF SaveUnlink, SaveFails, SaveFlag
    <2>2. QED
      BY <1>12, <2>1 DEF SaveUnlink, SaveFails, SaveFlag
  <1>13. CASE LoadRead
    BY <1>13 DEF LoadRead, Task
  <1>14. CASE LoadFails
    BY <1>14 DEF LoadFails, NoTask
  <1>15. CASE LoadFill
    <2>1. task.data \in Dic
      BY <1>15 DEF LoadFill
    <2>2. dic' \in Dic
      BY <1>15, <2>1 DEF LoadFill, Fill, Dic
    <2>3. QED
      BY <1>15, <2>2 DEF LoadFill, NoTask
  <1>16. CASE Start
    BY <1>16 DEF Start, Dic, Empty, Task
  <1>17. CASE Close
    BY <1>17 DEF Close, IsSyncerRunning
  <1>18. CASE CloseSave
    BY <1>18 DEF CloseSave, Writable
  <1>19. CASE Crash
    BY <1>19 DEF Crash, NoTask
  <1>20. CASE UNCHANGED vars
    BY <1>20 DEF vars
  <1>21. CASE ClearContaining
    BY <1>21 DEF ClearContaining, RemoveAll, Unwanted, Dic
  <1>22. QED
    BY <1>1, <1>2, <1>3, <1>4, <1>5, <1>6, <1>7, <1>8, <1>9, <1>10, <1>11, <1>12,
       <1>13, <1>14, <1>15, <1>16, <1>17, <1>18, <1>19, <1>20, <1>21
       DEF Next, Command, Syncer

\* The storage has its type; in particular the file is never empty.
THEOREM TypeCorrect == Spec => []TypeOK
  <1>1. QED
    BY TypeInit, TypeStep, PTL DEF Spec

-----------------------------------------------------------------------------
(* The inductive invariant: what each stage of the syncer carries.         *)

Live(d, S) == \A e \in S : d[e] = "live"

Inv ==
    /\ SavedStays
    /\ canceled => main \in {"closing", "gone"}
    /\ main = "gone" => task = NoTask
    /\ Locked => saved = {} /\ \A e \in Entry : wish[e] # "learned"
    \* What is about to be written, or to replace memory, has all that is saved.
    /\ task.op \in {"write", "fill"} => Live(task.data, saved)
    \* Unless a load is under way, or was interrupted, so does memory.
    /\ task.op \notin {"load", "fill"} /\ main # "gone" /\ (main = "closing" => needsSync)
          => Live(dic, saved)
    \* A suggestion being written is still in memory, unless the user removed it.
    /\ task.op = "write" =>
          \A e \in Entry : wish[e] = "learned" /\ task.data[e] = "live" => dic[e] = "live"

LEMMA InvInit == Init => Inv
  BY DEF Init, Inv, SavedStays, Locked, NoTask

LEMMA InvStep == TypeOK /\ Inv /\ [Next]_vars => Inv'
  <1> SUFFICES ASSUME TypeOK, Inv, [Next]_vars PROVE Inv'
    OBVIOUS
  <1> USE DEF Inv, SavedStays, OnDisk, Locked, Live
  <1>1. ASSUME NEW e \in Entry, main = "up", Finish(e) PROVE Inv'
    BY <1>1 DEF Finish, MayLearn, IsSyncerRunning, NoTask, RemoveAll, TypeOK, Dic
  <1>2. ASSUME NEW e \in Entry, main = "up", AddHistoryEntry(e) \/ CommitContext(e) PROVE Inv'
    <2>1. AddHistoryEntry(e)
      BY <1>2 DEF CommitContext
    <2>2. main = "up" /\ dic' = [dic EXCEPT ![e] = "live"] /\ wish' = [wish EXCEPT ![e] = "learned"]
             /\ needsSync' = TRUE /\ UNCHANGED <<canceled, file, task, main, saved>>
      BY <1>2, <2>1 DEF AddHistoryEntry
    <2>3. QED
      BY <2>2 DEF TypeOK, Dic
  <1>3. ASSUME NEW e \in Entry, main = "up", ClearHistoryEntry(e) PROVE Inv'
    BY <1>3 DEF ClearHistoryEntry, RemoveAll, Unwanted, TypeOK, Dic
  <1>4. ASSUME NEW e \in Entry, main = "up", Revert(e) PROVE Inv'
    BY <1>4 DEF Revert, MayLearn, IsSyncerRunning, NoTask, Unwanted, TypeOK, Dic
  <1>5. CASE main = "up" /\ Sync
    BY <1>5 DEF Sync, AsyncSave, Task, NoTask, IsSyncerRunning, TypeOK
  <1>6. CASE main = "up" /\ ClearUnusedHistory
    BY <1>6 DEF ClearUnusedHistory, AsyncSave, Task, NoTask, IsSyncerRunning, TypeOK, Dic
  <1>7. CASE main = "up" /\ Reload
    BY <1>7 DEF Reload, Task, NoTask, IsSyncerRunning, TypeOK
  <1>8. CASE main = "up" /\ Clear
    BY <1>8 DEF Clear, TypeOK
  <1>9. CASE ClearCheck \/ ClearUnlink
    <2>1. saved = {} /\ saved' = {}
      BY <1>9 DEF ClearCheck, ClearUnlink
    <2>2. main' \in {"up", "clear unlink"} /\ (main' = "clear unlink" => wish' = wish)
      BY <1>9 DEF ClearCheck, ClearUnlink, ClearReturns
    <2>3. \A e \in Entry : wish'[e] # "learned"
      BY <1>9 DEF ClearCheck, ClearUnlink, ClearReturns
    <2>4. UNCHANGED <<task, dic, canceled>>
      BY <1>9 DEF ClearCheck, ClearUnlink
    <2>5. ~canceled /\ main # "gone"
      BY <1>9 DEF ClearCheck, ClearUnlink
    <2>6. QED
      BY <2>1, <2>2, <2>3, <2>4, <2>5
  <1>10. CASE SaveCopy
    <2>1. task # NoTask /\ task.op = "save" /\ dic \in Dic
      BY <1>10, TaskType DEF SaveCopy, TypeOK
    <2>2. CASE task' = NoTask
      BY <1>10, <2>1, <2>2, TaskType DEF SaveCopy
    <2>3. CASE needsSync /\ task' = Task("write", dic)
      <3>1. task' # NoTask /\ task'.op = "write" /\ task'.data = dic
        BY <2>1, <2>3, TaskType
      <3>2. Live(dic, saved) /\ main # "gone"
        BY <2>1, <2>3
      <3>3. UNCHANGED <<dic, needsSync, canceled, file, main, wish, saved>>
        BY <1>10 DEF SaveCopy
      <3>4. QED
        BY <3>1, <3>2, <3>3
    <2>4. QED
      BY <1>10, <2>2, <2>3 DEF SaveCopy
  <1>11. CASE SaveWrite
    <2>1. task # NoTask /\ task.op = "write" /\ task.data \in Dic
      BY <1>11, TaskType DEF SaveWrite, TypeOK
    <2>2. file' = task.data /\ file' # NoFile
      BY <1>11, <2>1, NoFileAssumption DEF SaveWrite
    <2>3. task' # NoTask /\ task'.op = "flag"
      BY <1>11, TaskType DEF SaveWrite
    <2>4. \A e \in saved' : task.data[e] = "live" /\ (e \notin saved => wish[e] = "learned" /\ e \in Entry)
      BY <1>11, <2>1 DEF SaveWrite
    <2>5. UNCHANGED <<dic, needsSync, canceled, main, wish>>
      BY <1>11 DEF SaveWrite
    <2>6. Locked => saved' = {}
      BY <1>11 DEF SaveWrite
    <2>7. Live(dic, saved) => Live(dic, saved')
      BY <2>1, <2>4
    <2>8. QED
      BY <2>1, <2>2, <2>3, <2>4, <2>5, <2>6, <2>7
  <1>12. CASE SaveUnlink
    BY <1>12 DEF SaveUnlink, Writable, Empty, NoTask, TypeOK
  <1>13. CASE SaveFails \/ SaveFlag
    <2>1. task # NoTask /\ task.op \in {"write", "flag"}
      BY <1>13, TaskType DEF SaveFails, SaveFlag
    <2>2. task' = NoTask /\ task'.op = "none"
      BY <1>13, TaskType DEF SaveFails, SaveFlag
    <2>3. UNCHANGED <<dic, canceled, file, main, wish, saved>>
      BY <1>13 DEF SaveFails, SaveFlag
    <2>4. needsSync' = needsSync \/ needsSync' = FALSE
      BY <1>13 DEF SaveFails, SaveFlag
    <2>5. (main = "closing" => needsSync') => (main = "closing" => needsSync)
      BY <2>4
    <2>6. main # "gone" /\ (main = "closing" => needsSync') => Live(dic, saved)
      BY <2>1, <2>5
    <2>7. SavedStays'
      BY <2>3
    <2>8. task'.op \notin {"load", "fill", "write"} /\ main' # "gone"
      BY <2>1, <2>2, <2>3
    <2>9. main' # "gone" /\ (main' = "closing" => needsSync') => Live(dic', saved')
      BY <2>3, <2>6
    <2>10. QED
      BY <2>2, <2>3, <2>7, <2>8, <2>9
  <1>14. CASE LoadRead
    <2>1. task # NoTask /\ file \in Dic
      BY <1>14, TaskType DEF LoadRead, TypeOK
    <2>2. task' # NoTask /\ task'.op = "fill" /\ task'.data = file
      BY <1>14, <2>1, TaskType DEF LoadRead
    <2>3. QED
      BY <1>14, <2>1, <2>2 DEF LoadRead
  <1>15. CASE LoadFails
    BY <1>15 DEF LoadFails, NoTask, TypeOK
  <1>16. CASE LoadFill
    <2>1. PICK S \in SUBSET Entry :
            dic' = [e \in Entry |-> IF e \in S THEN task.data[e] ELSE "absent"]
              /\ (S # Entry => canceled)
      BY <1>16 DEF LoadFill, Fill
    <2>2. /\ task.op = "fill" /\ task # NoTask /\ ~Locked /\ task' = NoTask
          /\ task'.op = "none" /\ needsSync' = FALSE
          /\ UNCHANGED <<canceled, file, main, wish, saved>>
      BY <1>16, TaskType DEF LoadFill
    <2>3. canceled => main \in {"closing", "gone"}
      OBVIOUS
    <2>4. main \notin {"closing", "gone"} => Live(dic', saved)
      <3>1. saved \subseteq Entry
        BY DEF TypeOK
      <3>2. QED
        BY <2>1, <2>2, <2>3, <3>1
    <2>5. SavedStays'
      BY <2>2
    <2>6. QED
      BY <2>2, <2>3, <2>4, <2>5
  <1>17. CASE Start
    BY <1>17 DEF Start, Task, TypeOK
  <1>18. CASE Close
    BY <1>18 DEF Close, TypeOK
  <1>19. CASE CloseSave
    BY <1>19, NoFileAssumption DEF CloseSave, Writable, Empty, NoTask, IsSyncerRunning, TypeOK
  <1>20. CASE Crash
    BY <1>20 DEF Crash, NoTask, TypeOK
  <1>21. CASE UNCHANGED vars
    BY <1>21 DEF vars
  <1>22. CASE ClearContaining
    <2>1. PICK S \in SUBSET Entry :
            /\ dic' = RemoveAll(dic, S)
            /\ wish' = [e \in Entry |-> IF e \in S THEN "removed" ELSE wish[e]]
            /\ saved' = saved \ S
      BY <1>22 DEF ClearContaining, Unwanted
    <2>2. main = "clear entry" /\ main' = "up" /\ UNCHANGED <<canceled, file, task>>
      BY <1>22 DEF ClearContaining
    <2>3. \A e \in Entry : e \notin S => dic'[e] = dic[e] /\ wish'[e] = wish[e]
      BY <2>1 DEF RemoveAll
    <2>4. \A e \in S : wish'[e] = "removed"
      BY <2>1
    <2>5. saved \subseteq Entry
      BY DEF TypeOK
    <2>6. SavedStays'
      BY <2>1, <2>2
    <2>7. task.op \notin {"load", "fill"} => Live(dic', saved')
      BY <2>1, <2>2, <2>3, <2>5
    <2>8. task.op = "write" =>
            \A e \in Entry : wish'[e] = "learned" /\ task.data[e] = "live" => dic'[e] = "live"
      BY <2>3, <2>4
    <2>9. QED
      BY <2>1, <2>2, <2>6, <2>7, <2>8
  <1>23. QED
    BY <1>1, <1>2, <1>3, <1>4, <1>5, <1>6, <1>7, <1>8, <1>9, <1>10, <1>11, <1>12,
       <1>13, <1>14, <1>15, <1>16, <1>17, <1>18, <1>19, <1>20, <1>21, <1>22
       DEF Next, Command, Syncer

\* A saved suggestion stays in the file, whichever way saves, loads, removals,
\* restarts and crashes interleave.
THEOREM SavedCorrect == Spec => []SavedStays
  <1>1. Inv => SavedStays
    BY DEF Inv
  <1>2. QED
    BY <1>1, TypeInit, TypeStep, InvInit, InvStep, PTL DEF Spec

-----------------------------------------------------------------------------
(* What memory and file have in common, stage by stage of the syncer.      *)

\* Two tables are the same but for the entries changed late.
Same(d, f) == \A e \in Entry \ late : d[e] = f[e]

DiskInv ==
    main \notin {"closing", "gone"} =>
      \* Only the syncer's own last step takes the mark away.
      /\ task.op \in {"save", "write", "flag"} => needsSync
      /\ task = NoTask /\ ~needsSync => Same(dic, OnDisk)
      \* What is being written, and has just been written, is what memory holds.
      /\ task.op = "write" => Same(dic, task.data)
      /\ task.op = "flag" => Same(dic, OnDisk)
      \* What replaces memory is what the file holds.
      /\ task.op = "fill" => Same(task.data, OnDisk)
      \* Clear has met the syncer, or will have all to itself.
      /\ Locked => late = Entry \/ task.op = "fill" \/ (task = NoTask /\ needsSync)

LEMMA DiskInit == Init => DiskInv
  BY DEF Init, DiskInv

\* Operations of the main thread that change entries of S: they mark the storage,
\* or note the entries as late while the syncer runs.
LEMMA Changing ==
  ASSUME TypeOK, DiskInv, main \in {"up", "clear entry"},
         NEW S, S \subseteq Entry,
         \A e \in Entry \ S : dic'[e] = dic[e],
         needsSync' \in {needsSync, TRUE},
         late' = IF IsSyncerRunning \/ ~needsSync' THEN late \cup S ELSE late,
         main' \in {"up", "clear entry"},
         UNCHANGED <<file, task>>
  PROVE  DiskInv'
  <1> USE DEF DiskInv, Same, OnDisk, Locked, IsSyncerRunning
  <1>1. late \subseteq late'
    OBVIOUS
  <1>2. task # NoTask => \A e \in Entry \ late' : e \notin late /\ dic'[e] = dic[e]
    OBVIOUS
  <1>3. ~needsSync' => ~needsSync /\ \A e \in Entry \ late' : e \notin late /\ dic'[e] = dic[e]
    OBVIOUS
  <1>4. task.op \in {"write", "flag", "fill"} => task # NoTask
    BY TaskType
  <1>5. QED
    BY <1>1, <1>2, <1>3, <1>4

LEMMA DiskStep == TypeOK /\ Inv /\ DiskInv /\ [Next]_vars => DiskInv'
  <1> SUFFICES ASSUME TypeOK, Inv, DiskInv, [Next]_vars PROVE DiskInv'
    OBVIOUS
  <1> USE TaskType
  <1>1. ASSUME NEW e \in Entry, main = "up", Finish(e) \/ Revert(e) PROVE DiskInv'
    <2>1. task = NoTask /\ task' = NoTask /\ needsSync' = TRUE /\ main' = "up"
      BY <1>1 DEF Finish, Revert, MayLearn, IsSyncerRunning
    <2>2. QED
      BY <2>1 DEF DiskInv, Locked
  <1>2. ASSUME NEW e \in Entry, main = "up",
               AddHistoryEntry(e) \/ CommitContext(e) \/ ClearHistoryEntry(e)
        PROVE DiskInv'
    <2>1. \A x \in Entry \ {e} : dic'[x] = dic[x]
      <3>1. dic \in Dic
        BY DEF TypeOK
      <3>2. CASE dic' = [dic EXCEPT ![e] = "live"]
        BY <3>1, <3>2 DEF Dic
      <3>3. CASE dic' = RemoveAll(dic, {e})
        BY <3>3 DEF RemoveAll
      <3>4. QED
        BY <1>2, <3>2, <3>3 DEF AddHistoryEntry, CommitContext, ClearHistoryEntry
    <2>2. /\ needsSync' = TRUE
          /\ late' = IF IsSyncerRunning THEN late \cup {e} ELSE late
          /\ main' \in {"up", "clear entry"}
          /\ UNCHANGED <<file, task>>
      BY <1>2 DEF AddHistoryEntry, CommitContext, ClearHistoryEntry, ChangedLate
    <2>3. late' = IF IsSyncerRunning \/ ~needsSync' THEN late \cup {e} ELSE late
      BY <2>2
    <2>4. {e} \subseteq Entry /\ needsSync' \in {needsSync, TRUE} /\ main \in {"up", "clear entry"}
      BY <1>2, <2>2
    <2> DEFINE S == {e}
    <2>5. /\ S \subseteq Entry /\ \A x \in Entry \ S : dic'[x] = dic[x]
          /\ late' = IF IsSyncerRunning \/ ~needsSync' THEN late \cup S ELSE late
      BY <2>1, <2>3, <2>4
    <2> HIDE DEF S
    <2>6. QED
      BY <2>2, <2>4, <2>5, Changing
  <1>3. CASE ClearContaining
    <2>1. PICK S \in SUBSET Entry :
            /\ dic' = RemoveAll(dic, S)
            /\ needsSync' \in {needsSync, TRUE}
            /\ late' = IF IsSyncerRunning \/ ~needsSync' THEN late \cup S ELSE late
      BY <1>3 DEF ClearContaining
    <2>2. \A e \in Entry \ S : dic'[e] = dic[e]
      BY <2>1 DEF RemoveAll
    <2>3. main = "clear entry" /\ main' = "up" /\ UNCHANGED <<file, task>>
      BY <1>3 DEF ClearContaining
    <2>4. QED
      BY <2>1, <2>2, <2>3, Changing
  <1>4. CASE main = "up" /\ Sync
    <2>1. CASE needsSync /\ task = NoTask
      <3>1. task' = Task("save", NoFile) /\ needsSync' /\ main' = "up"
        BY <1>4, <2>1 DEF Sync, AsyncSave, IsSyncerRunning
      <3>2. task'.op = "save" /\ task' # NoTask
        BY <3>1
      <3>3. QED
        BY <3>1, <3>2 DEF DiskInv, Locked
    <2>2. CASE ~(needsSync /\ task = NoTask)
      BY <1>4, <2>2 DEF Sync, AsyncSave, IsSyncerRunning, DiskInv, Same, OnDisk, Locked
    <2>3. QED
      BY <2>1, <2>2
  <1>5. CASE main = "up" /\ ClearUnusedHistory
    <2> DEFINE unused == {e \in Entry : dic[e] = "removed"}
    <2>1. /\ \A e \in Entry \ unused : dic'[e] = dic[e]
          /\ needsSync' = (needsSync \/ unused # {})
          /\ late' = IF IsSyncerRunning THEN late \cup unused ELSE late
          /\ task' = IF needsSync' /\ ~IsSyncerRunning THEN Task("save", NoFile) ELSE task
          /\ main' = "up" /\ file' = file
      BY <1>5 DEF ClearUnusedHistory, ChangedLate, AsyncSave
    <2>2. CASE needsSync' /\ ~IsSyncerRunning
      <3>1. task'.op = "save" /\ task' # NoTask
        BY <2>1, <2>2
      <3>2. QED
        BY <2>1, <2>2, <3>1 DEF DiskInv, Locked
    <2>3. CASE IsSyncerRunning
      <3>1. needsSync' \in {needsSync, TRUE}
        BY <2>1 DEF TypeOK
      <3>2. unused \subseteq Entry /\ task' = task
        BY <2>1, <2>3
      <3>3. QED
        BY <1>5, <2>1, <2>3, <3>1, <3>2, Changing
    <2>4. CASE ~needsSync' /\ ~IsSyncerRunning
      <3>1. unused = {} /\ ~needsSync /\ late' = late /\ task' = task
        BY <2>1, <2>4 DEF TypeOK
      <3>2. \A e \in Entry : dic'[e] = dic[e]
        BY <2>1, <3>1
      <3>3. QED
        BY <1>5, <2>1, <3>1, <3>2, <2>4 DEF DiskInv, Same, OnDisk, Locked
    <2>5. QED
      BY <2>2, <2>3, <2>4
  <1>6. CASE main = "up" /\ Reload
    <2>1. task' = Task("load", NoFile) /\ main' = "up"
      BY <1>6 DEF Reload
    <2>2. task'.op = "load" /\ task' # NoTask
      BY <2>1
    <2>3. QED
      BY <2>1, <2>2 DEF DiskInv, Locked
  <1>7. CASE main = "up" /\ Clear
    <2>1. /\ needsSync' = TRUE /\ task' = task
          /\ late' = IF IsSyncerRunning THEN late \cup Entry ELSE late
      BY <1>7 DEF Clear, ChangedLate
    <2>2. task # NoTask => late' = Entry
      <3>1. late \subseteq Entry
        BY DEF TypeOK
      <3>2. QED
        BY <2>1, <3>1 DEF IsSyncerRunning
    <2>3. QED
      BY <2>1, <2>2 DEF DiskInv, Same, Locked
  <1>8. CASE ClearCheck \/ ClearUnlink
    <2>1. /\ main \in {"clear check", "clear unlink"}
          /\ UNCHANGED <<dic, needsSync, task>>
          /\ late' \in {late, late \cup Entry}
          /\ main' \in {"up", "clear unlink"}
          /\ file' # file \/ main' = "up" =>
                late' = IF IsSyncerRunning THEN late \cup Entry ELSE late
          /\ main' = "clear unlink" => late' = late /\ file' = file
      BY <1>8 DEF ClearCheck, ClearUnlink, ClearReturns, ChangedLate
    <2>2. late \cup Entry = Entry
      BY DEF TypeOK
    <2>3. CASE late' = Entry
      BY <2>1, <2>3 DEF DiskInv, Same, Locked
    <2>4. CASE task = NoTask /\ needsSync
      BY <2>1, <2>4 DEF DiskInv, Locked
    <2>5. CASE task.op = "fill" /\ late' # Entry
      <3>1. task # NoTask
        BY <2>5
      <3>2. late' = late /\ file' = file /\ main' = "clear unlink"
        BY <2>1, <2>2, <2>5, <3>1 DEF IsSyncerRunning
      <3>3. main \notin {"closing", "gone"} /\ task' = task /\ dic' = dic /\ OnDisk' = OnDisk
        BY <2>1, <3>2 DEF OnDisk
      <3>4. Same(task.data, OnDisk)
        BY <2>1, <2>5 DEF DiskInv
      <3>5. Same(task.data, OnDisk)'
        BY <3>2, <3>3, <3>4 DEF Same
      <3> HIDE TaskType
      <3>6. QED
        BY <2>5, <3>1, <3>3, <3>5 DEF DiskInv
    <2>6. (task = NoTask /\ needsSync) \/ task.op = "fill" \/ late = Entry
      BY <2>1 DEF DiskInv, Locked
    <2>7. late = Entry => late' = Entry
      BY <2>1, <2>2
    <2>8. QED
      BY <2>3, <2>4, <2>5, <2>6, <2>7
  <1>9. CASE SaveCopy
    <2>1. task # NoTask /\ task.op = "save" /\ UNCHANGED <<dic, needsSync, file, main>>
      BY <1>9 DEF SaveCopy
    <2>2. CASE main \in {"closing", "gone"}
      BY <2>1, <2>2 DEF DiskInv
    <2>3. CASE main \notin {"closing", "gone"}
      <3>1. needsSync /\ ~Locked /\ task' = Task("write", dic)
        BY <1>9, <2>1, <2>3 DEF SaveCopy, DiskInv
      <3>2. task'.op = "write" /\ task'.data = dic /\ task' # NoTask
        BY <3>1 DEF TypeOK
      <3>3. QED
        BY <2>1, <3>1, <3>2 DEF DiskInv, Same, Locked
    <2>4. QED
      BY <2>2, <2>3
  <1>10. CASE SaveWrite
    <2>1. task # NoTask /\ task.op = "write" /\ task.data \in Dic
      BY <1>10 DEF SaveWrite, TypeOK
    <2>2. file' = task.data /\ file' # NoFile /\ UNCHANGED <<dic, needsSync, main, late>>
      BY <1>10, <2>1, NoFileAssumption DEF SaveWrite
    <2>3. task' # NoTask /\ task'.op = "flag"
      BY <1>10 DEF SaveWrite
    <2>4. QED
      BY <2>1, <2>2, <2>3 DEF DiskInv, Same, OnDisk, Locked
  <1>11. CASE SaveUnlink \/ SaveFails
    <2>1. task # NoTask /\ task.op = "write" /\ task' = NoTask /\ task'.op = "none"
      BY <1>11 DEF SaveUnlink, SaveFails
    <2>2. UNCHANGED <<dic, needsSync, main, late>>
      BY <1>11 DEF SaveUnlink, SaveFails
    <2>3. QED
      BY <2>1, <2>2 DEF DiskInv, Locked
  <1>12. CASE SaveFlag
    <2>1. task # NoTask /\ task.op = "flag" /\ task' = NoTask /\ task'.op = "none"
      BY <1>12 DEF SaveFlag
    <2>2. UNCHANGED <<dic, file, main, late>>
      BY <1>12 DEF SaveFlag
    <2>3. OnDisk' = OnDisk /\ late' = late /\ dic' = dic /\ main' = main
      BY <2>2 DEF OnDisk
    <2>4. main \notin {"closing", "gone"} => Same(dic, OnDisk)'
      BY <2>1, <2>3 DEF DiskInv, Same
    <2>5. Locked => late' = Entry
      BY <2>1, <2>3 DEF DiskInv, Locked
    <2> HIDE TaskType
    <2>6. QED
      BY <2>1, <2>3, <2>4, <2>5 DEF DiskInv, Locked
  <1>13. CASE LoadRead
    <2>1. file \in Dic /\ OnDisk = file
      BY <1>13 DEF LoadRead, TypeOK, OnDisk
    <2>2. task' # NoTask /\ task'.op = "fill" /\ task'.data = file /\ file' = file
      BY <1>13, <2>1 DEF LoadRead
    <2>3. OnDisk' = file
      BY <2>1, <2>2 DEF OnDisk
    <2>4. QED
      BY <2>2, <2>3 DEF DiskInv, Same, Locked
  <1>14. CASE LoadFails
    <2>1. late' = Entry /\ task' = NoTask /\ task'.op = "none"
      BY <1>14 DEF LoadFails
    <2>2. QED
      BY <2>1 DEF DiskInv, Same, Locked
  <1>15. CASE LoadFill
    <2>1. /\ task.op = "fill" /\ task # NoTask /\ task.data \in Dic
          /\ task' = NoTask /\ task'.op = "none"
          /\ UNCHANGED <<canceled, file, main, late>>
          /\ ~Locked
      BY <1>15 DEF LoadFill, TypeOK
    <2>2. CASE main \in {"closing", "gone"}
      BY <2>1, <2>2 DEF DiskInv
    <2>3. CASE main \notin {"closing", "gone"}
      <3>1. ~canceled
        BY <2>3 DEF Inv
      <3>2. \A e \in Entry : dic'[e] = task.data[e]
        BY <1>15, <3>1 DEF LoadFill, Fill
      <3>3. Same(task.data, OnDisk)
        BY <2>1, <2>3 DEF DiskInv
      <3>4. Same(dic, OnDisk)'
        BY <2>1, <3>2, <3>3 DEF Same, OnDisk
      <3>5. ~Locked'
        BY <2>1 DEF Locked
      <3>6. QED
        BY <2>1, <3>4, <3>5 DEF DiskInv
    <2>4. QED
      BY <2>2, <2>3
  <1>16. CASE Start
    <2>1. task' = Task("load", NoFile) /\ main' = "up"
      BY <1>16 DEF Start
    <2>2. task'.op = "load" /\ task' # NoTask
      BY <2>1
    <2>3. QED
      BY <2>1, <2>2 DEF DiskInv, Locked
  <1>17. CASE Close \/ CloseSave \/ Crash
    BY <1>17 DEF Close, CloseSave, Crash, DiskInv
  <1>18. CASE UNCHANGED vars
    <2>1. UNCHANGED <<dic, file, task, needsSync, late, main>>
      BY <1>18 DEF vars
    <2>2. Locked' = Locked /\ OnDisk' = OnDisk
      BY <2>1 DEF Locked, OnDisk
    <2>3. QED
      BY <2>1, <2>2, Zenon DEF DiskInv, Same
  <1>19. QED
    BY <1>1, <1>2, <1>3, <1>4, <1>5, <1>6, <1>7, <1>8, <1>9, <1>10, <1>11, <1>12,
       <1>13, <1>14, <1>15, <1>16, <1>17, <1>18 DEF Next, Command, Syncer

\* An idle syncer and no mark mean that memory and file agree, but for the entries
\* that were changed late: no save of an older copy, no load and no Clear that cuts
\* in makes them differ.
THEOREM DiskCorrect == Spec => []DiskAgrees
  <1>1. DiskInv => DiskAgrees
    BY DEF DiskInv, DiskAgrees, Same, IsSyncerRunning
  <1>2. QED
    BY <1>1, TypeInit, TypeStep, InvInit, InvStep, DiskInit, DiskStep, PTL DEF Spec

=============================================================================
