------------------------- MODULE UserDictionary_proofs -------------------------
(***************************************************************************)
(* Proofs about UserDictionary, for every number of windows and words and  *)
(* any bound: its types; who holds the lock loses no word that was saved;  *)
(* the converter notices a file that is newer than what it knows.          *)
(***************************************************************************)
EXTENDS UserDictionary, FiniteSetTheorems, TLAPS

-----------------------------------------------------------------------------
(* The converter.                                                          *)

\* What ThreadMain has read is the file, unless the file has another time by now.
LoadedInv ==
    reload = "set" /\ "second" \notin excuse /\ loaded # file.words =>
        modified # file.time

NoticeInv == StaleIsNoticed /\ LoadedInv

\* A save leaves a time other than the one noted, or an excuse.
LEMMA WrittenNotices ==
  ASSUME NEW a, Written(a), NoticeInv
  PROVE  NoticeInv'
  <1>1. file'.words = proto[a] /\ file'.time = clock
    BY DEF Written
  <1>2. modified = clock => "second" \in excuse'
    BY DEF Written
  <1>3. modified' = modified
    BY DEF Written
  <1>4. QED
    BY <1>1, <1>2, <1>3 DEF NoticeInv, StaleIsNoticed, LoadedInv

LEMMA SaveNotices ==
  ASSUME NEW a, Save(a), NoticeInv
  PROVE  NoticeInv'
  <1>1. CASE Written(a)
    BY <1>1, WrittenNotices
  <1>2. CASE NotWritten
    BY <1>2 DEF NotWritten, storageVars, converterVars, NoticeInv, StaleIsNoticed, LoadedInv
  <1>3. QED
    BY <1>1, <1>2 DEF Save

\* Nothing else changes the file, or the converter.
LEMMA SameNotices ==
  ASSUME NoticeInv, UNCHANGED file, UNCHANGED converterVars
  PROVE  NoticeInv'
  BY DEF converterVars, NoticeInv, StaleIsNoticed, LoadedInv

LEMMA NoticeStep ==
  ASSUME NoticeInv, [Next]_vars
  PROVE  NoticeInv'
  <1> USE DEF storageVars
  <1>1. ASSUME NEW a \in Actor,
               Open(a) \/ Locked(a) \/ NotLocked(a) \/ Unlock(a) \/ Unlink(a)
        PROVE  NoticeInv'
    <2>1. UNCHANGED file /\ UNCHANGED converterVars
      BY <1>1 DEF Open, Locked, NotLocked, Unlock, Unlink, Forget, Hold
    <2>2. QED
      BY <2>1, SameNotices
  <1>2. ASSUME NEW a \in Window, OpenWindow(a) \/ SyncReturns(a)
        PROVE  NoticeInv'
    <2>1. UNCHANGED file /\ UNCHANGED converterVars
      BY <1>2 DEF OpenWindow, SyncReturns, Load, Read, Hold
    <2>2. QED
      BY <2>1, SameNotices
  <1>3. ASSUME NEW a \in Window, SaveWindow(a) \/ CloseWindow(a)
        PROVE  NoticeInv'
    <2>1. CASE Save(a)
      BY <2>1, SaveNotices
    <2>2. CASE NotWritten
      BY <2>2, SameNotices DEF NotWritten
    <2>3. QED
      BY <1>3, <2>1, <2>2 DEF SaveWindow, CloseWindow
  <1>4. ASSUME NEW a \in Window, SyncNow(a)
        PROVE  NoticeInv'
    BY <1>4, WrittenNotices DEF SyncNow
  <1>5. ASSUME NEW a \in Window, NEW w \in Word, AddWord(a, w) \/ DeleteWord(a, w)
        PROVE  NoticeInv'
    BY <1>5, SameNotices DEF AddWord, DeleteWord
  <1>6. ASSUME StartSync \/ (\E tsv \in SUBSET Word : ImportTsv(tsv))
        PROVE  NoticeInv'
    BY <1>6, SameNotices DEF StartSync, ImportTsv
  <1>7. ASSUME NEW a \in {Sync, Importer}, SaveImport(a)
        PROVE  NoticeInv'
    BY <1>7, SaveNotices DEF SaveImport
  <1>8. ASSUME \/ \E data \in SUBSET ImportWord : Import(data)
               \/ ImportLoop \/ ImportThreadEnds \/ Tick
        PROVE  NoticeInv'
    <2>1. UNCHANGED file /\ UNCHANGED converterVars
      BY <1>8 DEF Import, ImportLoop, ImportThreadEnds, Tick, Load, Read, Hold
    <2>2. QED
      BY <2>1, SameNotices
  <1>9. ASSUME ShowImport
        PROVE  NoticeInv'
    <2>1. "ahead" \in excuse' /\ ("second" \in excuse' <=> "second" \in excuse)
      BY <1>9 DEF ShowImport
    <2>2. UNCHANGED <<file, reload, loaded, modified>>
      BY <1>9 DEF ShowImport
    <2>3. QED
      BY <2>1, <2>2 DEF NoticeInv, StaleIsNoticed, LoadedInv
  <1>10. ASSUME Reload
         PROVE  NoticeInv'
    BY <1>10 DEF Reload, MaybeStartReload, NoticeInv, StaleIsNoticed, LoadedInv
  <1>11. ASSUME ReadFile
         PROVE  NoticeInv'
    <2>1. CASE reload' = "set"
      BY <1>11, <2>1 DEF ReadFile, NoticeInv, StaleIsNoticed, LoadedInv
    <2>2. CASE reload' = "idle"
      BY <1>11, <2>2 DEF ReadFile, NoticeInv, StaleIsNoticed, LoadedInv
    <2>3. QED
      BY <1>11, <2>1, <2>2 DEF ReadFile
  <1>12. ASSUME SetTokens
         PROVE  NoticeInv'
    BY <1>12 DEF SetTokens, NoticeInv, StaleIsNoticed, LoadedInv
  <1>13. ASSUME (\E a \in Window \cup {Sync} : Crash(a))
         PROVE  NoticeInv'
    BY <1>13, SameNotices DEF Crash, Forget, Hold
  <1>14. ASSUME Restart
         PROVE  NoticeInv'
    BY <1>14 DEF Restart, Forget, Hold, NoticeInv, StaleIsNoticed, LoadedInv
  <1>15. ASSUME UNCHANGED vars
         PROVE  NoticeInv'
    BY <1>15, SameNotices DEF vars
  <1>16. QED
    BY <1>1, <1>2, <1>3, <1>4, <1>5, <1>6, <1>7, <1>8, <1>9, <1>10, <1>11, <1>12,
       <1>13, <1>14, <1>15 DEF Next

\* A converter that is not loading and has no excuse either knows the file or
\* will load it at the next RELOAD.
THEOREM NoticeCorrect == Spec => []StaleIsNoticed
  <1>1. Init => NoticeInv
    BY DEF Init, NoticeInv, StaleIsNoticed, LoadedInv
  <1>2. NoticeInv /\ [Next]_vars => NoticeInv'
    BY NoticeStep
  <1>3. NoticeInv => StaleIsNoticed
    BY DEF NoticeInv
  <1>4. QED
    BY <1>1, <1>2, <1>3, PTL DEF Spec

-----------------------------------------------------------------------------
(* The writers.                                                            *)

Shapes ==
    /\ proto = [a \in Actor |-> proto[a]]
    /\ missed = [a \in Actor |-> missed[a]]
    /\ removed = [a \in Actor |-> removed[a]]
    /\ pc = [a \in Actor |-> pc[a]]
    /\ locked \in [Actor -> BOOLEAN]
    /\ overlap \in BOOLEAN

\* What a has in memory covers the file, unless a could not read it.
Covers(a) ==
    a \notin blind =>
        file.words \subseteq proto[a] \cup removed[a] \cup (IF a = Sync THEN {} ELSE missed[a])

\* Who has loaded: the sync process has not while it waits for the lock.
Loaded(a) ==
    \/ Waiting(a) /\ a # Sync
    \/ pc[a] = "ready" /\ locked[a]
    \/ pc[a] = "release"

\* Nobody is locked on the way to the lock, and nobody gives back what he has not.
LockedWhere ==
    \A a \in Actor :
        /\ Waiting(a) => ~locked[a]
        /\ pc[a] \in {"off", "unlink", "ending"} => ~locked[a]
        /\ pc[a] = "load" /\ a = Importer => ~locked[a]
        /\ pc[a] = "release" => locked[a]

AllCover == \A a \in Actor : Loaded(a) => Covers(a)

SeesInv == ~overlap => Exclusive /\ AllCover

WriterInv == Shapes /\ LockedWhere /\ SeesInv

LEMMA Actors == Sync \in Actor /\ Importer \in Actor /\ Window \subseteq Actor
                  /\ Sync \notin Window /\ Importer \notin Window /\ Sync # Importer
  BY DictionaryAssumption

\* What a save does to those who have loaded.
LEMMA WrittenCovers ==
  ASSUME WriterInv, NEW a \in Actor, Written(a), locked[a], pc[a] = "ready",
         NEW step \in {"ready", "close", "release"},
         pc' = [pc EXCEPT ![a] = step], UNCHANGED mutexVars
  PROVE  WriterInv'
  <1>1. Shapes'
    BY DEF WriterInv, Shapes, Written, mutexVars
  <1>2. LockedWhere'
    BY DEF WriterInv, Shapes, LockedWhere, Waiting, mutexVars
  <1>3. ASSUME ~overlap, NEW b \in Actor, Loaded(b)'
        PROVE  Covers(b)'
    <2>1. CASE b = a
      BY <2>1 DEF WriterInv, Shapes, Written, Covers
    <2>2. CASE b # a
      <3>1. pc'[b] = pc[b] /\ ~locked[b] /\ ~locked'[b]
        BY <1>3, <2>2 DEF WriterInv, Shapes, SeesInv, Exclusive, mutexVars
      <3>2. Waiting(b)
        BY <1>3, <3>1 DEF Loaded, Waiting, WriterInv, LockedWhere
      <3>3. missed'[b] = missed[b] \cup (proto[a] \ proto[b])
        BY <2>2, <3>2 DEF Written
      <3>4. file'.words = proto[a] /\ proto' = proto /\ removed' = removed
        BY DEF Written
      <3>5. b # Sync
        BY <1>3, <3>1 DEF Loaded, WriterInv, LockedWhere
      <3>6. QED
        BY <3>3, <3>4, <3>5 DEF Covers
    <2>3. QED
      BY <2>1, <2>2
  <1>4. SeesInv'
    BY <1>3 DEF WriterInv, SeesInv, Exclusive, AllCover, mutexVars
  <1>5. QED
    BY <1>1, <1>2, <1>4 DEF WriterInv

\* A step that leaves lock, file and memory, and takes nobody to where more is
\* asked of him.
LEMMA SameCovers ==
  ASSUME WriterInv, NEW a \in Actor, NEW step,
         \/ step \in {"ready", "close"} /\ pc[a] = "ready"
         \/ step = "load" /\ ~locked[a],
         pc' = [pc EXCEPT ![a] = step],
         UNCHANGED mutexVars, UNCHANGED storageVars
  PROVE  WriterInv'
  BY DEF WriterInv, Shapes, LockedWhere, SeesInv, Exclusive, AllCover, Loaded, Covers,
         Waiting, mutexVars, storageVars

LEMMA SaveCovers ==
  ASSUME WriterInv, NEW a \in Actor, Save(a), pc[a] = "ready",
         NEW step \in {"ready", "close"},
         pc' = [pc EXCEPT ![a] = step], UNCHANGED mutexVars
  PROVE  WriterInv'
  <1>1. CASE locked[a] /\ Written(a)
    BY <1>1, WrittenCovers
  <1>2. CASE NotWritten
    BY <1>2, SameCovers DEF NotWritten
  <1>3. QED
    BY <1>1, <1>2 DEF Save

\* Nothing about the writers changes.
LEMMA SameWriters ==
  ASSUME WriterInv, UNCHANGED mutexVars, UNCHANGED storageVars, UNCHANGED pc
  PROVE  WriterInv'
  BY DEF WriterInv, Shapes, LockedWhere, SeesInv, Exclusive, AllCover, Loaded, Covers,
         Waiting, mutexVars, storageVars

LEMMA WriterStep ==
  ASSUME WriterInv, [Next]_vars
  PROVE  WriterInv'
  <1> USE DEF Goto, At
  <1>1. ASSUME NEW a \in Actor, Open(a)
        PROVE  WriterInv'
    BY <1>1 DEF Open, OpenLockFile, storageVars, WriterInv, Shapes, LockedWhere, SeesInv,
         Exclusive, AllCover, Loaded, Covers, Waiting
  <1>2. ASSUME NEW a \in Actor, Locked(a)
        PROVE  WriterInv'
    <2>1. Shapes' /\ LockedWhere'
      BY <1>2, Actors DEF Locked, LockSucceeds, storageVars, WriterInv, Shapes, LockedWhere, Waiting
    <2>2. SeesInv'
      BY <1>2 DEF Locked, LockSucceeds, storageVars, WriterInv, Shapes, LockedWhere, SeesInv,
         Exclusive, AllCover, Loaded, Covers, Waiting
    <2>3. QED
      BY <2>1, <2>2 DEF WriterInv
  <1>3. ASSUME NEW a \in Actor, NotLocked(a)
        PROVE  WriterInv'
    BY <1>3 DEF NotLocked, LockFails, Forget, Hold, storageVars, WriterInv, Shapes, LockedWhere,
         SeesInv, Exclusive, AllCover, Loaded, Covers, Waiting
  <1>4. ASSUME NEW a \in Actor, Unlock(a)
        PROVE  WriterInv'
    <2>1. Shapes' /\ LockedWhere'
      BY <1>4 DEF Unlock, CloseLockFile, Ended, Forget, Hold, storageVars, WriterInv, Shapes,
         LockedWhere, Waiting
    <2>2. SeesInv'
      BY <1>4, Actors DEF Unlock, CloseLockFile, Ended, Forget, Hold, storageVars, WriterInv, Shapes,
         LockedWhere, SeesInv, Exclusive, AllCover, Loaded, Covers, Waiting
    <2>3. QED
      BY <2>1, <2>2 DEF WriterInv
  <1>5. ASSUME NEW a \in Actor, Unlink(a)
        PROVE  WriterInv'
    BY <1>5 DEF Unlink, UnlinkLockFile, Ended, storageVars, WriterInv, Shapes, LockedWhere,
         SeesInv, Exclusive, AllCover, Loaded, Covers, Waiting
  <1>6. ASSUME NEW a \in Window, OpenWindow(a) \/ SyncReturns(a)
        PROVE  WriterInv'
    BY <1>6, Actors DEF OpenWindow, SyncReturns, Load, Read, Hold, storageVars, mutexVars, WriterInv,
         Shapes, LockedWhere, SeesInv, Exclusive, AllCover, Loaded, Covers, Waiting
  <1>7. ASSUME NEW a \in Window, SaveWindow(a)
        PROVE  WriterInv'
    <2>1. a \in Actor /\ pc' = [pc EXCEPT ![a] = "ready"]
      BY <1>7, Actors DEF SaveWindow, WriterInv, Shapes
    <2>2. QED
      BY <1>7, <2>1, SaveCovers DEF SaveWindow
  <1>8. ASSUME NEW a \in Window, CloseWindow(a)
        PROVE  WriterInv'
    <2>1. CASE Save(a)
      BY <1>8, <2>1, Actors, SaveCovers DEF CloseWindow
    <2>2. CASE NotWritten
      BY <1>8, <2>2, Actors, SameCovers DEF CloseWindow, NotWritten
    <2>3. QED
      BY <1>8, <2>1, <2>2 DEF CloseWindow
  <1>9. ASSUME NEW a \in Window, SyncNow(a)
        PROVE  WriterInv'
    BY <1>9, Actors, WrittenCovers DEF SyncNow
  <1>10. ASSUME NEW a \in Window, NEW w \in Word, AddWord(a, w) \/ DeleteWord(a, w)
         PROVE  WriterInv'
    <2>1. /\ UNCHANGED <<mutexVars, file, missed, blind, pc>>
          /\ \/ /\ proto' = [proto EXCEPT ![a] = @ \cup {w}]
                /\ removed' = [removed EXCEPT ![a] = @ \ {w}]
             \/ /\ proto' = [proto EXCEPT ![a] = @ \ {w}]
                /\ removed' = [removed EXCEPT ![a] = @ \cup {w}]
      BY <1>10 DEF AddWord, DeleteWord
    <2>2. Shapes' /\ LockedWhere'
      BY <2>1 DEF mutexVars, WriterInv, Shapes, LockedWhere, Waiting
    <2>3. \A b \in Actor : proto[b] \cup removed[b] \subseteq proto'[b] \cup removed'[b]
      BY <2>1 DEF WriterInv, Shapes
    <2>4. SeesInv'
      BY <2>1, <2>3 DEF mutexVars, WriterInv, SeesInv, Exclusive, AllCover, Loaded, Covers, Waiting
    <2>5. QED
      BY <2>2, <2>4 DEF WriterInv
  <1>11. ASSUME StartSync
         PROVE  WriterInv'
    BY <1>11, Actors DEF StartSync, storageVars, mutexVars, WriterInv, Shapes, LockedWhere,
         SeesInv, Exclusive, AllCover, Loaded, Covers, Waiting
  <1>12. ASSUME NEW tsv \in SUBSET Word, ImportTsv(tsv)
         PROVE  WriterInv'
    BY <1>12, Actors DEF ImportTsv, mutexVars, WriterInv, Shapes, LockedWhere,
         SeesInv, Exclusive, AllCover, Loaded, Covers, Waiting
  <1>13. ASSUME NEW a \in {Sync, Importer}, SaveImport(a)
         PROVE  WriterInv'
    BY <1>13, Actors, SaveCovers DEF SaveImport
  <1>14. ASSUME NEW data \in SUBSET ImportWord, Import(data)
         PROVE  WriterInv'
    <2>1. CASE UNCHANGED pc
      BY <1>14, <2>1, SameWriters DEF Import
    <2>2. CASE pc[Importer] = "off" /\ pc' = [pc EXCEPT ![Importer] = "load"]
      BY <1>14, <2>2, Actors, SameCovers DEF Import, WriterInv, LockedWhere
    <2>3. QED
      BY <1>14, <2>1, <2>2 DEF Import
  <1>15. ASSUME ImportLoop
         PROVE  WriterInv'
    BY <1>15, Actors DEF ImportLoop, Load, Read, Hold, storageVars, mutexVars, WriterInv, Shapes,
         LockedWhere, SeesInv, Exclusive, AllCover, Loaded, Covers, Waiting
  <1>16. ASSUME ShowImport
         PROVE  WriterInv'
    BY <1>16, Actors DEF ShowImport, mutexVars, WriterInv, Shapes, LockedWhere,
         SeesInv, Exclusive, AllCover, Loaded, Covers, Waiting
  <1>17. ASSUME ImportThreadEnds
         PROVE  WriterInv'
    BY <1>17, Actors DEF ImportThreadEnds, storageVars, mutexVars, WriterInv, Shapes,
         LockedWhere, SeesInv, Exclusive, AllCover, Loaded, Covers, Waiting
  <1>18. ASSUME Reload \/ ReadFile \/ SetTokens \/ Tick \/ UNCHANGED vars
         PROVE  WriterInv'
    BY <1>18, SameWriters DEF Reload, ReadFile, SetTokens, Tick, vars
  <1>19. ASSUME NEW a \in Window \cup {Sync}, Crash(a)
         PROVE  WriterInv'
    BY <1>19, Actors DEF Crash, CloseLockFile, Forget, Hold, WriterInv, Shapes, LockedWhere,
         SeesInv, Exclusive, AllCover, Loaded, Covers, Waiting
  <1>20. ASSUME Restart
         PROVE  WriterInv'
    BY <1>20, Actors DEF Restart, CloseLockFile, Forget, Hold, WriterInv, Shapes, LockedWhere,
         SeesInv, Exclusive, AllCover, Loaded, Covers, Waiting
  <1>21. QED
    BY <1>1, <1>2, <1>3, <1>4, <1>5, <1>6, <1>7, <1>8, <1>9, <1>10, <1>11, <1>12, <1>13,
       <1>14, <1>15, <1>16, <1>17, <1>18, <1>19, <1>20 DEF Next

\* As long as no two processes have the lock at once, who has it and could read
\* the file saves every word that the file holds, unless his user has deleted it,
\* or others saved it after he had loaded and before he had locked; the import of a
\* synchronisation, which loads under the lock, saves even those.
THEOREM SeesCorrect == Spec => []LockedSeesAll
  <1>1. Init => WriterInv
    BY DEF Init, MutexInit, WriterInv, Shapes, LockedWhere, SeesInv, Exclusive, AllCover,
       Loaded, Waiting
  <1>2. WriterInv /\ [Next]_vars => WriterInv'
    BY WriterStep
  <1>3. WriterInv => LockedSeesAll
    BY DEF WriterInv, SeesInv, AllCover, Loaded, Covers, LockedSeesAll
  <1>4. QED
    BY <1>1, <1>2, <1>3, PTL DEF Spec

-----------------------------------------------------------------------------
(* Types.                                                                  *)

StorageType ==
    /\ file \in [words : SUBSET Word, time : Times]
    /\ proto \in [Actor -> SUBSET Word]
    /\ missed \in [Actor -> SUBSET Word]
    /\ blind \subseteq Actor
    /\ removed \in [Actor -> SUBSET Word]

ConverterType ==
    /\ reload \in {"idle", "load", "set"}
    /\ loaded \in SUBSET Word
    /\ modified \in Times
    /\ tokens \in SUBSET Word
    /\ excuse \subseteq Excuses

RestType ==
    /\ clock \in Times
    /\ pc \in [Actor -> Steps]
    /\ faults \in 0 .. MaxFaults
    /\ uses \in 0 .. MaxUses

QueueType == queue \in {None} \cup SUBSET ImportWord

\* The importer takes something out of the queue only when something is there.
PopHasData == pc[Importer] = "pop" => queue # None

\* Who is locked, or asks for the lock, has a lock file open.
LockPlace ==
    \A a \in Actor :
        /\ locked[a] => fd[a] # NoFile /\ pc[a] \in {"load", "ready", "close", "release"}
        /\ pc[a] \in {"lock", "relock"} => fd[a] # NoFile

TypeInv ==
    /\ MutexTypeOK /\ StorageType /\ ConverterType /\ RestType
    /\ QueueType /\ PopHasData /\ LockPlace

\* There is one inode more than there are processes: an open finds one.
LEMMA UnusedExists ==
  ASSUME MutexTypeOK, path = NoFile
  PROVE  Unused \in Inode
  <1> DEFINE n == Cardinality(Actor)
             P(i) == i # path /\ \A a \in Actor : fd[a] # i
  <1>1. n \in Nat /\ IsFiniteSet(Actor)
    BY ActorAssumption, FS_CardinalityType
  <1>2. IsFiniteSet(Inode) /\ Cardinality(Inode) = n + 1
    BY <1>1, FS_Interval DEF Inode
  <1>3. \A i \in Inode : i # path
    BY <1>1 DEF Inode, NoFile
  <1>4. \E i \in Inode : P(i)
    <2>1. SUFFICES ASSUME \A i \in Inode : \E a \in Actor : fd[a] = i
                   PROVE  FALSE
      BY <1>3
    <2> DEFINE f == [i \in Inode |-> CHOOSE a \in Actor : fd[a] = i]
    <2>2. \A i \in Inode : f[i] \in Actor /\ fd[f[i]] = i
      BY <2>1
    <2>3. f \in [Inode -> Actor]
      BY <2>2
    <2>4. n < n + 1
      BY <1>1
    <2> HIDE DEF f, n
    <2>5. Cardinality(Actor) < Cardinality(Inode)
      BY <1>2, <2>4 DEF n
    <2>6. PICK x \in Inode, y \in Inode : x # y /\ f[x] = f[y]
      BY <1>1, <1>2, <2>3, <2>5, FS_PigeonHole
    <2>7. QED
      BY <2>2, <2>6
  <1>5. Unused = CHOOSE i \in Inode : P(i)
    BY DEF Unused
  <1> HIDE DEF P
  <1>6. QED
    BY <1>4, <1>5

LEMMA MutexStep ==
  ASSUME MutexTypeOK, [Next]_vars
  PROVE  MutexTypeOK'
  <1>1. ASSUME NEW a \in Actor, OpenLockFile(a)
        PROVE  MutexTypeOK'
    <2>1. path' \in Inode
      BY <1>1, UnusedExists DEF OpenLockFile, MutexTypeOK
    <2>2. QED
      BY <1>1, <2>1 DEF OpenLockFile, MutexTypeOK
  <1>2. ASSUME NEW a \in Actor,
               LockSucceeds(a) \/ LockFails(a) \/ CloseLockFile(a) \/ UnlinkLockFile
        PROVE  MutexTypeOK'
    BY <1>2 DEF LockSucceeds, LockFails, CloseLockFile, UnlinkLockFile, MutexTypeOK
  <1>3. ASSUME UNCHANGED mutexVars
        PROVE  MutexTypeOK'
    BY <1>3 DEF mutexVars, MutexTypeOK
  <1>4. ASSUME NEW a \in Actor,
               Open(a) \/ Locked(a) \/ NotLocked(a) \/ Unlock(a) \/ Unlink(a)
        PROVE  MutexTypeOK'
    BY <1>1, <1>2, <1>4 DEF Open, Locked, NotLocked, Unlock, Unlink
  <1>5. ASSUME NEW a \in Window,
               \/ OpenWindow(a) \/ SaveWindow(a) \/ CloseWindow(a) \/ SyncNow(a)
               \/ SyncReturns(a)
               \/ \E w \in Word \ ImportWord : AddWord(a, w) \/ DeleteWord(a, w)
        PROVE  MutexTypeOK'
    BY <1>3, <1>5 DEF OpenWindow, SaveWindow, CloseWindow, SyncNow, SyncReturns, AddWord,
                      DeleteWord
  <1>6. ASSUME \/ StartSync
               \/ \E tsv \in SUBSET Word : ImportTsv(tsv)
               \/ \E a \in {Sync, Importer} : SaveImport(a)
               \/ \E data \in SUBSET ImportWord : Import(data)
               \/ ImportLoop \/ ShowImport \/ ImportThreadEnds
               \/ Reload \/ ReadFile \/ SetTokens \/ Tick \/ UNCHANGED vars
        PROVE  MutexTypeOK'
    BY <1>3, <1>6 DEF StartSync, ImportTsv, SaveImport, Import, ImportLoop, ShowImport,
                      ImportThreadEnds, Reload, ReadFile, SetTokens, Tick, vars
  <1>7. ASSUME (\E a \in Window \cup {Sync} : Crash(a)) \/ Restart
        PROVE  MutexTypeOK'
    BY <1>2, <1>7, Actors DEF Crash, Restart
  <1>8. QED
    BY <1>4, <1>5, <1>6, <1>7 DEF Next

LEMMA WrittenTypes ==
  ASSUME StorageType, ConverterType, RestType, NEW a \in Actor, Written(a)
  PROVE  StorageType' /\ ConverterType'
  <1>1. file' \in [words : SUBSET Word, time : Times]
    BY DEF Written, StorageType, RestType
  <1>2. missed' \in [Actor -> SUBSET Word]
    BY DEF Written, StorageType
  <1>3. excuse' \subseteq Excuses
    BY DEF Written, ConverterType, Excuses
  <1>4. QED
    BY <1>1, <1>2, <1>3 DEF Written, StorageType, ConverterType

LEMMA StorageStep ==
  ASSUME StorageType, ConverterType, RestType, QueueType, PopHasData, [Next]_vars
  PROVE  StorageType' /\ ConverterType'
  <1>1. ASSUME UNCHANGED storageVars
        PROVE  StorageType'
    BY <1>1 DEF storageVars, StorageType
  <1>2. ASSUME UNCHANGED converterVars
        PROVE  ConverterType'
    BY <1>2 DEF converterVars, ConverterType
  <1>3. ASSUME NEW a \in Actor, Forget(a)
        PROVE  StorageType'
    BY <1>3 DEF Forget, Hold, StorageType
  <1>4. ASSUME NEW a \in Actor, Read(a)
        PROVE  StorageType'
    BY <1>4 DEF Read, Hold, StorageType
  <1>5. ASSUME NEW a \in Actor, Load(a)
        PROVE  StorageType'
    <2>1. CASE Read(a)
      BY <1>4, <2>1
    <2>2. CASE Hold(a, {}) /\ blind' = blind \cup {a}
      BY <2>2 DEF Hold, StorageType
    <2>3. QED
      BY <1>5, <2>1, <2>2 DEF Load
  <1>6. ASSUME NEW a \in Actor, Save(a) \/ NotWritten
        PROVE  StorageType' /\ ConverterType'
    BY <1>1, <1>2, <1>6, WrittenTypes DEF Save, NotWritten
  <1>7. ASSUME NEW a \in Actor,
               Open(a) \/ Locked(a) \/ NotLocked(a) \/ Unlock(a) \/ Unlink(a)
        PROVE  StorageType' /\ ConverterType'
    BY <1>1, <1>2, <1>3, <1>7 DEF Open, Locked, NotLocked, Unlock, Unlink
  <1>8. ASSUME NEW a \in Window, OpenWindow(a) \/ SaveWindow(a) \/ CloseWindow(a)
        PROVE  StorageType' /\ ConverterType'
    BY <1>2, <1>5, <1>6, <1>8, Actors DEF OpenWindow, SaveWindow, CloseWindow
  <1>9. ASSUME NEW a \in Window, SyncNow(a)
        PROVE  StorageType' /\ ConverterType'
    BY <1>9, Actors, WrittenTypes DEF SyncNow
  <1>10. ASSUME NEW a \in Window, SyncReturns(a)
         PROVE  StorageType' /\ ConverterType'
    BY <1>1, <1>2, <1>4, <1>10, Actors DEF SyncReturns
  <1>11. ASSUME NEW a \in Window, NEW w \in Word, AddWord(a, w) \/ DeleteWord(a, w)
         PROVE  StorageType' /\ ConverterType'
    <2>1. StorageType'
      BY <1>11, Actors DEF AddWord, DeleteWord, StorageType
    <2>2. QED
      BY <1>2, <1>11, <2>1 DEF AddWord, DeleteWord
  <1>12. ASSUME NEW tsv \in SUBSET Word, ImportTsv(tsv)
         PROVE  StorageType' /\ ConverterType'
    <2>1. StorageType'
      BY <1>12, Actors DEF ImportTsv, StorageType
    <2>2. QED
      BY <1>2, <1>12, <2>1 DEF ImportTsv
  <1>13. ASSUME NEW a \in {Sync, Importer}, SaveImport(a)
         PROVE  StorageType' /\ ConverterType'
    BY <1>6, <1>13, Actors DEF SaveImport
  <1>14. ASSUME \/ \E data \in SUBSET ImportWord : Import(data)
                \/ StartSync \/ ImportThreadEnds \/ Tick \/ UNCHANGED vars
         PROVE  StorageType' /\ ConverterType'
    BY <1>1, <1>2, <1>14 DEF Import, StartSync, ImportThreadEnds, Tick, vars
  <1>15. ASSUME ImportLoop
         PROVE  StorageType' /\ ConverterType'
    BY <1>1, <1>2, <1>5, <1>15, Actors DEF ImportLoop
  <1>16. ASSUME ShowImport
         PROVE  StorageType' /\ ConverterType'
    <2>1. queue \in SUBSET Word
      BY <1>16, DictionaryAssumption DEF ShowImport, At, QueueType, PopHasData
    <2>2. StorageType'
      BY <1>16, <2>1, Actors DEF ShowImport, StorageType
    <2>3. tokens' \in SUBSET Word
      BY <1>16, <2>1, Actors DEF ShowImport, StorageType
    <2>4. UNCHANGED <<reload, loaded, modified>> /\ excuse' = excuse \cup {"ahead"}
      BY <1>16 DEF ShowImport
    <2>5. QED
      BY <2>2, <2>3, <2>4 DEF ConverterType, Excuses
  <1>17. ASSUME Reload \/ ReadFile \/ SetTokens
         PROVE  StorageType' /\ ConverterType'
    <2>1. StorageType'
      BY <1>1, <1>17 DEF Reload, ReadFile, SetTokens
    <2>2. file.words \in SUBSET Word /\ file.time \in Times
      BY DEF StorageType
    <2>3. reload' \in {"idle", "load", "set"} /\ loaded' \in {loaded, file.words, {}}
      BY <1>17 DEF Reload, MaybeStartReload, ReadFile, SetTokens, ConverterType
    <2>4. modified' \in {modified, file.time} /\ tokens' \in {tokens, loaded}
      BY <1>17 DEF Reload, MaybeStartReload, ReadFile, SetTokens
    <2>5. excuse' \subseteq excuse \cup {"failed"}
      BY <1>17 DEF Reload, MaybeStartReload, ReadFile, SetTokens
    <2>6. ConverterType'
      BY <2>2, <2>3, <2>4, <2>5 DEF ConverterType, Excuses
    <2>7. QED
      BY <2>1, <2>6
  <1>18. ASSUME NEW a \in Window \cup {Sync}, Crash(a)
         PROVE  StorageType' /\ ConverterType'
    BY <1>2, <1>3, <1>18, Actors DEF Crash
  <1>19. ASSUME Restart
         PROVE  StorageType' /\ ConverterType'
    <2>1. ConverterType'
      BY <1>19 DEF Restart, StorageType, ConverterType
    <2>2. QED
      BY <1>3, <1>19, <2>1, Actors DEF Restart
  <1>20. QED
    BY <1>7, <1>8, <1>9, <1>10, <1>11, <1>12, <1>13, <1>14, <1>15, <1>16, <1>17, <1>18,
       <1>19 DEF Next

\* Nobody but the importer and Import moves the importer or the queue.
LEMMA QueueStep ==
  ASSUME RestType, QueueType, PopHasData, [Next]_vars
  PROVE  QueueType' /\ PopHasData'
  <1> USE DEF Goto, At, QueueType, PopHasData
  <1>1. pc = [a \in Actor |-> pc[a]]
    BY DEF RestType
  <1>2. ASSUME queue' = queue, pc'[Importer] # "pop" \/ pc' = pc
        PROVE  QueueType' /\ PopHasData'
    BY <1>2
  <1>3. ASSUME NEW a \in Actor,
               Open(a) \/ Locked(a) \/ NotLocked(a) \/ Unlock(a) \/ Unlink(a)
        PROVE  QueueType' /\ PopHasData'
    <2>1. queue' = queue
      BY <1>3 DEF Open, Locked, NotLocked, Unlock, Unlink
    <2>2. \E step : pc' = [pc EXCEPT ![a] = step] /\ step # "pop"
      BY <1>3 DEF Open, Locked, NotLocked, Unlock, Unlink, Ended
    <2>3. QED
      BY <1>1, <2>1, <2>2, Actors
  <1>4. ASSUME NEW a \in Window,
               \/ OpenWindow(a) \/ SaveWindow(a) \/ CloseWindow(a) \/ SyncNow(a)
               \/ SyncReturns(a)
               \/ \E w \in Word \ ImportWord : AddWord(a, w) \/ DeleteWord(a, w)
        PROVE  QueueType' /\ PopHasData'
    <2>1. queue' = queue
      BY <1>4 DEF OpenWindow, SaveWindow, CloseWindow, SyncNow, SyncReturns, AddWord, DeleteWord
    <2>2. pc' = pc \/ \E step : pc' = [pc EXCEPT ![a] = step] /\ step # "pop"
      BY <1>4 DEF OpenWindow, SaveWindow, CloseWindow, SyncNow, SyncReturns, AddWord, DeleteWord
    <2>3. QED
      BY <1>1, <2>1, <2>2, Actors
  <1>5. ASSUME \/ StartSync
               \/ \E tsv \in SUBSET Word : ImportTsv(tsv)
               \/ \E a \in {Sync, Importer} : SaveImport(a)
               \/ ImportThreadEnds
               \/ \E a \in Window \cup {Sync} : Crash(a)
        PROVE  QueueType' /\ PopHasData'
    <2>1. queue' = queue
      BY <1>5 DEF StartSync, ImportTsv, SaveImport, ImportThreadEnds, Crash
    <2>2. \E a \in Actor : \E step : pc' = [pc EXCEPT ![a] = step] /\ step # "pop"
      BY <1>5, Actors DEF StartSync, ImportTsv, SaveImport, ImportThreadEnds, Crash
    <2>3. QED
      BY <1>1, <2>1, <2>2, Actors
  <1>6. ASSUME Reload \/ ReadFile \/ SetTokens \/ Tick \/ UNCHANGED vars
        PROVE  QueueType' /\ PopHasData'
    BY <1>6 DEF Reload, ReadFile, SetTokens, Tick, vars
  <1>7. ASSUME NEW data \in SUBSET ImportWord, Import(data)
        PROVE  QueueType' /\ PopHasData'
    BY <1>7, DictionaryAssumption DEF Import
  <1>8. ASSUME ImportLoop
        PROVE  QueueType' /\ PopHasData'
    BY <1>1, <1>8, Actors DEF ImportLoop
  <1>9. ASSUME ShowImport \/ Restart
        PROVE  QueueType' /\ PopHasData'
    BY <1>1, <1>9, Actors DEF ShowImport, Restart
  <1>10. QED
    BY <1>3, <1>4, <1>5, <1>6, <1>7, <1>8, <1>9 DEF Next

LEMMA RestStep ==
  ASSUME RestType, [Next]_vars
  PROVE  RestType'
  <1> USE DEF Goto, Steps, RestType
  <1>1. ASSUME Fault
        PROVE  faults' \in 0 .. MaxFaults
    BY <1>1, DictionaryAssumption DEF Fault
  <1>2. ASSUME Use
        PROVE  uses' \in 0 .. MaxUses
    BY <1>2, DictionaryAssumption DEF Use
  <1>3. ASSUME NEW a \in Actor,
               Open(a) \/ Locked(a) \/ NotLocked(a) \/ Unlock(a) \/ Unlink(a)
        PROVE  RestType'
    BY <1>3 DEF Open, Locked, NotLocked, Unlock, Unlink, Ended
  <1>4. ASSUME NEW a \in Actor, Save(a)
        PROVE  faults' \in 0 .. MaxFaults
    BY <1>1, <1>4 DEF Save
  <1>5. ASSUME NEW a \in Actor, Load(a)
        PROVE  faults' \in 0 .. MaxFaults
    BY <1>1, <1>5 DEF Load
  <1>6. ASSUME NEW a \in Window, OpenWindow(a) \/ SaveWindow(a) \/ CloseWindow(a)
        PROVE  RestType'
    <2>1. a \in Actor /\ clock' = clock
      BY <1>6, Actors DEF OpenWindow, SaveWindow, CloseWindow
    <2>2. faults' \in 0 .. MaxFaults
      <3>1. Load(a) \/ Save(a) \/ faults' = faults
        BY <1>6 DEF OpenWindow, SaveWindow, CloseWindow
      <3>2. QED
        BY <1>4, <1>5, <2>1, <3>1
    <2>3. uses' \in 0 .. MaxUses
      BY <1>2, <1>6 DEF OpenWindow, SaveWindow, CloseWindow
    <2>4. pc' \in [Actor -> Steps]
      BY <1>6, <2>1 DEF OpenWindow, SaveWindow, CloseWindow
    <2>5. QED
      BY <2>1, <2>2, <2>3, <2>4
  <1>7. ASSUME NEW a \in Window,
               \/ SyncNow(a) \/ SyncReturns(a)
               \/ \E w \in Word \ ImportWord : AddWord(a, w) \/ DeleteWord(a, w)
        PROVE  RestType'
    BY <1>1, <1>7, Actors DEF SyncNow, SyncReturns, AddWord, DeleteWord
  <1>8. ASSUME \/ StartSync
               \/ \E tsv \in SUBSET Word : ImportTsv(tsv)
               \/ \E data \in SUBSET ImportWord : Import(data)
               \/ ShowImport \/ ImportThreadEnds
        PROVE  RestType'
    BY <1>2, <1>8, Actors DEF StartSync, ImportTsv, Import, ShowImport, ImportThreadEnds
  <1>9. ASSUME NEW a \in {Sync, Importer}, SaveImport(a)
        PROVE  RestType'
    <2>1. faults' \in 0 .. MaxFaults
      <3>1. Save(a) /\ a \in Actor
        BY <1>9, Actors DEF SaveImport
      <3>2. QED
        BY <1>4, <3>1
    <2>2. pc' \in [Actor -> Steps] /\ UNCHANGED <<clock, uses>>
      BY <1>9, Actors DEF SaveImport
    <2>3. QED
      BY <2>1, <2>2
  <1>10. ASSUME ImportLoop
         PROVE  RestType'
    BY <1>5, <1>10, Actors DEF ImportLoop
  <1>11. ASSUME Reload \/ ReadFile \/ SetTokens \/ UNCHANGED vars
         PROVE  RestType'
    BY <1>1, <1>11 DEF Reload, ReadFile, SetTokens, vars
  <1>12. ASSUME Tick
         PROVE  RestType'
    BY <1>12, DictionaryAssumption DEF Tick, Times
  <1>13. ASSUME (\E a \in Window \cup {Sync} : Crash(a)) \/ Restart
         PROVE  RestType'
    BY <1>1, <1>13, Actors DEF Crash, Restart
  <1>14. QED
    BY <1>3, <1>6, <1>7, <1>8, <1>9, <1>10, <1>11, <1>12, <1>13 DEF Next

LEMMA PlaceStep ==
  ASSUME MutexTypeOK, RestType, WriterInv, LockPlace, [Next]_vars
  PROVE  LockPlace'
  <1> USE DEF Goto, At, LockPlace
  <1>1. pc = [a \in Actor |-> pc[a]] /\ fd = [a \in Actor |-> fd[a]]
          /\ locked = [a \in Actor |-> locked[a]]
    BY DEF RestType, MutexTypeOK
  <1>2. ASSUME NEW a \in Actor, Open(a)
        PROVE  LockPlace'
    <2>1. path' # NoFile
      BY <1>2, UnusedExists, ActorAssumption, FS_CardinalityType
         DEF Open, OpenLockFile, Inode, NoFile
    <2>2. ~locked[a]
      BY <1>2 DEF Open, WriterInv, LockedWhere, Waiting
    <2>3. QED
      BY <1>1, <1>2, <2>1, <2>2 DEF Open, OpenLockFile
  <1>3. ASSUME NEW a \in Actor, Locked(a)
        PROVE  LockPlace'
    BY <1>1, <1>3 DEF Locked, LockSucceeds
  <1>4. ASSUME NEW a \in Actor, NotLocked(a)
        PROVE  LockPlace'
    <2>1. ~locked[a]
      BY <1>4 DEF NotLocked, WriterInv, LockedWhere, Waiting
    <2>2. QED
      BY <1>1, <1>4, <2>1 DEF NotLocked, LockFails
  <1>5. ASSUME NEW a \in Actor, Unlock(a)
        PROVE  LockPlace'
    BY <1>1, <1>5 DEF Unlock, CloseLockFile, Ended
  <1>6. ASSUME NEW a \in Actor, Unlink(a)
        PROVE  LockPlace'
    <2>1. ~locked[a]
      BY <1>6 DEF Unlink, WriterInv, LockedWhere, Waiting
    <2>2. QED
      BY <1>1, <1>6, <2>1 DEF Unlink, UnlinkLockFile, Ended
  <1>7. ASSUME UNCHANGED mutexVars, NEW a \in Actor, NEW step,
               \/ ~locked[a] /\ step \notin {"lock", "relock"}
               \/ step \in {"load", "ready", "close", "release"},
               pc' = [pc EXCEPT ![a] = step]
        PROVE  LockPlace'
    BY <1>1, <1>7 DEF mutexVars
  <1>8. ASSUME UNCHANGED mutexVars, UNCHANGED pc
        PROVE  LockPlace'
    BY <1>8 DEF mutexVars
  <1>9. ASSUME NEW a \in Window, OpenWindow(a) \/ SyncReturns(a)
        PROVE  LockPlace'
    <2>1. ~locked[a] /\ a \in Actor
      BY <1>9, Actors DEF OpenWindow, SyncReturns, WriterInv, LockedWhere, Waiting
    <2>2. QED
      BY <1>7, <1>9, <2>1 DEF OpenWindow, SyncReturns
  <1>10. ASSUME NEW a \in Window,
                \/ SaveWindow(a) \/ CloseWindow(a) \/ SyncNow(a)
                \/ \E w \in Word \ ImportWord : AddWord(a, w) \/ DeleteWord(a, w)
         PROVE  LockPlace'
    BY <1>7, <1>8, <1>10, Actors DEF SaveWindow, CloseWindow, SyncNow, AddWord, DeleteWord
  <1>11. ASSUME StartSync \/ ImportThreadEnds
         PROVE  LockPlace'
    <2>1. /\ StartSync => ~locked[Sync] /\ pc' = [pc EXCEPT ![Sync] = "open"]
          /\ ImportThreadEnds => ~locked[Importer] /\ pc' = [pc EXCEPT ![Importer] = "off"]
          /\ UNCHANGED mutexVars
      BY <1>11, Actors DEF StartSync, ImportThreadEnds, WriterInv, LockedWhere
    <2>2. QED
      BY <1>7, <1>11, <2>1, Actors
  <1>12. ASSUME \/ \E tsv \in SUBSET Word : ImportTsv(tsv)
                \/ \E a \in {Sync, Importer} : SaveImport(a)
                \/ \E data \in SUBSET ImportWord : Import(data)
         PROVE  LockPlace'
    BY <1>7, <1>8, <1>12, Actors DEF ImportTsv, SaveImport, Import
  <1>13. ASSUME ImportLoop \/ ShowImport
         PROVE  LockPlace'
    <2>1. ~locked[Importer]
      BY <1>13, Actors DEF ImportLoop, ShowImport, WriterInv, LockedWhere, Waiting
    <2>2. QED
      BY <1>7, <1>13, <2>1, Actors DEF ImportLoop, ShowImport
  <1>14. ASSUME Reload \/ ReadFile \/ SetTokens \/ Tick \/ UNCHANGED vars
         PROVE  LockPlace'
    BY <1>8, <1>14 DEF Reload, ReadFile, SetTokens, Tick, vars
  <1>15. ASSUME (\E a \in Window \cup {Sync} : Crash(a)) \/ Restart
         PROVE  LockPlace'
    BY <1>1, <1>15, Actors DEF Crash, Restart, CloseLockFile
  <1>16. QED
    BY <1>2, <1>3, <1>4, <1>5, <1>6, <1>9, <1>10, <1>11, <1>12, <1>13, <1>14, <1>15 DEF Next

LEMMA TypeInit == Init => TypeInv
  <1> SUFFICES ASSUME Init PROVE TypeInv
    OBVIOUS
  <1>1. StorageType /\ ConverterType
    BY DictionaryAssumption DEF Init, StorageType, ConverterType, Times
  <1>2. RestType /\ QueueType /\ PopHasData
    BY DictionaryAssumption, Actors DEF Init, RestType, QueueType, PopHasData, Times, Steps
  <1>3. MutexTypeOK /\ LockPlace
    BY DEF Init, MutexInit, MutexTypeOK, LockPlace
  <1>4. QED
    BY <1>1, <1>2, <1>3 DEF TypeInv

\* The types, for any number of processes: an open always finds an inode, a
\* process that is locked has a lock file open and is where it may use it.
THEOREM TypeCorrect == Spec => []TypeOK
  <1>1. Init => WriterInv
    BY DEF Init, MutexInit, WriterInv, Shapes, LockedWhere, SeesInv, Exclusive, AllCover,
       Loaded, Waiting
  <1>2. WriterInv /\ [Next]_vars => WriterInv'
    BY WriterStep
  <1>3. TypeInv /\ WriterInv /\ [Next]_vars => TypeInv'
    BY MutexStep, StorageStep, QueueStep, RestStep, PlaceStep DEF TypeInv
  <1>4. TypeInv => TypeOK
    BY DEF TypeInv, TypeOK, StorageType, ConverterType, RestType, QueueType, LockPlace
  <1>5. QED
    BY <1>1, <1>2, <1>3, <1>4, TypeInit, PTL DEF Spec
=============================================================================
