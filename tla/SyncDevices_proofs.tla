-------------------------- MODULE SyncDevices_proofs --------------------------
(***************************************************************************)
(* Proofs about SyncDevices for every number of devices, processes and     *)
(* words and any bound: its type, that a word nobody removed is lost in    *)
(* one way only, that a deletion stands, and what convergence rests on:    *)
(* the tombstones merge as in a lattice, and once the users have stopped   *)
(* each turn agrees with the bundle, adds to it, and breaks no agreement.  *)
(***************************************************************************)
EXTENDS SyncDevices, TLAPS

LEMMA MergeType ==
  ASSUME NEW l \in Tombstones, NEW r \in Tombstones
  PROVE  MergeDictionaryTombstones(l, r) \in Tombstones
  BY DEF Tombstones, MergeDictionaryTombstones

LEMMA CompactType ==
  ASSUME NEW t \in Tombstones, NEW live, NEW time
  PROVE  CompactDictionaryTombstones(t, live, time) \in Tombstones
  BY DEF Tombstones, CompactDictionaryTombstones

LEMMA ExportType ==
  ASSUME NEW t \in Tombstones, NEW live
  PROVE  ExportDictionaryTombstones(t, live) \in Tombstones
  BY DEF Tombstones, ExportDictionaryTombstones

LEMMA NoneType == NoTombstones \in Tombstones
  BY DEF NoTombstones, Tombstones

LEMMA LoggedType ==
  ASSUME NEW d \in Device, NEW S \in SUBSET Word, now \in Times
  PROVE  Logged(d, S) \in Tombstones
  BY DEF Logged, Tombstones, Tombstone, Times

\* A merge has the type of what it merges.
LEMMA WholeMergeType ==
  ASSUME NEW d \in Device, NEW time,
         NEW lw \in SUBSET Word, NEW rw \in SUBSET Word,
         NEW local, local.words = lw, local.dead \in Tombstones,
         NEW remote, remote.words = rw, remote.dead \in Tombstones
  PROVE  LET m == MergeDictionaryWithTombstones(d, local, remote, time)
         IN  m.words \subseteq Word /\ m.dead \in Tombstones
  <1> DEFINE dead == MergeDictionaryTombstones(local.dead, remote.dead)
             live == (local.words \cup remote.words)
                       \ Removed(d, local.words, remote.words, dead)
  <1>1. dead \in Tombstones
    BY MergeType
  <1>2. CompactDictionaryTombstones(dead, live, time) \in Tombstones
    BY <1>1, CompactType
  <1>3. live \subseteq Word
    OBVIOUS
  <1> HIDE DEF dead, live
  <1>4. MergeDictionaryWithTombstones(d, local, remote, time) =
          [words |-> live, dead |-> CompactDictionaryTombstones(dead, live, time)]
    BY DEF MergeDictionaryWithTombstones, dead, live
  <1>5. QED
    BY <1>2, <1>3, <1>4

\* The Boolean and the counters apart, for the provers' sake.
DataOK ==
    /\ words \in [Device -> SUBSET Word]
    /\ logged \in [Device -> SUBSET Word]
    /\ tomb \in [Device -> Tombstones]
    /\ bundle \in Bundle \cup {None}
    /\ sync \in [Process -> Work \cup {None}]
    /\ now \in Times

HistoryOK ==
    /\ missed \in [Process -> SUBSET Word]
    /\ down \in [Device -> [Word -> Times \cup {None}]]
    /\ fate \in [Word -> Fates]

BoundsOK ==
    /\ edited \in 0 .. MaxEdits
    /\ faults \in 0 .. MaxFaults
    /\ calm \in BOOLEAN

LEMMA TypeParts == TypeOK <=> DataOK /\ HistoryOK /\ BoundsOK
  BY DEF TypeOK, DataOK, HistoryOK, BoundsOK

LEMMA HomeType ==
  ASSUME NEW p \in Process
  PROVE  Home[p] \in Device
  BY DevicesAssumption

LEMMA SyncRecord ==
  ASSUME DataOK, NEW p \in Process, Syncing(p)
  PROVE  /\ sync[p] \in Work
         /\ sync[p].words \subseteq Word /\ sync[p].dead \in Tombstones
         /\ sync[p].step \in Steps
  BY DEF DataOK, Syncing, Work

LEMMA BundleRecord ==
  ASSUME DataOK, bundle # None
  PROVE  bundle.words \subseteq Word /\ bundle.dead \in Tombstones
  BY DEF DataOK, Bundle

LEMMA TypeInit == Init => TypeOK
  <1> SUFFICES ASSUME Init PROVE TypeOK
    OBVIOUS
  <1>1. 0 \in Times /\ 0 \in 0 .. MaxFaults /\ 0 \in 0 .. MaxEdits
    BY DevicesAssumption DEF Times
  <1>2. NoTombstones \in [Word -> Times \cup {None}]
    BY DEF NoTombstones
  <1>3. DataOK
    BY <1>1, NoneType DEF Init, DataOK
  <1>4. HistoryOK
    BY <1>2 DEF Init, HistoryOK, Fates
  <1>5. BoundsOK
    BY <1>1 DEF Init, BoundsOK
  <1>6. QED
    BY <1>3, <1>4, <1>5, TypeParts

\* What an export makes of the synchronisation of its process, and leaves of others.
LEMMA ExportStep ==
  ASSUME DataOK, NEW p \in Process, NEW live \in SUBSET Word, Exported(p, live)
  PROVE  /\ sync'[p] \in Work /\ sync'[p].step = "merge" /\ sync'[p].words = live
         /\ sync'[p].dead = ExportDictionaryTombstones(tomb[Home[p]], live)
         /\ \A q \in Process \ {p} : sync'[q] = sync[q]
         /\ sync' \in [Process -> Work \cup {None}]
  <1> DEFINE dead == ExportDictionaryTombstones(tomb[Home[p]], live)
  <1>1. dead \in Tombstones
    BY ExportType, HomeType DEF DataOK
  <1>2. sync' = [sync EXCEPT ![p] = [step |-> "merge", words |-> live, dead |-> dead]]
    BY DEF Exported
  <1> HIDE DEF dead
  <1>3. [step |-> "merge", words |-> live, dead |-> dead] \in Work
    BY <1>1 DEF Work, Steps
  <1>4. QED
    BY <1>2, <1>3 DEF DataOK, dead

LEMMA DataStep == DataOK /\ [Next]_vars => DataOK'
  <1> SUFFICES ASSUME DataOK, [Next]_vars PROVE DataOK'
    OBVIOUS
  <1> USE DEF Steps
  <1>1. ASSUME NEW p \in Process, Export(p) PROVE DataOK'
    <2>1. words[Home[p]] \in SUBSET Word /\ {} \in SUBSET Word
      BY HomeType DEF DataOK
    <2>2. sync' \in [Process -> Work \cup {None}]
      BY <1>1, <2>1, ExportStep DEF Export
    <2>3. QED
      BY <1>1, <2>2 DEF Export, DataOK
  <1>2. ASSUME NEW p \in Process, Merge(p) PROVE DataOK'
    <2>1. sync[p] \in Work /\ sync[p].words \subseteq Word /\ sync[p].dead \in Tombstones
      BY <1>2, SyncRecord DEF Merge
    <2>2. CASE bundle = None
      <3>1. [sync[p] EXCEPT !.step = "write"] \in Work
        BY <2>1 DEF Work
      <3>2. sync' = [sync EXCEPT ![p] = [sync[p] EXCEPT !.step = "write"]]
        BY <1>2, <2>2 DEF Merge
      <3>3. QED
        BY <1>2, <2>2, <3>1, <3>2 DEF Merge, DataOK, edits
    <2>3. CASE bundle # None
      <3> DEFINE m == MergeDictionaryWithTombstones(Home[p], sync[p], bundle, now)
      <3>1. m.words \subseteq Word /\ m.dead \in Tombstones
        BY <2>1, <2>3, BundleRecord, WholeMergeType, HomeType
      <3>2. /\ sync' = [sync EXCEPT ![p] =
                          [step |-> "write", words |-> m.words, dead |-> m.dead]]
            /\ tomb' = [tomb EXCEPT ![Home[p]] = m.dead] \/ tomb' = tomb
        BY <1>2, <2>3 DEF Merge
      <3> HIDE DEF m
      <3>3. [step |-> "write", words |-> m.words, dead |-> m.dead] \in Work
        BY <3>1 DEF Work
      <3>4. QED
        BY <1>2, <3>1, <3>2, <3>3 DEF Merge, DataOK, edits
    <2>4. QED
      BY <2>2, <2>3
  <1>3. ASSUME NEW p \in Process, Write(p) PROVE DataOK'
    <2>1. sync[p] \in Work /\ sync[p].words \subseteq Word /\ sync[p].dead \in Tombstones
      BY <1>3, SyncRecord DEF Write
    <2>2. [words |-> sync[p].words, dead |-> sync[p].dead] \in Bundle
      BY <2>1 DEF Bundle
    <2>3. [sync[p] EXCEPT !.step = "import", !.dead = NoTombstones] \in Work
      BY <2>1, NoneType DEF Work
    <2>4. sync' = [sync EXCEPT ![p] =
                     [sync[p] EXCEPT !.step = "import", !.dead = NoTombstones]]
      BY <1>3 DEF Write, DataOK
    <2>5. QED
      BY <1>3, <2>2, <2>3, <2>4 DEF Write, DataOK, edits
  <1>4. ASSUME NEW p \in Process, Import(p) PROVE DataOK'
    <2>1. sync[p].words \subseteq Word
      BY <1>4, SyncRecord DEF Import
    <2>2. QED
      BY <1>4, <2>1 DEF Import, DataOK
  <1>5. ASSUME NEW p \in Process, Leave(p) PROVE DataOK'
    BY <1>5 DEF Leave, DataOK
  <1>6. CASE SyncWithoutDictionary
    <2>1. [words |-> {}, dead |-> NoTombstones] \in Bundle
      BY NoneType DEF Bundle
    <2>2. QED
      BY <1>6, <2>1 DEF SyncWithoutDictionary, DataOK, edits
  <1>7. ASSUME NEW d \in Device, NEW w \in Word, Add(d, w) PROVE DataOK'
    BY <1>7 DEF Add, DataOK
  <1>8. ASSUME NEW d \in Device, NEW S \in SUBSET Word, SyncToStorage(d, S) PROVE DataOK'
    <2>1. MergeDictionaryTombstones(tomb[d], Logged(d, S)) \in Tombstones
      BY LoggedType, MergeType DEF DataOK
    <2>2. QED
      BY <1>8, <2>1 DEF SyncToStorage, DataOK
  <1>9. ASSUME NEW d \in Device, NEW S \in SUBSET Word, DeleteDictionary(d, S) PROVE DataOK'
    BY <1>9 DEF DeleteDictionary, DataOK
  <1>10. ASSUME NEW d \in Device, SaveAndReloadServer(d) \/ KeepLogged(d) PROVE DataOK'
    BY <1>10 DEF SaveAndReloadServer, KeepLogged, DataOK
  <1>11. CASE Tick
    BY <1>11, DevicesAssumption DEF Tick, DataOK, Times
  <1>12. CASE BecomeCalm
    BY <1>12 DEF BecomeCalm, DataOK, edits
  <1>13. CASE UNCHANGED vars
    BY <1>13 DEF vars, DataOK
  <1>14. QED
    BY <1>1, <1>2, <1>3, <1>4, <1>5, <1>6, <1>7, <1>8, <1>9, <1>10, <1>11, <1>12, <1>13
    DEF Next, Step, Fail, ImportRefused

LEMMA UnseenType ==
  ASSUME HistoryOK, NEW d \in Device, NEW S \in SUBSET Word
  PROVE  Unseen(d, S) \in [Process -> SUBSET Word]
  BY DEF Unseen, HistoryOK

LEMMA HistoryStep == DataOK /\ HistoryOK /\ [Next]_vars => HistoryOK'
  <1> SUFFICES ASSUME DataOK, HistoryOK, [Next]_vars PROVE HistoryOK'
    OBVIOUS
  <1>1. \A f \in Fates : AfterRemoval(f) \in Fates /\ AfterReturn(f) \in Fates
    BY DEF Fates, AfterRemoval, AfterReturn
  <1>2. ASSUME NEW d \in Device, NEW f \in [Word -> Times \cup {None}]
        PROVE  [down EXCEPT ![d] = f] \in [Device -> [Word -> Times \cup {None}]]
    BY DEF HistoryOK
  <1>3. ASSUME NEW p \in Process, Export(p) PROVE HistoryOK'
    <2>1. fate' \in [Word -> Fates]
      BY <1>3 DEF Export, HistoryOK, Fates
    <2>2. ASSUME NEW live \in SUBSET Word, Exported(p, live)
          PROVE  missed' \in [Process -> SUBSET Word]
      <3> DEFINE S == {w \in Word : ExportDictionaryTombstones(tomb[Home[p]], live)[w] # None}
      <3>1. Unseen(Home[p], S) \in [Process -> SUBSET Word]
        BY UnseenType, HomeType
      <3>2. missed' = [Unseen(Home[p], S) EXCEPT ![p] = words[Home[p]] \ live]
        BY <2>2 DEF Exported
      <3>3. words[Home[p]] \subseteq Word
        BY HomeType DEF DataOK
      <3> HIDE DEF S
      <3>4. QED
        BY <3>1, <3>2, <3>3
    <2>3. missed' \in [Process -> SUBSET Word]
      <3>1. words[Home[p]] \in SUBSET Word /\ {} \in SUBSET Word
        BY HomeType DEF DataOK
      <3>2. QED
        BY <1>3, <2>2, <3>1 DEF Export
    <2>4. down' \in [Device -> [Word -> Times \cup {None}]]
      <3>1. [w \in Word |-> IF w \in logged[Home[p]] THEN None ELSE down[Home[p]][w]]
              \in [Word -> Times \cup {None}]
        BY HomeType DEF HistoryOK
      <3>2. QED
        BY <1>2, <1>3, <3>1, HomeType DEF Export
    <2>5. QED
      BY <2>1, <2>3, <2>4 DEF HistoryOK
  <1>4. ASSUME NEW p \in Process, Import(p) PROVE HistoryOK'
    <2> DEFINE new == sync[p].words \ words[Home[p]]
    <2>1. new \in SUBSET Word
      BY <1>4, SyncRecord DEF Import
    <2>2. missed' = [Unseen(Home[p], new) EXCEPT ![p] = {}]
      BY <1>4 DEF Import
    <2>3. Unseen(Home[p], new) \in [Process -> SUBSET Word]
      BY <2>1, UnseenType, HomeType
    <2> HIDE DEF new
    <2>4. missed' \in [Process -> SUBSET Word]
      BY <2>2, <2>3
    <2>5. fate' \in [Word -> Fates]
      BY <1>1, <1>4 DEF Import, HistoryOK
    <2>6. QED
      BY <1>4, <2>4, <2>5 DEF Import, HistoryOK
  <1>5. ASSUME NEW p \in Process, Leave(p) PROVE HistoryOK'
    BY <1>5 DEF Leave, HistoryOK
  <1>6. ASSUME NEW d \in Device, NEW w \in Word, Add(d, w) PROVE HistoryOK'
    <2>1. missed' \in [Process -> SUBSET Word]
      BY <1>6, UnseenType DEF Add
    <2>2. fate' \in [Word -> Fates]
      BY <1>1, <1>6 DEF Add, HistoryOK
    <2>3. QED
      BY <1>6, <2>1, <2>2 DEF Add, HistoryOK
  <1>7. ASSUME NEW d \in Device, NEW S \in SUBSET Word, SyncToStorage(d, S) PROVE HistoryOK'
    <2>1. fate' \in [Word -> Fates]
      BY <1>1, <1>7 DEF SyncToStorage, HistoryOK
    <2>2. down' \in [Device -> [Word -> Times \cup {None}]]
      <3>1. [w \in Word |-> IF w \in S THEN now ELSE down[d][w]] \in [Word -> Times \cup {None}]
        BY DEF DataOK, HistoryOK
      <3>2. down' = down
              \/ down' = [down EXCEPT ![d] = [w \in Word |-> IF w \in S THEN now
                                                            ELSE down[d][w]]]
        BY <1>7 DEF SyncToStorage
      <3>3. QED
        BY <1>2, <3>1, <3>2 DEF HistoryOK
    <2>3. QED
      BY <1>7, <2>1, <2>2 DEF SyncToStorage, HistoryOK
  <1>8. ASSUME NEW d \in Device, NEW S \in SUBSET Word, DeleteDictionary(d, S)
        PROVE  HistoryOK'
    BY <1>1, <1>8 DEF DeleteDictionary, HistoryOK
  <1>9. ASSUME NEW d \in Device, SaveAndReloadServer(d) PROVE HistoryOK'
    BY <1>1, <1>9 DEF SaveAndReloadServer, HistoryOK
  <1>10. ASSUME NEW d \in Device, KeepLogged(d) PROVE HistoryOK'
    <2>1. [w \in Word |-> IF w \in logged[d] THEN None ELSE down[d][w]]
            \in [Word -> Times \cup {None}]
      BY DEF HistoryOK
    <2>2. down' \in [Device -> [Word -> Times \cup {None}]]
      BY <1>2, <1>10, <2>1 DEF KeepLogged
    <2>3. QED
      BY <1>1, <1>10, <2>2 DEF KeepLogged, HistoryOK
  <1>11. CASE Tick
    BY <1>11 DEF Tick, HistoryOK
  <1>12. ASSUME UNCHANGED edits PROVE HistoryOK'
    BY <1>12 DEF edits, HistoryOK
  <1>13. QED
    BY <1>3, <1>4, <1>5, <1>6, <1>7, <1>8, <1>9, <1>10, <1>11, <1>12
    DEF Next, Step, Merge, Write, Fail, ImportRefused, SyncWithoutDictionary, BecomeCalm,
        vars, edits

LEMMA BoundsStep == BoundsOK /\ [Next]_vars => BoundsOK'
  <1> SUFFICES ASSUME BoundsOK, [Next]_vars PROVE BoundsOK'
    OBVIOUS
  <1>1. ASSUME faults' = faults \/ Fault PROVE faults' \in 0 .. MaxFaults
    BY <1>1, DevicesAssumption DEF Fault, BoundsOK
  <1>2. ASSUME edited' = edited \/ Edit PROVE edited' \in 0 .. MaxEdits
    BY <1>2, DevicesAssumption DEF Edit, BoundsOK
  <1>3. /\ faults' = faults \/ Fault
        /\ edited' = edited \/ Edit
        /\ calm' = calm \/ calm' = TRUE
    <2>1. ASSUME NEW p \in Process, Step(p) \/ Fail(p)
          PROVE  (faults' = faults \/ Fault) /\ edited' = edited /\ calm' = calm
      BY <2>1 DEF Step, Export, Merge, Write, Import, ImportRefused, Fail, Leave, edits
    <2>2. QED
      BY <2>1 DEF Next, SyncWithoutDictionary, Add, SyncToStorage, SaveAndReloadServer,
         KeepLogged, DeleteDictionary, Tick, BecomeCalm, vars, edits
  <1>4. calm' \in BOOLEAN
    <2>1. CASE calm' = calm
      BY <2>1 DEF BoundsOK
    <2>2. CASE calm' = TRUE
      BY <2>2
    <2>3. QED
      BY <1>3, <2>1, <2>2
  <1>5. QED
    BY <1>1, <1>2, <1>3, <1>4 DEF BoundsOK

\* Every reachable state has the types of the files and of PerformSync's locals.
THEOREM TypeCorrect == Spec => []TypeOK
  <1>1. TypeOK /\ [Next]_vars => TypeOK'
    BY DataStep, HistoryStep, BoundsStep DEF TypeOK, DataOK, HistoryOK, BoundsOK
  <1>2. QED
    BY TypeInit, <1>1, PTL DEF Spec

-----------------------------------------------------------------------------
(* No word is lost that nobody removed.                                    *)

\* Of a word that no user has removed there is no tombstone anywhere, no tool has
\* taken it out, and a synchronisation under way has it if its device has it and
\* it has seen it there.
Unlogged(w) ==
    /\ \A d \in Device : tomb[d][w] = None /\ w \notin logged[d]
    /\ bundle # None => bundle.dead[w] = None
    /\ \A p \in Process : Syncing(p) =>
          /\ sync[p].dead[w] = None
          /\ w \in words[Home[p]] /\ w \notin missed[p] => w \in sync[p].words

KeptInv == \A w \in Word : fate[w] = "kept" => Unlogged(w)

LEMMA KeptInit == Init => KeptInv
  BY DevicesAssumption DEF Init, KeptInv, Unlogged, NoTombstones, Syncing

\* A word is "kept" after a step only if it was so before.
LEMMA KeptBefore ==
  ASSUME TypeOK, [Next]_vars, NEW w \in Word, fate'[w] = "kept"
  PROVE  fate[w] = "kept"
  <1>1. \A f \in Fates : AfterRemoval(f) # "kept" /\ (AfterReturn(f) = "kept" => f = "kept")
    BY DEF AfterRemoval, AfterReturn, Fates
  <1>0. fate \in [Word -> Fates]
    BY DEF TypeOK
  <1>2. ASSUME NEW p \in Process, Export(p) PROVE fate[w] = "kept"
    BY <1>0, <1>2 DEF Export
  <1>3. ASSUME NEW p \in Process, Import(p) PROVE fate[w] = "kept"
    BY <1>0, <1>1, <1>3 DEF Import
  <1>4. ASSUME NEW d \in Device, NEW v \in Word, Add(d, v) PROVE fate[w] = "kept"
    BY <1>0, <1>1, <1>4 DEF Add
  <1>5. ASSUME NEW d \in Device, NEW S \in SUBSET Word,
               SyncToStorage(d, S) \/ DeleteDictionary(d, S)
        PROVE  fate[w] = "kept"
    BY <1>0, <1>1, <1>5 DEF SyncToStorage, DeleteDictionary
  <1>6. ASSUME NEW d \in Device, SaveAndReloadServer(d) \/ KeepLogged(d)
        PROVE  fate[w] = "kept"
    BY <1>0, <1>1, <1>6 DEF SaveAndReloadServer, KeepLogged
  <1>7. CASE UNCHANGED fate
    BY <1>7
  <1>8. QED
    BY <1>2, <1>3, <1>4, <1>5, <1>6, <1>7 DEF Next, Step, Merge, Write, ImportRefused, Fail,
       Leave, SyncWithoutDictionary, Tick, BecomeCalm, vars, edits

\* What a user takes out is not kept any more.
LEMMA RemovedGone ==
  ASSUME TypeOK, NEW S \in SUBSET Word, NEW w \in Word, fate'[w] = "kept",
         fate' = [v \in Word |-> IF v \in S THEN AfterRemoval(fate[v]) ELSE fate[v]]
  PROVE  w \notin S
  BY DEF TypeOK, Fates, AfterRemoval

\* The merge of two sides that have no tombstone of a word keeps the word.
LEMMA MergeKeeps ==
  ASSUME NEW d, NEW local, NEW remote, NEW time, NEW w \in Word,
         local.dead[w] = None, remote.dead[w] = None
  PROVE  LET m == MergeDictionaryWithTombstones(d, local, remote, time)
         IN  /\ m.dead[w] = None
             /\ w \in local.words => w \in m.words
  BY DEF MergeDictionaryWithTombstones, MergeDictionaryTombstones, Removed,
         CompactDictionaryTombstones

LEMMA KeptStep == TypeOK /\ KeptInv /\ [Next]_vars => KeptInv'
  <1> SUFFICES ASSUME TypeOK, KeptInv, [Next]_vars, NEW w \in Word, fate'[w] = "kept"
               PROVE  Unlogged(w)'
    BY DEF KeptInv
  <1>a. fate[w] = "kept" /\ Unlogged(w)
    BY KeptBefore DEF KeptInv
  <1>b. DataOK
    BY TypeParts
  <1>c. ASSUME NEW d \in Device, NEW S, missed' = Unseen(d, S)
        PROVE  \A q \in Process : w \notin missed'[q] =>
                  w \notin missed[q] /\ (Home[q] = d /\ Syncing(q) => w \notin S)
    BY <1>c DEF Unseen
  <1> USE DEF Syncing
  <1>1. ASSUME NEW p \in Process, Export(p) PROVE Unlogged(w)'
    <2>1. ASSUME NEW live \in SUBSET Word, Exported(p, live) PROVE Unlogged(w)'
      <3>1. /\ sync'[p].dead[w] = None /\ sync'[p].words = live
            /\ \A q \in Process \ {p} : sync'[q] = sync[q]
        <4>1. ExportDictionaryTombstones(tomb[Home[p]], live)[w] = None
          BY <1>a, HomeType DEF ExportDictionaryTombstones, Unlogged
        <4>2. QED
          BY <1>b, <2>1, <4>1, ExportStep
      <3>2. /\ missed'[p] = words[Home[p]] \ live
            /\ \A q \in Process \ {p} : missed[q] \subseteq missed'[q]
        BY <2>1 DEF Exported, Unseen
      <3>3. QED
        BY <1>1, <1>a, <3>1, <3>2 DEF Export, Unlogged
    <2>2. words[Home[p]] \in SUBSET Word /\ {} \in SUBSET Word
      BY HomeType DEF TypeOK
    <2>3. QED
      BY <1>1, <2>1, <2>2 DEF Export
  <1>2. ASSUME NEW p \in Process, Merge(p) PROVE Unlogged(w)'
    <2>1. CASE bundle = None
      <3>1. sync' = [sync EXCEPT ![p] = [sync[p] EXCEPT !.step = "write"]]
        BY <1>2, <2>1 DEF Merge
      <3>2. sync'[p].dead = sync[p].dead /\ sync'[p].words = sync[p].words
        BY <1>2, <1>b, <3>1, SyncRecord DEF Merge, Work, TypeOK
      <3>3. QED
        BY <1>2, <1>a, <2>1, <3>1, <3>2 DEF Merge, Unlogged, TypeOK, edits
    <2>2. CASE bundle # None
      <3> DEFINE m == MergeDictionaryWithTombstones(Home[p], sync[p], bundle, now)
      <3>1. m.dead[w] = None /\ (w \in sync[p].words => w \in m.words)
        BY <1>2, <1>a, <2>2, MergeKeeps DEF Merge, Unlogged
      <3>2. /\ sync' = [sync EXCEPT ![p] =
                          [step |-> "write", words |-> m.words, dead |-> m.dead]]
            /\ tomb' = [tomb EXCEPT ![Home[p]] = m.dead] \/ tomb' = tomb
        BY <1>2, <2>2 DEF Merge
      <3> HIDE DEF m
      <3>3. QED
        BY <1>2, <1>a, <3>1, <3>2 DEF Merge, Unlogged, TypeOK, edits
    <2>3. QED
      BY <2>1, <2>2
  <1>3. ASSUME NEW p \in Process, Write(p) PROVE Unlogged(w)'
    <2>1. sync' = [sync EXCEPT ![p] =
                     [sync[p] EXCEPT !.step = "import", !.dead = NoTombstones]]
      BY <1>3 DEF Write, TypeOK
    <2>2. sync'[p].dead[w] = None /\ sync'[p].words = sync[p].words
      BY <1>3, <1>b, <2>1, SyncRecord DEF Write, Work, TypeOK, NoTombstones
    <2>3. QED
      BY <1>3, <1>a, <2>1, <2>2 DEF Write, Unlogged, TypeOK, edits
  <1>4. ASSUME NEW p \in Process, Import(p) PROVE Unlogged(w)'
    <2> DEFINE new == sync[p].words \ words[Home[p]]
    <2>1. ASSUME NEW q \in Process, Syncing(q)'
          PROVE  /\ sync'[q].dead[w] = None
                 /\ w \in words'[Home[q]] /\ w \notin missed'[q] => w \in sync'[q].words
      <3>1. q # p /\ sync'[q] = sync[q] /\ Syncing(q)
        BY <1>4, <2>1 DEF Import, TypeOK
      <3>2. missed'[q] = Unseen(Home[p], new)[q]
        BY <1>4, <3>1 DEF Import, Unseen
      <3>3. CASE Home[q] = Home[p]
        <4>1. missed'[q] = missed[q] \cup new
          BY <3>1, <3>2, <3>3 DEF Unseen
        <4>2. words'[Home[q]] \subseteq words[Home[q]] \cup new
          BY <1>4, <3>3, HomeType DEF Import, TypeOK
        <4>3. QED
          BY <1>a, <3>1, <4>1, <4>2 DEF Unlogged
      <3>4. CASE Home[q] # Home[p]
        <4>1. missed'[q] = missed[q] /\ words'[Home[q]] = words[Home[q]]
          BY <1>4, <3>1, <3>2, <3>4, HomeType DEF Unseen, Import, TypeOK
        <4>2. QED
          BY <1>a, <3>1, <4>1 DEF Unlogged
      <3>5. QED
        BY <3>3, <3>4
    <2>2. QED
      BY <1>4, <1>a, <2>1 DEF Import, Unlogged
  <1>5. ASSUME NEW p \in Process, Leave(p) PROVE Unlogged(w)'
    BY <1>5, <1>a DEF Leave, Unlogged, TypeOK
  <1>6. CASE SyncWithoutDictionary
    BY <1>6, <1>a DEF SyncWithoutDictionary, Unlogged, NoTombstones, edits
  <1>7. ASSUME NEW d \in Device, NEW v \in Word, Add(d, v) PROVE Unlogged(w)'
    <2>1. \A q \in Process : w \notin missed'[q] =>
             w \notin missed[q] /\ (Home[q] = d /\ Syncing(q) => w # v)
      BY <1>7, <1>c DEF Add
    <2>2. \A e \in Device : w \in words'[e] => w \in words[e] \/ (e = d /\ w = v)
      BY <1>7 DEF Add, TypeOK
    <2>3. QED
      BY <1>7, <1>a, <2>1, <2>2, HomeType DEF Add, Unlogged
  <1>8. ASSUME NEW d \in Device, NEW S \in SUBSET Word, SyncToStorage(d, S)
        PROVE  Unlogged(w)'
    <2>1. w \notin S
      BY <1>8, RemovedGone DEF SyncToStorage
    <2>2. \A e \in Device : tomb'[e][w] = None /\ w \notin logged'[e]
      <3>1. MergeDictionaryTombstones(tomb[d], Logged(d, S))[w] = None
        BY <1>a, <2>1 DEF Unlogged, MergeDictionaryTombstones, Logged
      <3>2. tomb' = tomb
              \/ tomb' = [tomb EXCEPT ![d] = MergeDictionaryTombstones(tomb[d], Logged(d, S))]
        BY <1>8 DEF SyncToStorage
      <3>3. QED
        BY <1>8, <1>a, <2>1, <3>1, <3>2 DEF SyncToStorage, Unlogged, TypeOK
    <2>3. QED
      BY <1>8, <1>a, <2>2 DEF SyncToStorage, Unlogged
  <1>9. ASSUME NEW d \in Device, NEW S \in SUBSET Word, DeleteDictionary(d, S)
        PROVE  Unlogged(w)'
    <2>1. \A e \in Device : words'[e] \subseteq words[e]
      BY <1>9 DEF DeleteDictionary, TypeOK
    <2>2. QED
      BY <1>9, <1>a, <2>1, HomeType DEF DeleteDictionary, Unlogged
  <1>10. ASSUME NEW d \in Device, SaveAndReloadServer(d) \/ KeepLogged(d)
         PROVE  Unlogged(w)'
    <2>1. /\ \A e \in Device : words'[e] \subseteq words[e] /\ logged'[e] \subseteq logged[e]
          /\ UNCHANGED <<tomb, bundle, sync, missed>>
      BY <1>10 DEF SaveAndReloadServer, KeepLogged, TypeOK
    <2>2. QED
      BY <1>a, <2>1, HomeType DEF Unlogged
  <1>11. CASE Tick \/ BecomeCalm \/ UNCHANGED vars
    BY <1>11, <1>a DEF Tick, BecomeCalm, vars, edits, Unlogged
  <1>12. QED
    BY <1>1, <1>2, <1>3, <1>4, <1>5, <1>6, <1>7, <1>8, <1>9, <1>10, <1>11
    DEF Next, Step, Fail, ImportRefused

\* A word that no user has removed is lost by no step of any device or process but
\* an import whose export did not see it.
THEOREM UnremovedCorrect == Spec => UnremovedStays
  <1>1. TypeOK /\ KeptInv /\ [Next]_vars =>
          [\A d \in Device, w \in Word :
              w \in words[d] \ words'[d] /\ fate'[w] = "kept" => ImportUnseen(d, w)]_vars
    <2> SUFFICES ASSUME TypeOK, KeptInv, [Next]_vars, NEW d \in Device, NEW w \in Word,
                        w \in words[d], w \notin words'[d], fate'[w] = "kept"
                 PROVE  ImportUnseen(d, w)
      OBVIOUS
    <2>1. fate[w] = "kept" /\ Unlogged(w)
      BY KeptBefore DEF KeptInv
    <2>2. ASSUME NEW p \in Process, Import(p) PROVE ImportUnseen(d, w)
      <3>1. Home[p] = d /\ w \notin sync[p].words
        BY <2>2, HomeType DEF Import, TypeOK
      <3>2. w \in missed[p]
        BY <2>1, <2>2, <3>1 DEF Unlogged, Import
      <3>3. QED
        BY <2>2, <3>1, <3>2 DEF ImportUnseen
    <2>3. ASSUME NEW e \in Device, NEW v \in Word, Add(e, v) PROVE FALSE
      BY <2>3 DEF Add, TypeOK
    <2>4. ASSUME NEW e \in Device, SaveAndReloadServer(e) PROVE FALSE
      BY <2>1, <2>4 DEF SaveAndReloadServer, Unlogged, TypeOK
    <2>5. ASSUME NEW e \in Device, NEW S \in SUBSET Word, DeleteDictionary(e, S)
          PROVE  FALSE
      <3>1. w \notin S
        BY <2>5, RemovedGone DEF DeleteDictionary
      <3>2. QED
        BY <2>5, <3>1 DEF DeleteDictionary, TypeOK
    <2>6. CASE UNCHANGED words
      BY <2>6
    <2>7. QED
      BY <2>2, <2>3, <2>4, <2>5, <2>6
      DEF Next, Step, Export, Merge, Write, ImportRefused, Fail, Leave, SyncWithoutDictionary,
          SyncToStorage, KeepLogged, Tick, BecomeCalm, vars
  <1>2. QED
    BY TypeCorrect, KeptInit, KeptStep, <1>1, PTL DEF Spec, UnremovedStays

-----------------------------------------------------------------------------
(* A logged deletion stands.                                               *)

\* While a deletion stands, its device has a tombstone at least as late.  Until the
\* file is saved no synchronisation of the device is under way; those that begin
\* later do not have the word, and until their merge they have such a tombstone too.
Standing(d, w) ==
    LET t == down[d][w]
    IN  /\ w \in logged[d] \/ w \notin words[d]
        /\ t <= now /\ now <= t + Retention
        /\ tomb[d][w] # None /\ tomb[d][w].at >= t
        /\ \A p \in Process : Home[p] = d /\ Syncing(p) =>
              /\ w \notin logged[d]
              /\ w \notin sync[p].words
              /\ sync[p].step = "merge" => sync[p].dead[w] # None /\ sync[p].dead[w].at >= t

DownInv == \A d \in Device, w \in Word : down[d][w] # None => Standing(d, w)

LEMMA DownInit == Init => DownInv
  BY DEF Init, DownInv, NoTombstones

\* The winner of two tombstones is as late as either.
LEMMA MergeLate ==
  ASSUME NEW l \in Tombstones, NEW r \in Tombstones, NEW w \in Word, NEW t \in Times,
         \/ l[w] # None /\ l[w].at >= t
         \/ r[w] # None /\ r[w].at >= t
  PROVE  LET m == MergeDictionaryTombstones(l, r)
         IN  m[w] # None /\ m[w].at >= t
  <1>1. /\ l[w] # None => l[w].at \in Int /\ l[w].by \in Int
        /\ r[w] # None => r[w].at \in Int /\ r[w].by \in Int
    <2>1. Times \subseteq Int
      BY DEF Times
    <2>2. \A x \in Tombstone : x.at \in Int /\ x.by \in Int
      BY <2>1, DevicesAssumption DEF Tombstone, Times
    <2>3. l[w] \in Tombstone \cup {None} /\ r[w] \in Tombstone \cup {None}
      BY DEF Tombstones
    <2>4. QED
      BY <2>2, <2>3
  <1>2. t \in Int
    BY DEF Times
  <1>3. QED
    BY <1>1, <1>2 DEF MergeDictionaryTombstones, TombstoneWinsOver

\* A merge of a side that has no longer the word but a tombstone within the time of
\* retention does not bring the word back, and keeps a tombstone.
LEMMA MergeStands ==
  ASSUME NEW d \in Device, NEW w \in Word, NEW t \in Times, NEW time \in Times,
         time <= t + Retention,
         NEW local, w \notin local.words, local.dead \in Tombstones,
         local.dead[w] # None, local.dead[w].at >= t,
         NEW remote, remote.dead \in Tombstones
  PROVE  LET m == MergeDictionaryWithTombstones(d, local, remote, time)
         IN  w \notin m.words /\ m.dead[w] # None /\ m.dead[w].at >= t
  <1> DEFINE dead == MergeDictionaryTombstones(local.dead, remote.dead)
             live == (local.words \cup remote.words)
                       \ Removed(d, local.words, remote.words, dead)
  <1>1. dead[w] # None /\ dead[w].at >= t /\ dead \in Tombstones
    BY MergeLate, MergeType
  <1>2. w \notin live
    BY <1>1 DEF Removed
  <1>3. dead[w].at >= time - Retention
    <2>1. dead[w].at \in Int /\ t \in Int /\ time \in Int /\ Retention \in Int
      BY <1>1, DevicesAssumption DEF Tombstones, Tombstone, Times
    <2>2. QED
      BY <1>1, <2>1
  <1> HIDE DEF dead, live
  <1>4. CompactDictionaryTombstones(dead, live, time)[w] = dead[w]
    BY <1>1, <1>2, <1>3 DEF CompactDictionaryTombstones
  <1>5. MergeDictionaryWithTombstones(d, local, remote, time) =
          [words |-> live, dead |-> CompactDictionaryTombstones(dead, live, time)]
    BY DEF MergeDictionaryWithTombstones, dead, live
  <1>6. QED
    BY <1>1, <1>2, <1>4, <1>5

LEMMA DownStep == TypeOK /\ DownInv /\ [Next]_vars => DownInv'
  <1> SUFFICES ASSUME TypeOK, DownInv, [Next]_vars,
                      NEW e \in Device, NEW w \in Word, down'[e][w] # None
               PROVE  Standing(e, w)'
    BY DEF DownInv
  <1>b. DataOK
    BY TypeParts
  <1>c. down[e][w] # None => Standing(e, w) /\ down[e][w] \in Times
    BY DEF DownInv, TypeOK
  <1> USE DEF Syncing
  <1>1. ASSUME NEW p \in Process, Export(p) PROVE Standing(e, w)'
    <2>0. /\ down'[e][w] = down[e][w]
          /\ e = Home[p] => w \notin logged[e]
      BY <1>1, HomeType DEF Export, TypeOK
    <2>1. ASSUME NEW live \in SUBSET words[Home[p]], Exported(p, live) PROVE Standing(e, w)'
      <3>0. live \subseteq Word
        BY HomeType DEF TypeOK
      <3>1. /\ sync'[p].step = "merge" /\ sync'[p].words = live
            /\ sync'[p].dead = ExportDictionaryTombstones(tomb[Home[p]], live)
            /\ \A q \in Process \ {p} : sync'[q] = sync[q]
        BY <1>b, <2>1, <3>0, ExportStep
      <3>2. CASE e = Home[p]
        <4>1. w \notin live /\ tomb[e][w] # None /\ tomb[e][w].at >= down[e][w]
          BY <1>c, <2>0, <3>2 DEF Standing
        <4>2. sync'[p].dead[w] = tomb[e][w]
          BY <3>1, <3>2, <4>1 DEF ExportDictionaryTombstones
        <4>3. QED
          BY <1>1, <1>c, <2>0, <3>1, <4>1, <4>2 DEF Export, Standing
      <3>3. CASE e # Home[p]
        BY <1>1, <1>c, <2>0, <3>1, <3>3 DEF Export, Standing
      <3>4. QED
        BY <3>2, <3>3
    <2>2. QED
      BY <1>1, <2>1 DEF Export
  <1>2. ASSUME NEW p \in Process, Merge(p) PROVE Standing(e, w)'
    <2>0. down[e][w] # None /\ Standing(e, w) /\ down[e][w] \in Times
      BY <1>2, <1>c DEF Merge, edits
    <2>1. CASE e # Home[p]
      <3>1. /\ \A q \in Process : Home[q] = e => sync'[q] = sync[q]
            /\ tomb'[e] = tomb[e]
        <4>1. CASE bundle = None
          BY <1>2, <2>1, <4>1 DEF Merge, TypeOK
        <4>2. CASE bundle # None
          BY <1>2, <2>1, <4>2 DEF Merge, TypeOK
        <4>3. QED
          BY <4>1, <4>2
      <3>2. QED
        BY <1>2, <2>0, <3>1 DEF Merge, Standing, edits
    <2>2. CASE e = Home[p] /\ bundle = None
      <3>1. sync' = [sync EXCEPT ![p] = [sync[p] EXCEPT !.step = "write"]]
        BY <1>2, <2>2 DEF Merge
      <3>2. sync'[p].words = sync[p].words /\ sync'[p].step = "write"
        BY <1>2, <1>b, <3>1, SyncRecord DEF Merge, Work, TypeOK
      <3>3. \A q \in Process \ {p} : sync'[q] = sync[q]
        BY <3>1 DEF TypeOK
      <3>4. QED
        BY <1>2, <2>0, <2>2, <3>2, <3>3 DEF Merge, Standing, edits
    <2>3. CASE e = Home[p] /\ bundle # None
      <3> DEFINE m == MergeDictionaryWithTombstones(Home[p], sync[p], bundle, now)
      <3>1. w \notin m.words /\ m.dead[w] # None /\ m.dead[w].at >= down[e][w]
        <4>1. sync[p].dead \in Tombstones /\ bundle.dead \in Tombstones /\ now \in Times
          BY <1>2, <1>b, <2>3, SyncRecord, BundleRecord DEF Merge, DataOK
        <4>2. /\ w \notin sync[p].words /\ sync[p].dead[w] # None
              /\ sync[p].dead[w].at >= down[e][w] /\ now <= down[e][w] + Retention
          BY <1>2, <2>0, <2>3 DEF Merge, Standing
        <4>3. QED
          BY <2>0, <4>1, <4>2, MergeStands, HomeType
      <3>2. /\ sync' = [sync EXCEPT ![p] =
                          [step |-> "write", words |-> m.words, dead |-> m.dead]]
            /\ tomb' = [tomb EXCEPT ![Home[p]] = m.dead] \/ tomb' = tomb
        BY <1>2, <2>3 DEF Merge
      <3> HIDE DEF m
      <3>3. /\ sync'[p].words = m.words /\ sync'[p].step = "write"
            /\ \A q \in Process \ {p} : sync'[q] = sync[q]
        BY <3>2 DEF TypeOK
      <3>4. tomb'[e][w] # None /\ tomb'[e][w].at >= down[e][w]
        BY <2>0, <2>3, <3>1, <3>2 DEF TypeOK, Standing
      <3>5. QED
        BY <1>2, <2>0, <3>1, <3>3, <3>4 DEF Merge, Standing, edits
    <2>4. QED
      BY <2>1, <2>2, <2>3
  <1>3. ASSUME NEW p \in Process, Write(p) PROVE Standing(e, w)'
    <2>1. sync' = [sync EXCEPT ![p] =
                     [sync[p] EXCEPT !.step = "import", !.dead = NoTombstones]]
      BY <1>3 DEF Write, TypeOK
    <2>2. /\ sync'[p].words = sync[p].words /\ sync'[p].step = "import"
          /\ \A q \in Process \ {p} : sync'[q] = sync[q]
      BY <1>3, <1>b, <2>1, SyncRecord DEF Write, Work, TypeOK
    <2>3. QED
      BY <1>3, <1>c, <2>2 DEF Write, Standing, edits
  <1>4. ASSUME NEW p \in Process, Import(p) PROVE Standing(e, w)'
    <2>1. \A q \in Process : Syncing(q)' => Syncing(q) /\ sync'[q] = sync[q]
      BY <1>4 DEF Import, TypeOK
    <2>2. w \in logged[e] \/ w \notin words'[e]
      <3>1. CASE e = Home[p]
        <4>1. w \notin sync[p].words /\ words'[e] = sync[p].words
          BY <1>4, <1>c, <3>1 DEF Import, Standing, TypeOK
        <4>2. QED
          BY <4>1
      <3>2. CASE e # Home[p]
        BY <1>4, <1>c, <3>2 DEF Import, Standing, TypeOK
      <3>3. QED
        BY <3>1, <3>2
    <2>3. QED
      BY <1>4, <1>c, <2>1, <2>2 DEF Import, Standing
  <1>5. ASSUME NEW p \in Process, Leave(p) PROVE Standing(e, w)'
    BY <1>5, <1>c DEF Leave, Standing, TypeOK
  <1>6. CASE SyncWithoutDictionary
    BY <1>6, <1>c DEF SyncWithoutDictionary, Standing, edits
  <1>7. ASSUME NEW d \in Device, NEW v \in Word, Add(d, v) PROVE Standing(e, w)'
    <2>1. down[e][w] = down'[e][w] /\ (e = d => v # w)
      BY <1>7 DEF Add, TypeOK
    <2>2. w \notin words[e] => w \notin words'[e]
      BY <1>7, <2>1 DEF Add, TypeOK
    <2>3. QED
      BY <1>7, <1>c, <2>1, <2>2 DEF Add, Standing
  <1>8. ASSUME NEW d \in Device, NEW S \in SUBSET Word, SyncToStorage(d, S)
        PROVE  Standing(e, w)'
    <2> DEFINE log == Logged(d, S)
    <2>0. log \in Tombstones /\ now \in Times /\ now \in Int /\ Retention \in Nat
      BY LoggedType, DevicesAssumption DEF TypeOK, Times
    <2>1. /\ tomb' = [tomb EXCEPT ![d] = MergeDictionaryTombstones(tomb[d], log)]
             \/ tomb' = tomb
          /\ UNCHANGED <<words, sync, now>>
          /\ logged' = [logged EXCEPT ![d] = @ \cup S]
      BY <1>8 DEF SyncToStorage
    <2>2. CASE e = d /\ w \in S
      <3>1. down[e][w] = None
        BY <1>8, <1>c, <2>2 DEF SyncToStorage, Standing
      <3>2. /\ down'[e][w] = now
            /\ \A p \in Process : ~(Home[p] = d /\ Syncing(p))
            /\ tomb' = [tomb EXCEPT ![d] = MergeDictionaryTombstones(tomb[d], log)]
        BY <1>8, <2>2, <3>1 DEF SyncToStorage, TypeOK
      <3>3. log[w] # None /\ log[w].at = now
        <4>1. log[w] = [at |-> now, by |-> d]
          BY <2>2 DEF Logged
        <4>2. log[w] \in Tombstone
          BY <2>0, <4>1 DEF Tombstone, Times
        <4>3. QED
          BY <4>1, <4>2, DevicesAssumption
      <3>4. LET m == MergeDictionaryTombstones(tomb[d], log)
            IN  m[w] # None /\ m[w].at >= now
        <4>1. tomb[d] \in Tombstones
          BY DEF TypeOK
        <4> HIDE DEF log
        <4>2. log[w].at >= now
          BY <2>0, <3>3
        <4>3. QED
          BY <2>0, <3>3, <4>1, <4>2, MergeLate
      <3> HIDE DEF log
      <3>5. tomb'[e][w] # None /\ tomb'[e][w].at >= now /\ w \in logged'[e]
        BY <2>1, <2>2, <3>2, <3>4 DEF TypeOK
      <3>6. QED
        BY <2>0, <2>1, <2>2, <3>2, <3>5 DEF Standing
    <2>3. CASE ~(e = d /\ w \in S)
      <3>1. /\ down'[e][w] = down[e][w]
            /\ w \in logged'[e] <=> w \in logged[e]
        BY <1>8, <2>3 DEF SyncToStorage, TypeOK
      <3>2. tomb'[e][w] # None /\ tomb'[e][w].at >= down[e][w]
        <4>1. tomb[e] \in Tombstones /\ tomb[e][w] # None /\ tomb[e][w].at >= down[e][w]
          BY <1>c, <3>1 DEF Standing, TypeOK
        <4>2. LET m == MergeDictionaryTombstones(tomb[e], log)
              IN  m[w] # None /\ m[w].at >= down[e][w]
          BY <1>c, <2>0, <3>1, <4>1, MergeLate
        <4> HIDE DEF log
        <4>3. QED
          BY <2>1, <4>1, <4>2 DEF TypeOK
      <3>3. QED
        BY <1>c, <2>1, <3>1, <3>2 DEF Standing
    <2>4. QED
      BY <2>2, <2>3
  <1>9. ASSUME NEW d \in Device, NEW S \in SUBSET Word, DeleteDictionary(d, S)
        PROVE  Standing(e, w)'
    BY <1>9, <1>c DEF DeleteDictionary, Standing, TypeOK
  <1>10. ASSUME NEW d \in Device, SaveAndReloadServer(d) PROVE Standing(e, w)'
    <2>1. UNCHANGED <<tomb, sync, now, down>>
      BY <1>10 DEF SaveAndReloadServer
    <2>2. w \in logged[e] \/ w \notin words[e]
      BY <1>c, <2>1 DEF Standing
    <2>3. /\ w \in logged'[e] \/ w \notin words'[e]
          /\ w \in logged'[e] => w \in logged[e]
      <3>1. /\ words' = [words EXCEPT ![d] = words[d] \ logged[d]]
            /\ logged' = [logged EXCEPT ![d] = {}]
        BY <1>10 DEF SaveAndReloadServer
      <3>2. words \in [Device -> SUBSET Word] /\ logged \in [Device -> SUBSET Word]
        BY DEF TypeOK
      <3>3. QED
        BY <2>2, <3>1, <3>2
    <2>4. QED
      BY <1>c, <2>1, <2>3 DEF Standing
  <1>11. ASSUME NEW d \in Device, KeepLogged(d) PROVE Standing(e, w)'
    <2>1. /\ down'[e][w] = down[e][w]
          /\ w \notin logged[e] \/ w \in logged'[e]
          /\ \A v \in Word : v \in logged'[e] => v \in logged[e]
          /\ UNCHANGED <<words, tomb, sync, now>>
      BY <1>11 DEF KeepLogged, TypeOK
    <2>2. QED
      BY <1>c, <2>1 DEF Standing
  <1>12. CASE Tick
    <2>1. down'[e][w] = down[e][w] /\ now' <= down[e][w] + Retention
      BY <1>12 DEF Tick
    <2>2. down[e][w] <= now'
      BY <1>12, <1>c, <2>1 DEF Tick, Standing, TypeOK, Times
    <2>3. QED
      BY <1>12, <1>c, <2>1, <2>2 DEF Tick, Standing
  <1>13. CASE BecomeCalm \/ UNCHANGED vars
    BY <1>13, <1>c DEF BecomeCalm, vars, edits, Standing
  <1>14. QED
    BY <1>1, <1>2, <1>3, <1>4, <1>5, <1>6, <1>7, <1>8, <1>9, <1>10, <1>11, <1>12, <1>13
    DEF Next, Step, Fail, ImportRefused

\* A deletion that was logged, and saved before any synchronisation of its device,
\* stands there for the time of retention.
THEOREM DeletionCorrect == Spec => []DeletionStands
  <1>1. DownInv => DeletionStands
    BY DEF DownInv, Standing, DeletionStands
  <1>2. QED
    BY TypeCorrect, DownInit, DownStep, <1>1, PTL DEF Spec
-----------------------------------------------------------------------------
(* The order in which tombstones meet does not matter.                     *)

LEMMA Stamps ==
  ASSUME NEW a \in Tombstone
  PROVE  a.at \in Int /\ a.by \in Int
  <1>1. 0 .. MaxTime \subseteq Int /\ Device \subseteq Int
    BY DevicesAssumption
  <1>2. QED
    BY <1>1 DEF Tombstone

\* Tombstones are in a total order.
LEMMA WinsTotal ==
  ASSUME NEW a \in Tombstone, NEW b \in Tombstone
  PROVE  /\ ~ (TombstoneWinsOver(a, b) /\ TombstoneWinsOver(b, a))
         /\ ~ TombstoneWinsOver(a, b) /\ ~ TombstoneWinsOver(b, a) => a = b
  <1>1. /\ a.at \in Int /\ b.at \in Int /\ a.by \in Int /\ b.by \in Int
    BY Stamps
  <1>2. a.at = b.at /\ a.by = b.by => a = b
    BY DEF Tombstone
  <1>3. QED
    BY <1>1, <1>2 DEF TombstoneWinsOver

LEMMA WinsTransitive ==
  ASSUME NEW a \in Tombstone, NEW b \in Tombstone, NEW c \in Tombstone,
         TombstoneWinsOver(a, b), TombstoneWinsOver(b, c)
  PROVE  TombstoneWinsOver(a, c)
  <1>1. /\ a.at \in Int /\ b.at \in Int /\ c.at \in Int
        /\ a.by \in Int /\ b.by \in Int /\ c.by \in Int
    BY Stamps
  <1>2. QED
    BY <1>1 DEF TombstoneWinsOver

\* What the merge makes of one word.
Later(a, b) == IF a = None \/ (b # None /\ TombstoneWinsOver(b, a)) THEN b ELSE a

LEMMA LaterType ==
  ASSUME NEW a \in Tombstone \cup {None}, NEW b \in Tombstone \cup {None}
  PROVE  Later(a, b) \in Tombstone \cup {None}
  BY DEF Later

LEMMA LaterCommutes ==
  ASSUME NEW a \in Tombstone \cup {None}, NEW b \in Tombstone \cup {None}
  PROVE  Later(a, b) = Later(b, a)
  <1>1. CASE a = None \/ b = None
    BY <1>1 DEF Later
  <1>2. CASE a # None /\ b # None
    <2>1. a \in Tombstone /\ b \in Tombstone
      BY <1>2
    <2>2. QED
      BY <1>2, <2>1, WinsTotal DEF Later
  <1>3. QED
    BY <1>1, <1>2

LEMMA LaterAssociates ==
  ASSUME NEW a \in Tombstone \cup {None}, NEW b \in Tombstone \cup {None},
         NEW c \in Tombstone \cup {None}
  PROVE  Later(a, Later(b, c)) = Later(Later(a, b), c)
  <1>1. CASE a = None \/ b = None \/ c = None
    BY <1>1 DEF Later
  <1>2. CASE a # None /\ b # None /\ c # None
    <2>1. a \in Tombstone /\ b \in Tombstone /\ c \in Tombstone
      BY <1>2
    <2>2. CASE TombstoneWinsOver(b, a) /\ TombstoneWinsOver(c, b)
      <3>1. TombstoneWinsOver(c, a)
        BY <2>1, <2>2, WinsTransitive
      <3>2. QED
        BY <1>2, <2>2, <3>1 DEF Later
    <2>3. CASE TombstoneWinsOver(b, a) /\ ~ TombstoneWinsOver(c, b)
      BY <1>2, <2>3 DEF Later
    <2>4. CASE ~ TombstoneWinsOver(b, a) /\ TombstoneWinsOver(c, b)
      BY <1>2, <2>4 DEF Later
    <2>5. CASE ~ TombstoneWinsOver(b, a) /\ ~ TombstoneWinsOver(c, b)
      <3>1. ~ TombstoneWinsOver(c, a)
        <4>1. a = b \/ TombstoneWinsOver(a, b)
          BY <2>1, <2>5, WinsTotal
        <4>2. b = c \/ TombstoneWinsOver(b, c)
          BY <2>1, <2>5, WinsTotal
        <4>3. a = c \/ TombstoneWinsOver(a, c)
          BY <2>1, <4>1, <4>2, WinsTransitive
        <4>4. QED
          BY <2>1, <4>3, WinsTotal
      <3>2. QED
        BY <1>2, <2>5, <3>1 DEF Later
    <2>6. QED
      BY <2>2, <2>3, <2>4, <2>5
  <1>3. QED
    BY <1>1, <1>2

LEMMA MergeWord ==
  ASSUME NEW l, NEW r
  PROVE  MergeDictionaryTombstones(l, r) = [w \in Word |-> Later(l[w], r[w])]
  BY DEF MergeDictionaryTombstones, Later

\* Tombstones may be merged in any order, any number of times: devices that have
\* seen the same ones have the same, by whatever bundles they came.
THEOREM MergeIsJoin ==
  \A a, b, c \in Tombstones :
     /\ MergeDictionaryTombstones(a, b) = MergeDictionaryTombstones(b, a)
     /\ MergeDictionaryTombstones(a, a) = a
     /\ MergeDictionaryTombstones(a, MergeDictionaryTombstones(b, c)) =
          MergeDictionaryTombstones(MergeDictionaryTombstones(a, b), c)
  <1> TAKE a, b, c \in Tombstones
  <1>1. \A w \in Word : /\ a[w] \in Tombstone \cup {None}
                        /\ b[w] \in Tombstone \cup {None}
                        /\ c[w] \in Tombstone \cup {None}
    BY DEF Tombstones
  <1>2. MergeDictionaryTombstones(a, b) = MergeDictionaryTombstones(b, a)
    <2>1. \A w \in Word : Later(a[w], b[w]) = Later(b[w], a[w])
      BY <1>1, LaterCommutes
    <2>2. QED
      BY <2>1, MergeWord
  <1>3. MergeDictionaryTombstones(a, a) = a
    <2>1. \A w \in Word : Later(a[w], a[w]) = a[w]
      BY DEF Later
    <2>2. a = [w \in Word |-> a[w]]
      BY DEF Tombstones
    <2>3. QED
      BY <2>1, <2>2, MergeWord
  <1>4. MergeDictionaryTombstones(a, MergeDictionaryTombstones(b, c)) =
          MergeDictionaryTombstones(MergeDictionaryTombstones(a, b), c)
    <2> DEFINE bc == MergeDictionaryTombstones(b, c)
               ab == MergeDictionaryTombstones(a, b)
    <2>1. \A w \in Word : bc[w] = Later(b[w], c[w]) /\ ab[w] = Later(a[w], b[w])
      BY MergeWord
    <2> HIDE DEF bc, ab
    <2>2. \A w \in Word : Later(a[w], bc[w]) = Later(ab[w], c[w])
      <3> SUFFICES ASSUME NEW w \in Word PROVE Later(a[w], bc[w]) = Later(ab[w], c[w])
        OBVIOUS
      <3>1. Later(a[w], Later(b[w], c[w])) = Later(Later(a[w], b[w]), c[w])
        BY <1>1, LaterAssociates
      <3>2. QED
        BY <2>1, <3>1
    <2>3. MergeDictionaryTombstones(a, bc) = MergeDictionaryTombstones(ab, c)
      BY <2>2, MergeWord
    <2>4. QED
      BY <2>3 DEF bc, ab
  <1>5. QED
    BY <1>2, <1>3, <1>4

-----------------------------------------------------------------------------
(* Once the users have stopped.  Whether the devices come to agree is left *)
(* to the model checker; here is that a turn leads there, and that nothing *)
(* leads away.                                                             *)

\* What a step is then.
LEMMA CalmSteps ==
  ASSUME TypeOK, calm, [Next]_vars
  PROVE  \/ \E p \in Process : /\ Exported(p, words[Home[p]])
                               /\ \A q \in Process : ~Syncing(q)
                               /\ UNCHANGED <<words, bundle, fate>>
         \/ \E p \in Process : Merge(p) \/ Write(p) \/ Import(p) \/ Leave(p)
         \/ UNCHANGED <<words, tomb, bundle, sync, fate>>
  <1>1. ASSUME NEW p \in Process, Export(p)
        PROVE  /\ Exported(p, words[Home[p]])
               /\ \A q \in Process : ~Syncing(q)
               /\ UNCHANGED <<words, bundle, fate>>
    BY <1>1 DEF Export, Fault
  <1>2. ASSUME NEW p \in Process, ImportRefused(p) PROVE Leave(p)
    BY <1>2 DEF ImportRefused
  <1>3. ASSUME \/ \E p \in Process : Fail(p)
               \/ SyncWithoutDictionary
               \/ \E d \in Device :
                    \/ \E w \in Word : Add(d, w)
                    \/ \E S \in SUBSET Word : SyncToStorage(d, S) \/ DeleteDictionary(d, S)
                    \/ SaveAndReloadServer(d) \/ KeepLogged(d)
        PROVE  FALSE
    BY <1>3 DEF Fail, SyncWithoutDictionary, Fault, Edit, Add, SyncToStorage,
       DeleteDictionary, SaveAndReloadServer, KeepLogged
  <1>4. Tick \/ BecomeCalm \/ UNCHANGED vars => UNCHANGED <<words, tomb, bundle, sync, fate>>
    BY DEF Tick, BecomeCalm, vars, edits
  <1>5. QED
    BY <1>1, <1>2, <1>3, <1>4 DEF Next, Step

\* A word that both sides have stays, and one that neither has does not come; with
\* no tombstone on either side, the words of the merge are those of both.
LEMMA MergeAgrees ==
  ASSUME NEW d, NEW local, NEW remote, NEW time, NEW w \in Word
  PROVE  LET m == MergeDictionaryWithTombstones(d, local, remote, time)
         IN  /\ (w \in local.words <=> w \in remote.words)
                  => (w \in m.words <=> w \in remote.words)
             /\ local.dead[w] = None /\ remote.dead[w] = None
                  => (w \in m.words <=> w \in local.words \cup remote.words)
  BY DEF MergeDictionaryWithTombstones, MergeDictionaryTombstones, Removed

\* What each of those steps does to the words of a synchronisation.
LEMMA MergeStep ==
  ASSUME TypeOK, NEW p \in Process, Merge(p)
  PROVE  /\ Syncing(p)' /\ sync'[p].step = "write"
         /\ \A q \in Process \ {p} : sync'[q] = sync[q]
         /\ UNCHANGED <<words, bundle, fate, calm>>
         /\ IF bundle = None THEN sync'[p].words = sync[p].words
            ELSE sync'[p].words =
                   MergeDictionaryWithTombstones(Home[p], sync[p], bundle, now).words
  <1>1. /\ sync[p] \in Work /\ sync \in [Process -> Work \cup {None}]
        /\ UNCHANGED <<words, bundle, fate, calm>>
    BY TypeParts, SyncRecord DEF Merge, edits, DataOK
  <1>3. CASE bundle = None
    <2>1. sync' = [sync EXCEPT ![p] = [sync[p] EXCEPT !.step = "write"]]
      BY <1>3 DEF Merge
    <2>2. sync'[p] = [sync[p] EXCEPT !.step = "write"]
      BY <1>1, <2>1
    <2>3. sync'[p] \in Work
      BY <1>1, <2>2 DEF Work, Steps
    <2>4. sync'[p] # None
      BY <2>3, DevicesAssumption
    <2>5. QED
      BY <1>1, <1>3, <2>1, <2>2, <2>4 DEF Syncing, Work
  <1>4. CASE bundle # None
    <2> DEFINE m == MergeDictionaryWithTombstones(Home[p], sync[p], bundle, now)
    <2>1. sync' = [sync EXCEPT ![p] =
                     [step |-> "write", words |-> m.words, dead |-> m.dead]]
      BY <1>4 DEF Merge
    <2>2. m.words \subseteq Word /\ m.dead \in Tombstones
      BY <1>4, TypeParts, SyncRecord, BundleRecord, WholeMergeType, HomeType DEF Merge, DataOK
    <2> HIDE DEF m
    <2>3. sync'[p] = [step |-> "write", words |-> m.words, dead |-> m.dead]
      BY <1>1, <2>1
    <2>4. sync'[p] \in Work
      BY <2>2, <2>3 DEF Work, Steps
    <2>5. sync'[p] # None
      BY <2>4, DevicesAssumption
    <2>6. \A q \in Process \ {p} : sync'[q] = sync[q]
      BY <1>1, <2>1
    <2>7. QED
      BY <1>1, <1>4, <2>3, <2>5, <2>6 DEF Syncing, m
  <1>5. QED
    BY <1>3, <1>4

LEMMA WriteStep ==
  ASSUME TypeOK, NEW p \in Process, Write(p)
  PROVE  /\ Syncing(p)' /\ sync'[p].step = "import"
         /\ sync'[p].words = sync[p].words
         /\ \A q \in Process \ {p} : sync'[q] = sync[q]
         /\ bundle' # None /\ bundle'.words = sync[p].words
         /\ UNCHANGED <<words, fate, calm>>
  <1>1. /\ sync[p] \in Work /\ sync \in [Process -> Work \cup {None}]
        /\ UNCHANGED <<words, fate, calm>>
    BY TypeParts, SyncRecord DEF Write, edits, DataOK
  <1>2. sync' = [sync EXCEPT ![p] =
                   [sync[p] EXCEPT !.step = "import", !.dead = NoTombstones]]
    BY DEF Write, TypeOK
  <1>3. sync'[p] = [sync[p] EXCEPT !.step = "import", !.dead = NoTombstones]
    BY <1>1, <1>2
  <1>4. sync'[p] \in Work
    BY <1>1, <1>3, NoneType DEF Work, Steps
  <1>5. sync'[p] # None
    BY <1>4, DevicesAssumption
  <1>6. sync'[p].step = "import" /\ sync'[p].words = sync[p].words
    BY <1>1, <1>3 DEF Work
  <1>7. \A q \in Process \ {p} : sync'[q] = sync[q]
    BY <1>1, <1>2
  <1>8. bundle' # None /\ bundle'.words = sync[p].words
    <2>1. bundle' = [words |-> sync[p].words, dead |-> sync[p].dead]
      BY DEF Write
    <2>2. bundle' \in Bundle
      BY <1>1, <2>1 DEF Bundle, Work
    <2>3. QED
      BY <2>1, <2>2, DevicesAssumption
  <1>9. QED
    BY <1>1, <1>5, <1>6, <1>7, <1>8 DEF Syncing

LEMMA ImportStep ==
  ASSUME TypeOK, NEW p \in Process, Import(p)
  PROVE  /\ sync[p].step = "import" /\ Syncing(p)
         /\ ~Syncing(p)'
         /\ \A q \in Process \ {p} : sync'[q] = sync[q]
         /\ \A d \in Device \ {Home[p]} : words'[d] = words[d]
         /\ words'[Home[p]] = sync[p].words
         /\ UNCHANGED <<bundle, calm>>
         /\ \A w \in Word : fate'[w] = "kept" => fate[w] = "kept"
  <1>1. \A w \in Word : fate'[w] = "kept" => fate[w] = "kept"
    BY DEF Import, AfterReturn, TypeOK
  <1>2. words'[Home[p]] = sync[p].words
    <2>1. words' = [words EXCEPT ![Home[p]] =
                       {w \in words[Home[p]] : w \in sync[p].words}
                           \cup (sync[p].words \ words[Home[p]])]
      BY DEF Import
    <2>2. QED
      BY <2>1, HomeType DEF TypeOK
  <1>3. QED
    BY <1>1, <1>2 DEF Import, Syncing, TypeOK

LEMMA LeaveStep ==
  ASSUME TypeOK, NEW p \in Process, Leave(p)
  PROVE  /\ \A q \in Process : Syncing(q)' => Syncing(q) /\ sync'[q] = sync[q]
         /\ UNCHANGED <<words, bundle, fate, calm>>
  BY DEF Leave, Syncing, TypeOK

\* On the word w every device, every synchronisation and the bundle agree.
AgreedOn(w) ==
    /\ bundle # None
    /\ \A d \in Device : w \in words[d] <=> w \in bundle.words
    /\ \A p \in Process : Syncing(p) => (w \in sync[p].words <=> w \in bundle.words)

\* Agreement on a word is for good: no turn of any device, and no tombstone that is
\* still around or expires, brings a word back or takes it away that all agree on,
\* whatever users did to it before.  The half of Converges that is about "stay".
THEOREM AgreementStays ==
  Spec => [][\A w \in Word : calm /\ AgreedOn(w) => AgreedOn(w)']_vars
  <1>1. TypeOK /\ [Next]_vars => [\A w \in Word : calm /\ AgreedOn(w) => AgreedOn(w)']_vars
    <2> SUFFICES ASSUME TypeOK, [Next]_vars, NEW w \in Word, calm, AgreedOn(w)
                 PROVE  AgreedOn(w)'
      OBVIOUS
    <2>1. ASSUME NEW p \in Process, Exported(p, words[Home[p]]), UNCHANGED <<words, bundle>>
          PROVE  AgreedOn(w)'
      <3>1. words[Home[p]] \in SUBSET Word /\ Home[p] \in Device
        BY HomeType DEF TypeOK
      <3>2. sync'[p].words = words[Home[p]] /\ \A q \in Process \ {p} : sync'[q] = sync[q]
        BY <2>1, <3>1, TypeParts, ExportStep
      <3>3. \A q \in Process : Syncing(q)' => (w \in sync'[q].words <=> w \in bundle.words)
        BY <3>1, <3>2 DEF AgreedOn, Syncing
      <3>4. QED
        BY <2>1, <3>3 DEF AgreedOn
    <2>2. ASSUME NEW p \in Process, Merge(p) PROVE AgreedOn(w)'
      <3>1. /\ \A q \in Process \ {p} : sync'[q] = sync[q]
            /\ sync'[p].words =
                  MergeDictionaryWithTombstones(Home[p], sync[p], bundle, now).words
            /\ UNCHANGED <<words, bundle>>
        BY <2>2, MergeStep DEF AgreedOn
      <3>2. w \in sync[p].words <=> w \in bundle.words
        BY <2>2 DEF Merge, AgreedOn
      <3>3. w \in sync'[p].words <=> w \in bundle.words
        BY <3>1, <3>2, MergeAgrees
      <3>4. QED
        BY <3>1, <3>3 DEF AgreedOn, Syncing
    <2>3. ASSUME NEW p \in Process, Write(p) PROVE AgreedOn(w)'
      <3>1. /\ \A q \in Process : Syncing(q)' => Syncing(q) /\ sync'[q].words = sync[q].words
            /\ bundle' # None /\ bundle'.words = sync[p].words
            /\ UNCHANGED words
        BY <2>3, WriteStep DEF Write, Syncing
      <3>2. w \in bundle'.words <=> w \in bundle.words
        BY <2>3, <3>1 DEF Write, AgreedOn
      <3>3. QED
        BY <3>1, <3>2 DEF AgreedOn
    <2>4. ASSUME NEW p \in Process, Import(p) PROVE AgreedOn(w)'
      <3>1. w \in words'[Home[p]] <=> w \in bundle.words
        BY <2>4, ImportStep DEF AgreedOn
      <3>2. \A d \in Device : w \in words'[d] <=> w \in bundle.words
        BY <2>4, <3>1, ImportStep DEF AgreedOn
      <3>3. \A q \in Process : Syncing(q)' => Syncing(q) /\ sync'[q] = sync[q]
        BY <2>4, ImportStep DEF Syncing
      <3>4. bundle' = bundle
        BY <2>4, ImportStep
      <3>5. QED
        BY <3>2, <3>3, <3>4 DEF AgreedOn
    <2>5. ASSUME NEW p \in Process, Leave(p) PROVE AgreedOn(w)'
      BY <2>5, LeaveStep DEF AgreedOn
    <2>6. CASE UNCHANGED <<words, tomb, bundle, sync, fate>>
      BY <2>6 DEF AgreedOn, Syncing
    <2>7. QED
      BY <2>1, <2>2, <2>3, <2>4, <2>5, <2>6, CalmSteps
  <1>2. QED
    BY <1>1, TypeCorrect, PTL DEF Spec

\* The processes take turns; what is about to be written has all words of the bundle
\* that nobody has removed, and what is about to be imported is the bundle.
Turns ==
    calm =>
      /\ \A p, q \in Process : Syncing(p) /\ Syncing(q) => p = q
      /\ \A p \in Process : Syncing(p) =>
           /\ sync[p].step = "write" /\ bundle # None =>
                 \A w \in Word : fate[w] = "kept" /\ w \in bundle.words => w \in sync[p].words
           /\ sync[p].step = "import" => bundle # None /\ bundle.words = sync[p].words

LEMMA TurnsStep == TypeOK /\ KeptInv /\ Turns /\ [Next]_vars => Turns'
  <1> SUFFICES ASSUME TypeOK, KeptInv, Turns, [Next]_vars, calm' PROVE Turns'
    BY DEF Turns
  <1>1. CASE ~calm
    <2>1. BecomeCalm
      BY <1>1 DEF Next, Step, Export, Merge, Write, Import, ImportRefused, Fail, Leave, Add,
         SyncToStorage, SaveAndReloadServer, KeepLogged, DeleteDictionary,
         SyncWithoutDictionary, Tick, vars, edits
    <2>2. \A p \in Process : ~Syncing(p)'
      BY <2>1 DEF BecomeCalm, Syncing
    <2>3. QED
      BY <2>2 DEF Turns
  <1>2. CASE calm
    <2>1. ASSUME NEW p \in Process, Exported(p, words[Home[p]]),
                 \A q \in Process : ~Syncing(q)
          PROVE  Turns'
      <3>1. words[Home[p]] \in SUBSET Word
        BY HomeType DEF TypeOK
      <3>2. sync'[p].step = "merge" /\ \A q \in Process \ {p} : sync'[q] = sync[q]
        BY <2>1, <3>1, TypeParts, ExportStep
      <3>3. \A q \in Process : Syncing(q)' => q = p
        BY <2>1, <3>2 DEF Syncing
      <3>4. QED
        BY <3>2, <3>3 DEF Turns
    <2>2. ASSUME NEW p \in Process, Merge(p) PROVE Turns'
      <3>1. \A q \in Process : Syncing(q)' => q = p
        BY <1>2, <2>2, MergeStep DEF Turns, Syncing, Merge
      <3>2. sync'[p].step = "write" /\ UNCHANGED <<bundle, fate>>
        BY <2>2, MergeStep
      <3>3. ASSUME bundle # None, NEW w \in Word, fate[w] = "kept", w \in bundle.words
            PROVE  w \in sync'[p].words
        <4>1. sync[p].dead[w] = None /\ bundle.dead[w] = None
          BY <2>2, <3>3 DEF KeptInv, Unlogged, Merge
        <4>2. sync'[p].words =
                MergeDictionaryWithTombstones(Home[p], sync[p], bundle, now).words
          BY <2>2, <3>3, MergeStep
        <4>3. QED
          BY <3>3, <4>1, <4>2, MergeAgrees
      <3>4. QED
        BY <3>1, <3>2, <3>3 DEF Turns
    <2>3. ASSUME NEW p \in Process, Write(p) PROVE Turns'
      <3>1. \A q \in Process : Syncing(q)' => q = p
        BY <1>2, <2>3, WriteStep DEF Turns, Syncing, Write
      <3>2. /\ sync'[p].step = "import"
            /\ bundle' # None /\ bundle'.words = sync'[p].words
        BY <2>3, WriteStep
      <3>3. QED
        BY <3>1, <3>2 DEF Turns
    <2>4. ASSUME NEW p \in Process, Import(p) PROVE Turns'
      <3>1. \A q \in Process : ~Syncing(q)'
        BY <1>2, <2>4, ImportStep DEF Turns, Syncing
      <3>2. QED
        BY <3>1 DEF Turns
    <2>5. ASSUME NEW p \in Process, Leave(p) PROVE Turns'
      BY <1>2, <2>5, LeaveStep DEF Turns
    <2>6. CASE UNCHANGED <<words, tomb, bundle, sync, fate>>
      BY <1>2, <2>6 DEF Turns, Syncing
    <2>7. QED
      BY <1>2, <2>1, <2>2, <2>3, <2>4, <2>5, <2>6, CalmSteps
  <1>3. QED
    BY <1>1, <1>2

\* After its turn a device has what the bundle has, and no turn takes a word out of
\* the bundle that nobody has removed.
TurnHelps ==
    calm =>
      /\ \A p \in Process : Import(p) =>
            bundle # None /\ words'[Home[p]] = bundle.words /\ bundle' = bundle
      /\ bundle # None =>
            \A w \in Word : fate[w] = "kept" /\ w \in bundle.words => w \in bundle'.words

\* Every turn leads towards agreement once the users have stopped: the bundle only
\* gains words that nobody has removed, and each device takes them all.
THEOREM TurnsConverge == Spec => [][TurnHelps]_vars
  <1>1. TypeOK /\ Turns /\ [Next]_vars => [TurnHelps]_vars
    <2> SUFFICES ASSUME TypeOK, Turns, [Next]_vars, calm PROVE TurnHelps
      BY DEF TurnHelps
    <2>1. ASSUME NEW p \in Process, Import(p)
          PROVE  bundle # None /\ words'[Home[p]] = bundle.words /\ bundle' = bundle
      BY <2>1, ImportStep DEF Turns
    <2>2. ASSUME NEW p \in Process, Write(p), bundle # None,
                 NEW w \in Word, fate[w] = "kept", w \in bundle.words
          PROVE  w \in bundle'.words
      BY <2>2, WriteStep DEF Write, Turns
    <2>3. (\A p \in Process : ~Write(p)) => bundle' = bundle
      BY CalmSteps, MergeStep, ImportStep, LeaveStep
    <2>4. QED
      BY <2>1, <2>2, <2>3 DEF TurnHelps
  <1>2. Init => Turns
    BY DEF Init, Turns
  <1>3. QED
    BY <1>1, <1>2, TurnsStep, TypeCorrect, KeptInit, KeptStep, PTL DEF Spec

=============================================================================
