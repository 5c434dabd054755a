------------------------- MODULE SyncRunner_proofs -------------------------
(***************************************************************************)
(* Proofs about SyncRunner for every set of runners: its type, that a lock *)
(* has an owner, what a runner may rely on as long as nobody disturbs it   *)
(* (MergesUnderLock, ReloadKeepsLearning), and that every run comes to an  *)
(* end and its owner keeps the lock until then (RunShrinks, OwnerStays).   *)
(***************************************************************************)
EXTENDS SyncRunner, Integers, TLAPS

LEMMA Moves ==
  ASSUME pc \in [Runner -> PC], NEW r \in Runner, NEW next \in PC, Goto(r, next)
  PROVE  /\ pc' \in [Runner -> PC]
         /\ pc'[r] = next
         /\ \A q \in Runner \ {r} : pc'[q] = pc[q]
  BY DEF Goto

\* The part of TypeOK about runners,
RunnersOK ==
  /\ pc \in [Runner -> PC]
  /\ forced \subseteq Runner
  /\ guard \subseteq Runner
  /\ \A r \in Runner : /\ pc[r] \in Holding => r \in guard
                       /\ r \in guard => pc[r] \in Holding \cup {"report"}
  /\ cut \subseteq Runner

\* ... the one about the converter, and the one about what is left.
MemoryOK ==
  /\ up \in BOOLEAN /\ syncLocked \in BOOLEAN
  /\ composing \in BOOLEAN /\ left \in BOOLEAN
  /\ unsaved \subseteq {"typed", "added"}
  /\ ~up => ~syncLocked /\ ~composing /\ ~left /\ unsaved = {}

FilesOK ==
  /\ status \in {"running", "stale", "ended"}
  /\ lost \in {"no", "timeout", "crash"}

ServerOK == MemoryOK /\ FilesOK
HistoryOK == undisturbed \subseteq guard /\ flushed \subseteq guard

LEMMA TypeParts == TypeOK <=> RunnersOK /\ ServerOK /\ HistoryOK
  BY DEF TypeOK, RunnersOK, ServerOK, MemoryOK, FilesOK, HistoryOK

\* A runner that is not idle ends its run.
LEMMA Stops ==
  ASSUME RunnersOK, NEW r \in Runner, Stop(r)
  PROVE  RunnersOK'
  <1>1. "idle" \in PC /\ "idle" \notin Holding \cup {"report"}
    BY DEF PC, Holding
  <1>2. /\ pc' \in [Runner -> PC]
        /\ pc'[r] = "idle"
        /\ \A q \in Runner \ {r} : pc'[q] = pc[q]
    BY <1>1, Moves DEF RunnersOK, Stop
  <1>3. QED
    BY <1>1, <1>2 DEF RunnersOK, Stop

\* A step that keeps to one side of the lock.
LEMMA Keeps ==
  ASSUME RunnersOK, NEW r \in Runner, NEW next \in PC, Goto(r, next),
         cut' \subseteq Runner, forced' \subseteq Runner, guard' = guard,
         next \in Holding => r \in guard,
         r \in guard => next \in Holding \cup {"report"}
  PROVE  RunnersOK'
  <1>1. /\ pc' \in [Runner -> PC]
        /\ pc'[r] = next
        /\ \A q \in Runner \ {r} : pc'[q] = pc[q]
    BY Moves DEF RunnersOK
  <1>2. QED
    BY <1>1 DEF RunnersOK

LEMMA TypeInit == Init => TypeOK
  BY RunnerAssumption DEF Init, TypeOK, PC, Holding

LEMMA RunnersStep == RunnersOK /\ [Next]_vars => RunnersOK'
  <1> SUFFICES ASSUME RunnersOK, [Next]_vars PROVE RunnersOK'
    OBVIOUS
  <1> USE DEF PC, Holding
  <1>1. ASSUME NEW r \in Runner, Start(r) PROVE RunnersOK'
    <2>1. forced' \subseteq Runner
      BY <1>1 DEF Start, RunnersOK
    <2>2. CASE Goto(r, "auto")
      BY <1>1, <2>1, <2>2, Keeps DEF Start, RunnersOK
    <2>3. CASE Goto(r, "check")
      BY <1>1, <2>1, <2>3, Keeps DEF Start, RunnersOK
    <2>4. QED
      BY <1>1, <2>2, <2>3 DEF Start
  <1>2. ASSUME NEW r \in Runner, AutoCheck(r) PROVE RunnersOK'
    <2>1. CASE Stop(r)
      BY <2>1, Stops
    <2>2. CASE Goto(r, "auto state") /\ UNCHANGED <<forced, guard, cut>>
      BY <1>2, <2>2, Keeps DEF AutoCheck, RunnersOK
    <2>3. CASE Goto(r, "idle") /\ UNCHANGED <<forced, guard, cut>>
      BY <1>2, <2>3, Keeps DEF AutoCheck, RunnersOK
    <2>4. QED
      BY <1>2, <2>1, <2>2, <2>3 DEF AutoCheck, Connect
  <1>3. ASSUME NEW r \in Runner, AutoState(r) PROVE RunnersOK'
    <2>1. CASE Stop(r)
      BY <2>1, Stops
    <2>2. CASE Goto(r, "check") /\ UNCHANGED <<forced, guard, cut>>
      BY <1>3, <2>2, Keeps DEF AutoState, RunnersOK
    <2>3. QED
      BY <1>3, <2>1, <2>2 DEF AutoState
  <1>4. ASSUME NEW r \in Runner, Check(r) PROVE RunnersOK'
    <2>1. PICK next \in {"report", "connect", "state"} : Goto(r, next)
      BY <1>4 DEF Check
    <2>2. QED
      BY <1>4, <2>1, Keeps DEF Check, RunnersOK
  <1>5. ASSUME NEW r \in Runner, State(r) PROVE RunnersOK'
    <2>1. PICK next \in {"report", "connect"} : Goto(r, next)
      BY <1>5 DEF State
    <2>2. cut' \subseteq Runner
      BY <1>5 DEF State, Answered, TimesOut, Unreached, RunnersOK
    <2>3. QED
      BY <1>5, <2>1, <2>2, Keeps DEF State, RunnersOK
  <1>6. ASSUME NEW r \in Runner, Prepare(r) PROVE RunnersOK'
    <2>1. PICK next \in {"report", "show"} : Goto(r, next)
      BY <1>6 DEF Prepare, Connect
    <2>2. QED
      BY <1>6, <2>1, Keeps DEF Prepare, RunnersOK
  <1>7. ASSUME NEW r \in Runner, ShowProgress(r) PROVE RunnersOK'
    <2>1. PICK step \in DOMAIN Shown : pc[r] = step /\ Goto(r, Shown[step])
      BY <1>7 DEF ShowProgress
    <2>2. step = "show" <=> Shown[step] = "lock"
      BY <2>1 DEF Shown
    <2>3. step # "show" => step \in Holding /\ Shown[step] \in Holding
      BY <2>1 DEF Shown
    <2>4. Shown[step] \in PC
      BY <2>2, <2>3
    <2>5. UNCHANGED <<forced, guard, cut>>
      BY <1>7 DEF ShowProgress
    <2>6. QED
      BY <2>1, <2>2, <2>3, <2>4, <2>5, Keeps DEF RunnersOK
  <1>8. ASSUME NEW r \in Runner, BeginSyncLock(r) PROVE RunnersOK'
    <2>1. cut' \subseteq Runner /\ UNCHANGED forced
      BY <1>8 DEF BeginSyncLock, Answered, TimesOut, Unreached, RunnersOK
    <2>2. CASE Goto(r, "save") /\ guard' = guard \cup {r}
      <3>1. /\ pc' \in [Runner -> PC]
            /\ pc'[r] = "save"
            /\ \A q \in Runner \ {r} : pc'[q] = pc[q]
        BY <2>2, Moves DEF RunnersOK
      <3>2. QED
        BY <2>1, <2>2, <3>1 DEF RunnersOK
    <2>3. CASE Goto(r, "report") /\ UNCHANGED guard
      BY <1>8, <2>1, <2>3, Keeps DEF BeginSyncLock, RunnersOK
    <2>4. QED
      BY <1>8, <2>2, <2>3 DEF BeginSyncLock
  <1>9. ASSUME NEW r \in Runner, SyncData(r) \/ PerformSync(r) \/ ReloadAndWait(r)
        PROVE  RunnersOK'
    <2>1. PICK next \in {"report", "import", "update"} : Goto(r, next)
      BY <1>9 DEF SyncData, PerformSync, ReloadAndWait
    <2>2. cut' \subseteq Runner /\ UNCHANGED <<forced, guard>> /\ r \in guard
      BY <1>9 DEF SyncData, PerformSync, ReloadAndWait, Answered, TimesOut, Unreached, RunnersOK
    <2>3. QED
      BY <2>1, <2>2, Keeps DEF RunnersOK
  <1>10. ASSUME NEW r \in Runner, Report(r) PROVE RunnersOK'
    <2>1. CASE Stop(r)
      BY <2>1, Stops
    <2>2. CASE r \in guard /\ Goto(r, "unlock") /\ UNCHANGED <<forced, guard, cut>>
      BY <2>2, Keeps DEF RunnersOK
    <2>3. QED
      BY <1>10, <2>1, <2>2 DEF Report
  <1>11. ASSUME NEW r \in Runner, EndSyncLock(r) \/ Crash(r) PROVE RunnersOK'
    BY <1>11, Stops DEF EndSyncLock, Crash
  <1>12. ASSUME NEW r \in Runner, MergeProgress(r) PROVE RunnersOK'
    BY <1>12 DEF MergeProgress, runnerVars, RunnersOK
  <1>13. CASE Environment
    BY <1>13 DEF Environment, Expire, Type, AddUserHistory, TypeRefused, RemoveSessions, ConverterEnds,
       Launch, runnerVars, RunnersOK
  <1>14. CASE UNCHANGED vars
    BY <1>14 DEF vars, runnerVars, RunnersOK
  <1>15. QED
    BY <1>1, <1>2, <1>3, <1>4, <1>5, <1>6, <1>7, <1>8, <1>9, <1>10, <1>11, <1>12, <1>13,
       <1>14 DEF Next, Step


\* A converter that is there may hold anything.
LEMMA Holds ==
  ASSUME up', syncLocked' \in BOOLEAN, composing' \in BOOLEAN, left' \in BOOLEAN,
         unsaved' \subseteq {"typed", "added"}, up' \in BOOLEAN
  PROVE  MemoryOK'
  BY DEF MemoryOK

LEMMA Calls ==
  ASSUME MemoryOK, up, Flush \/ Lock \/ Unlock \/ Reload
  PROVE  MemoryOK'
  <1>1. up' = up
    BY DEF Flush, Lock, Unlock, Reload, serverVars
  <1>2. /\ composing' = composing
        /\ left' = left
    BY DEF Flush, Lock, Unlock, Reload, serverVars
  <1>3. syncLocked' \in {syncLocked, TRUE, FALSE} /\ unsaved' \in {unsaved, {}}
    BY DEF Flush, Lock, Unlock, Reload, serverVars
  <1>4. QED
    BY <1>1, <1>2, <1>3, Holds DEF MemoryOK

LEMMA KeepsMemory == MemoryOK /\ UNCHANGED serverVars => MemoryOK'
  BY DEF MemoryOK, serverVars

LEMMA MemoryStep == MemoryOK /\ [Next]_vars => MemoryOK'
  <1> SUFFICES ASSUME MemoryOK, [Next]_vars PROVE MemoryOK'
    OBVIOUS
  <1>1. ASSUME NEW r \in Runner,
               \/ Start(r) \/ AutoState(r) \/ Check(r) \/ State(r) \/ ShowProgress(r)
               \/ PerformSync(r) \/ MergeProgress(r) \/ Report(r) \/ Crash(r)
        PROVE  MemoryOK'
    <2>1. UNCHANGED serverVars
      BY <1>1 DEF Start, AutoState, Check, State, ShowProgress, PerformSync, MergeProgress,
         Report, Crash
    <2>2. QED
      BY <2>1, KeepsMemory
  <1>2. ASSUME NEW r \in Runner, AutoCheck(r) \/ Prepare(r) PROVE MemoryOK'
    <2>1. UNCHANGED <<syncLocked, composing, left, unsaved>> /\ (up' = TRUE \/ up' = up)
      BY <1>2 DEF AutoCheck, Prepare, Connect
    <2>2. CASE up' = TRUE
      BY <2>1, <2>2, Holds DEF MemoryOK
    <2>3. CASE up' = up
      BY <2>1, <2>3, KeepsMemory DEF serverVars
    <2>4. QED
      BY <2>1, <2>2, <2>3
  <1>3. ASSUME NEW r \in Runner,
               BeginSyncLock(r) \/ SyncData(r) \/ ReloadAndWait(r) \/ EndSyncLock(r)
        PROVE  MemoryOK'
    <2>1. UNCHANGED serverVars \/ (up /\ (Flush \/ Lock \/ Unlock \/ Reload))
      BY <1>3 DEF BeginSyncLock, SyncData, ReloadAndWait, EndSyncLock, Answered, TimesOut
    <2>2. QED
      BY <2>1, KeepsMemory, Calls
  <1>4. CASE Environment
    <2>1. CASE Expire
      BY <2>1, KeepsMemory DEF Expire
    <2>2. CASE ConverterEnds
      BY <2>2 DEF ConverterEnds, MemoryOK
    <2>3. CASE Launch
      BY <2>3, Holds DEF Launch, MemoryOK
    <2>4. CASE Type
      BY <2>4, Holds DEF Type, MemoryOK
    <2>4a. CASE AddUserHistory
      BY <2>4a, Holds DEF AddUserHistory, MemoryOK
    <2>5. CASE TypeRefused
      BY <2>5, Holds DEF TypeRefused, AnyComposing, MemoryOK
    <2>6. CASE RemoveSessions
      BY <2>6, Holds DEF RemoveSessions, MemoryOK
    <2>7. QED
      BY <1>4, <2>1, <2>2, <2>3, <2>4, <2>4a, <2>5, <2>6 DEF Environment
  <1>5. CASE UNCHANGED vars
    BY <1>5, KeepsMemory DEF vars
  <1>6. QED
    BY <1>1, <1>2, <1>3, <1>4, <1>5 DEF Next, Step

LEMMA FilesStep == FilesOK /\ [Next]_vars => FilesOK'
  <1> SUFFICES ASSUME FilesOK, [Next]_vars PROVE FilesOK'
    OBVIOUS
  <1>1. ASSUME NEW r \in Runner, Start(r) \/ AutoCheck(r) \/ AutoState(r) \/ Check(r)
                  \/ State(r) \/ Prepare(r) \/ PerformSync(r)
        PROVE  FilesOK'
    BY <1>1 DEF Start, AutoCheck, AutoState, Check, State, Prepare, PerformSync, historyVars, FilesOK
  <1>2. ASSUME NEW r \in Runner, ShowProgress(r) \/ MergeProgress(r) \/ Report(r)
        PROVE  FilesOK'
    BY <1>2 DEF ShowProgress, MergeProgress, Report, Writes, historyVars, FilesOK
  <1>3. ASSUME NEW r \in Runner, BeginSyncLock(r) \/ SyncData(r) \/ ReloadAndWait(r)
                  \/ EndSyncLock(r) \/ Crash(r)
        PROVE  FilesOK'
    <2>1. status' = status /\ lost' \in {lost, "no", "timeout", "crash"}
      BY <1>3 DEF BeginSyncLock, SyncData, ReloadAndWait, EndSyncLock, Crash, LosesLock
    <2>2. QED
      BY <2>1 DEF FilesOK
  <1>4. CASE Environment
    BY <1>4 DEF Environment, Expire, Type, AddUserHistory, TypeRefused, RemoveSessions, ConverterEnds,
       Launch, historyVars, FilesOK
  <1>5. CASE UNCHANGED vars
    BY <1>5 DEF vars, historyVars, FilesOK
  <1>6. QED
    BY <1>1, <1>2, <1>3, <1>4, <1>5 DEF Next, Step

LEMMA ServerStep == ServerOK /\ [Next]_vars => ServerOK'
  BY MemoryStep, FilesStep DEF ServerOK

\* Only a runner that has the lock can be undisturbed, or have flushed.
LEMMA HistoryStep ==
  TypeOK /\ [Next]_vars => HistoryOK'
  <1> SUFFICES ASSUME TypeOK, [Next]_vars PROVE HistoryOK'
    OBVIOUS
  <1> USE DEF Holding, HistoryOK, historyVars
  <1>1. ASSUME NEW r \in Runner, Start(r) \/ Check(r) \/ State(r) \/ Prepare(r)
                  \/ ShowProgress(r) \/ PerformSync(r) \/ MergeProgress(r)
        PROVE  HistoryOK'
    BY <1>1 DEF Start, Check, State, Prepare, ShowProgress, PerformSync, MergeProgress,
       runnerVars, TypeOK
  <1>2. ASSUME NEW r \in Runner, AutoCheck(r) \/ AutoState(r)
        PROVE  HistoryOK'
    BY <1>2 DEF AutoCheck, AutoState, Stop, TypeOK
  <1>3. ASSUME NEW r \in Runner, BeginSyncLock(r) PROVE HistoryOK'
    BY <1>3 DEF BeginSyncLock, TypeOK
  <1>4. ASSUME NEW r \in Runner, SyncData(r) \/ ReloadAndWait(r)
        PROVE  HistoryOK'
    BY <1>4 DEF SyncData, ReloadAndWait, TypeOK
  <1>5. ASSUME NEW r \in Runner, Report(r) PROVE HistoryOK'
    BY <1>5 DEF Report, Stop, TypeOK
  <1>6. ASSUME NEW r \in Runner, EndSyncLock(r) \/ Crash(r)
        PROVE  HistoryOK'
    BY <1>6 DEF EndSyncLock, Crash, Stop, TypeOK
  <1>7. CASE Environment
    BY <1>7 DEF Environment, Expire, Type, AddUserHistory, TypeRefused, RemoveSessions,
       ConverterEnds, Launch, runnerVars, TypeOK
  <1>8. CASE UNCHANGED vars
    BY <1>8 DEF vars, runnerVars, TypeOK
  <1>9. QED
    BY <1>1, <1>2, <1>3, <1>4, <1>5, <1>6, <1>7, <1>8 DEF Next, Step

LEMMA TypeStep == TypeOK /\ [Next]_vars => TypeOK'
  <1>1. TypeOK' <=> RunnersOK' /\ ServerOK' /\ HistoryOK'
    BY DEF TypeOK, RunnersOK, ServerOK, MemoryOK, FilesOK, HistoryOK
  <1>2. QED
    BY <1>1, TypeParts, RunnersStep, ServerStep, HistoryStep

\* Every variable keeps its type; a runner is past the lock only if it was told so.
THEOREM TypeCorrect == Spec => []TypeOK
  BY TypeInit, TypeStep, PTL DEF Spec

-----------------------------------------------------------------------------
(* The lock has an owner.                                                  *)

LEMMA OwnerStep == TypeOK /\ LockHasOwner /\ [Next]_vars => LockHasOwner'
  <1> SUFFICES ASSUME TypeOK, LockHasOwner, [Next]_vars, syncLocked'
               PROVE  (guard \ cut # {} \/ lost # "no")'
    BY DEF LockHasOwner
  <1> USE DEF Holding, historyVars
  <1>1. ASSUME UNCHANGED <<syncLocked, guard, cut, lost>>
        PROVE  (guard \ cut # {} \/ lost # "no")'
    BY <1>1 DEF LockHasOwner
  <1>2. ASSUME NEW r \in Runner, r \notin guard, UNCHANGED <<syncLocked, lost>>,
               guard' = guard \ {r}, cut' = cut \ {r}
        PROVE  (guard \ cut # {} \/ lost # "no")'
    BY <1>2 DEF LockHasOwner
  <1>3. ASSUME NEW r \in Runner, UNCHANGED <<syncLocked, guard>>, cut' = cut \cup {r},
               LosesLock(r, "timeout")
        PROVE  (guard \ cut # {} \/ lost # "no")'
    BY <1>3 DEF LockHasOwner, LosesLock
  <1>4. ASSUME NEW r \in Runner, Start(r) \/ Check(r) \/ Prepare(r) \/ ShowProgress(r)
                  \/ PerformSync(r) \/ MergeProgress(r)
        PROVE  (guard \ cut # {} \/ lost # "no")'
    BY <1>4, <1>1 DEF Start, Check, Prepare, ShowProgress, PerformSync, MergeProgress,
       serverVars, runnerVars
  <1>5. ASSUME NEW r \in Runner, AutoCheck(r) \/ AutoState(r)
        PROVE  (guard \ cut # {} \/ lost # "no")'
    <2>1. r \notin guard /\ UNCHANGED <<syncLocked, lost>>
      BY <1>5 DEF AutoCheck, AutoState, serverVars, TypeOK
    <2>2. CASE Stop(r)
      BY <2>1, <2>2, <1>2 DEF Stop
    <2>3. CASE UNCHANGED <<forced, guard, cut>>
      BY <2>1, <2>3, <1>1
    <2>4. QED
      BY <1>5, <2>2, <2>3 DEF AutoCheck, AutoState
  <1>6. ASSUME NEW r \in Runner, State(r) PROVE (guard \ cut # {} \/ lost # "no")'
    <2>1. r \notin guard /\ UNCHANGED <<syncLocked, guard, lost>>
      BY <1>6 DEF State, serverVars, TypeOK
    <2>2. cut' = cut \/ cut' = cut \cup {r}
      BY <1>6 DEF State, Answered, TimesOut, Unreached
    <2>3. QED
      BY <2>1, <2>2 DEF LockHasOwner
  <1>7. ASSUME NEW r \in Runner, BeginSyncLock(r)
        PROVE  (guard \ cut # {} \/ lost # "no")'
    <2>1. CASE Answered(r) /\ guard' = guard \cup {r}
      BY <2>1 DEF Answered
    <2>2. CASE TimesOut(r) /\ UNCHANGED guard
      <3>1. r \notin guard /\ cut' = cut \cup {r}
        BY <1>7, <2>2 DEF BeginSyncLock, TimesOut, TypeOK
      <3>2. lost' = IF syncLocked' # syncLocked THEN "timeout" ELSE lost
        BY <1>7, <2>2 DEF BeginSyncLock, Answered, TimesOut, Unreached
      <3>3. CASE syncLocked' = syncLocked
        BY <2>2, <3>1, <3>2, <3>3 DEF LockHasOwner
      <3>4. CASE syncLocked' # syncLocked
        BY <3>2, <3>4
      <3>5. QED
        BY <3>3, <3>4
    <2>3. CASE Unreached(r) /\ UNCHANGED <<serverVars, guard, lost>>
      BY <2>3, <1>1 DEF Unreached, serverVars
    <2>4. QED
      BY <1>7, <2>1, <2>2, <2>3 DEF BeginSyncLock
  <1>8. ASSUME NEW r \in Runner, SyncData(r) \/ ReloadAndWait(r)
        PROVE  (guard \ cut # {} \/ lost # "no")'
    <2>1. UNCHANGED <<syncLocked, guard>>
      BY <1>8 DEF SyncData, ReloadAndWait, Flush, Reload, serverVars
    <2>2. \/ UNCHANGED <<cut, lost>>
          \/ cut' = cut \cup {r} /\ LosesLock(r, "timeout")
      BY <1>8 DEF SyncData, ReloadAndWait, Answered, TimesOut, Unreached
    <2>3. QED
      BY <2>1, <2>2, <1>1, <1>3
  <1>9. ASSUME NEW r \in Runner, Report(r) PROVE (guard \ cut # {} \/ lost # "no")'
    <2>1. UNCHANGED <<syncLocked, lost>>
      BY <1>9 DEF Report, serverVars
    <2>2. CASE r \in guard
      BY <1>9, <2>1, <2>2, <1>1 DEF Report
    <2>3. CASE r \notin guard
      BY <1>9, <2>1, <2>3, <1>2 DEF Report, Stop
    <2>4. QED
      BY <2>2, <2>3
  <1>10. ASSUME NEW r \in Runner, EndSyncLock(r)
         PROVE  (guard \ cut # {} \/ lost # "no")'
    <2>1. /\ guard' = guard \ {r}
          /\ cut' = cut \ {r}
      BY <1>10 DEF EndSyncLock, Stop
    <2>2. CASE Unlock
      BY <2>2 DEF Unlock
    <2>3. CASE LosesLock(r, "timeout") /\ UNCHANGED serverVars
      BY <2>1, <2>3 DEF LosesLock, LockHasOwner, serverVars
    <2>4. CASE (~up \/ r \in cut) /\ UNCHANGED <<serverVars, lost>>
      BY <2>1, <2>4 DEF LockHasOwner, serverVars, TypeOK
    <2>5. QED
      BY <1>10, <2>2, <2>3, <2>4 DEF EndSyncLock
  <1>11. ASSUME NEW r \in Runner, Crash(r) PROVE (guard \ cut # {} \/ lost # "no")'
    BY <1>11 DEF Crash, Stop, LosesLock, LockHasOwner, serverVars
  <1>12. CASE Environment
    <2>1. CASE ConverterEnds
      BY <2>1 DEF ConverterEnds
    <2>2. CASE ~ConverterEnds
      BY <1>12, <2>2, <1>1 DEF Environment, Expire, Type, AddUserHistory, TypeRefused, RemoveSessions, Launch,
         serverVars, runnerVars
    <2>3. QED
      BY <2>1, <2>2
  <1>13. CASE UNCHANGED vars
    BY <1>13, <1>1 DEF vars, serverVars, runnerVars
  <1>14. QED
    BY <1>4, <1>5, <1>6, <1>7, <1>8, <1>9, <1>10, <1>11, <1>12, <1>13 DEF Next, Step

\* However many runners there are and whichever of their steps fail, a lock without
\* anybody to release it was left by a crash or by an unanswered call.
THEOREM OwnerCorrect == Spec => []LockHasOwner
  <1>1. Init => LockHasOwner
    BY DEF Init, LockHasOwner
  <1>2. QED
    BY <1>1, OwnerStep, TypeCorrect, PTL DEF Spec

-----------------------------------------------------------------------------
(* What an undisturbed runner relies on.                                   *)

\* The converter is locked for it, and once it has flushed nothing typed is unsaved.
Sound ==
  /\ undisturbed # {} => syncLocked
  /\ undisturbed \cap flushed # {} => "typed" \notin unsaved

\* A step that opens no lock, teaches nothing and adds nobody to the undisturbed.
LEMMA Quiet ==
  ASSUME Sound, undisturbed' \subseteq undisturbed, flushed' \subseteq flushed,
         syncLocked => syncLocked',
         unsaved' \subseteq unsaved \cup {"added"}
  PROVE  Sound'
  BY DEF Sound

LEMMA SoundStep == TypeOK /\ Sound /\ [Next]_vars => Sound'
  <1> SUFFICES ASSUME TypeOK, Sound, [Next]_vars PROVE Sound'
    OBVIOUS
  <1> USE DEF historyVars, serverVars, runnerVars
  <1>1. ASSUME NEW r \in Runner, Start(r) \/ Check(r) \/ State(r) \/ ShowProgress(r)
                  \/ PerformSync(r) \/ MergeProgress(r) \/ Prepare(r)
        PROVE  Sound'
    <2>1. UNCHANGED <<syncLocked, unsaved, undisturbed, flushed>>
      BY <1>1 DEF Start, Check, State, ShowProgress, PerformSync, MergeProgress, Prepare
    <2>2. QED
      BY <2>1, Quiet
  <1>2. ASSUME NEW r \in Runner, AutoCheck(r) \/ AutoState(r) \/ Report(r) \/ Crash(r)
        PROVE  Sound'
    <2>1. UNCHANGED <<syncLocked, unsaved>> /\ undisturbed' \subseteq undisturbed
      BY <1>2 DEF AutoCheck, AutoState, Report, Crash
    <2>2. flushed' \subseteq flushed
      BY <1>2 DEF AutoCheck, AutoState, Report, Crash, Stop
    <2>3. QED
      BY <2>1, <2>2, Quiet
  <1>3. ASSUME NEW r \in Runner, BeginSyncLock(r) PROVE Sound'
    <2>1. flushed' = flushed /\ r \notin flushed
      BY <1>3 DEF BeginSyncLock, TypeOK, Holding
    <2>2. CASE Lock /\ undisturbed' = {r} /\ ~syncLocked
      <3>1. syncLocked'
        BY <2>2 DEF Lock
      <3>2. QED
        BY <2>1, <2>2, <3>1 DEF Sound
    <2>3. CASE (Lock \/ UNCHANGED serverVars) /\ UNCHANGED undisturbed
      <3>1. (syncLocked => syncLocked') /\ unsaved' \in {unsaved, {}}
        BY <2>3 DEF Lock
      <3>2. QED
        BY <2>1, <2>3, <3>1, Quiet
    <2>4. QED
      BY <1>3, <2>2, <2>3 DEF BeginSyncLock
  <1>4. ASSUME NEW r \in Runner, SyncData(r) PROVE Sound'
    <2>1. UNCHANGED <<syncLocked, undisturbed>> /\ unsaved' \in {unsaved, {}}
      BY <1>4 DEF SyncData, Flush
    <2>2. CASE unsaved' = {}
      BY <2>1, <2>2 DEF Sound
    <2>3. CASE unsaved' # {}
      <3>1. flushed' = flushed
        BY <1>4, <2>3 DEF SyncData
      <3>2. QED
        BY <2>1, <3>1, Quiet
    <2>4. QED
      BY <2>2, <2>3
  <1>5. ASSUME NEW r \in Runner, ReloadAndWait(r) PROVE Sound'
    <2>1. UNCHANGED <<syncLocked, undisturbed, flushed>> /\ unsaved' \in {unsaved, {}}
      BY <1>5 DEF ReloadAndWait, Reload
    <2>2. QED
      BY <2>1, Quiet
  <1>6. ASSUME NEW r \in Runner, EndSyncLock(r) PROVE Sound'
    <2>1. r \in guard /\ flushed' \subseteq flushed
      BY <1>6 DEF EndSyncLock, Stop, TypeOK, Holding
    <2>2. CASE undisturbed' = {}
      BY <2>2 DEF Sound
    <2>3. CASE UNCHANGED serverVars /\ undisturbed' = undisturbed \ {r}
      <3>1. undisturbed' \subseteq undisturbed /\ UNCHANGED <<syncLocked, unsaved>>
        BY <2>3
      <3>2. QED
        BY <2>1, <3>1, Quiet
    <2>4. QED
      BY <1>6, <2>1, <2>2, <2>3 DEF EndSyncLock
  <1>7. CASE Environment
    <2>1. CASE ConverterEnds
      BY <2>1 DEF ConverterEnds, Sound
    <2>2. CASE Type
      <3>1. undisturbed = {} /\ undisturbed' = undisturbed
        BY <2>2 DEF Type, Sound
      <3>2. QED
        BY <3>1 DEF Sound
    <2>3. CASE AddUserHistory
      <3>1. /\ UNCHANGED <<syncLocked, undisturbed, flushed>>
            /\ unsaved' = unsaved \cup {"added"}
        BY <2>3 DEF AddUserHistory
      <3>2. QED
        BY <3>1, Quiet
    <2>4. CASE Expire \/ TypeRefused \/ RemoveSessions \/ Launch
      <3>1. /\ UNCHANGED <<syncLocked, undisturbed, flushed>>
            /\ unsaved' \in {unsaved, {}}
        BY <2>4 DEF Expire, TypeRefused, RemoveSessions, Launch
      <3>2. QED
        BY <3>1, Quiet
    <2>5. QED
      BY <1>7, <2>1, <2>2, <2>3, <2>4 DEF Environment
  <1>8. CASE UNCHANGED vars
    <2>1. UNCHANGED <<syncLocked, unsaved, undisturbed, flushed>>
      BY <1>8 DEF vars
    <2>2. QED
      BY <2>1, Quiet
  <1>9. QED
    BY <1>1, <1>2, <1>3, <1>4, <1>5, <1>6, <1>7, <1>8 DEF Next, Step

LEMMA SoundAlways == Spec => []Sound
  <1>1. Init => Sound
    BY DEF Init, Sound
  <1>2. QED
    BY <1>1, SoundStep, TypeCorrect, PTL DEF Spec

\* From BEGIN_SYNC_LOCK to END_SYNC_LOCK of a runner the converter refuses keys, with any
\* number of other runners starting, being turned away, reporting and crashing.
THEOREM LockedCorrect == Spec => []MergesUnderLock
  <1>1. Sound => MergesUnderLock
    BY DEF Sound, MergesUnderLock
  <1>2. QED
    BY <1>1, SoundAlways, PTL

\* A reload drops nothing that the user has typed after the flush, whatever commands add
\* to the converter's history under the lock.
THEOREM ReloadCorrect == Spec => ReloadKeepsLearning
  <1>1. Sound => [\A r \in undisturbed \cap flushed :
                     ReloadAndWait(r) => "typed" \notin unsaved]_vars
    BY DEF Sound
  <1>2. QED
    BY <1>1, SoundAlways, PTL DEF ReloadKeepsLearning

-----------------------------------------------------------------------------
(* Every run ends, and its lock with it: what LockEnds needs besides the   *)
(* fairness that TLC assumes.                                              *)

\* The steps that a runner has before it at most.
StepsLeft(next) ==
    CASE next = "idle" -> 0
      [] next = "unlock" -> 1
      [] next = "report" -> 2
      [] next = "reload" -> 3
      [] next = "update" -> 4
      [] next = "merge" -> 5
      [] next = "import" -> 6
      [] next = "flush" -> 7
      [] next = "save" -> 8
      [] next = "lock" -> 9
      [] next = "show" -> 10
      [] next = "connect" -> 11
      [] next = "state" -> 12
      [] next = "check" -> 13
      [] next = "auto state" -> 14
      [] next = "auto" -> 15

LEMMA Early ==
  /\ StepsLeft("idle") = 0 /\ StepsLeft("unlock") = 1 /\ StepsLeft("report") = 2
  /\ StepsLeft("reload") = 3 /\ StepsLeft("update") = 4 /\ StepsLeft("merge") = 5
  /\ StepsLeft("import") = 6 /\ StepsLeft("flush") = 7
  BY DEF StepsLeft

LEMMA Late ==
  /\ StepsLeft("save") = 8 /\ StepsLeft("lock") = 9 /\ StepsLeft("show") = 10
  /\ StepsLeft("connect") = 11 /\ StepsLeft("state") = 12 /\ StepsLeft("check") = 13
  BY DEF StepsLeft

LEMMA Polling == StepsLeft("auto state") = 14 /\ StepsLeft("auto") = 15
  BY Zenon DEF StepsLeft

\* Where a runner's own step takes it.
LEMMA StepMoves ==
  ASSUME NEW r \in Runner, Step(r)
  PROVE  \E next : Goto(r, next) /\ StepsLeft(next) < StepsLeft(pc[r])
  <1>1. CASE AutoCheck(r)
    <2>1. pc[r] = "auto" /\ (Goto(r, "auto state") \/ Goto(r, "idle"))
      BY <1>1 DEF AutoCheck, Connect, Stop
    <2>2. StepsLeft("auto state") \in {14, 0} /\ StepsLeft("idle") \in {14, 0}
      BY Early, Polling, Zenon
    <2>3. StepsLeft(pc[r]) = 15
      BY <2>1, Polling, Zenon
    <2>4. \E next : Goto(r, next) /\ StepsLeft(next) \in {14, 0}
      <3>1. CASE Goto(r, "auto state")
        BY <3>1, <2>2, Zenon
      <3>2. CASE Goto(r, "idle")
        BY <3>2, <2>2, Zenon
      <3>3. QED
        BY <2>1, <3>1, <3>2, Zenon
    <2>5. QED
      BY <2>3, <2>4
  <1>2. CASE AutoState(r)
    <2>1. pc[r] = "auto state" /\ (Goto(r, "check") \/ Goto(r, "idle"))
      BY <1>2 DEF AutoState, Stop
    <2>2. StepsLeft("check") \in {13, 0} /\ StepsLeft("idle") \in {13, 0}
      BY Early, Late
    <2>3. StepsLeft(pc[r]) = 14
      BY <2>1, Polling, Zenon
    <2>4. \E next : Goto(r, next) /\ StepsLeft(next) \in {13, 0}
      <3>1. CASE Goto(r, "check")
        BY <3>1, <2>2, Zenon
      <3>2. CASE Goto(r, "idle")
        BY <3>2, <2>2, Zenon
      <3>3. QED
        BY <2>1, <3>1, <3>2, Zenon
    <2>5. QED
      BY <2>3, <2>4
  <1>3. CASE Check(r)
    BY <1>3, Early, Late DEF Check
  <1>4. CASE State(r)
    BY <1>4, Early, Late DEF State
  <1>5. CASE Prepare(r)
    BY <1>5, Early, Late DEF Prepare, Connect
  <1>6. CASE ShowProgress(r)
    <2>1. /\ Shown["show"] = "lock" /\ Shown["save"] = "flush"
          /\ Shown["import"] = "merge" /\ Shown["update"] = "reload"
          /\ DOMAIN Shown = {"show", "save", "import", "update"}
      BY DEF Shown
    <2>2. Goto(r, Shown[pc[r]]) /\ pc[r] \in {"show", "save", "import", "update"}
      BY <1>6, <2>1 DEF ShowProgress
    <2>3. StepsLeft(Shown[pc[r]]) < StepsLeft(pc[r])
      BY <2>1, <2>2, Early, Late
    <2>4. QED
      BY <2>2, <2>3
  <1>7. CASE BeginSyncLock(r)
    <2>1. pc[r] = "lock" /\ (Goto(r, "save") \/ Goto(r, "report"))
      BY <1>7 DEF BeginSyncLock
    <2>2. QED
      BY <2>1, Early, Late
  <1>8. CASE SyncData(r)
    <2>1. pc[r] = "flush" /\ (Goto(r, "import") \/ Goto(r, "report"))
      BY <1>8 DEF SyncData
    <2>2. QED
      BY <2>1, Early
  <1>9. CASE PerformSync(r)
    BY <1>9, Early DEF PerformSync
  <1>10. CASE ReloadAndWait(r)
    <2>1. pc[r] = "reload" /\ Goto(r, "report")
      BY <1>10 DEF ReloadAndWait
    <2>2. QED
      BY <2>1, Early
  <1>11. CASE Report(r)
    BY <1>11, Early DEF Report, Stop
  <1>12. CASE EndSyncLock(r)
    BY <1>12, Early DEF EndSyncLock, Stop
  <1>13. QED
    BY <1>1, <1>2, <1>3, <1>4, <1>5, <1>6, <1>7, <1>8, <1>9, <1>10, <1>11, <1>12 DEF Step

\* The step of one runner leaves the others where they are.
LEMMA OthersStay ==
  ASSUME TypeOK, NEW r \in Runner, NEW q \in Runner \ {r}, NEW next, Goto(q, next)
  PROVE  pc'[r] = pc[r]
  BY DEF Goto, TypeOK

\* A run goes forward only: each of its steps leaves it fewer to come, 15 at most;
\* nothing that other runners, the converter or the user do sends it back; and it
\* ends early only by a crash.
RunShrinks ==
    [][\A r \in Runner :
          /\ Step(r) => StepsLeft(pc'[r]) < StepsLeft(pc[r])
          /\ pc[r] # "idle" /\ ~Step(r) => pc'[r] \in {pc[r], "idle"}]_vars

\* Every synchronisation comes to its end, whichever of its calls fail, for any
\* number of runners at once.
THEOREM RunCorrect == Spec => RunShrinks
  <1>1. TypeOK /\ [Next]_vars =>
          [\A r \in Runner :
              /\ Step(r) => StepsLeft(pc'[r]) < StepsLeft(pc[r])
              /\ pc[r] # "idle" /\ ~Step(r) => pc'[r] \in {pc[r], "idle"}]_vars
    <2> SUFFICES ASSUME TypeOK, [Next]_vars, NEW r \in Runner
                 PROVE  /\ Step(r) => StepsLeft(pc'[r]) < StepsLeft(pc[r])
                        /\ pc[r] # "idle" /\ ~Step(r) => pc'[r] \in {pc[r], "idle"}
      OBVIOUS
    <2>1. ASSUME Step(r) PROVE StepsLeft(pc'[r]) < StepsLeft(pc[r])
      <3>1. PICK next : Goto(r, next) /\ StepsLeft(next) < StepsLeft(pc[r])
        BY <2>1, StepMoves
      <3>2. pc'[r] = next
        BY <3>1 DEF Goto, TypeOK
      <3>3. QED
        BY <3>1, <3>2
    <2>2. ASSUME pc[r] # "idle", ~Step(r) PROVE pc'[r] \in {pc[r], "idle"}
      <3>1. ~Start(r)
        BY <2>2 DEF Start
      <3>2. CASE Crash(r)
        BY <3>2 DEF Crash, Stop, Goto, TypeOK
      <3>3. ASSUME NEW q \in Runner \ {r}, Start(q) \/ Step(q) \/ Crash(q)
            PROVE  pc'[r] = pc[r]
        <4>1. \E next : Goto(q, next)
          <5>1. Step(q) => \E next : Goto(q, next)
            BY StepMoves
          <5>2. QED
            BY <3>3, <5>1 DEF Start, Crash, Stop
        <4>2. QED
          BY <4>1, OthersStay
      <3>4. ASSUME NEW q \in Runner, MergeProgress(q) PROVE pc' = pc
        BY <3>4 DEF MergeProgress, runnerVars
      <3>5. Environment \/ UNCHANGED vars => pc' = pc
        BY DEF Environment, Expire, Type, AddUserHistory, TypeRefused, RemoveSessions, ConverterEnds, Launch,
           vars, runnerVars
      <3>6. QED
        BY <2>2, <3>1, <3>2, <3>3, <3>4, <3>5 DEF Next
    <2>3. QED
      BY <2>1, <2>2
  <1>2. QED
    BY <1>1, TypeCorrect, PTL DEF Spec, RunShrinks

\* Who can release the lock stays able to for as long as it is held, or why not is on
\* record.
OwnerStays ==
    [][\A r \in guard \ cut :
          syncLocked /\ syncLocked' /\ lost' = "no" => r \in guard' \ cut']_vars

\* No failure in the middle of a synchronisation takes its lock away from it; with
\* RunCorrect this is why a lock ends (LockEnds): each of its owners gets to the
\* release, crashes, or finds the converter unresponsive.
THEOREM OwnerStaysCorrect == Spec => OwnerStays
  <1>1. TypeOK /\ [Next]_vars =>
          [\A r \in guard \ cut :
              syncLocked /\ syncLocked' /\ lost' = "no" => r \in guard' \ cut']_vars
    <2> SUFFICES ASSUME TypeOK, [Next]_vars, NEW r \in guard \ cut,
                        syncLocked, syncLocked', lost' = "no"
                 PROVE  r \in guard' \ cut'
      OBVIOUS
    <2>1. /\ r \in Runner /\ up
          /\ pc[r] \in Holding \cup {"report"}
      BY DEF TypeOK
    <2>2. pc[r] \notin {"idle", "auto", "auto state", "check", "state", "connect", "show", "lock"}
      BY <2>1 DEF Holding
    <2>3. ASSUME NEW q \in Runner \ {r},
                 guard' \in {guard, guard \ {q}, guard \cup {q}},
                 cut' \in {cut, cut \ {q}, cut \cup {q}}
          PROVE  r \in guard' \ cut'
      BY <2>3
    <2>4. ASSUME NEW q \in Runner, Start(q) \/ Prepare(q) \/ ShowProgress(q) \/ Check(q)
                                     \/ PerformSync(q) \/ MergeProgress(q)
          PROVE  r \in guard' \ cut'
      BY <2>4 DEF Start, Prepare, ShowProgress, Check, PerformSync, MergeProgress, runnerVars
    <2>5. ASSUME NEW q \in Runner, AutoCheck(q) \/ AutoState(q) PROVE r \in guard' \ cut'
      <3>1. q # r
        BY <2>2, <2>5 DEF AutoCheck, AutoState
      <3>2. /\ guard' \in {guard, guard \ {q}, guard \cup {q}}
            /\ cut' \in {cut, cut \ {q}, cut \cup {q}}
        BY <2>5 DEF AutoCheck, AutoState, Stop
      <3>3. QED
        BY <2>3, <3>1, <3>2
    <2>6. ASSUME NEW q \in Runner, State(q) \/ BeginSyncLock(q) PROVE r \in guard' \ cut'
      <3>1. q # r
        BY <2>2, <2>6 DEF State, BeginSyncLock
      <3>2. /\ guard' \in {guard, guard \ {q}, guard \cup {q}}
            /\ cut' \in {cut, cut \ {q}, cut \cup {q}}
        BY <2>6 DEF State, BeginSyncLock, Answered, TimesOut, Unreached
      <3>3. QED
        BY <2>3, <3>1, <3>2
    <2>7. ASSUME NEW q \in Runner, SyncData(q) \/ ReloadAndWait(q) PROVE r \in guard' \ cut'
      <3>1. /\ guard' = guard
            /\ cut' = cut \/ (cut' = cut \cup {q} /\ LosesLock(q, "timeout"))
        BY <2>7 DEF SyncData, ReloadAndWait, Answered, TimesOut, Unreached
      <3>2. CASE cut' = cut
        BY <3>1, <3>2
      <3>3. CASE cut' = cut \cup {q} /\ LosesLock(q, "timeout")
        <4>1. q # r
          BY <3>3 DEF LosesLock
        <4>2. QED
          BY <3>1, <3>3, <4>1
      <3>4. QED
        BY <3>1, <3>2, <3>3
    <2>8. ASSUME NEW q \in Runner, Report(q) PROVE r \in guard' \ cut'
      BY <2>8 DEF Report, Stop
    <2>9. ASSUME NEW q \in Runner, EndSyncLock(q) PROVE r \in guard' \ cut'
      <3>1. q # r
        BY <2>1, <2>9 DEF EndSyncLock, Unlock, LosesLock
      <3>2. guard' = guard \ {q} /\ cut' = cut \ {q}
        BY <2>9 DEF EndSyncLock, Stop
      <3>3. QED
        BY <3>1, <3>2
    <2>10. ASSUME NEW q \in Runner, Crash(q) PROVE r \in guard' \ cut'
      <3>1. q # r
        BY <2>10 DEF Crash, LosesLock
      <3>2. guard' = guard \ {q} /\ cut' = cut \ {q}
        BY <2>10 DEF Crash, Stop
      <3>3. QED
        BY <3>1, <3>2
    <2>11. Environment \/ UNCHANGED vars => guard' = guard /\ cut' = cut
      BY DEF Environment, Expire, Type, AddUserHistory, TypeRefused, RemoveSessions, ConverterEnds, Launch,
         vars, runnerVars
    <2>12. QED
      BY <2>4, <2>5, <2>6, <2>7, <2>8, <2>9, <2>10, <2>11 DEF Next, Step
  <1>2. QED
    BY <1>1, TypeCorrect, PTL DEF Spec, OwnerStays

=============================================================================
