----------------------------- MODULE SyncRunner -----------------------------
(***************************************************************************)
(* A synchronisation seen from outside: RunSync and CanAutoSync in         *)
(* sync/sync_runner.cc, run by the daemon and by "sync now" processes      *)
(* (sync/sync_main.cc), against one converter process that the user types  *)
(* to.  The processes meet in the status file (sync/sync_status.cc) and in *)
(* the converter's sync lock (session/session_handler.cc), which they      *)
(* reach through client/client.cc: a call may not be answered in time.     *)
(*                                                                         *)
(* What a synchronisation does to the files is one phase here ("merge").   *)
(* The status file can be written; the input method may swallow keys while *)
(* it reads "running" there, which is to say that Type does not happen.    *)
(* Words that are imported under the lock are in UserDictionary: they wait *)
(* in a queue of their own, which a reload leaves alone.                   *)
(***************************************************************************)
EXTENDS FiniteSets

CONSTANTS
    Runner,         \* sync processes
    Daemon          \* the one of them that polls; the others are "sync now"

ASSUME RunnerAssumption == Daemon \in Runner

VARIABLES
    status,         \* the state in the file: "running", "stale" (running, but
                    \* written over 600 s ago) or "ended" (idle, done, error)
    up,             \* the converter process runs
    syncLocked,     \* its sync_locked_
    composing,      \* the composer of the user's session is not empty
    left,           \* nor is that of a session which its client has given up
    unsaved,        \* what the converter has learned that is not in its files:
                    \* "typed" by keys, "added" by ADD_USER_HISTORY
    pc,             \* what a runner does next
    forced,         \* the runners started with force
    guard,          \* those whose SyncLockGuard has locked_
    cut,            \* those whose client is in SERVER_TIMEOUT: it calls no more
    lost,           \* history: why nobody will release the lock
    undisturbed,    \* history: runners that took the lock, since when no other
                    \* that was told it has the lock released it and the
                    \* converter did not end
    flushed         \* history: runners whose flush reached the disk

serverVars == <<up, syncLocked, composing, left, unsaved>>
runnerVars == <<pc, forced, guard, cut>>
historyVars == <<lost, undisturbed, flushed>>
vars == <<status, serverVars, runnerVars, historyVars>>

\* Mutant: the age of the file is not looked at.
IsSyncRunningAtAnyAge == status # "ended"

IsSyncRunning == status = "running"
AnyComposing == composing \/ left

Goto(r, next) == pc' = [pc EXCEPT ![r] = next]

-----------------------------------------------------------------------------
(* The converter's side of a call; who loses the lock by it.               *)

\* SYNC_DATA answers that all is well when the disk refuses the write, too.
Flush ==
    /\ unsaved' \in {unsaved, {}}
    /\ UNCHANGED <<up, syncLocked, composing, left>>

\* Refused when it is locked; the caller's CallCommand does not read that.
Lock ==
    \/ syncLocked /\ UNCHANGED serverVars
    \/ /\ ~syncLocked
       /\ syncLocked' = TRUE
       /\ unsaved' \in {unsaved, {}}
       /\ UNCHANGED <<up, composing, left>>

Unlock ==
    /\ syncLocked' = FALSE
    /\ UNCHANGED <<up, composing, left, unsaved>>

\* RELOAD_AND_WAIT: memory is what the files say.
Reload ==
    /\ unsaved' = {}
    /\ UNCHANGED <<up, syncLocked, composing, left>>

-----------------------------------------------------------------------------
(* The runner's side of a call: answered, not answered in time, or not     *)
(* made (no server, or a client that has given up).                        *)

Answered(r) == up /\ r \notin cut /\ UNCHANGED cut
TimesOut(r) == up /\ r \notin cut /\ cut' = cut \cup {r}
Unreached(r) == (~up \/ r \in cut) /\ UNCHANGED cut

\* What a runner with the lock loses with its client.
LosesLock(r, why) == lost' = IF r \in guard \ cut /\ syncLocked THEN why ELSE lost

Writes(s) == status' = s

-----------------------------------------------------------------------------
(* Starting: "sync now", and the daemon's CanAutoSync.                     *)

Start(r) ==
    /\ pc[r] = "idle"
    /\ \/ r = Daemon /\ Goto(r, "auto") /\ UNCHANGED forced
       \/ r # Daemon /\ Goto(r, "check") /\ forced' \in {forced, forced \cup {r}}
    /\ UNCHANGED <<status, serverVars, guard, cut, historyVars>>

\* Back to sleep, or out; the client is gone.
Stop(r) ==
    /\ Goto(r, "idle")
    /\ forced' = forced \ {r}
    /\ guard' = guard \ {r}
    /\ cut' = cut \ {r}
    /\ flushed' = flushed \ {r}

\* EnsureConnection launches the converter when there is none, or fails.
Connect(r, next, otherwise) ==
    \/ Goto(r, next) /\ up' = TRUE
    \/ Goto(r, otherwise) /\ UNCHANGED up

AutoCheck(r) ==
    /\ pc[r] = "auto"
    /\ \/ IsSyncRunning /\ Stop(r) /\ UNCHANGED up
       \/ /\ ~IsSyncRunning
          /\ Connect(r, "auto state", "idle")
          /\ UNCHANGED <<forced, guard, cut, flushed>>
    /\ UNCHANGED <<status, syncLocked, composing, left, unsaved, lost, undisturbed>>

\* Locked, composing, within the cooldown, or not answered: not now.
AutoState(r) ==
    /\ pc[r] = "auto state"
    /\ \/ Stop(r)
       \/ /\ up /\ ~syncLocked /\ ~AnyComposing
          /\ Goto(r, "check")
          /\ UNCHANGED <<forced, guard, cut, flushed>>
    /\ UNCHANGED <<status, serverVars, lost, undisturbed>>

-----------------------------------------------------------------------------
(* RunSync                                                                 *)

\* The status, the configuration; force skips the converter's state.
Check(r) ==
    /\ pc[r] = "check"
    /\ \/ Goto(r, "report")
       \/ ~IsSyncRunning /\ Goto(r, IF r \in forced THEN "connect" ELSE "state")
    /\ UNCHANGED <<status, serverVars, forced, guard, cut, historyVars>>

\* GET_SYNC_STATE, the cooldown.
State(r) ==
    /\ pc[r] = "state"
    /\ \/ Answered(r) /\ ~AnyComposing /\ Goto(r, "connect")
       \/ Answered(r) /\ Goto(r, "report")
       \/ TimesOut(r) /\ Goto(r, "report")
       \/ Unreached(r) /\ Goto(r, "report")
    /\ UNCHANGED <<status, serverVars, forced, guard, historyVars>>

\* The key, EnsureConnection.
Prepare(r) ==
    /\ pc[r] = "connect"
    /\ Connect(r, "show", "report")
    /\ UNCHANGED <<status, syncLocked, composing, left, unsaved, forced, guard, cut,
                   historyVars>>

Shown == [show |-> "lock", save |-> "flush", import |-> "merge", update |-> "reload"]

\* SetProgress, before each phase.
ShowProgress(r) ==
    /\ pc[r] \in DOMAIN Shown
    /\ Goto(r, Shown[pc[r]])
    /\ Writes("running")
    /\ UNCHANGED <<serverVars, forced, guard, cut, historyVars>>

\* Mutant: a lock that could not be taken is not noticed.
BeginSyncLockUnchecked(r) ==
    /\ pc[r] = "lock"
    /\ Goto(r, "save")
    /\ \/ Answered(r) /\ Lock /\ guard' = guard \cup {r}
       \/ Unreached(r) /\ UNCHANGED <<serverVars, guard>>
    /\ UNCHANGED <<status, forced, historyVars>>

\* Not answered in time, it may have been taken all the same.
BeginSyncLock(r) ==
    /\ pc[r] = "lock"
    /\ \/ /\ Answered(r) /\ Lock
          /\ Goto(r, "save")
          /\ guard' = guard \cup {r}
          /\ undisturbed' = IF syncLocked THEN undisturbed ELSE {r}
          /\ UNCHANGED lost
       \/ /\ TimesOut(r) /\ (Lock \/ UNCHANGED serverVars)
          /\ Goto(r, "report")
          /\ lost' = IF syncLocked' # syncLocked THEN "timeout" ELSE lost
          /\ UNCHANGED <<guard, undisturbed>>
       \/ /\ Unreached(r) /\ UNCHANGED serverVars
          /\ Goto(r, "report")
          /\ UNCHANGED <<guard, lost, undisturbed>>
    /\ UNCHANGED <<status, forced, flushed>>

SyncData(r) ==
    /\ pc[r] = "flush"
    /\ \/ /\ Answered(r) /\ Flush
          /\ Goto(r, "import")
          /\ flushed' = IF unsaved' = {} THEN flushed \cup {r} ELSE flushed
          /\ UNCHANGED lost
       \/ /\ TimesOut(r) /\ (Flush \/ UNCHANGED serverVars)
          /\ Goto(r, "report")
          /\ LosesLock(r, "timeout")
          /\ UNCHANGED flushed
       \/ /\ Unreached(r) /\ UNCHANGED serverVars
          /\ Goto(r, "report")
          /\ UNCHANGED <<lost, flushed>>
    /\ UNCHANGED <<status, forced, guard, undisturbed>>

\* PerformSync tells its progress over and over ...
MergeProgress(r) ==
    /\ pc[r] = "merge"
    /\ Writes("running")
    /\ UNCHANGED <<serverVars, runnerVars, historyVars>>

\* ... and ends.
PerformSync(r) ==
    /\ pc[r] = "merge"
    /\ \/ Goto(r, "update")
       \/ Goto(r, "report")
    /\ UNCHANGED <<status, serverVars, forced, guard, cut, historyVars>>

ReloadAndWait(r) ==
    /\ pc[r] = "reload"
    /\ \/ /\ Answered(r) /\ Reload
          /\ Goto(r, "report")
          /\ UNCHANGED lost
       \/ /\ TimesOut(r) /\ (Reload \/ UNCHANGED serverVars)
          /\ Goto(r, "report")
          /\ LosesLock(r, "timeout")
       \/ /\ Unreached(r) /\ UNCHANGED serverVars
          /\ Goto(r, "report")
          /\ UNCHANGED lost
    /\ UNCHANGED <<status, forced, guard, undisturbed, flushed>>

\* Mutant: an early return leaves the lock to the caller.
ReportAndLeave(r) ==
    /\ pc[r] = "report"
    /\ Writes("ended")
    /\ Stop(r)
    /\ undisturbed' = undisturbed \ {r}
    /\ UNCHANGED <<serverVars, lost>>

\* Mutant: the guard's destructor does not ask locked_.
ReportAndUnlock(r) ==
    /\ pc[r] = "report"
    /\ Writes("ended")
    /\ Goto(r, "unlock")
    /\ UNCHANGED <<serverVars, forced, guard, cut, historyVars>>

\* FailureReport, or the status of a synchronisation that is done.  The guard is
\* destroyed after that, if there is one.
Report(r) ==
    /\ pc[r] = "report"
    /\ Writes("ended")
    /\ \/ r \in guard /\ Goto(r, "unlock") /\ UNCHANGED <<forced, guard, cut, flushed>>
       \/ r \notin guard /\ Stop(r)
    /\ UNCHANGED <<serverVars, lost, undisturbed>>

EndSyncLock(r) ==
    /\ pc[r] = "unlock"
    /\ Stop(r)
    /\ \/ /\ up /\ r \notin cut /\ Unlock
          /\ lost' = "no"
          /\ undisturbed' = IF r \in guard THEN {} ELSE undisturbed
       \/ /\ up /\ r \notin cut /\ UNCHANGED serverVars
          /\ LosesLock(r, "timeout")
          /\ undisturbed' = undisturbed \ {r}
       \/ /\ ~up \/ r \in cut
          /\ UNCHANGED <<serverVars, lost>>
          /\ undisturbed' = undisturbed \ {r}
    /\ UNCHANGED status

-----------------------------------------------------------------------------
(* The environment                                                         *)

\* A runner is killed; nothing of it runs any more, the guard's destructor neither.
Crash(r) ==
    /\ pc[r] # "idle"
    /\ Stop(r)
    /\ LosesLock(r, "crash")
    /\ undisturbed' = undisturbed \ {r}
    /\ UNCHANGED <<status, serverVars>>

\* The status file grows old: a dead runner, a slow one, or a machine that slept.
Expire ==
    /\ status = "running"
    /\ status' = "stale"
    /\ UNCHANGED <<serverVars, runnerVars, historyVars>>

\* Mutant: the lock is not asked when a key arrives.
TypeAnyway ==
    /\ up
    /\ composing' \in BOOLEAN
    /\ unsaved' \in {unsaved, unsaved \cup {"typed"}}
    /\ UNCHANGED <<status, up, syncLocked, left, runnerVars, historyVars>>

\* A key: it composes or, with what it commits, it teaches.
Type ==
    /\ up /\ ~syncLocked
    /\ composing' \in BOOLEAN
    /\ unsaved' \in {unsaved, unsaved \cup {"typed"}}
    /\ UNCHANGED <<status, up, syncLocked, left, runnerVars, historyVars>>

\* ADD_USER_HISTORY does not ask the lock.
AddUserHistory ==
    /\ up
    /\ unsaved' = unsaved \cup {"added"}
    /\ UNCHANGED <<status, up, syncLocked, composing, left, runnerVars, historyVars>>

\* Under the lock the answer carries no session id; the client takes its session
\* for void and makes a new one, and what was being composed stays in the old.
TypeRefused ==
    /\ up /\ syncLocked
    /\ left' = AnyComposing
    /\ composing' = FALSE
    /\ UNCHANGED <<status, up, syncLocked, unsaved, runnerVars, historyVars>>

\* DELETE_SESSION and CLEANUP, lock or no lock: sessions go, and data is saved.
RemoveSessions ==
    /\ up
    /\ composing' \in {composing, FALSE}
    /\ left' \in {left, FALSE}
    /\ unsaved' \in {unsaved, {}}
    /\ UNCHANGED <<status, up, syncLocked, runnerVars, historyVars>>

\* The converter ends, and with it all it has in memory.
ConverterEnds ==
    /\ up
    /\ up' = FALSE
    /\ syncLocked' = FALSE
    /\ composing' = FALSE
    /\ left' = FALSE
    /\ unsaved' = {}
    /\ lost' = "no"
    /\ undisturbed' = {}
    /\ UNCHANGED <<status, runnerVars, flushed>>

\* An input method's client launches it.
Launch ==
    /\ ~up
    /\ up' = TRUE
    /\ UNCHANGED <<status, syncLocked, composing, left, unsaved, runnerVars, historyVars>>

-----------------------------------------------------------------------------
Init ==
    /\ status = "ended"
    /\ up \in BOOLEAN
    /\ syncLocked = FALSE
    /\ composing = FALSE
    /\ left = FALSE
    /\ unsaved = {}
    /\ pc = [r \in Runner |-> "idle"]
    /\ forced = {}
    /\ guard = {}
    /\ cut = {}
    /\ lost = "no"
    /\ undisturbed = {}
    /\ flushed = {}

\* The steps a runner takes by itself once it has been started.
Step(r) == \/ AutoCheck(r) \/ AutoState(r)
           \/ Check(r) \/ State(r) \/ Prepare(r) \/ ShowProgress(r)
           \/ BeginSyncLock(r) \/ SyncData(r) \/ PerformSync(r) \/ ReloadAndWait(r)
           \/ Report(r) \/ EndSyncLock(r)

Environment == \/ Expire \/ Type \/ AddUserHistory \/ TypeRefused \/ RemoveSessions
               \/ ConverterEnds \/ Launch

Next == \/ \E r \in Runner : Start(r) \/ Step(r) \/ MergeProgress(r) \/ Crash(r)
        \/ Environment

Spec == Init /\ [][Next]_vars

\* Whoever runs goes on, and a file that nobody writes again grows old.  Nobody has
\* to ask for a synchronisation, to type or to end anything.
Fairness == /\ \A r \in Runner : WF_vars(Step(r))
            /\ WF_vars(Expire \/ \E r \in Runner :
                                    ShowProgress(r) \/ MergeProgress(r) \/ Report(r))
FairSpec == Spec /\ Fairness

-----------------------------------------------------------------------------
(* Properties                                                              *)

Holding == {"save", "flush", "import", "merge", "update", "reload", "unlock"}
PC == Holding \cup {"idle", "auto", "auto state", "check", "state", "connect", "show",
                    "lock", "report"}

\* The values of the variables; a runner is past the lock only if it was told so,
\* and a converter that is not there holds nothing.
TypeOK ==
    /\ status \in {"running", "stale", "ended"}
    /\ up \in BOOLEAN /\ syncLocked \in BOOLEAN
    /\ composing \in BOOLEAN /\ left \in BOOLEAN
    /\ unsaved \subseteq {"typed", "added"}
    /\ ~up => ~syncLocked /\ ~composing /\ ~left /\ unsaved = {}
    /\ pc \in [Runner -> PC]
    /\ forced \subseteq Runner
    /\ guard \subseteq Runner
    /\ \A r \in Runner : /\ pc[r] \in Holding => r \in guard
                         /\ r \in guard => pc[r] \in Holding \cup {"report"}
    /\ cut \subseteq Runner
    /\ lost \in {"no", "timeout", "crash"}
    /\ undisturbed \subseteq guard
    /\ flushed \subseteq guard

\* The lock is held for a runner that is going to release it, whichever of its
\* steps fails, or its holder has crashed or given up on the converter.
LockHasOwner == syncLocked => guard \ cut # {} \/ lost # "no"

\* From a runner's BEGIN_SYNC_LOCK to its END_SYNC_LOCK the converter refuses keys,
\* whoever else is started, turned away, reports or crashes meanwhile; only the end of
\* another runner that was told it has the lock too, or of the converter, opens it.
MergesUnderLock ==
    \A r \in undisturbed : pc[r] \in Holding \cup {"report"} => syncLocked

\* A reload never drops what the user has typed, not even when it is asked for minutes
\* after the flush, unless another holder of the lock released it, the converter was
\* restarted or its disk refused the write.  What ADD_USER_HISTORY has added since the
\* flush may be dropped: that command is served under the lock.
ReloadKeepsLearning ==
    [][\A r \in undisturbed \cap flushed :
          ReloadAndWait(r) => "typed" \notin unsaved]_vars

\* A lock that is taken is released, however the synchronisation fares; only a
\* crash or an unanswered call can leave it behind.
LockEnds == syncLocked ~> ~syncLocked \/ lost # "no"

\* No synchronisation finds another one "running" for ever, wherever a runner may
\* have been killed.
RunningEnds == []<>~IsSyncRunning

\* sync_runner.cc:83: "Sync already in progress" is what a second RunSync is told:
\* two runners are never between their locks and their reloads together.
OneAtATime ==
    \A r, q \in Runner :
       r # q => ~(pc[r] \in Holding \ {"unlock"} /\ pc[q] \in Holding \ {"unlock"})

\* docs/SYNC_MANUAL_QA.md:154: "input blocked during sync": while a runner works on the
\* files the status file does not say that the synchronisation has ended (whether
\* keys are blocked as well when the file is stale is another matter).
BlockedDuringSync ==
    \A r \in Runner :
       pc[r] \in {"flush", "import", "merge", "update", "reload"} => status # "ended"

\* docs/SYNC_MANUAL_QA.md:163: "sync does not run mid-composition": a runner without
\* force does not take the lock while something is being composed.
NotMidComposition ==
    [][\A r \in Runner \ forced :
          pc[r] = "lock" /\ pc'[r] = "save" => ~AnyComposing]_vars

\* win32/base/sync_lock_util.cc:67: a status file older than 10 minutes counts as
\* stale "so a crashed sync process can't wedge input permanently": the converter
\* takes keys again some time after its locker crashed.
NeverWedged == syncLocked /\ lost = "crash" ~> ~syncLocked

=============================================================================
