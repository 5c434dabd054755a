--------------------------- MODULE SessionHandler ---------------------------
(***************************************************************************)
(* The converter process's session table: SessionHandler in                *)
(* session/session_handler.cc.  One action per command of EvalCommand that *)
(* touches the state below, plus the environment: the clock (which jumps   *)
(* over a suspended machine, and back when the user sets it back),         *)
(* applications that exit, the data loader that finishes, and the process  *)
(* that ends and is launched again.                                        *)
(*                                                                         *)
(* The IPC server evaluates one command at a time, so a command is one     *)
(* step.  Time is counted in units.                                        *)
(***************************************************************************)
EXTENDS Integers, FiniteSets

CONSTANTS
    SessionID,              \* the non-zero ids CreateNewSessionID may draw
    App,                    \* client applications (application_info)
    NoSession,              \* the empty unique_ptr<Session>
    InfinitePast,           \* absl::InfinitePast()
    MaxSessionSize,         \* max_session_size_
    CreateSessionInterval,  \* --create_session_min_interval
    CreateSessionTimeout,   \* --last_create_session_timeout
    LastCommandTimeout,     \* --last_command_timeout
    WatchDogInterval,       \* --watch_dog_interval
    ServerTimeout,          \* --timeout; not positive: never
    MaxTime,                \* bound on the clock
    MaxResets,              \* bound on the times the clock is set back
    MaxEngine               \* bound on the number of engine data versions

ASSUME SessionHandlerAssumption ==
    /\ InfinitePast \notin Int
    /\ MaxSessionSize \in Nat /\ MaxSessionSize >= 2
    /\ CreateSessionInterval \in Nat
    /\ CreateSessionTimeout \in Nat \ {0}
    /\ LastCommandTimeout \in Nat \ {0}
    /\ WatchDogInterval \in Nat \ {0}
    /\ ServerTimeout \in Int
    /\ MaxTime \in Nat
    /\ MaxResets \in Nat
    /\ MaxEngine \in Nat
    /\ IsFiniteSet(SessionID)

VARIABLES
    now,            \* the system clock
    resets,         \* history: how often it was set back
    alive,          \* applications whose process exists
    session,        \* session_map_: the session of every id, or NoSession
    older,          \* its LRU list: <<a, b>> when a was looked up before b
    available,      \* is_available_
    syncLocked,     \* sync_locked_
    lastEmpty,      \* last_session_empty_time_
    lastCreate,     \* last_create_session_time_
    lastCleanup,    \* last_cleanup_time_
    engine,         \* version of the data the engine runs on
    loaded          \* version waiting in loader_response_ (or engine: none)

clockVars == <<now, resets>>
mapVars == <<session, older>>
timeVars == <<lastEmpty, lastCreate, lastCleanup>>
engineVars == <<engine, loaded>>
vars == <<clockVars, alive, session, older, available, syncLocked, timeVars,
          engineVars>>

Time == 0 .. MaxTime
TimeOrNever == Time \cup {InfinitePast}

\* A Session as the handler sees it: used is last_command_time() # InfinitePast,
\* and since is last_command_time() of a used session, create_session_time() of
\* one that is not (nobody reads it afterwards).  epoch is history: how often the
\* clock had been set back by then.
Session == [app : App, used : BOOLEAN, since : Time, epoch : 0 .. MaxResets,
            engine : 0 .. MaxEngine]

ASSUME NoSessionAssumption == NoSession \notin Session

Live == {s \in SessionID : session[s] # NoSession}

-----------------------------------------------------------------------------
(* The LRU list of session_map_.                                           *)

Without(order, S) == {p \in order : p[1] \notin S /\ p[2] \notin S}

\* Mutant: a lookup that leaves the list alone (Lookup for MutableLookup).
PushHeadIfNew(order, s, S) ==
    IF s \in S THEN order ELSE order \cup (S \X {s})

\* s becomes the most recently used of the sessions in S.
PushHead(order, s, S) == Without(order, {s}) \cup ((S \ {s}) \X {s})

\* Mutant: the head for the tail.
IsHead(s) == s \in Live /\ \A t \in Live \ {s} : <<t, s>> \in older

\* MutableTail(): the least recently used session.
IsTail(s) == s \in Live /\ \A t \in Live \ {s} : <<s, t>> \in older

\* EvalCommand refuses everything once the handler is not available.
Evaluating == available

-----------------------------------------------------------------------------
(* CREATE_SESSION                                                          *)

\* The interval is negative when the clock was set back: that is not too early.
TooEarly == /\ lastCreate # InfinitePast
            /\ now - lastCreate >= 0
            /\ now - lastCreate < CreateSessionInterval

\* Mutant: the map may exceed its capacity by one.
EvictionsTooLate == IF Cardinality(Live) > MaxSessionSize
                    THEN {{s} : s \in {t \in Live : IsTail(t)}}
                    ELSE {{}}

\* The session dropped to make room: none, or the least recently used one.
Evictions == IF Cardinality(Live) >= MaxSessionSize
             THEN {{s} : s \in {t \in Live : IsTail(t)}}
             ELSE {{}}

\* Mutant: the sessions left are not counted.
ReloadEngineAtOnce(left) == engine' = loaded /\ UNCHANGED loaded

\* The engine takes waiting data over only when no session is left.
MaybeReloadEngine(left) ==
    /\ engine' = IF left = {} THEN loaded ELSE engine
    /\ UNCHANGED loaded

CreateSession(app) ==
    /\ Evaluating
    /\ app \in alive
    /\ ~TooEarly
    /\ \E evicted \in Evictions :
       LET left == Live \ evicted IN
       \E id \in SessionID \ left :
          /\ MaybeReloadEngine(left)
          /\ session' = [s \in SessionID |->
                CASE s = id -> [app |-> app, used |-> FALSE, since |-> now,
                                epoch |-> resets, engine |-> engine']
                  [] s \in evicted \ {id} -> NoSession
                  [] OTHER -> session[s]]
          /\ older' = PushHead(Without(older, evicted), id, left)
    /\ lastCreate' = now
    /\ lastEmpty' = InfinitePast
    /\ UNCHANGED <<clockVars, alive, available, syncLocked, lastCleanup>>

-----------------------------------------------------------------------------
(* DELETE_SESSION and CLEANUP                                              *)

\* Mutant: nobody notes when the map became empty.
DeleteSessionIDNoClock(S) ==
    /\ session' = [s \in SessionID |-> IF s \in S THEN NoSession ELSE session[s]]
    /\ older' = Without(older, S)
    /\ UNCHANGED lastEmpty

\* DeleteSessionID for every id in S; the clock is read when the map empties.
DeleteSessionID(S) ==
    /\ session' = [s \in SessionID |-> IF s \in S THEN NoSession ELSE session[s]]
    /\ older' = Without(older, S)
    /\ lastEmpty' = IF lastEmpty = InfinitePast /\ S \cap Live # {} /\ Live \subseteq S
                    THEN now ELSE lastEmpty

\* Succeeds for an id that is not there as well.
DeleteSession(id) ==
    /\ Evaluating
    /\ DeleteSessionID({id})
    /\ UNCHANGED <<clockVars, alive, available, syncLocked, lastCreate, lastCleanup,
                   engineVars>>

\* Mutant: a machine that slept is taken for one that worked.
NoSuspendTime == 0

\* How long the machine slept since the last CLEANUP, judged by the watch dog's
\* interval having passed twice.
SuspendTime ==
    IF lastCleanup # InfinitePast /\ now - lastCleanup > 2 * WatchDogInterval
    THEN now - lastCleanup - WatchDogInterval
    ELSE 0

SessionTimeout(s) == IF session[s].used THEN LastCommandTimeout
                                        ELSE CreateSessionTimeout

\* Mutant: the application is not asked whether it still runs.
RemovableByTimeOnly(s) ==
    now - session[s].since >= SuspendTime + SessionTimeout(s)

Removable(s) == \/ session[s].app \notin alive
                \/ now - session[s].since >= SuspendTime + SessionTimeout(s)

\* --timeout: the test made after the sessions have been removed.
TimedOut(empty) == /\ ServerTimeout > 0
                   /\ \/ empty = InfinitePast
                      \/ now - empty >= SuspendTime + ServerTimeout

Cleanup ==
    /\ Evaluating
    /\ DeleteSessionID({s \in Live : Removable(s)})
    /\ available' = ~TimedOut(lastEmpty')
    /\ lastCleanup' = now
    /\ UNCHANGED <<clockVars, alive, syncLocked, lastCreate, engineVars>>

-----------------------------------------------------------------------------
(* SEND_KEY, TEST_SEND_KEY, SEND_COMMAND                                   *)

\* Mutant: the session is looked up before the lock is asked.
AcceptedWhileLocked(id) == Evaluating /\ id \in Live

\* Under the sync lock the answer is SYNC_LOCKED, for an id that is not there
\* SESSION_FAILURE; nothing changes either way (NoEffect).
Accepted(id) == Evaluating /\ ~syncLocked /\ id \in Live

\* The lookup, and UpdateTime in Session::SendKey and its like.
Access(id) ==
    /\ session' = [session EXCEPT ![id].used = TRUE, ![id].since = now,
                                   ![id].epoch = resets]
    /\ older' = PushHead(older, id, Live)
    /\ UNCHANGED <<clockVars, alive, available, syncLocked, timeVars, engineVars>>

SendKey(id) == Accepted(id) /\ Access(id)
TestSendKey(id) == Accepted(id) /\ Access(id)
SendCommand(id) == Accepted(id) /\ Access(id)

-----------------------------------------------------------------------------
(* The sync lock, SHUTDOWN                                                 *)

BeginSyncLock ==
    /\ Evaluating
    /\ ~syncLocked
    /\ syncLocked' = TRUE
    /\ UNCHANGED <<clockVars, alive, mapVars, available, timeVars, engineVars>>

\* Whoever sends it.
EndSyncLock ==
    /\ Evaluating
    /\ syncLocked' = FALSE
    /\ UNCHANGED <<clockVars, alive, mapVars, available, timeVars, engineVars>>

\* A command that is refused and, alike, one that reads or changes nothing
\* here: GET_SYNC_STATE, SYNC_DATA, RELOAD, NO_OPERATION, ...
NoEffect == Evaluating /\ UNCHANGED vars

Shutdown ==
    /\ Evaluating
    /\ available' = FALSE
    /\ UNCHANGED <<clockVars, alive, mapVars, syncLocked, timeVars, engineVars>>

-----------------------------------------------------------------------------
(* The environment                                                         *)

\* The clock advances; a long step is a machine that was suspended.
Tick ==
    /\ \E t \in Time : t > now /\ now' = t
    /\ UNCHANGED <<resets, alive, mapVars, available, syncLocked, timeVars,
                   engineVars>>

\* The user sets the system clock back.
SetBack ==
    /\ resets < MaxResets
    /\ \E t \in Time : t < now /\ now' = t
    /\ resets' = resets + 1
    /\ UNCHANGED <<alive, mapVars, available, syncLocked, timeVars,
                   engineVars>>

AppExit(app) ==
    /\ app \in alive
    /\ alive' = alive \ {app}
    /\ UNCHANGED <<clockVars, mapVars, available, syncLocked, timeVars, engineVars>>

\* The data loader's thread hands a new version to the engine.
DataLoaded ==
    /\ available
    /\ loaded < MaxEngine
    /\ loaded' = loaded + 1
    /\ UNCHANGED <<clockVars, alive, mapVars, available, syncLocked, timeVars, engine>>

\* The server's loop ends when the handler is not available (or the process is
\* killed), and a client launches it again: the constructor.
Relaunch ==
    /\ session' = [s \in SessionID |-> NoSession]
    /\ older' = {}
    /\ available' = TRUE
    /\ syncLocked' = FALSE
    /\ lastEmpty' = now
    /\ lastCreate' = InfinitePast
    /\ lastCleanup' = InfinitePast
    /\ engine' = 0
    /\ loaded' = 0
    /\ UNCHANGED <<clockVars, alive>>

-----------------------------------------------------------------------------
Init ==
    /\ now = 0
    /\ resets = 0
    /\ alive = App
    /\ session = [s \in SessionID |-> NoSession]
    /\ older = {}
    /\ available = TRUE
    /\ syncLocked = FALSE
    /\ lastEmpty = now
    /\ lastCreate = InfinitePast
    /\ lastCleanup = InfinitePast
    /\ engine = 0
    /\ loaded = 0

Command ==
    \/ \E app \in App : CreateSession(app)
    \/ \E id \in SessionID : DeleteSession(id)
    \/ \E id \in SessionID : SendKey(id)
    \/ \E id \in SessionID : TestSendKey(id)
    \/ \E id \in SessionID : SendCommand(id)
    \/ Cleanup
    \/ BeginSyncLock
    \/ EndSyncLock
    \/ NoEffect
    \/ Shutdown

Next ==
    \/ Command
    \/ Tick
    \/ SetBack
    \/ \E app \in App : AppExit(app)
    \/ DataLoaded
    \/ Relaunch

Spec == Init /\ [][Next]_vars

\* The watch dog keeps sending CLEANUP, and a stopped server is started again.
Fairness == WF_vars(Cleanup) /\ WF_vars(~available /\ Relaunch)
FairSpec == Spec /\ Fairness

-----------------------------------------------------------------------------
(* Properties                                                              *)

\* The values each variable ranges over; the map never exceeds its capacity.
TypeOK ==
    /\ now \in Time
    /\ resets \in 0 .. MaxResets
    /\ alive \subseteq App
    /\ session \in [SessionID -> Session \cup {NoSession}]
    /\ older \subseteq SessionID \X SessionID
    /\ available \in BOOLEAN
    /\ syncLocked \in BOOLEAN
    /\ lastEmpty \in TimeOrNever
    /\ lastCreate \in TimeOrNever
    /\ lastCleanup \in TimeOrNever
    /\ engine \in 0 .. MaxEngine
    /\ loaded \in engine .. MaxEngine
    /\ Cardinality(Live) <= MaxSessionSize

\* No session runs on an engine other than the installed one: the data loader
\* may finish at any time, but MaybeReloadEngine lets the new data in only when
\* nothing uses the old, whatever was evicted or deleted before.
EngineInUse == \A s \in Live : session[s].engine = engine

\* last_session_empty_time_ is InfinitePast exactly while there are sessions.
EmptyTimeExact == lastEmpty = InfinitePast <=> Live # {}

\* s was last accessed before t: the clock shows it unless it was set back since.
Earlier(s, t) ==
    \/ session[s].epoch < session[t].epoch
    \/ session[s].epoch = session[t].epoch /\ session[s].since < session[t].since

\* The LRU list is a strict total order of the sessions in which none stands before
\* one that was accessed earlier, though the times of the sessions may say the
\* opposite once the clock was set back (IInv of the proofs).
RecencyInv ==
    /\ older \subseteq Live \X Live
    /\ \A s \in Live :
          /\ <<s, s>> \notin older
          /\ session[s].epoch <= resets
          /\ session[s].epoch = resets => session[s].since <= now
    /\ \A s, t \in Live : s # t => <<s, t>> \in older \/ <<t, s>> \in older
    /\ \A p \in older : ~Earlier(p[2], p[1])

\* When the map is full a new session replaces the one idle for longest, wherever the
\* user has set the clock meanwhile: no session that stays was accessed before it.
EvictsLeastRecent ==
    [][(\E app \in App : CreateSession(app)) =>
          \A s, t \in Live :
             session'[s] # session[s] /\ session'[t] = session[t]
                => ~Earlier(t, s)]_vars

\* However long the machine sleeps, the first CLEANUP after it spares a session
\* of a living application that two watch dog intervals after the CLEANUP
\* before would not have been due: sleep alone never ends a session.
SurvivesSleep ==
    [][Cleanup /\ lastCleanup # InfinitePast =>
          \A s \in Live :
             /\ session[s].app \in alive
             /\ lastCleanup + 2 * WatchDogInterval < session[s].since + SessionTimeout(s)
             => session'[s] = session[s]]_vars

\* While the sync lock is held no key or command reaches a session, whichever
\* entry point it takes: sessions may come and go, none is used.
LockHoldsKeys ==
    [][syncLocked /\ syncLocked' =>
          \A s \in Live' : session'[s] = session[s] \/ ~session'[s].used]_vars

\* Every session of an application that has exited is removed in the end.
DeadAppsReaped ==
    \A app \in App :
       app \notin alive ~> \A s \in Live : session[s].app # app

\* session_handler.cc:627: "if timeout is enabled, shutdown server if there is
\* no active session and client doesn't send any conversion request".
TimeoutOnlyWhenEmpty == [][Cleanup /\ ~available' => Live' = {}]_vars

=============================================================================
