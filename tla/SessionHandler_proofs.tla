----------------------- MODULE SessionHandler_proofs -----------------------
(***************************************************************************)
(* Proofs about SessionHandler for every number of session ids and         *)
(* applications and every timeout: type correctness with the map's         *)
(* capacity, the invariants EngineInUse, EmptyTimeExact and RecencyInv and *)
(* the action properties EvictsLeastRecent, SurvivesSleep, LockHoldsKeys,  *)
(* and that sessions of applications that have exited only go.             *)
(* The second part is about LruCache, which session_map_ is an instance    *)
(* of, for every size and every division into blocks: the lists and the    *)
(* table agree (ListsAgree), and the pointers implement the order of use   *)
(* that the first part relies on (ImplementsOrder).                        *)
(***************************************************************************)
EXTENDS SessionHandler, LruCache, SequencesExt, SequenceTheorems, WellFoundedInduction,
        FiniteSetTheorems, TLAPS

LEMMA LiveFinite == IsFiniteSet(Live)
  BY SessionHandlerAssumption, FS_Subset DEF Live

\* Every step either leaves the map alone, accesses one session, creates one
\* after at most one eviction, or removes a set of them.
LEMMA CapacityOfCreate ==
  ASSUME TypeOK, NEW evicted \in Evictions, NEW id \in SessionID \ (Live \ evicted)
  PROVE  Cardinality((Live \ evicted) \cup {id}) <= MaxSessionSize
  <1>1. IsFiniteSet(Live) /\ Cardinality(Live) \in Nat
    BY LiveFinite, FS_CardinalityType
  <1>2. CASE Cardinality(Live) >= MaxSessionSize
    <2>1. PICK s \in Live : evicted = {s}
      BY <1>2 DEF Evictions, IsTail
    <2>2. Cardinality(Live \ {s}) = Cardinality(Live) - 1
      BY <1>1, <2>1, FS_RemoveElement
    <2>3. IsFiniteSet(Live \ {s}) /\ id \notin Live \ {s}
      BY <1>1, <2>1, FS_Subset
    <2>4. Cardinality((Live \ {s}) \cup {id}) = Cardinality(Live \ {s}) + 1
      BY <2>3, FS_AddElement
    <2>5. QED
      BY <1>1, <2>1, <2>2, <2>4, SessionHandlerAssumption DEF TypeOK
  <1>3. CASE ~(Cardinality(Live) >= MaxSessionSize)
    <2>1. evicted = {}
      BY <1>3 DEF Evictions
    <2>2. Cardinality(Live \cup {id}) = Cardinality(Live) + 1
      BY <1>1, <2>1, FS_AddElement
    <2>3. (Live \ evicted) \cup {id} = Live \cup {id}
      BY <2>1
    <2>4. Cardinality(Live) + 1 <= MaxSessionSize
      BY <1>1, <1>3, SessionHandlerAssumption
    <2>5. QED
      BY <2>2, <2>3, <2>4
  <1>4. QED
    BY <1>2, <1>3

\* A map with fewer or the same sessions stays within its capacity.
LEMMA CapacityOfSubset ==
  ASSUME TypeOK, Live' \subseteq Live
  PROVE  Cardinality(Live)' <= MaxSessionSize
  <1>1. IsFiniteSet(Live)
    BY LiveFinite
  <1>2. IsFiniteSet(Live') /\ Cardinality(Live') <= Cardinality(Live)
    BY <1>1, FS_Subset
  <1>3. Cardinality(Live) \in Nat /\ Cardinality(Live') \in Nat
    BY <1>1, <1>2, FS_CardinalityType
  <1>4. QED
    BY <1>2, <1>3, SessionHandlerAssumption DEF TypeOK

\* Removing sessions, by DELETE_SESSION or CLEANUP.
LEMMA DeleteType ==
  ASSUME TypeOK, NEW S \in SUBSET SessionID, DeleteSessionID(S)
  PROVE  /\ session' \in [SessionID -> Session \cup {NoSession}]
         /\ older' \subseteq SessionID \X SessionID
         /\ lastEmpty' \in TimeOrNever
         /\ Live' = Live \ S
  BY DEF TypeOK, DeleteSessionID, Without, TimeOrNever, Live

\* Looking a session up and running a command in it.
Accessed(s) == [s EXCEPT !.used = TRUE, !.since = now, !.epoch = resets]

LEMMA AccessType ==
  ASSUME TypeOK, NEW id \in Live, Access(id)
  PROVE  /\ session' = [session EXCEPT ![id] = session'[id]]
         /\ session'[id] = Accessed(session[id])
         /\ session'[id] \in Session
         /\ older' = PushHead(older, id, Live)
         /\ Live' = Live
  <1>1. session[id] \in Session /\ id \in SessionID
    BY DEF TypeOK, Live
  <1>2. session' = [session EXCEPT ![id] = Accessed(session[id])]
    BY <1>1 DEF Access, TypeOK, Accessed
  <1>3. session'[id] = Accessed(session[id])
    BY <1>1, <1>2 DEF TypeOK
  <1>4. session'[id] \in Session
    BY <1>1, <1>3 DEF Session, TypeOK, Accessed
  <1>5. Live' = Live
    BY <1>1, <1>2, <1>3, <1>4, NoSessionAssumption DEF TypeOK, Live
  <1>6. QED
    BY <1>2, <1>3, <1>4, <1>5 DEF Access

\* Creating one, after an eviction when the map is full.
New(app) == [app |-> app, used |-> FALSE, since |-> now, epoch |-> resets,
             engine |-> engine']

Created(app, evicted, id) ==
  /\ New(app) \in Session
  /\ engine' = IF Live \ evicted = {} THEN loaded ELSE engine
  /\ session' = [s \in SessionID |->
        IF s = id THEN New(app)
        ELSE IF s \in evicted THEN NoSession ELSE session[s]]
  /\ older' = PushHead(Without(older, evicted), id, Live \ evicted)
  /\ Live' = (Live \ evicted) \cup {id}

LEMMA CreateType ==
  ASSUME TypeOK, NEW app \in App, CreateSession(app)
  PROVE  \E evicted \in Evictions : \E id \in SessionID \ (Live \ evicted) :
            Created(app, evicted, id)
  <1>0. PICK evicted \in Evictions : \E id \in SessionID \ (Live \ evicted) :
           /\ MaybeReloadEngine(Live \ evicted)
           /\ session' = [s \in SessionID |->
                CASE s = id -> [app |-> app, used |-> FALSE, since |-> now,
                                epoch |-> resets, engine |-> engine']
                  [] s \in evicted \ {id} -> NoSession
                  [] OTHER -> session[s]]
           /\ older' = PushHead(Without(older, evicted), id, Live \ evicted)
    BY DEF CreateSession
  <1>1. PICK id \in SessionID \ (Live \ evicted) :
           /\ MaybeReloadEngine(Live \ evicted)
           /\ session' = [s \in SessionID |->
                CASE s = id -> [app |-> app, used |-> FALSE, since |-> now,
                                epoch |-> resets, engine |-> engine']
                  [] s \in evicted \ {id} -> NoSession
                  [] OTHER -> session[s]]
           /\ older' = PushHead(Without(older, evicted), id, Live \ evicted)
    BY <1>0
  <1>2. engine' = IF Live \ evicted = {} THEN loaded ELSE engine
    BY <1>1 DEF MaybeReloadEngine
  <1>3. New(app) \in Session
    BY <1>2, SessionHandlerAssumption DEF New, Session, TypeOK
  <1>4. session' = [s \in SessionID |->
                      IF s = id THEN New(app)
                      ELSE IF s \in evicted THEN NoSession ELSE session[s]]
    BY <1>1 DEF New
  <1>5. evicted \subseteq SessionID
    BY DEF Evictions, IsTail, Live
  <1>6. Live' = (Live \ evicted) \cup {id}
    <2>1. New(app) # NoSession
      BY <1>3, NoSessionAssumption
    <2>2. QED
      BY <1>4, <1>5, <2>1 DEF Live
  <1>7. QED
    BY <1>1, <1>2, <1>3, <1>4, <1>6 DEF Created

-----------------------------------------------------------------------------
(* Type correctness and capacity.                                          *)

LEMMA TypeInit == Init => TypeOK
  <1> SUFFICES ASSUME Init PROVE TypeOK
    OBVIOUS
  <1>1. Live = {}
    BY DEF Init, Live
  <1>2. Cardinality(Live) <= MaxSessionSize
    BY <1>1, FS_EmptySet, SessionHandlerAssumption
  <1>3. /\ now \in Time
        /\ resets \in 0 .. MaxResets
        /\ engine \in 0 .. MaxEngine
        /\ loaded \in engine .. MaxEngine
    BY SessionHandlerAssumption DEF Init, Time
  <1>4. session \in [SessionID -> Session \cup {NoSession}]
    BY DEF Init
  <1>5. QED
    BY <1>2, <1>3, <1>4 DEF Init, TypeOK, TimeOrNever

LEMMA TypeStep == TypeOK /\ [Next]_vars => TypeOK'
  <1> SUFFICES ASSUME TypeOK, [Next]_vars PROVE TypeOK'
    OBVIOUS
  <1> USE SessionHandlerAssumption DEF clockVars
  <1>1. ASSUME NEW app \in App, CreateSession(app) PROVE TypeOK'
    <2>1. PICK evicted \in Evictions : \E id \in SessionID \ (Live \ evicted) :
            Created(app, evicted, id)
      BY <1>1, CreateType
    <2>2. PICK id \in SessionID \ (Live \ evicted) :
            Created(app, evicted, id)
      BY <2>1
    <2>3. Cardinality(Live)' <= MaxSessionSize
      BY <2>2, CapacityOfCreate DEF Created
    <2>4. session' \in [SessionID -> Session \cup {NoSession}]
      BY <2>2 DEF Created, TypeOK
    <2>5. older' \subseteq SessionID \X SessionID
      BY <2>2 DEF Created, PushHead, Without, TypeOK, Live
    <2>6. engine' \in 0 .. MaxEngine /\ loaded' \in engine' .. MaxEngine
      BY <1>1, <2>2 DEF Created, CreateSession, MaybeReloadEngine, TypeOK
    <2>7. QED
      BY <1>1, <2>3, <2>4, <2>5, <2>6 DEF CreateSession, TypeOK, TimeOrNever
  <1>2. ASSUME NEW id \in SessionID, DeleteSession(id) PROVE TypeOK'
    <2>1. DeleteSessionID({id})
      BY <1>2 DEF DeleteSession
    <2>2. /\ session' \in [SessionID -> Session \cup {NoSession}]
          /\ older' \subseteq SessionID \X SessionID
          /\ lastEmpty' \in TimeOrNever
          /\ Live' = Live \ {id}
      BY <2>1, DeleteType
    <2>3. Cardinality(Live)' <= MaxSessionSize
      BY <2>2, CapacityOfSubset
    <2>4. QED
      BY <1>2, <2>2, <2>3 DEF DeleteSession, engineVars, TypeOK
  <1>3. ASSUME Cleanup PROVE TypeOK'
    <2> DEFINE S == {s \in Live : Removable(s)}
    <2>1. DeleteSessionID(S) /\ S \in SUBSET SessionID
      BY <1>3 DEF Cleanup, Live
    <2>2. /\ session' \in [SessionID -> Session \cup {NoSession}]
          /\ older' \subseteq SessionID \X SessionID
          /\ lastEmpty' \in TimeOrNever
          /\ Live' = Live \ S
      <3> HIDE DEF S
      <3> QED BY <2>1, DeleteType
    <2>3. Cardinality(Live)' <= MaxSessionSize
      BY <2>2, CapacityOfSubset
    <2>4. available' \in BOOLEAN
      BY <1>3 DEF Cleanup, TimedOut
    <2>5. QED
      BY <1>3, <2>2, <2>3, <2>4 DEF Cleanup, engineVars, TypeOK, TimeOrNever
  <1>4. ASSUME NEW id \in SessionID, Accepted(id), Access(id) PROVE TypeOK'
    <2>1. id \in Live
      BY <1>4 DEF Accepted
    <2>2. /\ session' = [session EXCEPT ![id] = session'[id]]
          /\ session'[id] \in Session
          /\ older' = PushHead(older, id, Live)
          /\ Live' = Live
      BY <1>4, <2>1, AccessType
    <2>3. Cardinality(Live)' <= MaxSessionSize
      BY <2>2, CapacityOfSubset
    <2>4. session' \in [SessionID -> Session \cup {NoSession}]
      BY <2>2 DEF TypeOK
    <2>5. older' \subseteq SessionID \X SessionID
      BY <2>2 DEF PushHead, Without, TypeOK, Live
    <2>6. QED
      BY <1>4, <2>3, <2>4, <2>5 DEF Access, timeVars, engineVars, TypeOK
  <1>5. ASSUME UNCHANGED session,
               BeginSyncLock \/ EndSyncLock \/ NoEffect \/ Shutdown \/ Tick \/ SetBack
                  \/ (\E app \in App : AppExit(app)) \/ DataLoaded \/ UNCHANGED vars
        PROVE TypeOK'
    <2>1. Live' = Live
      BY <1>5 DEF Live
    <2>2. Cardinality(Live)' <= MaxSessionSize
      BY <2>1, CapacityOfSubset
    <2> USE <2>2 DEF mapVars, timeVars, engineVars, TypeOK
    <2>3. CASE BeginSyncLock \/ EndSyncLock
      BY <1>5, <2>3 DEF BeginSyncLock, EndSyncLock
    <2>4. CASE NoEffect \/ UNCHANGED vars
      BY <1>5, <2>4 DEF NoEffect, vars
    <2>5. CASE Shutdown
      BY <1>5, <2>5 DEF Shutdown
    <2>6. CASE Tick \/ SetBack
      <3>1. now' \in Time /\ resets' \in 0 .. MaxResets
        BY <2>6 DEF Tick, SetBack
      <3>2. QED
        BY <1>5, <2>6, <3>1 DEF Tick, SetBack
    <2>7. ASSUME NEW app \in App, AppExit(app) PROVE TypeOK'
      BY <1>5, <2>7 DEF AppExit
    <2>8. CASE DataLoaded
      <3>1. engine' = engine /\ loaded' \in engine .. MaxEngine
        BY <2>8 DEF DataLoaded
      <3>2. QED
        BY <1>5, <2>8, <3>1 DEF DataLoaded
    <2>9. QED
      BY <1>5, <2>3, <2>4, <2>5, <2>6, <2>7, <2>8
  <1>6. ASSUME Relaunch PROVE TypeOK'
    <2>1. Live' = {}
      BY <1>6 DEF Relaunch, Live
    <2>2. Cardinality(Live)' <= MaxSessionSize
      BY <2>1, CapacityOfSubset
    <2>3. engine' \in 0 .. MaxEngine /\ loaded' \in engine' .. MaxEngine
      BY <1>6 DEF Relaunch
    <2>4. session' \in [SessionID -> Session \cup {NoSession}]
      BY <1>6 DEF Relaunch
    <2>5. /\ lastEmpty' \in TimeOrNever
          /\ lastCreate' \in TimeOrNever
          /\ lastCleanup' \in TimeOrNever
      BY <1>6 DEF Relaunch, TypeOK, TimeOrNever
    <2>6. QED
      BY <1>6, <2>2, <2>3, <2>4, <2>5 DEF Relaunch, TypeOK
  <1>7. QED
    BY <1>1, <1>2, <1>3, <1>4, <1>5, <1>6 DEF Next, Command, SendKey, TestSendKey,
       SendCommand, BeginSyncLock, EndSyncLock, NoEffect, Shutdown, Tick, SetBack,
       AppExit, DataLoaded, vars, mapVars

\* The session table has its type and never exceeds max_session_size_, whatever
\* commands arrive and whichever sessions are evicted or time out.
THEOREM TypeCorrect == Spec => []TypeOK
  <1>1. QED
    BY TypeInit, TypeStep, PTL DEF Spec

-----------------------------------------------------------------------------
(* The invariants.  A step that is not a Relaunch creates a session, removes *)
(* some, accesses one, or leaves the map, its clock and the engine alone.    *)

\* The clock shows a later time, or it was set back once more.
ClockMoves == \/ resets' = resets /\ now' >= now
              \/ resets' > resets

Quiet == UNCHANGED <<session, older, lastEmpty, engine>> /\ ClockMoves

LEMMA StepKinds ==
  ASSUME TypeOK, [Next]_vars
  PROVE  \/ \E app \in App : CreateSession(app)
         \/ \E S \in SUBSET SessionID : DeleteSessionID(S) /\ UNCHANGED <<clockVars, engine>>
         \/ \E id \in Live : Access(id) /\ ~syncLocked
         \/ Quiet
         \/ Relaunch
  <1>1. /\ now \in Int /\ now <= now
        /\ resets \in Int /\ resets + 1 > resets
    BY SessionHandlerAssumption DEF TypeOK, Time
  <1>2. ASSUME NEW id \in SessionID, DeleteSession(id)
        PROVE  \E S \in SUBSET SessionID : DeleteSessionID(S) /\ UNCHANGED <<clockVars, engine>>
    <2>1. DeleteSessionID({id}) /\ UNCHANGED <<clockVars, engine>>
      BY <1>2 DEF DeleteSession, engineVars
    <2>2. QED
      BY <2>1
  <1>3. ASSUME Cleanup
        PROVE  \E S \in SUBSET SessionID : DeleteSessionID(S) /\ UNCHANGED <<clockVars, engine>>
    <2> DEFINE S == {s \in Live : Removable(s)}
    <2>1. DeleteSessionID(S) /\ UNCHANGED <<clockVars, engine>>
      BY <1>3 DEF Cleanup, engineVars
    <2>2. S \in SUBSET SessionID
      BY DEF Live
    <2>3. QED
      <3> HIDE DEF S
      <3> QED BY <2>1, <2>2
  <1>4. ASSUME NEW id \in SessionID, Accepted(id), Access(id)
        PROVE  \E i \in Live : Access(i) /\ ~syncLocked
    BY <1>4 DEF Accepted
  <1>5. CASE BeginSyncLock \/ EndSyncLock \/ NoEffect \/ Shutdown
              \/ (\E app \in App : AppExit(app)) \/ DataLoaded \/ UNCHANGED vars
    <2>1. UNCHANGED <<session, older, lastEmpty, engine, clockVars>>
      BY <1>5 DEF BeginSyncLock, EndSyncLock, NoEffect, Shutdown, AppExit,
         DataLoaded, vars, mapVars, timeVars, engineVars
    <2>2. QED
      BY <1>1, <2>1 DEF Quiet, ClockMoves, clockVars
  <1>6. CASE Tick
    <2>1. ClockMoves
      BY <1>1, <1>6, SessionHandlerAssumption DEF Tick, Time, ClockMoves
    <2>2. QED
      BY <1>6, <2>1 DEF Tick, Quiet, mapVars, timeVars, engineVars
  <1>6a. CASE SetBack
    <2>1. ClockMoves
      BY <1>1, <1>6a DEF SetBack, ClockMoves
    <2>2. QED
      BY <1>6a, <2>1 DEF SetBack, Quiet, mapVars, timeVars, engineVars
  <1>7. QED
    BY <1>2, <1>3, <1>4, <1>5, <1>6, <1>6a DEF Next, Command, SendKey, TestSendKey,
       SendCommand

LEMMA EngineStep == TypeOK /\ EngineInUse /\ [Next]_vars => EngineInUse'
  <1> SUFFICES ASSUME TypeOK, EngineInUse, [Next]_vars PROVE EngineInUse'
    OBVIOUS
  <1>1. ASSUME NEW app \in App, CreateSession(app) PROVE EngineInUse'
    <2>1. PICK evicted \in Evictions : \E id \in SessionID \ (Live \ evicted) :
            Created(app, evicted, id)
      BY <1>1, CreateType
    <2>2. PICK id \in SessionID \ (Live \ evicted) :
            Created(app, evicted, id)
      BY <2>1
    <2>3. session'[id].engine = engine'
      BY <2>2 DEF Created, New
    <2>4. ASSUME NEW s \in Live \ evicted, s # id PROVE session'[s].engine = engine'
      <3>1. engine' = engine
        BY <2>2, <2>4 DEF Created
      <3>2. session'[s] = session[s]
        BY <2>2, <2>4 DEF Created, Live
      <3>3. QED
        BY <2>4, <3>1, <3>2 DEF EngineInUse
    <2>5. QED
      BY <2>2, <2>3, <2>4 DEF Created, EngineInUse
  <1>2. ASSUME NEW S \in SUBSET SessionID, DeleteSessionID(S), UNCHANGED <<clockVars, engine>>
        PROVE  EngineInUse'
    <2>1. Live' = Live \ S
      BY <1>2, DeleteType
    <2>2. \A s \in Live \ S : session'[s] = session[s]
      BY <1>2 DEF DeleteSessionID, Live
    <2>3. QED
      BY <1>2, <2>1, <2>2 DEF EngineInUse
  <1>3. ASSUME NEW id \in Live, Access(id) PROVE EngineInUse'
    <2>1. /\ session' = [session EXCEPT ![id] = session'[id]]
          /\ session'[id] = Accessed(session[id])
          /\ Live' = Live
      BY <1>3, AccessType
    <2>2. session[id] \in Session
      BY DEF TypeOK, Live
    <2>3. session'[id].engine = session[id].engine
      BY <2>1, <2>2 DEF Session, Accessed
    <2>4. \A s \in Live : s # id => session'[s] = session[s]
      BY <2>1 DEF TypeOK, Live
    <2>5. engine' = engine
      BY <1>3 DEF Access, engineVars
    <2>6. QED
      BY <2>1, <2>3, <2>4, <2>5 DEF EngineInUse
  <1>4. CASE Quiet
    BY <1>4 DEF Quiet, EngineInUse, Live
  <1>5. CASE Relaunch
    BY <1>5 DEF Relaunch, EngineInUse, Live
  <1>6. QED
    BY <1>1, <1>2, <1>3, <1>4, <1>5, StepKinds

LEMMA EmptyStep == TypeOK /\ EmptyTimeExact /\ [Next]_vars => EmptyTimeExact'
  <1> SUFFICES ASSUME TypeOK, EmptyTimeExact, [Next]_vars PROVE EmptyTimeExact'
    OBVIOUS
  <1>0. now # InfinitePast
    BY SessionHandlerAssumption DEF TypeOK, Time
  <1>1. ASSUME NEW app \in App, CreateSession(app) PROVE EmptyTimeExact'
    <2>1. Live' # {}
      BY <1>1, CreateType DEF Created
    <2>2. QED
      BY <1>1, <2>1 DEF CreateSession, EmptyTimeExact
  <1>2. ASSUME NEW S \in SUBSET SessionID, DeleteSessionID(S) PROVE EmptyTimeExact'
    <2>1. Live' = Live \ S
      BY <1>2, DeleteType
    <2>2. QED
      BY <1>0, <1>2, <2>1 DEF DeleteSessionID, EmptyTimeExact
  <1>3. ASSUME NEW id \in Live, Access(id) PROVE EmptyTimeExact'
    <2>1. Live' = Live
      BY <1>3, AccessType
    <2>2. QED
      BY <1>3, <2>1 DEF Access, timeVars, EmptyTimeExact
  <1>4. CASE Quiet
    BY <1>4 DEF Quiet, EmptyTimeExact, Live
  <1>5. CASE Relaunch
    BY <1>0, <1>5 DEF Relaunch, EmptyTimeExact, Live
  <1>6. QED
    BY <1>1, <1>2, <1>3, <1>4, <1>5, StepKinds

\* How the order changes: a new head at the current time, and removals.
LEMMA RecencyOfPush ==
  ASSUME TypeOK, RecencyInv, NEW L \in SUBSET Live, NEW id \in SessionID,
         Live' = L \cup {id},
         UNCHANGED clockVars,
         older' = PushHead(Without(older, Live \ L), id, L),
         session'[id].since = now, session'[id].epoch = resets,
         \A s \in L \ {id} : session'[s] = session[s]
  PROVE  RecencyInv'
  <1>1. /\ now \in Int /\ resets \in Int
        /\ now' = now /\ resets' = resets
        /\ \A s \in Live : session[s].since \in Int /\ session[s].epoch \in Int
    BY SessionHandlerAssumption DEF TypeOK, Time, Live, Session, clockVars
  <1>2. older' = {p \in older : p[1] \in L \ {id} /\ p[2] \in L \ {id}} \cup ((L \ {id}) \X {id})
    BY DEF PushHead, Without, RecencyInv
  <1>3. older' \subseteq Live' \X Live'
    BY <1>2 DEF RecencyInv
  <1>4. ASSUME NEW s \in Live'
        PROVE  /\ <<s, s>> \notin older'
               /\ session'[s].epoch <= resets'
               /\ session'[s].epoch = resets' => session'[s].since <= now'
    <2>1. CASE s = id
      <3>1. <<id, id>> \notin older'
        BY <1>2
      <3>2. QED
        BY <1>1, <2>1, <3>1
    <2>2. CASE s # id
      <3>1. s \in L \ {id}
        BY <2>2, <1>4
      <3>2. <<s, s>> \notin older'
        BY <1>2, <2>2, <3>1 DEF RecencyInv
      <3>3. QED
        BY <1>1, <3>1, <3>2 DEF RecencyInv
    <2>3. QED
      BY <2>1, <2>2
  <1>5. \A s, t \in Live' : s # t => <<s, t>> \in older' \/ <<t, s>> \in older'
    BY <1>2 DEF RecencyInv
  <1>6. ASSUME NEW p \in older' PROVE ~Earlier(p[2], p[1])'
    <2>1. CASE p \in older /\ p[1] \in L \ {id} /\ p[2] \in L \ {id}
      BY <2>1 DEF RecencyInv, Earlier
    <2>2. CASE p[1] \in L \ {id} /\ p[2] = id
      <3>1. /\ session[p[1]].epoch <= resets
            /\ session[p[1]].epoch = resets => session[p[1]].since <= now
        BY <2>2 DEF RecencyInv
      <3>2. session'[p[1]] = session[p[1]]
        BY <2>2
      <3>3. p[1] \in Live
        BY <2>2
      <3>4. QED
        BY <1>1, <2>2, <3>1, <3>2, <3>3 DEF Earlier
    <2>3. QED
      BY <1>2, <2>1, <2>2
  <1>7. QED
    BY <1>3, <1>4, <1>5, <1>6 DEF RecencyInv

LEMMA RecencyStep == TypeOK /\ RecencyInv /\ [Next]_vars => RecencyInv'
  <1> SUFFICES ASSUME TypeOK, RecencyInv, [Next]_vars PROVE RecencyInv'
    OBVIOUS
  <1>1. ASSUME NEW app \in App, CreateSession(app) PROVE RecencyInv'
    <2>1. PICK evicted \in Evictions : \E id \in SessionID \ (Live \ evicted) :
            Created(app, evicted, id)
      BY <1>1, CreateType
    <2>2. PICK id \in SessionID \ (Live \ evicted) :
            Created(app, evicted, id)
      BY <2>1
    <2> DEFINE L == Live \ evicted
    <2>3. evicted \subseteq Live /\ Live \ L = evicted
      BY DEF Evictions, IsTail
    <2>4. session'[id].since = now /\ session'[id].epoch = resets
      BY <2>2 DEF Created, New
    <2>5. \A s \in L \ {id} : session'[s] = session[s]
      BY <2>2 DEF Created, Live
    <2>6. UNCHANGED clockVars
      BY <1>1 DEF CreateSession
    <2>7. Live' = L \cup {id} /\ older' = PushHead(Without(older, Live \ L), id, L)
      BY <2>2, <2>3 DEF Created
    <2>8. L \in SUBSET Live /\ id \in SessionID
      BY <2>2
    <2> HIDE DEF L
    <2>9. QED
      BY <2>2, <2>3, <2>4, <2>5, <2>6, <2>7, <2>8, RecencyOfPush
  <1>2. ASSUME NEW S \in SUBSET SessionID, DeleteSessionID(S), UNCHANGED <<clockVars, engine>>
        PROVE  RecencyInv'
    <2>1. Live' = Live \ S
      BY <1>2, DeleteType
    <2>2. \A s \in Live \ S : session'[s] = session[s]
      BY <1>2 DEF DeleteSessionID, Live
    <2>3. older' = {p \in older : p[1] \in Live \ S /\ p[2] \in Live \ S}
      BY <1>2 DEF DeleteSessionID, Without, RecencyInv
    <2>4. QED
      BY <1>2, <2>1, <2>2, <2>3 DEF RecencyInv, Earlier, clockVars
  <1>3. ASSUME NEW id \in Live, Access(id) PROVE RecencyInv'
    <2>1. /\ session' = [session EXCEPT ![id] = session'[id]]
          /\ session'[id] = Accessed(session[id])
          /\ older' = PushHead(older, id, Live)
          /\ Live' = Live
      BY <1>3, AccessType
    <2>2. session[id] \in Session /\ id \in SessionID
      BY DEF TypeOK, Live
    <2>3. session'[id].since = now /\ session'[id].epoch = resets
      BY <2>1, <2>2 DEF Session, Accessed
    <2>4. \A s \in Live \ {id} : session'[s] = session[s]
      BY <2>1 DEF TypeOK, Live
    <2>5. UNCHANGED clockVars
      BY <1>3 DEF Access
    <2>6. Without(older, {}) = older
      BY DEF Without
    <2>7. Live' = Live \cup {id} /\ older' = PushHead(Without(older, Live \ Live), id, Live)
      BY <2>1, <2>6
    <2>8. QED
      BY <2>2, <2>3, <2>4, <2>5, <2>7, RecencyOfPush
  <1>4. CASE Quiet
    <2>1. Live' = Live
      BY <1>4 DEF Quiet, Live
    <2>2. ASSUME NEW s \in Live
          PROVE  /\ session[s].epoch <= resets'
                 /\ session[s].epoch = resets' => session[s].since <= now'
      <3>1. session[s].since \in Int /\ session[s].epoch \in Int
        BY SessionHandlerAssumption DEF TypeOK, Live, Session, Time
      <3>2. now \in Int /\ now' \in Int /\ resets \in Int /\ resets' \in Int
        BY TypeStep, SessionHandlerAssumption DEF TypeOK, Time
      <3>3. /\ session[s].epoch <= resets
            /\ session[s].epoch = resets => session[s].since <= now
        BY DEF RecencyInv
      <3>4. ClockMoves
        BY <1>4 DEF Quiet
      <3>5. QED
        BY <3>1, <3>2, <3>3, <3>4 DEF ClockMoves
    <2>3. session' = session /\ older' = older
      BY <1>4 DEF Quiet
    <2>4. QED
      BY <2>1, <2>2, <2>3 DEF RecencyInv, Earlier
  <1>5. CASE Relaunch
    BY <1>5 DEF Relaunch, RecencyInv, Live
  <1>6. QED
    BY <1>1, <1>2, <1>3, <1>4, <1>5, StepKinds

LEMMA EngineInit == Init => EngineInUse
  BY DEF Init, EngineInUse, Live

LEMMA EmptyInit == Init => EmptyTimeExact
  BY SessionHandlerAssumption DEF Init, EmptyTimeExact, Live

\* No session ever runs on an engine other than the installed one, though data
\* may arrive from the loader's thread at any moment.
THEOREM EngineSafe == Spec => []EngineInUse
  <1>1. QED
    BY TypeInit, TypeStep, EngineInit, EngineStep, PTL DEF Spec

\* The clock --timeout is measured by runs exactly while the map is empty.
THEOREM EmptyTimeCorrect == Spec => []EmptyTimeExact
  <1>1. QED
    BY TypeInit, TypeStep, EmptyInit, EmptyStep, PTL DEF Spec

LEMMA RecencyInit == Init => RecencyInv
  BY DEF Init, RecencyInv, Live

\* The LRU list always holds the sessions in the order of their last accesses, also
\* when the clock has been set back and their times say otherwise.
THEOREM RecencyCorrect == Spec => []RecencyInv
  <1>1. QED
    BY TypeInit, TypeStep, RecencyInit, RecencyStep, PTL DEF Spec

-----------------------------------------------------------------------------
(* What no step may do.                                                    *)

\* A full map gives up the session accessed longest ago, wherever the clock was set
\* in between.
THEOREM EvictionCorrect == Spec => EvictsLeastRecent
  <1> DEFINE A == (\E app \in App : CreateSession(app)) =>
                     \A s, t \in Live :
                        session'[s] # session[s] /\ session'[t] = session[t]
                           => ~Earlier(t, s)
  <1>1. ASSUME TypeOK, RecencyInv, [Next]_vars PROVE A
    <2> SUFFICES ASSUME NEW app \in App, CreateSession(app),
                        NEW s \in Live, NEW t \in Live,
                        session'[s] # session[s], session'[t] = session[t]
                 PROVE  ~Earlier(t, s)
      OBVIOUS
    <2>1. PICK evicted \in Evictions : \E id \in SessionID \ (Live \ evicted) :
            Created(app, evicted, id)
      BY <1>1, CreateType
    <2>2. PICK id \in SessionID \ (Live \ evicted) : Created(app, evicted, id)
      BY <2>1
    <2>3. s \in evicted
      BY <2>2 DEF Created, Live
    <2>4. IsTail(s)
      BY <2>3 DEF Evictions
    <2>5. s # t /\ <<s, t>> \in older
      BY <2>4 DEF IsTail
    <2>6. QED
      BY <1>1, <2>5 DEF RecencyInv
  <1>2. QED
    BY <1>1, TypeInit, TypeStep, RecencyInit, RecencyStep, PTL
       DEF Spec, EvictsLeastRecent

\* The time a machine slept never costs a session of a living application its
\* life at the first CLEANUP afterwards.
THEOREM SleepCorrect == Spec => SurvivesSleep
  <1> DEFINE A == Cleanup /\ lastCleanup # InfinitePast =>
                     \A s \in Live :
                        /\ session[s].app \in alive
                        /\ lastCleanup + 2 * WatchDogInterval
                              < session[s].since + SessionTimeout(s)
                        => session'[s] = session[s]
  <1>1. ASSUME TypeOK, [Next]_vars PROVE A
    <2> SUFFICES ASSUME Cleanup, lastCleanup # InfinitePast, NEW s \in Live,
                        session[s].app \in alive,
                        lastCleanup + 2 * WatchDogInterval
                           < session[s].since + SessionTimeout(s)
                 PROVE  session'[s] = session[s]
      OBVIOUS
    <2>1. now \in Int /\ lastCleanup \in Int /\ session[s].since \in Int
      BY <1>1, SessionHandlerAssumption
         DEF TypeOK, TimeOrNever, Time, Live, Session
    <2>2. SessionTimeout(s) \in Int /\ WatchDogInterval \in Nat
      BY SessionHandlerAssumption DEF SessionTimeout
    <2>3. now - session[s].since < SuspendTime + SessionTimeout(s)
      BY <2>1, <2>2 DEF SuspendTime
    <2>4. SuspendTime \in Int
      BY <2>1, <2>2 DEF SuspendTime
    <2>5. ~Removable(s)
      BY <2>1, <2>2, <2>3, <2>4 DEF Removable
    <2>6. QED
      BY <2>5 DEF Cleanup, DeleteSessionID, Live
  <1>2. QED
    BY <1>1, TypeInit, TypeStep, PTL DEF Spec, SurvivesSleep

\* No key or command reaches a session between BEGIN_SYNC_LOCK and the end of
\* the lock, however the sessions come and go meanwhile.
THEOREM LockCorrect == Spec => LockHoldsKeys
  <1> DEFINE A == syncLocked /\ syncLocked' =>
                     \A s \in Live' : session'[s] = session[s] \/ ~session'[s].used
  <1>1. ASSUME TypeOK, [Next]_vars PROVE A
    <2> SUFFICES ASSUME syncLocked, syncLocked', NEW s \in Live'
                 PROVE  session'[s] = session[s] \/ ~session'[s].used
      OBVIOUS
    <2>1. ASSUME NEW app \in App, CreateSession(app)
          PROVE  session'[s] = session[s] \/ ~session'[s].used
      <3>1. PICK evicted \in Evictions : \E id \in SessionID \ (Live \ evicted) :
              Created(app, evicted, id)
        BY <1>1, <2>1, CreateType
      <3>2. PICK id \in SessionID \ (Live \ evicted) : Created(app, evicted, id)
        BY <3>1
      <3>3. QED
        BY <3>2, NoSessionAssumption DEF Created, New, Live
    <2>2. ASSUME NEW S \in SUBSET SessionID, DeleteSessionID(S)
          PROVE  session'[s] = session[s]
      BY <2>2 DEF DeleteSessionID, Live
    <2>3. ~Relaunch
      BY DEF Relaunch
    <2>4. CASE Quiet
      BY <2>4 DEF Quiet
    <2>5. QED
      BY <1>1, <2>1, <2>2, <2>3, <2>4, StepKinds
  <1>2. QED
    BY <1>1, TypeInit, TypeStep, PTL DEF Spec, LockHoldsKeys

SessionsOf(app) == {s \in Live : session[s].app = app}

\* The sessions of an application that has exited only ever go, and the next CLEANUP
\* takes them all.
DeadOnlyGo ==
    [][\A app \in App \ alive :
          /\ app \notin alive'
          /\ SessionsOf(app)' \subseteq SessionsOf(app)
          /\ Cleanup => SessionsOf(app)' = {}]_vars

\* No eviction, reuse of an id or key brings a session of an exited application back,
\* not even while sessions of others are made under the ids it had; with the CLEANUPs
\* that TLC's fairness lets the watch dog send, this is why DeadAppsReaped holds.
THEOREM DeadOnlyGoCorrect == Spec => DeadOnlyGo
  <1> DEFINE A == \A app \in App \ alive :
                     /\ app \notin alive'
                     /\ SessionsOf(app)' \subseteq SessionsOf(app)
                     /\ Cleanup => SessionsOf(app)' = {}
  <1>1. ASSUME TypeOK, [Next]_vars PROVE A
    <2> SUFFICES ASSUME NEW app \in App \ alive
                 PROVE  /\ app \notin alive'
                        /\ SessionsOf(app)' \subseteq SessionsOf(app)
                        /\ Cleanup => SessionsOf(app)' = {}
      OBVIOUS
    <2>1. alive' \subseteq alive
      BY <1>1 DEF Next, Command, CreateSession, DeleteSession, SendKey, TestSendKey, SendCommand,
         Access, Cleanup, BeginSyncLock, EndSyncLock, NoEffect, Shutdown, Tick, SetBack,
         AppExit, DataLoaded, Relaunch, vars
    <2>2. ASSUME NEW s \in SessionID, s \in SessionsOf(app)' PROVE s \in SessionsOf(app)
      <3>1. s \in Live' /\ session'[s].app = app
        BY <2>2 DEF SessionsOf
      <3>2. ASSUME NEW other \in App, CreateSession(other)
            PROVE  s \in Live /\ session[s].app = app
        <4>1. other # app
          BY <3>2 DEF CreateSession
        <4>2. PICK evicted \in Evictions : \E id \in SessionID \ (Live \ evicted) :
                Created(other, evicted, id)
          BY <1>1, <3>2, CreateType
        <4>3. PICK id \in SessionID \ (Live \ evicted) : Created(other, evicted, id)
          BY <4>2
        <4>4. CASE s = id
          <5>1. session'[s].app = other
            BY <4>3, <4>4 DEF Created, New
          <5>2. QED
            BY <3>1, <4>1, <5>1
        <4>5. CASE s # id
          BY <3>1, <4>3, <4>5 DEF Created, Live
        <4>6. QED
          BY <4>4, <4>5
      <3>3. ASSUME NEW S \in SUBSET SessionID, DeleteSessionID(S)
            PROVE  s \in Live /\ session[s].app = app
        BY <3>1, <3>3 DEF DeleteSessionID, Live
      <3>4. ASSUME NEW id \in Live, Access(id) PROVE s \in Live /\ session[s].app = app
        <4>1. id \in SessionID /\ session[id] \in Session
          BY <1>1 DEF TypeOK, Live
        <4>2. session'[id].app = session[id].app
          BY <1>1, <3>4, <4>1 DEF Access, TypeOK, Session
        <4>3. \A t \in SessionID \ {id} : session'[t] = session[t]
          BY <1>1, <3>4 DEF Access, TypeOK
        <4>4. QED
          BY <3>1, <3>4, <4>2, <4>3 DEF Live
      <3>5. ~Relaunch
        BY <3>1 DEF Relaunch, Live
      <3>6. ASSUME Quiet PROVE s \in Live /\ session[s].app = app
        BY <3>1, <3>6 DEF Quiet, Live
      <3>7. s \in Live /\ session[s].app = app
        BY <1>1, <3>2, <3>3, <3>4, <3>5, <3>6, StepKinds
      <3>8. QED
        BY <3>7 DEF SessionsOf
    <2>3. ASSUME Cleanup, NEW s \in SessionsOf(app)' PROVE FALSE
      <3>1. s \in SessionsOf(app) /\ s \in Live'
        BY <2>2, <2>3 DEF SessionsOf, Live
      <3>2. s \in Live /\ Removable(s)
        BY <3>1 DEF SessionsOf, Removable
      <3>3. session'[s] = NoSession
        BY <2>3, <3>2 DEF Cleanup, DeleteSessionID, Live
      <3>4. QED
        BY <3>1, <3>3 DEF Live
    <2>4. SessionsOf(app)' \subseteq SessionID
      BY DEF SessionsOf, Live
    <2>5. QED
      BY <2>1, <2>2, <2>3, <2>4
  <1>2. QED
    BY <1>1, TypeInit, TypeStep, PTL DEF Spec, DeadOnlyGo

-----------------------------------------------------------------------------
(* The cache that session_map_ is: LruCache.                                *)

Caches == [table : [Key -> Pointer],
           next : [Element -> Pointer], prev : [Element -> Pointer],
           key : [Element -> Key \cup {null}],
           value : [Element -> Value \cup {null}],
           free : Pointer, head : Pointer, tail : Pointer,
           blocks : 0 .. MaxBlocks, capacity : 0 .. MaxElements, size : Nat]

\* The elements of s follow each other by the pointers next, from p to null.
Path(next, p, s) ==
    /\ p = IF Len(s) = 0 THEN null ELSE s[1]
    /\ \A i \in 1 .. Len(s) : next[s[i]] = IF i = Len(s) THEN null ELSE s[i + 1]

Distinct(s) == \A i, j \in 1 .. Len(s) : s[i] = s[j] => i = j
In(e, s) == \E i \in 1 .. Len(s) : s[i] = e

\* The LRU list of c is u, the free list is f.
Lists(c, u, f) ==
    /\ u \in Seq(Element) /\ f \in Seq(Element)
    /\ Distinct(u) /\ Distinct(f) /\ \A e \in Element : ~(In(e, u) /\ In(e, f))
    /\ Path(c.next, c.head, u)
    /\ c.tail = IF Len(u) = 0 THEN null ELSE u[Len(u)]
    /\ \A i \in 1 .. Len(u) : c.prev[u[i]] = IF i = 1 THEN null ELSE u[i - 1]
    /\ Path(c.next, c.free, f)
    /\ \A i \in 1 .. Len(f) : c.prev[f[i]] = null

\* The table names the elements of u.
Named(c, u) ==
    /\ \A k \in Key : c.table[k] # null => In(c.table[k], u) /\ c.key[c.table[k]] = k
    /\ \A i \in 1 .. Len(u) : c.key[u[i]] \in Key /\ c.table[c.key[u[i]]] = u[i]
                              /\ c.value[u[i]] \in Value

\* No element of the blocks is lost.
Whole(c, u, f) ==
    /\ \A e \in Element : e <= c.capacity <=> In(e, u) \/ In(e, f)
    /\ Len(u) + Len(f) = c.capacity

Growth(c) == c.capacity = Grown[c.blocks].capacity /\ c.size = Grown[c.blocks].size

Good(c, u, f) == c \in Caches /\ Lists(c, u, f) /\ Named(c, u) /\ Whole(c, u, f) /\ Growth(c)

LruInv == \E u, f \in Seq(Element) : Good(cache, u, f)
-----------------------------------------------------------------------------
(* Numbers and sequences.                                                   *)

LEMMA Least ==
  ASSUME NEW S, S \subseteq Nat, S # {}
  PROVE  \E m \in S : \A n \in S : m <= n
  <1>1. PICK m \in S : \A n \in S : ~(<<n, m>> \in OpToRel(<, Nat))
    BY NatLessThanWellFounded, WFMin, Zenon
  <1>2. \A n \in S : ~(n < m)
    BY <1>1 DEF OpToRel
  <1>3. QED
    BY <1>2

\* What holds of a, and of every later number if of the one before, holds up to b.
LEMMA UpTo ==
  ASSUME NEW a \in Nat, NEW b \in Nat, NEW T, a \in T,
         \A n \in a + 1 .. b : n - 1 \in T => n \in T
  PROVE  \A n \in a .. b : n \in T
  <1> DEFINE Rest == {n \in a .. b : n \notin T}
  <1> SUFFICES ASSUME Rest # {} PROVE FALSE
    OBVIOUS
  <1>1. PICK m \in Rest : \A n \in Rest : m <= n
    <2>1. Rest \subseteq Nat
      OBVIOUS
    <2> HIDE DEF Rest
    <2>2. QED
      BY <2>1, Least
  <1>2. m \in a + 1 .. b /\ m - 1 \in a .. b
    <2>1. m \in a .. b /\ m # a
      OBVIOUS
    <2>2. QED
      BY <2>1
  <1>3. m - 1 \notin Rest
    <2> HIDE DEF Rest
    <2>1. QED
      BY <1>1, <1>2
  <1>4. QED
    BY <1>2, <1>3

LEMMA RemoveAtFacts ==
  ASSUME NEW S, NEW s \in Seq(S), NEW i \in 1 .. Len(s)
  PROVE  /\ RemoveAt(s, i) \in Seq(S)
         /\ Len(RemoveAt(s, i)) = Len(s) - 1
         /\ \A j \in 1 .. Len(s) - 1 :
               RemoveAt(s, i)[j] = IF j < i THEN s[j] ELSE s[j + 1]
  <1> DEFINE a == SubSeq(s, 1, i - 1)
             b == SubSeq(s, i + 1, Len(s))
  <1>0. Len(s) \in Nat /\ \A j \in 1 .. Len(s) : s[j] \in S
    BY LenProperties, ElementOfSeq
  <1>1. /\ a \in Seq(S) /\ Len(a) = i - 1
        /\ \A j \in 1 .. i - 1 : a[j] = s[j]
    <2>1. \A j \in 1 .. i - 1 : s[j] \in S
      BY <1>0
    <2>2. /\ a \in Seq(S)
          /\ Len(a) = IF 1 <= i - 1 THEN i - 1 - 1 + 1 ELSE 0
          /\ \A j \in 1 .. i - 1 - 1 + 1 : a[j] = s[1 + j - 1]
      BY <1>0, <2>1, SubSeqProperties
    <2>3. QED
      BY <1>0, <2>2
  <1>2. /\ b \in Seq(S) /\ Len(b) = Len(s) - i
        /\ \A j \in 1 .. Len(s) - i : b[j] = s[i + j]
    <2>1. \A j \in i + 1 .. Len(s) : s[j] \in S
      BY <1>0
    <2>2. /\ b \in Seq(S)
          /\ Len(b) = IF i + 1 <= Len(s) THEN Len(s) - (i + 1) + 1 ELSE 0
          /\ \A j \in 1 .. Len(s) - (i + 1) + 1 : b[j] = s[i + 1 + j - 1]
      BY <1>0, <2>1, SubSeqProperties
    <2>3. QED
      BY <1>0, <2>2
  <1>3. /\ a \o b \in Seq(S) /\ Len(a \o b) = Len(a) + Len(b)
        /\ \A j \in 1 .. Len(a) + Len(b) : (a \o b)[j] = IF j <= Len(a) THEN a[j] ELSE b[j - Len(a)]
    BY <1>1, <1>2, ConcatProperties
  <1>4. RemoveAt(s, i) = a \o b
    BY DEF RemoveAt
  <1> HIDE DEF a, b
  <1>5. Len(a \o b) = Len(s) - 1
    BY <1>0, <1>1, <1>2, <1>3
  <1>6. ASSUME NEW j \in 1 .. Len(s) - 1
        PROVE  (a \o b)[j] = IF j < i THEN s[j] ELSE s[j + 1]
    <2>1. CASE j < i
      BY <1>0, <1>1, <1>2, <1>3, <2>1
    <2>2. CASE ~(j < i)
      <3>1. j - Len(a) \in 1 .. Len(s) - i /\ i + (j - Len(a)) = j + 1 /\ ~(j <= Len(a))
        BY <1>0, <1>1, <2>2
      <3>2. QED
        <4>1. j \in 1 .. Len(a) + Len(b)
          BY <1>0, <1>1, <1>2
        <4>2. (a \o b)[j] = b[j - Len(a)]
          BY <1>3, <3>1, <4>1
        <4>3. b[j - Len(a)] = s[j + 1]
          BY <1>2, <3>1
        <4>4. QED
          BY <2>2, <4>2, <4>3
    <2>3. QED
      BY <2>1, <2>2
  <1>7. QED
    BY <1>3, <1>4, <1>5, <1>6

LEMMA ConsFacts ==
  ASSUME NEW S, NEW s \in Seq(S), NEW e \in S
  PROVE  /\ <<e>> \o s \in Seq(S)
         /\ Len(<<e>> \o s) = Len(s) + 1
         /\ \A j \in 1 .. Len(s) + 1 : (<<e>> \o s)[j] = IF j = 1 THEN e ELSE s[j - 1]
  <1>1. <<e>> \in Seq(S) /\ Len(<<e>>) = 1 /\ <<e>>[1] = e /\ Len(s) \in Nat
    BY LenProperties
  <1>2. /\ <<e>> \o s \in Seq(S)
        /\ Len(<<e>> \o s) = Len(<<e>>) + Len(s)
        /\ \A j \in 1 .. Len(<<e>>) + Len(s) :
              (<<e>> \o s)[j] = IF j <= Len(<<e>>) THEN <<e>>[j] ELSE s[j - Len(<<e>>)]
    BY <1>1, ConcatProperties
  <1>3. QED
    BY <1>1, <1>2

\* The sequence s without its element at i, and with e before it.
LEMMA RemoveMembers ==
  ASSUME NEW S, NEW s \in Seq(S), Distinct(s), NEW i \in 1 .. Len(s)
  PROVE  /\ Distinct(RemoveAt(s, i))
         /\ \A e : In(e, RemoveAt(s, i)) <=> In(e, s) /\ e # s[i]
  <1> DEFINE r == RemoveAt(s, i)
  <1>1. /\ Len(r) = Len(s) - 1 /\ Len(s) \in Nat
        /\ \A j \in 1 .. Len(s) - 1 : r[j] = IF j < i THEN s[j] ELSE s[j + 1]
    BY RemoveAtFacts, LenProperties
  <1> HIDE DEF r
  <1>2. Distinct(r)
    BY <1>1 DEF Distinct
  <1>3. ASSUME NEW e, In(e, r) PROVE In(e, s) /\ e # s[i]
    BY <1>1, <1>3 DEF In, Distinct
  <1>4. ASSUME NEW e, In(e, s), e # s[i] PROVE In(e, r)
    <2>1. PICK j \in 1 .. Len(s) : s[j] = e
      BY <1>4 DEF In
    <2>2. CASE j < i
      <3>1. j \in 1 .. Len(r) /\ r[j] = e
        BY <1>1, <2>1, <2>2
      <3>2. QED
        BY <3>1 DEF In
    <2>3. CASE ~(j < i)
      <3>1. j - 1 \in 1 .. Len(r) /\ r[j - 1] = e
        BY <1>1, <1>4, <2>1, <2>3
      <3>2. QED
        BY <3>1 DEF In
    <2>4. QED
      BY <2>2, <2>3
  <1>5. QED
    BY <1>2, <1>3, <1>4 DEF r

LEMMA ConsMembers ==
  ASSUME NEW S, NEW s \in Seq(S), Distinct(s), NEW e \in S, ~In(e, s)
  PROVE  /\ Distinct(<<e>> \o s)
         /\ \A x : In(x, <<e>> \o s) <=> In(x, s) \/ x = e
  <1> DEFINE r == <<e>> \o s
  <1>1. /\ Len(r) = Len(s) + 1 /\ Len(s) \in Nat
        /\ \A j \in 1 .. Len(s) + 1 : r[j] = IF j = 1 THEN e ELSE s[j - 1]
    BY ConsFacts, LenProperties
  <1> HIDE DEF r
  <1>2. ASSUME NEW j \in 1 .. Len(r), NEW k \in 1 .. Len(r), r[j] = r[k] PROVE j = k
    <2>1. CASE j = 1 \/ k = 1
      BY <1>1, <1>2, <2>1 DEF In
    <2>2. CASE j # 1 /\ k # 1
      <3>1. j - 1 \in 1 .. Len(s) /\ k - 1 \in 1 .. Len(s) /\ s[j - 1] = s[k - 1]
        BY <1>1, <1>2, <2>2
      <3>2. j - 1 = k - 1
        BY <3>1 DEF Distinct
      <3>3. QED
        BY <1>1, <3>2
    <2>3. QED
      BY <2>1, <2>2
  <1>3. ASSUME NEW x, In(x, r) PROVE In(x, s) \/ x = e
    <2>1. PICK j \in 1 .. Len(r) : r[j] = x
      BY <1>3 DEF In
    <2>2. j = 1 \/ (j - 1 \in 1 .. Len(s) /\ s[j - 1] = x)
      BY <1>1, <2>1
    <2>3. QED
      BY <1>1, <2>1, <2>2 DEF In
  <1>4. ASSUME NEW x, In(x, s) \/ x = e PROVE In(x, r)
    <2>1. CASE x = e
      <3>1. 1 \in 1 .. Len(r) /\ r[1] = x
        BY <1>1, <2>1
      <3>2. QED
        BY <3>1 DEF In
    <2>2. CASE In(x, s)
      <3>1. PICK j \in 1 .. Len(s) : s[j] = x
        BY <2>2 DEF In
      <3>2. j + 1 \in 1 .. Len(r) /\ r[j + 1] = x
        BY <1>1, <3>1
      <3>3. QED
        BY <3>2 DEF In
    <2>3. QED
      BY <1>4, <2>1, <2>2
  <1>5. QED
    BY <1>2, <1>3, <1>4 DEF r, Distinct
-----------------------------------------------------------------------------
(* How the blocks grow.                                                     *)

\* A recursive function on the numbers exists: x, F[1][x], F[2][F[1][x]] ...
Iterates(g, S, x, F) ==
    g \in [Nat -> S] /\ g[0] = x /\ \A n \in Nat \ {0} : g[n] = F[n][g[n - 1]]

LEMMA Iteration ==
  ASSUME NEW S, NEW x \in S, NEW F \in [Nat -> [S -> S]]
  PROVE  \E g : Iterates(g, S, x, F)
  <1> DEFINE Sol(n) == {h \in [0 .. n -> S] : h[0] = x /\ \A i \in 1 .. n : h[i] = F[i][h[i - 1]]}
             Missing == {n \in Nat : Sol(n) = {}}
  <1>1. ASSUME NEW n \in Nat \ {0}, NEW h \in Sol(n - 1)
        PROVE  [i \in 0 .. n |-> IF i = n THEN F[n][h[n - 1]] ELSE h[i]] \in Sol(n)
    <2> DEFINE k == [i \in 0 .. n |-> IF i = n THEN F[n][h[n - 1]] ELSE h[i]]
    <2>1. h \in [0 .. n - 1 -> S] /\ h[n - 1] \in S
      OBVIOUS
    <2>2. F[n][h[n - 1]] \in S
      BY <2>1
    <2>3. k \in [0 .. n -> S]
      BY <2>1, <2>2
    <2>4. k[0] = x /\ \A i \in 1 .. n : k[i] = F[i][k[i - 1]]
      BY <1>1
    <2>5. QED
      BY <2>3, <2>4
  <1>2. [i \in 0 .. 0 |-> x] \in Sol(0)
    OBVIOUS
  <1>3. Missing = {}
    <2> SUFFICES ASSUME Missing # {} PROVE FALSE
      OBVIOUS
    <2>1. PICK m \in Missing : \A n \in Missing : m <= n
      <3>1. Missing \subseteq Nat
        OBVIOUS
      <3> HIDE DEF Missing
      <3>2. QED
        BY <3>1, Least
    <2>2. m \in Nat \ {0}
      BY <1>2
    <2>3. m - 1 \in Nat /\ m - 1 \notin Missing
      <3> HIDE DEF Missing
      <3>1. QED
        BY <2>1, <2>2
    <2>4. PICK h : h \in Sol(m - 1)
      <3> HIDE DEF Sol
      <3>1. QED
        BY <2>3
    <2>5. Sol(m) # {}
      BY <1>1, <2>2, <2>4
    <2> HIDE DEF Sol
    <2>6. QED
      BY <2>1, <2>5
  <1>4. ASSUME NEW m \in Nat, NEW n \in Nat, NEW h \in Sol(m), NEW k \in Sol(n)
        PROVE  \A i \in Nat : i <= m /\ i <= n => h[i] = k[i]
    <2> DEFINE Differ == {i \in Nat : i <= m /\ i <= n /\ h[i] # k[i]}
    <2>1. CASE Differ = {}
      BY <2>1
    <2>2. CASE Differ # {}
      <3>1. PICK i \in Differ : \A j \in Differ : i <= j
        <4>1. Differ \subseteq Nat
          OBVIOUS
        <4> HIDE DEF Differ
        <4>2. QED
          BY <2>2, <4>1, Least
      <3>2. i # 0
        BY <3>1
      <3>3. i - 1 \in Nat /\ h[i - 1] = k[i - 1]
        BY <3>1, <3>2
      <3>4. h[i] = F[i][h[i - 1]] /\ k[i] = F[i][k[i - 1]]
        BY <3>1, <3>2
      <3>5. h[i] = k[i]
        BY <3>3, <3>4
      <3>6. QED
        BY <3>1, <3>5
    <2>3. QED
      BY <2>1, <2>2
  <1> DEFINE g == [n \in Nat |-> (CHOOSE h : h \in Sol(n))[n]]
  <1>5. \A n \in Nat : (CHOOSE h : h \in Sol(n)) \in Sol(n)
    BY <1>3
  <1> HIDE DEF Sol
  <1>6. ASSUME NEW n \in Nat PROVE g[n] \in S
    <2>1. PICK h : h \in Sol(n) /\ g[n] = h[n]
      BY <1>5
    <2>2. h \in [0 .. n -> S]
      BY <2>1 DEF Sol
    <2>3. QED
      BY <2>1, <2>2
  <1>7. g[0] = x
    <2>1. PICK h : h \in Sol(0) /\ g[0] = h[0]
      BY <1>5
    <2>2. h[0] = x
      BY <2>1 DEF Sol
    <2>3. QED
      BY <2>1, <2>2
  <1>8. ASSUME NEW n \in Nat \ {0} PROVE g[n] = F[n][g[n - 1]]
    <2>1. PICK h : h \in Sol(n) /\ g[n] = h[n]
      BY <1>5
    <2>2. PICK k : k \in Sol(n - 1) /\ g[n - 1] = k[n - 1]
      <3>1. n - 1 \in Nat
        OBVIOUS
      <3>2. QED
        BY <1>5, <3>1
    <2>3. h[n - 1] = k[n - 1]
      BY <1>4, <2>1, <2>2
    <2>4. h[n] = F[n][h[n - 1]]
      BY <2>1 DEF Sol
    <2>5. QED
      BY <2>1, <2>2, <2>3, <2>4
  <1>9. QED
    BY <1>6, <1>7, <1>8 DEF Iterates

LEMMA Sizes ==
  /\ MaxElements \in Nat \ {0} /\ MaxBlocks \in Nat \ {0}
  /\ InitialBlock \in 1 .. MaxElements
  BY LruCacheAssumption, InitialBlockAssumption

LEMMA NextSizeType ==
  ASSUME NEW size \in Int, NEW blocks \in Nat, blocks <= MaxBlocks, NEW capacity \in Int
  PROVE  NextSize(size, blocks, capacity) \in Int
  <1>1. CASE MaxBlocks = blocks
    BY <1>1 DEF NextSize
  <1>2. CASE MaxBlocks # blocks
    <2>1. MaxBlocks - blocks \in Nat \ {0} /\ MaxElements - capacity \in Int
      BY <1>2, Sizes
    <2>2. (MaxElements - capacity) \div (MaxBlocks - blocks) \in Int
      BY <2>1
    <2>3. QED
      BY <1>2, <2>2, Sizes DEF NextSize
  <1>3. QED
    BY <1>1, <1>2
GrowStep(n, g) ==
    IF n <= MaxBlocks /\ g.capacity < MaxElements
    THEN [capacity |-> g.capacity + g.size, size |-> NextSize(g.size, n, g.capacity + g.size)]
    ELSE g

LEMMA GrownSteps ==
  /\ Grown[0] = [capacity |-> 0, size |-> InitialBlock]
  /\ \A n \in Nat \ {0} : Grown[n] = GrowStep(n, Grown[n - 1])
  <1> DEFINE S == [capacity : Int, size : Int]
             F == [n \in Nat |-> [g \in S |-> GrowStep(n, g)]]
             x == [capacity |-> 0, size |-> InitialBlock]
             Eq(f) == f = [n \in Nat |-> IF n = 0 THEN x ELSE GrowStep(n, f[n - 1])]
  <1>1. x \in S
    BY Sizes
  <1>2. ASSUME NEW n \in Nat, NEW g \in S PROVE GrowStep(n, g) \in S
    <2>1. g.capacity \in Int /\ g.size \in Int /\ g.capacity + g.size \in Int
      OBVIOUS
    <2>2. n <= MaxBlocks => NextSize(g.size, n, g.capacity + g.size) \in Int
      BY <2>1, NextSizeType
    <2>3. QED
      BY <2>1, <2>2 DEF GrowStep
  <1>3. F \in [Nat -> [S -> S]]
    BY <1>2
  <1>4. PICK g : Iterates(g, S, x, F)
    <2> HIDE DEF S, F, x
    <2>1. QED
      BY <1>1, <1>3, Iteration
  <1>5. g \in [Nat -> S] /\ g[0] = x /\ \A n \in Nat \ {0} : g[n] = F[n][g[n - 1]]
    BY <1>4 DEF Iterates
  <1>6. Eq(g)
    <2> DEFINE h == [n \in Nat |-> IF n = 0 THEN x ELSE GrowStep(n, g[n - 1])]
    <2>1. ASSUME NEW n \in Nat PROVE g[n] = h[n]
      <3>1. CASE n = 0
        BY <1>5, <3>1
      <3>2. CASE n # 0
        <4>1. n - 1 \in Nat /\ n \in Nat \ {0}
          BY <3>2
        <4>2. g[n - 1] \in S
          BY <1>5, <4>1
        <4>3. F[n][g[n - 1]] = GrowStep(n, g[n - 1])
          BY <4>1, <4>2
        <4>4. QED
          BY <1>5, <4>1, <4>3, <3>2
      <3>3. QED
        BY <3>1, <3>2
    <2> HIDE DEF S, F, x
    <2>2. g = h
      BY <1>5, <2>1
    <2>3. QED
      BY <2>2
  <1>7. Grown = CHOOSE f : Eq(f)
    BY Zenon DEF Grown, GrowStep
  <1>8. Eq(Grown)
    <2> HIDE DEF Eq
    <2>1. QED
      BY <1>6, <1>7, Zenon
  <1>9. ASSUME NEW n \in Nat
        PROVE  Grown[n] = IF n = 0 THEN x ELSE GrowStep(n, Grown[n - 1])
    <2> HIDE DEF x
    <2>1. QED
      BY <1>8, Zenon
  <1>10. QED
    <2> HIDE DEF Eq, F, S
    <2>1. Grown[0] = x
      BY <1>9
    <2>2. ASSUME NEW n \in Nat \ {0} PROVE Grown[n] = GrowStep(n, Grown[n - 1])
      BY <1>9
    <2>3. QED
      BY <2>1, <2>2
\* A block ends at MaxElements at the latest.
LEMMA NextSizeFits ==
  ASSUME NEW size \in Nat, NEW blocks \in Nat, blocks < MaxBlocks,
         NEW capacity \in 0 .. MaxElements
  PROVE  /\ NextSize(size, blocks, capacity) \in Nat
         /\ capacity + NextSize(size, blocks, capacity) <= MaxElements
         /\ size = 0 => NextSize(size, blocks, capacity) = 0
  <1> DEFINE left == MaxElements - capacity
             share == left \div (MaxBlocks - blocks)
  <1>1. left \in Nat /\ MaxBlocks - blocks \in Nat \ {0} /\ MaxBlocks # blocks
    BY Sizes
  <1>2. share \in Nat
    BY <1>1
  <1>3. NextSize(size, blocks, capacity) =
           LET grown == IF 2 * size > share THEN share ELSE 2 * size
           IN  IF capacity + grown > MaxElements THEN left ELSE grown
    BY <1>1 DEF NextSize
  <1> HIDE DEF share
  <1>4. QED
    BY <1>1, <1>2, <1>3, Sizes

GrownFits(n) ==
    /\ Grown[n].capacity \in 0 .. MaxElements /\ Grown[n].size \in Nat
    /\ n < MaxBlocks => Grown[n].capacity + Grown[n].size <= MaxElements

LEMMA GrownType == \A n \in 0 .. MaxBlocks : GrownFits(n)
  <1> DEFINE Right == {n \in 0 .. MaxBlocks : GrownFits(n)}
  <1>1. 0 \in Right
    BY GrownSteps, Sizes DEF GrownFits
  <1>2. ASSUME NEW n \in 1 .. MaxBlocks, GrownFits(n - 1) PROVE GrownFits(n)
    <2> DEFINE c == Grown[n - 1].capacity
               s == Grown[n - 1].size
    <2>1. n \in Nat \ {0} /\ n - 1 < MaxBlocks
      BY Sizes
    <2>2. Grown[n] = GrowStep(n, Grown[n - 1])
      BY <2>1, GrownSteps
    <2>3. c \in 0 .. MaxElements /\ s \in Nat /\ c + s <= MaxElements
      BY <1>2, <2>1 DEF GrownFits
    <2>4. CASE c < MaxElements
      <3>1. Grown[n].capacity = c + s /\ Grown[n].size = NextSize(s, n, c + s)
        BY <2>1, <2>2, <2>4, Sizes DEF GrowStep
      <3>2. CASE n < MaxBlocks
        <4>1. c + s \in 0 .. MaxElements
          BY <2>3, Sizes
        <4>2. NextSize(s, n, c + s) \in Nat /\ c + s + NextSize(s, n, c + s) <= MaxElements
          BY <2>1, <2>3, <3>2, <4>1, NextSizeFits
        <4>3. QED
          BY <3>1, <4>1, <4>2 DEF GrownFits
      <3>3. CASE ~(n < MaxBlocks)
        <4>1. NextSize(s, n, c + s) = s
          BY <3>3, Sizes DEF NextSize
        <4>2. QED
          BY <2>3, <3>1, <3>3, <4>1, Sizes DEF GrownFits
      <3>4. QED
        BY <3>2, <3>3
    <2>5. CASE ~(c < MaxElements)
      <3>1. Grown[n] = Grown[n - 1]
        BY <2>2, <2>5 DEF GrowStep
      <3>2. QED
        BY <2>3, <3>1 DEF GrownFits
    <2>6. QED
      BY <2>4, <2>5
  <1>3. \A n \in 0 + 1 .. MaxBlocks : n - 1 \in Right => n \in Right
    BY <1>2, Sizes
  <1> HIDE DEF Right
  <1>4. \A n \in 0 .. MaxBlocks : n \in Right
    BY <1>1, <1>3, UpTo, Sizes
  <1>5. QED
    BY <1>4 DEF Right

\* Once AddBlock adds nothing, no later block does.
Exhausted(n) == Grown[n].capacity = MaxElements \/ Grown[n].size = 0

LEMMA GrownEnd ==
  ASSUME NEW m \in 0 .. MaxBlocks, Exhausted(m)
  PROVE  Grown[m].capacity = Room
  <1> DEFINE Same(n) == Grown[n].capacity = Grown[m].capacity /\ Exhausted(n)
             Right == {n \in m .. MaxBlocks : Same(n)}
  <1>1. m \in Right
    BY Sizes
  <1>2. ASSUME NEW n \in m + 1 .. MaxBlocks, Same(n - 1) PROVE Same(n)
    <2> DEFINE c == Grown[n - 1].capacity
               s == Grown[n - 1].size
    <2>1. n \in Nat \ {0} /\ n - 1 \in 0 .. MaxBlocks
      BY Sizes
    <2>2. Grown[n] = GrowStep(n, Grown[n - 1])
      BY <2>1, GrownSteps
    <2>3. c \in 0 .. MaxElements /\ s \in Nat
      BY <2>1, GrownType DEF GrownFits
    <2>4. CASE c = MaxElements
      BY <1>2, <2>2, <2>4, Sizes DEF GrowStep, Exhausted
    <2>5. CASE c # MaxElements
      <3>1. s = 0 /\ c < MaxElements /\ c + s = c
        BY <1>2, <2>3, <2>5, Sizes DEF Exhausted
      <3>2. Grown[n].capacity = c /\ Grown[n].size = NextSize(0, n, c)
        BY <2>1, <2>2, <3>1, Sizes DEF GrowStep
      <3>3. NextSize(0, n, c) = 0
        <4>1. CASE n < MaxBlocks
          BY <2>1, <2>3, <4>1, NextSizeFits
        <4>2. CASE n = MaxBlocks
          BY <4>2 DEF NextSize
        <4>3. QED
          BY <4>1, <4>2, Sizes
      <3>4. QED
        BY <1>2, <3>2, <3>3 DEF Exhausted
    <2>6. QED
      BY <2>4, <2>5
  <1>3. \A n \in m + 1 .. MaxBlocks : n - 1 \in Right => n \in Right
    BY <1>2, Sizes
  <1> HIDE DEF Right
  <1>4. \A n \in m .. MaxBlocks : n \in Right
    BY <1>1, <1>3, UpTo, Sizes
  <1>5. MaxBlocks \in m .. MaxBlocks
    BY Sizes
  <1>6. QED
    BY <1>4, <1>5 DEF Right, Room

\* The blocks never hold more than Room, and Room is not nothing.
LEMMA RoomFacts ==
  /\ Room \in 1 .. MaxElements
  /\ \A m \in 0 .. MaxBlocks : Grown[m].capacity <= Room
  <1>1. ASSUME NEW m \in 0 .. MaxBlocks PROVE Grown[m].capacity <= Room
    <2> DEFINE Right == {n \in m .. MaxBlocks : Grown[m].capacity <= Grown[n].capacity}
    <2>1. m \in Right
      BY GrownType, Sizes DEF GrownFits
    <2>2. ASSUME NEW n \in m + 1 .. MaxBlocks, n - 1 \in Right PROVE n \in Right
      <3>1. n \in Nat \ {0} /\ n - 1 \in 0 .. MaxBlocks /\ n \in m .. MaxBlocks
        BY Sizes
      <3>2. Grown[n] = GrowStep(n, Grown[n - 1])
        BY <3>1, GrownSteps
      <3>3. /\ Grown[n - 1].capacity \in Int /\ Grown[n - 1].size \in Nat
            /\ Grown[m].capacity \in Int
        BY <3>1, GrownType, Sizes DEF GrownFits
      <3>4. Grown[n].capacity \in {Grown[n - 1].capacity, Grown[n - 1].capacity + Grown[n - 1].size}
        BY <3>2 DEF GrowStep
      <3>5. QED
        BY <2>2, <3>1, <3>3, <3>4
    <2>3. \A n \in m + 1 .. MaxBlocks : n - 1 \in Right => n \in Right
      BY <2>2
    <2> HIDE DEF Right
    <2>4. \A n \in m .. MaxBlocks : n \in Right
      BY <2>1, <2>3, UpTo, Sizes
    <2>5. MaxBlocks \in m .. MaxBlocks
      BY Sizes
    <2>6. QED
      BY <2>4, <2>5 DEF Right, Room
  <1>2. Grown[1].capacity = InitialBlock
    <2>1. Grown[1] = GrowStep(1, Grown[1 - 1])
      BY GrownSteps
    <2>2. Grown[1 - 1] = [capacity |-> 0, size |-> InitialBlock] /\ 1 <= MaxBlocks /\ 0 < MaxElements
      BY GrownSteps, Sizes
    <2>3. QED
      BY <2>1, <2>2, Sizes DEF GrowStep
  <1>3. Room \in 0 .. MaxElements
    BY GrownType, Sizes DEF Room, GrownFits
  <1>4. 1 \in 0 .. MaxBlocks
    BY Sizes
  <1>5. QED
    BY <1>1, <1>2, <1>3, <1>4, Sizes

-----------------------------------------------------------------------------
(* The helpers, field by field.                                             *)

LEMMA Pointers ==
  /\ null \in Pointer /\ null \notin Element /\ Element \subseteq Pointer
  /\ null \notin Key /\ Element \subseteq Nat
  BY LruCacheAssumption DEF Pointer, Element

LEMMA CacheType ==
  ASSUME NEW c \in Caches
  PROVE  /\ c.table \in [Key -> Pointer] /\ c.next \in [Element -> Pointer]
         /\ c.prev \in [Element -> Pointer] /\ c.key \in [Element -> Key \cup {null}]
         /\ c.value \in [Element -> Value \cup {null}]
         /\ c.free \in Pointer /\ c.head \in Pointer /\ c.tail \in Pointer
         /\ c.blocks \in 0 .. MaxBlocks /\ c.capacity \in 0 .. MaxElements /\ c.size \in Nat
  BY DEF Caches

\* What a helper on the lists does not touch.
SameRest(d, c) ==
    /\ d.table = c.table /\ d.key = c.key /\ d.value = c.value
    /\ d.blocks = c.blocks /\ d.capacity = c.capacity /\ d.size = c.size

\* d is c after RemoveFromLRU of e.
Removed(d, c, e) ==
    /\ d \in Caches /\ SameRest(d, c) /\ d.free = c.free
    /\ d.head = IF c.head = e THEN c.next[e] ELSE c.head
    /\ d.tail = IF c.tail = e THEN c.prev[e] ELSE c.tail
    /\ \A x \in Element :
          d.next[x] = IF x = e THEN null
                      ELSE IF x = c.prev[e] THEN c.next[e] ELSE c.next[x]
    /\ \A x \in Element :
          d.prev[x] = IF x = e THEN null
                      ELSE IF x = c.next[e] THEN c.prev[e] ELSE c.prev[x]

LEMMA RemoveFields ==
  ASSUME NEW c \in Caches, NEW e \in Element
  PROVE  Removed(RemoveFromLRU(c, e), c, e)
  <1> DEFINE next == Set(c.next, c.prev[e], c.next[e])
             prev == Set(c.prev, c.next[e], c.prev[e])
             d == RemoveFromLRU(c, e)
  <1>0. c.next \in [Element -> Pointer] /\ c.prev \in [Element -> Pointer]
    BY CacheType
  <1>1. c.next[e] \in Pointer /\ c.prev[e] \in Pointer
    BY <1>0
  <1>2. /\ next \in [Element -> Pointer]
        /\ \A x \in Element : next[x] = IF x = c.prev[e] THEN c.next[e] ELSE c.next[x]
    BY <1>0, <1>1, Pointers DEF Set, Pointer
  <1>3. /\ prev \in [Element -> Pointer]
        /\ \A x \in Element : prev[x] = IF x = c.next[e] THEN c.prev[e] ELSE c.prev[x]
    BY <1>0, <1>1, Pointers DEF Set, Pointer
  <1>4. d = [c EXCEPT !.head = IF c.head = e THEN c.next[e] ELSE c.head,
                      !.tail = IF c.tail = e THEN c.prev[e] ELSE c.tail,
                      !.next = [next EXCEPT ![e] = null],
                      !.prev = [prev EXCEPT ![e] = null]]
    BY DEF RemoveFromLRU
  <1> DEFINE h == IF c.head = e THEN c.next[e] ELSE c.head
             t == IF c.tail = e THEN c.prev[e] ELSE c.tail
             n == [next EXCEPT ![e] = null]
             p == [prev EXCEPT ![e] = null]
  <1> HIDE DEF next, prev
  <1>6. h \in Pointer /\ t \in Pointer
    BY <1>1, CacheType
  <1>7. n \in [Element -> Pointer] /\ p \in [Element -> Pointer]
    BY <1>2, <1>3, Pointers
  <1>8. /\ \A x \in Element : n[x] = IF x = e THEN null
                                    ELSE IF x = c.prev[e] THEN c.next[e] ELSE c.next[x]
        /\ \A x \in Element : p[x] = IF x = e THEN null
                                    ELSE IF x = c.next[e] THEN c.prev[e] ELSE c.prev[x]
    BY <1>2, <1>3
  <1> HIDE DEF h, t, n, p
  <1>5. /\ d \in Caches /\ SameRest(d, c) /\ d.free = c.free
        /\ d.head = h /\ d.tail = t /\ d.next = n /\ d.prev = p
    <2>1. d = [c EXCEPT !.head = h, !.tail = t, !.next = n, !.prev = p]
      BY <1>4 DEF h, t, n, p
    <2> HIDE DEF d
    <2>2. QED
      BY <1>6, <1>7, <2>1 DEF Caches, SameRest
  <1>9. QED
    <2> HIDE DEF d
    <2>1. SUFFICES /\ d \in Caches /\ SameRest(d, c) /\ d.free = c.free
                   /\ d.head = h /\ d.tail = t
                   /\ \A x \in Element : d.next[x] = n[x]
                   /\ \A x \in Element : d.prev[x] = p[x]
      BY <1>8 DEF h, t, d, Removed
    <2>2. QED
      BY <1>5
\* d is c with e, which is on no list, at the head of the LRU list.
Attached(d, c, e) ==
    /\ d \in Caches /\ SameRest(d, c) /\ d.free = c.free
    /\ d.head = e /\ d.tail = IF c.tail = null THEN e ELSE c.tail
    /\ \A x \in Element : d.next[x] = IF x = e THEN c.head ELSE c.next[x]
    /\ \A x \in Element : d.prev[x] = IF x = c.head THEN e ELSE c.prev[x]

LEMMA PushFields ==
  ASSUME NEW c \in Caches, NEW e \in Element, c.head # e
  PROVE  Attached(PushLRUHead(c, e), RemoveFromLRU(c, e), e)
  <1> DEFINE d == RemoveFromLRU(c, e)
             r == PushLRUHead(c, e)
  <1>1. d \in Caches
    BY RemoveFields DEF Removed
  <1>2. /\ d.next \in [Element -> Pointer] /\ d.prev \in [Element -> Pointer]
        /\ d.head \in Pointer /\ d.tail \in Pointer
    BY <1>1, CacheType
  <1> DEFINE n == [d.next EXCEPT ![e] = d.head]
             p == Set(d.prev, d.head, e)
             t == IF d.tail = null THEN e ELSE d.tail
  <1>3. r = [d EXCEPT !.next = n, !.prev = p, !.head = e, !.tail = t]
    BY DEF PushLRUHead
  <1> HIDE DEF d, r
  <1>4. /\ n \in [Element -> Pointer]
        /\ \A x \in Element : n[x] = IF x = e THEN d.head ELSE d.next[x]
    BY <1>2
  <1>5. /\ p \in [Element -> Pointer]
        /\ \A x \in Element : p[x] = IF x = d.head THEN e ELSE d.prev[x]
    BY <1>2, Pointers DEF Set, Pointer
  <1>6. t \in Pointer /\ e \in Pointer
    BY <1>2, Pointers
  <1> HIDE DEF n, p, t
  <1>7. /\ r \in Caches /\ SameRest(r, d) /\ r.free = d.free
        /\ r.head = e /\ r.tail = t /\ r.next = n /\ r.prev = p
    BY <1>1, <1>3, <1>4, <1>5, <1>6 DEF Caches, SameRest
  <1>8. Attached(r, d, e)
    BY <1>4, <1>5, <1>7 DEF Attached, t
  <1>9. QED
    BY <1>8 DEF d, r

\* d is c with e on the free list.
Freed(d, c, e) ==
    /\ d \in Caches /\ SameRest(d, c) /\ d.head = c.head /\ d.tail = c.tail /\ d.free = e
    /\ \A x \in Element : d.next[x] = IF x = e THEN c.free ELSE c.next[x]
    /\ \A x \in Element : d.prev[x] = IF x = e THEN null ELSE c.prev[x]

LEMMA FreeFields ==
  ASSUME NEW c \in Caches, NEW e \in Element
  PROVE  Freed(PushFreeList(c, e), c, e)
  <1> DEFINE d == PushFreeList(c, e)
             n == [c.next EXCEPT ![e] = c.free]
             p == [c.prev EXCEPT ![e] = null]
  <1>1. /\ c.next \in [Element -> Pointer] /\ c.prev \in [Element -> Pointer]
        /\ c.free \in Pointer /\ e \in Pointer
    BY CacheType, Pointers
  <1>2. d = [c EXCEPT !.prev = p, !.next = n, !.free = e]
    BY DEF PushFreeList
  <1> HIDE DEF d
  <1>3. /\ n \in [Element -> Pointer]
        /\ \A x \in Element : n[x] = IF x = e THEN c.free ELSE c.next[x]
    BY <1>1
  <1>4. /\ p \in [Element -> Pointer]
        /\ \A x \in Element : p[x] = IF x = e THEN null ELSE c.prev[x]
    BY <1>1, Pointers
  <1> HIDE DEF n, p
  <1>5. /\ d \in Caches /\ SameRest(d, c) /\ d.head = c.head /\ d.tail = c.tail
        /\ d.free = e /\ d.next = n /\ d.prev = p
    BY <1>1, <1>2, <1>3, <1>4 DEF Caches, SameRest
  <1>6. Freed(d, c, e)
    BY <1>3, <1>4, <1>5 DEF Freed
  <1>7. QED
    BY <1>6 DEF d

\* d is c without the head of its free list.
Popped(d, c) ==
    /\ d \in Caches /\ SameRest(d, c) /\ d.head = c.head /\ d.tail = c.tail
    /\ d.free = c.next[c.free]
    /\ \A x \in Element : d.next[x] = IF x = c.free THEN null ELSE c.next[x]
    /\ \A x \in Element : d.prev[x] = IF x = c.next[c.free] THEN null ELSE c.prev[x]

LEMMA PopFields ==
  ASSUME NEW c \in Caches, c.free # null
  PROVE  Popped(PopFreeList(c), c)
  <1> DEFINE d == PopFreeList(c)
             g == c.next[c.free]
             n == [c.next EXCEPT ![c.free] = null]
             p == Set(c.prev, g, null)
  <1>1. /\ c.next \in [Element -> Pointer] /\ c.prev \in [Element -> Pointer]
        /\ c.free \in Element
    BY CacheType DEF Pointer
  <1>2. g \in Pointer /\ null \in Pointer
    BY <1>1, Pointers
  <1>3. d = [c EXCEPT !.free = g, !.prev = p, !.next = n]
    BY DEF PopFreeList
  <1> HIDE DEF d
  <1>4. /\ n \in [Element -> Pointer]
        /\ \A x \in Element : n[x] = IF x = c.free THEN null ELSE c.next[x]
    BY <1>1, Pointers
  <1>5. /\ p \in [Element -> Pointer]
        /\ \A x \in Element : p[x] = IF x = g THEN null ELSE c.prev[x]
    BY <1>1, <1>2, Pointers DEF Set, Pointer
  <1> HIDE DEF n, p, g
  <1>6. /\ d \in Caches /\ SameRest(d, c) /\ d.head = c.head /\ d.tail = c.tail
        /\ d.free = g /\ d.next = n /\ d.prev = p
    BY <1>1, <1>2, <1>3, <1>4, <1>5 DEF Caches, SameRest
  <1>7. Popped(d, c)
    BY <1>4, <1>5, <1>6 DEF Popped, g
  <1>8. QED
    BY <1>7 DEF d

\* d is c with one block more.
Added(d, c) ==
    LET new == c.capacity + 1 .. c.capacity + c.size
    IN  /\ d \in Caches /\ d.table = c.table /\ d.key = c.key /\ d.value = c.value
        /\ d.head = c.head /\ d.tail = c.tail
        /\ d.blocks = c.blocks + 1 /\ d.capacity = c.capacity + c.size
        /\ d.size = NextSize(c.size, c.blocks + 1, c.capacity + c.size)
        /\ d.free = IF c.size = 0 THEN c.free ELSE c.capacity + c.size
        /\ \A x \in Element : d.next[x] = IF x \notin new THEN c.next[x]
                                         ELSE IF x - 1 \in new THEN x - 1 ELSE c.free
        /\ \A x \in Element : d.prev[x] = IF x \in new THEN null ELSE c.prev[x]

LEMMA AddFields ==
  ASSUME NEW c \in Caches, Growth(c), c.blocks < MaxBlocks, c.capacity < MaxElements
  PROVE  Added(AddBlock(c), c) /\ Growth(AddBlock(c))
  <1> DEFINE d == AddBlock(c)
             new == c.capacity + 1 .. c.capacity + c.size
             cap == c.capacity + c.size
             size == NextSize(c.size, c.blocks + 1, cap)
             free == IF c.size = 0 THEN c.free ELSE cap
             n == [e \in Element |-> IF e \notin new THEN c.next[e]
                                    ELSE IF e - 1 \in new THEN e - 1 ELSE c.free]
             p == [e \in Element |-> IF e \in new THEN null ELSE c.prev[e]]
  <1>1. /\ c.next \in [Element -> Pointer] /\ c.prev \in [Element -> Pointer]
        /\ c.free \in Pointer /\ c.blocks \in 0 .. MaxBlocks
        /\ c.capacity \in 0 .. MaxElements /\ c.size \in Nat
    BY CacheType
  <1>2. d = [c EXCEPT !.next = n, !.prev = p, !.free = free, !.blocks = c.blocks + 1,
                      !.capacity = cap, !.size = size]
    BY DEF AddBlock
  <1>3. Grown[c.blocks + 1] = [capacity |-> cap, size |-> size]
    <2>1. /\ c.blocks + 1 \in Nat \ {0} /\ c.blocks + 1 - 1 = c.blocks
          /\ c.blocks + 1 <= MaxBlocks
      BY <1>1, Sizes
    <2>2. Grown[c.blocks + 1] = GrowStep(c.blocks + 1, Grown[c.blocks])
      <3>1. PICK m \in Nat \ {0} : m = c.blocks + 1 /\ m - 1 = c.blocks
        BY <1>1, <2>1, Sizes
      <3>2. Grown[m] = GrowStep(m, Grown[m - 1])
        BY GrownSteps
      <3>3. QED
        BY <3>1, <3>2
    <2>3. QED
      BY <2>1, <2>2 DEF Growth, GrowStep
  <1>4. cap \in 0 .. MaxElements /\ size \in Nat /\ c.blocks + 1 \in 0 .. MaxBlocks
    <2>1. c.blocks + 1 \in 0 .. MaxBlocks
      BY <1>1, Sizes
    <2>2. GrownFits(c.blocks + 1)
      BY <2>1, GrownType
    <2>3. QED
      BY <1>3, <2>1, <2>2 DEF GrownFits
  <1>5. n \in [Element -> Pointer] /\ p \in [Element -> Pointer] /\ free \in Pointer
    <2>1. ASSUME NEW e \in new PROVE e \in Element
      BY <1>1, <1>4, Sizes DEF Element
    <2>2. free \in Pointer
      <3>1. CASE c.size = 0
        BY <1>1, <3>1
      <3>2. CASE c.size # 0
        <4>1. cap \in new
          BY <1>1, <3>2
        <4>2. QED
          BY <2>1, <3>2, <4>1, Pointers
      <3>3. QED
        BY <3>1, <3>2
    <2>3. n \in [Element -> Pointer]
      BY <1>1, <2>1, Pointers
    <2>4. p \in [Element -> Pointer]
      BY <1>1, Pointers
    <2>5. QED
      BY <2>2, <2>3, <2>4
  <1> HIDE DEF d
  <1>6. /\ \A x \in Element : n[x] = IF x \notin new THEN c.next[x]
                                   ELSE IF x - 1 \in new THEN x - 1 ELSE c.free
        /\ \A x \in Element : p[x] = IF x \in new THEN null ELSE c.prev[x]
    OBVIOUS
  <1> HIDE DEF n, p, size, cap, free
  <1>7. /\ d \in Caches /\ d.table = c.table /\ d.key = c.key /\ d.value = c.value
        /\ d.head = c.head /\ d.tail = c.tail /\ d.free = free
        /\ d.blocks = c.blocks + 1 /\ d.capacity = cap /\ d.size = size
        /\ d.next = n /\ d.prev = p
    BY <1>2, <1>4, <1>5 DEF Caches
  <1>8. Growth(d)
    BY <1>3, <1>7 DEF Growth
  <1>9. Added(d, c)
    BY <1>6, <1>7 DEF Added, cap, size, free
  <1>10. QED
    BY <1>8, <1>9 DEF d

-----------------------------------------------------------------------------
(* The helpers, list by list.                                               *)

LEMMA SeqFacts ==
  ASSUME NEW s \in Seq(Element)
  PROVE  Len(s) \in Nat /\ \A i \in 1 .. Len(s) : s[i] \in Element
  BY LenProperties, ElementOfSeq

LEMMA RemoveLists ==
  ASSUME NEW c, NEW d, NEW u, NEW f, Lists(c, u, f), NEW i \in 1 .. Len(u),
         Removed(d, c, u[i])
  PROVE  Lists(d, RemoveAt(u, i), f)
  <1> DEFINE r == RemoveAt(u, i)
             e == u[i]
             n == Len(u)
  <1>1. /\ n \in Nat /\ i \in 1 .. n /\ \A j \in 1 .. n : u[j] \in Element
        /\ \A j, k \in 1 .. n : u[j] = u[k] => j = k
    BY SeqFacts DEF Lists, Distinct
  <1>2. /\ r \in Seq(Element) /\ Len(r) = n - 1
        /\ \A j \in 1 .. n - 1 : r[j] = IF j < i THEN u[j] ELSE u[j + 1]
    BY RemoveAtFacts DEF Lists
  <1>3. Distinct(r) /\ \A x : In(x, r) <=> In(x, u) /\ x # e
    BY RemoveMembers DEF Lists
  <1>4. /\ c.head = u[1] /\ c.tail = u[n]
        /\ \A j \in 1 .. n : c.next[u[j]] = IF j = n THEN null ELSE u[j + 1]
        /\ \A j \in 1 .. n : c.prev[u[j]] = IF j = 1 THEN null ELSE u[j - 1]
    BY <1>1 DEF Lists, Path
  <1>5. /\ d.head = IF c.head = e THEN c.next[e] ELSE c.head
        /\ d.tail = IF c.tail = e THEN c.prev[e] ELSE c.tail
        /\ \A x \in Element :
              d.next[x] = IF x = e THEN null
                          ELSE IF x = c.prev[e] THEN c.next[e] ELSE c.next[x]
        /\ \A x \in Element :
              d.prev[x] = IF x = e THEN null
                          ELSE IF x = c.next[e] THEN c.prev[e] ELSE c.prev[x]
        /\ d.free = c.free
    BY DEF Removed
  <1>6. c.prev[e] = (IF i = 1 THEN null ELSE u[i - 1]) /\ c.next[e] = (IF i = n THEN null ELSE u[i + 1])
    BY <1>1, <1>4
  <1> HIDE DEF r, n
  <1>7. d.head = IF n - 1 = 0 THEN null ELSE r[1]
    BY <1>1, <1>2, <1>4, <1>5, <1>6
  <1>8. d.tail = IF n - 1 = 0 THEN null ELSE r[n - 1]
    BY <1>1, <1>2, <1>4, <1>5, <1>6
  <1>9. ASSUME NEW j \in 1 .. n - 1
        PROVE  d.next[r[j]] = IF j = n - 1 THEN null ELSE r[j + 1]
    <2> DEFINE m == IF j < i THEN j ELSE j + 1
    <2>1. m \in 1 .. n /\ m # i /\ r[j] = u[m]
      BY <1>1, <1>2
    <2>2. u[m] \in Element /\ u[m] # e
      BY <1>1, <2>1
    <2>3. CASE m = i - 1
      <3>1. u[m] = c.prev[e] /\ j = m
        BY <1>1, <1>6, <2>1, <2>3
      <3>2. d.next[u[m]] = IF i = n THEN null ELSE u[i + 1]
        BY <1>5, <1>6, <2>2, <3>1
      <3>3. i # n => r[j + 1] = u[i + 1]
        BY <1>1, <1>2, <2>3, <3>1
      <3>4. i = n <=> j = n - 1
        BY <1>1, <2>3, <3>1
      <3>5. QED
        BY <2>1, <3>2, <3>3, <3>4
    <2>4. CASE m # i - 1
      <3>1. u[m] # c.prev[e]
        BY <1>1, <1>6, <2>1, <2>2, <2>4, Pointers
      <3>2. d.next[u[m]] = IF m = n THEN null ELSE u[m + 1]
        BY <1>4, <1>5, <2>1, <2>2, <3>1
      <3>3. m = n <=> j = n - 1
        BY <1>1, <2>4
      <3>4. j # n - 1 => r[j + 1] = u[m + 1]
        BY <1>1, <1>2, <2>1, <2>4
      <3>5. QED
        BY <2>1, <3>2, <3>3, <3>4
    <2>5. QED
      BY <2>3, <2>4
  <1>10. ASSUME NEW j \in 1 .. n - 1
         PROVE  d.prev[r[j]] = IF j = 1 THEN null ELSE r[j - 1]
    <2> DEFINE m == IF j < i THEN j ELSE j + 1
    <2>1. m \in 1 .. n /\ m # i /\ r[j] = u[m]
      BY <1>1, <1>2
    <2>2. u[m] \in Element /\ u[m] # e
      BY <1>1, <2>1
    <2>3. CASE m = i + 1
      <3>1. u[m] = c.next[e] /\ j = i
        BY <1>1, <1>6, <2>1, <2>3
      <3>2. d.prev[u[m]] = IF i = 1 THEN null ELSE u[i - 1]
        BY <1>5, <1>6, <2>2, <3>1
      <3>3. i # 1 => r[j - 1] = u[i - 1]
        BY <1>1, <1>2, <3>1
      <3>4. QED
        BY <2>1, <3>1, <3>2, <3>3
    <2>4. CASE m # i + 1
      <3>1. u[m] # c.next[e]
        BY <1>1, <1>6, <2>1, <2>2, <2>4, Pointers
      <3>2. d.prev[u[m]] = IF m = 1 THEN null ELSE u[m - 1]
        BY <1>4, <1>5, <2>1, <2>2, <3>1
      <3>3. m = 1 <=> j = 1
        BY <1>1, <2>4
      <3>4. j # 1 => r[j - 1] = u[m - 1]
        BY <1>1, <1>2, <2>1, <2>4
      <3>5. QED
        BY <2>1, <3>2, <3>3, <3>4
    <2>5. QED
      BY <2>3, <2>4
  <1>11. ASSUME NEW j \in 1 .. Len(f)
         PROVE  d.next[f[j]] = c.next[f[j]] /\ d.prev[f[j]] = c.prev[f[j]]
    <2>1. f[j] \in Element /\ In(f[j], f)
      BY SeqFacts DEF Lists, In
    <2>2. ~In(f[j], u)
      BY <2>1 DEF Lists
    <2>3. f[j] # e /\ f[j] # c.prev[e] /\ f[j] # c.next[e]
      BY <1>1, <1>6, <2>1, <2>2, Pointers DEF In, n
    <2>4. QED
      BY <1>5, <2>1, <2>3
  <1>12. \A x \in Element : ~(In(x, r) /\ In(x, f))
    BY <1>3 DEF Lists
  <1>13. Path(d.next, d.free, f) /\ \A j \in 1 .. Len(f) : d.prev[f[j]] = null
    <2>1. Path(c.next, c.free, f) /\ \A j \in 1 .. Len(f) : c.prev[f[j]] = null
      BY DEF Lists
    <2>2. Path(d.next, d.free, f)
      BY <1>5, <1>11, <2>1 DEF Path
    <2>3. QED
      BY <1>11, <2>1, <2>2
  <1>14. Path(d.next, d.head, r)
    BY <1>2, <1>7, <1>9 DEF Path
  <1>15. Lists(d, r, f)
    BY <1>2, <1>3, <1>8, <1>10, <1>12, <1>13, <1>14 DEF Lists
  <1>16. QED
    BY <1>15 DEF r
LEMMA AttachLists ==
  ASSUME NEW c, NEW d, NEW u, NEW f, Lists(c, u, f), NEW e \in Element, Attached(d, c, e),
         ~In(e, u), ~In(e, f), c.prev[e] = null
  PROVE  Lists(d, <<e>> \o u, f)
  <1> DEFINE r == <<e>> \o u
             n == Len(u)
  <1>1. /\ n \in Nat /\ \A j \in 1 .. n : u[j] \in Element /\ u[j] # e
        /\ \A j, k \in 1 .. n : u[j] = u[k] => j = k
    BY SeqFacts DEF Lists, Distinct, In
  <1>2. /\ r \in Seq(Element) /\ Len(r) = n + 1
        /\ \A j \in 1 .. n + 1 : r[j] = IF j = 1 THEN e ELSE u[j - 1]
    BY ConsFacts DEF Lists
  <1>3. Distinct(r) /\ \A x : In(x, r) <=> In(x, u) \/ x = e
    BY ConsMembers DEF Lists
  <1>4. /\ c.head = IF n = 0 THEN null ELSE u[1]
        /\ c.tail = IF n = 0 THEN null ELSE u[n]
        /\ \A j \in 1 .. n : c.next[u[j]] = IF j = n THEN null ELSE u[j + 1]
        /\ \A j \in 1 .. n : c.prev[u[j]] = IF j = 1 THEN null ELSE u[j - 1]
    BY <1>1 DEF Lists, Path
  <1>5. /\ d.head = e /\ d.tail = IF c.tail = null THEN e ELSE c.tail
        /\ \A x \in Element : d.next[x] = IF x = e THEN c.head ELSE c.next[x]
        /\ \A x \in Element : d.prev[x] = IF x = c.head THEN e ELSE c.prev[x]
        /\ d.free = c.free
    BY DEF Attached
  <1> HIDE DEF r, n
  <1>6. d.head = r[1] /\ Len(r) # 0
    BY <1>1, <1>2, <1>5
  <1>7. d.tail = r[n + 1]
    <2>1. CASE n = 0
      BY <1>1, <1>2, <1>4, <1>5, <2>1
    <2>2. CASE n # 0
      <3>1. u[n] \in Element /\ u[n] # null
        BY <1>1, <2>2, Pointers
      <3>2. QED
        BY <1>1, <1>2, <1>4, <1>5, <2>2, <3>1
    <2>3. QED
      BY <2>1, <2>2
  <1>8. ASSUME NEW j \in 1 .. n + 1
        PROVE  d.next[r[j]] = IF j = n + 1 THEN null ELSE r[j + 1]
    <2>1. CASE j = 1
      BY <1>1, <1>2, <1>4, <1>5, <2>1
    <2>2. CASE j # 1
      <3>1. j - 1 \in 1 .. n /\ r[j] = u[j - 1]
        BY <1>1, <1>2, <2>2
      <3>2. d.next[u[j - 1]] = IF j - 1 = n THEN null ELSE u[j - 1 + 1]
        BY <1>1, <1>4, <1>5, <3>1
      <3>3. j # n + 1 => r[j + 1] = u[j]
        BY <1>1, <1>2, <2>2
      <3>4. QED
        BY <1>1, <3>1, <3>2, <3>3
    <2>3. QED
      BY <2>1, <2>2
  <1>9. ASSUME NEW j \in 1 .. n + 1
        PROVE  d.prev[r[j]] = IF j = 1 THEN null ELSE r[j - 1]
    <2>1. CASE j = 1
      <3>1. e # c.head
        BY <1>1, <1>4, Pointers
      <3>2. QED
        BY <1>1, <1>2, <1>5, <2>1, <3>1
    <2>2. CASE j = 2
      <3>1. r[2] = u[1] /\ u[1] = c.head /\ r[1] = e /\ u[1] \in Element
        BY <1>1, <1>2, <1>4, <2>2
      <3>2. QED
        BY <1>5, <2>2, <3>1
    <2>3. CASE j > 2
      <3>1. j - 1 \in 1 .. n /\ r[j] = u[j - 1] /\ r[j - 1] = u[j - 1 - 1] /\ j - 1 # 1
        BY <1>1, <1>2, <2>3
      <3>2. u[j - 1] # c.head
        BY <1>1, <1>4, <3>1
      <3>3. QED
        BY <1>1, <1>4, <1>5, <2>3, <3>1, <3>2
    <2>4. QED
      BY <1>1, <2>1, <2>2, <2>3
  <1>10. ASSUME NEW j \in 1 .. Len(f)
         PROVE  d.next[f[j]] = c.next[f[j]] /\ d.prev[f[j]] = c.prev[f[j]]
    <2>1. f[j] \in Element /\ In(f[j], f)
      BY SeqFacts DEF Lists, In
    <2>2. ~In(f[j], u) /\ f[j] # e
      BY <2>1 DEF Lists
    <2>3. f[j] # c.head
      BY <1>1, <1>4, <2>1, <2>2, Pointers DEF In, n
    <2>4. QED
      BY <1>5, <2>1, <2>2, <2>3
  <1>11. \A x \in Element : ~(In(x, r) /\ In(x, f))
    BY <1>3 DEF Lists
  <1>12. Path(d.next, d.free, f) /\ \A j \in 1 .. Len(f) : d.prev[f[j]] = null
    BY <1>5, <1>10 DEF Lists, Path
  <1>13. Path(d.next, d.head, r)
    BY <1>2, <1>6, <1>8 DEF Path
  <1>14. Lists(d, r, f)
    BY <1>2, <1>3, <1>6, <1>7, <1>9, <1>11, <1>12, <1>13 DEF Lists
  <1>15. QED
    BY <1>14 DEF r

LEMMA FreeLists ==
  ASSUME NEW c, NEW d, NEW u, NEW f, Lists(c, u, f), NEW e \in Element, Freed(d, c, e),
         ~In(e, u), ~In(e, f)
  PROVE  Lists(d, u, <<e>> \o f)
  <1> DEFINE r == <<e>> \o f
             n == Len(f)
  <1>1. /\ n \in Nat /\ \A j \in 1 .. n : f[j] \in Element /\ f[j] # e
        /\ \A j \in 1 .. Len(u) : u[j] \in Element /\ u[j] # e
    BY SeqFacts DEF Lists, In
  <1>2. /\ r \in Seq(Element) /\ Len(r) = n + 1
        /\ \A j \in 1 .. n + 1 : r[j] = IF j = 1 THEN e ELSE f[j - 1]
    BY ConsFacts DEF Lists
  <1>3. Distinct(r) /\ \A x : In(x, r) <=> In(x, f) \/ x = e
    BY ConsMembers DEF Lists
  <1>4. /\ c.free = IF n = 0 THEN null ELSE f[1]
        /\ \A j \in 1 .. n : c.next[f[j]] = IF j = n THEN null ELSE f[j + 1]
        /\ \A j \in 1 .. n : c.prev[f[j]] = null
    BY <1>1 DEF Lists, Path
  <1>5. /\ d.head = c.head /\ d.tail = c.tail /\ d.free = e
        /\ \A x \in Element : d.next[x] = IF x = e THEN c.free ELSE c.next[x]
        /\ \A x \in Element : d.prev[x] = IF x = e THEN null ELSE c.prev[x]
    BY DEF Freed
  <1> HIDE DEF r, n
  <1>6. d.free = r[1] /\ Len(r) # 0
    BY <1>1, <1>2, <1>5
  <1>7. ASSUME NEW j \in 1 .. n + 1
        PROVE  d.next[r[j]] = IF j = n + 1 THEN null ELSE r[j + 1]
    <2>1. CASE j = 1
      BY <1>1, <1>2, <1>4, <1>5, <2>1
    <2>2. CASE j # 1
      <3>1. j - 1 \in 1 .. n /\ r[j] = f[j - 1]
        BY <1>1, <1>2, <2>2
      <3>2. d.next[f[j - 1]] = IF j - 1 = n THEN null ELSE f[j - 1 + 1]
        BY <1>1, <1>4, <1>5, <3>1
      <3>3. j # n + 1 => r[j + 1] = f[j]
        BY <1>1, <1>2, <2>2
      <3>4. QED
        BY <1>1, <3>1, <3>2, <3>3
    <2>3. QED
      BY <2>1, <2>2
  <1>8. ASSUME NEW j \in 1 .. n + 1 PROVE d.prev[r[j]] = null
    <2>1. CASE j = 1
      BY <1>1, <1>2, <1>5, <2>1
    <2>2. CASE j # 1
      <3>1. j - 1 \in 1 .. n /\ r[j] = f[j - 1]
        BY <1>1, <1>2, <2>2
      <3>2. QED
        BY <1>1, <1>4, <1>5, <3>1
    <2>3. QED
      BY <2>1, <2>2
  <1>9. \A j \in 1 .. Len(u) : d.next[u[j]] = c.next[u[j]] /\ d.prev[u[j]] = c.prev[u[j]]
    BY <1>1, <1>5
  <1>10. \A x \in Element : ~(In(x, u) /\ In(x, r))
    BY <1>3 DEF Lists
  <1>11. Path(d.next, d.head, u)
    BY <1>5, <1>9 DEF Lists, Path
  <1>12. Path(d.next, d.free, r)
    BY <1>2, <1>6, <1>7 DEF Path
  <1>13. Lists(d, u, r)
    BY <1>2, <1>3, <1>5, <1>8, <1>9, <1>10, <1>11, <1>12 DEF Lists
  <1>14. QED
    BY <1>13 DEF r
LEMMA PopLists ==
  ASSUME NEW c \in Caches, NEW d, NEW u, NEW f, Lists(c, u, f), c.free # null, Popped(d, c)
  PROVE  /\ 1 \in 1 .. Len(f) /\ f[1] = c.free
         /\ Lists(d, u, RemoveAt(f, 1))
         /\ d.next[f[1]] = null /\ d.prev[f[1]] = null
  <1> DEFINE r == RemoveAt(f, 1)
             n == Len(f)
  <1>1. /\ n \in Nat /\ n # 0 /\ \A j \in 1 .. n : f[j] \in Element /\ In(f[j], f)
        /\ \A j, k \in 1 .. n : f[j] = f[k] => j = k
    BY SeqFacts DEF Lists, Distinct, Path, In
  <1>2. 1 \in 1 .. Len(f)
    BY <1>1
  <1>3. /\ r \in Seq(Element) /\ Len(r) = n - 1
        /\ \A j \in 1 .. n - 1 : r[j] = f[j + 1]
    <2>1. /\ r \in Seq(Element) /\ Len(r) = n - 1
          /\ \A j \in 1 .. n - 1 : r[j] = IF j < 1 THEN f[j] ELSE f[j + 1]
      BY <1>2, RemoveAtFacts DEF Lists
    <2> HIDE DEF r, n
    <2>2. QED
      BY <1>1, <2>1
  <1>4. Distinct(r) /\ \A x : In(x, r) <=> In(x, f) /\ x # f[1]
    BY <1>2, RemoveMembers DEF Lists
  <1>5. /\ c.free = f[1]
        /\ \A j \in 1 .. n : c.next[f[j]] = IF j = n THEN null ELSE f[j + 1]
        /\ \A j \in 1 .. n : c.prev[f[j]] = null
    BY <1>1 DEF Lists, Path
  <1>6. /\ d.head = c.head /\ d.tail = c.tail /\ d.free = c.next[c.free]
        /\ \A x \in Element : d.next[x] = IF x = c.free THEN null ELSE c.next[x]
        /\ \A x \in Element : d.prev[x] = IF x = c.next[c.free] THEN null ELSE c.prev[x]
    BY DEF Popped
  <1> HIDE DEF r, n
  <1>7. d.free = IF n - 1 = 0 THEN null ELSE r[1]
    BY <1>1, <1>3, <1>5, <1>6
  <1>8. ASSUME NEW j \in 1 .. n - 1
        PROVE  d.next[r[j]] = IF j = n - 1 THEN null ELSE r[j + 1]
    <2>1. j + 1 \in 1 .. n /\ r[j] = f[j + 1] /\ f[j + 1] # c.free /\ f[j + 1] \in Element
      BY <1>1, <1>3, <1>5
    <2>2. d.next[f[j + 1]] = IF j + 1 = n THEN null ELSE f[j + 1 + 1]
      BY <1>5, <1>6, <2>1
    <2>3. j # n - 1 => r[j + 1] = f[j + 1 + 1]
      BY <1>1, <1>3
    <2>4. QED
      BY <1>1, <2>1, <2>2, <2>3
  <1>9. ASSUME NEW j \in 1 .. n - 1 PROVE d.prev[r[j]] = null
    <2>1. j + 1 \in 1 .. n /\ r[j] = f[j + 1] /\ f[j + 1] \in Element
      BY <1>1, <1>3
    <2>2. QED
      BY <1>5, <1>6, <2>1
  <1>10. ASSUME NEW j \in 1 .. Len(u)
         PROVE  d.next[u[j]] = c.next[u[j]] /\ d.prev[u[j]] = c.prev[u[j]]
    <2>1. u[j] \in Element /\ In(u[j], u)
      BY SeqFacts DEF Lists, In
    <2>2. ~In(u[j], f)
      BY <2>1 DEF Lists
    <2>3. u[j] # c.free /\ u[j] # c.next[c.free]
      <3>1. c.next[c.free] = null \/ In(c.next[c.free], f)
        BY <1>1, <1>5
      <3>2. QED
        BY <1>1, <1>5, <2>1, <2>2, <3>1, Pointers
    <2>4. QED
      BY <1>6, <2>1, <2>3
  <1>11. \A x \in Element : ~(In(x, u) /\ In(x, r))
    BY <1>4 DEF Lists
  <1>12. Path(d.next, d.head, u)
    BY <1>6, <1>10 DEF Lists, Path
  <1>13. Path(d.next, d.free, r)
    BY <1>3, <1>7, <1>8 DEF Path
  <1>14. Lists(d, u, r)
    BY <1>3, <1>4, <1>6, <1>9, <1>10, <1>11, <1>12, <1>13 DEF Lists
  <1>15. d.next[f[1]] = null /\ d.prev[f[1]] = null
    BY <1>1, <1>5, <1>6
  <1>16. QED
    BY <1>2, <1>5, <1>14, <1>15 DEF r

\* The new elements are the free list, the last first.
LEMMA AddLists ==
  ASSUME NEW c \in Caches, NEW d, NEW u, NEW f, Lists(c, u, f), Whole(c, u, f),
         c.free = null, Added(d, c)
  PROVE  \E g : Lists(d, u, g) /\ Whole(d, u, g) /\ Len(g) = c.size
  <1> DEFINE cap == c.capacity
             n == c.size
             new == cap + 1 .. cap + n
             g == [j \in 1 .. n |-> cap + n + 1 - j]
  <1>1. /\ cap \in Nat /\ n \in Nat /\ cap + n <= MaxElements /\ MaxElements \in Nat
        /\ d.capacity = cap + n
    <2>1. d.capacity = cap + n /\ d \in Caches
      BY DEF Added
    <2>2. QED
      BY <2>1, CacheType, Sizes
  <1>2. \A x : x \in new <=> x \in Element /\ x > cap /\ x <= cap + n
    BY <1>1 DEF Element
  <1>3. Len(f) = 0 /\ f \in Seq(Element)
    <2>1. Len(f) \in Nat /\ \A j \in 1 .. Len(f) : f[j] \in Element
      BY SeqFacts DEF Lists
    <2>2. c.free = IF Len(f) = 0 THEN null ELSE f[1]
      BY DEF Lists, Path
    <2>3. Len(f) # 0 => f[1] \in Element
      BY <2>1
    <2>4. QED
      BY <2>2, <2>3, Pointers DEF Lists
  <1>4. /\ g \in Seq(Element) /\ Len(g) = n
        /\ \A j \in 1 .. n : g[j] = cap + n + 1 - j /\ g[j] \in new
    <2>1. \A j \in 1 .. n : g[j] = cap + n + 1 - j /\ g[j] \in new
      BY <1>1
    <2>2. g \in [1 .. n -> Element]
      BY <1>1, <1>2
    <2>3. g \in Seq(Element)
      <3> HIDE DEF g
      <3>1. n \in Nat
        BY <1>1
      <3>2. QED
        BY <2>2, <3>1, SeqDef
    <2>4. Len(g) = n
      BY <1>1, <2>2, <2>3
    <2>5. QED
      BY <2>1, <2>3, <2>4
  <1> HIDE DEF g
  <1>5. \A x : In(x, g) <=> x \in new
    <2>1. ASSUME NEW x \in new PROVE In(x, g)
      <3>1. cap + n + 1 - x \in 1 .. n /\ cap + n + 1 - (cap + n + 1 - x) = x
        BY <1>1
      <3>2. g[cap + n + 1 - x] = x
        BY <1>4, <3>1
      <3>3. QED
        BY <1>4, <3>1, <3>2 DEF In
    <2>2. QED
      BY <1>4, <2>1 DEF In
  <1>6. Distinct(g)
    BY <1>1, <1>4 DEF Distinct
  <1>7. \A x \in Element : In(x, u) <=> x <= cap
    <2>1. \A x : ~In(x, f)
      BY <1>3 DEF In
    <2>2. QED
      BY <2>1 DEF Whole
  <1>8. \A x \in Element : ~(In(x, u) /\ In(x, g))
    BY <1>1, <1>2, <1>5, <1>7 DEF Element
  <1>9. /\ d.head = c.head /\ d.tail = c.tail
        /\ d.free = IF n = 0 THEN null ELSE cap + n
        /\ \A x \in Element : d.next[x] = IF x \notin new THEN c.next[x]
                                         ELSE IF x - 1 \in new THEN x - 1 ELSE null
        /\ \A x \in Element : d.prev[x] = IF x \in new THEN null ELSE c.prev[x]
    BY DEF Added
  <1> HIDE DEF new
  <1>10. ASSUME NEW j \in 1 .. Len(u)
         PROVE  d.next[u[j]] = c.next[u[j]] /\ d.prev[u[j]] = c.prev[u[j]]
    <2>1. u[j] \in Element /\ In(u[j], u)
      BY SeqFacts DEF Lists, In
    <2>2. u[j] \notin new
      BY <1>5, <1>8, <2>1
    <2>3. QED
      BY <1>9, <2>1, <2>2
  <1>11. Path(d.next, d.head, u)
    BY <1>9, <1>10 DEF Lists, Path
  <1>12. ASSUME NEW j \in 1 .. n
         PROVE  d.prev[g[j]] = null /\ d.next[g[j]] = IF j = n THEN null ELSE g[j + 1]
    <2>1. g[j] \in Element /\ g[j] \in new
      BY <1>2, <1>4
    <2>2. CASE j = n
      <3>1. g[j] - 1 \notin new
        BY <1>1, <1>4, <2>2 DEF new
      <3>2. QED
        BY <1>9, <2>1, <2>2, <3>1
    <2>3. CASE j # n
      <3>1. j + 1 \in 1 .. n /\ g[j] - 1 = cap + n + 1 - (j + 1)
        BY <1>1, <1>4, <2>3
      <3>2. g[j + 1] = g[j] - 1 /\ g[j + 1] \in new
        BY <1>4, <3>1
      <3>3. QED
        BY <1>9, <2>1, <2>3, <3>2
    <2>4. QED
      BY <2>2, <2>3
  <1>13. d.free = IF n = 0 THEN null ELSE g[1]
    BY <1>1, <1>4, <1>9
  <1>14. Path(d.next, d.free, g)
    BY <1>4, <1>12, <1>13 DEF Path
  <1>15. Lists(d, u, g)
    BY <1>4, <1>6, <1>8, <1>9, <1>10, <1>11, <1>12, <1>14 DEF Lists
  <1>16. Whole(d, u, g)
    <2>1. Len(u) = cap /\ Len(u) \in Nat
      BY <1>1, <1>3, SeqFacts DEF Whole, Lists
    <2>2. ASSUME NEW x \in Element PROVE x <= cap + n <=> In(x, u) \/ In(x, g)
      BY <1>1, <1>2, <1>5, <1>7 DEF Element
    <2>3. QED
      BY <1>1, <1>4, <2>1, <2>2 DEF Whole
  <1>17. QED
    BY <1>4, <1>15, <1>16
-----------------------------------------------------------------------------
(* The operations keep a good cache good.                                   *)

SameLinks(d, c) ==
    /\ d.next = c.next /\ d.prev = c.prev
    /\ d.free = c.free /\ d.head = c.head /\ d.tail = c.tail
SameBlocks(d, c) == d.blocks = c.blocks /\ d.capacity = c.capacity /\ d.size = c.size

LEMMA LinksDecide ==
  ASSUME NEW c, NEW d, NEW u, NEW f, Lists(c, u, f), SameLinks(d, c)
  PROVE  Lists(d, u, f)
  BY DEF Lists, SameLinks, Path

\* An element that is on no list and points nowhere is removed without a trace.
LEMMA LooseLists ==
  ASSUME NEW c \in Caches, NEW d, NEW u, NEW f, Lists(c, u, f), NEW e \in Element,
         ~In(e, u), ~In(e, f), c.next[e] = null, c.prev[e] = null, Removed(d, c, e)
  PROVE  Lists(d, u, f) /\ c.head # e /\ d.prev[e] = null
  <1>1. /\ Len(u) \in Nat /\ Len(f) \in Nat
        /\ \A j \in 1 .. Len(u) : u[j] \in Element /\ u[j] # e
        /\ \A j \in 1 .. Len(f) : f[j] \in Element /\ f[j] # e
    BY SeqFacts DEF Lists, In
  <1>2. c.head # e /\ c.tail # e
    BY <1>1, Pointers DEF Lists, Path
  <1>3. /\ d.head = c.head /\ d.tail = c.tail /\ d.free = c.free
        /\ \A x \in Element : x # e => d.next[x] = c.next[x] /\ d.prev[x] = c.prev[x]
        /\ d.prev[e] = null
    BY <1>2, Pointers DEF Removed
  <1>4. /\ \A j \in 1 .. Len(u) : d.next[u[j]] = c.next[u[j]] /\ d.prev[u[j]] = c.prev[u[j]]
        /\ \A j \in 1 .. Len(f) : d.next[f[j]] = c.next[f[j]] /\ d.prev[f[j]] = c.prev[f[j]]
    BY <1>1, <1>3
  <1>5. Path(d.next, d.head, u) /\ Path(d.next, d.free, f)
    BY <1>3, <1>4 DEF Lists, Path
  <1>6. Lists(d, u, f)
    BY <1>3, <1>4, <1>5 DEF Lists
  <1>7. QED
    BY <1>2, <1>3, <1>6

\* d is c without the key of its element e.
Evicted(d, c, e) ==
    /\ d.key = c.key /\ d.value = c.value /\ SameBlocks(d, c)
    /\ \A k \in Key : d.table[k] = IF k = c.key[e] THEN null ELSE c.table[k]

LEMMA EvictGood ==
  ASSUME NEW c, NEW u, NEW f, Good(c, u, f), NEW i \in 1 .. Len(u)
  PROVE  /\ Good(Evict(c, u[i]), RemoveAt(u, i), <<u[i]>> \o f)
         /\ Evicted(Evict(c, u[i]), c, u[i])
         /\ Evict(c, u[i]).free = u[i]
  <1> DEFINE e == u[i]
             t == [c.table EXCEPT ![c.key[e]] = null]
             b == [c EXCEPT !.table = t]
             d == RemoveFromLRU(b, e)
             a == PushFreeList(d, e)
             r == RemoveAt(u, i)
             g == <<e>> \o f
  <1>1. /\ c \in Caches /\ Lists(c, u, f) /\ Named(c, u) /\ Whole(c, u, f) /\ Growth(c)
        /\ u \in Seq(Element) /\ f \in Seq(Element) /\ Distinct(u) /\ Distinct(f)
    BY DEF Good, Lists
  <1>2. Len(u) \in Nat /\ Len(f) \in Nat /\ e \in Element /\ In(e, u) /\ c.key[e] \in Key
    BY <1>1, SeqFacts DEF Named, In
  <1>3. /\ t \in [Key -> Pointer]
        /\ \A k \in Key : t[k] = IF k = c.key[e] THEN null ELSE c.table[k]
    BY <1>1, <1>2, CacheType, Pointers
  <1>4. a = Evict(c, e)
    BY DEF Evict
  <1> HIDE DEF t
  <1>5. /\ b \in Caches /\ SameLinks(b, c) /\ SameBlocks(b, c)
        /\ b.table = t /\ b.key = c.key /\ b.value = c.value
    BY <1>1, <1>3 DEF Caches, SameLinks, SameBlocks
  <1> HIDE DEF b
  <1>6. Removed(d, b, e) /\ d \in Caches
    BY <1>2, <1>5, RemoveFields DEF Removed
  <1> HIDE DEF d
  <1>7. Freed(a, d, e)
    BY <1>2, <1>6, FreeFields
  <1> HIDE DEF a
  <1>8. Lists(b, u, f)
    BY <1>1, <1>5, LinksDecide
  <1>9. Lists(d, r, f)
    BY <1>6, <1>8, RemoveLists
  <1>10. /\ \A x : In(x, r) <=> In(x, u) /\ x # e
         /\ Len(r) = Len(u) - 1 /\ r \in Seq(Element)
    BY <1>1, RemoveMembers, RemoveAtFacts
  <1>11. ~In(e, f) /\ ~In(e, r)
    BY <1>1, <1>2, <1>10 DEF Lists
  <1>12. /\ \A x : In(x, g) <=> In(x, f) \/ x = e
         /\ Len(g) = Len(f) + 1
    BY <1>1, <1>2, <1>11, ConsMembers, ConsFacts
  <1> HIDE DEF r, e
  <1>13. Lists(a, r, g)
    BY <1>2, <1>7, <1>9, <1>11, FreeLists
  <1> HIDE DEF g
  <1>14. /\ a \in Caches /\ a.table = t /\ a.key = c.key /\ a.value = c.value
         /\ SameBlocks(a, c) /\ a.free = e
    BY <1>5, <1>6, <1>7 DEF Removed, Freed, SameRest, SameBlocks
  <1>15. Named(a, r)
    <2>1. ASSUME NEW k \in Key, a.table[k] # null
          PROVE  In(a.table[k], r) /\ a.key[a.table[k]] = k
      <3>1. k # c.key[e] /\ a.table[k] = c.table[k]
        BY <1>3, <1>14, <2>1
      <3>2. In(c.table[k], u) /\ c.key[c.table[k]] = k
        BY <1>1, <2>1, <3>1 DEF Named
      <3>3. QED
        BY <1>10, <1>14, <3>1, <3>2
    <2>2. ASSUME NEW j \in 1 .. Len(r)
          PROVE  /\ a.key[r[j]] \in Key /\ a.table[a.key[r[j]]] = r[j]
                 /\ a.value[r[j]] \in Value
      <3>1. In(r[j], u) /\ r[j] # e
        BY <1>10 DEF In
      <3>2. PICK m \in 1 .. Len(u) : u[m] = r[j]
        BY <3>1 DEF In
      <3>3. c.key[r[j]] \in Key /\ c.table[c.key[r[j]]] = r[j] /\ c.value[r[j]] \in Value
        BY <1>1, <3>2 DEF Named
      <3>4. c.table[c.key[e]] = e
        BY <1>1 DEF Named, e
      <3>5. c.key[r[j]] # c.key[e]
        BY <3>1, <3>3, <3>4
      <3>6. QED
        BY <1>3, <1>14, <3>3, <3>5
    <2>3. QED
      BY <2>1, <2>2 DEF Named
  <1>16. Whole(a, r, g)
    <2>1. a.capacity = c.capacity /\ Len(u) + Len(f) = c.capacity
      BY <1>1, <1>14 DEF Whole, SameBlocks
    <2>2. Len(r) + Len(g) = a.capacity
      BY <1>2, <1>10, <1>12, <2>1
    <2>3. \A x \in Element : x <= a.capacity <=> In(x, r) \/ In(x, g)
      BY <1>1, <1>2, <1>10, <1>12, <2>1 DEF Whole
    <2>4. QED
      BY <2>2, <2>3 DEF Whole
  <1>17. Growth(a)
    BY <1>1, <1>14 DEF Growth, SameBlocks
  <1>18. Good(a, r, g)
    BY <1>13, <1>14, <1>15, <1>16, <1>17 DEF Good
  <1>19. Evicted(a, c, e)
    BY <1>3, <1>14 DEF Evicted
  <1>20. QED
    BY <1>4, <1>14, <1>18, <1>19 DEF r, g, e

LEMMA UseGood ==
  ASSUME NEW c, NEW u, NEW f, Good(c, u, f), NEW i \in 1 .. Len(u)
  PROVE  LET d == PushLRUHead(c, u[i])
         IN  /\ Good(d, <<u[i]>> \o RemoveAt(u, i), f)
             /\ d.table = c.table /\ d.key = c.key /\ d.value = c.value
  <1> DEFINE e == u[i]
             d == RemoveFromLRU(c, e)
             a == PushLRUHead(c, e)
             r == RemoveAt(u, i)
             w == <<e>> \o r
  <1>1. /\ c \in Caches /\ Lists(c, u, f) /\ Named(c, u) /\ Whole(c, u, f) /\ Growth(c)
        /\ u \in Seq(Element) /\ f \in Seq(Element) /\ Distinct(u) /\ Distinct(f)
    BY DEF Good, Lists
  <1>2. /\ Len(u) \in Nat /\ Len(f) \in Nat /\ e \in Element /\ In(e, u)
        /\ \A j \in 1 .. Len(u) : u[j] \in Element
    BY <1>1, SeqFacts DEF In
  <1>3. /\ \A x : In(x, r) <=> In(x, u) /\ x # e
        /\ Len(r) = Len(u) - 1 /\ r \in Seq(Element) /\ Distinct(r)
        /\ \A j \in 1 .. Len(u) - 1 : r[j] = IF j < i THEN u[j] ELSE u[j + 1]
    BY <1>1, RemoveMembers, RemoveAtFacts
  <1>4. ~In(e, f) /\ ~In(e, r)
    BY <1>1, <1>2, <1>3 DEF Lists
  <1> HIDE DEF r, e
  <1>5. /\ \A x : In(x, w) <=> In(x, r) \/ x = e
        /\ Len(w) = Len(r) + 1 /\ w \in Seq(Element)
        /\ \A j \in 1 .. Len(r) + 1 : w[j] = IF j = 1 THEN e ELSE r[j - 1]
    BY <1>2, <1>3, <1>4, ConsMembers, ConsFacts
  <1> HIDE DEF w
  <1>6. /\ \A x : In(x, w) <=> In(x, u)
        /\ Len(w) = Len(u)
    BY <1>2, <1>3, <1>5
  <1>7. /\ a \in Caches /\ Lists(a, w, f) /\ SameRest(a, c)
    <2>1. CASE c.head = e
      <3>1. a = c
        BY <2>1 DEF PushLRUHead
      <3>2. i = 1
        <4>1. u[1] = u[i] /\ 1 \in 1 .. Len(u)
          BY <1>1, <1>2, <2>1 DEF Lists, Path, e
        <4>2. QED
          BY <1>1, <4>1 DEF Distinct
      <3>3. \A j \in 1 .. Len(u) : w[j] = u[j]
        <4>1. ASSUME NEW j \in 1 .. Len(u), j # 1 PROVE w[j] = u[j]
          <5>1. j - 1 \in 1 .. Len(u) - 1 /\ ~(j - 1 < i) /\ j - 1 + 1 = j
            BY <1>2, <3>2, <4>1
          <5>2. r[j - 1] = u[j]
            BY <1>3, <5>1
          <5>3. w[j] = r[j - 1]
            BY <1>2, <1>3, <1>5, <4>1
          <5>4. QED
            BY <5>2, <5>3
        <4>2. w[1] = u[1]
          BY <1>2, <1>3, <1>5, <3>2 DEF e
        <4>3. QED
          BY <4>1, <4>2
      <3>4. w = u
        BY <1>1, <1>5, <1>6, <3>3, SeqEqual
      <3>5. QED
        BY <1>1, <3>1, <3>4 DEF SameRest
    <2>2. CASE c.head # e
      <3>1. Removed(d, c, e)
        BY <1>1, <1>2, RemoveFields
      <3>2. Attached(a, d, e)
        BY <1>1, <1>2, <2>2, PushFields
      <3>3. Lists(d, r, f)
        BY <1>1, <3>1, RemoveLists DEF r, e
      <3>4. d.prev[e] = null
        BY <1>2, <3>1 DEF Removed
      <3> HIDE DEF a, d
      <3>5. Lists(a, w, f)
        BY <1>2, <1>4, <3>2, <3>3, <3>4, AttachLists DEF w
      <3>6. QED
        BY <3>1, <3>2, <3>5 DEF Removed, Attached, SameRest
    <2>3. QED
      BY <2>1, <2>2
  <1> HIDE DEF a
  <1>8. Named(a, w)
    <2>1. ASSUME NEW j \in 1 .. Len(w)
          PROVE  /\ c.key[w[j]] \in Key /\ c.table[c.key[w[j]]] = w[j]
                 /\ c.value[w[j]] \in Value
      <3>1. In(w[j], u)
        BY <1>6 DEF In
      <3>2. PICK m \in 1 .. Len(u) : u[m] = w[j]
        BY <3>1 DEF In
      <3>3. QED
        BY <1>1, <3>2 DEF Named
    <2>2. QED
      BY <1>1, <1>6, <1>7, <2>1 DEF Named, SameRest
  <1>9. Whole(a, w, f) /\ Growth(a)
    BY <1>1, <1>6, <1>7 DEF Whole, Growth, SameRest
  <1>10. Good(a, w, f)
    BY <1>7, <1>8, <1>9 DEF Good
  <1>11. QED
    BY <1>7, <1>10 DEF w, r, e, a, SameRest

SameNames(d, c) == d.table = c.table /\ d.key = c.key /\ d.value = c.value

LEMMA NamesDecide ==
  ASSUME NEW c, NEW d, NEW u, Named(c, u), SameNames(d, c)
  PROVE  Named(d, u)
  BY DEF Named, SameNames

\* A cache with a free element has less than Room elements in use.
LEMMA FreeBelowRoom ==
  ASSUME NEW c, NEW u, NEW f, Good(c, u, f)
  PROVE  /\ c.free = null <=> Len(f) = 0
         /\ c.free # null => Len(u) < Room
  <1>1. /\ Len(u) \in Nat /\ Len(f) \in Nat /\ \A i \in 1 .. Len(f) : f[i] \in Element
        /\ c.free = IF Len(f) = 0 THEN null ELSE f[1]
        /\ Len(u) + Len(f) = c.capacity
    BY SeqFacts DEF Good, Lists, Path, Whole
  <1>2. c.free = null <=> Len(f) = 0
    BY <1>1, Pointers
  <1>3. c.capacity <= Room
    BY RoomFacts, CacheType DEF Good, Growth
  <1>4. Room \in Int
    BY RoomFacts
  <1>5. QED
    BY <1>1, <1>2, <1>3, <1>4

\* d is c with free elements, if the blocks can give any.
Provided(d, c, u) ==
    /\ \E g : Good(d, u, g)
    /\ SameNames(d, c)
    /\ d.free = null => Len(u) = Room

LEMMA ProvideGood ==
  ASSUME NEW c, NEW u, NEW f, Good(c, u, f)
  PROVE  Provided(Provide(c), c, u)
  <1>1. /\ c \in Caches /\ Lists(c, u, f) /\ Named(c, u) /\ Whole(c, u, f) /\ Growth(c)
        /\ u \in Seq(Element) /\ f \in Seq(Element)
    BY DEF Good, Lists
  <1>2. CASE c.free # null
    <2>1. Provide(c) = c
      BY <1>2 DEF Provide
    <2>2. QED
      BY <1>2, <2>1 DEF Provided, SameNames
  <1>3. CASE c.free = null
    <2>1. Provide(c) = AddBlock(c)
      BY <1>3 DEF Provide
    <2>2. Len(u) = c.capacity
      BY <1>1, <1>3, FreeBelowRoom, SeqFacts DEF Whole
    <2>3. c.blocks \in 0 .. MaxBlocks /\ c.capacity \in 0 .. MaxElements /\ c.size \in Nat
      BY <1>1, CacheType
    <2>4. CASE c.blocks < MaxBlocks /\ c.capacity < MaxElements
      <3> DEFINE d == AddBlock(c)
      <3>1. Added(d, c) /\ Growth(d)
        BY <1>1, <2>4, AddFields
      <3> HIDE DEF d
      <3>2. PICK g : Lists(d, u, g) /\ Whole(d, u, g) /\ Len(g) = c.size
        BY <1>1, <1>3, <3>1, AddLists
      <3>3. SameNames(d, c) /\ d \in Caches
        BY <3>1 DEF Added, SameNames
      <3>4. Good(d, u, g)
        BY <1>1, <3>1, <3>2, <3>3, NamesDecide DEF Good
      <3>5. ASSUME d.free = null PROVE Len(u) = Room
        <4>1. c.size = 0
          BY <3>2, <3>4, <3>5, FreeBelowRoom
        <4>2. Exhausted(c.blocks)
          BY <1>1, <4>1 DEF Exhausted, Growth
        <4>3. QED
          BY <1>1, <2>2, <2>3, <4>2, GrownEnd DEF Growth
      <3>6. QED
        BY <2>1, <3>3, <3>4, <3>5 DEF Provided, d
    <2>5. CASE ~(c.blocks < MaxBlocks /\ c.capacity < MaxElements)
      <3>1. Provide(c) = c
        BY <2>1, <2>5 DEF AddBlock
      <3>2. c.capacity = Room
        <4>1. CASE c.blocks < MaxBlocks
          <5>1. c.capacity = MaxElements
            BY <2>3, <2>5, <4>1, Sizes
          <5>2. Exhausted(c.blocks)
            BY <1>1, <5>1 DEF Exhausted, Growth
          <5>3. QED
            BY <1>1, <2>3, <5>2, GrownEnd DEF Growth
        <4>2. CASE ~(c.blocks < MaxBlocks)
          <5>1. c.blocks = MaxBlocks
            BY <2>3, <4>2, Sizes
          <5>2. QED
            BY <1>1, <5>1 DEF Growth, Room
        <4>3. QED
          BY <4>1, <4>2
      <3>3. QED
        BY <2>2, <3>1, <3>2 DEF Provided, SameNames
    <2>6. QED
      BY <2>4, <2>5
  <1>4. QED
    BY <1>2, <1>3

\* The free element e takes a key that the table does not hold.
Filled(c, e, k, v) ==
    PushLRUHead([PopFreeList(c) EXCEPT !.key[e] = k, !.value[e] = v, !.table[k] = e], e)

LEMMA FillGood ==
  ASSUME NEW c, NEW u, NEW f, Good(c, u, f), c.free # null,
         NEW k \in Key, NEW v \in Value, c.table[k] = null
  PROVE  LET d == Filled(c, c.free, k, v)
         IN  /\ Good(d, <<c.free>> \o u, RemoveAt(f, 1))
             /\ d.key = [c.key EXCEPT ![c.free] = k]
             /\ d.value = [c.value EXCEPT ![c.free] = v]
             /\ ~In(c.free, u) /\ c.free \in Element
  <1> DEFINE e == c.free
             p == PopFreeList(c)
             key == [c.key EXCEPT ![e] = k]
             value == [c.value EXCEPT ![e] = v]
             table == [c.table EXCEPT ![k] = e]
             b == [p EXCEPT !.key = key, !.value = value, !.table = table]
             r == RemoveFromLRU(b, e)
             d == PushLRUHead(b, e)
             w == <<e>> \o u
             g == RemoveAt(f, 1)
  <1>1. /\ c \in Caches /\ Lists(c, u, f) /\ Named(c, u) /\ Whole(c, u, f) /\ Growth(c)
        /\ u \in Seq(Element) /\ f \in Seq(Element) /\ Distinct(u) /\ Distinct(f)
    BY DEF Good, Lists
  <1>2. Popped(p, c) /\ p \in Caches
    BY <1>1, PopFields DEF Popped
  <1>3. d = Filled(c, e, k, v)
    <2>1. p.key = c.key /\ p.value = c.value /\ p.table = c.table
      BY <1>2 DEF Popped, SameRest
    <2>2. b = [p EXCEPT !.key[e] = k, !.value[e] = v, !.table[k] = e]
      <3> HIDE DEF p
      <3>1. QED
        BY <2>1
    <2>3. QED
      BY <2>2 DEF Filled
  <1> HIDE DEF p
  <1>4. /\ 1 \in 1 .. Len(f) /\ f[1] = e
        /\ Lists(p, u, g) /\ p.next[e] = null /\ p.prev[e] = null
    BY <1>1, <1>2, PopLists
  <1>5. e \in Element /\ Len(u) \in Nat /\ Len(f) \in Nat /\ In(e, f) /\ ~In(e, u)
    BY <1>1, <1>4, SeqFacts DEF Lists, In
  <1>6. /\ \A x : In(x, g) <=> In(x, f) /\ x # e
        /\ Len(g) = Len(f) - 1
    BY <1>1, <1>4, RemoveMembers, RemoveAtFacts
  <1> HIDE DEF g
  <1>7. /\ key \in [Element -> Key \cup {null}] /\ value \in [Element -> Value \cup {null}]
        /\ table \in [Key -> Pointer]
        /\ \A x \in Element : key[x] = IF x = e THEN k ELSE c.key[x]
        /\ \A x \in Element : value[x] = IF x = e THEN v ELSE c.value[x]
        /\ \A x \in Key : table[x] = IF x = k THEN e ELSE c.table[x]
    BY <1>1, <1>5, CacheType, Pointers
  <1> HIDE DEF key, value, table
  <1>8. /\ b \in Caches /\ SameLinks(b, p) /\ SameBlocks(b, c)
        /\ b.table = table /\ b.key = key /\ b.value = value
    BY <1>2, <1>7 DEF Caches, SameLinks, SameBlocks, Popped, SameRest
  <1> HIDE DEF b
  <1>9. Lists(b, u, g) /\ b.next[e] = null /\ b.prev[e] = null
    BY <1>4, <1>8, LinksDecide DEF SameLinks
  <1>10. Removed(r, b, e)
    BY <1>5, <1>8, RemoveFields
  <1> HIDE DEF e
  <1>11. Lists(r, u, g) /\ b.head # e /\ r.prev[e] = null
    <2>1. ~In(e, g)
      BY <1>6
    <2>2. QED
      BY <1>5, <1>8, <1>9, <1>10, <2>1, LooseLists
  <1>12. Attached(d, r, e)
    BY <1>5, <1>8, <1>11, PushFields
  <1> HIDE DEF r, d
  <1>13. Lists(d, w, g)
    BY <1>5, <1>6, <1>11, <1>12, AttachLists
  <1>14. /\ \A x : In(x, w) <=> In(x, u) \/ x = e
         /\ Len(w) = Len(u) + 1
    BY <1>1, <1>5, ConsMembers, ConsFacts
  <1> HIDE DEF w
  <1>15. /\ d \in Caches /\ SameBlocks(d, c)
         /\ d.table = table /\ d.key = key /\ d.value = value
    BY <1>8, <1>10, <1>12 DEF Removed, Attached, SameRest, SameBlocks
  <1>16. Named(d, w)
    <2>1. ASSUME NEW x \in Key, table[x] # null
          PROVE  In(table[x], w) /\ key[table[x]] = x
      <3>1. CASE x = k
        BY <1>5, <1>7, <1>14, <3>1
      <3>2. CASE x # k
        <4>1. table[x] = c.table[x]
          BY <1>7, <3>2
        <4>2. In(c.table[x], u) /\ c.key[c.table[x]] = x
          BY <1>1, <2>1, <4>1 DEF Named
        <4>3. c.table[x] \in Element /\ c.table[x] # e
          BY <1>1, <1>5, <4>2, SeqFacts DEF In
        <4>4. QED
          BY <1>7, <1>14, <4>1, <4>2, <4>3
      <3>3. QED
        BY <3>1, <3>2
    <2>2. ASSUME NEW j \in 1 .. Len(w)
          PROVE  key[w[j]] \in Key /\ table[key[w[j]]] = w[j] /\ value[w[j]] \in Value
      <3>1. In(w[j], u) \/ w[j] = e
        BY <1>14 DEF In
      <3>2. CASE w[j] = e
        BY <1>5, <1>7, <3>2
      <3>3. CASE w[j] # e
        <4>1. PICK m \in 1 .. Len(u) : u[m] = w[j]
          BY <3>1, <3>3 DEF In
        <4>2. w[j] \in Element
          BY <1>1, <4>1, SeqFacts
        <4>3. c.key[w[j]] \in Key /\ c.table[c.key[w[j]]] = w[j] /\ c.value[w[j]] \in Value
          BY <1>1, <4>1 DEF Named
        <4>4. c.key[w[j]] # k
          BY <4>2, <4>3, Pointers
        <4>5. QED
          BY <1>7, <3>3, <4>2, <4>3, <4>4
      <3>4. QED
        BY <3>2, <3>3
    <2>3. QED
      BY <1>15, <2>1, <2>2 DEF Named
  <1>17. Whole(d, w, g) /\ Growth(d)
    <2>1. d.capacity = c.capacity /\ Len(u) + Len(f) = c.capacity
      BY <1>1, <1>15 DEF Whole, SameBlocks
    <2>2. Len(w) + Len(g) = d.capacity
      BY <1>5, <1>6, <1>14, <2>1
    <2>3. \A x \in Element : x <= d.capacity <=> In(x, w) \/ In(x, g)
      BY <1>1, <1>5, <1>6, <1>14, <2>1 DEF Whole
    <2>4. Growth(d)
      BY <1>1, <1>15 DEF Growth, SameBlocks
    <2>5. QED
      BY <2>2, <2>3, <2>4 DEF Whole
  <1>18. Good(d, w, g)
    BY <1>13, <1>15, <1>16, <1>17 DEF Good
  <1>19. QED
    BY <1>3, <1>5, <1>15, <1>18 DEF e, key, value, w, g

\* The elements in use without that of k, and as many of them as leave room.
Rest(c, u, k) ==
    IF c.table[k] = null THEN u
    ELSE RemoveAt(u, CHOOSE i \in 1 .. Len(u) : u[i] = c.table[k])
Kept(s) == IF Len(s) = Room THEN RemoveAt(s, Len(s)) ELSE s

LEMMA Place ==
  ASSUME NEW c, NEW u, Named(c, u), NEW k \in Key, c.table[k] # null
  PROVE  \E i \in 1 .. Len(u) : u[i] = c.table[k] /\ Rest(c, u, k) = RemoveAt(u, i)
  <1>1. \E i \in 1 .. Len(u) : u[i] = c.table[k]
    BY DEF Named, In
  <1>2. QED
    BY <1>1 DEF Rest

\* d is c with the elements w in use, a free one, and without k.
Readied(d, c, w, k) ==
    /\ \E g : Good(d, w, g)
    /\ d.free # null /\ d.table[k] = null /\ d.key = c.key /\ d.value = c.value

LEMMA FoundGood ==
  ASSUME NEW c, NEW u, NEW f, Good(c, u, f), NEW k \in Key
  PROVE  LET d == IF c.table[k] = null THEN c ELSE Evict(c, c.table[k])
         IN  /\ \E g : Good(d, Rest(c, u, k), g)
             /\ d.table[k] = null /\ d.key = c.key /\ d.value = c.value
  <1>1. CASE c.table[k] = null
    BY <1>1 DEF Rest
  <1>2. CASE c.table[k] # null
    <2>1. PICK i \in 1 .. Len(u) : u[i] = c.table[k] /\ Rest(c, u, k) = RemoveAt(u, i)
      BY <1>2, Place DEF Good
    <2>2. /\ Good(Evict(c, u[i]), RemoveAt(u, i), <<u[i]>> \o f)
          /\ Evicted(Evict(c, u[i]), c, u[i])
      BY EvictGood
    <2>3. c.key[u[i]] = k
      BY <1>2, <2>1 DEF Good, Named
    <2>4. QED
      BY <1>2, <2>1, <2>2, <2>3 DEF Evicted
  <1>3. QED
    BY <1>1, <1>2

LEMMA ReadyGood ==
  ASSUME NEW c, NEW u, NEW f, Good(c, u, f), NEW k \in Key, c.table[k] = null
  PROVE  LET roomy == Provide(c)
         IN  Readied(IF roomy.free # null THEN roomy ELSE Provide(Evict(roomy, roomy.tail)),
                     c, Kept(u), k)
  <1> DEFINE d == Provide(c)
  <1>1. Provided(d, c, u)
    BY ProvideGood
  <1> HIDE DEF d
  <1>2. PICK g : Good(d, u, g)
    BY <1>1 DEF Provided
  <1>3. SameNames(d, c) /\ (d.free = null => Len(u) = Room)
    BY <1>1 DEF Provided
  <1>4. CASE d.free # null
    <2>1. Kept(u) = u
      BY <1>2, <1>4, FreeBelowRoom DEF Kept
    <2>2. QED
      BY <1>2, <1>3, <1>4, <2>1 DEF Readied, SameNames, d
  <1>5. CASE d.free = null
    <2> DEFINE i == Len(u)
    <2>1. i \in 1 .. Len(u) /\ Kept(u) = RemoveAt(u, i)
      BY <1>3, <1>5, RoomFacts DEF Kept
    <2>2. d.tail = u[i]
      BY <1>2, <2>1 DEF Good, Lists
    <2> DEFINE a == Evict(d, d.tail)
    <2>3. /\ Good(a, RemoveAt(u, i), <<u[i]>> \o g)
          /\ Evicted(a, d, u[i]) /\ a.free = u[i]
      BY <1>2, <2>1, <2>2, EvictGood
    <2> HIDE DEF a
    <2>4. a.free # null
      BY <1>2, <2>1, <2>3, SeqFacts, Pointers DEF Good, Lists
    <2>5. Provide(a) = a
      BY <2>4 DEF Provide
    <2>6. a.table[k] = null /\ a.key = c.key /\ a.value = c.value
      BY <1>3, <2>3 DEF Evicted, SameNames
    <2>7. Readied(a, c, Kept(u), k)
      BY <2>1, <2>3, <2>4, <2>6 DEF Readied
    <2>8. QED
      BY <1>5, <2>5, <2>7 DEF a, d
  <1>6. QED
    BY <1>4, <1>5

\* d is c after the Insert of k with v, whose element e comes before w.
Inserted(d, c, w, k, v) ==
    \E e \in Element : \E g :
       /\ Good(d, <<e>> \o w, g) /\ ~In(e, w)
       /\ d.key = [c.key EXCEPT ![e] = k] /\ d.value = [c.value EXCEPT ![e] = v]

LEMMA InsertGood ==
  ASSUME NEW u, NEW f, Good(cache, u, f), NEW k \in Key, NEW v \in Value, Insert(k, v)
  PROVE  Inserted(cache', cache, Kept(Rest(cache, u, k)), k, v)
  <1> DEFINE found == IF cache.table[k] = null THEN cache ELSE Evict(cache, cache.table[k])
             roomy == Provide(found)
             ready == IF roomy.free # null THEN roomy ELSE Provide(Evict(roomy, roomy.tail))
             o == Rest(cache, u, k)
  <1>1. cache' = Filled(ready, ready.free, k, v)
    BY Zenon DEF Insert, Filled
  <1>2. /\ \E g : Good(found, o, g)
        /\ found.table[k] = null /\ found.key = cache.key /\ found.value = cache.value
    BY FoundGood
  <1> HIDE DEF found, o
  <1>3. Readied(ready, found, Kept(o), k)
    BY <1>2, ReadyGood
  <1> HIDE DEF ready
  <1>4. PICK g : Good(ready, Kept(o), g)
    BY <1>3 DEF Readied
  <1>5. /\ ready.free # null /\ ready.table[k] = null
        /\ ready.key = cache.key /\ ready.value = cache.value
    BY <1>2, <1>3 DEF Readied
  <1>6. /\ Good(cache', <<ready.free>> \o Kept(o), RemoveAt(g, 1))
        /\ cache'.key = [ready.key EXCEPT ![ready.free] = k]
        /\ cache'.value = [ready.value EXCEPT ![ready.free] = v]
        /\ ~In(ready.free, Kept(o)) /\ ready.free \in Element
    <2> DEFINE d == Filled(ready, ready.free, k, v)
    <2>1. /\ Good(d, <<ready.free>> \o Kept(o), RemoveAt(g, 1))
          /\ d.key = [ready.key EXCEPT ![ready.free] = k]
          /\ d.value = [ready.value EXCEPT ![ready.free] = v]
          /\ ~In(ready.free, Kept(o)) /\ ready.free \in Element
      BY <1>4, <1>5, FillGood
    <2> HIDE DEF d
    <2>2. cache' = d
      BY <1>1 DEF d
    <2>3. QED
      BY <2>1, <2>2
  <1>7. QED
    BY <1>5, <1>6 DEF Inserted, o

-----------------------------------------------------------------------------
(* Clear.                                                                   *)

SweepStep(l) ==
    IF l.at = null THEN l
    ELSE [at |-> l.cache.next[l.at], cache |-> PushFreeList(l.cache, l.at)]

LEMMA SweepType ==
  ASSUME NEW l \in [at : Pointer, cache : Caches]
  PROVE  SweepStep(l) \in [at : Pointer, cache : Caches]
  <1>1. CASE l.at = null
    BY <1>1 DEF SweepStep
  <1>2. CASE l.at # null
    <2>1. l.at \in Element /\ l.cache \in Caches
      BY <1>2 DEF Pointer
    <2>2. l.cache.next[l.at] \in Pointer
      BY <2>1, CacheType
    <2>3. PushFreeList(l.cache, l.at) \in Caches
      BY <2>1, FreeFields DEF Freed
    <2>4. QED
      BY <1>2, <2>2, <2>3 DEF SweepStep
  <1>3. QED
    BY <1>1, <1>2

\* l holds what FreeAll's loop computes, step by step.
Sweep(l, c) ==
    /\ l[0] = [at |-> c.head, cache |-> c]
    /\ \A n \in Nat \ {0} : l[n] = SweepStep(l[n - 1])
    /\ FreeAll(c) = l[MaxElements].cache

LEMMA SweepExists ==
  ASSUME NEW c \in Caches
  PROVE  \E l : Sweep(l, c)
  <1> DEFINE S == [at : Pointer, cache : Caches]
             F == [n \in Nat |-> [l \in S |-> SweepStep(l)]]
             x == [at |-> c.head, cache |-> c]
             Eq(f) == f = [n \in Nat |-> IF n = 0 THEN x ELSE SweepStep(f[n - 1])]
             loop == CHOOSE f : Eq(f)
  <1>1. x \in S /\ F \in [Nat -> [S -> S]]
    BY SweepType, CacheType
  <1>2. PICK g : Iterates(g, S, x, F)
    <2> HIDE DEF S, F, x
    <2>1. QED
      BY <1>1, Iteration
  <1>3. g \in [Nat -> S] /\ g[0] = x /\ \A n \in Nat \ {0} : g[n] = F[n][g[n - 1]]
    BY <1>2 DEF Iterates
  <1>4. Eq(g)
    <2> DEFINE h == [n \in Nat |-> IF n = 0 THEN x ELSE SweepStep(g[n - 1])]
    <2>1. ASSUME NEW n \in Nat PROVE g[n] = h[n]
      <3>1. CASE n = 0
        BY <1>3, <3>1
      <3>2. CASE n # 0
        <4>1. n - 1 \in Nat /\ n \in Nat \ {0}
          BY <3>2
        <4>2. g[n - 1] \in S
          BY <1>3, <4>1
        <4> HIDE DEF S
        <4>3. F[n][g[n - 1]] = SweepStep(g[n - 1])
          BY <4>1, <4>2
        <4>4. QED
          BY <1>3, <4>1, <4>3, <3>2
      <3>3. QED
        BY <3>1, <3>2
    <2> HIDE DEF S, F, x
    <2>2. g = h
      BY <1>3, <2>1
    <2>3. QED
      BY <2>2
  <1>5. FreeAll(c) = loop[MaxElements].cache
    BY Zenon DEF FreeAll, SweepStep
  <1>6. Eq(loop)
    <2> HIDE DEF Eq
    <2>1. QED
      BY <1>4, Zenon
  <1> HIDE DEF loop
  <1>7. ASSUME NEW n \in Nat PROVE loop[n] = IF n = 0 THEN x ELSE SweepStep(loop[n - 1])
    <2> HIDE DEF x
    <2>1. QED
      BY <1>6, Zenon
  <1> HIDE DEF Eq, F, S
  <1>8. QED
    BY <1>5, <1>7 DEF Sweep

\* What is left of c when the LRU list is forgotten.
Bare(c) == [c EXCEPT !.head = null, !.tail = null]

LEMMA BareFields ==
  ASSUME NEW c \in Caches
  PROVE  /\ Bare(c) \in Caches /\ SameRest(Bare(c), c)
         /\ Bare(c).next = c.next /\ Bare(c).prev = c.prev /\ Bare(c).free = c.free
         /\ Bare(c).head = null /\ Bare(c).tail = null
  BY Pointers DEF Bare, Caches, SameRest

\* The loop has pushed n elements of u onto the free list f.
Swept(l, n, c, u, f) ==
    /\ l.cache \in Caches /\ SameRest(l.cache, c)
    /\ l.at = IF n < Len(u) THEN u[n + 1] ELSE null
    /\ \A j \in 1 .. Len(u) : j > n =>
          l.cache.next[u[j]] = IF j = Len(u) THEN null ELSE u[j + 1]
    /\ \E g : /\ Lists(Bare(l.cache), <<>>, g)
              /\ \A x : In(x, g) <=> In(x, f) \/ \E j \in 1 .. Len(u) : j <= n /\ u[j] = x
              /\ Len(g) = Len(f) + IF n < Len(u) THEN n ELSE Len(u)

LEMMA EmptyFacts ==
  <<>> \in Seq(Element) /\ Len(<<>>) = 0 /\ Distinct(<<>>) /\ \A x : ~In(x, <<>>)
  BY DEF Distinct, In

LEMMA SweptFirst ==
  ASSUME NEW c \in Caches, NEW u, NEW f, Lists(c, u, f)
  PROVE  Swept([at |-> c.head, cache |-> c], 0, c, u, f)
  <1> DEFINE l == [at |-> c.head, cache |-> c]
  <1>1. Len(u) \in Nat /\ Len(f) \in Nat
    BY SeqFacts DEF Lists
  <1>2. l.cache = c /\ l.at = c.head
    OBVIOUS
  <1> HIDE DEF l
  <1>3. Lists(Bare(c), <<>>, f)
    <2>1. /\ Bare(c).next = c.next /\ Bare(c).prev = c.prev /\ Bare(c).free = c.free
          /\ Bare(c).head = null /\ Bare(c).tail = null
      BY BareFields
    <2>2. Path(c.next, null, <<>>)
      BY EmptyFacts DEF Path
    <2>3. QED
      BY EmptyFacts, <2>1, <2>2 DEF Lists
  <1>4. \A x : In(x, f) <=> In(x, f) \/ \E j \in 1 .. Len(u) : j <= 0 /\ u[j] = x
    BY <1>1
  <1>5. Len(f) = Len(f) + IF 0 < Len(u) THEN 0 ELSE Len(u)
    BY <1>1
  <1>6. /\ c.head = IF 0 < Len(u) THEN u[0 + 1] ELSE null
        /\ \A j \in 1 .. Len(u) : c.next[u[j]] = IF j = Len(u) THEN null ELSE u[j + 1]
    BY <1>1 DEF Lists, Path
  <1>7. Swept(l, 0, c, u, f)
    BY <1>2, <1>3, <1>4, <1>5, <1>6 DEF Swept, SameRest
  <1>8. QED
    BY <1>7 DEF l

LEMMA SweptNext ==
  ASSUME NEW l, NEW n \in Nat, NEW c, NEW u \in Seq(Element), NEW f \in Seq(Element),
         Distinct(u), \A e \in Element : ~(In(e, u) /\ In(e, f)), Swept(l, n, c, u, f)
  PROVE  Swept(SweepStep(l), n + 1, c, u, f)
  <1>1. PICK g : /\ Lists(Bare(l.cache), <<>>, g)
                 /\ \A x : In(x, g) <=> In(x, f) \/ \E j \in 1 .. Len(u) : j <= n /\ u[j] = x
                 /\ Len(g) = Len(f) + IF n < Len(u) THEN n ELSE Len(u)
    BY DEF Swept
  <1>2. /\ l.cache \in Caches /\ SameRest(l.cache, c)
        /\ l.at = IF n < Len(u) THEN u[n + 1] ELSE null
        /\ \A j \in 1 .. Len(u) : j > n =>
              l.cache.next[u[j]] = IF j = Len(u) THEN null ELSE u[j + 1]
    BY DEF Swept
  <1>3. /\ Len(u) \in Nat /\ Len(f) \in Nat /\ \A j \in 1 .. Len(u) : u[j] \in Element
        /\ \A i, j \in 1 .. Len(u) : u[i] = u[j] => i = j
    BY SeqFacts DEF Distinct
  <1>4. CASE ~(n < Len(u))
    <2>1. SweepStep(l) = l
      BY <1>2, <1>4 DEF SweepStep
    <2>2. ~(n + 1 < Len(u)) /\ \A j \in 1 .. Len(u) : j <= n /\ j <= n + 1
      BY <1>3, <1>4
    <2>3. \A x : In(x, g) <=> In(x, f) \/ \E j \in 1 .. Len(u) : j <= n + 1 /\ u[j] = x
      BY <1>1, <2>2
    <2>4. Len(g) = Len(f) + IF n + 1 < Len(u) THEN n + 1 ELSE Len(u)
      BY <1>1, <1>4, <2>2
    <2>5. l.at = IF n + 1 < Len(u) THEN u[n + 1 + 1] ELSE null
      BY <1>2, <1>4, <2>2
    <2>6. \A j \in 1 .. Len(u) : j > n + 1 =>
              l.cache.next[u[j]] = IF j = Len(u) THEN null ELSE u[j + 1]
      BY <2>2
    <2>7. Swept(l, n + 1, c, u, f)
      BY <1>1, <1>2, <2>3, <2>4, <2>5, <2>6 DEF Swept
    <2>8. QED
      BY <2>1, <2>7
  <1>5. CASE n < Len(u)
    <2> DEFINE e == u[n + 1]
               d == PushFreeList(l.cache, e)
               w == <<e>> \o g
               m == SweepStep(l)
    <2>1. n + 1 \in 1 .. Len(u) /\ e \in Element /\ e # null /\ In(e, u)
      <3>1. n + 1 \in 1 .. Len(u) /\ e \in Element
        BY <1>3, <1>5
      <3>2. QED
        BY <3>1, Pointers DEF In
    <2>2. l.at = e
      BY <1>2, <1>5
    <2>3. m.at = l.cache.next[e] /\ m.cache = d
      BY <2>1, <2>2 DEF SweepStep
    <2> HIDE DEF m
    <2>4. Freed(d, l.cache, e)
      BY <1>2, <2>1, FreeFields
    <2> HIDE DEF d
    <2>5. d \in Caches /\ SameRest(d, c)
      BY <1>2, <2>4 DEF Freed, SameRest
    <2>6. Freed(Bare(d), Bare(l.cache), e)
      BY <1>2, <2>4, <2>5, BareFields DEF Freed, SameRest
    <2>7. ~In(e, g) /\ ~In(e, <<>>)
      <3>1. ~In(e, f)
        BY <2>1
      <3>2. \A j \in 1 .. Len(u) : j <= n => u[j] # e
        <4>1. ASSUME NEW j \in 1 .. Len(u), j <= n, u[j] = e PROVE FALSE
          <5>1. j = n + 1
            BY <1>3, <2>1, <4>1
          <5>2. QED
            BY <4>1, <5>1
        <4>2. QED
          BY <4>1
      <3>3. QED
        BY <1>1, <3>1, <3>2, EmptyFacts
    <2>8. Lists(Bare(d), <<>>, w)
      BY <1>1, <2>1, <2>6, <2>7, FreeLists
    <2>9. /\ \A x : In(x, w) <=> In(x, g) \/ x = e
          /\ Len(w) = Len(g) + 1 /\ Len(g) \in Nat
      BY <1>1, <2>1, <2>7, ConsMembers, ConsFacts, SeqFacts DEF Lists
    <2> HIDE DEF w
    <2>10. \A x : In(x, w) <=> In(x, f) \/ \E j \in 1 .. Len(u) : j <= n + 1 /\ u[j] = x
      <3>1. \A j \in 1 .. Len(u) : j <= n + 1 <=> j <= n \/ j = n + 1
        BY <1>3
      <3> HIDE DEF e
      <3>2. ASSUME NEW x
            PROVE  (\E j \in 1 .. Len(u) : j <= n + 1 /\ u[j] = x)
                     <=> (\E j \in 1 .. Len(u) : j <= n /\ u[j] = x) \/ x = e
        BY <2>1, <3>1 DEF e
      <3>3. QED
        BY <1>1, <2>9, <3>2
    <2>11. Len(w) = Len(f) + IF n + 1 < Len(u) THEN n + 1 ELSE Len(u)
      BY <1>1, <1>3, <1>5, <2>9
    <2>12. \A j \in 1 .. Len(u) : j > n + 1 =>
              d.next[u[j]] = IF j = Len(u) THEN null ELSE u[j + 1]
      <3>1. ASSUME NEW j \in 1 .. Len(u), j > n + 1 PROVE d.next[u[j]] = l.cache.next[u[j]]
        <4>1. u[j] # e /\ u[j] \in Element
          BY <1>3, <2>1, <3>1
        <4>2. QED
          BY <2>4, <4>1 DEF Freed
      <3>2. QED
        BY <1>2, <3>1
    <2>13. m.at = IF n + 1 < Len(u) THEN u[n + 1 + 1] ELSE null
      <3>1. l.cache.next[u[n + 1]] = IF n + 1 = Len(u) THEN null ELSE u[n + 1 + 1]
        BY <1>2, <2>1
      <3>2. QED
        BY <1>3, <1>5, <2>3, <3>1
    <2>14. QED
      BY <2>3, <2>5, <2>8, <2>10, <2>11, <2>12, <2>13 DEF Swept, m
  <1>6. QED
    BY <1>4, <1>5

LEMMA ClearGood ==
  ASSUME NEW u, NEW f, Good(cache, u, f), Clear
  PROVE  \E g : Good(cache', <<>>, g)
  <1> DEFINE t == [k \in Key |-> null]
             c == [cache EXCEPT !.table = t]
  <1>1. /\ cache \in Caches /\ Lists(cache, u, f) /\ Whole(cache, u, f) /\ Growth(cache)
        /\ u \in Seq(Element) /\ f \in Seq(Element)
        /\ Distinct(u) /\ \A e \in Element : ~(In(e, u) /\ In(e, f))
    BY DEF Good, Lists
  <1>2. t \in [Key -> Pointer]
    BY Pointers
  <1>3. cache' = Bare(FreeAll(c))
    BY DEF Clear, Bare
  <1> HIDE DEF t
  <1>4. /\ c \in Caches /\ SameLinks(c, cache) /\ SameBlocks(c, cache)
        /\ c.table = t /\ c.key = cache.key /\ c.value = cache.value
    BY <1>1, <1>2 DEF Caches, SameLinks, SameBlocks
  <1> HIDE DEF c
  <1>5. Lists(c, u, f)
    BY <1>1, <1>4, LinksDecide
  <1>6. PICK l : Sweep(l, c)
    BY <1>4, SweepExists
  <1> DEFINE Right == {n \in Nat : Swept(l[n], n, c, u, f)}
  <1>7. 0 \in Right
    BY <1>4, <1>5, <1>6, SweptFirst DEF Sweep
  <1>8. ASSUME NEW n \in 0 + 1 .. MaxElements, n - 1 \in Right PROVE n \in Right
    <2>1. n \in Nat \ {0} /\ n - 1 \in Nat /\ n - 1 + 1 = n
      BY Sizes
    <2>2. Swept(l[n - 1], n - 1, c, u, f)
      BY <1>8
    <2>3. Swept(SweepStep(l[n - 1]), n - 1 + 1, c, u, f)
      BY <1>1, <2>1, <2>2, SweptNext
    <2>4. l[n] = SweepStep(l[n - 1])
      BY <1>6, <2>1 DEF Sweep
    <2>5. QED
      BY <2>1, <2>3, <2>4
  <1>9. \A n \in 0 + 1 .. MaxElements : n - 1 \in Right => n \in Right
    BY <1>8
  <1> HIDE DEF Right
  <1>10. \A n \in 0 .. MaxElements : n \in Right
    BY <1>7, <1>9, UpTo, Sizes
  <1> DEFINE d == l[MaxElements].cache
  <1>11. Swept(l[MaxElements], MaxElements, c, u, f)
    BY <1>10, Sizes DEF Right
  <1>12. PICK g :
            /\ Lists(Bare(d), <<>>, g)
            /\ \A x : In(x, g) <=> In(x, f) \/ \E j \in 1 .. Len(u) : j <= MaxElements /\ u[j] = x
            /\ Len(g) = Len(f) + IF MaxElements < Len(u) THEN MaxElements ELSE Len(u)
    BY <1>11 DEF Swept
  <1>13. d \in Caches /\ SameRest(d, c)
    BY <1>11 DEF Swept
  <1>14. cache' = Bare(d)
    BY <1>3, <1>6 DEF Sweep
  <1> HIDE DEF d
  <1>15. /\ cache' \in Caches /\ SameBlocks(cache', cache) /\ cache'.table = t
    BY <1>4, <1>13, <1>14, BareFields DEF SameRest, SameBlocks
  <1>16. Len(u) \in Nat /\ Len(f) \in Nat /\ Len(u) <= MaxElements /\ Len(u) + Len(f) = cache.capacity
    BY <1>1, SeqFacts, CacheType, Sizes DEF Whole
  <1>17. \A x : In(x, g) <=> In(x, f) \/ In(x, u)
    <2>1. \A j \in 1 .. Len(u) : j <= MaxElements
      BY <1>16, Sizes
    <2>2. QED
      BY <1>12, <2>1 DEF In
  <1>18. Len(g) = Len(f) + Len(u)
    BY <1>12, <1>16, Sizes
  <1>19. Named(cache', <<>>)
    BY <1>15, EmptyFacts DEF Named, t
  <1>20. Whole(cache', <<>>, g)
    <2>1. cache'.capacity = cache.capacity
      BY <1>15 DEF SameBlocks
    <2>2. \A x \in Element : x <= cache'.capacity <=> In(x, <<>>) \/ In(x, g)
      BY <1>1, <1>17, <2>1, EmptyFacts DEF Whole
    <2>3. Len(<<>>) + Len(g) = cache'.capacity
      BY <1>16, <1>18, <2>1, EmptyFacts
    <2>4. QED
      BY <2>2, <2>3 DEF Whole
  <1>21. Growth(cache')
    BY <1>1, <1>15 DEF Growth, SameBlocks
  <1>22. QED
    BY <1>12, <1>14, <1>15, <1>19, <1>20, <1>21 DEF Good

-----------------------------------------------------------------------------
(* The invariant.                                                           *)

\* The element in use of a key.
LEMMA Known ==
  ASSUME NEW c, NEW u, NEW f, Good(c, u, f), NEW k \in Key, c.table[k] # null
  PROVE  \E i \in 1 .. Len(u) : u[i] = c.table[k] /\ Rest(c, u, k) = RemoveAt(u, i)
  BY Place DEF Good

LEMMA LookupGood ==
  ASSUME NEW u, NEW f, Good(cache, u, f), NEW k \in Key, MutableLookup(k)
  PROVE  /\ Good(cache', <<cache.table[k]>> \o Rest(cache, u, k), f)
         /\ SameNames(cache', cache)
  <1>1. cache.table[k] # null /\ cache' = PushLRUHead(cache, cache.table[k])
    BY DEF MutableLookup
  <1>2. PICK i \in 1 .. Len(u) : u[i] = cache.table[k] /\ Rest(cache, u, k) = RemoveAt(u, i)
    BY <1>1, Known
  <1>3. LET d == PushLRUHead(cache, u[i])
        IN  /\ Good(d, <<u[i]>> \o RemoveAt(u, i), f)
            /\ d.table = cache.table /\ d.key = cache.key /\ d.value = cache.value
    BY UseGood
  <1>4. QED
    BY <1>1, <1>2, <1>3 DEF SameNames

LEMMA EraseGood ==
  ASSUME NEW u, NEW f, Good(cache, u, f), NEW k \in Key, Erase(k)
  PROVE  /\ Good(cache', Rest(cache, u, k), <<cache.table[k]>> \o f)
         /\ cache'.key = cache.key /\ cache'.value = cache.value
  <1>1. cache.table[k] # null /\ cache' = Evict(cache, cache.table[k])
    BY DEF Erase
  <1>2. PICK i \in 1 .. Len(u) : u[i] = cache.table[k] /\ Rest(cache, u, k) = RemoveAt(u, i)
    BY <1>1, Known
  <1>3. /\ Good(Evict(cache, u[i]), RemoveAt(u, i), <<u[i]>> \o f)
        /\ Evicted(Evict(cache, u[i]), cache, u[i])
    BY EvictGood
  <1>4. QED
    BY <1>1, <1>2, <1>3 DEF Evicted

LEMMA InitGood ==
  ASSUME LruInit
  PROVE  Good(cache, <<>>, <<>>)
  <1> DEFINE t == [k \in Key |-> null]
             p == [e \in Element |-> null]
  <1>1. /\ t \in [Key -> Pointer] /\ p \in [Element -> Pointer]
        /\ p \in [Element -> Key \cup {null}] /\ p \in [Element -> Value \cup {null}]
        /\ \A k \in Key : t[k] = null
    BY Pointers
  <1>2. cache = [table |-> t, next |-> p, prev |-> p, key |-> p, value |-> p,
                 free |-> null, head |-> null, tail |-> null,
                 blocks |-> 0, capacity |-> 0, size |-> InitialBlock]
    BY DEF LruInit
  <1> HIDE DEF t, p
  <1>3. /\ cache \in Caches /\ cache.table = t
        /\ cache.free = null /\ cache.head = null /\ cache.tail = null
        /\ cache.blocks = 0 /\ cache.capacity = 0 /\ cache.size = InitialBlock
    BY <1>1, <1>2, Pointers, Sizes DEF Caches
  <1>4. Lists(cache, <<>>, <<>>)
    BY <1>3, EmptyFacts DEF Lists, Path
  <1>5. Named(cache, <<>>)
    BY <1>1, <1>3, EmptyFacts DEF Named
  <1>6. Whole(cache, <<>>, <<>>)
    BY <1>3, EmptyFacts, Sizes DEF Whole, Element
  <1>7. Growth(cache)
    BY <1>3, GrownSteps DEF Growth
  <1>8. QED
    BY <1>3, <1>4, <1>5, <1>6, <1>7 DEF Good

LEMMA LruStep ==
  ASSUME LruInv, [LruNext]_cache
  PROVE  LruInv'
  <1>1. PICK u \in Seq(Element), f \in Seq(Element) : Good(cache, u, f)
    BY DEF LruInv
  <1> SUFFICES \E w, g : Good(cache', w, g)
    <2>1. PICK w, g : Good(cache', w, g)
      OBVIOUS
    <2>2. w \in Seq(Element) /\ g \in Seq(Element)
      BY <2>1 DEF Good, Lists
    <2>3. Good(cache, w, g)' <=> Good(cache', w, g)
      BY DEF Good, Lists, Named, Whole, Growth, Path
    <2>4. QED
      BY <2>1, <2>2, <2>3 DEF LruInv
  <1>2. CASE UNCHANGED cache
    BY <1>1, <1>2
  <1>3. ASSUME NEW k \in Key, NEW v \in Value, Insert(k, v) PROVE \E w, g : Good(cache', w, g)
    BY <1>1, <1>3, InsertGood DEF Inserted
  <1>4. ASSUME NEW k \in Key, MutableLookup(k) PROVE \E w, g : Good(cache', w, g)
    BY <1>1, <1>4, LookupGood
  <1>5. ASSUME NEW k \in Key, Erase(k) PROVE \E w, g : Good(cache', w, g)
    BY <1>1, <1>5, EraseGood
  <1>6. CASE Clear
    BY <1>1, <1>6, ClearGood
  <1>7. QED
    BY <1>2, <1>3, <1>4, <1>5, <1>6 DEF LruNext

THEOREM LruInductive == LruSpec => []LruInv
  <1>1. LruInit => LruInv
    BY InitGood, EmptyFacts DEF LruInv
  <1>2. LruInv /\ [LruNext]_cache => LruInv'
    BY LruStep
  <1>3. QED
    BY <1>1, <1>2, PTL DEF LruSpec

WalkStep(l) ==
    IF l.at = null THEN l
    ELSE [at |-> cache.next[l.at], seen |-> l.seen \cup {l.at}]

\* The walk along a path meets its elements.
LEMMA ChainOf ==
  ASSUME NEW p, NEW s \in Seq(Element), Path(cache.next, p, s), Len(s) <= MaxElements
  PROVE  \A x : x \in Chain(p) <=> In(x, s)
  <1> DEFINE at(n) == IF n < Len(s) THEN s[n + 1] ELSE null
             seen(n) == {s[i] : i \in {j \in 1 .. Len(s) : j <= n}}
             g == [n \in Nat |-> [at |-> at(n), seen |-> seen(n)]]
             x0 == [at |-> p, seen |-> {}]
             Eq(f) == f = [n \in Nat |-> IF n = 0 THEN x0 ELSE WalkStep(f[n - 1])]
             walk == CHOOSE f : Eq(f)
  <1>1. Len(s) \in Nat /\ \A i \in 1 .. Len(s) : s[i] \in Element
    BY SeqFacts
  <1>2. at(0) = p /\ seen(0) = {}
    BY <1>1 DEF Path
  <1>3. ASSUME NEW n \in Nat \ {0}
        PROVE  [at |-> at(n), seen |-> seen(n)] = WalkStep([at |-> at(n - 1), seen |-> seen(n - 1)])
    <2>1. CASE n - 1 < Len(s)
      <3>1. n \in 1 .. Len(s) /\ n - 1 + 1 = n
        BY <1>1, <2>1
      <3>2. at(n - 1) = s[n]
        BY <2>1, <3>1
      <3>3. s[n] # null
        BY <1>1, <3>1, Pointers
      <3>4. at(n) = cache.next[s[n]]
        BY <1>1, <3>1 DEF Path
      <3>5. seen(n) = seen(n - 1) \cup {s[n]}
        <4>1. \A j \in 1 .. Len(s) : j <= n <=> j <= n - 1 \/ j = n
          BY <1>1
        <4>2. QED
          BY <3>1, <4>1
      <3> HIDE DEF at, seen
      <3>6. QED
        BY <3>2, <3>3, <3>4, <3>5 DEF WalkStep
    <2>2. CASE ~(n - 1 < Len(s))
      <3>1. at(n - 1) = null /\ at(n) = null
        BY <1>1, <2>2
      <3>2. seen(n) = seen(n - 1)
        <4>1. \A j \in 1 .. Len(s) : j <= n /\ j <= n - 1
          BY <1>1, <2>2
        <4>2. QED
          BY <4>1
      <3> HIDE DEF at, seen
      <3>3. QED
        BY <3>1, <3>2 DEF WalkStep
    <2>3. QED
      BY <2>1, <2>2
  <1> HIDE DEF at, seen
  <1>4. g[0] = x0 /\ \A n \in Nat \ {0} : g[n] = WalkStep(g[n - 1])
    <2>1. g[0] = x0
      BY <1>2
    <2>2. ASSUME NEW n \in Nat \ {0} PROVE g[n] = WalkStep(g[n - 1])
      <3>1. n \in Nat /\ n - 1 \in Nat
        OBVIOUS
      <3>2. g[n] = [at |-> at(n), seen |-> seen(n)]
            /\ g[n - 1] = [at |-> at(n - 1), seen |-> seen(n - 1)]
        BY <3>1
      <3> HIDE DEF g
      <3>3. QED
        BY <1>3, <3>2
    <2>3. QED
      BY <2>1, <2>2
  <1>5. Eq(g)
    <2> DEFINE h == [n \in Nat |-> IF n = 0 THEN x0 ELSE WalkStep(g[n - 1])]
    <2>1. \A n \in Nat : g[n] = h[n]
      <3> HIDE DEF g
      <3>1. QED
        BY <1>4
    <2>2. g = h
      <3> DEFINE v(n) == IF n = 0 THEN x0 ELSE WalkStep(g[n - 1])
                 y(n) == [at |-> at(n), seen |-> seen(n)]
      <3>1. \A n \in Nat : y(n) = v(n)
        BY <2>1
      <3> HIDE DEF v, y
      <3>2. [n \in Nat |-> y(n)] = [n \in Nat |-> v(n)]
        BY <3>1
      <3>3. QED
        BY <3>2 DEF v, y
    <2>3. QED
      BY <2>2
  <1>6. Chain(p) = walk[MaxElements].seen
    BY Zenon DEF Chain, WalkStep
  <1>7. Eq(walk)
    <2> HIDE DEF Eq, g
    <2>1. QED
      BY <1>5, Zenon
  <1> HIDE DEF walk
  <1>8. walk[0] = x0 /\ \A n \in Nat \ {0} : walk[n] = WalkStep(walk[n - 1])
    <2>1. ASSUME NEW n \in Nat PROVE walk[n] = IF n = 0 THEN x0 ELSE WalkStep(walk[n - 1])
      <3> HIDE DEF x0
      <3>1. QED
        BY <1>7, Zenon
    <2> HIDE DEF Eq, x0
    <2>2. QED
      BY <2>1
  <1> DEFINE Right == {n \in Nat : walk[n] = g[n]}
  <1> HIDE DEF g
  <1>9. 0 \in Right
    BY <1>4, <1>8
  <1>10. \A n \in 0 + 1 .. MaxElements : n - 1 \in Right => n \in Right
    <2>1. ASSUME NEW n \in 0 + 1 .. MaxElements, n - 1 \in Right PROVE n \in Right
      <3>1. n \in Nat \ {0}
        BY Sizes
      <3>2. walk[n] = g[n]
        BY <1>4, <1>8, <2>1, <3>1
      <3>3. QED
        BY <3>1, <3>2
    <2>2. QED
      BY <2>1
  <1> HIDE DEF Right
  <1>11. \A n \in 0 .. MaxElements : n \in Right
    BY <1>9, <1>10, UpTo, Sizes
  <1>12. walk[MaxElements] = g[MaxElements]
    BY <1>11, Sizes DEF Right
  <1>13. Chain(p) = seen(MaxElements)
    BY <1>6, <1>12, Sizes DEF g
  <1>14. \A j \in 1 .. Len(s) : j <= MaxElements
    BY <1>1, Sizes
  <1>15. QED
    BY <1>13, <1>14 DEF seen, In

LEMMA GoodChains ==
  ASSUME NEW u, NEW f, Good(cache, u, f)
  PROVE  /\ \A x : x \in Chain(cache.head) <=> In(x, u)
         /\ \A x : x \in Chain(cache.free) <=> In(x, f)
  <1>1. /\ u \in Seq(Element) /\ f \in Seq(Element)
        /\ Path(cache.next, cache.head, u) /\ Path(cache.next, cache.free, f)
    BY DEF Good, Lists
  <1>2. Len(u) <= MaxElements /\ Len(f) <= MaxElements
    <2>1. Len(u) + Len(f) = cache.capacity /\ cache.capacity \in 0 .. MaxElements
      BY CacheType DEF Good, Whole
    <2>2. Len(u) \in Nat /\ Len(f) \in Nat /\ MaxElements \in Nat
      BY <1>1, SeqFacts, Sizes
    <2>3. QED
      BY <2>1, <2>2
  <1>3. QED
    BY <1>1, <1>2, ChainOf

LEMMA GoodAgrees ==
  ASSUME NEW u, NEW f, Good(cache, u, f)
  PROVE  ListsAgree
  <1> DEFINE used == Chain(cache.head)
             free == Chain(cache.free)
  <1>1. (\A x : x \in used <=> In(x, u)) /\ (\A x : x \in free <=> In(x, f))
    BY GoodChains
  <1>2. /\ cache \in Caches /\ Lists(cache, u, f) /\ Named(cache, u) /\ Whole(cache, u, f)
        /\ u \in Seq(Element) /\ f \in Seq(Element)
    BY DEF Good, Lists
  <1>3. /\ Len(u) \in Nat /\ \A i \in 1 .. Len(u) : u[i] \in Element
        /\ Len(f) \in Nat /\ \A i \in 1 .. Len(f) : f[i] \in Element
        /\ \A i, j \in 1 .. Len(u) : u[i] = u[j] => i = j
    BY <1>2, SeqFacts DEF Lists, Distinct
  <1> HIDE DEF used, free
  <1>4. used \subseteq Element /\ free \subseteq Element
    BY <1>1, <1>3 DEF In
  <1>5. LruTypeOK
    BY <1>2 DEF LruTypeOK, Caches
  <1>6. used \cap free = {}
    BY <1>1, <1>2, <1>4 DEF Lists
  <1>7. used \cup free = 1 .. cache.capacity
    <2>1. \A x \in Element : x \in used \cup free <=> x <= cache.capacity
      BY <1>1, <1>2 DEF Whole
    <2>2. \A x : x \in 1 .. cache.capacity <=> x \in Element /\ x <= cache.capacity
      BY <1>2, CacheType, Sizes DEF Element
    <2>3. QED
      BY <1>4, <2>1, <2>2
  <1>8. \A k \in Key : cache.table[k] # null =>
              cache.table[k] \in used /\ cache.key[cache.table[k]] = k
    BY <1>1, <1>2 DEF Named
  <1>9. \A e \in used : cache.table[cache.key[e]] = e
    BY <1>1, <1>2 DEF Named, In
  <1>10. ASSUME NEW e \in used
         PROVE  /\ cache.next[e] = null <=> cache.tail = e
                /\ cache.next[e] # null => cache.prev[cache.next[e]] = e
    <2>1. PICK i \in 1 .. Len(u) : u[i] = e
      BY <1>1 DEF In
    <2>2. /\ cache.next[u[i]] = IF i = Len(u) THEN null ELSE u[i + 1]
          /\ cache.tail = u[Len(u)]
          /\ \A j \in 1 .. Len(u) : cache.prev[u[j]] = IF j = 1 THEN null ELSE u[j - 1]
      <3>1. Path(cache.next, cache.head, u) /\ Len(u) # 0
        BY <1>2, <1>3, <2>1 DEF Lists
      <3>2. cache.next[u[i]] = IF i = Len(u) THEN null ELSE u[i + 1]
        BY <2>1, <3>1 DEF Path
      <3>3. /\ cache.tail = u[Len(u)]
            /\ \A j \in 1 .. Len(u) : cache.prev[u[j]] = IF j = 1 THEN null ELSE u[j - 1]
        BY <1>2, <3>1 DEF Lists
      <3>4. QED
        BY <3>2, <3>3
    <2>3. CASE i = Len(u)
      BY <2>1, <2>2, <2>3
    <2>4. CASE i # Len(u)
      <3>1. i + 1 \in 1 .. Len(u) /\ i + 1 # 1 /\ i + 1 - 1 = i /\ Len(u) \in 1 .. Len(u)
        BY <1>3, <2>1, <2>4
      <3>2. u[i + 1] # null /\ cache.tail # e
        BY <1>3, <2>1, <2>2, <2>4, <3>1, Pointers
      <3>3. QED
        BY <2>1, <2>2, <2>4, <3>1, <3>2
    <2>5. QED
      BY <2>3, <2>4
  <1>11. cache.head # null => cache.prev[cache.head] = null
    BY <1>2, <1>3 DEF Lists, Path
  <1>12. \A e \in free : cache.prev[e] = null
    BY <1>1, <1>2 DEF Lists, In
  <1>13. QED
    BY <1>5, <1>6, <1>7, <1>8, <1>9, <1>10, <1>11, <1>12 DEF ListsAgree, used, free

THEOREM LruListsCorrect == LruSpec => []ListsAgree
  <1>1. LruInv => ListsAgree
    BY GoodAgrees DEF LruInv
  <1>2. QED
    BY <1>1, LruInductive, PTL

LEMMA FunctionSeq ==
  ASSUME NEW S, NEW n \in Nat, NEW f \in [1 .. n -> S]
  PROVE  f \in Seq(S) /\ Len(f) = n
  <1>1. f \in Seq(S)
    BY SeqDef
  <1>2. Len(f) \in Nat /\ DOMAIN f = 1 .. Len(f)
    BY <1>1, LenProperties
  <1>3. QED
    BY <1>1, <1>2

\* The keys of the elements s.
KeysOf(c, s) == [i \in 1 .. Len(s) |-> c.key[s[i]]]

LEMMA KeysFacts ==
  ASSUME NEW c, NEW s \in Seq(Element), \A i \in 1 .. Len(s) : c.key[s[i]] \in Key
  PROVE  /\ KeysOf(c, s) \in Seq(Key) /\ Len(KeysOf(c, s)) = Len(s)
         /\ \A i \in 1 .. Len(s) : KeysOf(c, s)[i] = c.key[s[i]]
  <1>1. Len(s) \in Nat
    BY SeqFacts
  <1>2. KeysOf(c, s) \in [1 .. Len(s) -> Key]
    BY DEF KeysOf
  <1>3. \A i \in 1 .. Len(s) : KeysOf(c, s)[i] = c.key[s[i]]
    BY DEF KeysOf
  <1>4. QED
    BY <1>1, <1>2, <1>3, FunctionSeq

OrderStep(c, l) ==
    IF l.at = null THEN l
    ELSE [at |-> c.next[l.at], keys |-> Append(l.keys, c.key[l.at])]

\* Order of the cache c.
OrderOf(c) ==
    LET Walk[n \in Nat] ==
          IF n = 0 THEN [at |-> c.head, keys |-> <<>>]
          ELSE LET l == Walk[n - 1]
               IN  IF l.at = null THEN l
                   ELSE [at |-> c.next[l.at], keys |-> Append(l.keys, c.key[l.at])]
    IN  Walk[MaxElements].keys

\* The walk along the LRU list collects its keys.
LEMMA OrderIsKeys ==
  ASSUME NEW c, NEW s \in Seq(Element), Path(c.next, c.head, s), Len(s) <= MaxElements,
         \A i \in 1 .. Len(s) : c.key[s[i]] \in Key
  PROVE  OrderOf(c) = KeysOf(c, s)
  <1> DEFINE at(n) == IF n < Len(s) THEN s[n + 1] ELSE null
             last(n) == IF n < Len(s) THEN n ELSE Len(s)
             keys(n) == [i \in 1 .. last(n) |-> c.key[s[i]]]
             y(n) == [at |-> at(n), keys |-> keys(n)]
             g == [n \in Nat |-> y(n)]
             x0 == [at |-> c.head, keys |-> <<>>]
             Eq(f) == f = [n \in Nat |-> IF n = 0 THEN x0 ELSE OrderStep(c, f[n - 1])]
             walk == CHOOSE f : Eq(f)
  <1>1. Len(s) \in Nat /\ \A i \in 1 .. Len(s) : s[i] \in Element
    BY SeqFacts
  <1>2. ASSUME NEW n \in Nat
        PROVE  /\ keys(n) \in Seq(Key) /\ Len(keys(n)) = last(n)
               /\ \A i \in 1 .. last(n) : keys(n)[i] = c.key[s[i]]
    <2>1. last(n) \in Nat /\ \A i \in 1 .. last(n) : i \in 1 .. Len(s)
      BY <1>1
    <2> HIDE DEF last
    <2>2. keys(n) \in [1 .. last(n) -> Key] /\ \A i \in 1 .. last(n) : keys(n)[i] = c.key[s[i]]
      BY <2>1
    <2> HIDE DEF keys
    <2>3. QED
      BY <2>1, <2>2, FunctionSeq
  <1> HIDE DEF keys
  <1>3. at(0) = c.head /\ keys(0) = <<>>
    <2>1. at(0) = c.head
      BY <1>1 DEF Path
    <2>2. Len(keys(0)) = 0 /\ keys(0) \in Seq(Key)
      BY <1>1, <1>2
    <2>3. keys(0) = <<>>
      BY <2>2, EmptySeq
    <2>4. QED
      BY <2>1, <2>3
  <1>4. ASSUME NEW n \in Nat \ {0}
        PROVE  y(n) = OrderStep(c, y(n - 1))
    <2>0. n \in Nat /\ n - 1 \in Nat
      OBVIOUS
    <2>1. CASE n - 1 < Len(s)
      <3>1. n \in 1 .. Len(s) /\ n - 1 + 1 = n /\ last(n) = n /\ last(n - 1) = n - 1
        BY <1>1, <2>1
      <3>2. at(n - 1) = s[n]
        BY <2>1, <3>1
      <3>3. s[n] # null
        BY <1>1, <3>1, Pointers
      <3>4. at(n) = c.next[s[n]]
        BY <1>1, <3>1 DEF Path
      <3> HIDE DEF last
      <3>5. keys(n) = Append(keys(n - 1), c.key[s[n]])
        <4> DEFINE a == keys(n - 1)
                   k == c.key[s[n]]
                   z == keys(n)
        <4>1. /\ a \in Seq(Key) /\ Len(a) = n - 1 /\ k \in Key
              /\ \A i \in 1 .. n - 1 : a[i] = c.key[s[i]]
          BY <1>2, <2>0, <3>1
        <4>2. /\ z \in Seq(Key) /\ Len(z) = n
              /\ \A i \in 1 .. n : z[i] = c.key[s[i]]
          BY <1>2, <2>0, <3>1
        <4> HIDE DEF a, z
        <4>3. /\ Append(a, k) \in Seq(Key) /\ Len(Append(a, k)) = Len(a) + 1
              /\ \A i \in 1 .. Len(a) : Append(a, k)[i] = a[i]
              /\ Append(a, k)[Len(a) + 1] = k
          BY <4>1, AppendProperties
        <4>4. ASSUME NEW i \in 1 .. n PROVE z[i] = Append(a, k)[i]
          <5>1. CASE i = n
            BY <4>1, <4>2, <4>3, <5>1
          <5>2. CASE i # n
            <6>1. i \in 1 .. n - 1
              BY <5>2
            <6>2. QED
              BY <4>1, <4>2, <4>3, <6>1
          <5>3. QED
            BY <5>1, <5>2
        <4> HIDE DEF k
        <4>5. Len(Append(a, k)) = n
          BY <4>1, <4>3
        <4>6. z = Append(a, k)
          BY <4>2, <4>3, <4>4, <4>5, SeqEqual
        <4>7. QED
          BY <4>6 DEF a, k, z
      <3> HIDE DEF at
      <3>6. QED
        BY <3>2, <3>3, <3>4, <3>5 DEF OrderStep
    <2>2. CASE ~(n - 1 < Len(s))
      <3>1. at(n - 1) = null /\ at(n) = null
        BY <1>1, <2>2
      <3>2. last(n) = last(n - 1)
        BY <1>1, <2>2
      <3>3. keys(n) = keys(n - 1)
        <4> HIDE DEF last
        <4>1. QED
          BY <3>2 DEF keys
      <3> HIDE DEF at
      <3>4. QED
        BY <3>1, <3>3 DEF OrderStep
    <2>3. QED
      BY <2>1, <2>2
  <1>5. y(0) = x0
    <2> HIDE DEF at
    <2>1. QED
      BY <1>3
  <1> HIDE DEF y
  <1>6. g[0] = x0 /\ \A n \in Nat \ {0} : g[n] = OrderStep(c, g[n - 1])
    <2>1. \A n \in Nat : g[n] = y(n)
      OBVIOUS
    <2> HIDE DEF g, x0
    <2>2. ASSUME NEW n \in Nat \ {0} PROVE g[n] = OrderStep(c, g[n - 1])
      <3>1. n \in Nat /\ n - 1 \in Nat
        OBVIOUS
      <3>2. g[n] = y(n) /\ g[n - 1] = y(n - 1)
        BY <2>1, <3>1
      <3>3. QED
        BY <1>4, <3>2
    <2>3. QED
      BY <1>5, <2>1, <2>2
  <1>7. Eq(g)
    <2> DEFINE v(n) == IF n = 0 THEN x0 ELSE OrderStep(c, g[n - 1])
    <2>1. \A n \in Nat : y(n) = v(n)
      <3>1. \A n \in Nat : y(n) = g[n]
        OBVIOUS
      <3> HIDE DEF g
      <3>2. QED
        BY <1>6, <3>1
    <2> HIDE DEF v
    <2>2. [n \in Nat |-> y(n)] = [n \in Nat |-> v(n)]
      BY <2>1
    <2>3. QED
      BY <2>2 DEF v
  <1>8. OrderOf(c) = walk[MaxElements].keys
    BY Zenon DEF OrderOf, OrderStep
  <1>9. Eq(walk)
    <2> HIDE DEF Eq, g
    <2>1. QED
      BY <1>7, Zenon
  <1> HIDE DEF walk
  <1>10. walk[0] = x0 /\ \A n \in Nat \ {0} : walk[n] = OrderStep(c, walk[n - 1])
    <2>1. ASSUME NEW n \in Nat PROVE walk[n] = IF n = 0 THEN x0 ELSE OrderStep(c, walk[n - 1])
      <3> HIDE DEF x0
      <3>1. QED
        BY <1>9, Zenon
    <2> HIDE DEF Eq, x0
    <2>2. QED
      BY <2>1
  <1> DEFINE Right == {n \in Nat : walk[n] = g[n]}
  <1> HIDE DEF g
  <1>11. 0 \in Right
    BY <1>6, <1>10
  <1>12. \A n \in 0 + 1 .. MaxElements : n - 1 \in Right => n \in Right
    <2>1. ASSUME NEW n \in 0 + 1 .. MaxElements, n - 1 \in Right PROVE n \in Right
      <3>1. n \in Nat \ {0}
        BY Sizes
      <3>2. walk[n] = g[n]
        BY <1>6, <1>10, <2>1, <3>1
      <3>3. QED
        BY <3>1, <3>2
    <2>2. QED
      BY <2>1
  <1> HIDE DEF Right
  <1>13. \A n \in 0 .. MaxElements : n \in Right
    BY <1>11, <1>12, UpTo, Sizes
  <1>14. walk[MaxElements] = g[MaxElements]
    BY <1>13, Sizes DEF Right
  <1>15. OrderOf(c) = keys(MaxElements)
    BY <1>8, <1>14, Sizes DEF g, y
  <1>16. last(MaxElements) = Len(s)
    BY <1>1, Sizes
  <1>17. QED
    <2> HIDE DEF last
    <2>1. QED
      BY <1>15, <1>16 DEF keys, KeysOf

LEMMA GoodOrder ==
  ASSUME NEW c, NEW u, NEW f, Good(c, u, f)
  PROVE  OrderOf(c) = KeysOf(c, u)
  <1>1. u \in Seq(Element) /\ f \in Seq(Element) /\ Path(c.next, c.head, u)
    BY DEF Good, Lists
  <1>2. Len(u) <= MaxElements
    <2>1. Len(u) + Len(f) = c.capacity /\ c.capacity \in 0 .. MaxElements
      BY CacheType DEF Good, Whole
    <2>2. Len(u) \in Nat /\ Len(f) \in Nat /\ MaxElements \in Nat
      BY <1>1, SeqFacts, Sizes
    <2>3. QED
      BY <2>1, <2>2
  <1>3. \A i \in 1 .. Len(u) : c.key[u[i]] \in Key
    BY DEF Good, Named
  <1>4. QED
    BY <1>1, <1>2, <1>3, OrderIsKeys

LEMMA OrderHere == Order = OrderOf(cache) /\ Order' = OrderOf(cache')
  BY Zenon DEF Order, OrderOf

\* What the abstract cache holds.
ValuesOf(c) == [k \in {x \in Key : c.table[x] # null} |-> c.value[c.table[k]]]

OthersIn(o, k) ==
    IF k \in ToSet(o) THEN RemoveAt(o, CHOOSE i \in DOMAIN o : o[i] = k) ELSE o
KeptIn(o) == IF Len(o) = Room THEN Front(o) ELSE o
ValuesWith(o, values, k, v) ==
    [x \in ToSet(o) \cup {k} |-> IF x = k THEN v ELSE values[x]]
ValuesWithout(o, values, k) == [x \in ToSet(o) \ {k} |-> values[x]]

LEMMA AbstractInsert ==
  ASSUME NEW k, NEW v,
         Order' = <<k>> \o KeptIn(OthersIn(Order, k)),
         ValuesOf(cache') = ValuesWith(KeptIn(OthersIn(Order, k)), ValuesOf(cache), k, v)
  PROVE  Abstract!Insert(k, v)
  BY Zenon DEF Abstract!Insert, Abstract!Others, Abstract!ToSet, Abstract!RemoveAt,
     Abstract!Front, ToSet, RemoveAt, Front, OthersIn, KeptIn, ValuesOf, ValuesWith

LEMMA AbstractLookup ==
  ASSUME NEW k, k \in ToSet(Order), Order' = <<k>> \o OthersIn(Order, k),
         ValuesOf(cache') = ValuesOf(cache)
  PROVE  Abstract!MutableLookup(k)
  <1>1. Abstract!ToSet(Order) = ToSet(Order)
    BY Zenon DEF Abstract!ToSet, ToSet
  <1>2. Abstract!Others(k) = OthersIn(Order, k)
    BY Zenon DEF Abstract!Others, Abstract!ToSet, Abstract!RemoveAt, ToSet, RemoveAt, OthersIn
  <1>3. Order' = IF k \in Abstract!ToSet(Order) THEN <<k>> \o Abstract!Others(k) ELSE Order
    BY <1>1, <1>2
  <1>4. UNCHANGED ValuesOf(cache)
    BY Zenon DEF ValuesOf
  <1>5. QED
    BY <1>3, <1>4, Zenon DEF Abstract!MutableLookup, ValuesOf

LEMMA AbstractErase ==
  ASSUME NEW k, Order' = OthersIn(Order, k),
         ValuesOf(cache') = ValuesWithout(Order, ValuesOf(cache), k)
  PROVE  Abstract!Erase(k)
  BY Zenon DEF Abstract!Erase, Abstract!Others, Abstract!ToSet,
     Abstract!RemoveAt, ToSet, RemoveAt, OthersIn, ValuesOf, ValuesWithout

LEMMA AbstractClear ==
  ASSUME Order' = <<>>, ValuesOf(cache') = <<>>
  PROVE  Abstract!Clear
  BY Zenon DEF Abstract!Clear, ValuesOf

LEMMA AbstractInit ==
  ASSUME Order = <<>>, ValuesOf(cache) = <<>>
  PROVE  Abstract!Init
  BY Zenon DEF Abstract!Init, ValuesOf

Keyed(c, s) == \A i \in 1 .. Len(s) : c.key[s[i]] \in Key

LEMMA KeysRemove ==
  ASSUME NEW c, NEW s \in Seq(Element), Keyed(c, s), NEW i \in 1 .. Len(s)
  PROVE  KeysOf(c, RemoveAt(s, i)) = RemoveAt(KeysOf(c, s), i)
  <1> DEFINE r == RemoveAt(s, i)
             o == KeysOf(c, s)
  <1>1. /\ r \in Seq(Element) /\ Len(r) = Len(s) - 1 /\ Len(s) \in Nat
        /\ \A j \in 1 .. Len(s) - 1 : r[j] = IF j < i THEN s[j] ELSE s[j + 1]
    BY RemoveAtFacts, SeqFacts
  <1>2. /\ o \in Seq(Key) /\ Len(o) = Len(s) /\ \A j \in 1 .. Len(s) : o[j] = c.key[s[j]]
    BY KeysFacts DEF Keyed
  <1> HIDE DEF o, r
  <1> DEFINE q == RemoveAt(o, i)
             p == KeysOf(c, r)
  <1>3. /\ q \in Seq(Key) /\ Len(q) = Len(s) - 1
        /\ \A j \in 1 .. Len(s) - 1 : q[j] = IF j < i THEN o[j] ELSE o[j + 1]
    BY <1>2, RemoveAtFacts
  <1>4. Keyed(c, r)
    <2>1. ASSUME NEW j \in 1 .. Len(r) PROVE \E m \in 1 .. Len(s) : r[j] = s[m]
      <3>1. j \in 1 .. Len(s) /\ j + 1 \in 1 .. Len(s) /\ r[j] \in {s[j], s[j + 1]}
        BY <1>1
      <3>2. QED
        BY <3>1
    <2>2. QED
      BY <2>1 DEF Keyed
  <1>5. /\ p \in Seq(Key) /\ Len(p) = Len(s) - 1
        /\ \A j \in 1 .. Len(s) - 1 : p[j] = c.key[r[j]]
    <2>1. \A j \in 1 .. Len(r) : c.key[r[j]] \in Key
      BY <1>4 DEF Keyed
    <2>2. /\ p \in Seq(Key) /\ Len(p) = Len(r)
          /\ \A j \in 1 .. Len(r) : p[j] = c.key[r[j]]
      BY <1>1, <2>1, KeysFacts
    <2>3. QED
      BY <1>1, <2>2
  <1> HIDE DEF p, q
  <1>6. ASSUME NEW j \in 1 .. Len(s) - 1 PROVE p[j] = q[j]
    <2>1. j \in 1 .. Len(s) /\ j + 1 \in 1 .. Len(s)
      BY <1>1
    <2>2. CASE j < i
      <3>1. r[j] = s[j]
        BY <1>1, <2>2
      <3>2. q[j] = o[j]
        BY <1>3, <2>2
      <3>3. p[j] = c.key[r[j]]
        BY <1>5
      <3>4. o[j] = c.key[s[j]]
        BY <1>2, <2>1
      <3>5. QED
        BY <3>1, <3>2, <3>3, <3>4
    <2>3. CASE ~(j < i)
      <3>1. r[j] = s[j + 1]
        BY <1>1, <2>3
      <3>2. q[j] = o[j + 1]
        BY <1>3, <2>3
      <3>3. p[j] = c.key[r[j]]
        BY <1>5
      <3>4. o[j + 1] = c.key[s[j + 1]]
        BY <1>2, <2>1
      <3>5. QED
        BY <3>1, <3>2, <3>3, <3>4
    <2>4. QED
      BY <2>2, <2>3
  <1>7. p = q
    BY <1>3, <1>5, <1>6, SeqEqual
  <1>8. QED
    BY <1>7 DEF p, q, o, r

LEMMA KeysCons ==
  ASSUME NEW c, NEW s \in Seq(Element), Keyed(c, s), NEW e \in Element, c.key[e] \in Key
  PROVE  KeysOf(c, <<e>> \o s) = <<c.key[e]>> \o KeysOf(c, s)
  <1> DEFINE r == <<e>> \o s
             o == KeysOf(c, s)
             k == c.key[e]
  <1>1. /\ r \in Seq(Element) /\ Len(r) = Len(s) + 1 /\ Len(s) \in Nat
        /\ \A j \in 1 .. Len(s) + 1 : r[j] = IF j = 1 THEN e ELSE s[j - 1]
    BY ConsFacts, SeqFacts
  <1>2. /\ o \in Seq(Key) /\ Len(o) = Len(s) /\ \A j \in 1 .. Len(s) : o[j] = c.key[s[j]]
    BY KeysFacts DEF Keyed
  <1> HIDE DEF o, r
  <1> DEFINE q == <<k>> \o o
             p == KeysOf(c, r)
  <1>3. /\ q \in Seq(Key) /\ Len(q) = Len(s) + 1
        /\ \A j \in 1 .. Len(s) + 1 : q[j] = IF j = 1 THEN k ELSE o[j - 1]
    BY <1>2, ConsFacts
  <1>4. Keyed(c, r)
    <2>1. ASSUME NEW j \in 1 .. Len(r), j # 1 PROVE r[j] = s[j - 1] /\ j - 1 \in 1 .. Len(s)
      BY <1>1, <2>1
    <2>2. r[1] = e
      BY <1>1
    <2>3. QED
      BY <2>1, <2>2 DEF Keyed
  <1>5. /\ p \in Seq(Key) /\ Len(p) = Len(s) + 1
        /\ \A j \in 1 .. Len(s) + 1 : p[j] = c.key[r[j]]
    <2>1. \A j \in 1 .. Len(r) : c.key[r[j]] \in Key
      BY <1>4 DEF Keyed
    <2>2. /\ p \in Seq(Key) /\ Len(p) = Len(r)
          /\ \A j \in 1 .. Len(r) : p[j] = c.key[r[j]]
      BY <1>1, <2>1, KeysFacts
    <2>3. QED
      BY <1>1, <2>2
  <1> HIDE DEF p, q
  <1>6. ASSUME NEW j \in 1 .. Len(s) + 1 PROVE p[j] = q[j]
    <2>1. CASE j = 1
      BY <1>1, <1>3, <1>5, <2>1
    <2>2. CASE j # 1
      <3>1. j - 1 \in 1 .. Len(s)
        BY <1>1, <2>2
      <3>2. r[j] = s[j - 1] /\ q[j] = o[j - 1] /\ p[j] = c.key[r[j]]
        BY <1>1, <1>3, <1>5, <2>2
      <3>3. QED
        BY <1>2, <3>1, <3>2
    <2>3. QED
      BY <2>1, <2>2
  <1>7. p = q
    BY <1>3, <1>5, <1>6, SeqEqual
  <1>8. QED
    BY <1>7 DEF p, q, o, r

\* The keys of the elements in use are those that the table holds.
LEMMA NamesHeld ==
  ASSUME NEW c, NEW u, NEW f, Good(c, u, f)
  PROVE  /\ u \in Seq(Element) /\ Keyed(c, u)
         /\ \A x : x \in ToSet(KeysOf(c, u)) <=> x \in Key /\ c.table[x] # null
         /\ \A x : x \in ToSet(KeysOf(c, u)) <=> \E i \in 1 .. Len(u) : c.key[u[i]] = x
         /\ \A i \in 1 .. Len(u) : c.table[c.key[u[i]]] = u[i]
  <1>1. u \in Seq(Element) /\ Named(c, u)
    BY DEF Good, Lists
  <1>2. Keyed(c, u) /\ \A i \in 1 .. Len(u) : c.table[c.key[u[i]]] = u[i] /\ u[i] # null
    BY <1>1, SeqFacts, Pointers DEF Named, Keyed
  <1> DEFINE o == KeysOf(c, u)
  <1>3. /\ o \in Seq(Key) /\ Len(o) = Len(u) /\ \A i \in 1 .. Len(u) : o[i] = c.key[u[i]]
    BY <1>1, <1>2, KeysFacts DEF Keyed
  <1> HIDE DEF o
  <1>4. DOMAIN o = 1 .. Len(u)
    BY <1>3, LenProperties
  <1>5. \A x : x \in ToSet(o) <=> \E i \in 1 .. Len(u) : c.key[u[i]] = x
    BY <1>3, <1>4 DEF ToSet
  <1>6. ASSUME NEW x, x \in ToSet(o) PROVE x \in Key /\ c.table[x] # null
    BY <1>2, <1>5, <1>6 DEF Keyed
  <1>7. ASSUME NEW x \in Key, c.table[x] # null PROVE x \in ToSet(o)
    <2>1. In(c.table[x], u) /\ c.key[c.table[x]] = x
      BY <1>1, <1>7 DEF Named
    <2>2. QED
      BY <1>5, <2>1 DEF In
  <1>8. QED
    BY <1>1, <1>2, <1>5, <1>6, <1>7 DEF o

LEMMA RestKeys ==
  ASSUME NEW c, NEW u, NEW f, Good(c, u, f), NEW k \in Key
  PROVE  /\ KeysOf(c, Rest(c, u, k)) = OthersIn(KeysOf(c, u), k)
         /\ Rest(c, u, k) \in Seq(Element) /\ Distinct(Rest(c, u, k))
         /\ \A x : In(x, Rest(c, u, k)) <=> In(x, u) /\ x # c.table[k]
  <1> DEFINE o == KeysOf(c, u)
  <1>1. u \in Seq(Element) /\ Distinct(u) /\ Named(c, u) /\ Keyed(c, u)
    BY NamesHeld DEF Good, Lists
  <1>2. CASE c.table[k] = null
    <2>1. Rest(c, u, k) = u
      BY <1>2 DEF Rest
    <2>2. k \notin ToSet(o)
      BY <1>2, NamesHeld
    <2>3. \A x : In(x, u) => x # c.table[k]
      BY <1>1, <1>2, SeqFacts, Pointers DEF In
    <2>4. QED
      BY <1>1, <2>1, <2>2, <2>3 DEF OthersIn
  <1>3. CASE c.table[k] # null
    <2>1. PICK i \in 1 .. Len(u) : u[i] = c.table[k] /\ Rest(c, u, k) = RemoveAt(u, i)
      BY <1>3, Known
    <2>2. c.key[u[i]] = k
      BY <1>1, <1>3, <2>1 DEF Named
    <2>3. /\ o \in Seq(Key) /\ Len(o) = Len(u) /\ \A j \in 1 .. Len(u) : o[j] = c.key[u[j]]
      BY <1>1, KeysFacts DEF Keyed
    <2>4. DOMAIN o = 1 .. Len(u)
      BY <2>3, LenProperties
    <2>5. k \in ToSet(o)
      BY <1>3, NamesHeld
    <2>6. ASSUME NEW j \in DOMAIN o, o[j] = k PROVE j = i
      <3>1. j \in 1 .. Len(u) /\ c.key[u[j]] = k
        BY <2>3, <2>4, <2>6
      <3>2. u[j] = u[i]
        BY <2>1, <3>1, NamesHeld
      <3>3. QED
        BY <1>1, <3>1, <3>2 DEF Distinct
    <2>7. o[i] = k
      BY <2>2, <2>3
    <2>8. (CHOOSE j \in DOMAIN o : o[j] = k) = i
      <3> HIDE DEF o
      <3>1. QED
        BY <2>4, <2>6, <2>7
    <2>9. OthersIn(o, k) = RemoveAt(o, i)
      <3> HIDE DEF o
      <3>1. QED
        BY <2>5, <2>8 DEF OthersIn
    <2>10. KeysOf(c, Rest(c, u, k)) = OthersIn(o, k)
      BY <1>1, <2>1, <2>9, KeysRemove
    <2>11. /\ RemoveAt(u, i) \in Seq(Element) /\ Distinct(RemoveAt(u, i))
           /\ \A x : In(x, RemoveAt(u, i)) <=> In(x, u) /\ x # u[i]
      BY <1>1, RemoveAtFacts, RemoveMembers
    <2>12. QED
      BY <2>1, <2>10, <2>11
  <1>4. QED
    BY <1>2, <1>3

LEMMA KeptKeys ==
  ASSUME NEW c, NEW s \in Seq(Element), Keyed(c, s), Distinct(s)
  PROVE  /\ KeysOf(c, Kept(s)) = KeptIn(KeysOf(c, s))
         /\ Kept(s) \in Seq(Element) /\ Keyed(c, Kept(s)) /\ \A x : In(x, Kept(s)) => In(x, s)
  <1> DEFINE o == KeysOf(c, s)
             n == Len(s)
  <1>1. o \in Seq(Key) /\ Len(o) = n /\ n \in Nat
    BY KeysFacts, SeqFacts DEF Keyed
  <1>2. CASE n # Room
    <2>1. Kept(s) = s /\ KeptIn(o) = o
      BY <1>1, <1>2 DEF Kept, KeptIn
    <2>2. QED
      BY <2>1
  <1>3. CASE n = Room
    <2>1. n \in 1 .. n
      BY <1>1, <1>3, RoomFacts
    <2>2. Kept(s) = RemoveAt(s, n) /\ KeptIn(o) = Front(o)
      BY <1>1, <1>3 DEF Kept, KeptIn
    <2>3. KeysOf(c, RemoveAt(s, n)) = RemoveAt(o, n)
      BY <2>1, KeysRemove
    <2> HIDE DEF o
    <2>4. Front(o) = RemoveAt(o, n)
      <3> DEFINE a == SubSeq(o, 1, n - 1)
                 b == SubSeq(o, n + 1, n)
      <3>1. \A j \in 1 .. n - 1 : o[j] \in Key
        BY <1>1, ElementOfSeq
      <3>2. a \in Seq(Key)
        BY <1>1, <3>1, SubSeqProperties
      <3>3. b = <<>>
        BY <1>1, SubSeqEmpty
      <3>4. a \o b = a
        BY <3>2, <3>3, ConcatEmptySeq
      <3> HIDE DEF n
      <3>5. QED
        BY <1>1, <3>4 DEF Front, RemoveAt
    <2>5. /\ RemoveAt(s, n) \in Seq(Element)
          /\ \A x : In(x, RemoveAt(s, n)) => In(x, s)
      BY <2>1, RemoveAtFacts, RemoveMembers
    <2>6. Keyed(c, RemoveAt(s, n))
      <3>1. ASSUME NEW j \in 1 .. Len(RemoveAt(s, n)) PROVE c.key[RemoveAt(s, n)[j]] \in Key
        <4>1. In(RemoveAt(s, n)[j], s)
          BY <2>5 DEF In
        <4>2. QED
          BY <4>1 DEF In, Keyed
      <3>2. QED
        BY <3>1 DEF Keyed
    <2>7. QED
      BY <2>2, <2>3, <2>4, <2>5, <2>6 DEF o
  <1>4. QED
    BY <1>2, <1>3

\* What the steps do to the keys and the values, as the abstract cache has them.
LEMMA InsertedAbstractly ==
  ASSUME NEW c, NEW d, NEW u, NEW f, Good(c, u, f), NEW k \in Key, NEW v \in Value,
         Inserted(d, c, Kept(Rest(c, u, k)), k, v)
  PROVE  /\ OrderOf(d) = <<k>> \o KeptIn(OthersIn(OrderOf(c), k))
         /\ ValuesOf(d) = ValuesWith(KeptIn(OthersIn(OrderOf(c), k)), ValuesOf(c), k, v)
  <1> DEFINE r == Rest(c, u, k)
             w == Kept(r)
             o == KeysOf(c, w)
  <1>1. c \in Caches /\ u \in Seq(Element) /\ Keyed(c, u)
    BY NamesHeld DEF Good
  <1>2. /\ KeysOf(c, r) = OthersIn(OrderOf(c), k)
        /\ r \in Seq(Element) /\ Distinct(r) /\ \A x : In(x, r) => In(x, u) /\ x # c.table[k]
    BY RestKeys, GoodOrder
  <1> HIDE DEF r
  <1>3. Keyed(c, r)
    <2>1. ASSUME NEW j \in 1 .. Len(r) PROVE c.key[r[j]] \in Key
      <3>1. In(r[j], u)
        BY <1>2 DEF In
      <3>2. QED
        BY <1>1, <3>1 DEF In, Keyed
    <2>2. QED
      BY <2>1 DEF Keyed
  <1>4. /\ o = KeptIn(OthersIn(OrderOf(c), k))
        /\ w \in Seq(Element) /\ Keyed(c, w) /\ \A x : In(x, w) => In(x, r)
    BY <1>2, <1>3, KeptKeys
  <1> HIDE DEF w
  <1>5. PICK e \in Element :
           \E g : /\ Good(d, <<e>> \o w, g) /\ ~In(e, w)
                  /\ d.key = [c.key EXCEPT ![e] = k] /\ d.value = [c.value EXCEPT ![e] = v]
    BY DEF Inserted, w, r
  <1>6. /\ d.key[e] = k /\ d.value[e] = v
        /\ \A x \in Element : x # e => d.key[x] = c.key[x] /\ d.value[x] = c.value[x]
    BY <1>1, <1>5, CacheType
  <1>7. /\ Len(w) \in Nat
        /\ \A j \in 1 .. Len(w) :
              w[j] \in Element /\ w[j] # e /\ In(w[j], u) /\ w[j] # c.table[k]
    <2>1. \A j \in 1 .. Len(w) : In(w[j], w)
      BY DEF In
    <2>2. Len(w) \in Nat /\ \A j \in 1 .. Len(w) : w[j] \in Element
      BY <1>4, SeqFacts
    <2>3. \A j \in 1 .. Len(w) : w[j] # e
      BY <1>5 DEF In
    <2>4. QED
      BY <1>2, <1>4, <2>1, <2>2, <2>3
  <1>8. \A j \in 1 .. Len(w) : d.key[w[j]] = c.key[w[j]] /\ d.value[w[j]] = c.value[w[j]]
    BY <1>6, <1>7
  <1>9. KeysOf(d, w) = o /\ Keyed(d, w)
    BY <1>4, <1>8 DEF KeysOf, Keyed
  <1>10. OrderOf(d) = <<k>> \o o
    <2>1. OrderOf(d) = KeysOf(d, <<e>> \o w)
      BY <1>5, GoodOrder
    <2>2. KeysOf(d, <<e>> \o w) = <<d.key[e]>> \o KeysOf(d, w)
      BY <1>4, <1>6, <1>9, KeysCons
    <2>3. QED
      BY <1>6, <1>9, <2>1, <2>2
  <1>11. /\ o \in Seq(Key) /\ Len(o) = Len(w)
         /\ \A j \in 1 .. Len(w) : o[j] = c.key[w[j]]
    BY <1>4, KeysFacts DEF Keyed
  <1> HIDE DEF o
  <1>12. \A x : x \in ToSet(o) <=> \E j \in 1 .. Len(w) : c.key[w[j]] = x
    <2>1. DOMAIN o = 1 .. Len(w)
      BY <1>11, LenProperties
    <2>2. QED
      BY <1>11, <2>1 DEF ToSet
  <1> DEFINE s == <<e>> \o w
  <1>13. /\ Len(s) = Len(w) + 1 /\ \A j \in 1 .. Len(w) + 1 : s[j] = IF j = 1 THEN e ELSE w[j - 1]
    BY <1>4, ConsFacts
  <1> HIDE DEF s
  <1>13a. PICK g : Good(d, s, g)
    BY <1>5 DEF s
  <1>14. /\ d.table[k] = e
         /\ \A j \in 1 .. Len(w) : d.table[c.key[w[j]]] = w[j] /\ c.table[c.key[w[j]]] = w[j]
    <2>1. \A i \in 1 .. Len(s) : d.table[d.key[s[i]]] = s[i]
      BY <1>13a, NamesHeld
    <2>2. d.table[k] = e
      <3>1. 1 \in 1 .. Len(s) /\ s[1] = e
        BY <1>7, <1>13
      <3>2. QED
        BY <1>6, <2>1, <3>1
    <2>3. ASSUME NEW j \in 1 .. Len(w)
          PROVE  d.table[c.key[w[j]]] = w[j] /\ c.table[c.key[w[j]]] = w[j]
      <3>1. j + 1 \in 1 .. Len(s) /\ s[j + 1] = w[j]
        BY <1>7, <1>13
      <3>2. d.table[d.key[w[j]]] = w[j]
        BY <2>1, <3>1
      <3>3. PICK i \in 1 .. Len(u) : u[i] = w[j]
        BY <1>7 DEF In
      <3>4. c.table[c.key[w[j]]] = w[j]
        BY <3>3, NamesHeld
      <3>5. QED
        BY <1>8, <3>2, <3>4
    <2>4. QED
      BY <2>2, <2>3
  <1>15. \A x : x \in Key /\ d.table[x] # null <=> x \in ToSet(o) \cup {k}
    <2>1. \A x : x \in Key /\ d.table[x] # null <=> \E i \in 1 .. Len(s) : d.key[s[i]] = x
      <3>1. /\ \A x : x \in ToSet(KeysOf(d, s)) <=> x \in Key /\ d.table[x] # null
            /\ \A x : x \in ToSet(KeysOf(d, s)) <=> \E i \in 1 .. Len(s) : d.key[s[i]] = x
        BY <1>13a, NamesHeld
      <3>2. QED
        BY <3>1
    <2>2. ASSUME NEW x, NEW i \in 1 .. Len(s), d.key[s[i]] = x PROVE x \in ToSet(o) \cup {k}
      <3>1. CASE i = 1
        BY <1>6, <1>7, <1>13, <2>2, <3>1
      <3>2. CASE i # 1
        <4>1. i - 1 \in 1 .. Len(w) /\ s[i] = w[i - 1]
          BY <1>7, <1>13, <3>2
        <4>2. QED
          BY <1>8, <1>12, <2>2, <4>1
      <3>3. QED
        BY <3>1, <3>2
    <2>3. ASSUME NEW x \in ToSet(o) PROVE x \in Key /\ d.table[x] # null
      <3>1. PICK j \in 1 .. Len(w) : c.key[w[j]] = x
        BY <1>12
      <3>2. d.table[x] = w[j] /\ w[j] # null
        BY <1>7, <1>14, <3>1, Pointers
      <3>3. QED
        BY <1>4, <3>1, <3>2 DEF Keyed
    <2>4. k \in Key /\ d.table[k] # null
      BY <1>5, <1>14, Pointers
    <2>5. QED
      BY <2>1, <2>2, <2>3, <2>4
  <1>16. ASSUME NEW x \in ToSet(o) \cup {k}
         PROVE  d.value[d.table[x]] = IF x = k THEN v ELSE ValuesOf(c)[x]
    <2>1. CASE x = k
      BY <1>6, <1>14, <2>1
    <2>2. CASE x # k
      <3>1. PICK j \in 1 .. Len(w) : c.key[w[j]] = x
        BY <1>12, <2>2
      <3>2. d.table[x] = w[j] /\ c.table[x] = w[j] /\ w[j] # null /\ x \in Key
        BY <1>4, <1>7, <1>14, <3>1, Pointers DEF Keyed
      <3>3. ValuesOf(c)[x] = c.value[w[j]]
        BY <3>2 DEF ValuesOf
      <3>4. QED
        BY <1>8, <2>2, <3>2, <3>3
    <2>3. QED
      BY <2>1, <2>2
  <1>17. ValuesOf(d) = [x \in ToSet(o) \cup {k} |-> IF x = k THEN v ELSE ValuesOf(c)[x]]
    <2>1. {x \in Key : d.table[x] # null} = ToSet(o) \cup {k}
      BY <1>15
    <2>2. ValuesOf(d) = [x \in ToSet(o) \cup {k} |-> d.value[d.table[x]]]
      BY <2>1 DEF ValuesOf
    <2>3. QED
      BY <1>16, <2>2
  <1>18. QED
    BY <1>4, <1>10, <1>17 DEF ValuesWith

LEMMA NothingHeld ==
  ASSUME NEW c, NEW f, Good(c, <<>>, f)
  PROVE  OrderOf(c) = <<>> /\ ValuesOf(c) = <<>>
  <1>1. /\ OrderOf(c) \in Seq(Key) /\ Len(OrderOf(c)) = 0
    <2>1. OrderOf(c) = KeysOf(c, <<>>)
      BY GoodOrder
    <2>2. Keyed(c, <<>>)
      BY NamesHeld
    <2>3. KeysOf(c, <<>>) \in Seq(Key) /\ Len(KeysOf(c, <<>>)) = Len(<<>>)
      BY <2>2, EmptyFacts, KeysFacts DEF Keyed
    <2>4. QED
      BY <2>1, <2>3, EmptyFacts
  <1>2. OrderOf(c) = <<>>
    BY <1>1, EmptySeq
  <1>3. {x \in Key : c.table[x] # null} = {}
    BY EmptyFacts DEF Good, Named
  <1>4. ValuesOf(c) \in [1 .. 0 -> Value]
    <2>1. 1 .. 0 = {}
      OBVIOUS
    <2>2. QED
      BY <1>3, <2>1 DEF ValuesOf
  <1> DEFINE a == ValuesOf(c)
  <1> HIDE DEF a
  <1>5. a \in Seq(Value) /\ Len(a) = 0
    BY <1>4, FunctionSeq DEF a
  <1>6. a = <<>>
    BY <1>5, EmptySeq
  <1>7. QED
    BY <1>2, <1>6 DEF a

LEMMA ErasedAbstractly ==
  ASSUME NEW c, NEW d, NEW u, NEW f, NEW g, Good(c, u, f), NEW k \in Key,
         Good(d, Rest(c, u, k), g), d.key = c.key, d.value = c.value
  PROVE  /\ OrderOf(d) = OthersIn(OrderOf(c), k)
         /\ ValuesOf(d) = ValuesWithout(OrderOf(c), ValuesOf(c), k)
  <1> DEFINE r == Rest(c, u, k)
             o == OrderOf(c)
  <1>1. OrderOf(d) = KeysOf(d, r) /\ o = KeysOf(c, u)
    BY GoodOrder
  <1>2. KeysOf(d, r) = KeysOf(c, r)
    BY DEF KeysOf
  <1>3. /\ KeysOf(c, r) = OthersIn(o, k)
        /\ \A x : In(x, r) <=> In(x, u) /\ x # c.table[k]
    BY <1>1, RestKeys
  <1>4. /\ \A x : x \in ToSet(o) <=> x \in Key /\ c.table[x] # null
        /\ \A x : x \in ToSet(o) <=> \E i \in 1 .. Len(u) : c.key[u[i]] = x
        /\ \A i \in 1 .. Len(u) : c.table[c.key[u[i]]] = u[i]
    <2> HIDE DEF o
    <2>1. QED
      BY <1>1, NamesHeld
  <1> HIDE DEF r, o
  <1>5. /\ \A x : x \in ToSet(KeysOf(d, r)) <=> x \in Key /\ d.table[x] # null
        /\ \A x : x \in ToSet(KeysOf(d, r)) <=> \E i \in 1 .. Len(r) : d.key[r[i]] = x
        /\ \A i \in 1 .. Len(r) : d.table[d.key[r[i]]] = r[i]
    <2>1. Good(d, r, g)
      BY DEF r
    <2>2. \A x : x \in ToSet(KeysOf(d, r)) <=> x \in Key /\ d.table[x] # null
      BY <2>1, NamesHeld
    <2>3. \A x : x \in ToSet(KeysOf(d, r)) <=> \E i \in 1 .. Len(r) : d.key[r[i]] = x
      BY <2>1, NamesHeld
    <2>4. \A i \in 1 .. Len(r) : d.table[d.key[r[i]]] = r[i]
      BY <2>1, NamesHeld
    <2>5. QED
      BY <2>2, <2>3, <2>4
  <1>6. ASSUME NEW x \in Key, d.table[x] # null
        PROVE  x \in ToSet(o) /\ x # k /\ d.table[x] = c.table[x]
    <2>1. PICK i \in 1 .. Len(r) : c.key[r[i]] = x
      BY <1>5, <1>6
    <2>2. In(r[i], u) /\ r[i] # c.table[k]
      BY <1>3 DEF In
    <2>3. PICK j \in 1 .. Len(u) : u[j] = r[i]
      BY <2>2 DEF In
    <2>4. x \in ToSet(o) /\ c.table[x] = r[i]
      BY <1>4, <2>1, <2>3
    <2>5. d.table[x] = r[i]
      BY <1>5, <2>1
    <2>6. QED
      BY <2>2, <2>4, <2>5
  <1>7. ASSUME NEW x \in ToSet(o), x # k PROVE x \in Key /\ d.table[x] # null
    <2>1. PICK i \in 1 .. Len(u) : c.key[u[i]] = x
      BY <1>4
    <2>2. c.table[x] = u[i] /\ x \in Key /\ In(u[i], u)
      BY <1>4, <2>1 DEF In
    <2>3. u[i] # c.table[k]
      <3>1. CASE c.table[k] = null
        BY <1>4, <2>2, <3>1
      <3>2. CASE c.table[k] # null
        <4>1. c.key[c.table[k]] = k
          BY <3>2 DEF Good, Named
        <4>2. QED
          BY <1>7, <2>1, <4>1
      <3>3. QED
        BY <3>1, <3>2
    <2>4. PICK j \in 1 .. Len(r) : r[j] = u[i]
      BY <1>3, <2>2, <2>3 DEF In
    <2>5. x \in ToSet(KeysOf(d, r))
      BY <1>5, <2>1, <2>4
    <2>6. QED
      BY <1>5, <2>5
  <1>8. {x \in Key : d.table[x] # null} = ToSet(o) \ {k}
    BY <1>6, <1>7
  <1>9. ASSUME NEW x \in ToSet(o) \ {k} PROVE d.value[d.table[x]] = ValuesOf(c)[x]
    <2>1. x \in Key /\ d.table[x] # null /\ c.table[x] # null
      BY <1>4, <1>8
    <2>2. d.table[x] = c.table[x]
      BY <1>6, <2>1
    <2>3. ValuesOf(c)[x] = c.value[c.table[x]]
      BY <2>1 DEF ValuesOf
    <2>4. QED
      BY <2>2, <2>3
  <1>10. ValuesOf(d) = [x \in ToSet(o) \ {k} |-> ValuesOf(c)[x]]
    <2>1. ValuesOf(d) = [x \in ToSet(o) \ {k} |-> d.value[d.table[x]]]
      BY <1>8 DEF ValuesOf
    <2>2. QED
      BY <1>9, <2>1
  <1>11. QED
    BY <1>1, <1>2, <1>3, <1>10 DEF r, o, ValuesWithout

LEMMA LookedUpAbstractly ==
  ASSUME NEW c, NEW d, NEW u, NEW f, NEW g, Good(c, u, f), NEW k \in Key, c.table[k] # null,
         Good(d, <<c.table[k]>> \o Rest(c, u, k), g), SameNames(d, c)
  PROVE  /\ k \in ToSet(OrderOf(c)) /\ OrderOf(d) = <<k>> \o OthersIn(OrderOf(c), k)
         /\ ValuesOf(d) = ValuesOf(c)
  <1> DEFINE r == Rest(c, u, k)
             e == c.table[k]
  <1>1. OrderOf(c) = KeysOf(c, u) /\ OrderOf(d) = KeysOf(d, <<e>> \o r)
    BY GoodOrder
  <1>2. k \in ToSet(OrderOf(c))
    BY <1>1, NamesHeld
  <1>3. /\ KeysOf(c, r) = OthersIn(OrderOf(c), k)
        /\ r \in Seq(Element) /\ \A x : In(x, r) => In(x, u)
    BY <1>1, RestKeys
  <1> HIDE DEF r
  <1>4. d.key = c.key /\ ValuesOf(d) = ValuesOf(c)
    BY DEF SameNames, ValuesOf
  <1>5. Keyed(d, r)
    <2>1. ASSUME NEW j \in 1 .. Len(r) PROVE c.key[r[j]] \in Key
      <3>1. In(r[j], u)
        BY <1>3 DEF In
      <3>2. QED
        BY <3>1 DEF Good, Named, In
    <2>2. QED
      BY <1>4, <2>1 DEF Keyed
  <1>6. e \in Element /\ c.key[e] = k
    <2>1. In(e, u) /\ c.key[e] = k /\ u \in Seq(Element)
      BY DEF Good, Named, Lists
    <2>2. QED
      BY <2>1, SeqFacts DEF In
  <1> HIDE DEF e
  <1>7. KeysOf(d, <<e>> \o r) = <<d.key[e]>> \o KeysOf(d, r)
    BY <1>3, <1>4, <1>5, <1>6, KeysCons
  <1>8. KeysOf(d, r) = KeysOf(c, r)
    BY <1>4 DEF KeysOf
  <1>9. QED
    BY <1>1, <1>2, <1>3, <1>4, <1>6, <1>7, <1>8

LEMMA LruStepImplements ==
  ASSUME LruInv, [LruNext]_cache
  PROVE  [Abstract!Next]_(Abstract!vars)
  <1>1. PICK u \in Seq(Element), f \in Seq(Element) : Good(cache, u, f)
    BY DEF LruInv
  <1>2. CASE UNCHANGED cache
    <2>1. Order' = Order /\ ValuesOf(cache)' = ValuesOf(cache)
      BY <1>2, OrderHere
    <2>2. QED
      BY <2>1, Zenon DEF Abstract!vars, ValuesOf
  <1>3. ASSUME NEW k \in Key, NEW v \in Value, Insert(k, v) PROVE Abstract!Insert(k, v)
    <2>1. Inserted(cache', cache, Kept(Rest(cache, u, k)), k, v)
      BY <1>1, <1>3, InsertGood
    <2>2. QED
      BY <1>1, <2>1, InsertedAbstractly, OrderHere, AbstractInsert
  <1>4. ASSUME NEW k \in Key, MutableLookup(k) PROVE Abstract!MutableLookup(k)
    <2>1. /\ Good(cache', <<cache.table[k]>> \o Rest(cache, u, k), f)
          /\ SameNames(cache', cache)
      BY <1>1, <1>4, LookupGood
    <2>2. cache.table[k] # null
      BY <1>4 DEF MutableLookup
    <2>3. QED
      BY <1>1, <2>1, <2>2, LookedUpAbstractly, OrderHere, AbstractLookup
  <1>5. ASSUME NEW k \in Key, Erase(k) PROVE Abstract!Erase(k)
    <2>1. /\ Good(cache', Rest(cache, u, k), <<cache.table[k]>> \o f)
          /\ cache'.key = cache.key /\ cache'.value = cache.value
      BY <1>1, <1>5, EraseGood
    <2>2. QED
      BY <1>1, <2>1, ErasedAbstractly, OrderHere, AbstractErase
  <1>6. CASE Clear
    <2>1. PICK g : Good(cache', <<>>, g)
      BY <1>1, <1>6, ClearGood
    <2>2. Abstract!Clear
      BY <2>1, NothingHeld, OrderHere, AbstractClear
    <2>3. QED
      BY <2>2 DEF Abstract!Next
  <1>7. QED
    BY <1>2, <1>3, <1>4, <1>5, <1>6 DEF LruNext, Abstract!Next

THEOREM LruImplements == LruSpec => ImplementsOrder
  <1>1. LruInit => Abstract!Init
    BY InitGood, NothingHeld, OrderHere, AbstractInit
  <1>2. LruInv /\ [LruNext]_cache => [Abstract!Next]_(Abstract!vars)
    BY LruStepImplements
  <1>3. QED
    BY <1>1, <1>2, LruInductive, PTL DEF LruSpec, ImplementsOrder, Abstract!Spec

\* With at most SmallCache elements, as in the table of sessions, one block holds all.
THEOREM SmallRoom == MaxElements <= SmallCache => Room = MaxElements
  <1> SUFFICES ASSUME MaxElements <= SmallCache PROVE Room = MaxElements
    OBVIOUS
  <1>1. InitialBlock = MaxElements
    BY DEF InitialBlock
  <1>2. Grown[1] = GrowStep(1, Grown[1 - 1])
    BY GrownSteps
  <1>3. Grown[1 - 1] = [capacity |-> 0, size |-> InitialBlock] /\ 1 <= MaxBlocks /\ 0 < MaxElements
    BY GrownSteps, Sizes
  <1>4. Grown[1].capacity = MaxElements
    BY <1>1, <1>2, <1>3, Sizes DEF GrowStep
  <1>5. 1 \in 0 .. MaxBlocks
    BY Sizes
  <1>6. QED
    BY <1>4, <1>5, GrownEnd DEF Exhausted
=============================================================================
