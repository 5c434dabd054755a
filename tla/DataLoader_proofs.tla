------------------------- MODULE DataLoader_proofs -------------------------
(***************************************************************************)
(* Proofs about DataLoader for every set of requests and all priorities:   *)
(* its type, what the two threads agree on without a common lock           *)
(* (TakesAlone, Delivered), FailedStaysOut, NeverDowngraded, and that the  *)
(* reload loop comes to an end (LoopShrinks).                              *)
(***************************************************************************)
EXTENDS DataLoader, FiniteSetTheorems, TLAPS

Busy == {"await", "build", "callback", "success", "failure"}
Armed == {"notify", "schedule"}

\* What a thread's step may be.
LEMMA LoaderSteps ==
  ASSUME TypeOK,
         \/ \E pc \in LoaderPC \ Busy : loader' = At(pc, None)
         \/ \E pc \in Busy, r \in Request : loader' = At(pc, r)
  PROVE  /\ loader' \in [pc : LoaderPC, request : Request \cup {None}]
         /\ loader'.request \in Request <=> loader'.pc \in Busy
  BY DataLoaderAssumption DEF At, LoaderPC, Busy

LEMMA MainSteps ==
  ASSUME TypeOK,
         \/ \E pc \in MainPC \ Armed : main' = At(pc, None)
         \/ \E pc \in Armed, r \in Request : main' = At(pc, r)
  PROVE  /\ main' \in [pc : MainPC, request : Request \cup {None}]
         /\ main'.request \in Request <=> main'.pc \in Armed
  BY DataLoaderAssumption DEF At, MainPC, Armed

LEMMA TypeInit == Init => TypeOK
  <1> SUFFICES ASSUME Init PROVE TypeOK
    OBVIOUS
  <1>1. /\ loader \in [pc : LoaderPC, request : Request \cup {None}]
        /\ ~ (loader.request \in Request)
        /\ loader.pc = "ready"
    BY DataLoaderAssumption DEF Init, At, LoaderPC
  <1>2. /\ main \in [pc : MainPC, request : Request \cup {None}]
        /\ ~ (main.request \in Request)
        /\ main.pc = "idle"
    BY DataLoaderAssumption DEF Init, At, MainPC
  <1>3. QED
    BY <1>1, <1>2 DEF Init, TypeOK

LEMMA TypeStep == TypeOK /\ [Next]_vars => TypeOK'
  <1> SUFFICES ASSUME TypeOK, [Next]_vars PROVE TypeOK'
    OBVIOUS
  <1>1. ASSUME NEW r \in Request, RegisterRequest(r) PROVE TypeOK'
    <2>1. requests' \subseteq Request /\ newer' \subseteq Request \X Request
      BY <1>1 DEF RegisterRequest, TypeOK, Without
    <2>2. CASE main' = main
      BY <1>1, <2>1, <2>2 DEF RegisterRequest, TypeOK, requestVars
    <2>3. CASE main' = At("notify", r)
      <3>1. /\ main' \in [pc : MainPC, request : Request \cup {None}]
            /\ main'.request \in Request <=> main'.pc \in Armed
        BY <2>3, MainSteps DEF Armed
      <3>2. QED
        BY <1>1, <2>1, <3>1 DEF RegisterRequest, TypeOK, Armed
    <2>4. QED
      BY <1>1, <2>2, <2>3 DEF RegisterRequest
  <1>2. CASE Notify \/ Schedule \/ MaybeReloadEngine \/ Wait \/ Take
    <2>1. /\ main' \in [pc : MainPC, request : Request \cup {None}]
          /\ main'.request \in Request <=> main'.pc \in Armed
      <3>1. CASE Notify
        BY <3>1, MainSteps DEF Notify, TypeOK, Armed
      <3>2. CASE Schedule \/ Wait \/ Take
        <4>1. \E pc \in MainPC \ Armed : main' = At(pc, None)
          BY <3>2 DEF Schedule, Wait, Take, MainPC, Armed
        <4>2. QED
          BY <4>1, MainSteps
      <3>3. CASE MaybeReloadEngine
        <4>1. main' = main \/ \E pc \in MainPC \ Armed : main' = At(pc, None)
          BY <3>3 DEF MaybeReloadEngine, MainPC, Armed
        <4>2. QED
          BY <4>1, MainSteps DEF TypeOK, Armed
      <3>4. QED
        BY <1>2, <3>1, <3>2, <3>3
    <2>2. /\ loader' \in [pc : LoaderPC, request : Request \cup {None}]
          /\ loader'.request \in Request <=> loader'.pc \in Busy
      <3>1. CASE loader' = loader
        BY <3>1 DEF TypeOK, Busy
      <3>2. CASE loader' = At("get", None)
        BY <3>2, LoaderSteps DEF LoaderPC, Busy
      <3>3. QED
        BY <1>2, <3>1, <3>2 DEF Notify, Schedule, MaybeReloadEngine, Wait, Take
    <2>3. /\ response' \in Request \cup {None}
          /\ engine' \in Request \cup {None, BuiltIn}
          /\ high' \in BOOLEAN
          /\ UNCHANGED requestVars
      BY <1>2 DEF Notify, Schedule, MaybeReloadEngine, Wait, Take, TypeOK
    <2>4. QED
      BY <2>1, <2>2, <2>3 DEF TypeOK, Armed, Busy, requestVars
  <1>3. CASE Loader
    <2>1. \/ \E pc \in LoaderPC \ Busy : loader' = At(pc, None)
          \/ \E pc \in Busy, r \in Request : loader' = At(pc, r)
      BY <1>3 DEF Loader, GetPendingRequestData, Await, Build, Callback,
         ReportLoadSuccess, ReportLoadFailure, Exit, TypeOK, LoaderPC, Busy
    <2>2. /\ loader' \in [pc : LoaderPC, request : Request \cup {None}]
          /\ loader'.request \in Request <=> loader'.pc \in Busy
      BY <2>1, LoaderSteps
    <2>3. /\ requests' \subseteq Request
          /\ newer' \subseteq Request \X Request
          /\ unregistered' \subseteq Request
          /\ current' \in Request \cup {None}
          /\ response' \in Request \cup {None}
          /\ UNCHANGED <<high, main, engine>>
      BY <1>3 DEF Loader, GetPendingRequestData, Await, Build, Callback,
         ReportLoadSuccess, ReportLoadFailure, Exit, TypeOK, requestVars, Without
    <2>4. QED
      BY <2>2, <2>3 DEF TypeOK, Busy
  <1>4. CASE UNCHANGED vars
    BY <1>4 DEF vars, requestVars, TypeOK
  <1>5. QED
    BY <1>1, <1>2, <1>3, <1>4 DEF Next, Main

\* Each thread has a request exactly while it works on one.
THEOREM TypeCorrect == Spec => []TypeOK
  BY TypeInit, TypeStep, PTL DEF Spec

-----------------------------------------------------------------------------
(* The inductive invariant.  What relates the two threads is current: the  *)
(* request in progress goes before it, and it is what the engine has or    *)
(* will take next.                                                         *)

\* The request in progress is pending, is not the one in use, and goes first.
InProgress ==
    loader.pc \in Busy =>
       /\ loader.request \in requests
       /\ loader.request # current
       /\ current # None => Priority[loader.request] <= Priority[current]

\* What is on its way to the engine never has a lower priority than its data.
Upgrade ==
    response # None /\ engine \in Request => Priority[response] <= Priority[engine]

Inv ==
    /\ TypeOK
    /\ current \in requests \cup {None}
    /\ InProgress
    /\ loader.pc = "success" => response = loader.request
    /\ Upgrade
    /\ TakesAlone
    /\ Delivered
    /\ FailedStaysOut

LEMMA InvInit == Init => Inv
  BY TypeInit, DataLoaderAssumption
  DEF Init, Inv, InProgress, Upgrade, TakesAlone, Delivered, FailedStaysOut, At, Busy

LEMMA InvMain == Inv /\ Main => Inv'
  <1> SUFFICES ASSUME Inv, Main PROVE Inv'
    OBVIOUS
  <1>1. TypeOK' /\ TypeOK
    BY TypeStep DEF Inv, Next
  <1>2. ASSUME NEW r \in Request, RegisterRequest(r) PROVE Inv'
    <2>1. /\ requests' = requests \cup {r}
          /\ r \notin unregistered
          /\ main' = main \/ main' = At("notify", r)
          /\ UNCHANGED <<unregistered, current, high, loader, response, engine>>
      BY <1>2 DEF RegisterRequest
    <2>2. TakesAlone'
      BY <2>1 DEF Inv, TakesAlone, At, IsRunning
    <2>3. FailedStaysOut'
      BY <2>1 DEF Inv, FailedStaysOut
    <2>4. QED
      BY <1>1, <2>1, <2>2, <2>3 DEF Inv, InProgress, Upgrade, Delivered
  <1>3. CASE Notify \/ MaybeReloadEngine \/ Wait
    <2>1. UNCHANGED <<requestVars, loader, response, engine>>
      BY <1>3 DEF Notify, MaybeReloadEngine, Wait
    <2>2. main'.pc = "take" => main.pc = "take" \/ (~ IsRunning /\ response # None)
      BY <1>3 DEF Notify, MaybeReloadEngine, Wait, Takeable, At
    <2>3. QED
      BY <1>1, <2>1, <2>2
      DEF Inv, requestVars, InProgress, Upgrade, TakesAlone, Delivered, FailedStaysOut, IsRunning
  <1>4. CASE Schedule
    <2>1. /\ UNCHANGED <<requestVars, response, engine>>
          /\ loader' = loader \/ loader' = At("get", None)
          /\ loader' = loader \/ loader.pc = "ready"
          /\ main' = At("idle", None)
      BY <1>4 DEF Schedule, IsRunning
    <2>2. QED
      BY <1>1, <2>1
      DEF Inv, requestVars, InProgress, Upgrade, TakesAlone, Delivered, FailedStaysOut, At, Busy
  <1>5. CASE Take
    <2>1. /\ loader.pc = "ready"
          /\ response # None
          /\ engine' = response
          /\ response' = None
          /\ main'.pc = "idle"
          /\ UNCHANGED <<requestVars, high, loader>>
      BY <1>5 DEF Take, Inv, TakesAlone, IsRunning, At
    <2>2. current = response /\ response \in Request
      BY <1>1, <2>1 DEF Inv, Delivered, TypeOK
    <2>3. Delivered'
      BY <2>1, <2>2 DEF Delivered, requestVars
    <2>4. QED
      BY <1>1, <2>1, <2>3
      DEF Inv, requestVars, InProgress, Upgrade, TakesAlone, FailedStaysOut, Busy
  <1>6. QED
    BY <1>2, <1>3, <1>4, <1>5 DEF Main

LEMMA InvLoader == Inv /\ Loader => Inv'
  <1> SUFFICES ASSUME Inv, Loader PROVE Inv'
    OBVIOUS
  <1>1. TypeOK' /\ TypeOK
    BY TypeStep DEF Inv, Next
  <1>2. TakesAlone' /\ main'.pc # "take"
    BY DEF Inv, TakesAlone, IsRunning, Loader, GetPendingRequestData, Await, Build,
       Callback, ReportLoadSuccess, ReportLoadFailure, Exit
  <1>3. CASE GetPendingRequestData
    <2>1. UNCHANGED <<requestVars, high, main, response, engine>> /\ loader.pc = "get"
      BY <1>3 DEF GetPendingRequestData
    <2>2. CASE loader' = At("exit", None)
      BY <1>1, <1>2, <2>1, <2>2
      DEF Inv, requestVars, InProgress, Upgrade, Delivered, FailedStaysOut, At, Busy
    <2>3. ASSUME NEW r \in requests \ {current}, IsFront(r),
                 loader' = At("build", r) \/ loader' = At("await", r)
          PROVE  Inv'
      <3>1. current # None => Priority[r] <= Priority[current]
        <4>1. SUFFICES ASSUME current # None PROVE Priority[r] <= Priority[current]
          OBVIOUS
        <4>2. current \in requests /\ current # r
          BY <2>3, <4>1 DEF Inv
        <4>3. Priority[r] < Priority[current] \/ Priority[r] = Priority[current]
          BY <2>3, <4>2 DEF IsFront, IsFrontOf, Precedes
        <4>4. Priority[r] \in Int /\ Priority[current] \in Int
          BY <1>1, <2>3, <4>2, DataLoaderAssumption DEF TypeOK
        <4>5. QED
          BY <4>3, <4>4
      <3>2. /\ loader'.request = r
            /\ loader'.pc # "success"
        BY <2>3 DEF At
      <3>3. InProgress'
        BY <2>1, <3>1, <3>2 DEF InProgress, requestVars
      <3>4. QED
        BY <1>1, <1>2, <2>1, <3>2, <3>3 DEF Inv, requestVars, Upgrade, Delivered, FailedStaysOut
    <2>4. QED
      BY <1>3, <2>2, <2>3 DEF GetPendingRequestData
  <1>4. CASE Await \/ Build \/ Exit
    <2>1. /\ UNCHANGED <<requestVars, high, main, response, engine>>
          /\ loader.pc # "success"
          /\ loader'.pc # "success"
          /\ loader'.pc \in Busy => loader.pc \in Busy /\ loader'.request = loader.request
      BY <1>4 DEF Await, Build, Exit, At, Busy
    <2>2. QED
      BY <1>1, <1>2, <2>1 DEF Inv, requestVars, InProgress, Upgrade, Delivered, FailedStaysOut
  <1>5. CASE Callback
    <2>1. /\ loader.pc = "callback"
          /\ loader.request \in Request
          /\ loader'.pc = "success"
          /\ loader'.request = loader.request
          /\ response' = loader.request
          /\ UNCHANGED <<requestVars, high, main, engine>>
      BY <1>1, <1>5 DEF Callback, At, TypeOK
    <2>2. InProgress'
      BY <2>1 DEF Inv, InProgress, Busy, requestVars
    <2>3. Upgrade'
      <3>1. SUFFICES ASSUME engine \in Request
                     PROVE  Priority[loader.request] <= Priority[engine]
        BY <2>1 DEF Upgrade
      <3>2. current = (IF response # None THEN response ELSE engine)
        BY <2>1, <3>1 DEF Inv, Delivered
      <3>3. current # None
        BY <3>1, <3>2, DataLoaderAssumption
      <3>4. Priority[loader.request] <= Priority[current]
        BY <2>1, <3>3 DEF Inv, InProgress, Busy
      <3>5. Priority[current] <= Priority[engine]
        BY <1>1, <3>1, <3>2, DataLoaderAssumption DEF Inv, Upgrade, TypeOK
      <3>6. Priority[loader.request] \in Int /\ Priority[current] \in Int
               /\ Priority[engine] \in Int
        BY <1>1, <2>1, <3>1, <3>3, DataLoaderAssumption DEF TypeOK
      <3>7. QED
        BY <3>4, <3>5, <3>6
    <2>4. QED
      BY <1>1, <1>2, <2>1, <2>2, <2>3 DEF Inv, requestVars, Delivered, FailedStaysOut
  <1>6. CASE ReportLoadSuccess
    <2>1. /\ loader.pc = "success"
          /\ loader.request \in requests
          /\ response = loader.request
          /\ current' = loader.request
          /\ loader'.pc = "get"
          /\ UNCHANGED <<requests, newer, unregistered, high, main, response, engine>>
      BY <1>6 DEF ReportLoadSuccess, At, Inv, InProgress, Busy
    <2>2. response # None
      BY <1>1, <2>1, DataLoaderAssumption DEF TypeOK
    <2>3. InProgress' /\ Delivered' /\ FailedStaysOut'
      BY <2>1, <2>2 DEF Inv, InProgress, Delivered, FailedStaysOut, Busy
    <2>4. QED
      BY <1>1, <1>2, <2>1, <2>3 DEF Inv, Upgrade
  <1>7. CASE ReportLoadFailure
    <2>1. /\ loader.pc = "failure"
          /\ loader.request # current
          /\ requests' = requests \ {loader.request}
          /\ unregistered' = unregistered \cup {loader.request}
          /\ loader'.pc = "get"
          /\ UNCHANGED <<current, high, main, response, engine>>
      BY <1>7 DEF ReportLoadFailure, At, Inv, InProgress, Busy
    <2>2. FailedStaysOut'
      BY <2>1 DEF Inv, FailedStaysOut
    <2>3. QED
      BY <1>1, <1>2, <2>1, <2>2 DEF Inv, InProgress, Upgrade, Delivered, Busy
  <1>8. QED
    BY <1>3, <1>4, <1>5, <1>6, <1>7 DEF Loader

LEMMA InvStep == Inv /\ [Next]_vars => Inv'
  <1>1. Inv /\ UNCHANGED vars => Inv'
    BY TypeStep
    DEF vars, requestVars, Inv, InProgress, Upgrade, TakesAlone, Delivered, FailedStaysOut, IsRunning
  <1>2. QED
    BY <1>1, InvMain, InvLoader DEF Next

LEMMA Invariant == Spec => []Inv
  BY InvInit, InvStep, PTL DEF Spec

\* Engine::loader_response_, which no lock protects, has one user at a time.
THEOREM TakesAloneCorrect == Spec => []TakesAlone
  <1>1. Inv => TakesAlone
    BY DEF Inv
  <1>2. QED
    BY <1>1, Invariant, PTL

\* A request is refused as already in use only when the engine has its data, or is
\* about to take it.
THEOREM DeliveredCorrect == Spec => []Delivered
  <1>1. Inv => Delivered
    BY DEF Inv
  <1>2. QED
    BY <1>1, Invariant, PTL

\* Data that could not be loaded is never tried again nor believed to be in use.
THEOREM FailedCorrect == Spec => []FailedStaysOut
  <1>1. Inv => FailedStaysOut
    BY DEF Inv
  <1>2. QED
    BY <1>1, Invariant, PTL

\* The data of a request only gives way to data of the same or a higher priority.
THEOREM PriorityCorrect == Spec => NeverDowngraded
  <1>1. Inv /\ [Next]_vars =>
           [(engine \in Request => engine' \in Request /\ Priority[engine'] <= Priority[engine])]_vars
    <2> SUFFICES ASSUME Inv, Next, engine \in Request
                 PROVE  engine' \in Request /\ Priority[engine'] <= Priority[engine]
      OBVIOUS
    <2>1. CASE Take
      <3>1. response \in Request /\ engine' = response
        BY <2>1 DEF Take, Inv, TakesAlone, TypeOK
      <3>2. QED
        BY <3>1, DataLoaderAssumption DEF Inv, Upgrade
    <2>2. CASE engine' = engine
      BY <2>2, DataLoaderAssumption
    <2>3. QED
      BY <2>1, <2>2 DEF Next, Main, Loader, RegisterRequest, Notify, Schedule, MaybeReloadEngine,
         Wait, GetPendingRequestData, Await, Build, Callback, ReportLoadSuccess,
         ReportLoadFailure, Exit
  <1>2. QED
    BY <1>1, Invariant, PTL DEF Spec, NeverDowngraded

-----------------------------------------------------------------------------
(* The reload loop comes to an end.  What orders requests of one priority  *)
(* must be asymmetric: were two requests first, the loop could alternate.  *)

LEMMA StageType == TypeOK => Stage \in 0..9
  BY DEF TypeOK, LoaderPC, Stage

\* The requests are finitely many, and none is newer than one newer than it.
Ordered ==
    /\ IsFiniteSet(requests)
    /\ \A a, b \in Request : ~ (<<a, b>> \in newer /\ <<b, a>> \in newer)

LEMMA OrderedInit == Init => Ordered
  BY FS_EmptySet DEF Init, Ordered

LEMMA OrderedStep == Ordered /\ TypeOK /\ [Next]_vars => Ordered'
  <1> SUFFICES ASSUME Ordered, TypeOK, [Next]_vars PROVE Ordered'
    OBVIOUS
  <1>1. ASSUME NEW r \in Request, RegisterRequest(r) PROVE Ordered'
    <2>1. /\ requests' = requests \cup {r}
          /\ newer' = Without(newer, r) \cup ({r} \X (requests \ {r}))
      BY <1>1 DEF RegisterRequest
    <2>2. IsFiniteSet(requests')
      BY <2>1, FS_AddElement DEF Ordered
    <2>3. ASSUME NEW a \in Request, NEW b \in Request,
                 <<a, b>> \in newer', <<b, a>> \in newer'
          PROVE  FALSE
      <3>1. ASSUME NEW x, NEW y, <<x, y>> \in newer'
            PROVE  \/ <<x, y>> \in newer /\ x # r /\ y # r
                   \/ x = r /\ y # r
        BY <2>1, <3>1 DEF Without
      <3>2. QED
        BY <2>3, <3>1 DEF Ordered
    <2>4. QED
      BY <2>2, <2>3 DEF Ordered
  <1>2. CASE ReportLoadFailure
    <2>1. /\ requests' = requests \ {loader.request}
          /\ newer' \subseteq newer
      BY <1>2 DEF ReportLoadFailure, Without
    <2>2. IsFiniteSet(requests')
      BY <2>1, FS_RemoveElement DEF Ordered
    <2>3. QED
      BY <2>1, <2>2 DEF Ordered
  <1>3. CASE UNCHANGED <<requests, newer>>
    BY <1>3 DEF Ordered
  <1>4. QED
    <2>1. Notify \/ Schedule \/ MaybeReloadEngine \/ Wait \/ Take
             => UNCHANGED <<requests, newer>>
      BY DEF Notify, Schedule, MaybeReloadEngine, Wait, Take, requestVars
    <2>2. Loader => ReportLoadFailure \/ UNCHANGED <<requests, newer>>
      BY DEF Loader, GetPendingRequestData, Await, Build, Callback, ReportLoadSuccess, Exit,
         requestVars
    <2>3. QED
      BY <1>1, <1>2, <1>3, <2>1, <2>2 DEF Next, Main, vars, requestVars

\* No two requests go first.
LEMMA OneFront ==
  ASSUME TypeOK, Ordered, NEW a, NEW b, IsFront(a), IsFront(b)
  PROVE  a = b
  <1> SUFFICES ASSUME a # b PROVE FALSE
    OBVIOUS
  <1>1. a \in Request /\ b \in Request
    BY DEF IsFront, IsFrontOf, TypeOK
  <1>2. Precedes(a, b, newer) /\ Precedes(b, a, newer)
    BY DEF IsFront, IsFrontOf
  <1>3. Priority[a] \in Int /\ Priority[b] \in Int
    BY <1>1, DataLoaderAssumption
  <1>4. <<a, b>> \in newer /\ <<b, a>> \in newer
    BY <1>2, <1>3 DEF Precedes
  <1>5. QED
    BY <1>1, <1>4 DEF Ordered

LEMMA LoopLeftType == TypeOK /\ Ordered => LoopLeft \in Nat
  <1> SUFFICES ASSUME TypeOK, Ordered PROVE LoopLeft \in Nat
    OBVIOUS
  <1>1. Cardinality(requests) \in Nat
    BY FS_CardinalityType DEF Ordered
  <1>2. QED
    BY <1>1, StageType DEF LoopLeft

\* A step that leaves the requests pending: what it leads to is nearer the end.
LEMMA NearerEnd ==
  ASSUME TypeOK, TypeOK', Ordered, requests' = requests,
         \/ (Overtaken' => Overtaken) /\ Stage' < Stage
         \/ ~ Overtaken' /\ Overtaken
  PROVE  LoopLeft' < LoopLeft
  <1>1. Cardinality(requests) \in Nat
    BY FS_CardinalityType DEF Ordered
  <1>2. Stage \in 0..9
    BY StageType
  <1>3. Stage' \in 0..9
    <2>1. (TypeOK => Stage \in 0..9)'
      BY StageType, PTL
    <2>2. QED
      BY <2>1
  <1>4. Cardinality(requests') = Cardinality(requests)
    OBVIOUS
  <1>5. LoopLeft' = 20 * Cardinality(requests) + (IF Overtaken' THEN 10 ELSE 0) + Stage'
    BY <1>4 DEF LoopLeft
  <1>6. CASE (Overtaken' => Overtaken) /\ Stage' < Stage
    BY <1>1, <1>2, <1>3, <1>5, <1>6 DEF LoopLeft
  <1>7. CASE ~ Overtaken' /\ Overtaken
    BY <1>1, <1>2, <1>3, <1>5, <1>7 DEF LoopLeft
  <1>8. QED
    BY <1>6, <1>7

LEMMA LoaderShrinks == Inv /\ Ordered /\ Loader => LoopLeft' < LoopLeft
  <1> SUFFICES ASSUME Inv, Ordered, Loader PROVE LoopLeft' < LoopLeft
    OBVIOUS
  <1>1. TypeOK /\ TypeOK'
    BY TypeStep DEF Inv, Next
  <1>2. None \notin Request
    BY DataLoaderAssumption
  <1>3. loader.pc \notin Busy => loader.request = None
    BY <1>1 DEF TypeOK, Busy
  <1>4. CASE GetPendingRequestData
    <2>1. /\ loader.pc = "get"
          /\ requests' = requests
          /\ newer' = newer
      BY <1>4 DEF GetPendingRequestData, requestVars
    <2>2. CASE (requests = {} \/ IsFront(current)) /\ loader' = At("exit", None)
      <3>1. ~ Overtaken'
        BY <2>2 DEF Overtaken, At
      <3>2. Stage = 2
        BY <2>1, <2>2 DEF Stage
      <3>3. Stage' = 1
        BY <2>2 DEF Stage, At
      <3>4. QED
        BY <1>1, <2>1, <3>1, <3>2, <3>3, NearerEnd
    <2>3. ASSUME NEW r \in requests \ {current}, IsFront(r),
                 loader' = At(IF high THEN "build" ELSE "await", r)
          PROVE  LoopLeft' < LoopLeft
      <3>1. ~ Overtaken'
        BY <2>1, <2>3 DEF Overtaken, At, IsFront, IsFrontOf
      <3>2. requests # {} /\ ~ IsFront(current)
        BY <1>1, <2>3, OneFront
      <3>3. Stage = IF high THEN 7 ELSE 9
        BY <2>1, <3>2 DEF Stage
      <3>4. Stage' = IF high THEN 6 ELSE 8
        BY <2>3 DEF Stage, At
      <3>5. QED
        BY <1>1, <2>1, <3>1, <3>3, <3>4, NearerEnd
    <2>4. QED
      BY <1>4, <2>2, <2>3 DEF GetPendingRequestData
  <1>5. CASE Await
    <2>1. /\ loader.pc = "await"
          /\ requests' = requests
          /\ newer' = newer
          /\ current' = current
          /\ high' = high
      BY <1>5 DEF Await, requestVars
    <2>2. Stage = 8
      BY <2>1 DEF Stage
    <2>3. CASE high /\ loader' = At("get", None)
      <3>1. ~ Overtaken'
        BY <2>3 DEF Overtaken, At
      <3>2. Stage' \in {2, 7}
        BY <2>1, <2>3 DEF Stage, At
      <3>3. QED
        BY <1>1, <2>1, <2>2, <3>1, <3>2, NearerEnd
    <2>4. CASE loader' = At("build", loader.request)
      <3>1. Overtaken' => Overtaken
        BY <2>1, <2>4 DEF Overtaken, At, IsFront, IsFrontOf
      <3>2. Stage' = 6
        BY <2>4 DEF Stage, At
      <3>3. QED
        BY <1>1, <2>1, <2>2, <3>1, <3>2, NearerEnd
    <2>5. QED
      BY <1>5, <2>3, <2>4 DEF Await
  <1>6. CASE Build \/ Callback
    <2>1. /\ requests' = requests
          /\ newer' = newer
          /\ loader'.request = loader.request
      BY <1>6 DEF Build, Callback, requestVars, At
    <2>2. Overtaken' => Overtaken
      BY <2>1 DEF Overtaken, IsFront, IsFrontOf
    <2>3. \/ loader.pc = "build" /\ loader'.pc \in {"callback", "failure"}
          \/ loader.pc = "callback" /\ loader'.pc = "success"
      BY <1>6 DEF Build, Callback, At
    <2>4. Stage' < Stage
      BY <2>3 DEF Stage
    <2>5. QED
      BY <1>1, <2>1, <2>2, <2>4, NearerEnd
  <1>7. CASE ReportLoadSuccess
    <2>1. /\ loader.pc = "success"
          /\ current' = loader.request
          /\ loader' = At("get", None)
          /\ requests' = requests
          /\ newer' = newer
      BY <1>7 DEF ReportLoadSuccess
    <2>2. Stage = 4 /\ ~ Overtaken'
      BY <2>1 DEF Stage, Overtaken, At
    <2>3. CASE Overtaken
      BY <1>1, <2>1, <2>2, <2>3, NearerEnd
    <2>4. CASE ~ Overtaken
      <3>1. loader.request # None
        BY <1>1, <1>2, <2>1 DEF TypeOK
      <3>2. IsFront(current)'
        BY <2>1, <2>4, <3>1 DEF Overtaken, IsFront, IsFrontOf
      <3>3. Stage' = 2
        BY <2>1, <3>2 DEF Stage, At
      <3>4. QED
        BY <1>1, <2>1, <2>2, <3>3, NearerEnd
    <2>5. QED
      BY <2>3, <2>4
  <1>8. CASE ReportLoadFailure
    <2>1. /\ loader.pc = "failure"
          /\ loader' = At("get", None)
          /\ requests' = requests \ {loader.request}
      BY <1>8 DEF ReportLoadFailure
    <2>2. loader.request \in requests
      BY <2>1 DEF Inv, InProgress, Busy
    <2>3. /\ Cardinality(requests) \in Nat
          /\ Cardinality(requests') = Cardinality(requests) - 1
      BY <2>1, <2>2, FS_RemoveElement, FS_CardinalityType DEF Ordered
    <2>4. Stage = 5
      BY <2>1 DEF Stage
    <2>5. Stage' \in 0..9
      <3>1. (TypeOK => Stage \in 0..9)'
        BY StageType, PTL
      <3>2. QED
        BY <1>1, <3>1
    <2>6. ~ Overtaken'
      BY <2>1 DEF Overtaken, At
    <2>7. LoopLeft' = 20 * Cardinality(requests') + Stage'
      BY <2>5, <2>6, <2>3 DEF LoopLeft
    <2>8. LoopLeft >= 20 * Cardinality(requests) + 5
      BY <2>3, <2>4 DEF LoopLeft
    <2>9. LoopLeft \in Nat
      BY <1>1, LoopLeftType
    <2>10. QED
      BY <2>3, <2>5, <2>7, <2>8, <2>9
  <1>9. CASE Exit
    <2>1. /\ loader.pc = "exit"
          /\ loader' = At("ready", None)
          /\ requests' = requests
      BY <1>9 DEF Exit, requestVars
    <2>2. Stage = 1 /\ Stage' = 0 /\ ~ Overtaken'
      BY <2>1 DEF Stage, Overtaken, At
    <2>3. QED
      BY <1>1, <2>1, <2>2, NearerEnd
  <1>10. QED
    BY <1>4, <1>5, <1>6, <1>7, <1>8, <1>9 DEF Loader

\* The reload loop comes nearer to its end with every step of its thread, and a main
\* thread that waits for it sees nothing set it back; with the fairness TLC assumes
\* this is why waiting returns (WaitReturns), for every number of requests.
THEOREM LoopCorrect == Spec => LoopShrinks
  <1>1. Inv /\ Ordered /\ [Next]_vars =>
           [/\ Loader => LoopLeft' < LoopLeft
            /\ main.pc = "wait" => LoopLeft' <= LoopLeft]_vars
    <2> SUFFICES ASSUME Inv, Ordered, Next, main.pc = "wait"
                 PROVE  LoopLeft' <= LoopLeft
      BY LoaderShrinks
    <2>1. LoopLeft \in Nat
      BY LoopLeftType DEF Inv
    <2>2. CASE Loader
      <3>1. LoopLeft' < LoopLeft
        BY <2>2, LoaderShrinks
      <3>2. LoopLeft' \in Nat
        <4>1. (TypeOK /\ Ordered => LoopLeft \in Nat)'
          BY LoopLeftType, PTL
        <4>2. QED
          BY <4>1, TypeStep, OrderedStep DEF Inv
      <3>3. QED
        BY <2>1, <3>1, <3>2
    <2>3. CASE Main
      <3>1. UNCHANGED <<requestVars, high, loader>>
        BY <2>3 DEF Main, RegisterRequest, Notify, Schedule, MaybeReloadEngine, Wait, Take
      <3>2. LoopLeft' = LoopLeft
        BY <3>1 DEF LoopLeft, Overtaken, Stage, requestVars, IsFront, IsFrontOf
      <3>3. QED
        BY <2>1, <3>2
    <2>4. QED
      BY <2>2, <2>3 DEF Next
  <1>2. Spec => []Ordered
    <2>1. Inv => TypeOK
      BY DEF Inv
    <2>2. QED
      BY <2>1, OrderedInit, OrderedStep, Invariant, PTL DEF Spec
  <1>3. QED
    BY <1>1, <1>2, Invariant, PTL DEF Spec, LoopShrinks

=============================================================================
