----------------------------- MODULE DataLoader -----------------------------
(***************************************************************************)
(* Loading of conversion data: engine/data_loader.cc, with the callback    *)
(* and the reload of engine/engine.cc that take its results.  The main     *)
(* thread registers requests and installs what was loaded; the loader's    *)
(* thread runs StartReloadLoop until nothing is pending.  mutex_ makes     *)
(* every access to the requests atomic; that the thread is still running   *)
(* is asked without it.                                                    *)
(***************************************************************************)
EXTENDS Integers, FiniteSets

CONSTANTS
    Request,        \* EngineReloadRequests, by their fingerprints
    Priority,       \* their priorities; a smaller number goes first
    HighPriority,   \* kHighPriority
    None,           \* no request: id 0, no response, no converter
    BuiltIn         \* the data the engine was constructed with

ASSUME DataLoaderAssumption ==
    /\ Priority \in [Request -> Int]
    /\ HighPriority \in Int
    /\ None \notin Request
    /\ BuiltIn \notin Request \cup {None}

VARIABLES
    requests,       \* the ids of requests_
    newer,          \* <<a, b>>: the sequence_id of a is larger than that of b
    unregistered,   \* unregistered_
    current,        \* current_request_id_
    high,           \* high_priority_data_registered_ has been notified
    loader,         \* the next step of the loader's thread and its request
    main,           \* the next step of the main thread and its request
    response,       \* Engine::loader_response_: the data in it
    engine          \* the data the converter runs on

requestVars == <<requests, newer, unregistered, current>>
vars == <<requestVars, high, loader, main, response, engine>>

At(pc, r) == [pc |-> pc, request |-> r]
IsRunning == loader.pc # "ready"

\* Mutant: the newest request goes first whatever its priority.
NewerFirst(a, b, order) == <<a, b>> \in order

\* The order requests_ is sorted by.
Precedes(a, b, order) ==
    \/ Priority[a] < Priority[b]
    \/ Priority[a] = Priority[b] /\ <<a, b>> \in order

IsFrontOf(r, S, order) == r \in S /\ \A q \in S \ {r} : Precedes(r, q, order)
IsFront(r) == IsFrontOf(r, requests, newer)

Without(order, r) == {p \in order : r \notin {p[1], p[2]}}

-----------------------------------------------------------------------------
(* The main thread: StartNewDataBuildTask.                                 *)

\* Refused when it is the data in use, or was given up before; accepted unless
\* the data in use still goes first.
RegisterRequest(r) ==
    /\ main.pc = "idle"
    /\ r # current
    /\ r \notin unregistered
    /\ LET S == requests \cup {r}
           order == Without(newer, r) \cup ({r} \X (requests \ {r}))
       IN  /\ requests' = S
           /\ newer' = order
           /\ main' = IF IsFrontOf(current, S, order) THEN main ELSE At("notify", r)
    /\ UNCHANGED <<unregistered, current, high, loader, response, engine>>

Notify ==
    /\ main.pc = "notify"
    /\ high' = (high \/ Priority[main.request] <= HighPriority)
    /\ main' = At("schedule", main.request)
    /\ UNCHANGED <<requestVars, loader, response, engine>>

\* A thread is started unless there is one.
Schedule ==
    /\ main.pc = "schedule"
    /\ loader' = IF IsRunning THEN loader ELSE At("get", None)
    /\ main' = At("idle", None)
    /\ UNCHANGED <<requestVars, high, response, engine>>

-----------------------------------------------------------------------------
(* The main thread: Engine::MaybeReloadEngine.                             *)

\* Mutant: the thread that writes loader_response_ is not asked for.
TakeAnyway == response # None

Takeable == ~IsRunning /\ response # None

\* An engine without converter waits for the loader first.
MaybeReloadEngine ==
    /\ main.pc = "idle"
    /\ main' = IF engine = None THEN At("wait", None)
               ELSE IF Takeable THEN At("take", None) ELSE main
    /\ UNCHANGED <<requestVars, high, loader, response, engine>>

Wait ==
    /\ main.pc = "wait"
    /\ ~IsRunning
    /\ main' = IF response # None THEN At("take", None) ELSE At("idle", None)
    /\ UNCHANGED <<requestVars, high, loader, response, engine>>

\* ReloadModules, and the response is reset.
Take ==
    /\ main.pc = "take"
    /\ engine' = response
    /\ response' = None
    /\ main' = At("idle", None)
    /\ UNCHANGED <<requestVars, high, loader>>

-----------------------------------------------------------------------------
(* The loader's thread: StartReloadLoop.                                   *)

\* Mutant: the loop ends only when there is no request at all.
GetPendingUnlessEmpty ==
    /\ loader.pc = "get"
    /\ \/ requests = {} /\ loader' = At("exit", None)
       \/ \E r \in requests : IsFront(r) /\ loader' = At(IF high THEN "build" ELSE "await", r)
    /\ UNCHANGED <<requestVars, high, main, response, engine>>

\* Nothing to do when there is no request, or the first one is in use.
GetPendingRequestData ==
    /\ loader.pc = "get"
    /\ \/ /\ requests = {} \/ IsFront(current)
          /\ loader' = At("exit", None)
       \/ \E r \in requests \ {current} :
             IsFront(r) /\ loader' = At(IF high THEN "build" ELSE "await", r)
    /\ UNCHANGED <<requestVars, high, main, response, engine>>

\* Mutant: woken by a request of high priority, the loop keeps the one it had.
AwaitKeepsRequest ==
    /\ loader.pc = "await"
    /\ loader' = At(IF high THEN "get" ELSE "build", loader.request)
    /\ UNCHANGED <<requestVars, high, main, response, engine>>

\* Up to 100 ms for a request of high priority; the loop starts again when one came.
Await ==
    /\ loader.pc = "await"
    /\ loader' = IF high THEN At("get", None) ELSE At("build", loader.request)
    /\ UNCHANGED <<requestVars, high, main, response, engine>>

Build ==
    /\ loader.pc = "build"
    /\ \E pc \in {"callback", "failure"} : loader' = At(pc, loader.request)
    /\ UNCHANGED <<requestVars, high, main, response, engine>>

\* The callback of SendEngineReloadRequest, which always succeeds.
Callback ==
    /\ loader.pc = "callback"
    /\ response' = loader.request
    /\ loader' = At("success", loader.request)
    /\ UNCHANGED <<requestVars, high, main, engine>>

\* Mutant: what goes first by now counts as loaded, not what was loaded.
ReportFrontLoaded ==
    /\ loader.pc = "success"
    /\ current' = CHOOSE r \in requests : IsFront(r)
    /\ loader' = At("get", None)
    /\ UNCHANGED <<requests, newer, unregistered, high, main, response, engine>>

ReportLoadSuccess ==
    /\ loader.pc = "success"
    /\ current' = loader.request
    /\ loader' = At("get", None)
    /\ UNCHANGED <<requests, newer, unregistered, high, main, response, engine>>

\* Mutant: what failed stays registered.
ReportLoadFailureOnly ==
    /\ loader.pc = "failure"
    /\ unregistered' = unregistered \cup {loader.request}
    /\ loader' = At("get", None)
    /\ UNCHANGED <<requests, newer, current, high, main, response, engine>>

ReportLoadFailure ==
    /\ loader.pc = "failure"
    /\ requests' = requests \ {loader.request}
    /\ newer' = Without(newer, loader.request)
    /\ unregistered' = unregistered \cup {loader.request}
    /\ loader' = At("get", None)
    /\ UNCHANGED <<current, high, main, response, engine>>

\* The thread has left its loop; now its future is ready.
Exit ==
    /\ loader.pc = "exit"
    /\ loader' = At("ready", None)
    /\ UNCHANGED <<requestVars, high, main, response, engine>>

-----------------------------------------------------------------------------
Init ==
    /\ requests = {}
    /\ newer = {}
    /\ unregistered = {}
    /\ current = None
    /\ high = FALSE
    /\ loader = At("ready", None)
    /\ main = At("idle", None)
    /\ response = None
    /\ engine \in {None, BuiltIn}

Loader == GetPendingRequestData \/ Await \/ Build \/ Callback
             \/ ReportLoadSuccess \/ ReportLoadFailure \/ Exit

Main == (\E r \in Request : RegisterRequest(r)) \/ Notify \/ Schedule
             \/ MaybeReloadEngine \/ Wait \/ Take

Next == Loader \/ Main

Spec == Init /\ [][Next]_vars

\* Both threads run; nothing makes a client send another request.
Fairness == WF_vars(Loader) /\ WF_vars(Notify \/ Schedule \/ Wait \/ Take)
FairSpec == Spec /\ Fairness

-----------------------------------------------------------------------------
(* Properties                                                              *)

LoaderPC == {"ready", "get", "await", "build", "callback", "success", "failure", "exit"}
MainPC == {"idle", "notify", "schedule", "wait", "take"}

TypeOK ==
    /\ requests \subseteq Request
    /\ newer \subseteq Request \X Request
    /\ unregistered \subseteq Request
    /\ current \in Request \cup {None}
    /\ high \in BOOLEAN
    /\ loader \in [pc : LoaderPC, request : Request \cup {None}]
    /\ loader.request \in Request
          <=> loader.pc \in {"await", "build", "callback", "success", "failure"}
    /\ main \in [pc : MainPC, request : Request \cup {None}]
    /\ main.request \in Request <=> main.pc \in {"notify", "schedule"}
    /\ response \in Request \cup {None}
    /\ engine \in Request \cup {None, BuiltIn}

\* The main thread touches loader_response_, which no lock protects, only while
\* the loader's thread is gone.
TakesAlone == main.pc = "take" => ~IsRunning /\ response # None

\* What the loader believes to be in use is what the engine runs on or is about to
\* take; otherwise a request would be refused for data nobody has.
Delivered ==
    loader.pc # "success" =>
       current = IF response # None THEN response
                 ELSE IF engine \in Request THEN engine ELSE None

\* A request that failed is out for good: neither pending nor in use.
FailedStaysOut == unregistered \cap (requests \cup {current}) = {}

\* Loaded data is only ever replaced by data of the same or a higher priority.
NeverDowngraded ==
    [][(engine \in Request => engine' \in Request /\ Priority[engine'] <= Priority[engine])]_vars

\* Waiting for the loader comes to an end, however many requests are pending and
\* whichever of them fail.
WaitReturns == main.pc = "wait" ~> main.pc # "wait"

\* What the loop has left to do: it goes round for each pending request at most
\* once, and once more when what it works on has been overtaken.
Stage ==
    CASE loader.pc = "ready" -> 0
      [] loader.pc = "exit" -> 1
      [] loader.pc = "get" -> IF requests = {} \/ IsFront(current) THEN 2
                              ELSE IF high THEN 7 ELSE 9
      [] loader.pc = "await" -> 8
      [] loader.pc = "build" -> 6
      [] loader.pc \in {"callback", "failure"} -> 5
      [] loader.pc = "success" -> 4

Overtaken == loader.request # None /\ ~IsFront(loader.request)

LoopLeft == 20 * Cardinality(requests) + (IF Overtaken THEN 10 ELSE 0) + Stage

\* Every step of StartReloadLoop brings it nearer to its end, the retries after a
\* failure and after a wake-up included, and nothing sets it back while the main
\* thread waits for it: the loop cannot go round for ever on the same requests.
LoopShrinks ==
    [][/\ Loader => LoopLeft' < LoopLeft
       /\ main.pc = "wait" => LoopLeft' <= LoopLeft]_vars

\* data_loader.h:71: "Returns true the `request` is accepted ... Actual data-loading
\* task is executed asynchronously in a different thread": the request that goes
\* first is loaded, or given up, or another goes first.
AcceptedIsLoaded ==
    \A r \in Request :
       main = At("schedule", r) /\ IsFront(r) ~> current = r \/ ~IsFront(r)

=============================================================================
