------------------------------ MODULE Client_proofs ------------------------------
(***************************************************************************)
(* Proofs about Client, for every number of keys and every length of the   *)
(* journal: its types, with the states that the DCHECKs of Call and        *)
(* EnsureSession ask for, over all kinds of faults (TypeCorrect); that no  *)
(* call goes through more than MaxPlayBack + 9 steps (CallBounded); and    *)
(* that no key is delivered twice or late (OrderCorrect), except what a    *)
(* playback cut short leaves: both over all kinds of faults, and a lock    *)
(* at any moment.                                                          *)
(***************************************************************************)
EXTENDS Client, TLAPS

\* Inputs that type have a key.
Real == {in \in Input : in.type \in {"type", "next"} => in.key \in Keys}
Content == Seq(Keys)
Session == Content \cup {Void}
Process == [pc : PCs, input : Real, again : BOOLEAN, trial : 0 .. 1,
            at : 0 .. MaxPlayBack + 1]

ServerInv ==
    /\ server \in [up : BOOLEAN, version : Versions \cup {"same"}]
    /\ installed \in Versions \cup {"same"}
    /\ locked \in BOOLEAN
    /\ session \in Session
    /\ ~server.up => session = Void

ClientInv ==
    /\ status \in Status
    /\ proc \in Process
    /\ history \in Seq(Real) /\ Len(history) <= MaxPlayBack
    /\ proc.pc = "create" => status = "INVALID_SESSION"
    /\ proc.pc = "call" /\ ~proc.again => status = "OK"
    /\ proc.pc = "playback" => proc.again /\ proc.at >= 1

UserInv ==
    /\ shown \in Content /\ doc \in Content
    /\ typed \in 0 .. MaxKeys
    /\ torn \subseteq Keys

FaultInv == faults \in 0 .. MaxFaults

IInv == ServerInv /\ ClientInv /\ UserInv /\ FaultInv

LEMMA Bounds == MaxKeys \in Nat /\ MaxPlayBack \in Nat /\ MaxPlayBack > 0 /\ MaxFaults \in Nat
  <1>1. MaxKeys \in Nat /\ MaxPlayBack \in Nat \ {0} /\ MaxFaults \in Nat
    BY ClientAssumption, Zenon DEF ClientAssumption
  <1>2. QED
    BY <1>1

LEMMA IdleProcess == Idle \in Process /\ Idle.pc = "idle"
  BY Bounds DEF Idle, Process, Real, Input, PCs

-----------------------------------------------------------------------------
(* What an input makes of a session.                                        *)

LEMMA AfterContent ==
  ASSUME NEW c \in Content, NEW in \in Real
  PROVE  After(c, in) \in Content /\ Result(c, in) \in Content
  <1>1. <<>> \in Content
    BY DEF Content
  <1>2. in.type \in {"type", "next", "enter", "submit"}
    BY DEF Real, Input
  <1>3. CASE in.type = "type"
    BY <1>1, <1>3 DEF After, Result, Content, Real
  <1>4. CASE in.type = "next"
    BY <1>4 DEF After, Result, Content, Real
  <1>5. CASE in.type \notin {"type", "next"}
    BY <1>1, <1>5 DEF After, Result
  <1>6. QED
    BY <1>3, <1>4, <1>5

LEMMA LateKeys ==
  ASSUME NEW s \in Session
  PROVE  /\ Late(s) \subseteq Keys
         /\ s # Void => \A i \in 1 .. Len(s) :
               s[i] \in Late(s) \/ ~\E n \in 1 .. Len(doc) : s[i] <= doc[n]
  <1>1. CASE s = Void
    BY <1>1 DEF Late
  <1>2. CASE s \in Seq(Keys) /\ s # Void
    <2>1. Late(s) = {key \in ToSet(s) : \E i \in 1 .. Len(doc) : key <= doc[i]}
      BY <1>2 DEF Late
    <2>2. ToSet(s) = {s[i] : i \in 1 .. Len(s)}
      BY <1>2 DEF ToSet
    <2>3. QED
      BY <1>2, <2>1, <2>2
  <1>3. QED
    BY <1>1, <1>2 DEF Session, Content

LEMMA ExecutedSession ==
  ASSUME ServerInv, NEW in \in Real
  PROVE  Executed(in) \in Session
  BY AfterContent DEF Executed, Refused, ServerInv, Session

-----------------------------------------------------------------------------
(* Calls and connections.                                                   *)

LEMMA FaultStep ==
  ASSUME FaultInv, NEW kind, Fault(kind)
  PROVE  FaultInv'
  BY Bounds DEF FaultInv, Fault

LEMMA CallFailsInv ==
  ASSUME ServerInv, FaultInv, status \in Status, NEW after \in Session, NEW st,
         CallFails(after, st)
  PROVE  ServerInv' /\ FaultInv' /\ st \in Status
  <1>1. CASE UNCHANGED <<serverVars, session, faults>> /\ st \in {status, "UNKNOWN", "SHUTDOWN"}
    BY <1>1 DEF serverVars, ServerInv, FaultInv, Status
  <1>2. CASE /\ Reached /\ Fault("crash") /\ st = "SHUTDOWN"
             /\ server' = Down /\ session' = Void /\ locked' = FALSE
             /\ UNCHANGED installed
    <2>1. FaultInv'
      BY <1>2, FaultStep
    <2>2. QED
      BY <1>2, <2>1 DEF ServerInv, Session, Down, Status
  <1>3. CASE /\ Reached
             /\ \/ Fault("timeout") /\ st = "TIMEOUT" /\ session' \in {session, after}
                \/ Fault("error") /\ st = "SHUTDOWN" /\ session' \in {session, after}
                \/ Fault("broken") /\ st = "BROKEN_MESSAGE" /\ session' = after
             /\ UNCHANGED serverVars
    <2>1. FaultInv'
      BY <1>3, FaultStep
    <2>2. QED
      BY <1>3, <2>1 DEF serverVars, ServerInv, Reached, Status, Silent
  <1>4. QED
    BY <1>1, <1>2, <1>3 DEF CallFails

LEMMA ConnectionInv ==
  ASSUME FaultInv, installed \in Versions \cup {"same"},
         NEW s \in [up : BOOLEAN, version : Versions \cup {"same"}],
         NEW st \in Status, EnsureConnection(st, s)
  PROVE  /\ server' \in [up : BOOLEAN, version : Versions \cup {"same"}]
         /\ status' \in {"OK", "INVALID_SESSION", "FATAL"}
         /\ status' = "OK" => st = "OK"
         /\ server' = s \/ server'.up
         /\ FaultInv'
  <1>1. Launched(s) \in [up : BOOLEAN, version : Versions \cup {"same"}] /\ Launched(s).up
    BY DEF Launched
  <1>2. FaultInv'
    BY FaultStep DEF EnsureConnection, FaultInv
  <1>3. server' \in {s, Launched(s)}
    BY DEF EnsureConnection
  <1>4. status' \in {"OK", "INVALID_SESSION", "FATAL"} /\ (status' = "OK" => st = "OK")
    BY DEF EnsureConnection
  <1>5. QED
    BY <1>1, <1>2, <1>3, <1>4

-----------------------------------------------------------------------------
(* The steps.                                                               *)

LEMMA InitInv == Init => IInv
  <1> SUFFICES ASSUME Init PROVE IInv
    OBVIOUS
  <1>1. ServerInv
    BY DEF Init, ServerInv, Session
  <1>2. ClientInv
    <2>1. history \in Seq(Real) /\ Len(history) <= MaxPlayBack
      BY Bounds DEF Init
    <2>2. QED
      BY <2>1, IdleProcess DEF Init, ClientInv, Status
  <1>3. UserInv /\ FaultInv
    BY Bounds DEF Init, UserInv, FaultInv, Content
  <1>4. QED
    BY <1>1, <1>2, <1>3 DEF IInv

LEMMA WorldStep ==
  ASSUME IInv, ServerDown \/ OtherLaunch \/ Evict \/ BeginSyncLock \/ EndSyncLock \/ Upgrade
  PROVE  IInv'
  <1>1. ClientInv' /\ UserInv'
    <2>1. UNCHANGED <<status, proc, history, shown, doc, typed, torn>>
      BY DEF ServerDown, OtherLaunch, Evict, BeginSyncLock, EndSyncLock, Upgrade, userVars
    <2>2. QED
      BY <2>1 DEF IInv, ClientInv, UserInv
  <1>2. FaultInv'
    BY FaultStep DEF IInv, FaultInv, ServerDown, OtherLaunch, Evict, BeginSyncLock,
       EndSyncLock, Upgrade
  <1>3. ServerInv'
    <2>1. CASE ServerDown
      BY <2>1 DEF IInv, ServerInv, ServerDown, Down, Session
    <2>2. CASE OtherLaunch
      BY <2>2 DEF IInv, ServerInv, OtherLaunch
    <2>3. CASE Evict
      BY <2>3 DEF IInv, ServerInv, Evict, serverVars, Session
    <2>4. CASE BeginSyncLock \/ EndSyncLock
      BY <2>4 DEF IInv, ServerInv, BeginSyncLock, EndSyncLock
    <2>5. CASE Upgrade
      BY <2>5 DEF IInv, ServerInv, Upgrade
    <2>6. QED
      BY <2>1, <2>2, <2>3, <2>4, <2>5
  <1>4. QED
    BY <1>1, <1>2, <1>3 DEF IInv

LEMMA SendStep == ASSUME IInv, Send PROVE IInv'
  <1>1. PICK type \in {"type", "next", "enter", "submit"}, key \in {typed + 1, 0} :
          /\ key = IF type \in {"type", "next"} THEN typed + 1 ELSE 0
          /\ typed' = typed + (IF key = 0 THEN 0 ELSE 1) /\ typed' <= MaxKeys
          /\ proc' = [Idle EXCEPT !.pc = "connect", !.input = [type |-> type, key |-> key]]
    BY DEF Send
  <1>2. typed \in Nat /\ typed <= MaxKeys
    BY Bounds DEF IInv, UserInv
  <1>3. typed' \in 0 .. MaxKeys /\ key \in 0 .. MaxKeys /\ (type \in {"type", "next"} => key \in Keys)
    BY <1>1, <1>2, Bounds DEF Keys
  <1>4. [type |-> type, key |-> key] \in Real
    BY <1>3 DEF Real, Input
  <1>5. proc' \in Process /\ proc'.pc = "connect"
    BY <1>1, <1>4, IdleProcess DEF Process, PCs
  <1>6. UNCHANGED <<server, installed, locked, session, status, history, shown, doc, torn, faults>>
    BY DEF Send, serverVars
  <1>7. QED
    BY <1>3, <1>5, <1>6 DEF IInv, ServerInv, ClientInv, UserInv, FaultInv

LEMMA EnsureSessionStep == ASSUME IInv, EnsureSession PROVE IInv'
  <1>1. /\ server' \in [up : BOOLEAN, version : Versions \cup {"same"}]
        /\ status' \in {"OK", "INVALID_SESSION", "FATAL"}
        /\ server' = server \/ server'.up
        /\ FaultInv'
    BY ConnectionInv DEF EnsureSession, IInv, ServerInv, ClientInv
  <1>2. UNCHANGED <<installed, session, locked, history, shown, doc, typed, torn>>
    BY DEF EnsureSession, userVars
  <1>3. /\ proc' \in Process
        /\ proc'.pc = "create" => status' = "INVALID_SESSION"
        /\ proc'.pc = "call" => status' = "OK"
        /\ proc'.pc # "playback"
    <2>1. CASE status' = "FATAL"
      BY <2>1, IdleProcess DEF EnsureSession
    <2>2. CASE status' = "OK"
      BY <2>2 DEF EnsureSession, IInv, ClientInv, Process, PCs
    <2>3. CASE status' = "INVALID_SESSION"
      <3>1. proc' = [proc EXCEPT !.pc = "create", !.trial = 0]
        BY <2>3 DEF EnsureSession
      <3>2. proc \in Process
        BY DEF IInv, ClientInv
      <3>3. proc' \in Process
        <4>1. 0 \in 0 .. 1 /\ "create" \in PCs
          BY DEF PCs
        <4>2. QED
          BY <3>1, <3>2, <4>1, Zenon DEF Process
      <3>4. proc'.pc = "create"
        BY <3>1, <3>2 DEF Process
      <3>5. QED
        BY <2>3, <3>3, <3>4
    <2>4. QED
      BY <1>1, <2>1, <2>2, <2>3
  <1>4. QED
    BY <1>1, <1>2, <1>3 DEF IInv, ServerInv, ClientInv, UserInv, Status, Silent

LEMMA GiveUpInv ==
  ASSUME IInv, NEW st \in Status,
         GiveUp(st, server), UNCHANGED locked
  PROVE  IInv'
  <1>1. /\ server' \in [up : BOOLEAN, version : Versions \cup {"same"}]
        /\ status' \in {"OK", "INVALID_SESSION", "FATAL"} /\ FaultInv'
    BY ConnectionInv DEF GiveUp, IInv, ServerInv
  <1>2. QED
    BY <1>1, IdleProcess
       DEF GiveUp, IInv, ServerInv, ClientInv, UserInv, userVars, Session, Status, Silent

LEMMA RestartStep == ASSUME IInv, proc.pc = "create", RestartServer PROVE IInv'
  <1>1. CASE GiveUp("BROKEN_MESSAGE", server) /\ UNCHANGED locked
    BY <1>1, GiveUpInv DEF Status, Silent
  <1>2. CASE /\ proc.trial = 0
             /\ EnsureConnection("UNKNOWN", Down)
             /\ proc' = IF status' = "FATAL" THEN Idle ELSE [proc EXCEPT !.trial = 1]
             /\ session' = Void /\ locked' = FALSE
             /\ UNCHANGED <<installed, history, userVars>>
    <2>1. Down \in [up : BOOLEAN, version : Versions \cup {"same"}]
      BY DEF Down, IInv, ServerInv
    <2>2. /\ server' \in [up : BOOLEAN, version : Versions \cup {"same"}]
          /\ status' \in {"INVALID_SESSION", "FATAL"} /\ FaultInv'
      BY <1>2, <2>1, ConnectionInv DEF IInv, ServerInv, Status, Silent
    <2>3. /\ proc' \in Process
          /\ status' = "FATAL" => proc'.pc = "idle"
          /\ status' # "FATAL" => proc'.pc = "create"
      BY <1>2, IdleProcess DEF IInv, ClientInv, Process
    <2>4. QED
      BY <1>2, <2>2, <2>3 DEF IInv, ServerInv, ClientInv, UserInv, userVars, Session, Status, Silent
  <1>3. QED
    BY <1>1, <1>2 DEF RestartServer

LEMMA CreateStep == ASSUME IInv, CreateSession PROVE IInv'
  <1>1. CASE RestartServer
    BY <1>1, RestartStep DEF CreateSession
  <1>2. CASE \E st \in {"VERSION_MISMATCH", "SHUTDOWN", "INVALID_SESSION"} :
               GiveUp(st, server) /\ UNCHANGED locked
    BY <1>2, GiveUpInv DEF Status, Silent
  <1>3. CASE /\ Reached /\ "crash" \in Faults /\ faults < MaxFaults
             /\ faults' = faults + 1
             /\ status' = "INVALID_SESSION" /\ server' = Launched(Down)
             /\ proc' = Idle /\ session' = Void /\ locked' = FALSE
             /\ UNCHANGED <<installed, history, userVars>>
    <2>1. FaultInv'
      BY <1>3, Bounds DEF IInv, FaultInv
    <2>2. QED
      BY <1>3, <2>1, IdleProcess
         DEF IInv, ServerInv, ClientInv, UserInv, userVars, Session, Status, Launched, Down
  <1>4. CASE /\ Reached /\ (Fault("timeout") \/ Fault("broken"))
             /\ status' = "FATAL" /\ proc' = Idle /\ session' = Void
             /\ UNCHANGED <<serverVars, history, userVars>>
    <2>1. FaultInv'
      BY <1>4, FaultStep DEF IInv
    <2>2. QED
      BY <1>4, <2>1, IdleProcess
         DEF IInv, ServerInv, ClientInv, UserInv, serverVars, userVars, Session, Status, Silent
  <1>5. CASE /\ server.up /\ server.version = "same"
             /\ session' = <<>> /\ status' = "OK"
             /\ proc' = IF proc.again THEN [proc EXCEPT !.pc = "playback", !.at = 1]
                        ELSE [proc EXCEPT !.pc = "call"]
             /\ UNCHANGED <<serverVars, history, userVars, faults>>
    <2>1. /\ proc' \in Process /\ proc'.pc \in {"playback", "call"}
          /\ proc'.pc = "playback" => proc'.again /\ proc'.at >= 1
      <3>1. proc \in Process
        BY DEF IInv, ClientInv
      <3>2. CASE proc.again /\ proc' = [proc EXCEPT !.pc = "playback", !.at = 1]
        <4>1. 1 \in 0 .. MaxPlayBack + 1
          BY Bounds
        <4>2. proc' \in Process
          BY <3>1, <3>2, <4>1 DEF Process, PCs
        <4>3. proc'.pc = "playback" /\ proc'.again /\ proc'.at = 1
          BY <3>1, <3>2 DEF Process
        <4>4. QED
          BY <4>2, <4>3
      <3>3. CASE proc' = [proc EXCEPT !.pc = "call"]
        <4>1. proc' \in Process /\ proc'.pc = "call"
          BY <3>1, <3>3 DEF Process, PCs
        <4>2. QED
          BY <4>1
      <3>4. QED
        BY <1>5, <3>2, <3>3
    <2>2. session' \in Session
      BY <1>5 DEF Session, Content
    <2>3. QED
      BY <1>5, <2>1, <2>2
         DEF IInv, ServerInv, ClientInv, UserInv, FaultInv, serverVars, userVars, Status
  <1>6. QED
    BY <1>1, <1>2, <1>3, <1>4, <1>5 DEF CreateSession

LEMMA PlaybackStep == ASSUME IInv, Playback PROVE IInv'
  <1>1. /\ proc.pc = "playback" /\ proc.again /\ proc \in Process
        /\ UNCHANGED <<shown, doc, typed>>
    BY DEF Playback, IInv, ClientInv
  <1>2. ASSUME torn' \subseteq Keys
        PROVE  UserInv'
    BY <1>1, <1>2 DEF IInv, UserInv
  <1>3. [proc EXCEPT !.pc = "call"] \in Process
    BY <1>1 DEF Process, PCs
  <1>4. CASE JournalFull
    <2>1. /\ history' = <<>> /\ proc' = [proc EXCEPT !.pc = "call"]
          /\ UNCHANGED <<serverVars, session, status, torn, faults>>
      BY <1>4 DEF Playback
    <2>2. UserInv'
      BY <1>2, <2>1 DEF IInv, UserInv
    <2>3. QED
      BY <1>1, <1>3, <2>1, <2>2, Bounds
         DEF IInv, ServerInv, ClientInv, FaultInv, serverVars, Process
  <1>5. CASE ~JournalFull /\ proc.at > Len(history)
    <2>1. /\ proc' = [proc EXCEPT !.pc = "call"]
          /\ UNCHANGED <<serverVars, session, status, history, torn, faults>>
      BY <1>5 DEF Playback
    <2>2. UserInv'
      BY <1>2, <2>1 DEF IInv, UserInv
    <2>3. QED
      BY <1>1, <1>3, <2>1, <2>2
         DEF IInv, ServerInv, ClientInv, FaultInv, serverVars, Process
  <1>6. CASE ~JournalFull /\ ~(proc.at > Len(history))
    <2> DEFINE in == history[proc.at]
    <2>0. Executed(in) \in Session
      <3>1. proc.at \in 1 .. Len(history)
        BY <1>1, <1>6 DEF IInv, ClientInv, Process
      <3>2. in \in Real
        BY <3>1 DEF IInv, ClientInv
      <3>3. QED
        BY <3>2, ExecutedSession DEF IInv
    <2>1. UNCHANGED history
      BY <1>6 DEF Playback
    <2>2. proc.at + 1 \in 0 .. MaxPlayBack + 1
      BY <1>1, <1>6, Bounds DEF IInv, ClientInv, Process
    <2>3. CASE /\ Reached
               /\ session' = Executed(in)
               /\ torn' = IF Refused THEN torn \cup Late(session) ELSE torn
               /\ proc' = [proc EXCEPT !.at = @ + 1]
               /\ UNCHANGED <<serverVars, status, faults>>
      <3>1. proc' \in Process /\ proc'.pc = "playback" /\ proc'.again /\ proc'.at >= 1
        BY <1>1, <2>2, <2>3 DEF Process
      <3>2. server.up
        BY <2>3 DEF Reached
      <3>3. session' \in Session
        BY <2>3, <2>0
      <3>4. UserInv'
        BY <1>2, <2>3, LateKeys DEF IInv, ServerInv, UserInv
      <3>5. QED
        BY <2>1, <2>3, <3>1, <3>2, <3>3, <3>4
           DEF IInv, ServerInv, ClientInv, FaultInv, serverVars
    <2>4. CASE \E st \in Status : /\ CallFails(Executed(in), st)
                                  /\ status' = st
                                  /\ torn' = torn \cup Late(session')
                                  /\ proc' = [proc EXCEPT !.pc = "call"]
      <3>1. PICK st \in Status : /\ CallFails(Executed(in), st)
                                 /\ status' = st
                                 /\ torn' = torn \cup Late(session')
                                 /\ proc' = [proc EXCEPT !.pc = "call"]
        BY <2>4
      <3>2. ServerInv' /\ FaultInv'
        BY <2>0, <3>1, CallFailsInv DEF IInv, ClientInv
      <3>3. proc' \in Process /\ proc'.pc = "call" /\ proc'.again
        BY <1>1, <1>3, <3>1 DEF Process
      <3>4. session' \in Session
        BY <3>2 DEF ServerInv
      <3>5. UserInv'
        BY <1>2, <3>1, <3>4, LateKeys DEF IInv, UserInv
      <3>6. QED
        BY <2>1, <3>1, <3>2, <3>3, <3>5 DEF IInv, ClientInv
    <2>5. QED
      BY <1>6, <2>3, <2>4 DEF Playback
  <1>7. QED
    BY <1>4, <1>5, <1>6

LEMMA JournalInv ==
  ASSUME IInv, session \in Content, NEW in \in Real, PushHistory(in)
  PROVE  history' \in Seq(Real) /\ Len(history') <= MaxPlayBack
  <1>1. history \in Seq(Real) /\ Len(history) \in Nat /\ Len(history) <= MaxPlayBack
    BY DEF IInv, ClientInv
  <1>2. CASE history' = history
    BY <1>1, <1>2
  <1>3. CASE history' = <<>>
    BY <1>3, Bounds
  <1>4. CASE history' = Append(history, in) /\ ~(Len(history) >= MaxPlayBack)
    BY <1>1, <1>4, Bounds
  <1>5. QED
    BY <1>2, <1>3, <1>4 DEF PushHistory

LEMMA CallCommandStep == ASSUME IInv, CallCommand PROVE IInv'
  <1> DEFINE in == proc.input
  <1>1. proc \in Process /\ in \in Real /\ status \in Status
    BY DEF IInv, ClientInv, Process
  <1>2. Executed(in) \in Session
    BY <1>1, ExecutedSession DEF IInv
  <1>3. /\ [proc EXCEPT !.pc = "connect", !.again = TRUE] \in Process
        /\ [proc EXCEPT !.pc = "connect", !.again = TRUE].pc = "connect"
    BY <1>1 DEF Process, PCs
  <1>4. CASE /\ Reached /\ status \notin Silent /\ ~Refused
             /\ session' = Executed(in)
             /\ PushHistory(in)
             /\ doc' = doc \o Result(session, in)
             /\ shown' = session'
             /\ proc' = Idle
             /\ UNCHANGED <<serverVars, status, typed, torn, faults>>
    <2>1. session \in Content
      BY <1>4 DEF Refused, IInv, ServerInv, Session
    <2>2. Result(session, in) \in Content /\ session' \in Content
      BY <1>1, <1>4, <2>1, AfterContent DEF Executed
    <2>3. doc' \in Content /\ shown' \in Content
      BY <1>4, <2>2 DEF IInv, UserInv, Content
    <2>4. history' \in Seq(Real) /\ Len(history') <= MaxPlayBack
      BY <1>1, <1>4, <2>1, JournalInv
    <2>5. ServerInv'
      BY <1>4, <2>2 DEF IInv, ServerInv, Reached, serverVars, Session
    <2>6. ClientInv'
      BY <1>1, <1>4, <2>4, IdleProcess DEF ClientInv
    <2>7. UserInv' /\ FaultInv'
      BY <1>4, <2>3 DEF IInv, UserInv, FaultInv
    <2>8. QED
      BY <2>5, <2>6, <2>7 DEF IInv
  <1>5. CASE /\ Reached /\ status \notin Silent /\ Refused
             /\ status' = IF proc.again THEN status ELSE "INVALID_SESSION"
             /\ proc' = IF proc.again THEN Idle
                        ELSE [proc EXCEPT !.pc = "connect", !.again = TRUE]
             /\ UNCHANGED <<serverVars, session, history, userVars, faults>>
    <2>1. proc' \in Process /\ proc'.pc \in {"idle", "connect"} /\ status' \in Status
      BY <1>1, <1>3, <1>5, IdleProcess DEF Status
    <2>2. QED
      BY <1>5, <2>1
         DEF IInv, ServerInv, ClientInv, UserInv, FaultInv, serverVars, userVars
  <1>6. CASE /\ history' = <<>> /\ proc' = Idle
             /\ UNCHANGED <<serverVars, session, status, userVars, faults>>
    BY <1>6, IdleProcess, Bounds
       DEF IInv, ServerInv, ClientInv, UserInv, FaultInv, serverVars, userVars
  <1>7. CASE /\ \E st \in Status : CheckedCallFails(Executed(in), st) /\ status' = st
             /\ IF proc.again
                THEN history' = <<>> /\ proc' = Idle
                ELSE /\ proc' = IF status' \in Silent THEN Idle
                                ELSE [proc EXCEPT !.pc = "connect", !.again = TRUE]
                     /\ UNCHANGED history
             /\ UNCHANGED userVars
    <2>1. ServerInv' /\ FaultInv' /\ status' \in Status
      BY <1>1, <1>2, <1>7, CallFailsInv DEF CheckedCallFails, IInv
    <2>2. proc' \in Process /\ proc'.pc \in {"idle", "connect"}
      BY <1>3, <1>7, IdleProcess
    <2>3. history' \in Seq(Real) /\ Len(history') <= MaxPlayBack
      <3>1. CASE history' = <<>>
        BY <3>1, Bounds
      <3>2. CASE UNCHANGED history
        BY <3>2 DEF IInv, ClientInv
      <3>3. QED
        BY <1>7, <3>1, <3>2
    <2>4. UserInv'
      BY <1>7 DEF IInv, UserInv, userVars
    <2>5. QED
      BY <2>1, <2>2, <2>3, <2>4 DEF IInv, ClientInv
  <1>8. QED
    BY <1>4, <1>5, <1>6, <1>7 DEF CallCommand

LEMMA OtherCallStep == ASSUME IInv, OtherCall PROVE IInv'
  <1>1. PICK st \in Status : CallFails(session, st) /\ status' = st
    BY DEF OtherCall
  <1>2. ServerInv' /\ FaultInv'
    BY <1>1, CallFailsInv DEF IInv, ServerInv, ClientInv
  <1>3. proc.pc = "idle" /\ UNCHANGED <<proc, history, shown, doc, typed, torn>>
    BY DEF OtherCall, userVars
  <1>4. QED
    BY <1>1, <1>2, <1>3 DEF IInv, ClientInv, UserInv

LEMMA ResetStep == ASSUME IInv, Reset PROVE IInv'
  <1>1. /\ proc.pc = "idle" /\ status' = "UNKNOWN"
        /\ UNCHANGED <<server, installed, locked, session, proc, history, shown, doc,
                       typed, torn, faults>>
    BY DEF Reset, serverVars, userVars
  <1>2. QED
    BY <1>1 DEF IInv, ServerInv, ClientInv, UserInv, FaultInv, Status

LEMMA StepInv == IInv /\ [Next]_vars => IInv'
  <1> SUFFICES ASSUME IInv, [Next]_vars PROVE IInv'
    OBVIOUS
  <1>1. CASE Next
    BY <1>1, WorldStep, SendStep, EnsureSessionStep, CreateStep, PlaybackStep,
       CallCommandStep, OtherCallStep, ResetStep DEF Next, ClientStep
  <1>2. CASE UNCHANGED vars
    BY <1>2 DEF vars, serverVars, userVars, IInv, ServerInv, ClientInv, UserInv, FaultInv
  <1>3. QED
    BY <1>1, <1>2

LEMMA InvTypes == IInv => TypeOK
  <1> SUFFICES ASSUME IInv PROVE TypeOK
    OBVIOUS
  <1>1. Process \subseteq [pc : PCs, input : Input, again : BOOLEAN, trial : 0 .. 1,
                           at : 0 .. MaxPlayBack + 1]
    BY DEF Process, Real
  <1>2. history \in Seq(Input)
    BY DEF IInv, ClientInv, Real
  <1>3. QED
    BY <1>1, <1>2
       DEF TypeOK, IInv, ServerInv, ClientInv, UserInv, FaultInv, Session, Content

\* The variables keep their types; a session is created only while the status
\* asks for one, a call is first made only on a connection that is OK, the journal
\* keeps its bound, and a server that is down has no session: the DCHECKs of Call
\* and EnsureSession, over every crash, time-out, refusal and second trial.
THEOREM TypeCorrect == Spec => []TypeOK
  <1>1. Spec => []IInv
    BY InitInv, StepInv, PTL DEF Spec
  <1>2. QED
    BY <1>1, InvTypes, PTL
-----------------------------------------------------------------------------
(* The order of the keys.                                                   *)

Keyed(in) == in.type \in {"type", "next"}

\* The last key but one that is on its way.
Earlier == IF proc.pc # "idle" /\ Keyed(proc.input) THEN typed - 1 ELSE typed

Rising(s) == \A i, j \in 1 .. Len(s) : i < j => s[i] < s[j]
Below(s, key) == \A i \in 1 .. Len(s) : s[i] <= key
Delivered(key) == \E i \in 1 .. Len(doc) : key <= doc[i]
Fresh(s) == \A i \in 1 .. Len(s) : s[i] \in torn \/ ~Delivered(s[i])

\* The playback from here on commits what it has typed.
Submits(at) == \E i \in at .. Len(history) : history[i].type = "submit"

DocInv == TypedOnceInOrder /\ Below(doc, Earlier)
InputInv == proc.pc # "idle" /\ Keyed(proc.input) => proc.input.key = typed

\* A key of the journal that has been delivered is committed by the journal too.
JournalOrder ==
    /\ \A i, j \in 1 .. Len(history) :
          i < j /\ Keyed(history[i]) /\ Keyed(history[j]) => history[i].key < history[j].key
    /\ \A i \in 1 .. Len(history) : Keyed(history[i]) => history[i].key <= Earlier
    /\ JournalFull \/ \A i \in 1 .. Len(history) :
          Keyed(history[i]) /\ Delivered(history[i].key) => Submits(i)

SessionPlace == session # Void => server.up /\ server.version = "same"

\* The next input goes to this session: the connection is fine, or the playback
\* has broken off and the second trial is made all the same.
InUse == session # Void /\ (status = "OK" \/ (proc.pc = "call" /\ status \notin Silent))

\* A session that is in use holds no key that has been delivered, unless it is torn.
SessionOrder ==
    InUse =>
       /\ Rising(session) /\ Below(session, Earlier)
       /\ Fresh(session) \/ proc.pc = "playback"

CallInv == proc.pc = "connect" /\ proc.again => status # "OK"

PlaybackInv ==
    proc.pc = "playback" =>
       /\ status = "OK"
       /\ proc.at = 1 => session \in {Void, <<>>}
       /\ JournalFull => proc.at = 1
       /\ session # Void =>
             /\ \A i \in 1 .. Len(session), j \in proc.at .. Len(history) :
                   Keyed(history[j]) => session[i] < history[j].key
             /\ Fresh(session) \/ Submits(proc.at)

OrderInv ==
    /\ DocInv /\ InputInv /\ JournalOrder
    /\ SessionPlace /\ SessionOrder /\ CallInv /\ PlaybackInv

LEMMA Numbers ==
  ASSUME IInv
  PROVE  /\ typed \in Int /\ Earlier \in Int /\ Earlier <= typed
         /\ Len(doc) \in Nat /\ \A i \in 1 .. Len(doc) : doc[i] \in Int
         /\ Len(history) \in Nat
         /\ \A i \in 1 .. Len(history) : history[i] \in Real /\ history[i].key \in Int
         /\ session # Void => Len(session) \in Nat /\ \A i \in 1 .. Len(session) : session[i] \in Int
         /\ proc.input \in Real /\ proc.input.key \in Int /\ proc.at \in Int
         /\ MaxPlayBack \in Int /\ MaxPlayBack > 0
  <1>1. typed \in Int /\ Keys \subseteq Int
    BY Bounds DEF IInv, UserInv, Keys
  <1>2. Earlier \in Int /\ Earlier <= typed
    BY <1>1 DEF Earlier
  <1>3. Len(doc) \in Nat /\ \A i \in 1 .. Len(doc) : doc[i] \in Int
    <2>1. doc \in Seq(Keys)
      BY DEF IInv, UserInv, Content
    <2>2. \A i \in 1 .. Len(doc) : doc[i] \in Keys
      BY <2>1
    <2>3. \A k \in Keys : k \in Int
      BY <1>1
    <2>4. QED
      BY <2>1, <2>2, <2>3
  <1>4. session # Void => Len(session) \in Nat /\ \A i \in 1 .. Len(session) : session[i] \in Int
    <2> SUFFICES ASSUME session # Void
                 PROVE  Len(session) \in Nat /\ \A i \in 1 .. Len(session) : session[i] \in Int
      OBVIOUS
    <2>1. session \in Seq(Keys)
      BY DEF IInv, ServerInv, Session, Content
    <2>2. \A i \in 1 .. Len(session) : session[i] \in Keys
      BY <2>1
    <2>3. \A k \in Keys : k \in Int
      BY <1>1
    <2>4. QED
      BY <2>1, <2>2, <2>3
  <1>5. \A in \in Real : in.key \in Int
    BY Bounds DEF Real, Input
  <1>6. Len(history) \in Nat /\ \A i \in 1 .. Len(history) : history[i] \in Real
    BY DEF IInv, ClientInv
  <1>7. proc.input \in Real /\ proc.at \in Int
    BY Bounds DEF IInv, ClientInv, Process
  <1>8. QED
    BY <1>1, <1>2, <1>3, <1>4, <1>5, <1>6, <1>7, Bounds

LEMMA EmptyFine == \A key : Rising(<<>>) /\ Below(<<>>, key) /\ Fresh(<<>>) /\ <<>> # Void
  <1>1. <<>> # Void
    <2>1. Void \notin Seq(1 .. MaxKeys)
      BY ClientAssumption, Zenon DEF ClientAssumption
    <2>2. <<>> \in Seq(1 .. MaxKeys)
      OBVIOUS
    <2>3. QED
      BY <2>1, <2>2, Zenon
  <1>2. QED
    BY <1>1 DEF Rising, Below, Fresh

LEMMA InitOrder == Init => OrderInv
  <1> SUFFICES ASSUME Init PROVE OrderInv
    OBVIOUS
  <1> USE DEF Init
  <1>1. Idle.pc = "idle"
    BY DEF Idle
  <1>2. DocInv /\ InputInv
    BY <1>1 DEF DocInv, InputInv, TypedOnceInOrder, Below
  <1>3. JournalOrder
    BY DEF JournalOrder
  <1>4. QED
    BY <1>1, <1>2, <1>3 DEF OrderInv, SessionPlace, SessionOrder, InUse, CallInv, PlaybackInv

\* A step that delivers nothing and takes up nothing.
LEMMA Retained ==
  ASSUME IInv, OrderInv, UNCHANGED <<doc, typed>>, torn \subseteq torn',
         history' \in {history, <<>>},
         \/ proc'.pc = "idle"
         \/ proc.pc # "idle" /\ proc'.input = proc.input
  PROVE  DocInv' /\ InputInv' /\ JournalOrder' /\ Earlier' \in Int /\ Earlier <= Earlier'
  <1>1. Earlier' \in Int /\ Earlier <= Earlier'
    BY Numbers DEF Earlier, Keyed
  <1>2. DocInv'
    BY <1>1, Numbers DEF OrderInv, DocInv, TypedOnceInOrder, Below
  <1>3. InputInv'
    BY DEF OrderInv, InputInv, Keyed
  <1>4. JournalOrder'
    <2>1. CASE history' = <<>>
      BY <2>1 DEF JournalOrder
    <2>2. CASE history' = history
      <3>1. \A i \in 1 .. Len(history) :
              Keyed(history[i]) => history[i].key <= Earlier'
        BY <1>1, Numbers DEF OrderInv, JournalOrder
      <3>2. QED
        BY <2>2, <3>1 DEF OrderInv, JournalOrder, Keyed, Delivered, Submits, JournalFull
    <2>3. QED
      BY <2>1, <2>2
  <1>5. QED
    BY <1>1, <1>2, <1>3, <1>4

\* The session is kept or given up.
LEMMA SessionKept ==
  ASSUME IInv, OrderInv, UNCHANGED doc, torn \subseteq torn',
         Earlier' \in Int, Earlier <= Earlier',
         session' \in {session, Void, <<>>},
         InUse' => InUse \/ session' \in {Void, <<>>},
         proc.pc = "playback" =>
            proc'.pc = "playback" \/ session' \in {Void, <<>>} \/ Fresh(session)
  PROVE  SessionOrder'
  <1>1. CASE session' \in {Void, <<>>}
    BY <1>1, EmptyFine DEF SessionOrder, InUse, Rising, Below, Fresh
  <1>2. CASE session' = session /\ session \notin {Void, <<>>} /\ InUse'
    <2>1. Rising(session) /\ Below(session, Earlier) /\ (Fresh(session) \/ proc.pc = "playback")
      BY <1>2 DEF OrderInv, SessionOrder
    <2>2. Rising(session') /\ Below(session, Earlier')
      BY <1>2, <2>1, Numbers DEF Rising, Below
    <2>3. Fresh(session)' \/ proc'.pc = "playback"
      BY <1>2, <2>1 DEF Fresh, Delivered
    <2>4. QED
      BY <1>2, <2>2, <2>3 DEF SessionOrder, Rising, Below
  <1>3. CASE ~InUse'
    BY <1>3 DEF SessionOrder
  <1>4. QED
    BY <1>1, <1>2, <1>3

\* A call that fails leaves the session as it was or as it would be, or none.
LEMMA FailedCall ==
  ASSUME SessionPlace, NEW after, NEW st, CallFails(after, st),
         after # Void => session # Void
  PROVE  /\ SessionPlace'
         /\ st = "OK" => status = "OK" /\ server.up /\ ~Reached /\ session' = Void
         /\ session' \in {session, after, Void}
  <1>1. CASE ~server.up /\ st \in {"UNKNOWN", "SHUTDOWN"} /\ UNCHANGED <<serverVars, session, faults>>
    BY <1>1 DEF SessionPlace, serverVars
  <1>2. CASE server.up /\ ~Reached /\ st = status /\ UNCHANGED <<serverVars, session, faults>>
    BY <1>2 DEF SessionPlace, serverVars, Reached
  <1>3. CASE /\ Reached /\ st = "SHUTDOWN" /\ session' = Void /\ locked' = FALSE
    BY <1>3 DEF SessionPlace
  <1>4. CASE /\ Reached /\ st \in {"TIMEOUT", "SHUTDOWN", "BROKEN_MESSAGE"}
             /\ session' \in {session, after}
             /\ UNCHANGED serverVars
    BY <1>4 DEF SessionPlace, serverVars
  <1>5. QED
    BY <1>1, <1>2, <1>3, <1>4 DEF CallFails, Fault

LEMMA ExecutedPlace ==
  ASSUME NEW in
  PROVE  Executed(in) # Void => session # Void
  BY DEF Executed, Refused

-----------------------------------------------------------------------------
(* The order, step by step.                                                 *)

LEMMA WorldOrder ==
  ASSUME IInv, OrderInv,
         ServerDown \/ OtherLaunch \/ Evict \/ BeginSyncLock \/ EndSyncLock \/ Upgrade
  PROVE  OrderInv'
  <1>1. /\ UNCHANGED <<status, proc, history, doc, typed, torn>>
        /\ session' \in {session, Void}
    BY DEF ServerDown, OtherLaunch, Evict, BeginSyncLock, EndSyncLock, Upgrade, userVars
  <1>2. SessionPlace'
    <2>1. CASE ServerDown
      BY <2>1 DEF ServerDown, SessionPlace
    <2>2. CASE OtherLaunch
      BY <2>2 DEF OtherLaunch, OrderInv, SessionPlace
    <2>3. CASE Evict
      BY <2>3 DEF Evict, SessionPlace
    <2>4. CASE BeginSyncLock \/ EndSyncLock \/ Upgrade
      BY <2>4 DEF BeginSyncLock, EndSyncLock, Upgrade, OrderInv, SessionPlace
    <2>5. QED
      BY <2>1, <2>2, <2>3, <2>4
  <1>3. DocInv' /\ InputInv' /\ JournalOrder' /\ Earlier' \in Int /\ Earlier <= Earlier'
    <2>1. proc'.pc = "idle" \/ (proc.pc # "idle" /\ proc'.input = proc.input)
      BY <1>1
    <2>2. QED
      BY <1>1, <2>1, Retained
  <1>4. SessionOrder'
    BY <1>1, <1>3, SessionKept DEF InUse
  <1>5. CallInv'
    BY <1>1 DEF OrderInv, CallInv
  <1>6. PlaybackInv'
    BY <1>1 DEF OrderInv, PlaybackInv, Keyed, Fresh, Delivered, Submits, JournalFull
  <1>7. QED
    BY <1>2, <1>3, <1>4, <1>5, <1>6 DEF OrderInv

LEMMA SendOrder == ASSUME IInv, OrderInv, Send PROVE OrderInv'
  <1>1. PICK type \in {"type", "next", "enter", "submit"}, key \in {typed + 1, 0} :
          /\ key = IF type \in {"type", "next"} THEN typed + 1 ELSE 0
          /\ typed' = typed + (IF key = 0 THEN 0 ELSE 1) /\ typed' <= MaxKeys
          /\ proc' = [Idle EXCEPT !.pc = "connect", !.input = [type |-> type, key |-> key]]
    BY DEF Send
  <1>2. /\ proc.pc = "idle" /\ proc'.pc = "connect" /\ ~proc'.again
        /\ proc'.input.type = type /\ proc'.input.key = key
        /\ UNCHANGED <<server, session, status, history, doc, torn>>
    BY <1>1 DEF Send, Idle, serverVars
  <1>3. typed \in Nat
    BY Bounds DEF IInv, UserInv
  <1>4. Earlier' = Earlier /\ (Keyed(proc'.input) => proc'.input.key = typed')
    BY <1>1, <1>2, <1>3 DEF Earlier, Keyed
  <1>5. DocInv' /\ InputInv'
    BY <1>2, <1>4 DEF OrderInv, DocInv, InputInv, TypedOnceInOrder, Below, Keyed
  <1>6. JournalOrder'
    BY <1>2, <1>4 DEF OrderInv, JournalOrder, Keyed, Delivered, Submits, JournalFull
  <1>7. SessionPlace' /\ SessionOrder'
    BY <1>2, <1>4 DEF OrderInv, SessionPlace, SessionOrder, InUse, Rising, Below, Fresh, Delivered
  <1>8. CallInv' /\ PlaybackInv'
    BY <1>2 DEF CallInv, PlaybackInv
  <1>9. QED
    BY <1>5, <1>6, <1>7, <1>8 DEF OrderInv

\* Steps after which the process is where it makes no call.
LEMMA Parked ==
  ASSUME IInv, OrderInv, UNCHANGED <<doc, typed, torn>>, history' \in {history, <<>>},
         proc'.pc \in {"idle", "create"} \/ (proc'.pc = "connect" /\ status' # "OK"),
         proc'.pc = "idle" \/ (proc.pc # "idle" /\ proc'.input = proc.input),
         session' \in {session, Void},
         status' = "OK" => status = "OK" \/ session' = Void,
         SessionPlace',
         proc.pc # "playback"
  PROVE  OrderInv'
  <1>1. DocInv' /\ InputInv' /\ JournalOrder' /\ Earlier' \in Int /\ Earlier <= Earlier'
    BY Retained
  <1>2. SessionOrder'
    BY <1>1, SessionKept DEF InUse
  <1>3. CallInv' /\ PlaybackInv'
    BY DEF CallInv, PlaybackInv
  <1>4. QED
    BY <1>1, <1>2, <1>3 DEF OrderInv

LEMMA EnsureSessionOrder == ASSUME IInv, OrderInv, EnsureSession PROVE OrderInv'
  <1>1. /\ proc.pc = "connect" /\ UNCHANGED <<session, history, doc, typed, torn>>
        /\ status' \in {"OK", "INVALID_SESSION", "FATAL"}
        /\ status' = "OK" => status = "OK"
        /\ server' \in {server, Launched(server)}
    BY DEF EnsureSession, EnsureConnection, userVars
  <1>2. SessionPlace'
    BY <1>1 DEF Launched, OrderInv, SessionPlace
  <1>3. proc \in Process /\ status \in Status
    BY DEF IInv, ClientInv
  <1>4. CASE status' = "OK"
    <2>1. proc' = [proc EXCEPT !.pc = "call"]
      BY <1>4 DEF EnsureSession
    <2>2. proc'.pc = "call" /\ proc'.input = proc.input
      BY <1>3, <2>1 DEF Process
    <2>3. DocInv' /\ InputInv' /\ JournalOrder' /\ Earlier' \in Int /\ Earlier <= Earlier'
      BY <1>1, <2>2, Retained
    <2>4. SessionOrder'
      BY <1>1, <1>4, <2>3, SessionKept DEF InUse
    <2>5. CallInv' /\ PlaybackInv'
      BY <1>4, <2>2 DEF CallInv, PlaybackInv
    <2>6. QED
      BY <1>2, <2>3, <2>4, <2>5 DEF OrderInv
  <1>5. CASE status' # "OK"
    <2>1. \/ proc' = Idle
          \/ proc' = [proc EXCEPT !.pc = "create", !.trial = 0]
      BY <1>1, <1>5 DEF EnsureSession
    <2>2. \/ proc'.pc = "idle"
          \/ proc'.pc = "create" /\ proc'.input = proc.input
      BY <1>3, <2>1, IdleProcess DEF Process
    <2>3. QED
      BY <1>1, <1>2, <1>5, <2>2, Parked
  <1>6. QED
    BY <1>4, <1>5

LEMMA CreateOrder == ASSUME IInv, OrderInv, CreateSession PROVE OrderInv'
  <1>1. proc.pc = "create" /\ proc \in Process /\ UNCHANGED <<history, doc, typed, torn>>
    BY DEF CreateSession, RestartServer, GiveUp, userVars, IInv, ClientInv
  <1>2. CASE session' = Void
    <2>1. SessionPlace'
      BY <1>2 DEF SessionPlace
    <2>2. \/ proc' = Idle \/ proc' = [proc EXCEPT !.trial = 1]
      BY <1>2, EmptyFine DEF CreateSession, RestartServer, GiveUp
    <2>3. \/ proc'.pc = "idle"
          \/ proc'.pc = "create" /\ proc'.input = proc.input
      BY <1>1, <2>2, IdleProcess DEF Process
    <2>4. QED
      BY <1>1, <1>2, <2>1, <2>3, Parked
  <1>3. CASE /\ server.up /\ server.version = "same"
             /\ session' = <<>> /\ status' = "OK"
             /\ proc' = IF proc.again THEN [proc EXCEPT !.pc = "playback", !.at = 1]
                        ELSE [proc EXCEPT !.pc = "call"]
             /\ UNCHANGED serverVars
    <2>1. SessionPlace'
      BY <1>3 DEF SessionPlace, serverVars
    <2>2. /\ proc'.pc = "call" \/ (proc'.pc = "playback" /\ proc'.at = 1)
          /\ proc'.input = proc.input
      BY <1>1, <1>3 DEF Process
    <2>3. DocInv' /\ InputInv' /\ JournalOrder' /\ Earlier' \in Int /\ Earlier <= Earlier'
      BY <1>1, <2>2, Retained
    <2>4. SessionOrder'
      BY <1>1, <1>3, <2>3, SessionKept
    <2>5. CallInv' /\ PlaybackInv'
      BY <1>3, <2>2, EmptyFine DEF CallInv, PlaybackInv, Fresh
    <2>6. QED
      BY <2>1, <2>3, <2>4, <2>5 DEF OrderInv
  <1>4. QED
    BY <1>2, <1>3 DEF CreateSession, RestartServer, GiveUp

\* What a played input makes of the session.
LEMMA PlayedInput ==
  ASSUME IInv, OrderInv, proc.pc = "playback", ~JournalFull, ~Refused,
         NEW at \in 1 .. Len(history), at = proc.at,
         NEW s, s = After(session, history[at])
  PROVE  /\ Rising(s) /\ Below(s, Earlier)
         /\ Fresh(s) \/ Submits(at + 1)
         /\ \A i \in 1 .. Len(s), j \in at + 1 .. Len(history) :
               Keyed(history[j]) => s[i] < history[j].key
  <1> DEFINE in == history[at]
  <1>1. /\ session # Void /\ status = "OK"
        /\ Rising(session) /\ Below(session, Earlier)
        /\ \A i \in 1 .. Len(session), j \in at .. Len(history) :
              Keyed(history[j]) => session[i] < history[j].key
        /\ Fresh(session) \/ Submits(at)
    BY DEF Refused, OrderInv, SessionOrder, InUse, PlaybackInv
  <1>2. /\ session \in Seq(Keys)
        /\ in.type \in {"type", "next", "enter", "submit"} /\ in.key \in Int
    BY <1>1, Numbers DEF IInv, ServerInv, Session, Content, Real, Input
  <1>3. Submits(at) => in.type = "submit" \/ Submits(at + 1)
    BY Numbers DEF Submits
  <1>4. CASE Keyed(in)
    <2>1. in.key <= Earlier /\ (Delivered(in.key) => Submits(at + 1))
      <3>1. in.key <= Earlier /\ (Delivered(in.key) => Submits(at))
        BY <1>4 DEF OrderInv, JournalOrder
      <3>2. in.type # "submit"
        BY <1>4 DEF Keyed
      <3>3. QED
        BY <1>3, <3>1, <3>2
    <2>2. \A i \in 1 .. Len(session) : session[i] < in.key
      <3>1. at \in at .. Len(history)
        BY Numbers
      <3>2. QED
        BY <1>1, <1>4, <3>1
    <2>3. \A j \in at + 1 .. Len(history) : Keyed(history[j]) => in.key < history[j].key
      <3>1. \A i, j \in 1 .. Len(history) :
               i < j /\ Keyed(history[i]) /\ Keyed(history[j])
                  => history[i].key < history[j].key
        BY DEF OrderInv, JournalOrder
      <3>2. ASSUME NEW j \in at + 1 .. Len(history), Keyed(history[j])
            PROVE  in.key < history[j].key
        <4>1. j \in 1 .. Len(history) /\ at < j
          BY Numbers
        <4>2. QED
          BY <1>4, <3>1, <3>2, <4>1
      <3>3. QED
        BY <3>2
    <2>4. CASE in.type = "type"
      <3>1. s = Append(session, in.key)
        BY <2>4 DEF After
      <3>2. /\ Len(s) = Len(session) + 1 /\ Len(session) \in Nat
            /\ \A i \in 1 .. Len(s) : s[i] = IF i <= Len(session) THEN session[i] ELSE in.key
        BY <1>2, <3>1
      <3>3. Below(s, Earlier)
        BY <1>1, <2>1, <3>2 DEF Below
      <3>4. ASSUME NEW i \in 1 .. Len(s), NEW j \in 1 .. Len(s), i < j
            PROVE  s[i] < s[j]
        <4>1. i \in 1 .. Len(session) /\ s[i] = session[i]
          BY <3>2, <3>4
        <4>2. CASE j \in 1 .. Len(session)
          BY <1>1, <3>2, <3>4, <4>1, <4>2 DEF Rising
        <4>3. CASE j \notin 1 .. Len(session)
          BY <2>2, <3>2, <4>1, <4>3
        <4>4. QED
          BY <4>2, <4>3
      <3>5. Fresh(s) \/ Submits(at + 1)
        BY <1>1, <1>3, <2>1, <2>4, <3>2 DEF Fresh
      <3>6. \A i \in 1 .. Len(s), j \in at + 1 .. Len(history) :
               Keyed(history[j]) => s[i] < history[j].key
        <4>1. at + 1 .. Len(history) \subseteq at .. Len(history)
          BY Numbers
        <4>2. \A i \in 1 .. Len(session), j \in at + 1 .. Len(history) :
                 Keyed(history[j]) => session[i] < history[j].key
          BY <1>1, <4>1
        <4>3. QED
          BY <2>3, <3>2, <4>2
      <3>7. QED
        BY <3>3, <3>4, <3>5, <3>6 DEF Rising
    <2>5. CASE in.type = "next"
      <3>1. s = <<in.key>> /\ Len(s) = 1 /\ s[1] = in.key
        BY <2>5 DEF After
      <3>2. Rising(s) /\ Below(s, Earlier)
        BY <2>1, <3>1, Numbers DEF Rising, Below
      <3>3. Fresh(s) \/ Submits(at + 1)
        BY <2>1, <3>1 DEF Fresh
      <3>4. QED
        BY <2>3, <3>1, <3>2, <3>3
    <2>6. QED
      BY <1>4, <2>4, <2>5 DEF Keyed
  <1>5. CASE ~Keyed(in)
    <2>1. s = <<>>
      BY <1>2, <1>5 DEF After, Keyed
    <2>2. QED
      BY <2>1, EmptyFine, Numbers
  <1>6. QED
    BY <1>4, <1>5

\* A playback that is cut short tears what it leaves in the session.
LEMMA Torn ==
  ASSUME NEW s \in Session, s # Void, torn' = torn \cup Late(s), UNCHANGED doc
  PROVE  \A i \in 1 .. Len(s) : s[i] \in torn' \/ ~\E n \in 1 .. Len(doc') : s[i] <= doc'[n]
  BY LateKeys

LEMMA PlaybackOrder == ASSUME IInv, OrderInv, Playback PROVE OrderInv'
  <1>1. /\ proc.pc = "playback" /\ status = "OK" /\ proc \in Process
        /\ UNCHANGED <<doc, typed>> /\ SessionPlace
    BY DEF Playback, OrderInv, PlaybackInv, IInv, ClientInv
  <1>2. [proc EXCEPT !.pc = "call"].pc = "call" /\ [proc EXCEPT !.pc = "call"].input = proc.input
    BY <1>1 DEF Process
  <1>3. ASSUME proc' = [proc EXCEPT !.pc = "call"], history' \in {history, <<>>},
               torn \subseteq torn', SessionPlace',
               (session' = session /\ (session \in {Void, <<>>} \/ Fresh(session))) \/ SessionOrder'
        PROVE  OrderInv'
    <2>1. DocInv' /\ InputInv' /\ JournalOrder' /\ Earlier' \in Int /\ Earlier <= Earlier'
      BY <1>1, <1>2, <1>3, Retained
    <2>2. SessionOrder'
      <3>1. CASE session' = session /\ (session \in {Void, <<>>} \/ Fresh(session))
        BY <1>1, <1>3, <2>1, <3>1, SessionKept DEF InUse
      <3>2. QED
        BY <1>3, <3>1
    <2>3. CallInv' /\ PlaybackInv'
      BY <1>2, <1>3 DEF CallInv, PlaybackInv
    <2>4. QED
      BY <1>3, <2>1, <2>2, <2>3 DEF OrderInv
  <1>4. CASE JournalFull
    <2>1. session \in {Void, <<>>}
      BY <1>1, <1>4 DEF OrderInv, PlaybackInv
    <2>2. /\ history' = <<>> /\ proc' = [proc EXCEPT !.pc = "call"]
          /\ UNCHANGED <<server, session, torn>>
      BY <1>4 DEF Playback, serverVars
    <2>3. QED
      BY <1>1, <1>3, <2>1, <2>2 DEF SessionPlace
  <1>5. CASE ~JournalFull /\ proc.at > Len(history)
    <2>1. /\ proc' = [proc EXCEPT !.pc = "call"]
          /\ UNCHANGED <<server, session, history, torn>>
      BY <1>5 DEF Playback, serverVars
    <2>2. session = Void \/ Fresh(session)
      BY <1>1, <1>5, Numbers DEF OrderInv, PlaybackInv, Submits
    <2>3. QED
      BY <1>1, <1>3, <2>1, <2>2 DEF SessionPlace
  <1>6. CASE ~JournalFull /\ ~(proc.at > Len(history))
    <2> DEFINE at == proc.at
               in == history[at]
    <2>1. history' = history /\ at \in 1 .. Len(history)
      BY <1>1, <1>6, Numbers DEF Playback, IInv, ClientInv
    <2>2. \/ Refused /\ Executed(in) = session
          \/ /\ ~Refused /\ session # Void /\ Executed(in) = After(session, in)
             /\ Rising(Executed(in)) /\ Below(Executed(in), Earlier)
             /\ Fresh(Executed(in)) \/ Submits(at + 1)
             /\ \A i \in 1 .. Len(Executed(in)), j \in at + 1 .. Len(history) :
                   Keyed(history[j]) => Executed(in)[i] < history[j].key
      <3>1. CASE Refused
        BY <3>1 DEF Executed
      <3>2. CASE ~Refused
        <4>1. Executed(in) = After(session, in) /\ session # Void
          BY <3>2 DEF Executed, Refused
        <4>2. QED
          BY <1>1, <1>6, <2>1, <3>2, <4>1, PlayedInput
      <3>3. QED
        BY <3>1, <3>2
    <2>3. session # Void => Rising(session) /\ Below(session, Earlier)
      BY <1>1 DEF OrderInv, SessionOrder, InUse
    <2>4. CASE \E st \in Status : /\ CallFails(Executed(in), st)
                                  /\ status' = st
                                  /\ torn' = torn \cup Late(session')
                                  /\ proc' = [proc EXCEPT !.pc = "call"]
      <3>1. PICK st \in Status : /\ CallFails(Executed(in), st)
                                 /\ status' = st
                                 /\ torn' = torn \cup Late(session')
                                 /\ proc' = [proc EXCEPT !.pc = "call"]
        BY <2>4
      <3>2. SessionPlace' /\ session' \in {session, Executed(in), Void}
        BY <1>1, <3>1, FailedCall, ExecutedPlace
      <3>3. Earlier' = Earlier
        BY <1>1, <1>2, <3>1 DEF Earlier
      <3>4. ASSUME session' # Void
            PROVE  /\ Rising(session') /\ Below(session', Earlier)
                   /\ \A i \in 1 .. Len(session') :
                         session'[i] \in torn' \/ ~\E n \in 1 .. Len(doc') : session'[i] <= doc'[n]
        <4>1. Rising(session') /\ Below(session', Earlier)
          BY <2>2, <2>3, <3>2, <3>4
        <4>2. session' \in Session
          BY <3>1, CallFailsInv, ExecutedSession, <2>1, Numbers DEF IInv, ServerInv, ClientInv
        <4>3. QED
          BY <1>1, <3>1, <3>4, <4>1, <4>2, Torn
      <3>5. SessionOrder'
        BY <3>3, <3>4 DEF SessionOrder, InUse, Rising, Below, Fresh, Delivered
      <3>6. QED
        BY <1>3, <2>1, <3>1, <3>2, <3>5
    <2>5. CASE /\ Reached
               /\ session' = Executed(in)
               /\ torn' = IF Refused THEN torn \cup Late(session) ELSE torn
               /\ proc' = [proc EXCEPT !.at = @ + 1]
               /\ UNCHANGED <<serverVars, status, faults>>
      <3>1. proc'.pc = "playback" /\ proc'.input = proc.input /\ proc'.at = at + 1
        BY <1>1, <2>5 DEF Process
      <3>2. DocInv' /\ InputInv' /\ JournalOrder' /\ Earlier' \in Int /\ Earlier <= Earlier'
        BY <1>1, <2>1, <2>5, <3>1, Retained
      <3>3. SessionPlace'
        BY <1>1, <2>5, ExecutedPlace DEF SessionPlace, serverVars
      <3>4. CallInv' /\ Earlier' = Earlier /\ status' = "OK"
        BY <1>1, <2>5, <3>1 DEF CallInv, Earlier
      <3>5. JournalFull' => proc'.at = 1
        BY <1>6, <2>1, <3>1 DEF JournalFull
      <3>6. Submits(proc.at)' = Submits(at + 1) /\ proc'.at # 1
        BY <2>1, <3>1, Numbers DEF Submits
      <3>7. ASSUME session' # Void
            PROVE  /\ Rising(session') /\ Below(session', Earlier)
                   /\ \A i \in 1 .. Len(session'), j \in at + 1 .. Len(history) :
                         Keyed(history[j]) => session'[i] < history[j].key
                   /\ Fresh(session)' \/ Submits(at + 1)
        <4>1. CASE Refused
          <5>1. session' = session /\ torn' = torn \cup Late(session) /\ session \in Session
            BY <2>2, <2>5, <4>1 DEF IInv, ServerInv
          <5>2. Fresh(session)'
            BY <1>1, <3>7, <5>1, Torn DEF Fresh, Delivered
          <5>3. \A i \in 1 .. Len(session), j \in at .. Len(history) :
                   Keyed(history[j]) => session[i] < history[j].key
            BY <1>1, <3>7, <5>1 DEF OrderInv, PlaybackInv
          <5>4. at + 1 .. Len(history) \subseteq at .. Len(history)
            BY <2>1, Numbers
          <5>5. QED
            BY <2>3, <3>7, <5>1, <5>2, <5>3, <5>4
        <4>2. CASE ~Refused
          <5>1. session' = Executed(in) /\ torn' = torn /\ doc' = doc
            BY <1>1, <2>5, <4>2
          <5>2. Fresh(session)' <=> Fresh(session')
            BY <5>1 DEF Fresh, Delivered
          <5>3. QED
            BY <2>2, <4>2, <5>1, <5>2
        <4>3. QED
          BY <4>1, <4>2
      <3>8. SessionOrder'
        BY <3>1, <3>4, <3>7 DEF SessionOrder, InUse, Rising, Below
      <3>9. PlaybackInv'
        BY <2>1, <3>1, <3>4, <3>5, <3>6, <3>7 DEF PlaybackInv, Keyed
      <3>10. QED
        BY <3>2, <3>3, <3>4, <3>8, <3>9 DEF OrderInv
    <2>6. QED
      BY <1>6, <2>4, <2>5 DEF Playback
  <1>7. QED
    BY <1>4, <1>5, <1>6

\* The text of a key's answer: what was shown, or nothing.
LEMMA CallCommandOrder == ASSUME IInv, OrderInv, CallCommand PROVE OrderInv'
  <1> DEFINE in == proc.input
  <1>1. /\ proc.pc = "call" /\ proc \in Process /\ typed' = typed /\ SessionPlace
        /\ in \in Real /\ in.type \in {"type", "next", "enter", "submit"}
    BY Numbers DEF CallCommand, userVars, IInv, ClientInv, OrderInv, Real, Input
  <1>2. /\ [proc EXCEPT !.pc = "connect", !.again = TRUE].pc = "connect"
        /\ [proc EXCEPT !.pc = "connect", !.again = TRUE].input = in
    BY <1>1 DEF Process
  <1>3. CASE /\ Reached /\ status \notin Silent /\ Refused
             /\ status' = IF proc.again THEN status ELSE "INVALID_SESSION"
             /\ proc' = IF proc.again THEN Idle
                        ELSE [proc EXCEPT !.pc = "connect", !.again = TRUE]
             /\ UNCHANGED <<serverVars, session, history, userVars, faults>>
    <2>1. /\ UNCHANGED <<server, session, history, doc, torn>>
          /\ status' = "OK" => status = "OK"
          /\ \/ proc'.pc = "idle"
             \/ proc'.pc = "connect" /\ status' # "OK" /\ proc'.input = in
      BY <1>2, <1>3, IdleProcess DEF serverVars, userVars
    <2>2. SessionPlace'
      BY <1>1, <2>1 DEF SessionPlace
    <2>3. QED
      BY <1>1, <2>1, <2>2, Parked
  <1>4. CASE /\ history' = <<>> /\ proc' = Idle
             /\ UNCHANGED <<serverVars, session, status, userVars, faults>>
    <2>1. UNCHANGED <<server, session, status, doc, torn>> /\ proc'.pc = "idle"
      BY <1>4, IdleProcess DEF serverVars, userVars
    <2>2. SessionPlace'
      BY <1>1, <2>1 DEF SessionPlace
    <2>3. QED
      BY <1>1, <1>4, <2>1, <2>2, Parked
  <1>5. CASE /\ \E st \in Status : CheckedCallFails(Executed(in), st) /\ status' = st
             /\ IF proc.again
                THEN history' = <<>> /\ proc' = Idle
                ELSE /\ proc' = IF status' \in Silent THEN Idle
                                ELSE [proc EXCEPT !.pc = "connect", !.again = TRUE]
                     /\ UNCHANGED history
             /\ UNCHANGED userVars
    <2>1. PICK st \in Status, s \in Status :
            /\ CallFails(Executed(in), s) /\ status' = st
            /\ st = IF server.up /\ ~Reached THEN "VERSION_MISMATCH" ELSE s
      BY <1>5 DEF CheckedCallFails
    <2>2. SessionPlace' /\ status' # "OK"
      BY <1>1, <2>1, FailedCall, ExecutedPlace
    <2>3. /\ UNCHANGED <<doc, torn>> /\ history' \in {history, <<>>}
          /\ \/ proc'.pc = "idle"
             \/ proc'.pc = "connect" /\ proc'.input = in
      BY <1>2, <1>5, IdleProcess DEF userVars
    <2>4. DocInv' /\ InputInv' /\ JournalOrder' /\ Earlier' \in Int /\ Earlier <= Earlier'
      BY <1>1, <2>3, Retained
    <2>5. SessionOrder' /\ CallInv' /\ PlaybackInv'
      BY <2>2, <2>3 DEF SessionOrder, InUse, CallInv, PlaybackInv
    <2>6. QED
      BY <2>2, <2>4, <2>5 DEF OrderInv
  <1>6. CASE /\ Reached /\ status \notin Silent /\ ~Refused
             /\ session' = Executed(in)
             /\ PushHistory(in)
             /\ doc' = doc \o Result(session, in)
             /\ shown' = session'
             /\ proc' = Idle
             /\ UNCHANGED <<serverVars, status, typed, torn, faults>>
    <2>1. /\ session # Void /\ session' = After(session, in) /\ InUse
          /\ UNCHANGED <<server, status, torn>>
      BY <1>1, <1>6 DEF Executed, Refused, InUse, serverVars
    <2>2. /\ Rising(session) /\ Below(session, Earlier) /\ Fresh(session)
          /\ TypedOnceInOrder /\ Below(doc, Earlier)
      BY <1>1, <2>1 DEF OrderInv, SessionOrder, DocInv
    <2>3. session \in Seq(Keys) /\ doc \in Seq(Keys)
      BY <2>1 DEF IInv, ServerInv, Session, Content, UserInv
    <2>4. proc'.pc = "idle" /\ Earlier' = typed
      BY <1>1, <1>6, IdleProcess DEF Earlier
    <2>5. Keyed(in) => in.key = typed /\ Earlier = typed - 1
      BY <1>1 DEF OrderInv, InputInv, Earlier
    <2>6. Result(session, in) \in {session, <<>>} /\ Result(session, in) \in Seq(Keys)
      BY <2>3 DEF Result
    <2>7. DocInv'
      <3>1. CASE doc' = doc
        BY <2>1, <2>2, <2>4, <3>1, Numbers DEF DocInv, TypedOnceInOrder, Below
      <3>2. CASE doc' = doc \o session
        <4>1. /\ Len(doc') = Len(doc) + Len(session) /\ Len(doc) \in Nat /\ Len(session) \in Nat
              /\ \A i \in 1 .. Len(doc') :
                    doc'[i] = IF i <= Len(doc) THEN doc[i] ELSE session[i - Len(doc)]
          BY <2>3, <3>2
        <4>2. \A i \in 1 .. Len(doc') : doc'[i] <= typed
          <5>1. \A i \in 1 .. Len(doc) : doc[i] <= typed
            BY <2>2, Numbers DEF Below
          <5>2. \A i \in 1 .. Len(session) : session[i] <= typed
            BY <2>1, <2>2, Numbers DEF Below
          <5>3. QED
            BY <4>1, <5>1, <5>2
        <4>3. ASSUME NEW i \in 1 .. Len(doc'), NEW j \in 1 .. Len(doc'), i < j,
                     doc'[i] \notin torn, doc'[j] \notin torn
              PROVE  doc'[i] < doc'[j]
          <5>1. CASE j <= Len(doc)
            BY <2>2, <4>1, <4>3, <5>1 DEF TypedOnceInOrder
          <5>2. CASE ~(i <= Len(doc))
            <6>1. i - Len(doc) \in 1 .. Len(session) /\ j - Len(doc) \in 1 .. Len(session)
              BY <4>1, <4>3, <5>2
            <6>2. QED
              BY <2>2, <4>1, <4>3, <5>2, <6>1 DEF Rising
          <5>3. CASE i <= Len(doc) /\ ~(j <= Len(doc))
            <6>1. i \in 1 .. Len(doc) /\ j - Len(doc) \in 1 .. Len(session)
              BY <4>1, <4>3, <5>3
            <6>2. ~(session[j - Len(doc)] <= doc[i])
              BY <2>2, <4>1, <4>3, <5>3, <6>1 DEF Fresh, Delivered
            <6>3. session[j - Len(doc)] \in Int /\ doc[i] \in Int
              BY <2>1, <6>1, Numbers
            <6>4. QED
              BY <4>1, <5>3, <6>1, <6>2, <6>3
          <5>4. QED
            BY <4>1, <5>1, <5>2, <5>3
        <4>4. QED
          BY <2>1, <2>4, <4>2, <4>3 DEF DocInv, TypedOnceInOrder, Below
      <3>3. doc \o <<>> = doc
        BY <2>3
      <3>4. CASE Result(session, in) = <<>>
        <4>1. doc' = doc
          BY <1>6, <3>3, <3>4
        <4>2. QED
          BY <3>1, <4>1
      <3>5. CASE Result(session, in) = session
        <4>1. doc' = doc \o session
          BY <1>6, <3>5
        <4>2. QED
          BY <3>2, <4>1
      <3>6. QED
        BY <2>6, <3>4, <3>5
    <2>8. InputInv' /\ CallInv' /\ PlaybackInv'
      BY <2>4 DEF InputInv, CallInv, PlaybackInv
    <2>9. SessionPlace'
      BY <1>1, <2>1 DEF SessionPlace
    <2>10. Keyed(in) => ~Delivered(typed) /\ \A i \in 1 .. Len(session) : session[i] < typed
      BY <2>1, <2>2, <2>5, Numbers DEF Delivered, Below
    <2>11. SessionOrder'
      <3>1. CASE in.type = "type"
        <4>1. session' = Append(session, typed) /\ doc' = doc
          BY <1>6, <2>1, <2>3, <2>5, <3>1 DEF After, Result, Keyed
        <4>2. /\ Len(session') = Len(session) + 1 /\ Len(session) \in Nat
              /\ \A i \in 1 .. Len(session') :
                    session'[i] = IF i <= Len(session) THEN session[i] ELSE typed
          BY <2>3, <4>1
        <4>3. Below(session', typed)
          BY <2>1, <2>10, <3>1, <4>2, Numbers DEF Below, Keyed
        <4>4. ASSUME NEW i \in 1 .. Len(session'), NEW j \in 1 .. Len(session'), i < j
              PROVE  session'[i] < session'[j]
          <5>1. i \in 1 .. Len(session) /\ session'[i] = session[i]
            BY <4>2, <4>4
          <5>2. CASE j \in 1 .. Len(session)
            BY <2>2, <4>2, <4>4, <5>1, <5>2 DEF Rising
          <5>3. CASE j \notin 1 .. Len(session)
            BY <2>10, <3>1, <4>2, <5>1, <5>3 DEF Keyed
          <5>4. QED
            BY <5>2, <5>3
        <4>5. Fresh(session)'
          BY <2>1, <2>2, <2>10, <3>1, <4>1, <4>2 DEF Fresh, Delivered, Keyed
        <4>6. QED
          BY <2>4, <4>3, <4>4, <4>5 DEF SessionOrder, InUse, Rising, Below
      <3>2. CASE in.type = "next"
        <4>1. session' = <<typed>> /\ doc' = doc \o session
          BY <1>6, <2>1, <2>5, <3>2 DEF After, Result, Keyed
        <4>2. Len(session') = 1 /\ session'[1] = typed
          BY <4>1
        <4>3. ~Delivered(typed)'
          <5>1. /\ Len(doc') = Len(doc) + Len(session) /\ Len(doc) \in Nat /\ Len(session) \in Nat
                /\ \A i \in 1 .. Len(doc') :
                      doc'[i] = IF i <= Len(doc) THEN doc[i] ELSE session[i - Len(doc)]
            BY <2>3, <4>1
          <5>2. \A i \in 1 .. Len(doc) : ~(typed <= doc[i])
            BY <2>10, <3>2 DEF Delivered, Keyed
          <5>3. \A i \in 1 .. Len(session) : ~(typed <= session[i])
            BY <2>1, <2>10, <3>2, Numbers DEF Keyed
          <5>4. \A i \in 1 .. Len(doc') : ~(typed <= doc'[i])
            BY <5>1, <5>2, <5>3
          <5>5. QED
            BY <1>1, <5>4 DEF Delivered
        <4>4. QED
          BY <1>1, <2>4, <4>2, <4>3, Numbers DEF SessionOrder, InUse, Rising, Below, Fresh, Delivered
      <3>3. CASE in.type \notin {"type", "next"}
        <4>1. session' = <<>>
          BY <2>1, <3>3 DEF After
        <4>2. QED
          BY <4>1 DEF SessionOrder, InUse, Rising, Below, Fresh
      <3>4. QED
        BY <3>1, <3>2, <3>3
    <2>12. JournalOrder'
      <3>1. /\ \A i, j \in 1 .. Len(history) :
                  i < j /\ Keyed(history[i]) /\ Keyed(history[j]) => history[i].key < history[j].key
            /\ \A i \in 1 .. Len(history) : Keyed(history[i]) => history[i].key <= Earlier
            /\ JournalFull \/ \A i \in 1 .. Len(history) :
                  Keyed(history[i]) /\ Delivered(history[i].key) => Submits(i)
        BY DEF OrderInv, JournalOrder
      <3>2. \A i \in 1 .. Len(history) : Keyed(history[i]) => history[i].key <= typed
        BY <3>1, Numbers
      <3>3. CASE history' = <<>>
        BY <3>3 DEF JournalOrder
      <3>4. CASE history' = history /\ (JournalFull \/ doc' = doc)
        BY <2>4, <3>1, <3>2, <3>4
           DEF JournalOrder, Keyed, Delivered, Submits, JournalFull
      <3>5. CASE history' = Append(history, in) /\ (doc' = doc \/ in.type = "submit")
        <4>1. /\ Len(history') = Len(history) + 1 /\ Len(history) \in Nat
              /\ \A i \in 1 .. Len(history) : history'[i] = history[i]
              /\ history'[Len(history) + 1] = in
          BY <1>1, <3>5 DEF IInv, ClientInv
        <4>2. \A i \in 1 .. Len(history') : i \in 1 .. Len(history) \/ i = Len(history')
          BY <4>1
        <4>3. Keyed(in) => \A i \in 1 .. Len(history) : Keyed(history[i]) => history[i].key < in.key
          BY <2>5, <3>1, Numbers
        <4>4. \A i, j \in 1 .. Len(history') :
                 i < j /\ Keyed(history'[i]) /\ Keyed(history'[j]) => history'[i].key < history'[j].key
          <5>1. ASSUME NEW i \in 1 .. Len(history'), NEW j \in 1 .. Len(history'), i < j,
                       Keyed(history'[i]), Keyed(history'[j])
                PROVE  history'[i].key < history'[j].key
            <6>1. i \in 1 .. Len(history)
              BY <4>1, <5>1
            <6>2. CASE j \in 1 .. Len(history)
              BY <3>1, <4>1, <5>1, <6>1, <6>2
            <6>3. CASE j = Len(history')
              BY <4>1, <4>3, <5>1, <6>1, <6>3
            <6>4. QED
              BY <4>2, <6>2, <6>3
          <5>2. QED
            BY <5>1
        <4>5. \A i \in 1 .. Len(history') : Keyed(history'[i]) => history'[i].key <= typed
          BY <2>5, <3>2, <4>1, <4>2, Numbers
        <4>6. JournalFull' \/ \A i \in 1 .. Len(history') :
                 Keyed(history'[i]) /\ (\E n \in 1 .. Len(doc') : history'[i].key <= doc'[n])
                    => \E m \in i .. Len(history') : history'[m].type = "submit"
          <5>1. CASE in.type = "submit"
            <6>1. \A i \in 1 .. Len(history') :
                     Len(history') \in i .. Len(history') /\ history'[Len(history')].type = "submit"
              BY <4>1, <5>1
            <6>2. QED
              BY <6>1
          <5>2. CASE doc' = doc /\ in.type # "submit"
            <6>1. JournalFull => JournalFull'
              BY <4>1, Numbers DEF JournalFull
            <6>2. \A i \in 1 .. Len(history) : Submits(i) =>
                     \E m \in i .. Len(history') : history'[m].type = "submit"
              BY <4>1 DEF Submits
            <6>3. Keyed(in) => ~\E n \in 1 .. Len(doc) : in.key <= doc[n]
              BY <2>5, <2>10 DEF Delivered
            <6>4. ASSUME ~JournalFull, NEW i \in 1 .. Len(history'), Keyed(history'[i]),
                         \E n \in 1 .. Len(doc') : history'[i].key <= doc'[n]
                  PROVE  \E m \in i .. Len(history') : history'[m].type = "submit"
              <7>0. \E n \in 1 .. Len(doc) : history'[i].key <= doc[n]
                BY <5>2, <6>4
              <7>1. CASE i \in 1 .. Len(history)
                <8>1. history'[i] = history[i]
                  BY <4>1, <7>1
                <8>2. Keyed(history[i]) /\ Delivered(history[i].key)
                  BY <6>4, <7>0, <8>1 DEF Delivered
                <8>3. Submits(i)
                  BY <3>1, <6>4, <7>1, <8>2
                <8>4. QED
                  BY <6>2, <7>1, <8>3
              <7>2. CASE i = Len(history')
                <8>1. history'[i] = in
                  BY <4>1, <7>2
                <8>2. QED
                  BY <6>3, <6>4, <7>0, <8>1
              <7>3. QED
                BY <4>2, <7>1, <7>2
            <6>5. QED
              BY <6>1, <6>4
          <5>3. QED
            BY <3>5, <5>1, <5>2
        <4>7. QED
          BY <2>4, <4>4, <4>5, <4>6 DEF JournalOrder, Keyed, Delivered, Submits
      <3>6. ~Consumed(session, in) \/ Result(session, in) = <<>> => doc' = doc
        BY <1>6, <2>3 DEF Consumed, Result
      <3>7. QED
        BY <1>6, <3>3, <3>4, <3>5, <3>6 DEF PushHistory, JournalFull
    <2>13. QED
      BY <2>7, <2>8, <2>9, <2>11, <2>12 DEF OrderInv
  <1>7. QED
    BY <1>3, <1>4, <1>5, <1>6 DEF CallCommand

LEMMA OtherCallOrder == ASSUME IInv, OrderInv, OtherCall PROVE OrderInv'
  <1>1. PICK st \in Status : CallFails(session, st) /\ status' = st
    BY DEF OtherCall
  <1>2. /\ SessionPlace'
        /\ status' = "OK" => status = "OK" /\ session' = Void
    BY <1>1, FailedCall DEF OrderInv
  <1>3. proc.pc = "idle" /\ UNCHANGED <<proc, history, doc, typed, torn>>
    BY DEF OtherCall, userVars
  <1>4. DocInv' /\ InputInv' /\ JournalOrder'
    BY <1>3, Retained
  <1>5. SessionOrder' /\ CallInv' /\ PlaybackInv'
    BY <1>2, <1>3 DEF SessionOrder, InUse, CallInv, PlaybackInv
  <1>6. QED
    BY <1>2, <1>4, <1>5 DEF OrderInv

LEMMA ResetOrder == ASSUME IInv, OrderInv, Reset PROVE OrderInv'
  <1>1. /\ proc.pc = "idle" /\ status' = "UNKNOWN"
        /\ UNCHANGED <<server, session, proc, history, doc, typed, torn>>
    BY DEF Reset, serverVars, userVars
  <1>2. SessionPlace'
    BY <1>1 DEF OrderInv, SessionPlace
  <1>3. QED
    BY <1>1, <1>2, Parked

LEMMA OrderStep == IInv /\ OrderInv /\ [Next]_vars => OrderInv'
  <1> SUFFICES ASSUME IInv, OrderInv, [Next]_vars PROVE OrderInv'
    OBVIOUS
  <1>1. CASE Next
    BY <1>1, WorldOrder, SendOrder, EnsureSessionOrder, CreateOrder, PlaybackOrder,
       CallCommandOrder, OtherCallOrder, ResetOrder DEF Next, ClientStep
  <1>2. CASE UNCHANGED vars
    <2>1. UNCHANGED <<server, session, status, proc, history, doc, typed, torn>>
      BY <1>2 DEF vars, serverVars, userVars
    <2>2. DocInv' /\ InputInv' /\ JournalOrder' /\ Earlier' \in Int /\ Earlier <= Earlier'
      <3>1. proc'.pc = "idle" \/ (proc.pc # "idle" /\ proc'.input = proc.input)
        BY <2>1
      <3>2. QED
        BY <2>1, <3>1, Retained
    <2>3. SessionOrder'
      BY <2>1, <2>2, SessionKept DEF InUse
    <2>4. SessionPlace' /\ CallInv'
      BY <2>1 DEF OrderInv, SessionPlace, CallInv
    <2>5. PlaybackInv'
      BY <2>1 DEF OrderInv, PlaybackInv, Keyed, Fresh, Delivered, Submits, JournalFull
    <2>6. QED
      BY <2>2, <2>3, <2>4, <2>5 DEF OrderInv
  <1>3. QED
    BY <1>1, <1>2

\* No key reaches the document twice or after a later one, over every crash,
\* time-out, broken connection, refusal and eviction, with a lock at any moment, and
\* for every length of the journal; what a playback cut short has typed again of a
\* committed composition is excepted.
THEOREM OrderCorrect == Spec => []TypedOnceInOrder
  <1>1. Spec => []IInv
    BY InitInv, StepInv, PTL DEF Spec
  <1>2. OrderInv => TypedOnceInOrder
    BY DEF OrderInv, DocInv
  <1>3. QED
    BY <1>1, <1>2, InitOrder, OrderStep, PTL DEF Spec

-----------------------------------------------------------------------------
(* How long a call takes.                                                   *)

\* The steps that a call has before it at most: a connection and up to two trials
\* of the session, the input, and once more the same with the playback between.
StepsLeft(p) ==
    CASE p.pc = "idle" -> 0
      [] p.pc = "call" /\ p.again -> 1
      [] p.pc = "playback" -> MaxPlayBack + 3 - p.at
      [] p.pc = "create" /\ p.again -> MaxPlayBack + 4 - p.trial
      [] p.pc = "connect" /\ p.again -> MaxPlayBack + 5
      [] p.pc = "call" /\ ~p.again -> MaxPlayBack + 6
      [] p.pc = "create" /\ ~p.again -> MaxPlayBack + 8 - p.trial
      [] p.pc = "connect" /\ ~p.again -> MaxPlayBack + 9

\* Each step of EnsureCallCommand brings the answer nearer, and nothing else that
\* happens, to the server or to the program on the disk, sets it back.
CallShrinks ==
    [][/\ ClientStep => StepsLeft(proc') < StepsLeft(proc)
       /\ proc.pc # "idle" /\ ~ClientStep => proc' = proc]_vars

LEMMA StepsLeftType ==
  ASSUME NEW p \in Process
  PROVE  /\ StepsLeft(p) \in 0 .. MaxPlayBack + 9
         /\ p.pc # "idle" => StepsLeft(p) > 0
  <1>1. /\ p.pc \in PCs /\ p.again \in BOOLEAN
        /\ p.trial \in 0 .. 1 /\ p.at \in 0 .. MaxPlayBack + 1
    BY DEF Process
  <1>2. QED
    BY <1>1, Bounds DEF StepsLeft, PCs

LEMMA IdleLeft == StepsLeft(Idle) = 0
  BY IdleProcess, Zenon DEF StepsLeft

LEMMA EnsureSessionShrinks ==
  ASSUME IInv, EnsureSession PROVE StepsLeft(proc') < StepsLeft(proc)
  <1>1. proc \in Process /\ proc.pc = "connect"
    BY DEF IInv, ClientInv, EnsureSession
  <1>2. StepsLeft(proc) = IF proc.again THEN MaxPlayBack + 5 ELSE MaxPlayBack + 9
    BY <1>1 DEF StepsLeft, Process
  <1>3. CASE proc' = Idle
    BY <1>2, <1>3, IdleLeft, Bounds
  <1>4. CASE proc' = [proc EXCEPT !.pc = "call"]
    <2>1. proc'.pc = "call" /\ proc'.again = proc.again
      BY <1>1, <1>4 DEF Process
    <2>2. StepsLeft(proc') = IF proc.again THEN 1 ELSE MaxPlayBack + 6
      BY <1>1, <2>1 DEF StepsLeft, Process
    <2>3. QED
      BY <1>2, <2>2, Bounds
  <1>5. CASE proc' = [proc EXCEPT !.pc = "create", !.trial = 0]
    <2>1. proc'.pc = "create" /\ proc'.again = proc.again /\ proc'.trial = 0
      BY <1>1, <1>5 DEF Process
    <2>2. StepsLeft(proc') = IF proc.again THEN MaxPlayBack + 4 ELSE MaxPlayBack + 8
      BY <1>1, <2>1, Bounds DEF StepsLeft, Process
    <2>3. QED
      BY <1>2, <2>2, Bounds
  <1>6. QED
    BY <1>3, <1>4, <1>5 DEF EnsureSession

LEMMA CreateSessionShrinks ==
  ASSUME IInv, CreateSession PROVE StepsLeft(proc') < StepsLeft(proc)
  <1>1. proc \in Process /\ proc.pc = "create"
    BY DEF IInv, ClientInv, CreateSession
  <1>2. proc.trial \in 0 .. 1 /\ proc.again \in BOOLEAN
    BY <1>1 DEF Process
  <1>3. StepsLeft(proc) = MaxPlayBack + (IF proc.again THEN 4 ELSE 8) - proc.trial
    BY <1>1, <1>2, Bounds DEF StepsLeft
  <1>4. CASE proc' = Idle
    BY <1>2, <1>3, <1>4, IdleLeft, Bounds
  <1>5. CASE proc.trial = 0 /\ proc' = [proc EXCEPT !.trial = 1]
    <2>1. proc'.pc = "create" /\ proc'.again = proc.again /\ proc'.trial = 1
      BY <1>1, <1>5 DEF Process
    <2>2. StepsLeft(proc') = MaxPlayBack + (IF proc.again THEN 4 ELSE 8) - 1
      BY <1>2, <2>1, Bounds DEF StepsLeft
    <2>3. QED
      BY <1>3, <1>5, <2>2, Bounds
  <1>6. CASE proc.again /\ proc' = [proc EXCEPT !.pc = "playback", !.at = 1]
    <2>1. proc'.pc = "playback" /\ proc'.at = 1
      BY <1>1, <1>6 DEF Process
    <2>2. StepsLeft(proc') = MaxPlayBack + 2
      BY <2>1, Bounds DEF StepsLeft
    <2>3. QED
      BY <1>2, <1>3, <1>6, <2>2, Bounds
  <1>7. CASE ~proc.again /\ proc' = [proc EXCEPT !.pc = "call"]
    <2>1. proc'.pc = "call" /\ proc'.again = FALSE
      BY <1>1, <1>2, <1>7 DEF Process
    <2>2. StepsLeft(proc') = MaxPlayBack + 6
      BY <2>1, Bounds DEF StepsLeft
    <2>3. QED
      BY <1>2, <1>3, <1>7, <2>2, Bounds
  <1>8. QED
    <2>1. RestartServer => proc' = Idle \/ (proc.trial = 0 /\ proc' = [proc EXCEPT !.trial = 1])
      BY DEF RestartServer, GiveUp
    <2>2. \A st, s : GiveUp(st, s) => proc' = Idle
      BY DEF GiveUp
    <2>3. QED
      BY <1>4, <1>5, <1>6, <1>7, <2>1, <2>2 DEF CreateSession

LEMMA PlaybackShrinks ==
  ASSUME IInv, Playback PROVE StepsLeft(proc') < StepsLeft(proc)
  <1>1. /\ proc \in Process /\ proc.pc = "playback" /\ proc.again
        /\ Len(history) \in Nat /\ Len(history) <= MaxPlayBack
    BY DEF IInv, ClientInv, Playback
  <1>2. proc.at \in 0 .. MaxPlayBack + 1
    BY <1>1 DEF Process
  <1>3. StepsLeft(proc) = MaxPlayBack + 3 - proc.at
    BY <1>1, <1>2, Bounds DEF StepsLeft
  <1>4. CASE proc' = [proc EXCEPT !.pc = "call"]
    <2>1. proc'.pc = "call" /\ proc'.again = proc.again
      BY <1>1, <1>4 DEF Process
    <2>2. StepsLeft(proc') = 1
      BY <1>1, <2>1 DEF StepsLeft
    <2>3. QED
      BY <1>2, <1>3, <2>2, Bounds
  <1>5. CASE proc' = [proc EXCEPT !.at = @ + 1]
    <2>1. proc'.pc = "playback" /\ proc'.at = proc.at + 1
      BY <1>1, <1>5 DEF Process
    <2>2. StepsLeft(proc') = MaxPlayBack + 3 - (proc.at + 1)
      BY <2>1 DEF StepsLeft
    <2>3. QED
      BY <1>2, <1>3, <2>2, Bounds
  <1>6. QED
    BY <1>4, <1>5 DEF Playback

LEMMA CallCommandShrinks ==
  ASSUME IInv, CallCommand PROVE StepsLeft(proc') < StepsLeft(proc)
  <1>1. proc \in Process /\ proc.pc = "call"
    BY DEF IInv, ClientInv, CallCommand
  <1>2. StepsLeft(proc) = IF proc.again THEN 1 ELSE MaxPlayBack + 6
    BY <1>1 DEF StepsLeft, Process
  <1>3. CASE proc' = Idle
    BY <1>2, <1>3, IdleLeft, Bounds
  <1>4. CASE ~proc.again /\ proc' = [proc EXCEPT !.pc = "connect", !.again = TRUE]
    <2>1. proc'.pc = "connect" /\ proc'.again
      BY <1>1, <1>4 DEF Process
    <2>2. StepsLeft(proc') = MaxPlayBack + 5
      BY <2>1 DEF StepsLeft
    <2>3. QED
      BY <1>2, <1>4, <2>2, Bounds
  <1>5. QED
    BY <1>3, <1>4 DEF CallCommand

\* No call is ever without end: not with a server that comes back as old as it was,
\* that loses its session again and again or fails during the playback, and not with
\* a journal of any length.  It has MaxPlayBack + 9 steps at most, whatever faults
\* there are; with the fairness TLC assumes, every key is answered.
THEOREM CallBounded ==
  Spec => /\ [](StepsLeft(proc) \in 0 .. MaxPlayBack + 9)
          /\ [](proc.pc # "idle" => StepsLeft(proc) > 0)
          /\ CallShrinks
  <1>1. Spec => []IInv
    BY InitInv, StepInv, PTL DEF Spec
  <1>2. IInv => /\ StepsLeft(proc) \in 0 .. MaxPlayBack + 9
                /\ proc.pc # "idle" => StepsLeft(proc) > 0
    BY StepsLeftType DEF IInv, ClientInv
  <1>3. IInv /\ [Next]_vars =>
           [/\ ClientStep => StepsLeft(proc') < StepsLeft(proc)
            /\ proc.pc # "idle" /\ ~ClientStep => proc' = proc]_vars
    <2> SUFFICES ASSUME IInv, Next
                 PROVE  /\ ClientStep => StepsLeft(proc') < StepsLeft(proc)
                        /\ proc.pc # "idle" /\ ~ClientStep => proc' = proc
      OBVIOUS
    <2>1. ClientStep => StepsLeft(proc') < StepsLeft(proc)
      BY EnsureSessionShrinks, CreateSessionShrinks, PlaybackShrinks, CallCommandShrinks
      DEF ClientStep
    <2>2. ASSUME proc.pc # "idle", ~ClientStep PROVE proc' = proc
      BY <2>2 DEF Next, ServerDown, OtherLaunch, Evict, BeginSyncLock, EndSyncLock, Upgrade,
         Send, OtherCall, Reset
    <2>3. QED
      BY <2>1, <2>2
  <1>4. QED
    BY <1>1, <1>2, <1>3, PTL DEF Spec, CallShrinks

===============================================================================
