--------------------------------- MODULE Client ---------------------------------
(***************************************************************************)
(* One client (client/client.cc) and the server it starts, loses and       *)
(* starts again: the status of the connection, the session that is made    *)
(* anew when the server has lost it, and the journal of inputs that is     *)
(* played back to bring the session to where it was.                       *)
(*                                                                         *)
(* Each IPC call of the client is one step: the server executes it, or     *)
(* refuses it, or dies, or does not answer.  Between two calls the server  *)
(* may be ended or started by others, forget the session, be locked by a   *)
(* synchronisation, or be replaced on the disk by a newer version.         *)
(*                                                                         *)
(* An input types a key, or commits what has been typed.  The sessions     *)
(* that the client has given up are left out; so are keys that are only    *)
(* tested (they change no session when they are played back).              *)
(***************************************************************************)
EXTENDS Integers, Sequences, SequencesExt

CONSTANTS MaxKeys,      \* bound of the keys that the user types
          MaxPlayBack,  \* kMaxPlayBackSize
          Faults,       \* kinds of faults that happen
          MaxFaults,    \* bound of their number
          Versions,     \* versions of the server when the client starts
          Void          \* the server knows no session of the client

ASSUME ClientAssumption ==
    /\ MaxKeys \in Nat /\ MaxPlayBack \in Nat \ {0} /\ MaxFaults \in Nat
    /\ Faults \subseteq {"crash", "timeout", "error", "broken", "evict", "early",
                         "launch", "kill", "lock"}
    /\ Versions \subseteq {"older protocol", "older", "same", "newer protocol"}
    /\ Void \notin Seq(1 .. MaxKeys)

\* Status is ordered in client_interface.h: Silent are those >= SERVER_TIMEOUT.
Silent == {"TIMEOUT", "BROKEN_MESSAGE", "VERSION_MISMATCH", "FATAL"}
Status == {"UNKNOWN", "SHUTDOWN", "INVALID_SESSION", "OK"} \cup Silent
Keys == 1 .. MaxKeys

\* SEND_KEY of a character, of a character that commits a conversion and begins
\* a new composition, of Enter; SEND_COMMAND with SUBMIT.
Input == [type : {"type", "next", "enter", "submit"}, key : 0 .. MaxKeys]
Idle == [pc |-> "idle", input |-> [type |-> "enter", key |-> 0], again |-> FALSE,
         trial |-> 0, at |-> 0]

VARIABLES server,     \* is it up, and its version
          installed,  \* version of the program on the disk
          session,    \* keys composed in the session id_ of the server, or Void
          locked,     \* sync_locked_ of the server
          status,     \* server_status_
          proc,       \* where EnsureCallCommand is
          history,    \* history_inputs_
          shown,      \* the preedit of the last answer (history)
          doc,        \* the keys that were delivered to the application
          typed,      \* keys typed so far
          torn,       \* history: delivered keys left over by a playback cut short
          faults      \* faults so far

serverVars == <<server, installed, locked>>
userVars == <<shown, doc, typed, torn>>
vars == <<server, installed, session, locked, status, proc, history, shown, doc,
          typed, torn, faults>>

Init ==
    /\ server \in [up : BOOLEAN, version : Versions]
    /\ installed \in Versions
    /\ session = Void /\ locked = FALSE
    /\ status = "UNKNOWN" /\ proc = Idle /\ history = <<>>
    /\ shown = <<>> /\ doc = <<>> /\ typed = 0 /\ torn = {} /\ faults = 0

Fault(kind) == kind \in Faults /\ faults < MaxFaults /\ faults' = faults + 1
Down == [server EXCEPT !.up = FALSE]
Reached == server.up /\ server.version \in {"older", "same"}

-----------------------------------------------------------------------------
(* What the server makes of an input.                                       *)

After(content, in) ==
    CASE in.type = "type" -> Append(content, in.key)
      [] in.type = "next" -> <<in.key>>
      [] OTHER -> <<>>

Result(content, in) == IF in.type = "type" THEN <<>> ELSE content
Consumed(content, in) == in.type # "enter" \/ content # <<>>

\* A locked server and one that does not know the session refuse the input.
Refused == locked \/ session = Void
Executed(in) == IF Refused THEN session ELSE After(session, in)

-----------------------------------------------------------------------------
(* The server's own life.                                                   *)

ServerDown ==
    /\ server.up /\ Fault("crash")
    /\ server' = Down /\ session' = Void /\ locked' = FALSE
    /\ UNCHANGED <<installed, status, proc, history, userVars>>

OtherLaunch ==
    /\ ~server.up
    /\ server' = [up |-> TRUE, version |-> installed]
    /\ UNCHANGED <<installed, session, locked, status, proc, history, userVars,
                   faults>>

Evict ==
    /\ session # Void /\ Fault("evict")
    /\ session' = Void
    /\ UNCHANGED <<serverVars, status, proc, history, userVars>>

\* At any moment: the server does not look at the sessions, and a synchronisation
\* has asked for any_composing some time before, or not at all if it is forced.
BeginSyncLock ==
    /\ server.up /\ ~locked /\ Fault("lock")
    /\ locked' = TRUE
    /\ UNCHANGED <<server, installed, session, status, proc, history, userVars>>

EndSyncLock ==
    /\ locked /\ locked' = FALSE
    /\ UNCHANGED <<server, installed, session, status, proc, history, userVars,
                   faults>>

Upgrade ==
    /\ installed \in {"older protocol", "older"} /\ installed' = "same"
    /\ UNCHANGED <<server, session, locked, status, proc, history, userVars, faults>>

-----------------------------------------------------------------------------
(* Client::Call that returns false, and the status st that it leaves; after *)
(* is the session if the server has executed the call.                      *)

CallFails(after, st) ==
    \/ /\ ~server.up
       /\ st = IF status = "UNKNOWN" THEN "UNKNOWN" ELSE "SHUTDOWN"
       /\ UNCHANGED <<serverVars, session, faults>>
    \/ /\ server.up /\ ~Reached /\ st = status
       /\ UNCHANGED <<serverVars, session, faults>>
    \/ /\ Reached /\ Fault("crash") /\ st = "SHUTDOWN"
       /\ server' = Down /\ session' = Void /\ locked' = FALSE
       /\ UNCHANGED installed
    \/ /\ Reached
       /\ \/ Fault("timeout") /\ st = "TIMEOUT" /\ session' \in {session, after}
          \/ Fault("error") /\ st = "SHUTDOWN" /\ session' \in {session, after}
          \/ Fault("broken") /\ st = "BROKEN_MESSAGE" /\ session' = after
       /\ UNCHANGED serverVars

\* CallAndCheckVersion: a protocol that is not the client's ends the connection.
CheckedCallFails(after, st) ==
    \E s \in Status :
        /\ CallFails(after, s)
        /\ st = IF server.up /\ ~Reached THEN "VERSION_MISMATCH" ELSE s

\* PingServer, and the launch of the program on the disk if there is no answer.
Launched(s) == IF s.up THEN s ELSE [up |-> TRUE, version |-> installed]

\* EnsureConnection after status st, the server being s: it starts the server,
\* or shows an error and is FATAL from then on.
EnsureConnection(st, s) ==
    \/ st \in {"OK", "INVALID_SESSION"} /\ status' = st /\ server' = s
       /\ UNCHANGED faults
    \/ st \in Silent /\ status' = "FATAL" /\ server' = s /\ UNCHANGED faults
    \/ /\ st \in {"SHUTDOWN", "UNKNOWN"}
       /\ \/ /\ status' = "INVALID_SESSION" /\ server' = Launched(s)
             /\ UNCHANGED faults
          \/ Fault("launch") /\ status' = "FATAL" /\ server' = s

-----------------------------------------------------------------------------
(* EnsureCallCommand.                                                       *)

Send ==
    /\ proc.pc = "idle"
    /\ \E type \in {"type", "next", "enter", "submit"} :
        LET key == IF type \in {"type", "next"} THEN typed + 1 ELSE 0
        IN  /\ typed' = typed + (IF key = 0 THEN 0 ELSE 1) /\ typed' <= MaxKeys
            /\ proc' = [Idle EXCEPT !.pc = "connect",
                                    !.input = [type |-> type, key |-> key]]
    /\ UNCHANGED <<serverVars, session, status, history, shown, doc, torn, faults>>

\* The connection is there, or is made; a session that is there is used.
EnsureSession ==
    /\ proc.pc = "connect"
    /\ EnsureConnection(status, server)
    /\ proc' = CASE status' = "FATAL" -> Idle
                 [] status' = "OK" -> [proc EXCEPT !.pc = "call"]
                 [] OTHER -> [proc EXCEPT !.pc = "create", !.trial = 0]
    /\ UNCHANGED <<installed, session, locked, history, userVars>>

\* CreateSession fails: EnsureConnection is called "to display error message".
GiveUp(st, s) ==
    /\ EnsureConnection(st, s)
    /\ proc' = Idle /\ session' = Void
    /\ UNCHANGED <<installed, history, userVars>>

\* Mutant: the server is restarted however often it comes back as it was.
RestartServerAlways ==
    /\ EnsureConnection("UNKNOWN", Down)
    /\ proc' = IF status' = "FATAL" THEN Idle ELSE [proc EXCEPT !.trial = 1]
    /\ session' = Void /\ locked' = FALSE
    /\ UNCHANGED <<installed, history, userVars>>

\* An older server is ended and started again, once.
RestartServer ==
    \/ /\ proc.trial = 0
       /\ EnsureConnection("UNKNOWN", Down)
       /\ proc' = IF status' = "FATAL" THEN Idle ELSE [proc EXCEPT !.trial = 1]
       /\ session' = Void /\ locked' = FALSE
       /\ UNCHANGED <<installed, history, userVars>>
    \/ /\ proc.trial = 1 \/ "kill" \in Faults   \* ForceTerminateServer failed
       /\ GiveUp("BROKEN_MESSAGE", server) /\ UNCHANGED locked

\* CreateSession by way of CheckVersionOrRestartServerInternal.  Nothing depends
\* on the answer to the SET_REQUEST that may follow.
CreateSession ==
    /\ proc.pc = "create"
    /\ \/ /\ server.up /\ server.version \in {"older protocol", "older"}
          /\ RestartServer
       \/ /\ server.up /\ server.version = "newer protocol"
          /\ GiveUp("VERSION_MISMATCH", server) /\ UNCHANGED locked
       \/ /\ ~server.up
          /\ GiveUp("SHUTDOWN", server) /\ UNCHANGED locked
       \/ /\ Reached /\ "early" \in Faults   \* too soon after the last one
          /\ GiveUp("INVALID_SESSION", server) /\ UNCHANGED locked
       \/ /\ Reached /\ "crash" \in Faults /\ faults < MaxFaults
          /\ faults' = faults + 1
          /\ status' = "INVALID_SESSION" /\ server' = Launched(Down)
          /\ proc' = Idle /\ session' = Void /\ locked' = FALSE
          /\ UNCHANGED <<installed, history, userVars>>
       \/ /\ Reached /\ (Fault("timeout") \/ Fault("broken"))
          /\ status' = "FATAL" /\ proc' = Idle /\ session' = Void
          /\ UNCHANGED <<serverVars, history, userVars>>
       \/ /\ server.up /\ server.version = "same"
          /\ session' = <<>> /\ status' = "OK"
          /\ proc' = IF proc.again THEN [proc EXCEPT !.pc = "playback", !.at = 1]
                     ELSE [proc EXCEPT !.pc = "call"]
          /\ UNCHANGED <<serverVars, history, userVars, faults>>

\* Mutant: a full journal is taken for complete.
JournalFullLate == Len(history) > MaxPlayBack

\* A journal that is full is not complete and is thrown away.
JournalFull == Len(history) >= MaxPlayBack

\* The keys of a session that have been delivered, or one after them has.
Late(content) ==
    IF content = Void THEN {}
    ELSE {key \in ToSet(content) : \E i \in 1 .. Len(doc) : key <= doc[i]}

\* PlaybackHistory, one call after the other.  A call that the server refuses is
\* passed over, one that fails is the last.
Playback ==
    /\ proc.pc = "playback"
    /\ IF JournalFull
       THEN /\ history' = <<>> /\ proc' = [proc EXCEPT !.pc = "call"]
            /\ UNCHANGED <<serverVars, session, status, torn, faults>>
       ELSE IF proc.at > Len(history)
       THEN /\ proc' = [proc EXCEPT !.pc = "call"]
            /\ UNCHANGED <<serverVars, session, status, history, torn, faults>>
       ELSE /\ \/ /\ Reached
                  /\ session' = Executed(history[proc.at])
                  /\ torn' = IF Refused THEN torn \cup Late(session) ELSE torn
                  /\ proc' = [proc EXCEPT !.at = @ + 1]
                  /\ UNCHANGED <<serverVars, status, faults>>
               \/ \E st \in Status : /\ CallFails(Executed(history[proc.at]), st)
                                     /\ status' = st
                                     /\ torn' = torn \cup Late(session')
                                     /\ proc' = [proc EXCEPT !.pc = "call"]
            /\ UNCHANGED history
    /\ UNCHANGED <<shown, doc, typed>>

\* Mutant: the journal grows without bound.
PushHistoryUnbounded(in) ==
    history' = IF ~Consumed(session, in) THEN history
               ELSE IF in.type # "submit" /\ Result(session, in) # <<>> THEN <<>>
               ELSE Append(history, in)

\* PushHistory: a key that delivers something is a context boundary.
PushHistory(in) ==
    history' = IF ~Consumed(session, in) THEN history
               ELSE IF in.type # "submit" /\ Result(session, in) # <<>> THEN <<>>
               ELSE IF Len(history) >= MaxPlayBack THEN history
               ELSE Append(history, in)

\* The input itself, for the first or the second time.
CallCommand ==
    /\ proc.pc = "call"
    /\ \/ /\ Reached /\ status \notin Silent /\ ~Refused
          /\ session' = Executed(proc.input)
          /\ PushHistory(proc.input)
          /\ doc' = doc \o Result(session, proc.input)
          /\ shown' = session'
          /\ proc' = Idle
          /\ UNCHANGED <<serverVars, status, typed, torn, faults>>
       \/ /\ Reached /\ status \notin Silent /\ Refused
          /\ status' = IF proc.again THEN status ELSE "INVALID_SESSION"
          /\ proc' = IF proc.again THEN Idle
                     ELSE [proc EXCEPT !.pc = "connect", !.again = TRUE]
          /\ UNCHANGED <<serverVars, session, history, userVars, faults>>
       \/ /\ status \in Silent   \* the playback has failed for good
          /\ history' = <<>> /\ proc' = Idle
          /\ UNCHANGED <<serverVars, session, status, userVars, faults>>
       \/ /\ status \notin Silent
          /\ \E st \in Status : CheckedCallFails(Executed(proc.input), st) /\ status' = st
          /\ IF proc.again   \* DumpQueryOfDeath
             THEN history' = <<>> /\ proc' = Idle
             ELSE /\ proc' = IF status' \in Silent THEN Idle
                             ELSE [proc EXCEPT !.pc = "connect", !.again = TRUE]
                  /\ UNCHANGED history
          /\ UNCHANGED userVars

-----------------------------------------------------------------------------
(* Calls that need no session: GetConfig before a key, SyncData, NoOperation.*)

OtherCall ==
    /\ proc.pc = "idle" /\ status \notin Silent
    /\ \E st \in Status : CallFails(session, st) /\ status' = st
    /\ UNCHANGED <<proc, history, userVars>>

\* Client::Reset, when an input context is initialized again.
Reset ==
    /\ proc.pc = "idle" /\ status' = "UNKNOWN"
    /\ UNCHANGED <<serverVars, session, proc, history, userVars, faults>>

ClientStep == EnsureSession \/ CreateSession \/ Playback \/ CallCommand

Next ==
    \/ ServerDown \/ OtherLaunch \/ Evict \/ BeginSyncLock \/ EndSyncLock \/ Upgrade
    \/ Send \/ ClientStep \/ OtherCall \/ Reset

Spec == Init /\ [][Next]_vars

\* The client's thread runs.
FairSpec == Spec /\ WF_vars(ClientStep)

-----------------------------------------------------------------------------
(* What must hold.                                                          *)

PCs == {"idle", "connect", "create", "playback", "call"}

\* Types, and the states that the DCHECKs of Call and EnsureSession ask for.
TypeOK ==
    /\ server \in [up : BOOLEAN, version : Versions \cup {"same"}]
    /\ installed \in Versions \cup {"same"}
    /\ session \in Seq(Keys) \cup {Void} /\ locked \in BOOLEAN
    /\ status \in Status
    /\ proc \in [pc : PCs, input : Input, again : BOOLEAN, trial : 0 .. 1,
                 at : 0 .. MaxPlayBack + 1]
    /\ history \in Seq(Input) /\ Len(history) <= MaxPlayBack
    /\ shown \in Seq(Keys) /\ doc \in Seq(Keys)
    /\ typed \in 0 .. MaxKeys /\ torn \subseteq Keys /\ faults \in 0 .. MaxFaults
    /\ proc.pc = "create" => status = "INVALID_SESSION"
    /\ proc.pc = "call" /\ ~proc.again => status = "OK"
    /\ ~server.up => session = Void

\* Whatever is lost and played back, no key reaches the document twice, and none
\* after a later one, but for those (torn) that a playback has typed again when it
\* is cut short, by a lock or a connection that breaks, before the SUBMIT that
\* follows them in the journal.  (PushHistory, ResetHistory, PlaybackHistory.)
TypedOnceInOrder ==
    \A i, j \in 1 .. Len(doc) :
        i < j /\ doc[i] \notin torn /\ doc[j] \notin torn => doc[i] < doc[j]

\* "found context boundary" (client.cc:279): what has been delivered is not in the
\* journal, and no key is ever delivered twice.  (Violated: SUBMIT is no boundary.)
NoKeyTwice == \A i \in 1 .. Len(doc) - 1 : doc[i] < doc[i + 1]

\* Every key gets its answer: the restarts, the second trial and the playback
\* come to an end, also with a server that stays as old as it was.
EveryKeyAnswered == proc.pc # "idle" ~> proc.pc = "idle"

\* "playback the history to restore the previous state" (client.cc:396): a key
\* is only applied to a session that holds what the user sees.
KeysReachWhatIsShown == proc.pc = "call" /\ Reached /\ ~Refused => session = shown
=============================================================================
