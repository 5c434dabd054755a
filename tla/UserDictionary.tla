---------------------------- MODULE UserDictionary ----------------------------
(***************************************************************************)
(* The file of the user dictionary, those who write it and the converter   *)
(* that reads it.                                                          *)
(*                                                                         *)
(* Writers: windows (the Dictionary Tool and the word register dialog,     *)
(* which load first and lock then), the import of a synchronisation (which *)
(* locks first) and the converter's thread for IMPORT_USER_DICTIONARY      *)
(* (which loads, shows the words to the converter, and locks only for the  *)
(* save).  The converter loads the file in a thread of its own when RELOAD *)
(* finds another modification time; st_mtime counts seconds.               *)
(*                                                                         *)
(* Save is one step: all or nothing, by a temporary file and a rename.     *)
(* The dictionaries of the file are two: the user's, and the one that      *)
(* imports replace as a whole.                                             *)
(***************************************************************************)
EXTENDS ProcessMutex

CONSTANTS Window,      \* dictionary tools and word register dialogs
          Sync,        \* ImportDictionaryTsv of the sync process
          Importer,    \* the thread of AsyncUserDictionaryImporter
          Word,
          ImportWord,  \* the words of the imported dictionary
          MaxTime,     \* bound of the clock, in seconds
          MaxFaults,   \* bound of failed loads and saves, crashes and restarts
          MaxUses,     \* bound of windows opened, synchronisations and imports
          None

ASSUME DictionaryAssumption ==
    /\ Actor = Window \cup {Sync, Importer}
    /\ Sync \notin Window /\ Importer \notin Window /\ Sync # Importer
    /\ ImportWord \subseteq Word
    /\ \A S \in SUBSET ImportWord : S # None
    /\ MaxTime \in Nat /\ MaxFaults \in Nat /\ MaxUses \in Nat

VARIABLES
    file,      \* the words of user_dictionary.db and its modification time
    clock,     \* seconds
    pc,        \* pc[a]: where a is
    proto,     \* proto[a]: what a's storage has in memory
    missed,    \* history: words that others saved between a's Load and its Lock
    blind,     \* history: who works on what a Load that failed has left
    removed,   \* history: words that a has taken out of what it loaded
    queue,     \* what the last Import of queue_ brings, None if queue_ is empty
    reload,    \* ThreadMain of the reloader
    loaded,    \* what ThreadMain has read
    modified,  \* modified_at_
    tokens,    \* the words that the converter knows
    excuse,    \* history: why tokens may differ from a file of time modified_at_
    faults,    \* how many failures there have been
    uses       \* how many windows, synchronisations and imports

storageVars == <<file, proto, missed, blind, removed>>
converterVars == <<reload, loaded, modified, tokens, excuse>>
vars == <<mutexVars, storageVars, converterVars, clock, pc, queue, faults, uses>>

Times == 0 .. MaxTime
Steps == {"off", "open", "lock", "ready", "close", "unlink",      \* all
          "release", "unlinked", "syncing", "reopen", "relock",   \* SyncNow
          "load", "pop", "ending"}                                \* imports
Excuses == {"failed", "ahead", "second"}

TypeOK ==
    /\ MutexTypeOK
    /\ file \in [words : SUBSET Word, time : Times]
    /\ clock \in Times
    /\ pc \in [Actor -> Steps]
    /\ proto \in [Actor -> SUBSET Word]
    /\ missed \in [Actor -> SUBSET Word]
    /\ blind \subseteq Actor
    /\ removed \in [Actor -> SUBSET Word]
    /\ queue \in {None} \cup SUBSET ImportWord
    /\ reload \in {"idle", "load", "set"}
    /\ loaded \in SUBSET Word
    /\ modified \in Times
    /\ tokens \in SUBSET Word
    /\ excuse \subseteq Excuses
    /\ faults \in 0 .. MaxFaults
    /\ uses \in 0 .. MaxUses
    /\ \A a \in Actor : locked[a] =>
           /\ fd[a] # NoFile
           /\ pc[a] \in {"load", "ready", "close", "release"}

Init ==
    /\ MutexInit
    /\ file \in [words : SUBSET (Word \ ImportWord), time : {0}]
    /\ clock = 0
    /\ pc = [a \in Actor |-> "off"]
    /\ proto = [a \in Actor |-> {}]
    /\ missed = [a \in Actor |-> {}]
    /\ blind = {}
    /\ removed = [a \in Actor |-> {}]
    /\ queue = None
    /\ reload = "load" /\ loaded = {} /\ modified = 0   \* Reload() of the constructor
    /\ tokens = {} /\ excuse = {}
    /\ faults = 0 /\ uses = 0

Goto(a, step) == pc' = [pc EXCEPT ![a] = step]
At(a, step) == pc[a] = step

Fault ==
    /\ faults < MaxFaults
    /\ faults' = faults + 1

Use ==
    /\ uses < MaxUses
    /\ uses' = uses + 1

-----------------------------------------------------------------------------
(* UserDictionaryStorage.                                                  *)

\* The storage of a has these words, as they were read or for want of a file.
Hold(a, words) ==
    /\ proto' = [proto EXCEPT ![a] = words]
    /\ missed' = [missed EXCEPT ![a] = {}]
    /\ removed' = [removed EXCEPT ![a] = {}]
    /\ UNCHANGED file

Read(a) == Hold(a, file.words) /\ blind' = blind \ {a}

\* The storage object is gone, or not yet there.
Forget(a) == Hold(a, {}) /\ blind' = blind \ {a}

\* Load of a fresh storage: a file that cannot be opened or parsed is a warning
\* in the log, and the storage is empty.
Load(a) ==
    \/ Read(a) /\ UNCHANGED faults
    \/ Fault /\ Hold(a, {}) /\ blind' = blind \cup {a}

\* Who has loaded and has still to lock.
Waiting(b) == pc[b] \in {"open", "lock", "pop", "unlinked", "syncing", "reopen", "relock"}

Written(a) ==
    /\ file' = [words |-> proto[a], time |-> clock]
    /\ missed' = [b \in Actor |->
                     IF b # a /\ Waiting(b) THEN missed[b] \cup (proto[a] \ proto[b])
                     ELSE missed[b]]
    /\ excuse' = (excuse \ (IF a = Importer THEN {"ahead"} ELSE {}))
                     \cup (IF modified = clock THEN {"second"} ELSE {})
    /\ UNCHANGED <<proto, blind, removed, reload, loaded, modified, tokens>>

NotWritten == UNCHANGED <<storageVars, converterVars>>

\* Mutant: the lock is not asked for.
SaveUnlocked(a) ==
    \/ Written(a) /\ UNCHANGED faults
    \/ NotWritten /\ Fault

\* Save fails without the lock, and when the file cannot be written.
Save(a) ==
    \/ locked[a] /\ Written(a) /\ UNCHANGED faults
    \/ ~locked[a] /\ NotWritten /\ UNCHANGED faults
    \/ locked[a] /\ NotWritten /\ Fault

-----------------------------------------------------------------------------
(* Lock and UnLock, where the actors call them.                            *)

Open(a) ==
    /\ \/ At(a, "open") /\ Goto(a, "lock")
       \/ At(a, "reopen") /\ Goto(a, "relock")
    /\ OpenLockFile(a)
    /\ UNCHANGED <<storageVars, converterVars, clock, queue, faults, uses>>

Locked(a) ==
    /\ pc[a] \in {"lock", "relock"}
    /\ LockSucceeds(a)
    /\ Goto(a, IF a = Sync THEN "load" ELSE "ready")
    /\ UNCHANGED <<storageVars, converterVars, clock, queue, faults, uses>>

\* A window is not available then, the sync process fails, the tool goes on
\* after SyncNow, and so does the importer.
NotLocked(a) ==
    /\ pc[a] \in {"lock", "relock"}
    /\ LockFails(a)
    /\ IF At(a, "relock") \/ a = Importer
       THEN Goto(a, "ready") /\ UNCHANGED storageVars
       ELSE Goto(a, "off") /\ Forget(a)
    /\ UNCHANGED <<converterVars, clock, queue, faults, uses>>

\* The importer goes on with the head of its loop.
Ended(a) == IF a = Importer THEN "load" ELSE "off"

\* UnLock of a storage that is not locked does nothing.
Unlock(a) ==
    /\ \/ At(a, "close") /\ locked[a] /\ Goto(a, "unlink") /\ Forget(a)
       \/ At(a, "close") /\ ~locked[a] /\ Goto(a, Ended(a)) /\ Forget(a)
       \/ At(a, "release") /\ Goto(a, "unlinked") /\ UNCHANGED storageVars
    /\ CloseLockFile(a)
    /\ UNCHANGED <<converterVars, clock, queue, faults, uses>>

Unlink(a) ==
    /\ \/ At(a, "unlink") /\ Goto(a, Ended(a))
       \/ At(a, "unlinked") /\ Goto(a, "syncing")
    /\ UnlinkLockFile
    /\ UNCHANGED <<storageVars, converterVars, clock, queue, faults, uses>>

-----------------------------------------------------------------------------
(* Dictionary Tool and word register dialog.                               *)

\* The constructor.
OpenWindow(a) ==
    /\ At(a, "off") /\ Goto(a, "open")
    /\ Load(a)
    /\ Use
    /\ UNCHANGED <<mutexVars, converterVars, clock, queue>>

AddWord(a, w) ==
    /\ At(a, "ready") /\ w \notin proto[a]
    /\ proto' = [proto EXCEPT ![a] = @ \cup {w}]
    /\ removed' = [removed EXCEPT ![a] = @ \ {w}]
    /\ UNCHANGED <<mutexVars, file, missed, blind, converterVars, clock, pc, queue, faults, uses>>

DeleteWord(a, w) ==
    /\ At(a, "ready") /\ w \in proto[a]
    /\ proto' = [proto EXCEPT ![a] = @ \ {w}]
    /\ removed' = [removed EXCEPT ![a] = @ \cup {w}]
    /\ UNCHANGED <<mutexVars, file, missed, blind, converterVars, clock, pc, queue, faults, uses>>

\* SaveAndReloadServer and SaveEntry; the RELOAD that follows is one of Reload.
SaveWindow(a) ==
    /\ At(a, "ready")
    /\ Save(a)
    /\ UNCHANGED <<mutexVars, clock, pc, queue, uses>>

\* closeEvent saves, the dialog's Cancel does not; the destructor unlocks.
CloseWindow(a) ==
    /\ At(a, "ready") /\ Goto(a, "close")
    /\ \/ Save(a)
       \/ NotWritten /\ UNCHANGED faults
    /\ UNCHANGED <<mutexVars, clock, queue, uses>>

\* SyncNow goes on only after a save that succeeded.
SyncNow(a) ==
    /\ At(a, "ready") /\ locked[a] /\ Goto(a, "release")
    /\ Written(a)
    /\ UNCHANGED <<mutexVars, clock, queue, faults, uses>>

\* The status reads "done" or "error": the tool loads the file again.  When it
\* cannot, when the process does not start and after 600 polls it does not.
SyncReturns(a) ==
    /\ At(a, "syncing") /\ Goto(a, "reopen")
    /\ \/ Read(a) /\ UNCHANGED faults
       \/ Fault /\ UNCHANGED storageVars
    /\ UNCHANGED <<mutexVars, converterVars, clock, queue, uses>>

-----------------------------------------------------------------------------
(* ImportDictionaryTsv: of the loaded words those of the tsv are kept, and *)
(* those of the tsv that are not there are added.                          *)

StartSync ==
    /\ At(Sync, "off") /\ Goto(Sync, "open")
    /\ Use
    /\ UNCHANGED <<mutexVars, storageVars, converterVars, clock, queue, faults>>

\* Without a file that can be loaded, all words are added.
ImportTsv(tsv) ==
    /\ At(Sync, "load") /\ Goto(Sync, "ready")
    /\ proto' = [proto EXCEPT ![Sync] = {w \in file.words : w \in tsv} \cup tsv]
    /\ removed' = [removed EXCEPT ![Sync] = file.words \ tsv]
    /\ missed' = [missed EXCEPT ![Sync] = {}]
    /\ UNCHANGED <<mutexVars, file, blind, converterVars, clock, queue, faults, uses>>

SaveImport(a) ==
    /\ At(a, "ready") /\ Goto(a, "close")
    /\ Save(a)
    /\ UNCHANGED <<mutexVars, clock, queue, uses>>

-----------------------------------------------------------------------------
(* AsyncUserDictionaryImporter.                                            *)

\* Import, in the converter's main thread: the thread is started unless it is
\* still running.
Import(data) ==
    /\ Use
    /\ queue' = data
    /\ IF At(Importer, "off") THEN Goto(Importer, "load") ELSE UNCHANGED pc
    /\ UNCHANGED <<mutexVars, storageVars, converterVars, clock, faults>>

\* The head of the outer loop.
ImportLoop ==
    /\ At(Importer, "load")
    /\ IF queue = None
       THEN Goto(Importer, "ending") /\ UNCHANGED <<storageVars, faults>>
       ELSE Goto(Importer, "pop") /\ Load(Importer)
    /\ UNCHANGED <<mutexVars, converterVars, clock, queue, uses>>

\* The inner loop, which replaces the entries of the imported dictionary until
\* queue_ is empty, and dic_.Load: the converter knows the words before they are
\* saved.  An Import in the middle of this is one before or after it.
ShowImport ==
    /\ At(Importer, "pop") /\ Goto(Importer, "open")
    /\ LET own == proto[Importer] \ ImportWord IN
       /\ proto' = [proto EXCEPT ![Importer] = own \cup queue]
       /\ removed' = [removed EXCEPT ![Importer] = @ \cup (proto[Importer] \ (own \cup queue))]
       /\ tokens' = own \cup queue
    /\ queue' = None
    /\ excuse' = excuse \cup {"ahead"}
    /\ UNCHANGED <<mutexVars, file, missed, blind, reload, loaded, modified, clock, faults, uses>>

\* Only now is the thread seen to have ended.
ImportThreadEnds ==
    /\ At(Importer, "ending") /\ Goto(Importer, "off")
    /\ UNCHANGED <<mutexVars, storageVars, converterVars, clock, queue, faults, uses>>

-----------------------------------------------------------------------------
(* UserDictionaryReloader.                                                 *)

\* Nothing while the thread is running, and nothing if the time is the same.
MaybeStartReload ==
    /\ reload = "idle" /\ modified # file.time
    /\ modified' = file.time
    /\ reload' = "load"
    /\ excuse' = excuse \ {"failed", "second"}
    /\ UNCHANGED <<loaded, tokens>>

\* RELOAD and RELOAD_AND_WAIT, from any client at any moment.
Reload ==
    /\ MaybeStartReload
    /\ UNCHANGED <<mutexVars, storageVars, clock, pc, queue, faults, uses>>

ReadFile ==
    /\ reload = "load"
    /\ \/ /\ reload' = "set" /\ loaded' = file.words
          /\ UNCHANGED <<excuse, faults>>
       \/ /\ Fault
          /\ reload' = "idle" /\ excuse' = excuse \cup {"failed"}
          /\ UNCHANGED loaded
    /\ UNCHANGED <<mutexVars, storageVars, modified, tokens, clock, pc, queue, uses>>

\* Mutant: the time of the file is noted again when the tokens are set.
SetTokensAndStamp ==
    /\ reload = "set" /\ reload' = "idle"
    /\ tokens' = loaded /\ loaded' = {}
    /\ modified' = file.time
    /\ UNCHANGED <<mutexVars, storageVars, excuse, clock, pc, queue, faults, uses>>

SetTokens ==
    /\ reload = "set" /\ reload' = "idle"
    /\ tokens' = loaded /\ loaded' = {}
    /\ UNCHANGED <<mutexVars, storageVars, modified, excuse, clock, pc, queue, faults, uses>>

-----------------------------------------------------------------------------
(* The rest of the world.                                                  *)

Crash(a) ==
    /\ Fault
    /\ pc[a] # "off" /\ Goto(a, "off")
    /\ CloseLockFile(a) /\ Forget(a)
    /\ UNCHANGED <<converterVars, clock, queue, uses>>

\* The converter ends, in any of its steps, and is launched again.
Restart ==
    /\ Fault
    /\ Goto(Importer, "off") /\ CloseLockFile(Importer) /\ Forget(Importer)
    /\ queue' = None
    /\ reload' = "load" /\ loaded' = {} /\ modified' = file.time
    /\ tokens' = {} /\ excuse' = {}
    /\ UNCHANGED <<clock, uses>>

Tick ==
    /\ clock < MaxTime
    /\ clock' = clock + 1
    /\ UNCHANGED <<mutexVars, storageVars, converterVars, pc, queue, faults, uses>>

Next ==
    \/ \E a \in Actor : Open(a) \/ Locked(a) \/ NotLocked(a) \/ Unlock(a) \/ Unlink(a)
    \/ \E a \in Window :
        \/ OpenWindow(a) \/ SaveWindow(a) \/ CloseWindow(a) \/ SyncNow(a) \/ SyncReturns(a)
        \/ \E w \in Word \ ImportWord : AddWord(a, w) \/ DeleteWord(a, w)
    \/ StartSync
    \/ \E tsv \in SUBSET Word : ImportTsv(tsv)
    \/ \E a \in {Sync, Importer} : SaveImport(a)
    \/ \E data \in SUBSET ImportWord : Import(data)
    \/ ImportLoop \/ ShowImport \/ ImportThreadEnds
    \/ Reload \/ ReadFile \/ SetTokens
    \/ \E a \in Window \cup {Sync} : Crash(a)
    \/ Restart
    \/ Tick

Spec == Init /\ [][Next]_vars

-----------------------------------------------------------------------------
(* Properties.                                                             *)

\* Who could read the file and has the lock has in memory every word of it, except
\* those that his user has deleted and those that others saved between his Load and
\* his Lock: his next Save, which writes the file as a whole, loses no other.  The
\* import of a synchronisation, which locks first, misses none.  This is as long as no
\* two processes have the lock at once; who could not read the file (blind) overwrites
\* all of it.  (Load, Lock and Save of UserDictionaryStorage.)
LockedSeesAll ==
    ~overlap => \A a \in Actor :
        locked[a] /\ pc[a] \in {"ready", "release"} /\ a \notin blind =>
            file.words \subseteq
                proto[a] \cup removed[a] \cup (IF a = Sync THEN {} ELSE missed[a])

\* When the converter is not loading and has words other than the file's, the
\* next RELOAD loads the file, unless the last load failed, an import was shown
\* and not saved, or the file was saved twice in the second that was noted.
\* (MaybeStartReload takes the time of the file before the file is read.)
StaleIsNoticed ==
    reload = "idle" /\ excuse = {} /\ tokens # file.words => modified # file.time

\* What base/process_mutex.h promises of the lock.  (Violated: between close and
\* unlink another process locks the file, which is then unlinked, and a third one
\* creates and locks a new file.)
Exclusive == \A a, b \in Actor : locked[a] /\ locked[b] => a = b
=============================================================================
