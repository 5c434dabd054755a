------------------------- MODULE UserHistoryStorage -------------------------
(***************************************************************************)
(* The input history of the converter process:                             *)
(* prediction/user_history_storage.cc and the operations of                *)
(* UserHistoryPredictor on it.  Two threads: the command loop ("main") and *)
(* the syncer, the one background task of task_manager_, which loads the   *)
(* file or saves it.  mutex_ protects dic_ only; needs_sync_ is an atomic  *)
(* that is read and written outside it, and the file is read and written   *)
(* outside it as well.                                                     *)
(*                                                                         *)
(* An entry is absent, live, or removed (kept with removed() set, never    *)
(* suggested).  The cache holds 10000 entries: evictions are left out.     *)
(***************************************************************************)
EXTENDS TLC

CONSTANTS
    Entry,          \* fingerprints of entries
    NoFile          \* no file, or one that can not be read

Dic == [Entry -> {"absent", "live", "removed"}]
Empty == [e \in Entry |-> "absent"]

ASSUME NoFileAssumption == NoFile \notin Dic

VARIABLES
    dic,            \* dic_
    needsSync,      \* needs_sync_
    canceled,       \* canceled_
    file,           \* .history.db; replaced atomically (rename)
    task,           \* what the syncer does next, and the entries it carries
    main,           \* what the main thread does next
    wish,           \* history: what the user last asked of an entry
    saved,          \* history: suggestions written to the file, not removed since
    late            \* history: entries changed while the syncer ran, or without
                    \* a mark, and not copied by a save since

vars == <<dic, needsSync, canceled, file, task, main, wish, saved, late>>

NoTask == [op |-> "none", data |-> NoFile]
Task(op, data) == [op |-> op, data |-> data]
IsSyncerRunning == task # NoTask

OnDisk == IF file = NoFile THEN Empty ELSE file

\* Clear holds mutex_ to its end, file operations included.
Locked == main \in {"clear check", "clear unlink"}

-----------------------------------------------------------------------------
(* The main thread: operations on dic_.                                    *)

\* Mutant: learning goes on while the file is read or written.
MayLearnAlways == TRUE

\* IsSyncerInCriticalSection asks whether the caller owns mutex_, so what it tells
\* is whether the syncer runs.
MayLearn == ~IsSyncerRunning

RemoveAll(d, S) == [e \in Entry |-> IF e \in S /\ d[e] = "live" THEN "removed" ELSE d[e]]

\* The user, or the predictor for him, no longer wants the entries of S.
Unwanted(S) ==
    /\ wish' = [e \in Entry |-> IF e \in S THEN "removed" ELSE wish[e]]
    /\ saved' = saved \ S

\* Commit of e; other suggestions shown may be dropped, never having been chosen.
Finish(e) ==
    /\ MayLearn
    /\ \E S \in SUBSET (Entry \ {e}) :
          /\ dic' = [RemoveAll(dic, S) EXCEPT ![e] = "live"]
          /\ wish' = [x \in Entry |-> IF x = e THEN "learned"
                                     ELSE IF x \in S THEN "removed" ELSE wish[x]]
          /\ saved' = saved \ S
    /\ needsSync' = TRUE
    /\ UNCHANGED <<canceled, file, task, main, late>>

\* Undo of a commit: the entry is what it was before, of frequency 0 or not.
Revert(e) ==
    /\ MayLearn
    /\ dic[e] # "absent"
    /\ \/ /\ dic' = [dic EXCEPT ![e] = "live"]
          /\ wish' = [wish EXCEPT ![e] = "learned"]
          /\ UNCHANGED saved
       \/ /\ dic' = [dic EXCEPT ![e] = "removed"]
          /\ Unwanted({e})
    /\ needsSync' = TRUE
    /\ UNCHANGED <<canceled, file, task, main, late>>

\* Entries changed by an operation that does not ask for the syncer.
ChangedLate(S) == late' = IF IsSyncerRunning THEN late \cup S ELSE late

\* The command ADD_USER_HISTORY.
AddHistoryEntry(e) ==
    /\ dic' = [dic EXCEPT ![e] = "live"]
    /\ wish' = [wish EXCEPT ![e] = "learned"]
    /\ needsSync' = TRUE
    /\ ChangedLate({e})
    /\ UNCHANGED <<canceled, file, task, main, saved>>

\* Redoes, with the text left of the cursor, part of a commit that was undone.
CommitContext(e) == AddHistoryEntry(e)

\* The user deletes a suggestion; looking the entry up marks it for saving.
ClearHistoryEntry(e) ==
    /\ dic' = RemoveAll(dic, {e})
    /\ Unwanted({e})
    /\ needsSync' = TRUE
    /\ ChangedLate({e})
    /\ main' = "clear entry"
    /\ UNCHANGED <<canceled, file, task>>

\* The second pass takes the entries that contain it, and marks nothing unless an
\* n-gram chain is followed.
ClearContaining ==
    /\ main = "clear entry"
    /\ \E S \in SUBSET Entry :
          /\ dic' = RemoveAll(dic, S)
          /\ Unwanted(S)
          /\ needsSync' \in {needsSync, TRUE}
          /\ late' = IF IsSyncerRunning \/ ~needsSync' THEN late \cup S ELSE late
    /\ main' = "up"
    /\ UNCHANGED <<canceled, file, task>>

\* AsyncSave: scheduled when there is something to save and the syncer is free.
AsyncSave(dirty) ==
    task' = IF dirty /\ ~IsSyncerRunning THEN Task("save", NoFile) ELSE task

Sync ==
    /\ AsyncSave(needsSync)
    /\ UNCHANGED <<dic, needsSync, canceled, file, main, wish, saved, late>>

ClearUnusedHistory ==
    LET unused == {e \in Entry : dic[e] = "removed"} IN
    /\ dic' = [e \in Entry |-> IF e \in unused THEN "absent" ELSE dic[e]]
    /\ needsSync' = (needsSync \/ unused # {})
    /\ ChangedLate(unused)
    /\ AsyncSave(needsSync')
    /\ UNCHANGED <<canceled, file, main, wish, saved>>

\* Waits for the syncer, then AsyncLoad.
Reload ==
    /\ ~IsSyncerRunning
    /\ task' = Task("load", NoFile)
    /\ UNCHANGED <<dic, needsSync, canceled, file, main, wish, saved, late>>

-----------------------------------------------------------------------------
(* ClearAllHistory: Clear, and the Save it makes under the lock.           *)

Clear ==
    /\ dic' = Empty
    /\ needsSync' = TRUE
    /\ wish' = [e \in Entry |-> "removed"]
    /\ saved' = {}
    /\ ChangedLate(Entry)
    /\ main' = "clear check"
    /\ UNCHANGED <<canceled, file, task>>

ClearReturns ==
    /\ main' = "up"
    /\ wish' = [e \in Entry |-> "cleared"]
    /\ ChangedLate(Entry)

\* Save reads needs_sync_ again ...
ClearCheck ==
    /\ main = "clear check"
    /\ IF needsSync THEN main' = "clear unlink" /\ UNCHANGED <<wish, late>>
                    ELSE ClearReturns
    /\ UNCHANGED <<dic, needsSync, canceled, file, task, saved>>

\* ... and, with nothing to write, unlinks the file; needs_sync_ stays.
ClearUnlink ==
    /\ main = "clear unlink"
    /\ file' = NoFile
    /\ ClearReturns
    /\ UNCHANGED <<dic, needsSync, canceled, task, saved>>

-----------------------------------------------------------------------------
(* The syncer thread: Save.                                                *)

\* The copy of dic_, under mutex_.
SaveCopy ==
    /\ task.op = "save"
    /\ \/ /\ ~needsSync
          /\ task' = NoTask
          /\ UNCHANGED late
       \/ /\ needsSync
          /\ ~Locked
          /\ task' = Task("write", dic)
          /\ late' = {}
    /\ UNCHANGED <<dic, needsSync, canceled, file, main, wish, saved>>

\* Mutant: an empty history is written as well.
WritableAlways(data) == TRUE

\* storing empty file causes an error
Writable(data) == data # Empty

SaveWrite ==
    /\ task.op = "write"
    /\ Writable(task.data)
    /\ file' = task.data
    /\ task' = Task("flag", NoFile)
    /\ saved' = saved \cup {e \in Entry : wish[e] = "learned" /\ task.data[e] = "live"}
    /\ UNCHANGED <<dic, needsSync, canceled, main, wish, late>>

\* Nothing to write: the file is unlinked, and needs_sync_ stays.
SaveUnlink ==
    /\ task.op = "write"
    /\ ~Writable(task.data)
    /\ file' = NoFile
    /\ task' = NoTask
    /\ UNCHANGED <<dic, needsSync, canceled, main, wish, saved, late>>

\* Mutant: the flag is cleared whether the file was written or not.
SaveFailsClean ==
    /\ task.op = "write"
    /\ needsSync' = FALSE
    /\ task' = NoTask
    /\ UNCHANGED <<dic, canceled, file, main, wish, saved, late>>

SaveFails ==
    /\ task.op = "write"
    /\ Writable(task.data)
    /\ task' = NoTask
    /\ UNCHANGED <<dic, needsSync, canceled, file, main, wish, saved, late>>

SaveFlag ==
    /\ task.op = "flag"
    /\ needsSync' = FALSE
    /\ task' = NoTask
    /\ UNCHANGED <<dic, canceled, file, main, wish, saved, late>>

-----------------------------------------------------------------------------
(* The syncer thread: Load.                                                *)

LoadRead ==
    /\ task.op = "load"
    /\ file # NoFile
    /\ task' = Task("fill", file)
    /\ late' = {}
    /\ UNCHANGED <<dic, needsSync, canceled, file, main, wish, saved>>

\* No file, no password, a broken message: memory stays as it is.  What the file
\* held is out of reach from now on.
LoadFails ==
    /\ task.op = "load"
    /\ task' = NoTask
    /\ late' = Entry
    /\ saved' = {e \in saved : dic[e] = "live"}
    /\ UNCHANGED <<dic, needsSync, canceled, file, main, wish>>

\* Under mutex_ entries are inserted until canceled_ is seen: all of them, or some.
Fill == \E S \in SUBSET Entry :
           /\ S # Entry => canceled
           /\ dic' = [e \in Entry |-> IF e \in S THEN task.data[e] ELSE "absent"]

\* Mutant: a load leaves the flag as it finds it.
LoadFillKeepsFlag ==
    /\ task.op = "fill"
    /\ ~Locked
    /\ Fill
    /\ task' = NoTask
    /\ UNCHANGED <<needsSync, canceled, file, main, wish, saved, late>>

LoadFill ==
    /\ task.op = "fill"
    /\ ~Locked
    /\ Fill
    /\ needsSync' = FALSE
    /\ task' = NoTask
    /\ UNCHANGED <<canceled, file, main, wish, saved, late>>

-----------------------------------------------------------------------------
(* The life of the storage.                                                *)

\* The constructor: AsyncLoad.
Start ==
    /\ main = "gone"
    /\ main' = "up"
    /\ dic' = Empty
    /\ needsSync' = FALSE
    /\ canceled' = FALSE
    /\ task' = Task("load", NoFile)
    /\ late' = {}
    /\ UNCHANGED <<file, wish, saved>>

\* The destructor stops a running load ...
Close ==
    /\ main = "up"
    /\ canceled' = IsSyncerRunning
    /\ main' = "closing"
    /\ UNCHANGED <<dic, needsSync, file, task, wish, saved, late>>

\* ... waits for the syncer, and saves.
CloseSave ==
    /\ main = "closing"
    /\ ~IsSyncerRunning
    /\ \/ file' = IF ~needsSync THEN file ELSE IF Writable(dic) THEN dic ELSE NoFile
       \/ needsSync /\ Writable(dic) /\ UNCHANGED file
    /\ main' = "gone"
    /\ UNCHANGED <<dic, needsSync, canceled, task, wish, saved, late>>

\* The process is killed: neither thread takes another step.
Crash ==
    /\ main # "gone"
    /\ main' = "gone"
    /\ task' = NoTask
    /\ UNCHANGED <<dic, needsSync, canceled, file, wish, saved, late>>

Init ==
    /\ file \in (Dic \ {Empty}) \cup {NoFile}
    /\ dic = Empty
    /\ needsSync = FALSE
    /\ canceled = FALSE
    /\ task = NoTask
    /\ main = "gone"
    /\ wish = [e \in Entry |-> IF OnDisk[e] = "live" THEN "learned" ELSE "never"]
    /\ saved = {e \in Entry : OnDisk[e] = "live"}
    /\ late = {}

Command ==
    /\ main = "up"
    /\ \/ \E e \in Entry : Finish(e)
       \/ \E e \in Entry : Revert(e)
       \/ \E e \in Entry : CommitContext(e)
       \/ \E e \in Entry : AddHistoryEntry(e)
       \/ \E e \in Entry : ClearHistoryEntry(e)
       \/ Sync
       \/ ClearUnusedHistory
       \/ Reload
       \/ Clear

Syncer == SaveCopy \/ SaveWrite \/ SaveUnlink \/ SaveFails \/ SaveFlag
             \/ LoadRead \/ LoadFails \/ LoadFill

Next == \/ Command
        \/ ClearContaining
        \/ ClearCheck
        \/ ClearUnlink
        \/ Syncer
        \/ Start
        \/ Close
        \/ CloseSave
        \/ Crash

Spec == Init /\ [][Next]_vars

\* Both threads run; SYNC_DATA, DELETE_SESSION and CLEANUP call Sync again and
\* again, whatever else is asked; a disk does not refuse every write for ever.
Fairness == /\ WF_vars(Syncer)
            /\ WF_vars(ClearContaining)
            /\ SF_vars(main = "up" /\ Sync)
            /\ SF_vars(SaveWrite)
FairSpec == Spec /\ Fairness

-----------------------------------------------------------------------------
(* Properties                                                              *)

\* The values the variables range over; the file is never empty.
TypeOK ==
    /\ dic \in Dic
    /\ needsSync \in BOOLEAN
    /\ canceled \in BOOLEAN
    /\ file \in (Dic \ {Empty}) \cup {NoFile}
    /\ \/ task \in [op : {"none", "save", "flag", "load"}, data : {NoFile}]
       \/ task \in [op : {"write", "fill"}, data : Dic]
    /\ main \in {"up", "clear entry", "clear check", "clear unlink", "closing", "gone"}
    /\ wish \in [Entry -> {"never", "learned", "removed", "cleared"}]
    /\ saved \subseteq Entry
    /\ late \subseteq Entry

\* When the syncer is idle and nothing is marked for saving, the file holds what
\* memory holds, except for entries that an operation which does not ask for the
\* syncer touched while it ran: learning itself never loses its mark.
DiskAgrees ==
    main = "up" /\ ~IsSyncerRunning /\ ~needsSync
       => \A e \in Entry \ late : dic[e] = OnDisk[e]

\* A suggestion that has reached the file stays in it until the user removes it:
\* no save of an older copy, no interrupted load and no crash takes it away (a
\* file that can not be read may).
SavedStays == \A e \in saved : OnDisk[e] = "live"

\* What is marked for saving while the syncer is idle reaches the file, unless the
\* user removes it, the history is reloaded or the process ends before.
SavedEventually ==
    \A e \in Entry :
       main = "up" /\ needsSync /\ ~IsSyncerRunning /\ dic[e] = "live"
          ~> \/ OnDisk[e] = "live" \/ dic[e] # "live"
             \/ task.op = "load" \/ main \in {"closing", "gone"}

\* user_history_storage.h:129: "Clears the storage and internal data. This method
\* is blocking": when it has returned, nothing that was learned before comes back.
ClearIsFinal ==
    main = "up" => \A e \in Entry :
       wish[e] = "cleared" => dic[e] # "live" /\ OnDisk[e] # "live"

\* user_history_storage.cc:95: "Call Saves() just in case as the internal data may
\* be updated while syncer thread is running": when the destructor has nothing to
\* save, what was learned and is in memory is in the file.
CloseSavesLate ==
    [][CloseSave /\ ~needsSync =>
          \A e \in Entry : wish[e] = "learned" /\ dic[e] = "live"
                              => OnDisk'[e] = "live"]_vars

=============================================================================
