------------------------------ MODULE SyncDevices ------------------------------
(***************************************************************************)
(* The user dictionaries of several devices that meet in one bundle file:  *)
(* PerformSync of sync/sync_service.cc in its steps (export, read and      *)
(* merge, write, import), the merge of sync/sync_dictionary_tombstones.cc, *)
(* and the Dictionary Tool, which edits the words, logs deletions and      *)
(* saves them at any moment, also between two steps of a synchronisation.  *)
(*                                                                         *)
(* A device may have several processes that synchronise: the daemon, and   *)
(* those of "sync now"; RunSync does not keep them apart.  A word is a     *)
(* sync key (reading, surface, part of speech, locale).  The direction is  *)
(* always BIDIRECTIONAL: no caller of RunSync sets another.  A process     *)
(* that fails or dies in a synchronisation leaves the files as they are at *)
(* that moment.  What the tool's own load and save of the file may lose is *)
(* the matter of UserDictionary and not repeated here.                     *)
(***************************************************************************)
EXTENDS Integers

CONSTANTS Device,     \* the devices, each named by its device_id
          Process,    \* the processes that synchronise
          Home,       \* the device of a process
          Word,       \* sync keys
          Retention,  \* kDictionaryTombstoneRetentionDays
          MaxTime,    \* bound of the clock
          MaxEdits,   \* bound of the users' edits
          MaxFaults,  \* bound of errors, crashes, switched-off syncs and overlaps
          None        \* no tombstone, no bundle, no synchronisation

Tombstone == [at : 0 .. MaxTime, by : Device]
Tombstones == [Word -> Tombstone \cup {None}]
Bundle == [words : SUBSET Word, dead : Tombstones]
Steps == {"merge", "write", "import"}
Work == [step : Steps, words : SUBSET Word, dead : Tombstones]

ASSUME DevicesAssumption ==
    /\ Device \subseteq Int
    /\ Home \in [Process -> Device]
    /\ Retention \in Nat \ {0}
    /\ MaxTime \in Nat /\ MaxEdits \in Nat /\ MaxFaults \in Nat
    /\ None \notin Tombstone /\ None \notin Bundle /\ None \notin Work

VARIABLES
    words,    \* words[d]: the live entries of the user dictionary's file
    logged,   \* logged[d]: deleted in the memory of the Dictionary Tool only so far
    tomb,     \* tomb[d]: dictionary_tombstones.local.tsv, by sync key
    bundle,   \* the shared file, decrypted
    sync,     \* sync[p]: the synchronisation under way, with its local variables
    now,      \* absl::Now(), in days
    edited,   \* how many edits there have been
    faults,   \* how many errors, crashes and overlaps there have been
    calm,     \* the users have stopped, nothing fails, the processes take turns
    missed,   \* history: what the export of p does not know of the words of its device
    down,     \* history: when the user of d deleted w for good, until it expires
    fate      \* history: what the users have done to the word, on all devices

vars ==
    <<words, logged, tomb, bundle, sync, now, edited, faults, calm, missed, down, fate>>
edits == <<logged, edited, missed, down, fate>>

Fates == {"kept", "removed", "again", "other"}
Times == 0 .. MaxTime

TypeOK ==
    /\ words \in [Device -> SUBSET Word]
    /\ logged \in [Device -> SUBSET Word]
    /\ tomb \in [Device -> Tombstones]
    /\ bundle \in Bundle \cup {None}
    /\ sync \in [Process -> Work \cup {None}]
    /\ now \in Times
    /\ edited \in 0 .. MaxEdits
    /\ faults \in 0 .. MaxFaults
    /\ calm \in BOOLEAN
    /\ missed \in [Process -> SUBSET Word]
    /\ down \in [Device -> [Word -> Times \cup {None}]]
    /\ fate \in [Word -> Fates]

NoTombstones == [w \in Word |-> None]

Init ==
    /\ words = [d \in Device |-> {}]
    /\ logged = [d \in Device |-> {}]
    /\ tomb = [d \in Device |-> NoTombstones]
    /\ bundle = None
    /\ sync = [p \in Process |-> None]
    /\ now = 0
    /\ edited = 0
    /\ faults = 0
    /\ calm = FALSE
    /\ missed = [p \in Process |-> {}]
    /\ down = [d \in Device |-> NoTombstones]
    /\ fate = [w \in Word |-> "kept"]

-----------------------------------------------------------------------------
(* The merge.                                                              *)

TombstoneWinsOver(a, b) == a.at > b.at \/ (a.at = b.at /\ a.by > b.by)

MergeDictionaryTombstones(local, remote) ==
    [w \in Word |->
        IF \/ local[w] = None
           \/ remote[w] # None /\ TombstoneWinsOver(remote[w], local[w])
        THEN remote[w] ELSE local[w]]

\* Mutant: what is as old as the time of retention is dropped too.
CompactDictionaryTombstonesEarly(dead, live, time) ==
    [w \in Word |->
        IF dead[w] # None /\ w \notin live /\ dead[w].at > time - Retention
        THEN dead[w] ELSE None]

CompactDictionaryTombstones(dead, live, time) ==
    [w \in Word |->
        IF dead[w] # None /\ w \notin live /\ dead[w].at >= time - Retention
        THEN dead[w] ELSE None]

ExportDictionaryTombstones(dead, live) ==
    [w \in Word |-> IF w \in live THEN None ELSE dead[w]]

\* Mutant: a word of one side only is removed whether there is a tombstone or not.
RemovedUnlogged(d, local, remote, dead) ==
    {w \in local \cup remote :
        \/ w \notin local
        \/ w \notin remote /\ (dead[w] = None \/ dead[w].by # d)}

\* Mutant: tombstones act on the words of the other side only.
RemovedRemote(d, local, remote, dead) == {w \in remote \ local : dead[w] # None}

\* The words that the merged tombstones remove from the union of both sides: a
\* word of the remote side only, and one of the local side only unless the
\* tombstone is this device's own.
Removed(d, local, remote, dead) ==
    {w \in local \cup remote :
        /\ dead[w] # None
        /\ \/ w \notin local
           \/ w \notin remote /\ dead[w].by # d}

MergeDictionaryWithTombstones(d, local, remote, time) ==
    LET dead == MergeDictionaryTombstones(local.dead, remote.dead)
        live == (local.words \cup remote.words)
                    \ Removed(d, local.words, remote.words, dead)
    IN  [words |-> live, dead |-> CompactDictionaryTombstones(dead, live, time)]

-----------------------------------------------------------------------------
(* PerformSync.                                                            *)

\* History: a word's fate when it goes, and when it is there again.
AfterRemoval(f) == CASE f = "again" -> "other" [] f = "kept" -> "removed" [] OTHER -> f
AfterReturn(f) == IF f = "removed" THEN "again" ELSE f

Syncing(p) == sync[p] # None

Alone(p) == \A q \in Process \ {p} : Home[q] = Home[p] => ~Syncing(q)

\* Something that goes wrong, as long as anything may.
Fault ==
    /\ ~calm /\ faults < MaxFaults
    /\ faults' = faults + 1

\* A process that starts takes a name that is free.
FreeName(d) == CHOOSE p \in Process : Home[p] = d /\ ~Syncing(p)

\* History: what the exports before do not know of the words of d.
Unseen(d, S) ==
    [p \in Process |-> IF Home[p] = d /\ Syncing(p) THEN missed[p] \cup S ELSE missed[p]]

\* The words of the file, and the tombstones of words that are not live.
Exported(p, live) ==
    LET d == Home[p]
        dead == ExportDictionaryTombstones(tomb[d], live)
    IN  /\ sync' = [sync EXCEPT ![p] = [step |-> "merge", words |-> live, dead |-> dead]]
        /\ missed' = [Unseen(d, {w \in Word : dead[w] # None})
                         EXCEPT ![p] = words[d] \ live]

\* ExportDictionaryTsv; a dictionary file that cannot be read is exported as an
\* empty one.  The bound of the faults bounds the overlaps with another process of
\* the device too.
Export(p) ==
    LET d == Home[p]
    IN  /\ ~Syncing(p) /\ p = FreeName(d)
        /\ calm => \A q \in Process : ~Syncing(q)
        /\ \/ /\ Exported(p, words[d])
              /\ IF Alone(p) THEN UNCHANGED faults ELSE Fault
              /\ UNCHANGED fate
           \/ /\ words[d] # {} /\ Exported(p, {})
              /\ Fault
              /\ fate' = [w \in Word |-> IF w \in words[d] /\ fate[w] = "removed"
                                        THEN "other" ELSE fate[w]]
        /\ down' = [down EXCEPT ![d] =
                       [w \in Word |-> IF w \in logged[d] THEN None ELSE down[d][w]]]
        /\ UNCHANGED <<words, logged, tomb, bundle, now, edited, calm>>

\* Reads the bundle and merges; without a bundle, what is written and imported is
\* the export.  An error of SaveLocalDictionaryTombstones is ignored.
Merge(p) ==
    /\ Syncing(p) /\ sync[p].step = "merge"
    /\ IF bundle = None
       THEN /\ sync' = [sync EXCEPT ![p].step = "write"]
            /\ UNCHANGED <<tomb, faults>>
       ELSE LET merged == MergeDictionaryWithTombstones(Home[p], sync[p], bundle, now)
            IN  /\ sync' = [sync EXCEPT ![p] =
                       [step |-> "write", words |-> merged.words, dead |-> merged.dead]]
                /\ \/ tomb' = [tomb EXCEPT ![Home[p]] = merged.dead] /\ UNCHANGED faults
                   \/ Fault /\ UNCHANGED tomb
    /\ UNCHANGED <<words, bundle, now, calm, edits>>

\* PackBundle, EncryptWithPassphrase and the rename over the shared file.
Write(p) ==
    /\ Syncing(p) /\ sync[p].step = "write"
    /\ bundle' = [words |-> sync[p].words, dead |-> sync[p].dead]
    /\ sync' = [sync EXCEPT ![p].step = "import", ![p].dead = NoTombstones]
    /\ UNCHANGED <<words, tomb, now, faults, calm, edits>>

\* ImportDictionaryTsv: of the words in the file now, those of the merge are kept,
\* and the words of the merge that are not there are added.
Import(p) ==
    LET d == Home[p]
        kept == {w \in words[d] : w \in sync[p].words}
        new == sync[p].words \ words[d]
    IN  /\ Syncing(p) /\ sync[p].step = "import"
        /\ logged[d] = {}
        /\ words' = [words EXCEPT ![d] = kept \cup new]
        /\ sync' = [sync EXCEPT ![p] = None]
        /\ missed' = [Unseen(d, new) EXCEPT ![p] = {}]
        /\ fate' = [w \in Word |-> IF w \in new \cap missed[p] THEN AfterReturn(fate[w])
                                  ELSE fate[w]]
        /\ UNCHANGED <<logged, tomb, bundle, now, edited, faults, calm, down>>

Leave(p) ==
    /\ sync' = [sync EXCEPT ![p] = None]
    /\ missed' = [missed EXCEPT ![p] = {}]
    /\ UNCHANGED <<words, logged, tomb, bundle, now, edited, calm, down, fate>>

\* The Dictionary Tool has the dictionary's lock: nothing is imported.
ImportRefused(p) ==
    /\ Syncing(p) /\ sync[p].step = "import"
    /\ logged[Home[p]] # {}
    /\ Leave(p)
    /\ UNCHANGED faults

\* Any early return of PerformSync, or the end of its process.
Fail(p) == Syncing(p) /\ Leave(p) /\ Fault

\* A synchronisation of a device whose sync_dictionary is off: its bundle has
\* neither the dictionary nor the tombstones.
SyncWithoutDictionary ==
    /\ Fault
    /\ bundle' = [words |-> {}, dead |-> NoTombstones]
    /\ UNCHANGED <<words, tomb, sync, now, calm, edits>>

-----------------------------------------------------------------------------
(* The Dictionary Tool and the clock.  The tool has the dictionary's lock  *)
(* while it is open; what it changes is in the file when it has saved.     *)

Edit ==
    /\ ~calm /\ edited < MaxEdits
    /\ edited' = edited + 1

\* Words added in the tool are in the file after those that it removed are gone.
Add(d, w) ==
    /\ Edit
    /\ logged[d] = {} /\ w \notin words[d]
    /\ words' = [words EXCEPT ![d] = @ \cup {w}]
    /\ down' = [down EXCEPT ![d][w] = None]
    /\ fate' = [fate EXCEPT ![w] = AfterReturn(@)]
    /\ missed' = Unseen(d, {w})
    /\ UNCHANGED <<logged, tomb, bundle, sync, now, faults, calm>>

\* Mutant: the tombstones do not say which device logged them.
LoggedByNobody(d, S) ==
    [w \in Word |-> IF w \in S THEN [at |-> now, by |-> None] ELSE None]

\* The tombstones of a removal.
Logged(d, S) == [w \in Word |-> IF w \in S THEN [at |-> now, by |-> d] ELSE None]

\* SyncToStorage: the words go in the tool's memory, and their tombstones are
\* logged by RecordDictionaryEntryRemovals, whose error is ignored.  Not more:
\* when another dictionary is selected the file is saved only later.
SyncToStorage(d, S) ==
    /\ Edit
    /\ S # {} /\ S \subseteq words[d] \ logged[d]
    /\ logged' = [logged EXCEPT ![d] = @ \cup S]
    /\ \/ /\ tomb' = [tomb EXCEPT ![d] = MergeDictionaryTombstones(@, Logged(d, S))]
          /\ down' = IF \E p \in Process : Home[p] = d /\ Syncing(p) THEN down
                     ELSE [down EXCEPT ![d] = [w \in Word |-> IF w \in S THEN now
                                                              ELSE down[d][w]]]
          /\ UNCHANGED faults
       \/ Fault /\ UNCHANGED <<tomb, down>>
    /\ fate' = [w \in Word |-> IF w \in S THEN AfterRemoval(fate[w]) ELSE fate[w]]
    /\ UNCHANGED <<words, bundle, sync, now, calm, missed>>

\* The save of the file without them.
SaveAndReloadServer(d) ==
    /\ ~calm /\ logged[d] # {}
    /\ words' = [words EXCEPT ![d] = @ \ logged[d]]
    /\ logged' = [logged EXCEPT ![d] = {}]
    /\ fate' = [w \in Word |-> IF w \in logged[d] THEN AfterRemoval(fate[w]) ELSE fate[w]]
    /\ UNCHANGED <<tomb, bundle, sync, now, edited, faults, calm, missed, down>>

\* The user adds the words again before they are saved, the save fails, or the
\* tool ends without it: the file still has them.
KeepLogged(d) ==
    /\ ~calm /\ logged[d] # {}
    /\ logged' = [logged EXCEPT ![d] = {}]
    /\ down' = [down EXCEPT ![d] =
                   [w \in Word |-> IF w \in logged[d] THEN None ELSE down[d][w]]]
    /\ fate' = [w \in Word |-> IF w \in logged[d] THEN AfterReturn(fate[w]) ELSE fate[w]]
    /\ UNCHANGED <<words, tomb, bundle, sync, now, edited, faults, calm, missed>>

\* DeleteDictionary: all words of a dictionary go, and no tombstone is recorded.
DeleteDictionary(d, S) ==
    /\ Edit
    /\ S # {} /\ S \subseteq words[d] /\ logged[d] = {}
    /\ words' = [words EXCEPT ![d] = @ \ S]
    /\ fate' = [w \in Word |-> IF w \in S THEN AfterRemoval(fate[w]) ELSE fate[w]]
    /\ UNCHANGED <<logged, tomb, bundle, sync, now, faults, calm, missed, down>>

Tick ==
    /\ now < MaxTime
    /\ now' = now + 1
    /\ down' = [d \in Device |-> [w \in Word |->
                  IF down[d][w] # None /\ now' <= down[d][w] + Retention
                  THEN down[d][w] ELSE None]]
    /\ UNCHANGED <<words, logged, tomb, bundle, sync, edited, faults, calm, missed, fate>>

BecomeCalm ==
    /\ ~calm
    /\ \A p \in Process : ~Syncing(p)
    /\ \A d \in Device : logged[d] = {}
    /\ calm' = TRUE
    /\ UNCHANGED <<words, tomb, bundle, sync, now, faults, edits>>

Step(p) == Export(p) \/ Merge(p) \/ Write(p) \/ Import(p) \/ ImportRefused(p)

Next ==
    \/ \E p \in Process : Step(p) \/ Fail(p)
    \/ SyncWithoutDictionary
    \/ \E d \in Device :
        \/ \E w \in Word : Add(d, w)
        \/ \E S \in SUBSET Word : SyncToStorage(d, S) \/ DeleteDictionary(d, S)
        \/ SaveAndReloadServer(d) \/ KeepLogged(d)
    \/ Tick
    \/ BecomeCalm

\* Every device goes on synchronising, and its processes end what they have begun.
Fairness ==
    /\ \A d \in Device : SF_vars(\E p \in Process : Home[p] = d /\ Export(p))
    /\ \A p \in Process : WF_vars(Merge(p) \/ Write(p) \/ Import(p) \/ ImportRefused(p))

Spec == Init /\ [][Next]_vars /\ Fairness

-----------------------------------------------------------------------------
(* Properties.                                                             *)

\* The import of a process whose export did not see w in the file of d: the word
\* came there later, by the hand of the user or by the import of another process
\* of the device, or the export could not read the file.
ImportUnseen(d, w) == \E p \in Process : Home[p] = d /\ w \in missed[p] /\ Import(p)

\* A word that no user has removed from any device is lost in one way only,
\* whatever fails and however synchronisations overlap, on one device or on
\* several: by an import whose export did not see it.  No tombstone, no bundle and
\* no merge ever takes it out.  (ImportDictionaryTsv after
\* MergeDictionaryWithTombstones.)
UnremovedStays ==
    [][\A d \in Device, w \in Word :
          w \in words[d] \ words'[d] /\ fate'[w] = "kept" => ImportUnseen(d, w)]_vars

\* A deletion stands on its device for the time of retention, whatever the others
\* still have, add again, or write over in the bundle, if its tombstone was logged
\* without an error while no synchronisation of the device was under way, and none
\* began before the file was saved.  (Tombstones outlive every merge; but an export
\* takes a word that is still in the file for live, and drops its tombstone:
\* SavedDeletionsLogged.)
DeletionStands ==
    \A d \in Device, w \in Word :
        down[d][w] # None /\ w \notin logged[d] => w \notin words[d]

\* When the users stop and the processes take turns, the devices come to agree on
\* every word that was not there again after a removal, and stay agreed.  (A word is
\* there again when the user adds it, and when a process of the device that has
\* removed it imports it after another one has told the removal: two that overlap.
\* That device then takes its own tombstone for outdated and the others do not, and
\* they disagree for as long as the tombstone lives.)
Converges ==
    calm ~> [](\A w \in Word : fate[w] \in {"kept", "removed"} =>
                  \A d, e \in Device : w \in words[d] <=> w \in words[e])

-----------------------------------------------------------------------------
(* What the documents promise, and is violated.                            *)

\* A word that was added again, and that nobody has removed since, is lost by no
\* synchronisation that saw it.  (The tombstone of another device wins over the
\* addition, however old it is.)
ReaddWins ==
    [][\A d \in Device, w \in Word :
          w \in words[d] \ words'[d] /\ fate[w] = "again" /\ fate'[w] = "again"
              => ImportUnseen(d, w)]_vars

\* When deletions are saved, the log has their tombstones.  (A synchronisation
\* between the two has dropped them.)
SavedDeletionsLogged ==
    [][\A d \in Device : SaveAndReloadServer(d) =>
          \A w \in logged[d] : tomb[d][w] # None]_vars

\* Only tombstones remove words: one that nobody has removed is never lost.  (The
\* import removes what its export did not see.)
UnionOnly ==
    [][\A d \in Device, w \in Word :
          w \in words[d] /\ fate'[w] = "kept" => w \in words'[d]]_vars
=============================================================================
