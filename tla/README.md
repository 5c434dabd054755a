# A TLA+ model of marinaMoji

marinaMoji is a Japanese input method built on Mozc. This directory holds TLA+ modules
that model the parts of it in which several actors share state, TLC configurations that
check them on small instances, and TLAPS proofs that hold for every instance. Paths below
are relative to the repository; code is under `src/`, documents are under `docs/`.

## 1. The system

| Part | State it keeps | Operations | Talks to |
|---|---|---|---|
| **Front ends** (`src/unix/ibus`, `src/win32`, `src/mac`) | key state, toolbar, overlay | key events; poll of the status file | client; reads `sync.status.json` |
| **Client** (`src/client/client.cc`) | `server_status_`, session id, key history | `EnsureConnection`, `EnsureSession`, `Call`, playback | launcher, IPC |
| **Session server, watch dog** (`src/session/session_server.cc`, `session_watch_dog.cc`) | none of its own | one command at a time; CLEANUP at intervals | session handler |
| **Session handler** (`src/session/session_handler.cc`) | table of sessions (LRU cache), the sync lock, five time stamps | the commands of `EvalCommand` | sessions, engine, configuration |
| **Session** (`src/session/session.cc`) | the mode machine and the composition of one user | keys and commands, commit, undo | composer, engine converter |
| **Engine, data loader** (`src/engine/engine.cc`, `data_loader.cc`) | pending requests by priority, the data in use, the loaded response | register, reload loop, install | handed over from a loader thread to the command loop |
| **History storage and predictor** (`src/prediction`) | the LRU dictionary `dic_`, the mark `needs_sync_`, the file | learn, revert, clear, save, load | a syncer thread, the disk |
| **Sync processes** (`src/sync`) | `sync.conf`, `sync.status.json`, activity, baselines, tombstones, the shared bundle | `RunSync` (lock, flush, merge, reload, unlock), the daemon's poll | client, files, other devices through the bundle |
| **Configuration** (`src/config/config_handler.cc`) | the shared configuration and its file | set, reload | session handler, GUI |
| **User dictionary** (`src/dictionary/user_dictionary*.cc`, `src/base/process_mutex.cc`) | dictionaries in a file with a process lock | load, lock, save, unlock; asynchronous reload and import | dictionary tool, sync, converter |
| **LRU cache** (`src/storage/lru_cache.h`) | hash table, blocks, free list, LRU list | insert, look up, erase, clear | session handler, history |
| Composer, converter, rewriters, system dictionary, renderer, GUI, packaging | see `PROJECT.json` | | |

What is hard in it:

* **Two threads and a flag.** The history storage's syncer copies, writes and resets
  `needs_sync_` while the command loop goes on changing the dictionary; the mutex covers
  the dictionary only, neither the flag nor the file. The loader's thread ends at a
  moment of its own, and hands its result over in a member that no lock protects.
* **Processes that meet in a file and a remote lock.** A synchronisation is run by the
  daemon and by any number of "sync now" processes. They see each other through a status
  file with an age, and through a Boolean in the converter that they reach by calls which
  may fail, time out, or be executed although they timed out. Any of them may be killed.
* **Clocks.** Sessions are removed by idle time, the watch dog compensates for a machine
  that slept, the status file grows stale, the user may set the clock back, and the order
  of use must not depend on it.
* **Several devices, one file.** The devices of a user meet in one bundle that each of
  them reads, merges and replaces without a lock, at any distance in time; a deletion has
  to outlive every merge, and an addition must not be taken for something deleted. Two
  processes of one device may do so at once, and a deletion is logged before it is saved.
* **Copies of a state.** An undo brings back a copy of a session's context together with
  a number of characters that the application is told to delete; a client plays back what
  it believes the lost session to have received.
* **Failure in the middle.** Every disk write and every call of a synchronisation may
  fail, and what was done before stays.

`PROJECT.json` lists every component with what is modelled of it or why nothing is, and
every hazard of this kind at the line where it bites, with the properties that cover it.

What makes each part correct, in a sentence: the session handler never lets a session run
on an engine that was replaced, evicts the right session, and lets no key through its
lock; the storage never loses what the user has been told is learned and never resurrects
what he removed; the loader loads each accepted request in the order of priorities and
never goes back; a synchronisation runs under the lock from its flush to its reload, loses
nothing that the user has typed, and always gives the lock back; devices that synchronise
lose a word that nobody removed only to an import that has not seen it, keep away what was
deleted, and come to agree; who saves the dictionary file has seen what is
in it, and the converter notices what was saved; a session, its converter and its composer
are in states that fit, and text is neither lost nor doubled by a commit or an undo; the
client answers every key, and delivers each once, whatever happens to the server.

## 2. The modules

| Module | Models | Extended by |
|---|---|---|
| `SessionHandler` | `session_handler.cc` with `lru_cache.h` | `MCSessionHandler`, `SessionHandler_proofs` |
| `UserHistoryStorage` | `user_history_storage.cc` and the predictor's operations on it | `MCUserHistoryStorage`, `UserHistoryStorage_proofs` |
| `DataLoader` | `data_loader.cc` with the engine's side of it | `MCDataLoader`, `DataLoader_proofs` |
| `SyncRunner` | `sync_runner.cc`, `sync_status.cc`, `sync_main.cc` against the converter and its user | `MCSyncRunner`, `SyncRunner_proofs` |
| `SyncDevices` | `sync_service.cc` and `sync_dictionary_tombstones.cc` on several devices, with the dictionary tool's edits | `MCSyncDevices`, `SyncDevices_proofs` |
| `Session` | `session.cc` over `engine_converter.cc`, and the document | `MCSession`, `Session_proofs` |
| `Client` | `client.cc` against the server it starts, loses and starts again | `MCClient`, `Client_proofs` |
| `ProcessMutex` | `process_mutex.cc` as system calls | `UserDictionary` |
| `UserDictionary` | the dictionary file: its storage, its writers, the converter's reloader and importer | `MCUserDictionary`, `UserDictionary_proofs` |
| `LruOrder` | what `lru_cache.h` promises: a bounded map in the order of use | (instantiated by `LruCache`) |
| `LruCache` | `lru_cache.h` pointer by pointer, an implementation of `LruOrder` | `MCLruCache`, `SessionHandler_proofs` |

They compose in three ways. `UserDictionary` EXTENDS `ProcessMutex` and interleaves its
system calls with the writers'. `LruCache` INSTANCEs `LruOrder` under a refinement mapping.
The others meet in what one abstracts of another: `SessionHandler` uses the order that
`LruOrder` promises (as a relation, `older`); `Client` and `SyncRunner` have of the
session handler its lock and its table; `SyncRunner` has of `SyncDevices` one phase, and
`UserDictionary` has of it the import at its end.

The line ranges of every definition are in `PROJECT.json` (`map`).

### SessionHandler

One action per command, because the IPC server evaluates one command at a time:
`CreateSession`, `DeleteSession`, `Cleanup`, `SendKey`, `TestSendKey`, `SendCommand`,
`BeginSyncLock`, `EndSyncLock`, `Shutdown`; what is refused or touches none of this state
is `NoEffect`. The environment is the clock (`Tick`, any jump ahead, and `SetBack`, the user
who sets it back), applications that exit, the data loader that finishes, and the process
that ends and is launched again.

* A session is its application, whether it was used, the time of its creation or last
  command, and the version of the engine it was made on. `last_command_time_` and
  `create_session_time_` are one field: the code reads the second only while the first is
  `InfinitePast`. A history field, `epoch`, says how often the clock had been set back by
  then: with it the times tell which session was accessed before which (`Earlier`), and
  alone, after the clock was set back, they do not.
* The LRU list of the cache is the relation `older` over the ids in it: `PushHead` and
  `Without` are what `PushLRUHead` and `RemoveFromLRU` do to the order. `RecencyInv` says
  that it is a total order, that is, a list.
* `CreateSession` is the whole handler: the minimal interval between two of them, which
  does not count when it is negative (`TooEarly`), the eviction of the tail when the table
  is full, `MaybeReloadEngine` when the table is empty, the random id, the insertion and
  the two time stamps.
* `Cleanup` is too: the suspend time from the last CLEANUP, the two time-outs, dead
  applications, `DeleteSessionID` for each (with its reading of the clock when the table
  becomes empty), and the `--timeout` shutdown.
* `InfinitePast` is a value outside the integers, and a difference with it is infinite.

### UserHistoryStorage

The main thread performs the operations of the predictor, each in one step because it
holds the mutex; `Clear` has three, as its `Save` reads the flag and unlinks the file
after. The syncer's `Save` is copy, write (or unlink, or failure), flag; its `Load` is
read, then fill. `task` is the syncer's next step with the data it carries; `Close` and
`CloseSave` are the destructor; `Crash` kills the process between any two steps.

An entry is absent, live or removed (kept with the `removed` bit). `MayLearn` is
`IsSyncerInCriticalSection` as it is: it asks whether the *caller* owns the mutex, so what
it tells is whether the syncer runs. `ClearHistoryEntry` has a second step for its pass
over chained entries (`ClearContaining`); the two passes of `ClearUnusedHistory` are one
step. Three history variables record what the user last asked (`wish`), which suggestions
have reached the file (`saved`) and which entries were changed in a way that does not ask
for the syncer while it ran or without a mark (`late`).

Left out: evictions from the cache of 10000 entries, frequencies and times of entries.

### DataLoader

The main thread's `StartNewDataBuildTask` is three steps (`RegisterRequest`, `Notify`,
`Schedule`), since only the first is under the mutex; the engine's `MaybeReloadEngine` may
have to wait and then takes the response. The loader's thread is `StartReloadLoop`, a step
for each access to shared state: get, await, build, callback, success or failure, and
`Exit` for the moment at which its future becomes ready, which is later than its decision
to leave the loop. `newer` orders requests by their sequence ids, so that sending one
again moves it.

### SyncRunner

A runner's program counter walks through `RunSync`: the status and configuration checks,
`GET_SYNC_STATE` unless forced, the key and the connection, then the phases, each
preceded by a write of the status file (`ShowProgress`): lock, flush, merge, reload, and
the report, after which the guard is destroyed (`EndSyncLock`). The daemon goes through
`CanAutoSync` first. Every early return goes to `Report`.

A call has three outcomes. *Answered*: the converter did it. *Not answered in time*: it
may have done it, and the client, now in `SERVER_TIMEOUT`, makes no further call (`cut`).
*Not made*: there is no converter, or the client has given up. `CallCommand` returns
whether there was an answer, not what it says, so a refused lock is an answered call.
A call that the converter serves after its caller has given up is taken to be served at
that moment.

The converter has its lock, two Booleans for what is being composed (in the user's
session, and in one that its client has abandoned after a refused key) and the set of
what it has learned and not saved: by the user's keys (`Type`, which the lock stops) and by
ADD_USER_HISTORY (`AddUserHistory`, which it does not; the words of IMPORT_USER_DICTIONARY,
served under the lock too, wait in a queue of their own that a reload leaves alone, and
belong to `UserDictionary`). The environment types, removes sessions, ends the converter
and launches it, kills runners, and lets the status file grow stale. `PerformSync` is one
phase that takes its time. Status files can always be written; the front ends' blocking
of keys is that `Type` does not happen, since a front end that has not polled yet lets
them through. Clearing the history while the lock is held is not modelled.

The lock and the status file do not say the same at all times: "done" or "error" is
written before the guard releases the lock, a file older than ten minutes counts as none,
and another runner may write over it. In these windows the front ends pass keys on and
the converter refuses them (`TypeRefused`). What the module claims is therefore about the
lock; that input is blocked by the front ends for as long is a sentence of the documents
that the code does not keep (section 3, `MCSyncBlocked.cfg`).

`lost` says why a lock has nobody to release it. `undisturbed` holds the runners whose
lock no other runner that was told it has the lock has released, and whose converter has
not ended since; a runner that is turned away, fails or crashes disturbs nobody.
`flushed` holds those whose flush has reached the disk.

### SyncDevices

The steps of `PerformSync` between which other processes, other devices, the dictionary
tool and the clock may act: `Export`, `Merge` (reading the bundle, and saving the merged
tombstones), `Write`, `Import`. A device has any number of processes that synchronise
(`Home` says whose a process is), because `RunSync` does not keep two of them apart (the
run `sync_overlap`); `sync[p]` holds the local variables of the one under way.
`MergeDictionaryTombstones`, `MergeDictionaryWithTombstones`, `CompactDictionaryTombstones`
and `ExportDictionaryTombstones` are the functions of `sync_dictionary_tombstones.cc` on
words that are sync keys: reading, surface, part of speech, locale. `Fail` is any early
return or the death of the process; `SyncWithoutDictionary` is a device on which the
dictionary is not synchronised and which writes a bundle without one.

The dictionary tool adds a word and saves (`Add`), removes a whole dictionary without
logging anything (`DeleteDictionary`), and deletes words in two steps that the code takes
at different times: `SyncToStorage` takes them out of the tool's memory and logs their
tombstones (`logged` are those that are still in the file), `SaveAndReloadServer` saves
the file without them. In between the user may add them again, the save may fail and the
tool may end (`KeepLogged`), and synchronisations may begin, merge and write; only their
import is refused (`ImportRefused`), for the tool has the dictionary's lock. Times are
days. An error of saving the tombstones is ignored by the code, in `Merge` and in
`SyncToStorage`; a dictionary that cannot be read is exported as an empty one (`Export`).

Left out: entries of the same key with different comments, the history, the text formats,
cipher and archive, directions other than bidirectional (no caller sets them).

History variables: `missed[p]` are the words of the file that the export of `p` does not
have, because they came later, by the user or by the import of another process of the
device, or because the file could not be read; `down` when a word was deleted for good,
which is when its tombstone was logged without an error, no process of the device was
synchronising, and none began before the save; `fate` whether a word was ever removed, and
was there again. `calm` is the moment after which users stop and the processes take turns.

### Session

An action is a key or a command of `SendCommand`, grouped by what it does to three things:
the session's state (`DIRECT` to `CONVERSION`), the converter's, and the lengths of the
composer's text, of what the converter holds and of the last result. `ctx` is
`ImeContext`; `undo` the stack of `undo_contexts_`; `doc` the application's document up to
the caret, in which a character is one that a conversion committed or another. Every
action is the whole handler with what it does to the undo contexts: cleared, pushed, or,
for commands that commit text directly, left alone. Which key triggers which command is a
table, so any command may come in any state that accepts it. `Suggest` and `Predict` may
find candidates or not.

Left out: input and display modes, password fields, zero-query suggestions, and candidate
lists within a conversion. A session on which a client tests keys while its input method
is off (`TestSendKeyOff`) takes the kinds of keys from `OffKeys`: with plain keys in it,
`EchoBack` resets the converter under a composition, which breaks `ModesAgree`. The
clients of this repository test only keys that are commands then, hence
`OffKeys = {"command"}`.

### Client

One IPC call is one step. `Send` is the user's input; then `EnsureSession`,
`CreateSession` (through `CheckVersionOrRestartServerInternal`), `Playback` and
`CallCommand` are `EnsureCallCommand`, at most twice. `status` is `server_status_` with its
order: from `SERVER_TIMEOUT` on the client is silent. The server executes a call, refuses
it (locked, or the session is unknown), dies, does not answer, or answers nonsense; in the
last two it may have executed the call or, when it answers, has. Between calls it may be
ended, started, locked, forget the session, or be replaced on the disk by another version.
`history` is `history_inputs_`, with its limit and the boundaries of `PushHistory`. An
input types a character, commits and types the next, or commits (`SEND_KEY` or
`SEND_COMMAND`).

Restarting the server after a version check is one step. `ResetHistory` is that of
platforms other than macOS, where the journal starts with an ON key. Sessions that the
client has given up, and keys that are only tested, are left out.

The lock may come at any moment, also in the middle of a playback or while a session
holds keys: BEGIN_SYNC_LOCK looks at nothing but the lock itself, a forced synchronisation
does not ask `any_composing`, and the others ask long before. The history variable `torn`
has the keys that were delivered before and that a playback has typed again when a refused
or failing call cuts it short before the commit that follows them in the journal.

### ProcessMutex and UserDictionary

`ProcessMutex` is the POSIX lock: `Lock` is open and fcntl, `UnLock` is close and unlink,
and between two of these others act. Files are told apart by inode, so that who has an
unlinked file open can hold a lock that nobody sees; `overlap` records that this has come
to pass.

`UserDictionary` has four kinds of actors on the file. *Windows* (dictionary tool, word
register dialog) load, then lock, edit, save, and unlock when they close; `SyncNow` gives
the lock back, waits for the status of the sync process, loads and locks again. The *sync
process* locks, then loads, merges and saves. The converter's *importer* thread loads,
shows the words to the converter, and locks only for its save. The converter's *reloader*
reads the file in a thread of its own if its modification time, in seconds, is not the one
noted last (`MaybeStartReload`, `ReadFile`, `SetTokens`). Processes crash, loads and saves
fail, the converter is restarted.

A save is one step, all or nothing: writing the temporary file and renaming it. The file is
there in the initial state. Its dictionaries are two, the user's and the one that an import
replaces. History variables: `missed` are words that a load did not see because they were
saved between it and the lock, `blind` the actors whose load has failed and that go on with
an empty storage, `removed` the words that the actor has deleted, `excuse` why the
converter's words may differ from the file it noted.

### LruOrder and LruCache

`LruOrder` keeps a sequence of at most `Room` keys and their values. `LruCache` has
the class's members: the table, the elements in blocks with their two links, the free
list, head and tail, and the sizes of blocks that grow. Helpers take and return a cache,
as `PushLRUHead`, `RemoveFromLRU`, `PopFreeList`, `AddBlock` and `Evict` do, including the
writes through links of elements on the free list. `Order` walks from the head and is the
refinement mapping. Its specification is `LruSpec`, so that one module of proofs can
extend it together with `SessionHandler`.

`Room` is what the blocks hold when they have all been added (`Grown` is `AddBlock` on the
two numbers alone). The header promises "at most `max_elements`", and that is all it can:
the comment at the constructor takes the last of ten blocks to be twice as large as it
is, so that a cache asked for 65473 to 65536 elements (or for as many times a power of
two) holds 1023 times 64 of them, times that power. What the program asks for, 10000 and
64, it gets (`SmallRoom` for the second).

## 3. What TLC checks

Every run takes less than four minutes on two workers.

| Run | Instance | States | Shows |
|---|---|---|---|
| `session_handler` | 1 application, 3 ids, a table of 2, times 0..3, a clock set back once, one new engine version | 594,496 | the invariants and action properties below, `DeadAppsReaped` |
| `history` | 2 entries | 37,005 | `DiskAgrees`, `SavedStays`, `SavedEventually` |
| `data_loader` | 3 requests, 2 priorities | 7,805 | `TakesAlone`, `Delivered`, `FailedStaysOut`, `NeverDowngraded`, `WaitReturns`, `LoopShrinks` |
| `sync_runner` | daemon and one "sync now" | 192,482 | `LockHasOwner`, `MergesUnderLock`, `ReloadKeepsLearning`, `LockEnds`, `RunningEnds` |
| `sync_devices` | 2 devices, one with 2 processes, 1 word, 3 edits, days 0..2, retention of 1, one fault or overlap | 1,024,120 | `UnremovedStays`, `DeletionStands`, `Converges` |
| `session` | 4 characters, 2 undo contexts | 244,455 | `ModesAgree`, `CommitKeepsText`, `UndoTakesBackCommit` |
| `client` | 2 keys, a journal of 3, two faults of nine kinds, 4 versions | 557,040 | `TypedOnceInOrder`, `EveryKeyAnswered` |
| `user_dictionary` | one window, the sync process and the converter; 2 words, seconds 0..1, one fault, two uses | 1,225,456 | `LockedSeesAll`, `StaleIsNoticed` |
| `lru_cache` | 4 keys, 2 values, 3 elements in blocks of 1 and 2 | 9,969 | `ListsAgree`, `ImplementsOrder` |

Properties of the session handler: `EngineInUse` (no session on a replaced engine),
`EmptyTimeExact` (`last_session_empty_time_` is `InfinitePast` exactly while there are
sessions), `RecencyInv` (the list is in the order of the last accesses, whatever was done to
the clock), `EvictsLeastRecent` (no session that stays was accessed before the one that a
full table gives up; both compare the accesses by `Earlier`, from the sessions' times and
the times at which the clock was set back, not by the list. That the sessions' own times
are in that order is true only until the clock is set back), `SurvivesSleep` (sleep alone ends no
session), `LockHoldsKeys`, `DeadAppsReaped`.

Properties of the history: `DiskAgrees` (an idle syncer without a mark means that file and
memory agree, except for late entries), `SavedStays` (what reached the file stays until
the user removes it), `SavedEventually`.

Properties of the loader: `TakesAlone` (the unprotected response is touched by one thread
at a time), `Delivered` (what is believed to be in use is, or is about to be),
`FailedStaysOut`, `NeverDowngraded`, `WaitReturns`, `LoopShrinks` (each step of the reload
loop, the retries after a failure and after a wake-up included, brings it nearer to its
end, and nothing sets it back while the main thread waits).

Properties of a synchronisation: `LockHasOwner` (a lock that nobody will release was left
by a crash or an unanswered call), `MergesUnderLock` (the converter is locked from a
runner's BEGIN_SYNC_LOCK to its END_SYNC_LOCK, a second runner that is turned away or fails
notwithstanding; only another one that believes to have the lock too opens it),
`ReloadKeepsLearning` (a reload drops nothing that was typed, if the flush reached the
disk; what ADD_USER_HISTORY added since may go), `LockEnds`, `RunningEnds`.

Properties of the devices: `UnremovedStays` (a word that nobody removed is lost in one way
only, by an import whose export did not see it; no tombstone, bundle or merge takes it
out, whatever fails and overlaps), `DeletionStands` (a deletion that no synchronisation
found half done stands for the time of retention, whatever others write), `Converges`
(when users stop and processes take turns, the devices come to agree on every word that
was not there again after a removal). A word is there again when the user adds it, and
when an overlapping synchronisation of the same device imports it after another one has
told the removal: its device takes its own tombstone for outdated then, and the others do
not, until the tombstone expires.

Properties of a session: `ModesAgree` (session, converter and composer fit, in the context
in use and in every one an undo can bring back), `CommitKeepsText` (a commit neither loses
nor doubles text), `UndoTakesBackCommit` (an undo restores document and preedit, over any
number of commits and undos, if the document is as the commit left it).

Properties of the client: `TypedOnceInOrder` (no key reaches the document twice or after a
later one, whatever is lost and played back, but for the keys in `torn`),
`EveryKeyAnswered`. A playback that stops between some keys and the command that committed
them leaves these keys in the session, and the next commit delivers them again; a lock in
the middle of a playback brings that about, and so does a connection that breaks while the
server lives on. `torn` names exactly these keys; without it the property is
`NoKeyTwice`, which `MCClientTorn.cfg` refutes.

Properties of the dictionary: `LockedSeesAll` (who holds the lock has in memory all that
is in the file, but for what he removed and what was saved between his load and his lock,
if his load did not fail: the import of a synchronisation, which locks first, misses none),
`StaleIsNoticed` (a converter with other words than the file loads it at the next reload,
with three exceptions that are named).

Properties of the cache: `ListsAgree` (the two lists, the table and the blocks agree, so
that no CHECK fails), `ImplementsOrder` (the refinement of `LruOrder`).

**Why these bounds suffice.** A table of two and a third id make eviction happen, with the
id of the evicted session or another, and an order of more than one element; with an
interval of 1 and time-outs of 1 and 2, four instants let every comparison of `Cleanup`
go both ways and a jump be longer than two watch dog intervals. The clock is set back
once (`MaxResets`), which is enough for times to contradict the order of the accesses and
for a negative interval between two creations. The second application is left to
`MCSessionHandlerApps.cfg`, the same instance with two and a clock that is not set back:
applications do not interact but in the table, and it passes as well.
Entries of the history do not interact but for being copied and dropped together, which
two show. Three requests, two of one priority, make order by priority and by sequence
both matter while one is being loaded. Two runners are all that it takes to interfere;
each may run again and again, so a third would only repeat one of them.
Words of `SyncDevices` do not interact, the merge being word by word, so one shows
everything; a retention of one day within three lets tombstones act, expire and be as old
as the limit exactly. Two processes on one device are an overlap there, and one on the other
is what both meet; `MaxFaults` bounds errors and overlaps together, so that the run has
one of either, and `MaxEdits` is three because a deletion that is undone and done on two
devices takes as many. Four characters let a session commit a part, convert the rest, undo
twice and find the stack full. A journal of three is filled by two keys and a command; two
faults are a loss and one more during the recovery from it. In `UserDictionary` two uses
are a window and an import, or a window and a synchronisation, one after or into the
other; the overlap of locks takes four (the run `user_dictionary_lock`) and is not
reached with two, but the proof of `LockedSeesAll` has no bound. Three elements are the least
with a head, a tail and one between; blocks of one and two make the cache grow while it
is in use. The proofs of section 5 remove the bounds for most of this.

### Disagreements with the documentation and the comments

`PROJECT.json` (`findings`) quotes, each with its line, sentences of comments, documents
or messages that the code does not keep. Three of them are runs that expect a violation:

| Run | Sentence | What happens |
|---|---|---|
| `history_clear` | Clear is final and blocking | a save or load under way brings entries back |
| `sync_overlap` | "Sync already in progress" | both runners pass the check, and the refused lock counts as taken |
| `user_dictionary_lock` | two processes are never in the block at once | the lock file that is unlinked is another's by then, and a third process locks a new one |

Twelve others can be seen with configurations that are not
among the runs (`tlc -workers 2 -config <configuration> <module>`):

| Configuration | Module | Property | What happens |
|---|---|---|---|
| `MCSessionHandlerTimeout.cfg` | `MCSessionHandler` | `TimeoutOnlyWhenEmpty` | with sessions the empty time is infinitely long ago: the next CLEANUP shuts down |
| `MCUserHistoryClose.cfg` | `MCUserHistoryStorage` | `CloseSavesLate` | the destructor does not save what changed while the syncer ran, since the syncer's save has reset the mark |
| `MCDataLoaderAccept.cfg` | `MCDataLoader` | `AcceptedIsLoaded` | a request accepted while the thread is just ending waits for the next one |
| `MCSyncNotMidComposition.cfg` | `MCSyncRunner` | `NotMidComposition` | the composition begins between the question and the lock |
| `MCSyncBlocked.cfg` | `MCSyncRunner` | `BlockedDuringSync` | a second runner that is turned away writes "error" over the first one's "running" |
| `MCSyncNeverWedged.cfg` | `MCSyncRunner` | `NeverWedged` | the converter's lock stays after a crashed sync |
| `MCSyncReaddWins.cfg` | `MCSyncDevices` | `ReaddWins` | a word added again on a device falls to the other device's tombstone |
| `MCSyncLogged.cfg` | `MCSyncDevices` | `SavedDeletionsLogged` | a synchronisation between the log and the save drops the tombstone as that of a live word |
| `MCSyncUnionOnly.cfg` | `MCSyncDevices` | `UnionOnly` | an import takes out a word that came after its export |
| `MCSessionUndo.cfg` | `MCSession` | `UndoAlwaysRestores` | an undo after a palette symbol deletes the wrong characters |
| `MCClientShown.cfg` | `MCClient` | `KeysReachWhatIsShown` | a session whose loss is found by a call that needs none is made anew without the playback |
| `MCClientTorn.cfg` | `MCClient` | `NoKeyTwice` | a lock stops the playback between keys and their commit, and the next commit delivers the keys again |

The remaining findings are about what the models show by their histories (`missed`, `blind`,
`excuse`) or leave out, and are described where they are listed.

## 4. Fairness

* `SessionHandler`: CLEANUP keeps coming (the watch dog's thread does nothing else; it
  delays it while the machine is busy, not for ever), and a stopped server is launched.
* `UserHistoryStorage`: the syncer's thread runs (weak fairness); Sync is called again and
  again (strong: SYNC_DATA, DELETE_SESSION and CLEANUP all call it, between other
  commands); a disk does not refuse every write for ever (strong fairness of the write).
* `DataLoader`: both threads go on with what they have begun. No fairness for requests.
* `SyncRunner`: a runner that was started goes on (its calls end after five minutes at
  the latest); a status file that nobody writes again grows old. None for starting,
  typing, or the end of anything.

* `SyncDevices`: a process that has begun to synchronise goes on (weak), and on each device
  some process begins again and again (strong: the daemon polls for ever, but another
  device may be at work each time). None for the tool, which may never save what it has
  logged. The users stopping and the processes taking turns is not fairness but the
  premise `calm` of `Converges`; without it two devices can overwrite each other's bundle
  for ever.
* `Client`: the client's thread runs (weak fairness of its step); every call ends, with an
  answer or with a timeout. None for the server, the user, or the end of a lock.
* `Session`, `UserDictionary`, `LruCache`: none; their properties are safety.

The temporal properties `AcceptedIsLoaded` and `NeverWedged` are refuted under the fairness
of their modules; the specifications of the other counterexamples have none.

## 5. What is proved

The modules `*_proofs` hold proofs that TLAPS checks, for every value of the constants
under the assumption named in each module. The assumptions are type conditions
(`SessionHandlerAssumption`: times are natural numbers, the table holds at least two
sessions, the set of ids is finite, `InfinitePast` is not an integer;
`DataLoaderAssumption`: priorities are integers and the two special values are no requests;
`NoSessionAssumption`, `NoFileAssumption`: the empty value is not one of the others;
`RunnerAssumption`: the daemon is a runner; `DevicesAssumption`: devices are numbers, every
process has a device, the retention is positive, and `None` is none of the records;
`SessionAssumption`: bounds are numbers; `ClientAssumption`: bounds are numbers, the
journal holds something, and `Void` is no content; `DictionaryAssumption`,
`ActorAssumption`: the actors are finitely many, the windows and two others;
`LruCacheAssumption`: sizes are positive, and the null pointer is no element;
`InitialBlockAssumption`: the first block fits into the cache). No theorem depends on a
bound of the runs.

* **SessionHandler.** `TypeCorrect` needs that the eviction leaves room
  (`CapacityOfCreate`). `EngineSafe` is inductive once the type is known: a swap needs an
  empty table. `EmptyTimeCorrect` likewise. `RecencyCorrect` carries the total order and
  its agreement with the order of the accesses (`Earlier`) through the three operations on
  the list and the two on the clock: what is accessed now is not earlier than anything,
  since no session has a later epoch, nor a later time in the present one. From it follows
  `EvictionCorrect`, the tail being older than all others. `SleepCorrect` is arithmetic on
  `SuspendTime`; `LockCorrect` follows from what the steps do. `DeadOnlyGoCorrect` is the
  safety half of `DeadAppsReaped`: the sessions of an application that has exited only ever
  go, and the next CLEANUP takes them all.
* **UserHistoryStorage.** `SavedStays` alone is not inductive: a save in progress could
  write an older copy. `Inv` adds that what a syncer is about to write or to put into
  memory has all that is saved, that memory has too unless a load is under way or was
  interrupted, that an interrupted load happens only on the way out and leaves no mark, and
  that nothing counts as saved while `Clear` holds the lock. `SavedCorrect` follows.
  `DiskCorrect` needs another one, `DiskInv`: until `Close`, only the syncer's last step
  takes the mark away; outside `late`, what is being written or has just been written is
  what memory holds, and what is about to fill memory is what the file holds; a `Clear`
  under way either met the syncer (then all entries are `late`) or has it all to itself.
* **DataLoader.** One invariant `Inv`: the request being worked on is pending
  (`InProgress`), what is on its way to the engine goes before what is there (`Upgrade`),
  with `TakesAlone`, `Delivered` and `FailedStaysOut` themselves; `PriorityCorrect` reads
  the property of a step off `Upgrade`. `LoopCorrect` needs `Ordered` besides (at any time
  there are finitely many requests and no two are newer than each other) and that at most
  one of them goes first (`OneFront`): a step that removes a request is worth a whole turn
  of the loop, a turn that was overtaken is worth half of one, and every other step goes on
  in its turn (`LoopLeft`).
* **SyncRunner.** `OwnerCorrect` (inductive with the type) says for any number of processes
  that every failing step either keeps a runner that will release the lock or leaves a
  reason in `lost`. `Sound` strengthens `MergesUnderLock`: an undisturbed runner from its
  lock to its unlocking has the converter locked, and once its flush has reached the disk
  nothing typed is unsaved. `LockedCorrect` and `ReloadCorrect` follow from it. Two
  theorems say why a lock ends: `RunCorrect`, that a run only goes forward, 15 steps at
  most (`StepsLeft`), and is stopped early only by a crash; and `OwnerStaysCorrect`, that
  nobody takes the lock from a runner who can release it, or `lost` says what did.
* **SyncDevices.** `UnremovedCorrect` rests on `KeptInv`: of a word that nobody removed
  there is no tombstone anywhere, no tool has it in `logged`, and a synchronisation under
  way has it if its device has it and it is not in `missed`; so that only an import of the
  last kind can take it out. `DeletionCorrect` rests on `DownInv`: the deleting device's
  own tombstone is at least as young as `down` says, in its log and in what every process
  of the device has exported, the word is in no such export, and every merge keeps it so: a
  tombstone of its own that is kept removes what comes from the others. Both hold for any
  number of processes on a device, synchronising at once. `MergeIsJoin` says that the merge
  of tombstones is the join of a semilattice, so that neither the order nor the repetition
  of bundles matters. Three facts under `calm` lie beneath `Converges`: a word that all
  agree on stays so (`AgreementStays`), whatever its past and the tombstones left of it; a
  turn leaves its device with the words of the bundle; and no turn takes out of the bundle
  a word that nobody has removed (`TurnsConverge`, by the invariant `Turns`: one process
  synchronises at a time, and what it has merged holds such words of the bundle).
* **Session.** `ModesCorrect`: `ModesAgree` is inductive, one step per action; what an undo
  restores agrees because what was pushed did. It is proved under `OffKeys \subseteq
  {"command"}`, without which it is false. `UndoCorrect` adds `Chain`: what the i-th commit
  put into the document has the length that the context in which its undo would be given
  keeps of it, the next saved one or the one in use; only then is the deletion that the
  client is told the right one after several undos in a row. `CommitCorrect` reads off
  `Agree` that what the converter commits is what was typed.
* **Client.** `TypeCorrect` includes the states that the DCHECKs of `Call` and
  `EnsureSession` ask for. It needs that the playback is only reached by a second trial and
  within the journal, and that `EnsureConnection` leaves no other status than OK,
  INVALID_SESSION or FATAL, so that a call that fails in between cannot be taken for a
  first one on a good connection. `OrderCorrect` is `TypedOnceInOrder`, for every set of
  faults. Its invariant `OrderInv` says where a key that has been delivered can still be:
  in the journal, if the journal also commits it later (`Submits`), so that a playback from
  any point up to there cannot leave it behind; in a session, only if the client will not
  use that one again, having lost its status, or if a playback that was cut short has put
  it there (`torn`). But for those a session in use holds undelivered keys in ascending
  order, all of them earlier than what the playback or the call is about to type.
  `CallBounded` holds with all faults, errors too: a call takes `MaxPlayBack + 9` steps at
  most, because the second trial is not followed by a third and a playback moves on in a
  journal that it does not write.
* **LruCache** (in `SessionHandler_proofs`, as `session_map_` is one). `ListsAgree` is not
  inductive: it does not say that the walks end. `LruInv` names two sequences, `u` of the
  elements in use and `f` of the free ones, such that the pointers of the cache are theirs
  (`Lists`: heads, tails, links in both directions, none twice, none in both), the table
  names the elements of `u` (`Named`), every element of the blocks is in one of them
  (`Whole`), and capacity and block size are those of `Grown` (`Growth`). There is a lemma
  for each helper of the class about its fields (`RemoveFields`, `PushFields`,
  `FreeFields`, `PopFields`, `AddFields`), one for what it does to the two sequences
  (`RemoveLists`, `AttachLists`, `FreeLists`, `PopLists`, `AddLists`), and one for each
  step (`EvictGood`, `UseGood`, `FillGood`, `ProvideGood`, `InsertGood`, `ClearGood`). That
  a cache without a free element and without a block to add is full to `Room`
  (`ProvideGood`) is what makes the eviction the last resort; `GrownEnd` shows that once a
  block adds nothing, no later one does. `LruListsCorrect` then walks along the sequences
  (`ChainOf`); `LruImplements` maps `u` to its keys (`OrderIsKeys`, `RestKeys`, `KeptKeys`)
  and shows each operation to be the one of `LruOrder` (`InsertedAbstractly`,
  `LookedUpAbstractly`, `ErasedAbstractly`, `NothingHeld`). `InitialBlockAssumption` says
  that the first block is not larger than the cache, which the constructor's doubling
  guarantees for its 64, 128 and ten. The walks, `FreeAll`'s loop and `Grown` are recursive
  functions on the natural numbers. Induction over them is done through the least number
  for which a claim would fail (`Least`, `UpTo`); that such a function is what its equation
  says is shown by giving a function that satisfies the equation (`Iteration`).
* **UserDictionary.** `NoticeCorrect` adds to `StaleIsNoticed` that what the reloader has
  read and not yet set is the file's, or the file has another time by now (`LoadedInv`).
  `SeesCorrect` is carried by the two paths to the lock: who loads before he locks has what
  others save meanwhile in `missed`, and only that; who locks first misses nothing; who has
  the lock is the only one to save, until `overlap`; and a failed load makes an actor
  `blind` until his next one. `TypeCorrect` rests on a count: there are more inodes than
  processes that hold one, so that an `open` always finds one that is not in use
  (`UnusedExists`), and on a process under the lock having a lock file open.

**Model-checked only**: the liveness properties `DeadAppsReaped`, `SavedEventually`,
`WaitReturns`, `LockEnds`, `RunningEnds`, `Converges` and `EveryKeyAnswered`, which are out
of the prover's reach because they rest on fairness. What they rest on besides is proved
where it is a matter of single steps: that the loop, the call and the run come nearer to
their ends with every step (`LoopCorrect`, `CallBounded`, `RunCorrect`), and that what has
been reached is not lost again (`OwnerStaysCorrect`, `AgreementStays`,
`DeadOnlyGoCorrect`). For `SavedEventually` there is `DiskCorrect` only, and that the
devices reach agreement on a word that somebody has removed stays with TLC. Every safety
invariant and action property of the runs is a theorem: without further premise but, for
the three of `Session`, `OffKeys \subseteq {"command"}`.

## 6. Not modelled, and why

* **Pure data and numbers**: the converter's lattice and ranking, rewriters, composer and
  romaji tables, keymaps, the system dictionary, the scores of the history. They are
  sequential functions of large tables; what could go wrong in them is in the data.
* **Formats**: the bundle (archive and cipher), the history's and the dictionaries' text
  and protocol buffers. A load is all or nothing, which is what the readers make of it.
* **The history's merge** between devices adds up frequencies at every merge although the
  other side already holds the sum; it grows without bound by construction, and is listed
  as a hazard with no property since no sentence of the repository promises otherwise.
* **Configuration files.** `sync.conf` is read, changed and written by several processes
  without a protocol; the shared configuration is a value under a mutex. What would be
  checked is only that such an update can be lost, which `PROJECT.json` says.
* **Platform code**: front ends, renderer, GUI widgets, IPC transports, process creation,
  packaging. They enter as outcomes: a call is answered or not, a server starts or not.
* **Code nobody calls**: the sync scheduler.

## 7. How to run

```
tlc -workers 2 -config MCSyncRunner.cfg MCSyncRunner
tlapm SyncRunner_proofs.tla
```
