----------------------------- MODULE ProcessMutex -----------------------------
(***************************************************************************)
(* The mutex between processes of base/process_mutex.cc as it is on POSIX  *)
(* systems: fcntl(F_SETLK) on a file that is created by who finds none and *)
(* unlinked by who gives the lock back.  Lock is two system calls here     *)
(* (open, fcntl) and UnLock two (close, unlink), because other processes   *)
(* act in between; Lock never waits.  Files are told apart by their inode, *)
(* which lives on while somebody has it open.  Every actor is a process of *)
(* its own with one ProcessMutex.                                          *)
(***************************************************************************)
EXTENDS Integers, FiniteSets

CONSTANT Actor    \* the processes that use the lock

ASSUME ActorAssumption == IsFiniteSet(Actor)

VARIABLES
    path,      \* the inode that the name of the lock file leads to, or NoFile
    fd,        \* fd[a]: the inode that a has open, or NoFile
    locked,    \* locked[a]: a has the fcntl lock of fd[a] (ProcessMutex::locked_)
    overlap    \* history: two actors have been locked at the same time

mutexVars == <<path, fd, locked, overlap>>

NoFile == 0
Inode == 1 .. Cardinality(Actor) + 1

MutexTypeOK ==
    /\ path \in Inode \cup {NoFile}
    /\ fd \in [Actor -> Inode \cup {NoFile}]
    /\ locked \in [Actor -> BOOLEAN]
    /\ overlap \in BOOLEAN

MutexInit ==
    /\ path = NoFile
    /\ fd = [a \in Actor |-> NoFile]
    /\ locked = [a \in Actor |-> FALSE]
    /\ overlap = FALSE

\* An inode that nobody has open and no name leads to.
Unused == CHOOSE i \in Inode : i # path /\ \A a \in Actor : fd[a] # i

\* open(O_RDWR | O_CREAT)
OpenLockFile(a) ==
    /\ path' = IF path = NoFile THEN Unused ELSE path
    /\ fd' = [fd EXCEPT ![a] = path']
    /\ UNCHANGED <<locked, overlap>>

\* fcntl is refused while another process has locked the same inode.
Taken(a) == \E b \in Actor : locked[b] /\ fd[b] = fd[a]

LockSucceeds(a) ==
    /\ ~Taken(a)
    /\ locked' = [locked EXCEPT ![a] = TRUE]
    /\ overlap' = (overlap \/ \E b \in Actor : locked[b])
    /\ UNCHANGED <<path, fd>>

LockFails(a) ==
    /\ Taken(a)
    /\ fd' = [fd EXCEPT ![a] = NoFile]
    /\ UNCHANGED <<path, locked, overlap>>

\* Mutant: locked_ is not reset.
CloseLockFileOnly(a) ==
    /\ fd' = [fd EXCEPT ![a] = NoFile]
    /\ UNCHANGED <<path, locked, overlap>>

\* close, which releases the lock; also what the end of the process does.
CloseLockFile(a) ==
    /\ fd' = [fd EXCEPT ![a] = NoFile]
    /\ locked' = [locked EXCEPT ![a] = FALSE]
    /\ UNCHANGED <<path, overlap>>

\* UnlinkOrLogError removes whatever file has the name now.
UnlinkLockFile ==
    /\ path' = NoFile
    /\ UNCHANGED <<fd, locked, overlap>>
=============================================================================
