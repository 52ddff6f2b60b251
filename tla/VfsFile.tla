------------------------------- MODULE VfsFile --------------------------------
(***************************************************************************)
(* The part of the VFS that does not depend on the operating system: a     *)
(* database file that several connections (of one process or of several)   *)
(* have open, each with the lock level recorded in its go_file structure,  *)
(* the byte-range locks that the operating system has granted, and the     *)
(* calls that open, write and close the file.  VfsUnix and VfsWindows add  *)
(* the lock calls.                                                         *)
(*                                                                         *)
(* A lock call is a sequence of system calls.  Each system call is one     *)
(* step; what the call does between two of them (SetLock) only touches     *)
(* memory of its own connection and belongs to the step before.            *)
(***************************************************************************)
EXTENDS LockStates

CONSTANTS
    Conns,          \* connections: one open file description each
    MaxVersion,     \* bound on the number of writes to the file
    LockErrnos,     \* errors with which a lock call may fail without a conflict
    UnlockFails     \* may an unlock call fail?

ASSUME VersionAssumption == MaxVersion \in Nat

VARIABLES
    eLock,          \* the lock level in each connection's go_file
    os,             \* the byte-range locks granted by the operating system
    pc,             \* the system call a connection is about to make
    rc,             \* the result code of the call that returned last
    res,            \* what the last vfsCheckReservedLock answered
    version,        \* how many times the database file was written
    snap            \* the version at which a connection validated its cache

vars == <<eLock, os, pc, rc, res, version, snap>>

\* The three ranges of the lock page.  The 510 bytes of SHARED are always
\* locked and unlocked together.
Ranges == {"PENDING", "RESERVED", "SHARED"}

Unlocked == [r \in Ranges |-> "un"]

Init ==
    /\ eLock = [c \in Conns |-> NO_LOCK]
    /\ os = [c \in Conns |-> Unlocked]
    /\ pc = [c \in Conns |-> "closed"]
    /\ rc = "OK"
    /\ res = FALSE
    /\ version = 0
    /\ snap = [c \in Conns |-> 0]

Idle(c) == pc[c] = "idle"

Return(c, code) ==
    /\ pc' = [pc EXCEPT ![c] = "idle"]
    /\ rc' = code

Goto(c, call) ==
    /\ pc' = [pc EXCEPT ![c] = call]
    /\ UNCHANGED rc

SetLock(c, l) == eLock' = [eLock EXCEPT ![c] = l]

SetRange(c, r, t) == os' = [os EXCEPT ![c][r] = t]

\* A lock of type t on range r is refused while another open file
\* description holds a conflicting one.
Conflict(c, r, t) ==
    \E d \in Conns \ {c} : os[d][r] = "wr" \/ (t = "wr" /\ os[d][r] = "rd")

vfsOpen(c) ==
    /\ pc[c] = "closed"
    /\ SetLock(c, NO_LOCK)
    /\ Return(c, "OK")
    /\ UNCHANGED <<os, res, version, snap>>

\* The operating system drops the locks of a file description when it is
\* closed.
vfsClose(c) ==
    /\ Idle(c)
    /\ os' = [os EXCEPT ![c] = Unlocked]
    /\ pc' = [pc EXCEPT ![c] = "closed"]
    /\ rc' = "OK"
    /\ UNCHANGED <<eLock, res, version, snap>>

\* The process dies, between any two system calls.
Crash(c) ==
    /\ pc[c] # "closed"
    /\ os' = [os EXCEPT ![c] = Unlocked]
    /\ pc' = [pc EXCEPT ![c] = "closed"]
    /\ UNCHANGED <<eLock, rc, res, version, snap>>

\* SQLite writes to the database file under an EXCLUSIVE lock only.  A write
\* that fails may have written part of its data.
vfsWrite(c) ==
    /\ Idle(c)
    /\ eLock[c] = EXCLUSIVE_LOCK
    /\ version < MaxVersion
    /\ version' = version + 1
    /\ snap' = [snap EXCEPT ![c] = version + 1]
    /\ \E code \in {"OK", "IOERR_WRITE"} : Return(c, code)
    /\ UNCHANGED <<eLock, os, res>>

\* vfsLock when the level is already held, vfsUnlock when it is not exceeded.
NothingToDo(c) ==
    /\ Idle(c)
    /\ Return(c, "OK")
    /\ UNCHANGED <<eLock, os, res, version, snap>>

FileNext(c) ==
    vfsOpen(c) \/ vfsClose(c) \/ Crash(c) \/ vfsWrite(c) \/ NothingToDo(c)

-------------------------------------------------------------------------------
\* The level a connection has; one that has closed the file has none.
Level(c) == IF pc[c] = "closed" THEN NO_LOCK ELSE eLock[c]

\* Between calls, a connection at EXCLUSIVE is alone: no other connection has
\* any level, as the comment on _EXCLUSIVE_LOCK in vfs_lock.go says.
ExclusiveAlone ==
    \A c \in Conns : Idle(c) /\ eLock[c] = EXCLUSIVE_LOCK
        => \A d \in Conns \ {c} : Level(d) = NO_LOCK

\* A connection that has kept at least SHARED since it validated its page
\* cache sees the file unchanged, except by its own writes: nobody writes
\* under a reader, and no writer works from a stale read (vfsLock, SHARED to
\* EXCLUSIVE).
ReadStability ==
    \A c \in Conns : Level(c) >= SHARED_LOCK => snap[c] = version

\* At most one connection is preparing to write: between calls, RESERVED and
\* PENDING exclude each other, whatever failures vfsLock and vfsUnlock met.
OneWriter ==
    \A c, d \in Conns :
        Idle(c) /\ Idle(d) /\ {eLock[c], eLock[d]} \subseteq {RESERVED_LOCK, PENDING_LOCK}
            => c = d

\* The comment on _EXCLUSIVE_LOCK in vfs_lock.go: "no other locks of any kind
\* are allowed to coexist with an EXCLUSIVE lock", between calls of both.
NoneCoexists ==
    \A c, d \in Conns :
        Idle(c) /\ Idle(d) /\ eLock[c] = EXCLUSIVE_LOCK => c = d \/ eLock[d] = NO_LOCK
===============================================================================
