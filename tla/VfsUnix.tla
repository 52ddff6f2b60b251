------------------------------- MODULE VfsUnix --------------------------------
(***************************************************************************)
(* The lock calls of the VFS on Unix: vfs_lock.go over the methods of      *)
(* vfs_unix.go, which use open-file-description locks (F_OFD_SETLK): a     *)
(* lock belongs to the open file, a new lock of the owner replaces its old *)
(* one on the same range, and the owner never conflicts with itself.       *)
(***************************************************************************)
EXTENDS VfsFile

\* Mutant: the error number is returned as it is.
RawErrorCode(errno, def) == errno

lockErrorCode(errno, def) ==
    CASE errno \in {"EACCES", "EAGAIN", "EBUSY", "EINTR", "ENOLCK", "EDEADLK", "ETIMEDOUT"}
                           -> "BUSY"
      [] errno = "EPERM"   -> "PERM"
      [] OTHER             -> def

\* The errors with which F_OFD_SETLK may refuse the lock.
Errnos(c, r, t) ==
    LockErrnos \cup (IF Conflict(c, r, t) THEN {"EAGAIN"} ELSE {})

\* A lock request that fails ends the call and changes nothing else.
Refused(c, r, t, def) ==
    /\ \E errno \in Errnos(c, r, t) : Return(c, lockErrorCode(errno, def))
    /\ UNCHANGED <<eLock, os, res, version, snap>>

Granted(c, r, t) ==
    /\ ~Conflict(c, r, t)
    /\ SetRange(c, r, t)

-------------------------------------------------------------------------------
\* Mutant: PENDING is not tested.
CheckNothing(c) ==
    /\ Idle(c)
    /\ eLock[c] = NO_LOCK
    /\ Goto(c, "GetSharedLock")
    /\ UNCHANGED <<eLock, os, res, version, snap>>

\* vfsLock(SHARED): test PENDING (a failing test counts as not locked), and
\* take the read lock in a second system call.
CheckPendingLock(c) ==
    /\ Idle(c)
    /\ eLock[c] = NO_LOCK
    /\ \/ /\ Conflict(c, "PENDING", "rd")
          /\ Return(c, "BUSY")
       \/ /\ ~Conflict(c, "PENDING", "rd") \/ LockErrnos # {}
          /\ Goto(c, "GetSharedLock")
    /\ UNCHANGED <<eLock, os, res, version, snap>>

\* Mutant: the result of readLock is ignored.
GetSharedLockUnchecked(c) ==
    /\ pc[c] = "GetSharedLock"
    /\ \/ Granted(c, "SHARED", "rd")
       \/ Conflict(c, "SHARED", "rd") /\ UNCHANGED os
    /\ SetLock(c, SHARED_LOCK)
    /\ snap' = [snap EXCEPT ![c] = version]
    /\ Return(c, "OK")
    /\ UNCHANGED <<res, version>>

GetSharedLock(c) ==
    /\ pc[c] = "GetSharedLock"
    /\ \/ /\ Granted(c, "SHARED", "rd")
          /\ SetLock(c, SHARED_LOCK)
          /\ snap' = [snap EXCEPT ![c] = version]
          /\ Return(c, "OK")
          /\ UNCHANGED <<res, version>>
       \/ Refused(c, "SHARED", "rd", "IOERR_RDLOCK")

\* Mutant: RESERVED is locked for reading.
GetReservedForReading(c) ==
    /\ Idle(c)
    /\ eLock[c] = SHARED_LOCK
    /\ Granted(c, "RESERVED", "rd")
    /\ SetLock(c, RESERVED_LOCK)
    /\ Return(c, "OK")
    /\ UNCHANGED <<res, version, snap>>

GetReservedLock(c) ==
    /\ Idle(c)
    /\ eLock[c] = SHARED_LOCK
    /\ \/ /\ Granted(c, "RESERVED", "wr")
          /\ SetLock(c, RESERVED_LOCK)
          /\ Return(c, "OK")
          /\ UNCHANGED <<res, version, snap>>
       \/ Refused(c, "RESERVED", "wr", "IOERR_LOCK")

\* vfsLock(EXCLUSIVE) from RESERVED takes PENDING first; from SHARED and from
\* PENDING it makes the last system call at once.
GetPendingLock(c) ==
    /\ Idle(c)
    /\ eLock[c] = RESERVED_LOCK
    /\ \/ /\ Granted(c, "PENDING", "wr")
          /\ SetLock(c, PENDING_LOCK)
          /\ Goto(c, "GetExclusiveLock")
          /\ UNCHANGED <<res, version, snap>>
       \/ Refused(c, "PENDING", "wr", "IOERR_LOCK")

GetExclusiveLock(c) ==
    /\ \/ pc[c] = "GetExclusiveLock"
       \/ Idle(c) /\ eLock[c] \in {SHARED_LOCK, PENDING_LOCK}
    /\ \/ /\ Granted(c, "SHARED", "wr")
          /\ SetLock(c, EXCLUSIVE_LOCK)
          /\ Return(c, "OK")
          /\ UNCHANGED <<res, version, snap>>
       \/ Refused(c, "SHARED", "wr", "IOERR_LOCK")

\* vfsUnlock(SHARED): turn the write lock of EXCLUSIVE into a read lock; any
\* error of that request is reported as IOERR_RDLOCK.
DowngradeLock(c) ==
    /\ Idle(c)
    /\ eLock[c] = EXCLUSIVE_LOCK
    /\ \/ /\ Granted(c, "SHARED", "rd")
          /\ Goto(c, "unlock")
       \/ /\ Errnos(c, "SHARED", "rd") # {}
          /\ Return(c, "IOERR_RDLOCK")
          /\ UNCHANGED os
    /\ UNCHANGED <<eLock, res, version, snap>>

\* Mutant: the length of the range is off by one; RESERVED stays locked.
UnlockPendingOnly(c) ==
    /\ \/ pc[c] = "unlock"
       \/ Idle(c) /\ eLock[c] \in {RESERVED_LOCK, PENDING_LOCK}
    /\ SetRange(c, "PENDING", "un")
    /\ SetLock(c, SHARED_LOCK)
    /\ Return(c, "OK")
    /\ UNCHANGED <<res, version, snap>>

\* Mutant: the range has no end, so SHARED is unlocked too.
UnlockToEnd(c) ==
    /\ \/ pc[c] = "unlock"
       \/ Idle(c) /\ eLock[c] \in {RESERVED_LOCK, PENDING_LOCK}
    /\ os' = [os EXCEPT ![c] = Unlocked]
    /\ SetLock(c, SHARED_LOCK)
    /\ Return(c, "OK")
    /\ UNCHANGED <<res, version, snap>>

\* The rest of vfsUnlock(SHARED): one call frees PENDING and RESERVED.
unlock(c) ==
    /\ \/ pc[c] = "unlock"
       \/ Idle(c) /\ eLock[c] \in {RESERVED_LOCK, PENDING_LOCK}
    /\ \/ /\ os' = [os EXCEPT ![c]["PENDING"] = "un", ![c]["RESERVED"] = "un"]
          /\ SetLock(c, SHARED_LOCK)
          /\ Return(c, "OK")
       \/ /\ UnlockFails
          /\ Return(c, "IOERR_UNLOCK")
          /\ UNCHANGED <<os, eLock>>
    /\ UNCHANGED <<res, version, snap>>

\* vfsUnlock(NO_LOCK): one call frees every range; the level becomes NO_LOCK
\* whether the call fails or not.
ReleaseLock(c) ==
    /\ Idle(c)
    /\ eLock[c] > NO_LOCK
    /\ SetLock(c, NO_LOCK)
    /\ \/ /\ os' = [os EXCEPT ![c] = Unlocked]
          /\ Return(c, "OK")
       \/ /\ UnlockFails
          /\ Return(c, "IOERR_UNLOCK")
          /\ UNCHANGED os
    /\ UNCHANGED <<res, version, snap>>

vfsCheckReservedLock(c) ==
    /\ Idle(c)
    /\ eLock[c] <= SHARED_LOCK
    /\ \/ /\ res' = Conflict(c, "RESERVED", "rd")
          /\ Return(c, "OK")
       \/ /\ LockErrnos # {}
          /\ res' = FALSE
          /\ Return(c, "IOERR_CHECKRESERVEDLOCK")
    /\ UNCHANGED <<eLock, os, version, snap>>

LockNext(c) ==
    \/ CheckPendingLock(c) \/ GetSharedLock(c) \/ GetReservedLock(c)
    \/ GetPendingLock(c) \/ GetExclusiveLock(c)
    \/ DowngradeLock(c) \/ unlock(c) \/ ReleaseLock(c)
    \/ vfsCheckReservedLock(c)

Next == \E c \in Conns : FileNext(c) \/ LockNext(c)

Spec == Init /\ [][Next]_vars
\* Scheduling: a connection that is inside a lock call goes on with it, a
\* reader ends its transaction some day, and a writer that was told BUSY while
\* it held PENDING asks again (the busy handler).
EndRead(c) == eLock[c] = SHARED_LOCK /\ ReleaseLock(c)

FairSpec ==
    /\ Spec
    /\ \A c \in Conns : /\ WF_vars(GetSharedLock(c))
                        /\ WF_vars(GetExclusiveLock(c) /\ eLock[c] = PENDING_LOCK)
                        /\ WF_vars(unlock(c) /\ pc[c] = "unlock")
                        /\ WF_vars(EndRead(c))
-------------------------------------------------------------------------------
Codes == {"OK", "BUSY", "PERM", "IOERR_RDLOCK", "IOERR_LOCK", "IOERR_UNLOCK",
          "IOERR_WRITE", "IOERR_CHECKRESERVEDLOCK"}

\* The values the state of the lock calls takes (go_file, the result codes of
\* vfsLock and vfsUnlock, the ranges locked).
TypeOK ==
    /\ eLock \in [Conns -> vfsLockState]
    /\ os \in [Conns -> [Ranges -> {"un", "rd", "wr"}]]
    /\ pc \in [Conns -> {"closed", "idle", "GetSharedLock", "GetExclusiveLock", "unlock"}]
    /\ rc \in Codes
    /\ res \in BOOLEAN
    /\ version \in 0..MaxVersion
    /\ snap \in [Conns -> 0..MaxVersion]

Holds(c, pending, reserved, shared) ==
    /\ os[c]["PENDING"] = pending
    /\ os[c]["RESERVED"] = reserved
    /\ os[c]["SHARED"] = shared

\* The level in go_file and the locks the operating system granted agree at
\* every point of every call: a level is never kept, nor a range, that the
\* other side does not know of (vfsLock, vfsUnlock).  EXCLUSIVE comes with
\* PENDING and RESERVED, or with neither if it was taken from SHARED.
LocksAgree ==
    \A c \in Conns :
        /\ pc[c] = "closed" => Holds(c, "un", "un", "un")
        /\ pc[c] = "GetSharedLock" => eLock[c] = NO_LOCK /\ Holds(c, "un", "un", "un")
        /\ pc[c] = "GetExclusiveLock" => eLock[c] = PENDING_LOCK /\ Holds(c, "wr", "wr", "rd")
        /\ pc[c] = "unlock" => /\ eLock[c] = EXCLUSIVE_LOCK
                               /\ \E t \in {"un", "wr"} : Holds(c, t, t, "rd")
        /\ pc[c] = "idle" =>
              /\ eLock[c] = NO_LOCK => Holds(c, "un", "un", "un")
              /\ eLock[c] = SHARED_LOCK => Holds(c, "un", "un", "rd")
              /\ eLock[c] = RESERVED_LOCK => Holds(c, "un", "wr", "rd")
              /\ eLock[c] = PENDING_LOCK => Holds(c, "wr", "wr", "rd")
              /\ eLock[c] = EXCLUSIVE_LOCK => \E t \in {"un", "wr"} : Holds(c, t, t, "wr")

\* Whatever unlock calls fail, a connection that may read has its read lock
\* and one that is preparing to write has RESERVED: vfsUnlock only ever
\* forgets locks, except for EXCLUSIVE.
LevelBacked ==
    \A c \in Conns :
        /\ Level(c) >= SHARED_LOCK => os[c]["SHARED"] # "un"
        /\ Level(c) \in {RESERVED_LOCK, PENDING_LOCK} => os[c]["RESERVED"] = "wr"

\* The abstract level: go_file's, except that inside vfsUnlock(SHARED), once
\* the write lock is a read lock, EXCLUSIVE is already given up.
Held(c) ==
    IF pc[c] = "unlock"
    THEN IF os[c]["PENDING"] = "wr" THEN PENDING_LOCK ELSE SHARED_LOCK
    ELSE Level(c)

Abs == INSTANCE RollbackLock WITH mode <- [c \in Conns |-> Held(c)]

\* The system calls of vfs_lock.go and vfs_unix.go implement the five lock
\* levels, each change of level being atomic.
Implements == Abs!Spec

\* A connection that holds PENDING and keeps asking does become EXCLUSIVE:
\* the test of PENDING in vfsLock(SHARED) keeps new readers out, so the
\* readers it waits for run out.
WriterProgress ==
    \A c \in Conns : Level(c) = PENDING_LOCK ~> Level(c) # PENDING_LOCK
===============================================================================
