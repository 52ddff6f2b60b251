------------------------------ MODULE VfsWindows ------------------------------
(***************************************************************************)
(* The lock calls of the VFS on Windows: vfs_lock.go over the methods of   *)
(* vfs_windows.go.  LockFileEx cannot turn a lock of one type into the     *)
(* other, so every change between SHARED and EXCLUSIVE leaves the range    *)
(* unlocked for a moment, and a range is tested by locking it.             *)
(* UnlockFileEx fails only for a range that is not locked, which the code  *)
(* ignores.                                                                *)
(***************************************************************************)
EXTENDS VfsFile

CONSTANT HotJournals    \* may a connection go from SHARED to EXCLUSIVE?

lockErrorCode(errno, def) == IF errno = "ERROR_INVALID_HANDLE" THEN def ELSE "BUSY"

\* The errors with which LockFileEx may refuse the lock: it refuses a write
\* lock also on a range the caller has locked.
Errnos(c, r, t) ==
    LockErrnos \cup (IF Conflict(c, r, t) \/ (t = "wr" /\ os[c][r] # "un")
                     THEN {"ERROR_LOCK_VIOLATION"} ELSE {})

Refused(c, r, t) == Errnos(c, r, t) # {}

Granted(c, r, t) ==
    /\ ~Conflict(c, r, t)
    /\ t = "wr" => os[c][r] = "un"
    /\ SetRange(c, r, t)

\* A lock request that fails ends the call and changes nothing else.
Fail(c, r, t, def) ==
    /\ \E errno \in Errnos(c, r, t) : Return(c, lockErrorCode(errno, def))
    /\ UNCHANGED <<eLock, os>>

unlock(c, r) == SetRange(c, r, "un")

-------------------------------------------------------------------------------
\* Mutant: PENDING is not tested.
CheckNothing(c) ==
    /\ Idle(c)
    /\ eLock[c] = NO_LOCK
    /\ Goto(c, "GetSharedLock")
    /\ UNCHANGED <<eLock, os, res, version, snap>>

\* vfsLock(SHARED): the test of PENDING takes a read lock and gives it back.
CheckPendingLock(c) ==
    /\ Idle(c)
    /\ eLock[c] = NO_LOCK
    /\ \/ Granted(c, "PENDING", "rd") /\ Goto(c, "uncheckPending") /\ UNCHANGED eLock
       \/ Refused(c, "PENDING", "rd") /\ Return(c, "BUSY") /\ UNCHANGED <<eLock, os>>
    /\ UNCHANGED <<res, version, snap>>

UncheckPending(c) ==
    /\ pc[c] = "uncheckPending"
    /\ unlock(c, "PENDING")
    /\ Goto(c, "GetSharedLock")
    /\ UNCHANGED <<eLock, res, version, snap>>

\* Mutant: the result of readLock is ignored.
GetSharedLockUnchecked(c) ==
    /\ pc[c] = "GetSharedLock"
    /\ \/ Granted(c, "SHARED", "rd")
       \/ Conflict(c, "SHARED", "rd") /\ UNCHANGED os
    /\ SetLock(c, SHARED_LOCK)
    /\ snap' = [snap EXCEPT ![c] = version]
    /\ Return(c, "OK")
    /\ UNCHANGED <<res, version>>

GetSharedLock(c) ==
    /\ pc[c] = "GetSharedLock"
    /\ \/ /\ Granted(c, "SHARED", "rd")
          /\ SetLock(c, SHARED_LOCK)
          /\ snap' = [snap EXCEPT ![c] = version]
          /\ Return(c, "OK")
       \/ Fail(c, "SHARED", "rd", "IOERR_RDLOCK") /\ UNCHANGED snap
    /\ UNCHANGED <<res, version>>

\* Mutant: RESERVED is locked for reading.
GetReservedForReading(c) ==
    /\ Idle(c)
    /\ eLock[c] = SHARED_LOCK
    /\ Granted(c, "RESERVED", "rd")
    /\ SetLock(c, RESERVED_LOCK)
    /\ Return(c, "OK")
    /\ UNCHANGED <<res, version, snap>>

GetReservedLock(c) ==
    /\ Idle(c)
    /\ eLock[c] = SHARED_LOCK
    /\ \/ Granted(c, "RESERVED", "wr") /\ SetLock(c, RESERVED_LOCK) /\ Return(c, "OK")
       \/ Fail(c, "RESERVED", "wr", "IOERR_LOCK")
    /\ UNCHANGED <<res, version, snap>>

\* vfsLock(EXCLUSIVE): PENDING if the level is RESERVED, then release SHARED,
\* lock the range for writing, and on failure lock it for reading again,
\* whatever comes of that.
GetPendingLock(c) ==
    /\ Idle(c)
    /\ eLock[c] = RESERVED_LOCK
    /\ \/ Granted(c, "PENDING", "wr") /\ SetLock(c, PENDING_LOCK) /\ Goto(c, "GetExclusiveLock")
       \/ Fail(c, "PENDING", "wr", "IOERR_LOCK")
    /\ UNCHANGED <<res, version, snap>>

\* Mutant: EXCLUSIVE is requested without PENDING.
GetExclusiveAtOnce(c) ==
    /\ Idle(c)
    /\ eLock[c] \in {SHARED_LOCK, RESERVED_LOCK, PENDING_LOCK}
    /\ unlock(c, "SHARED")
    /\ Goto(c, "writeLock")
    /\ UNCHANGED <<eLock, res, version, snap>>

GetExclusiveLock(c) ==
    /\ \/ pc[c] = "GetExclusiveLock"
       \/ Idle(c) /\ (eLock[c] = PENDING_LOCK \/ (HotJournals /\ eLock[c] = SHARED_LOCK))
    /\ unlock(c, "SHARED")
    /\ Goto(c, "writeLock")
    /\ UNCHANGED <<eLock, res, version, snap>>

writeLock(c) ==
    /\ pc[c] = "writeLock"
    /\ \/ Granted(c, "SHARED", "wr") /\ SetLock(c, EXCLUSIVE_LOCK) /\ Return(c, "OK")
       \/ Refused(c, "SHARED", "wr") /\ Goto(c, "readLock") /\ UNCHANGED <<eLock, os>>
    /\ UNCHANGED <<res, version, snap>>

\* The call returns what writeLock failed with.
readLock(c) ==
    /\ pc[c] = "readLock"
    /\ \/ Granted(c, "SHARED", "rd")
       \/ Refused(c, "SHARED", "rd") /\ UNCHANGED os
    /\ \E errno \in LockErrnos \cup {"ERROR_LOCK_VIOLATION"} :
          Return(c, lockErrorCode(errno, "IOERR_LOCK"))
    /\ UNCHANGED <<eLock, res, version, snap>>

\* vfsUnlock(SHARED): from EXCLUSIVE, release the range and lock it for
\* reading; then release RESERVED and PENDING, as far as the level goes.
DowngradeLock(c) ==
    /\ Idle(c)
    /\ eLock[c] = EXCLUSIVE_LOCK
    /\ unlock(c, "SHARED")
    /\ Goto(c, "reacquire")
    /\ UNCHANGED <<eLock, res, version, snap>>

\* Mutant: the read lock is not reacquired.
ForgetReadLock(c) ==
    /\ pc[c] = "reacquire"
    /\ Goto(c, "unlockReserved")
    /\ UNCHANGED <<eLock, os, res, version, snap>>

Reacquire(c) ==
    /\ pc[c] = "reacquire"
    /\ \/ Granted(c, "SHARED", "rd") /\ Goto(c, "unlockReserved")
       \/ Refused(c, "SHARED", "rd") /\ Return(c, "IOERR_RDLOCK") /\ UNCHANGED os
    /\ UNCHANGED <<eLock, res, version, snap>>

UnlockReserved(c) ==
    /\ \/ pc[c] = "unlockReserved"
       \/ Idle(c) /\ eLock[c] \in {RESERVED_LOCK, PENDING_LOCK}
    /\ unlock(c, "RESERVED")
    /\ \/ eLock[c] >= PENDING_LOCK /\ Goto(c, "unlockPending") /\ UNCHANGED eLock
       \/ eLock[c] = RESERVED_LOCK /\ SetLock(c, SHARED_LOCK) /\ Return(c, "OK")
    /\ UNCHANGED <<res, version, snap>>

UnlockPending(c) ==
    /\ pc[c] = "unlockPending"
    /\ unlock(c, "PENDING")
    /\ SetLock(c, SHARED_LOCK)
    /\ Return(c, "OK")
    /\ UNCHANGED <<res, version, snap>>
\* vfsUnlock(NO_LOCK): release RESERVED, SHARED and PENDING, in this order, as
\* far as the level goes.
ReleaseReserved(c) ==
    /\ Idle(c)
    /\ eLock[c] >= RESERVED_LOCK
    /\ unlock(c, "RESERVED")
    /\ Goto(c, "releaseShared")
    /\ UNCHANGED <<eLock, res, version, snap>>

ReleaseShared(c) ==
    /\ pc[c] = "releaseShared" \/ (Idle(c) /\ eLock[c] = SHARED_LOCK)
    /\ unlock(c, "SHARED")
    /\ \/ eLock[c] >= PENDING_LOCK /\ Goto(c, "releasePending") /\ UNCHANGED eLock
       \/ eLock[c] < PENDING_LOCK /\ SetLock(c, NO_LOCK) /\ Return(c, "OK")
    /\ UNCHANGED <<res, version, snap>>

ReleasePending(c) ==
    /\ pc[c] = "releasePending"
    /\ unlock(c, "PENDING")
    /\ SetLock(c, NO_LOCK)
    /\ Return(c, "OK")
    /\ UNCHANGED <<res, version, snap>>

\* The test of RESERVED also takes a read lock and gives it back.
vfsCheckReservedLock(c) ==
    /\ Idle(c)
    /\ eLock[c] <= SHARED_LOCK
    /\ \/ Granted(c, "RESERVED", "rd") /\ Goto(c, "uncheckReserved") /\ UNCHANGED res
       \/ Refused(c, "RESERVED", "rd") /\ res' = TRUE /\ Return(c, "OK") /\ UNCHANGED os
    /\ UNCHANGED <<eLock, version, snap>>

UncheckReserved(c) ==
    /\ pc[c] = "uncheckReserved"
    /\ unlock(c, "RESERVED")
    /\ res' = FALSE
    /\ Return(c, "OK")
    /\ UNCHANGED <<eLock, version, snap>>

\* The steps of a call that has begun.
Continue(c) ==
    \/ UncheckPending(c) \/ GetSharedLock(c) \/ UncheckReserved(c)
    \/ writeLock(c) \/ readLock(c) \/ Reacquire(c) \/ UnlockPending(c)
    \/ ReleasePending(c)

LockNext(c) ==
    \/ CheckPendingLock(c) \/ vfsCheckReservedLock(c) \/ GetReservedLock(c)
    \/ GetPendingLock(c) \/ GetExclusiveLock(c) \/ DowngradeLock(c)
    \/ UnlockReserved(c) \/ ReleaseReserved(c) \/ ReleaseShared(c)
    \/ Continue(c)

Next == \E c \in Conns : FileNext(c) \/ LockNext(c)

Spec == Init /\ [][Next]_vars

\* Scheduling: as in VfsUnix.  A reader may test RESERVED before it ends.
EndRead(c) == Idle(c) /\ eLock[c] = SHARED_LOCK /\ ReleaseShared(c)

FairSpec ==
    /\ Spec
    /\ \A c \in Conns : /\ WF_vars(Continue(c))
                        /\ WF_vars(GetExclusiveLock(c) /\ eLock[c] = PENDING_LOCK)
                        /\ WF_vars(UnlockReserved(c) /\ ~Idle(c))
                        /\ WF_vars(ReleaseShared(c) /\ ~Idle(c))
                        /\ SF_vars(EndRead(c))
-------------------------------------------------------------------------------
\* The abstract level: go_file's, except that a level is given up with the
\* first range that vfsUnlock releases.
Held(c) ==
    CASE pc[c] \in {"reacquire", "unlockReserved"} -> PENDING_LOCK
      [] pc[c] = "unlockPending" -> SHARED_LOCK
      [] pc[c] = "releaseShared" /\ eLock[c] # EXCLUSIVE_LOCK -> SHARED_LOCK
      [] pc[c] = "releasePending" -> NO_LOCK
      [] OTHER -> Level(c)

Abs == INSTANCE RollbackLock WITH mode <- [c \in Conns |-> Held(c)]

\* The system calls of vfs_lock.go and vfs_windows.go implement the five lock
\* levels, though a connection has no lock on the SHARED range in the middle
\* of GetExclusiveLock and of DowngradeLock.
Implements == Abs!Spec

\* The comment in DowngradeLock, "We should always be able to reacquire the
\* read lock": nobody takes the range while it is released.  The same of
\* GetExclusiveLock, which ignores the result of its readLock.
ReacquireSucceeds ==
    \A c \in Conns : pc[c] \in {"reacquire", "readLock"} => ~Conflict(c, "SHARED", "rd")

\* A connection that holds PENDING and keeps asking does become EXCLUSIVE,
\* though it gives up its read lock at every attempt and other connections
\* lock the PENDING byte to test it.
WriterProgress ==
    \A c \in Conns : Level(c) = PENDING_LOCK ~> Level(c) # PENDING_LOCK
===============================================================================
