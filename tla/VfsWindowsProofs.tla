--------------------------- MODULE VfsWindowsProofs ---------------------------
(***************************************************************************)
(* Proofs about VfsWindows, for any set of connections and any number of   *)
(* writes.  Three invariants, each for more failures than the next: with   *)
(* any failing lock requests and hot journals; with failing lock requests  *)
(* only; and with neither.                                                 *)
(***************************************************************************)
EXTENDS VfsWindows, TLAPS

\* The system calls inside a lock call.
Calls == {"uncheckPending", "GetSharedLock", "uncheckReserved", "GetExclusiveLock", "writeLock",
          "readLock", "reacquire", "unlockReserved", "unlockPending", "releaseShared", "releasePending"}

\* The values the state takes.
LocksTypeOK ==
    /\ eLock \in [Conns -> vfsLockState]
    /\ os \in [Conns -> [Ranges -> {"un", "rd", "wr"}]]
    /\ pc \in [Conns -> {"closed", "idle"} \cup Calls]
    /\ version \in Nat
    /\ snap \in [Conns -> Nat]

\* What the operating system guarantees: no two connections have conflicting
\* locks on a range.
RangesExclusive ==
    \A c, d \in Conns : \A r \in Ranges :
        c # d /\ os[c][r] = "wr" => os[d][r] = "un"

\* The level at each system call inside a lock call.
LevelsInCalls ==
    \A c \in Conns :
        /\ pc[c] \in {"uncheckPending", "GetSharedLock"} => eLock[c] = NO_LOCK
        /\ pc[c] = "uncheckReserved" => eLock[c] <= SHARED_LOCK
        /\ pc[c] = "GetExclusiveLock" => eLock[c] = PENDING_LOCK
        /\ pc[c] \in {"writeLock", "readLock"} => eLock[c] \in {SHARED_LOCK, PENDING_LOCK}
        /\ pc[c] \in {"reacquire", "unlockReserved"} => eLock[c] = EXCLUSIVE_LOCK
        /\ pc[c] \in {"unlockPending", "releasePending"} => eLock[c] >= PENDING_LOCK
        /\ pc[c] = "releaseShared" => eLock[c] >= RESERVED_LOCK

\* A writer has RESERVED, until the call that gives its level up.
ReservedHeld ==
    \A c \in Conns :
        /\ pc[c] \in {"idle", "GetExclusiveLock", "writeLock", "readLock"}
        /\ eLock[c] \in {RESERVED_LOCK, PENDING_LOCK}
        => os[c]["RESERVED"] = "wr"

\* The invariant for any failures.
WriterInv == LocksTypeOK /\ RangesExclusive /\ LevelsInCalls /\ ReservedHeld

\* Without hot journals, whoever has the SHARED range for writing has PENDING,
\* and so has whoever has had it or will ask for it.
PendingHeld ==
    \A c \in Conns :
        /\ os[c]["SHARED"] = "wr" => /\ eLock[c] = EXCLUSIVE_LOCK /\ pc[c] \in {"idle", "releaseShared"}
                                     /\ os[c]["PENDING"] = "wr"
        /\ pc[c] # "closed" /\ eLock[c] >= PENDING_LOCK => os[c]["PENDING"] = "wr"
        /\ pc[c] \in {"writeLock", "readLock"} => eLock[c] = PENDING_LOCK

\* The invariant for failing lock requests.
PendingInv == WriterInv /\ PendingHeld

\* The locks a connection has on the three ranges.
Holds(c, pending, reserved, shared) ==
    /\ os[c]["PENDING"] = pending
    /\ os[c]["RESERVED"] = reserved
    /\ os[c]["SHARED"] = shared

\* When lock requests fail for a conflict only, the level and the locks agree
\* before each system call.
LocksAgree ==
    \A c \in Conns :
        /\ pc[c] = "closed" => Holds(c, "un", "un", "un")
        /\ pc[c] = "idle" =>
              /\ eLock[c] = NO_LOCK => Holds(c, "un", "un", "un")
              /\ eLock[c] = SHARED_LOCK => Holds(c, "un", "un", "rd")
              /\ eLock[c] = RESERVED_LOCK => Holds(c, "un", "wr", "rd")
              /\ eLock[c] = PENDING_LOCK => Holds(c, "wr", "wr", "rd")
              /\ eLock[c] = EXCLUSIVE_LOCK => Holds(c, "wr", "wr", "wr")
        /\ pc[c] = "uncheckPending" => Holds(c, "rd", "un", "un")
        /\ pc[c] = "GetSharedLock" => Holds(c, "un", "un", "un")
        /\ pc[c] = "uncheckReserved" => Holds(c, "un", "rd", IF eLock[c] = NO_LOCK THEN "un" ELSE "rd")
        /\ pc[c] = "GetExclusiveLock" => Holds(c, "wr", "wr", "rd")
        /\ pc[c] \in {"writeLock", "readLock"} => Holds(c, "wr", "wr", "un")
        /\ pc[c] = "reacquire" => Holds(c, "wr", "wr", "un")
        /\ pc[c] = "unlockReserved" => Holds(c, "wr", "wr", "rd")
        /\ pc[c] = "unlockPending" => Holds(c, "wr", "un", "rd")
        /\ pc[c] = "releaseShared" => Holds(c, IF eLock[c] = RESERVED_LOCK THEN "un" ELSE "wr", "un",
                                            IF eLock[c] = EXCLUSIVE_LOCK THEN "wr" ELSE "rd")
        /\ pc[c] = "releasePending" => Holds(c, "wr", "un", "un")

\* The invariant when lock requests fail for a conflict only.
IInv == PendingInv /\ LocksAgree /\ ReadStability

\* Initially all files are closed and nothing is locked.
LEMMA InitIInv == Init => IInv
<1> SUFFICES ASSUME Init PROVE IInv
  OBVIOUS
<1> USE DEF Init, Unlocked, NO_LOCK, SHARED_LOCK, RESERVED_LOCK, PENDING_LOCK, EXCLUSIVE_LOCK
<1>1. LocksTypeOK
  BY DEF LocksTypeOK, vfsLockState
<1>2. RangesExclusive /\ LevelsInCalls /\ ReservedHeld
  BY DEF RangesExclusive, LevelsInCalls, ReservedHeld, Calls
<1>3. PendingHeld /\ LocksAgree /\ ReadStability
  BY DEF PendingHeld, LocksAgree, Holds, Ranges, ReadStability, Level, Calls
<1> QED
  BY <1>1, <1>2, <1>3 DEF IInv, PendingInv, WriterInv

\* A step locks or unlocks one range of one connection, or releases all of them:
\* the locks of two connections never come to conflict.
LEMMA NextRanges ==
    ASSUME LocksTypeOK, RangesExclusive, [Next]_vars
    PROVE  os' \in [Conns -> [Ranges -> {"un", "rd", "wr"}]] /\ RangesExclusive'
<1> DEFINE Types == {"un", "rd", "wr"}
           Kept == os' \in [Conns -> [Ranges -> Types]] /\ RangesExclusive'
<1>1. ASSUME NEW c \in Conns, FileNext(c) PROVE os' = os \/ os' = [os EXCEPT ![c] = Unlocked]
  BY <1>1 DEF FileNext, vfsOpen, vfsClose, Crash, vfsWrite, NothingToDo
<1>2. ASSUME NEW c \in Conns, LockNext(c)
      PROVE  \/ os' = os
             \/ \E r \in Ranges : unlock(c, r) \/ \E t \in {"rd", "wr"} : Granted(c, r, t)
  <2> USE DEF Fail, Ranges
  <2>1. CASE Continue(c)
    BY <2>1 DEF Continue, UncheckPending, GetSharedLock, UncheckReserved, writeLock, readLock, Reacquire,
       UnlockPending, ReleasePending
  <2>2. CASE ~Continue(c)
    BY <1>2, <2>2 DEF LockNext, CheckPendingLock, vfsCheckReservedLock, GetReservedLock, GetPendingLock,
       GetExclusiveLock, DowngradeLock, UnlockReserved, ReleaseReserved, ReleaseShared
  <2> QED
    BY <2>1, <2>2
<1>3. ASSUME NEW c \in Conns, NEW r \in Ranges, NEW t \in Types, SetRange(c, r, t)
      PROVE  /\ os' \in [Conns -> [Ranges -> Types]]
             /\ \A d \in Conns, q \in Ranges : os'[d][q] = IF d = c /\ q = r THEN t ELSE os[d][q]
  <2>1. [os[c] EXCEPT ![r] = t] \in [Ranges -> Types]
    BY DEF LocksTypeOK
  <2>2. os' \in [Conns -> [Ranges -> Types]]
    BY <1>3, <2>1 DEF LocksTypeOK, SetRange
  <2>3. \A d \in Conns, q \in Ranges : os'[d][q] = IF d = c /\ q = r THEN t ELSE os[d][q]
    BY <1>3 DEF LocksTypeOK, SetRange
  <2> QED
    BY <2>2, <2>3
<1>4. ASSUME NEW c \in Conns, NEW r \in Ranges, unlock(c, r) PROVE Kept
  <2>1. SetRange(c, r, "un")
    BY <1>4 DEF unlock
  <2> QED
    BY <2>1, <1>3 DEF RangesExclusive
<1>5. ASSUME NEW c \in Conns, NEW r \in Ranges, NEW t \in {"rd", "wr"}, Granted(c, r, t) PROVE Kept
  <2>1. SetRange(c, r, t)
    BY <1>5 DEF Granted
  <2>2. \A d \in Conns \ {c} : os[d][r] # "wr" /\ (t = "wr" => os[d][r] # "rd") /\ os[d][r] \in Types
    BY <1>5 DEF Granted, Conflict, LocksTypeOK
  <2> QED
    BY <2>1, <2>2, <1>3 DEF RangesExclusive
<1>6. ASSUME NEW c \in Conns, os' = [os EXCEPT ![c] = Unlocked] PROVE Kept
  <2>1. os' \in [Conns -> [Ranges -> Types]]
    BY <1>6 DEF LocksTypeOK, Unlocked
  <2>2. \A d \in Conns, q \in Ranges : os'[d][q] = IF d = c THEN "un" ELSE os[d][q]
    BY <1>6 DEF LocksTypeOK, Unlocked
  <2> QED
    BY <2>1, <2>2 DEF RangesExclusive
<1>7. CASE os' = os
  BY <1>7 DEF LocksTypeOK, RangesExclusive
<1> QED
  BY <1>1, <1>2, <1>4, <1>5, <1>6, <1>7 DEF Next, vars

\* Every step of every connection preserves the invariant, whatever fails.
LEMMA NextWriterInv == ASSUME WriterInv, [Next]_vars PROVE WriterInv'
<1> USE DEF NO_LOCK, SHARED_LOCK, RESERVED_LOCK, PENDING_LOCK, EXCLUSIVE_LOCK,
            vfsLockState, Ranges, Calls, Idle, SetLock, SetRange
<1>0. os' \in [Conns -> [Ranges -> {"un", "rd", "wr"}]] /\ RangesExclusive'
  BY NextRanges DEF WriterInv
<1>1. ASSUME NEW c \in Conns, vfsOpen(c) PROVE WriterInv'
  <2> USE <1>1 DEF WriterInv, vfsOpen, Return
  <2>1. LocksTypeOK'
    BY <1>0 DEF LocksTypeOK
  <2>2. LevelsInCalls' /\ ReservedHeld'
    BY DEF LocksTypeOK, LevelsInCalls, ReservedHeld
  <2> QED
    BY <1>0, <2>1, <2>2
<1>2. ASSUME NEW c \in Conns, vfsClose(c) PROVE WriterInv'
  <2> USE <1>2 DEF WriterInv, vfsClose, Unlocked
  <2>1. LocksTypeOK'
    BY <1>0 DEF LocksTypeOK
  <2>2. LevelsInCalls' /\ ReservedHeld'
    BY DEF LocksTypeOK, LevelsInCalls, ReservedHeld
  <2> QED
    BY <1>0, <2>1, <2>2
<1>3. ASSUME NEW c \in Conns, Crash(c) PROVE WriterInv'
  <2> USE <1>3 DEF WriterInv, Crash, Unlocked
  <2>1. LocksTypeOK'
    BY <1>0 DEF LocksTypeOK
  <2>2. LevelsInCalls' /\ ReservedHeld'
    BY DEF LocksTypeOK, LevelsInCalls, ReservedHeld
  <2> QED
    BY <1>0, <2>1, <2>2
<1>4. ASSUME NEW c \in Conns, vfsWrite(c) PROVE WriterInv'
  <2> USE <1>4 DEF WriterInv, vfsWrite, Return
  <2>1. LocksTypeOK'
    BY <1>0, VersionAssumption DEF LocksTypeOK
  <2>2. LevelsInCalls' /\ ReservedHeld'
    BY DEF LocksTypeOK, LevelsInCalls, ReservedHeld
  <2> QED
    BY <1>0, <2>1, <2>2
<1>5. ASSUME NEW c \in Conns, NothingToDo(c) PROVE WriterInv'
  <2> USE <1>5 DEF WriterInv, NothingToDo, Return
  <2>1. LocksTypeOK'
    BY <1>0 DEF LocksTypeOK
  <2>2. LevelsInCalls' /\ ReservedHeld'
    BY DEF LocksTypeOK, LevelsInCalls, ReservedHeld
  <2> QED
    BY <1>0, <2>1, <2>2
<1>6. ASSUME NEW c \in Conns, CheckPendingLock(c) PROVE WriterInv'
  <2> USE <1>6 DEF WriterInv, CheckPendingLock, Granted, Refused, Return, Goto
  <2>1. LocksTypeOK'
    BY <1>0 DEF LocksTypeOK
  <2>2. LevelsInCalls' /\ ReservedHeld'
    BY DEF LocksTypeOK, LevelsInCalls, ReservedHeld
  <2> QED
    BY <1>0, <2>1, <2>2
<1>7. ASSUME NEW c \in Conns, UncheckPending(c) PROVE WriterInv'
  <2> USE <1>7 DEF WriterInv, UncheckPending, unlock, Goto
  <2>1. LocksTypeOK'
    BY <1>0 DEF LocksTypeOK
  <2>2. LevelsInCalls' /\ ReservedHeld'
    BY DEF LocksTypeOK, LevelsInCalls, ReservedHeld
  <2> QED
    BY <1>0, <2>1, <2>2
<1>8. ASSUME NEW c \in Conns, GetSharedLock(c) PROVE WriterInv'
  <2> USE <1>8 DEF WriterInv, GetSharedLock, Granted, Fail, Return
  <2>1. LocksTypeOK'
    <3>1. eLock' \in [Conns -> vfsLockState]
      BY DEF LocksTypeOK
    <3>2. pc' \in [Conns -> {"closed", "idle"} \cup Calls]
      BY DEF LocksTypeOK
    <3>3. snap' \in [Conns -> Nat]
      BY DEF LocksTypeOK
    <3> QED
      BY <1>0, <3>1, <3>2, <3>3 DEF LocksTypeOK
  <2>2. LevelsInCalls' /\ ReservedHeld'
    BY DEF LocksTypeOK, LevelsInCalls, ReservedHeld
  <2> QED
    BY <1>0, <2>1, <2>2
<1>9. ASSUME NEW c \in Conns, GetReservedLock(c) PROVE WriterInv'
  <2> USE <1>9 DEF WriterInv, GetReservedLock, Granted, Fail, Return
  <2>1. LocksTypeOK'
    <3>1. eLock' \in [Conns -> vfsLockState]
      BY DEF LocksTypeOK
    <3>2. pc' \in [Conns -> {"closed", "idle"} \cup Calls]
      BY DEF LocksTypeOK
    <3> QED
      BY <1>0, <3>1, <3>2 DEF LocksTypeOK
  <2>2. LevelsInCalls' /\ ReservedHeld'
    BY DEF LocksTypeOK, LevelsInCalls, ReservedHeld
  <2> QED
    BY <1>0, <2>1, <2>2
<1>10. ASSUME NEW c \in Conns, GetPendingLock(c) PROVE WriterInv'
  <2> USE <1>10 DEF WriterInv, GetPendingLock, Granted, Fail, Return, Goto
  <2>1. LocksTypeOK'
    <3>1. eLock' \in [Conns -> vfsLockState]
      BY DEF LocksTypeOK
    <3>2. pc' \in [Conns -> {"closed", "idle"} \cup Calls]
      BY DEF LocksTypeOK
    <3> QED
      BY <1>0, <3>1, <3>2 DEF LocksTypeOK
  <2>2. LevelsInCalls' /\ ReservedHeld'
    BY DEF LocksTypeOK, LevelsInCalls, ReservedHeld
  <2> QED
    BY <1>0, <2>1, <2>2
<1>11. ASSUME NEW c \in Conns, GetExclusiveLock(c) PROVE WriterInv'
  <2> USE <1>11 DEF WriterInv, GetExclusiveLock, unlock, Goto
  <2>1. LocksTypeOK'
    BY <1>0 DEF LocksTypeOK
  <2>2. LevelsInCalls' /\ ReservedHeld'
    BY DEF LocksTypeOK, LevelsInCalls, ReservedHeld
  <2> QED
    BY <1>0, <2>1, <2>2
<1>12. ASSUME NEW c \in Conns, writeLock(c) PROVE WriterInv'
  <2> USE <1>12 DEF WriterInv, writeLock, Granted, Refused, Return, Goto
  <2>1. LocksTypeOK'
    <3>1. eLock' \in [Conns -> vfsLockState]
      BY DEF LocksTypeOK
    <3>2. pc' \in [Conns -> {"closed", "idle"} \cup Calls]
      BY DEF LocksTypeOK
    <3> QED
      BY <1>0, <3>1, <3>2 DEF LocksTypeOK
  <2>2. LevelsInCalls' /\ ReservedHeld'
    BY DEF LocksTypeOK, LevelsInCalls, ReservedHeld
  <2> QED
    BY <1>0, <2>1, <2>2
<1>13. ASSUME NEW c \in Conns, readLock(c) PROVE WriterInv'
  <2> USE <1>13 DEF WriterInv, readLock, Granted, Refused, Return
  <2>1. LocksTypeOK'
    BY Zenon, <1>0 DEF LocksTypeOK
  <2>2. LevelsInCalls' /\ ReservedHeld'
    BY DEF LocksTypeOK, LevelsInCalls, ReservedHeld
  <2> QED
    BY <1>0, <2>1, <2>2
<1>14. ASSUME NEW c \in Conns, DowngradeLock(c) PROVE WriterInv'
  <2> USE <1>14 DEF WriterInv, DowngradeLock, unlock, Goto
  <2>1. LocksTypeOK'
    BY <1>0 DEF LocksTypeOK
  <2>2. LevelsInCalls' /\ ReservedHeld'
    BY DEF LocksTypeOK, LevelsInCalls, ReservedHeld
  <2> QED
    BY <1>0, <2>1, <2>2
<1>15. ASSUME NEW c \in Conns, Reacquire(c) PROVE WriterInv'
  <2> USE <1>15 DEF WriterInv, Reacquire, Granted, Refused, Return, Goto
  <2>1. LocksTypeOK'
    BY <1>0 DEF LocksTypeOK
  <2>2. LevelsInCalls' /\ ReservedHeld'
    BY DEF LocksTypeOK, LevelsInCalls, ReservedHeld
  <2> QED
    BY <1>0, <2>1, <2>2
<1>16. ASSUME NEW c \in Conns, UnlockReserved(c) PROVE WriterInv'
  <2> USE <1>16 DEF WriterInv, UnlockReserved, unlock, Return, Goto
  <2>1. LocksTypeOK'
    <3>1. eLock' \in [Conns -> vfsLockState]
      BY DEF LocksTypeOK
    <3>2. pc' \in [Conns -> {"closed", "idle"} \cup Calls]
      BY DEF LocksTypeOK
    <3> QED
      BY <1>0, <3>1, <3>2 DEF LocksTypeOK
  <2>2. LevelsInCalls' /\ ReservedHeld'
    BY DEF LocksTypeOK, LevelsInCalls, ReservedHeld
  <2> QED
    BY <1>0, <2>1, <2>2
<1>17. ASSUME NEW c \in Conns, UnlockPending(c) PROVE WriterInv'
  <2> USE <1>17 DEF WriterInv, UnlockPending, unlock, Return
  <2>1. LocksTypeOK'
    BY <1>0 DEF LocksTypeOK
  <2>2. LevelsInCalls' /\ ReservedHeld'
    BY DEF LocksTypeOK, LevelsInCalls, ReservedHeld
  <2> QED
    BY <1>0, <2>1, <2>2
<1>18. ASSUME NEW c \in Conns, ReleaseReserved(c) PROVE WriterInv'
  <2> USE <1>18 DEF WriterInv, ReleaseReserved, unlock, Goto
  <2>1. LocksTypeOK'
    BY <1>0 DEF LocksTypeOK
  <2>2. LevelsInCalls' /\ ReservedHeld'
    BY DEF LocksTypeOK, LevelsInCalls, ReservedHeld
  <2> QED
    BY <1>0, <2>1, <2>2
<1>19. ASSUME NEW c \in Conns, ReleaseShared(c) PROVE WriterInv'
  <2> USE <1>19 DEF WriterInv, ReleaseShared, unlock, Return, Goto
  <2>1. LocksTypeOK'
    BY <1>0 DEF LocksTypeOK
  <2>2. LevelsInCalls' /\ ReservedHeld'
    BY DEF LocksTypeOK, LevelsInCalls, ReservedHeld
  <2> QED
    BY <1>0, <2>1, <2>2
<1>20. ASSUME NEW c \in Conns, ReleasePending(c) PROVE WriterInv'
  <2> USE <1>20 DEF WriterInv, ReleasePending, unlock, Return
  <2>1. LocksTypeOK'
    BY <1>0 DEF LocksTypeOK
  <2>2. LevelsInCalls' /\ ReservedHeld'
    BY DEF LocksTypeOK, LevelsInCalls, ReservedHeld
  <2> QED
    BY <1>0, <2>1, <2>2
<1>21. ASSUME NEW c \in Conns, vfsCheckReservedLock(c) PROVE WriterInv'
  <2> USE <1>21 DEF WriterInv, vfsCheckReservedLock, Granted, Refused, Return, Goto
  <2>1. LocksTypeOK'
    BY <1>0 DEF LocksTypeOK
  <2>2. LevelsInCalls' /\ ReservedHeld'
    BY DEF LocksTypeOK, LevelsInCalls, ReservedHeld
  <2> QED
    BY <1>0, <2>1, <2>2
<1>22. ASSUME NEW c \in Conns, UncheckReserved(c) PROVE WriterInv'
  <2> USE <1>22 DEF WriterInv, UncheckReserved, unlock, Return
  <2>1. LocksTypeOK'
    BY <1>0 DEF LocksTypeOK
  <2>2. LevelsInCalls' /\ ReservedHeld'
    BY DEF LocksTypeOK, LevelsInCalls, ReservedHeld
  <2> QED
    BY <1>0, <2>1, <2>2
<1>23. CASE UNCHANGED vars
  BY <1>23 DEF vars, WriterInv, LocksTypeOK, RangesExclusive, LevelsInCalls, ReservedHeld
<1> QED
  BY <1>1, <1>2, <1>3, <1>4, <1>5, <1>6, <1>7, <1>8, <1>9, <1>10, <1>11, <1>12,
     <1>13, <1>14, <1>15, <1>16, <1>17, <1>18, <1>19, <1>20, <1>21, <1>22, <1>23
  DEF Next, FileNext, LockNext, Continue

\* Without hot journals.
LEMMA NextPendingHeld ==
    ASSUME HotJournals = FALSE, WriterInv, PendingHeld, [Next]_vars
    PROVE  PendingHeld'
<1> USE DEF NO_LOCK, SHARED_LOCK, RESERVED_LOCK, PENDING_LOCK, EXCLUSIVE_LOCK,
            vfsLockState, Ranges, Calls, Idle, SetLock, SetRange, WriterInv, LocksTypeOK, PendingHeld
<1>1. ASSUME NEW c \in Conns, vfsOpen(c) PROVE PendingHeld'
  BY <1>1 DEF LevelsInCalls, vfsOpen, Return
<1>2. ASSUME NEW c \in Conns, vfsClose(c) PROVE PendingHeld'
  BY <1>2 DEF LevelsInCalls, vfsClose, Unlocked
<1>3. ASSUME NEW c \in Conns, Crash(c) PROVE PendingHeld'
  BY <1>3 DEF LevelsInCalls, Crash, Unlocked
<1>4. ASSUME NEW c \in Conns, vfsWrite(c) PROVE PendingHeld'
  BY <1>4 DEF LevelsInCalls, vfsWrite, Return
<1>5. ASSUME NEW c \in Conns, NothingToDo(c) PROVE PendingHeld'
  BY <1>5 DEF LevelsInCalls, NothingToDo, Return
<1>6. ASSUME NEW c \in Conns, CheckPendingLock(c) PROVE PendingHeld'
  BY <1>6 DEF LevelsInCalls, CheckPendingLock, Granted, Refused, Return, Goto
<1>7. ASSUME NEW c \in Conns, UncheckPending(c) PROVE PendingHeld'
  BY <1>7 DEF LevelsInCalls, UncheckPending, unlock, Goto
<1>8. ASSUME NEW c \in Conns, GetSharedLock(c) PROVE PendingHeld'
  BY <1>8 DEF LevelsInCalls, GetSharedLock, Granted, Fail, Return
<1>9. ASSUME NEW c \in Conns, GetReservedLock(c) PROVE PendingHeld'
  BY <1>9 DEF LevelsInCalls, GetReservedLock, Granted, Fail, Return
<1>10. ASSUME NEW c \in Conns, GetPendingLock(c) PROVE PendingHeld'
  BY <1>10 DEF LevelsInCalls, GetPendingLock, Granted, Fail, Return, Goto
<1>11. ASSUME NEW c \in Conns, GetExclusiveLock(c) PROVE PendingHeld'
  BY <1>11 DEF LevelsInCalls, GetExclusiveLock, unlock, Goto
<1>12. ASSUME NEW c \in Conns, writeLock(c) PROVE PendingHeld'
  BY <1>12 DEF LevelsInCalls, writeLock, Granted, Refused, Return, Goto
<1>13. ASSUME NEW c \in Conns, readLock(c) PROVE PendingHeld'
  BY <1>13 DEF LevelsInCalls, readLock, Granted, Refused, Return
<1>14. ASSUME NEW c \in Conns, DowngradeLock(c) PROVE PendingHeld'
  BY <1>14 DEF LevelsInCalls, DowngradeLock, unlock, Goto
<1>15. ASSUME NEW c \in Conns, Reacquire(c) PROVE PendingHeld'
  BY <1>15 DEF LevelsInCalls, Reacquire, Granted, Refused, Return, Goto
<1>16. ASSUME NEW c \in Conns, UnlockReserved(c) PROVE PendingHeld'
  BY <1>16 DEF LevelsInCalls, UnlockReserved, unlock, Return, Goto
<1>17. ASSUME NEW c \in Conns, UnlockPending(c) PROVE PendingHeld'
  BY <1>17 DEF LevelsInCalls, UnlockPending, unlock, Return
<1>18. ASSUME NEW c \in Conns, ReleaseReserved(c) PROVE PendingHeld'
  BY <1>18 DEF LevelsInCalls, ReleaseReserved, unlock, Goto
<1>19. ASSUME NEW c \in Conns, ReleaseShared(c) PROVE PendingHeld'
  BY <1>19 DEF LevelsInCalls, ReleaseShared, unlock, Return, Goto
<1>20. ASSUME NEW c \in Conns, ReleasePending(c) PROVE PendingHeld'
  BY <1>20 DEF LevelsInCalls, ReleasePending, unlock, Return
<1>21. ASSUME NEW c \in Conns, vfsCheckReservedLock(c) PROVE PendingHeld'
  BY <1>21 DEF LevelsInCalls, vfsCheckReservedLock, Granted, Refused, Return, Goto
<1>22. ASSUME NEW c \in Conns, UncheckReserved(c) PROVE PendingHeld'
  BY <1>22 DEF LevelsInCalls, UncheckReserved, unlock, Return
<1>23. CASE UNCHANGED vars
  BY <1>23 DEF vars
<1> QED
  BY Zenon, <1>1, <1>2, <1>3, <1>4, <1>5, <1>6, <1>7, <1>8, <1>9, <1>10, <1>11, <1>12,
     <1>13, <1>14, <1>15, <1>16, <1>17, <1>18, <1>19, <1>20, <1>21, <1>22, <1>23
  DEF Next, FileNext, LockNext, Continue

\* When lock requests fail for a conflict only: a connection that released the
\* SHARED range has PENDING, so that it gets the range back.
LEMMA NextLocksAgree ==
    ASSUME HotJournals = FALSE, LockErrnos = {}, PendingInv, LocksAgree, [Next]_vars
    PROVE  LocksAgree'
<1> USE DEF NO_LOCK, SHARED_LOCK, RESERVED_LOCK, PENDING_LOCK, EXCLUSIVE_LOCK,
            vfsLockState, Ranges, Calls, Idle, SetLock, SetRange, PendingInv, WriterInv, LocksTypeOK,
            LevelsInCalls, LocksAgree, Holds
<1>1. ASSUME NEW c \in Conns, vfsOpen(c) PROVE LocksAgree'
  BY <1>1 DEF vfsOpen, Return
<1>2. ASSUME NEW c \in Conns, vfsClose(c) PROVE LocksAgree'
  BY <1>2 DEF vfsClose, Unlocked
<1>3. ASSUME NEW c \in Conns, Crash(c) PROVE LocksAgree'
  BY <1>3 DEF Crash, Unlocked
<1>4. ASSUME NEW c \in Conns, vfsWrite(c) PROVE LocksAgree'
  BY <1>4 DEF vfsWrite, Return
<1>5. ASSUME NEW c \in Conns, NothingToDo(c) PROVE LocksAgree'
  BY <1>5 DEF NothingToDo, Return
<1>6. ASSUME NEW c \in Conns, CheckPendingLock(c) PROVE LocksAgree'
  BY <1>6 DEF CheckPendingLock, Granted, Refused, Return, Goto
<1>7. ASSUME NEW c \in Conns, UncheckPending(c) PROVE LocksAgree'
  BY <1>7 DEF UncheckPending, unlock, Goto
<1>8. ASSUME NEW c \in Conns, GetSharedLock(c) PROVE LocksAgree'
  BY <1>8 DEF GetSharedLock, Granted, Fail, Return
<1>9. ASSUME NEW c \in Conns, GetReservedLock(c) PROVE LocksAgree'
  BY <1>9 DEF GetReservedLock, Granted, Fail, Return
<1>10. ASSUME NEW c \in Conns, GetPendingLock(c) PROVE LocksAgree'
  BY <1>10 DEF GetPendingLock, Granted, Fail, Return, Goto
<1>11. ASSUME NEW c \in Conns, GetExclusiveLock(c) PROVE LocksAgree'
  BY <1>11 DEF GetExclusiveLock, unlock, Goto
<1>12. ASSUME NEW c \in Conns, writeLock(c) PROVE LocksAgree'
  BY <1>12 DEF writeLock, Granted, Refused, Return, Goto
<1>13. ASSUME NEW c \in Conns, readLock(c) PROVE LocksAgree'
  BY <1>13 DEF readLock, Granted, Refused, Return, Errnos, Conflict, PendingHeld, RangesExclusive
<1>14. ASSUME NEW c \in Conns, DowngradeLock(c) PROVE LocksAgree'
  BY <1>14 DEF DowngradeLock, unlock, Goto
<1>15. ASSUME NEW c \in Conns, Reacquire(c) PROVE LocksAgree'
  BY <1>15 DEF Reacquire, Granted, Refused, Return, Goto, Errnos, Conflict, PendingHeld, RangesExclusive
<1>16. ASSUME NEW c \in Conns, UnlockReserved(c) PROVE LocksAgree'
  BY <1>16 DEF UnlockReserved, unlock, Return, Goto
<1>17. ASSUME NEW c \in Conns, UnlockPending(c) PROVE LocksAgree'
  BY <1>17 DEF UnlockPending, unlock, Return
<1>18. ASSUME NEW c \in Conns, ReleaseReserved(c) PROVE LocksAgree'
  BY <1>18 DEF ReleaseReserved, unlock, Goto
<1>19. ASSUME NEW c \in Conns, ReleaseShared(c) PROVE LocksAgree'
  BY <1>19 DEF ReleaseShared, unlock, Return, Goto
<1>20. ASSUME NEW c \in Conns, ReleasePending(c) PROVE LocksAgree'
  BY <1>20 DEF ReleasePending, unlock, Return
<1>21. ASSUME NEW c \in Conns, vfsCheckReservedLock(c) PROVE LocksAgree'
  BY <1>21 DEF vfsCheckReservedLock, Granted, Refused, Return, Goto
<1>22. ASSUME NEW c \in Conns, UncheckReserved(c) PROVE LocksAgree'
  BY <1>22 DEF UncheckReserved, unlock, Return
<1>23. CASE UNCHANGED vars
  BY <1>23 DEF vars
<1> QED
  BY Zenon, <1>1, <1>2, <1>3, <1>4, <1>5, <1>6, <1>7, <1>8, <1>9, <1>10, <1>11, <1>12,
     <1>13, <1>14, <1>15, <1>16, <1>17, <1>18, <1>19, <1>20, <1>21, <1>22, <1>23
  DEF Next, FileNext, LockNext, Continue

\* Then nobody writes under a reader.
LEMMA NextReadStability ==
    ASSUME PendingInv, LocksAgree, ReadStability, [Next]_vars
    PROVE  ReadStability'
<1> USE DEF NO_LOCK, SHARED_LOCK, RESERVED_LOCK, PENDING_LOCK, EXCLUSIVE_LOCK,
            vfsLockState, Idle, SetLock, PendingInv, WriterInv, LocksTypeOK, ReadStability, Level
<1>1. ASSUME NEW c \in Conns, vfsOpen(c) PROVE ReadStability'
  BY <1>1 DEF LevelsInCalls, vfsOpen, Return
<1>2. ASSUME NEW c \in Conns, vfsClose(c) PROVE ReadStability'
  BY <1>2 DEF LevelsInCalls, vfsClose, Unlocked
<1>3. ASSUME NEW c \in Conns, Crash(c) PROVE ReadStability'
  BY <1>3 DEF LevelsInCalls, Crash, Unlocked
<1>4. ASSUME NEW c \in Conns, vfsWrite(c) PROVE ReadStability'
  <2> USE <1>4 DEF vfsWrite, Return
  <2>1. \A d \in Conns \ {c} : Level(d) = NO_LOCK
    BY DEF RangesExclusive, LevelsInCalls, LocksAgree, Holds, Ranges, Calls
  <2>2. \A d \in Conns \ {c} : Level(d)' = NO_LOCK
    BY <2>1
  <2> QED
    BY <2>2, VersionAssumption
<1>5. ASSUME NEW c \in Conns, NothingToDo(c) PROVE ReadStability'
  BY <1>5 DEF LevelsInCalls, NothingToDo, Return
<1>6. ASSUME NEW c \in Conns, CheckPendingLock(c) PROVE ReadStability'
  BY <1>6 DEF LevelsInCalls, CheckPendingLock, Granted, Refused, Return, Goto
<1>7. ASSUME NEW c \in Conns, UncheckPending(c) PROVE ReadStability'
  BY <1>7 DEF LevelsInCalls, UncheckPending, unlock, Goto
<1>8. ASSUME NEW c \in Conns, GetSharedLock(c) PROVE ReadStability'
  BY <1>8 DEF LevelsInCalls, GetSharedLock, Granted, Fail, Return
<1>9. ASSUME NEW c \in Conns, GetReservedLock(c) PROVE ReadStability'
  BY <1>9 DEF LevelsInCalls, GetReservedLock, Granted, Fail, Return
<1>10. ASSUME NEW c \in Conns, GetPendingLock(c) PROVE ReadStability'
  <2>1. \A d \in Conns : Level(d)' >= SHARED_LOCK => Level(d) >= SHARED_LOCK
    BY <1>10 DEF GetPendingLock, Fail, Return, Goto
  <2> QED
    BY <1>10, <2>1 DEF GetPendingLock
<1>11. ASSUME NEW c \in Conns, GetExclusiveLock(c) PROVE ReadStability'
  BY <1>11 DEF LevelsInCalls, GetExclusiveLock, unlock, Goto
<1>12. ASSUME NEW c \in Conns, writeLock(c) PROVE ReadStability'
  BY <1>12 DEF LevelsInCalls, writeLock, Granted, Refused, Return, Goto
<1>13. ASSUME NEW c \in Conns, readLock(c) PROVE ReadStability'
  BY <1>13 DEF LevelsInCalls, readLock, Granted, Refused, Return
<1>14. ASSUME NEW c \in Conns, DowngradeLock(c) PROVE ReadStability'
  BY <1>14 DEF LevelsInCalls, DowngradeLock, unlock, Goto
<1>15. ASSUME NEW c \in Conns, Reacquire(c) PROVE ReadStability'
  BY <1>15 DEF LevelsInCalls, Reacquire, Granted, Refused, Return, Goto
<1>16. ASSUME NEW c \in Conns, UnlockReserved(c) PROVE ReadStability'
  BY <1>16 DEF LevelsInCalls, UnlockReserved, unlock, Return, Goto
<1>17. ASSUME NEW c \in Conns, UnlockPending(c) PROVE ReadStability'
  BY <1>17 DEF LevelsInCalls, UnlockPending, unlock, Return
<1>18. ASSUME NEW c \in Conns, ReleaseReserved(c) PROVE ReadStability'
  BY <1>18 DEF LevelsInCalls, ReleaseReserved, unlock, Goto
<1>19. ASSUME NEW c \in Conns, ReleaseShared(c) PROVE ReadStability'
  BY <1>19 DEF LevelsInCalls, ReleaseShared, unlock, Return, Goto
<1>20. ASSUME NEW c \in Conns, ReleasePending(c) PROVE ReadStability'
  BY <1>20 DEF LevelsInCalls, ReleasePending, unlock, Return
<1>21. ASSUME NEW c \in Conns, vfsCheckReservedLock(c) PROVE ReadStability'
  BY <1>21 DEF LevelsInCalls, vfsCheckReservedLock, Granted, Refused, Return, Goto
<1>22. ASSUME NEW c \in Conns, UncheckReserved(c) PROVE ReadStability'
  BY <1>22 DEF LevelsInCalls, UncheckReserved, unlock, Return
<1>23. CASE UNCHANGED vars
  BY <1>23 DEF vars
<1> QED
  BY Zenon, <1>1, <1>2, <1>3, <1>4, <1>5, <1>6, <1>7, <1>8, <1>9, <1>10, <1>11, <1>12,
     <1>13, <1>14, <1>15, <1>16, <1>17, <1>18, <1>19, <1>20, <1>21, <1>22, <1>23
  DEF Next, FileNext, LockNext, Continue

\* With any failures, and with hot journals.
LEMMA WriterInvariance == Spec => []WriterInv
<1>1. Init => WriterInv
  BY InitIInv DEF IInv, PendingInv
<1>2. WriterInv /\ [Next]_vars => WriterInv'
  BY NextWriterInv
<1> QED
  BY <1>1, <1>2, PTL DEF Spec

\* With failing lock requests.
LEMMA PendingInvariance == ASSUME HotJournals = FALSE PROVE Spec => []PendingInv
<1>1. Init => PendingInv
  BY InitIInv DEF IInv
<1>2. PendingInv /\ [Next]_vars => PendingInv'
  BY Zenon, NextWriterInv, NextPendingHeld DEF PendingInv
<1> QED
  BY <1>1, <1>2, PTL DEF Spec

\* With neither.
LEMMA Invariance == ASSUME HotJournals = FALSE, LockErrnos = {} PROVE Spec => []IInv
<1>1. IInv /\ [Next]_vars => IInv'
  BY Zenon, NextWriterInv, NextPendingHeld, NextLocksAgree, NextReadStability DEF IInv, PendingInv
<1> QED
  BY InitIInv, <1>1, PTL DEF Spec

\* Whatever lock requests fail, and with hot journals, vfsLock lets one connection
\* at a time prepare to write.
THEOREM OneWindowsWriter == Spec => []OneWriter
<1>1. WriterInv => OneWriter
  BY DEF WriterInv, LocksTypeOK, RangesExclusive, ReservedHeld, OneWriter, Idle, Ranges,
     RESERVED_LOCK, PENDING_LOCK
<1> QED
  BY <1>1, WriterInvariance, PTL

\* The comment in DowngradeLock of vfs_windows.go, "We should always be able to
\* reacquire the read lock", and the ignored result of readLock in
\* GetExclusiveLock: without hot journals no lock of another connection is in
\* the way, whatever requests have failed before.
THEOREM ReacquireUnopposed == ASSUME HotJournals = FALSE PROVE Spec => []ReacquireSucceeds
<1>1. PendingInv => ReacquireSucceeds
  BY DEF PendingInv, WriterInv, LocksTypeOK, RangesExclusive, LevelsInCalls, PendingHeld, ReacquireSucceeds,
     Conflict, Ranges, Calls, PENDING_LOCK, EXCLUSIVE_LOCK
<1> QED
  BY <1>1, PendingInvariance, PTL

\* Nobody writes to the file under a connection that has at least SHARED, though
\* the SHARED range is unlocked for a moment in vfsLock and vfsUnlock.
THEOREM ReadsStable == ASSUME HotJournals = FALSE, LockErrnos = {} PROVE Spec => []ReadStability
<1>1. IInv => ReadStability
  BY DEF IInv
<1> QED
  BY <1>1, Invariance, PTL

\* A step of one connection changes the abstract level of that one only.
LEMMA RefinementStep ==
    ASSUME HotJournals = FALSE, IInv, IInv', [Next]_vars
    PROVE  [Abs!Next]_[c \in Conns |-> Held(c)]
<1> DEFINE M == [c \in Conns |-> Held(c)]
<1> USE DEF NO_LOCK, SHARED_LOCK, RESERVED_LOCK, PENDING_LOCK, EXCLUSIVE_LOCK,
            vfsLockState, Ranges, Idle, SetLock, Abs!vfsLockState, Abs!NO_LOCK,
            Abs!SHARED_LOCK, Abs!RESERVED_LOCK, Abs!PENDING_LOCK, Abs!EXCLUSIVE_LOCK
<1>a. LocksTypeOK /\ LevelsInCalls /\ LocksAgree /\ RangesExclusive /\ PendingHeld
  BY DEF IInv, PendingInv, WriterInv
<1>b. \A c \in Conns : Held(c) \in vfsLockState
  BY <1>a DEF LocksTypeOK, Held, Level
<1>c. \A c \in Conns : Held(c)' \in vfsLockState
  BY DEF IInv, PendingInv, WriterInv, LocksTypeOK, Held, Level
<1>d. ASSUME NEW c \in Conns, FileNext(c) \/ LockNext(c) PROVE M' = [M EXCEPT ![c] = Held(c)']
  <2> USE <1>a DEF LocksTypeOK, Return, Goto
  <2>1. ASSUME NEW d \in Conns \ {c}, FileNext(c) PROVE pc'[d] = pc[d] /\ eLock'[d] = eLock[d]
    BY <2>1 DEF FileNext, vfsOpen, vfsClose, Crash, vfsWrite, NothingToDo
  <2>2. ASSUME NEW d \in Conns \ {c}, Continue(c) PROVE pc'[d] = pc[d] /\ eLock'[d] = eLock[d]
    BY <2>2 DEF Continue, UncheckPending, GetSharedLock, UncheckReserved, writeLock, readLock, Reacquire,
       UnlockPending, ReleasePending, Fail
  <2>3. ASSUME NEW d \in Conns \ {c}, LockNext(c), ~Continue(c) PROVE pc'[d] = pc[d] /\ eLock'[d] = eLock[d]
    BY <2>3 DEF LockNext, CheckPendingLock, vfsCheckReservedLock, GetReservedLock, GetPendingLock,
       GetExclusiveLock, DowngradeLock, UnlockReserved, ReleaseReserved, ReleaseShared, Fail
  <2>4. \A d \in Conns \ {c} : Held(d)' = Held(d)
    BY <1>d, <2>1, <2>2, <2>3 DEF Held, Level
  <2> QED
    BY Zenon, <2>4
<1>e. ASSUME NEW c \in Conns, FileNext(c) \/ LockNext(c), Held(c)' <= Held(c) PROVE Abs!Next \/ M' = M
  <2>1. CASE Held(c)' < Held(c)
    BY Zenon, <1>c, <1>d, <1>e, <2>1 DEF Abs!Next, Abs!Lower
  <2>2. CASE Held(c)' = Held(c)
    BY Zenon, <1>d, <1>e, <2>2
  <2> QED
    BY <1>b, <1>c, <1>e, <2>1, <2>2
<1>1. ASSUME NEW c \in Conns, vfsOpen(c) PROVE Abs!Next \/ M' = M
  <2>1. Held(c)' <= Held(c)
    BY <1>1, <1>a, <1>b DEF LocksTypeOK, LevelsInCalls, Held, Level, vfsOpen, Return
  <2> QED
    BY <1>1, <1>e, <2>1 DEF FileNext
<1>2. ASSUME NEW c \in Conns, vfsClose(c) PROVE Abs!Next \/ M' = M
  <2>1. Held(c)' <= Held(c)
    BY <1>2, <1>a, <1>b DEF LocksTypeOK, LevelsInCalls, Held, Level, vfsClose
  <2> QED
    BY <1>2, <1>e, <2>1 DEF FileNext
<1>3. ASSUME NEW c \in Conns, Crash(c) PROVE Abs!Next \/ M' = M
  <2>1. Held(c)' <= Held(c)
    BY <1>3, <1>a, <1>b DEF LocksTypeOK, LevelsInCalls, Held, Level, Crash
  <2> QED
    BY <1>3, <1>e, <2>1 DEF FileNext
<1>4. ASSUME NEW c \in Conns, vfsWrite(c) PROVE Abs!Next \/ M' = M
  <2>1. Held(c)' <= Held(c)
    BY <1>4, <1>a, <1>b DEF LocksTypeOK, LevelsInCalls, Held, Level, vfsWrite, Return
  <2> QED
    BY <1>4, <1>e, <2>1 DEF FileNext
<1>5. ASSUME NEW c \in Conns, NothingToDo(c) PROVE Abs!Next \/ M' = M
  <2>1. Held(c)' <= Held(c)
    BY <1>5, <1>a, <1>b DEF LocksTypeOK, LevelsInCalls, Held, Level, NothingToDo, Return
  <2> QED
    BY <1>5, <1>e, <2>1 DEF FileNext
<1>6. ASSUME NEW c \in Conns, CheckPendingLock(c) PROVE Abs!Next \/ M' = M
  <2>1. Held(c)' <= Held(c)
    BY <1>6, <1>a, <1>b DEF LocksTypeOK, LevelsInCalls, Held, Level, CheckPendingLock, Return, Goto
  <2> QED
    BY <1>6, <1>e, <2>1 DEF LockNext
<1>7. ASSUME NEW c \in Conns, UncheckPending(c) PROVE Abs!Next \/ M' = M
  <2>1. Held(c)' <= Held(c)
    BY <1>7, <1>a, <1>b DEF LocksTypeOK, LevelsInCalls, Held, Level, UncheckPending, Goto
  <2> QED
    BY <1>7, <1>e, <2>1 DEF LockNext, Continue
<1>8. ASSUME NEW c \in Conns, GetSharedLock(c) PROVE Abs!Next \/ M' = M
  <2> USE <1>a DEF LocksTypeOK, LevelsInCalls
  <2>1. CASE eLock'[c] = SHARED_LOCK
    <3>1. Held(c) = NO_LOCK /\ Held(c)' = SHARED_LOCK
      BY <1>8, <2>1 DEF GetSharedLock, Return, Goto, Fail, Held, Level
    <3>2. M' = [M EXCEPT ![c] = SHARED_LOCK]
      BY <1>8, <1>d, <3>1 DEF LockNext, Continue
    <3>3. \A d \in Conns \ {c} : Held(d) # EXCLUSIVE_LOCK
      BY <1>8, <2>1 DEF GetSharedLock, Granted, Fail, Conflict, LocksAgree, RangesExclusive, Holds, Calls, Held, Level
    <3> QED
      BY Zenon, <3>1, <3>2, <3>3 DEF Abs!Next, Abs!Share, Abs!Others
  <2>2. CASE eLock'[c] # SHARED_LOCK
    <3>1. Held(c)' = Held(c)
      BY <1>8, <2>2 DEF GetSharedLock, Return, Goto, Fail, Held, Level
    <3>2. Held(c)' <= Held(c)
      BY <1>b, <3>1
    <3> QED
      BY <1>8, <1>e, <3>2 DEF LockNext, Continue
  <2> QED
    BY <2>1, <2>2
<1>9. ASSUME NEW c \in Conns, GetReservedLock(c) PROVE Abs!Next \/ M' = M
  <2> USE <1>a DEF LocksTypeOK, LevelsInCalls
  <2>1. CASE eLock'[c] = RESERVED_LOCK
    <3>1. Held(c) = SHARED_LOCK /\ Held(c)' = RESERVED_LOCK
      BY <1>9, <2>1 DEF GetReservedLock, Return, Goto, Fail, Held, Level
    <3>2. M' = [M EXCEPT ![c] = RESERVED_LOCK]
      BY <1>9, <1>d, <3>1 DEF LockNext
    <3>3. \A d \in Conns \ {c} : Held(d) < RESERVED_LOCK
      BY <1>9, <2>1 DEF GetReservedLock, Granted, Fail, Conflict, LocksAgree, RangesExclusive, Holds, Calls, Held, Level
    <3> QED
      BY Zenon, <3>1, <3>2, <3>3 DEF Abs!Next, Abs!Reserve, Abs!Others
  <2>2. CASE eLock'[c] # RESERVED_LOCK
    <3>1. Held(c)' = Held(c)
      BY <1>9, <2>2 DEF GetReservedLock, Return, Goto, Fail, Held, Level
    <3>2. Held(c)' <= Held(c)
      BY <1>b, <3>1
    <3> QED
      BY <1>9, <1>e, <3>2 DEF LockNext
  <2> QED
    BY <2>1, <2>2
<1>10. ASSUME NEW c \in Conns, GetPendingLock(c) PROVE Abs!Next \/ M' = M
  <2> USE <1>a DEF LocksTypeOK, LevelsInCalls
  <2>1. CASE eLock'[c] = PENDING_LOCK
    <3>1. Held(c) = RESERVED_LOCK /\ Held(c)' = PENDING_LOCK
      BY <1>10, <2>1 DEF GetPendingLock, Return, Goto, Fail, Held, Level
    <3>2. M' = [M EXCEPT ![c] = PENDING_LOCK]
      BY <1>10, <1>d, <3>1 DEF LockNext
    <3> QED
      BY Zenon, <3>1, <3>2 DEF Abs!Next, Abs!Pend
  <2>2. CASE eLock'[c] # PENDING_LOCK
    <3>1. Held(c)' = Held(c)
      BY <1>10, <2>2 DEF GetPendingLock, Return, Goto, Fail, Held, Level
    <3>2. Held(c)' <= Held(c)
      BY <1>b, <3>1
    <3> QED
      BY <1>10, <1>e, <3>2 DEF LockNext
  <2> QED
    BY <2>1, <2>2
<1>11. ASSUME NEW c \in Conns, GetExclusiveLock(c) PROVE Abs!Next \/ M' = M
  <2>1. Held(c)' <= Held(c)
    BY <1>11, <1>a, <1>b DEF LocksTypeOK, LevelsInCalls, PendingHeld, Held, Level, GetExclusiveLock, Goto
  <2> QED
    BY <1>11, <1>e, <2>1 DEF LockNext
<1>12. ASSUME NEW c \in Conns, writeLock(c) PROVE Abs!Next \/ M' = M
  <2> USE <1>a DEF LocksTypeOK, LevelsInCalls, PendingHeld
  <2>1. CASE eLock'[c] = EXCLUSIVE_LOCK
    <3>1. Held(c) = PENDING_LOCK /\ Held(c)' = EXCLUSIVE_LOCK
      BY <1>12, <2>1 DEF writeLock, Return, Goto, Fail, Held, Level
    <3>2. M' = [M EXCEPT ![c] = EXCLUSIVE_LOCK]
      BY <1>12, <1>d, <3>1 DEF LockNext, Continue
    <3>3. \A d \in Conns \ {c} : Held(d) = NO_LOCK
      BY <1>12, <2>1 DEF writeLock, Granted, Fail, Conflict, LocksAgree, RangesExclusive, Holds, Calls, Held, Level
    <3> QED
      BY Zenon, <3>1, <3>2, <3>3 DEF Abs!Next, Abs!Exclude, Abs!Others
  <2>2. CASE eLock'[c] # EXCLUSIVE_LOCK
    <3>1. Held(c)' = Held(c)
      BY <1>12, <2>2 DEF writeLock, Return, Goto, Fail, Held, Level
    <3>2. Held(c)' <= Held(c)
      BY <1>b, <3>1
    <3> QED
      BY <1>12, <1>e, <3>2 DEF LockNext, Continue
  <2> QED
    BY <2>1, <2>2
<1>13. ASSUME NEW c \in Conns, readLock(c) PROVE Abs!Next \/ M' = M
  <2>1. Held(c)' <= Held(c)
    BY <1>13, <1>a, <1>b DEF LocksTypeOK, LevelsInCalls, PendingHeld, Held, Level, readLock, Return
  <2> QED
    BY <1>13, <1>e, <2>1 DEF LockNext, Continue
<1>14. ASSUME NEW c \in Conns, DowngradeLock(c) PROVE Abs!Next \/ M' = M
  <2>1. Held(c)' <= Held(c)
    BY <1>14, <1>a, <1>b DEF LocksTypeOK, LevelsInCalls, Held, Level, DowngradeLock, Goto
  <2> QED
    BY <1>14, <1>e, <2>1 DEF LockNext
<1>15. ASSUME NEW c \in Conns, Reacquire(c) PROVE Abs!Next \/ M' = M
  <2>1. pc'[c] = "unlockReserved"
    <3>1. (pc'[c] = "idle" /\ eLock'[c] = EXCLUSIVE_LOCK => os'[c]["SHARED"] = "wr") /\ os[c]["SHARED"] # "wr"
      BY Zenon, <1>15, <1>a DEF IInv, LocksAgree, Holds, Reacquire
    <3> QED
      BY <1>15, <1>a, <3>1 DEF LocksTypeOK, LevelsInCalls, Reacquire, Return, Goto
  <2>2. Held(c)' <= Held(c)
    BY <1>15, <2>1 DEF Held, Reacquire
  <2> QED
    BY <1>15, <1>e, <2>2 DEF LockNext, Continue
<1>16. ASSUME NEW c \in Conns, UnlockReserved(c) PROVE Abs!Next \/ M' = M
  <2>1. Held(c)' <= Held(c)
    BY <1>16, <1>a, <1>b DEF LocksTypeOK, LevelsInCalls, Held, Level, UnlockReserved, Return, Goto
  <2> QED
    BY <1>16, <1>e, <2>1 DEF LockNext
<1>17. ASSUME NEW c \in Conns, UnlockPending(c) PROVE Abs!Next \/ M' = M
  <2>1. Held(c)' <= Held(c)
    BY <1>17, <1>a, <1>b DEF LocksTypeOK, LevelsInCalls, Held, Level, UnlockPending, Return
  <2> QED
    BY <1>17, <1>e, <2>1 DEF LockNext, Continue
<1>18. ASSUME NEW c \in Conns, ReleaseReserved(c) PROVE Abs!Next \/ M' = M
  <2>1. Held(c)' <= Held(c)
    BY <1>18, <1>a, <1>b DEF LocksTypeOK, LevelsInCalls, Held, Level, ReleaseReserved, Goto
  <2> QED
    BY <1>18, <1>e, <2>1 DEF LockNext
<1>19. ASSUME NEW c \in Conns, ReleaseShared(c) PROVE Abs!Next \/ M' = M
  <2>1. Held(c)' <= Held(c)
    BY <1>19, <1>a, <1>b DEF LocksTypeOK, LevelsInCalls, Held, Level, ReleaseShared, Return, Goto
  <2> QED
    BY <1>19, <1>e, <2>1 DEF LockNext
<1>20. ASSUME NEW c \in Conns, ReleasePending(c) PROVE Abs!Next \/ M' = M
  <2>1. Held(c)' <= Held(c)
    BY <1>20, <1>a, <1>b DEF LocksTypeOK, LevelsInCalls, Held, Level, ReleasePending, Return
  <2> QED
    BY <1>20, <1>e, <2>1 DEF LockNext, Continue
<1>21. ASSUME NEW c \in Conns, vfsCheckReservedLock(c) PROVE Abs!Next \/ M' = M
  <2>1. Held(c)' <= Held(c)
    BY <1>21, <1>a, <1>b DEF LocksTypeOK, LevelsInCalls, Held, Level, vfsCheckReservedLock, Return, Goto
  <2> QED
    BY <1>21, <1>e, <2>1 DEF LockNext
<1>22. ASSUME NEW c \in Conns, UncheckReserved(c) PROVE Abs!Next \/ M' = M
  <2>1. Held(c)' <= Held(c)
    BY <1>22, <1>a, <1>b DEF LocksTypeOK, LevelsInCalls, Held, Level, UncheckReserved, Return
  <2> QED
    BY <1>22, <1>e, <2>1 DEF LockNext, Continue
<1>23. CASE UNCHANGED vars
  BY <1>23 DEF vars, Held, Level
<1> QED
  BY <1>1, <1>2, <1>3, <1>4, <1>5, <1>6, <1>7, <1>8, <1>9, <1>10, <1>11, <1>12,
     <1>13, <1>14, <1>15, <1>16, <1>17, <1>18, <1>19, <1>20, <1>21, <1>22, <1>23
  DEF Next, FileNext, LockNext, Continue

\* The system calls of vfs_lock.go and vfs_windows.go implement SQLite's five
\* lock levels, for any number of connections.
THEOREM Refinement == ASSUME HotJournals = FALSE, LockErrnos = {} PROVE Spec => Implements
<1>1. Init => Abs!Init
  BY DEF Init, Abs!Init, Held, Level, NO_LOCK, Abs!NO_LOCK
<1>2. IInv /\ IInv' /\ [Next]_vars => [Abs!Next]_[c \in Conns |-> Held(c)]
  BY Zenon, RefinementStep
<1> QED
  BY Invariance, <1>1, <1>2, PTL DEF Spec, Implements, Abs!Spec

-------------------------------------------------------------------------------
\* A connection that may come to hold, or holds, the SHARED range: it has
\* passed the test of PENDING in vfsLock(SHARED), or has the range locked.
Reading(c) == pc[c] \in {"uncheckPending", "GetSharedLock"} \/ os[c]["SHARED"] # "un"

\* While a connection stays at PENDING no other one starts to read.
ReadersRunOut ==
    [][\A c, d \in Conns : c # d /\ Level(c) = PENDING_LOCK /\ Level(c)' = PENDING_LOCK
           => (Reading(d)' => Reading(d))]_vars

\* No step of any connection makes another one a reader beside a PENDING lock.
LEMMA NextReading ==
    ASSUME PendingInv, [Next]_vars, NEW c \in Conns, NEW d \in Conns,
           c # d, Level(c) = PENDING_LOCK, Reading(d)'
    PROVE  Reading(d)
<1>0. /\ pc \in [Conns -> {"closed", "idle"} \cup Calls]
      /\ os \in [Conns -> [Ranges -> {"un", "rd", "wr"}]]
      /\ os[c]["PENDING"] = "wr"
      /\ pc[d] \notin {"writeLock", "readLock", "reacquire"}
  BY DEF PendingInv, WriterInv, LocksTypeOK, RangesExclusive, LevelsInCalls, PendingHeld, Level, Calls,
         Ranges, NO_LOCK, SHARED_LOCK, RESERVED_LOCK, PENDING_LOCK, EXCLUSIVE_LOCK
<1> USE <1>0 DEF Reading, Calls, Ranges, Idle, SetRange
<1>1. ASSUME NEW e \in Conns, vfsOpen(e) PROVE Reading(d)
  BY <1>1 DEF vfsOpen, Return
<1>2. ASSUME NEW e \in Conns, vfsClose(e) PROVE Reading(d)
  BY <1>2 DEF vfsClose, Unlocked
<1>3. ASSUME NEW e \in Conns, Crash(e) PROVE Reading(d)
  BY <1>3 DEF Crash, Unlocked
<1>4. ASSUME NEW e \in Conns, vfsWrite(e) PROVE Reading(d)
  BY <1>4 DEF vfsWrite, Return
<1>5. ASSUME NEW e \in Conns, NothingToDo(e) PROVE Reading(d)
  BY <1>5 DEF NothingToDo, Return
<1>6. ASSUME NEW e \in Conns, CheckPendingLock(e) PROVE Reading(d)
  BY <1>6 DEF CheckPendingLock, Granted, Conflict, Return, Goto
<1>7. ASSUME NEW e \in Conns, vfsCheckReservedLock(e) PROVE Reading(d)
  BY <1>7 DEF vfsCheckReservedLock, Granted, Return, Goto
<1>8. ASSUME NEW e \in Conns, GetReservedLock(e) PROVE Reading(d)
  BY <1>8 DEF GetReservedLock, Granted, Fail, Return
<1>9. ASSUME NEW e \in Conns, GetPendingLock(e) PROVE Reading(d)
  BY <1>9 DEF GetPendingLock, Granted, Fail, Return, Goto
<1>10. ASSUME NEW e \in Conns, GetExclusiveLock(e) PROVE Reading(d)
  BY <1>10 DEF GetExclusiveLock, unlock, Goto
<1>11. ASSUME NEW e \in Conns, DowngradeLock(e) PROVE Reading(d)
  BY <1>11 DEF DowngradeLock, unlock, Goto
<1>12. ASSUME NEW e \in Conns, UnlockReserved(e) PROVE Reading(d)
  BY <1>12 DEF UnlockReserved, unlock, Goto, Return
<1>13. ASSUME NEW e \in Conns, ReleaseReserved(e) PROVE Reading(d)
  BY <1>13 DEF ReleaseReserved, unlock, Goto
<1>14. ASSUME NEW e \in Conns, ReleaseShared(e) PROVE Reading(d)
  BY <1>14 DEF ReleaseShared, unlock, Goto, Return
<1>15. ASSUME NEW e \in Conns, UncheckPending(e) PROVE Reading(d)
  BY <1>15 DEF UncheckPending, unlock, Goto
<1>16. ASSUME NEW e \in Conns, GetSharedLock(e) PROVE Reading(d)
  BY <1>16 DEF GetSharedLock, Granted, Fail, Return
<1>17. ASSUME NEW e \in Conns, UncheckReserved(e) PROVE Reading(d)
  BY <1>17 DEF UncheckReserved, unlock, Return
<1>18. ASSUME NEW e \in Conns, writeLock(e) PROVE Reading(d)
  BY <1>18 DEF writeLock, Granted, Goto, Return
<1>19. ASSUME NEW e \in Conns, readLock(e) PROVE Reading(d)
  BY <1>19 DEF readLock, Granted, Return
<1>20. ASSUME NEW e \in Conns, Reacquire(e) PROVE Reading(d)
  BY <1>20 DEF Reacquire, Granted, Goto, Return
<1>21. ASSUME NEW e \in Conns, UnlockPending(e) PROVE Reading(d)
  BY <1>21 DEF UnlockPending, unlock, Return
<1>22. ASSUME NEW e \in Conns, ReleasePending(e) PROVE Reading(d)
  BY <1>22 DEF ReleasePending, unlock, Return
<1>23. CASE UNCHANGED vars
  BY <1>23 DEF vars
<1> HIDE <1>0 DEF Reading, Calls
<1> QED
  BY <1>1, <1>2, <1>3, <1>4, <1>5, <1>6, <1>7, <1>8, <1>9, <1>10, <1>11, <1>12,
     <1>13, <1>14, <1>15, <1>16, <1>17, <1>18, <1>19, <1>20, <1>21, <1>22, <1>23
  DEF Next, FileNext, LockNext, Continue

\* A writer that waits at PENDING is not overtaken, though it unlocks the SHARED
\* range at every attempt: no reader passes the test of PENDING, which takes a
\* lock that the writer's conflicts with, and nobody else is in a call that
\* locks the range.  With readers that end this is why the writer becomes
\* EXCLUSIVE (WriterProgress).  Here a test of PENDING that fails is BUSY, so
\* the theorem holds for any failing lock requests.
THEOREM NoNewReaders == ASSUME HotJournals = FALSE PROVE Spec => ReadersRunOut
<1>1. PendingInv /\ [Next]_vars =>
         [\A c, d \in Conns : c # d /\ Level(c) = PENDING_LOCK /\ Level(c)' = PENDING_LOCK
             => (Reading(d)' => Reading(d))]_vars
  BY NextReading
<1> QED
  BY <1>1, PendingInvariance, PTL DEF Spec, ReadersRunOut
===============================================================================
