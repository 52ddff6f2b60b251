---------------------------- MODULE VfsUnixProofs -----------------------------
(***************************************************************************)
(* Proofs about VfsUnix, for any set of connections, any number of writes  *)
(* and any spurious failure of a lock request: first when unlock calls do  *)
(* not fail, then when they do, then on the writer that waits at PENDING.  *)
(***************************************************************************)
EXTENDS VfsUnix, TLAPS

\* What the operating system guarantees: no two connections have conflicting
\* locks on a range.
RangesExclusive ==
    \A c, d \in Conns : \A r \in Ranges :
        c # d /\ os[c][r] = "wr" => os[d][r] = "un"

\* The inductive invariant.
IInv == TypeOK /\ LocksAgree /\ RangesExclusive /\ ReadStability

\* Initially all files are closed and nothing is locked.
LEMMA InitIInv == Init => IInv
<1> SUFFICES ASSUME Init PROVE IInv
  OBVIOUS
<1> USE DEF Init, NO_LOCK, SHARED_LOCK, RESERVED_LOCK, PENDING_LOCK, EXCLUSIVE_LOCK
<1>1. TypeOK
  <2>1. res \in BOOLEAN
    BY Zenon
  <2>2. version \in 0..MaxVersion /\ snap \in [Conns -> 0..MaxVersion]
    BY VersionAssumption
  <2>3. os \in [Conns -> [Ranges -> {"un", "rd", "wr"}]]
    BY DEF Unlocked
  <2> QED
    BY <2>1, <2>2, <2>3 DEF TypeOK, Codes, vfsLockState
<1>2. LocksAgree
  BY DEF LocksAgree, Holds, Unlocked, Ranges
<1>3. RangesExclusive
  BY DEF RangesExclusive, Unlocked
<1>4. ReadStability
  BY DEF ReadStability, Level
<1> QED
  BY <1>1, <1>2, <1>3, <1>4 DEF IInv

\* Every step of every connection keeps the types.
LEMMA NextTypeOK == ASSUME TypeOK, [Next]_vars PROVE TypeOK'
<1> USE DEF NO_LOCK, SHARED_LOCK, RESERVED_LOCK, PENDING_LOCK, EXCLUSIVE_LOCK,
            vfsLockState, Ranges, SetLock, SetRange
<1>1. ASSUME NEW c \in Conns, vfsOpen(c) PROVE TypeOK'
  BY <1>1 DEF TypeOK, Codes, vfsOpen, Return
<1>2. ASSUME NEW c \in Conns, vfsClose(c) PROVE TypeOK'
  BY <1>2 DEF TypeOK, Codes, vfsClose, Unlocked
<1>3. ASSUME NEW c \in Conns, Crash(c) PROVE TypeOK'
  BY <1>3 DEF TypeOK, Codes, Crash, Unlocked
<1>4. ASSUME NEW c \in Conns, vfsWrite(c) PROVE TypeOK'
  <2> USE <1>4 DEF vfsWrite, Return
  <2> QED
    BY VersionAssumption DEF TypeOK, Codes
<1>5. ASSUME NEW c \in Conns, NothingToDo(c) PROVE TypeOK'
  BY <1>5 DEF TypeOK, Codes, NothingToDo, Return
<1>6. ASSUME NEW c \in Conns, CheckPendingLock(c) PROVE TypeOK'
  BY <1>6 DEF TypeOK, Codes, CheckPendingLock, Return, Goto
<1>7. ASSUME NEW c \in Conns, GetSharedLock(c) PROVE TypeOK'
  <2> USE <1>7 DEF GetSharedLock, Granted, Refused, Return
  <2>1. os' \in [Conns -> [Ranges -> {"un", "rd", "wr"}]]
    BY DEF TypeOK
  <2>2. rc' \in Codes
    BY DEF TypeOK, Codes, Errnos, lockErrorCode
  <2>3. eLock' \in [Conns -> vfsLockState]
    BY DEF TypeOK
  <2>4. pc' \in [Conns -> {"closed", "idle", "GetSharedLock", "GetExclusiveLock", "unlock"}]
    BY DEF TypeOK
  <2>5. snap' \in [Conns -> 0 .. MaxVersion] /\ UNCHANGED <<res, version>>
    BY DEF TypeOK
  <2> HIDE <1>7 DEF GetSharedLock, Granted, Refused, Return
  <2> QED
    BY <2>1, <2>2, <2>3, <2>4, <2>5 DEF TypeOK
<1>8. ASSUME NEW c \in Conns, GetReservedLock(c) PROVE TypeOK'
  <2> USE <1>8 DEF GetReservedLock, Granted, Refused, Return
  <2>1. os' \in [Conns -> [Ranges -> {"un", "rd", "wr"}]]
    BY DEF TypeOK
  <2>2. rc' \in Codes
    BY DEF TypeOK, Codes, Errnos, lockErrorCode
  <2>3. eLock' \in [Conns -> vfsLockState]
    BY DEF TypeOK
  <2>4. pc' \in [Conns -> {"closed", "idle", "GetSharedLock", "GetExclusiveLock", "unlock"}]
    BY DEF TypeOK
  <2>5. UNCHANGED <<res, version, snap>>
    OBVIOUS
  <2> HIDE <1>8 DEF GetReservedLock, Granted, Refused, Return
  <2> QED
    BY <2>1, <2>2, <2>3, <2>4, <2>5 DEF TypeOK
<1>9. ASSUME NEW c \in Conns, GetPendingLock(c) PROVE TypeOK'
  <2>1. os' = os \/ os' = [os EXCEPT ![c]["PENDING"] = "wr"]
    BY <1>9 DEF GetPendingLock, Granted, Refused, Return, Goto
  <2>a. [os[c] EXCEPT !["PENDING"] = "wr"] \in [Ranges -> {"un", "rd", "wr"}]
    BY DEF TypeOK
  <2>2. os' \in [Conns -> [Ranges -> {"un", "rd", "wr"}]]
    <3>1. CASE os' = os
      BY <3>1 DEF TypeOK
    <3>2. CASE os' = [os EXCEPT ![c] = [os[c] EXCEPT !["PENDING"] = "wr"]]
      BY <2>a, <3>2 DEF TypeOK
    <3> QED
      BY <2>1, <3>1, <3>2
  <2>3. rc' \in Codes
    BY <1>9 DEF TypeOK, Codes, GetPendingLock, Granted, Refused, Return, Goto, Errnos, lockErrorCode
  <2>4. eLock' \in [Conns -> vfsLockState]
    BY <1>9 DEF TypeOK, GetPendingLock, Granted, Refused, Return, Goto
  <2>5. pc' \in [Conns -> {"closed", "idle", "GetSharedLock", "GetExclusiveLock", "unlock"}]
    BY <1>9 DEF TypeOK, GetPendingLock, Granted, Refused, Return, Goto
  <2>6. UNCHANGED <<res, version, snap>>
    BY <1>9 DEF GetPendingLock, Granted, Refused, Return, Goto
  <2> QED
    BY <2>2, <2>3, <2>4, <2>5, <2>6 DEF TypeOK
<1>10. ASSUME NEW c \in Conns, GetExclusiveLock(c) PROVE TypeOK'
  <2>1. os' = os \/ os' = [os EXCEPT ![c]["SHARED"] = "wr"]
    BY <1>10 DEF GetExclusiveLock, Granted, Refused, Return
  <2>a. [os[c] EXCEPT !["SHARED"] = "wr"] \in [Ranges -> {"un", "rd", "wr"}]
    BY DEF TypeOK
  <2>2. os' \in [Conns -> [Ranges -> {"un", "rd", "wr"}]]
    <3>1. CASE os' = os
      BY <3>1 DEF TypeOK
    <3>2. CASE os' = [os EXCEPT ![c] = [os[c] EXCEPT !["SHARED"] = "wr"]]
      BY <2>a, <3>2 DEF TypeOK
    <3> QED
      BY <2>1, <3>1, <3>2
  <2>3. rc' \in Codes
    BY <1>10 DEF TypeOK, Codes, GetExclusiveLock, Granted, Refused, Return, Errnos, lockErrorCode
  <2>4. eLock' \in [Conns -> vfsLockState]
    BY <1>10 DEF TypeOK, GetExclusiveLock, Granted, Refused, Return
  <2>5. pc' \in [Conns -> {"closed", "idle", "GetSharedLock", "GetExclusiveLock", "unlock"}]
    BY <1>10 DEF TypeOK, GetExclusiveLock, Granted, Refused, Return
  <2>6. UNCHANGED <<res, version, snap>>
    BY <1>10 DEF GetExclusiveLock, Granted, Refused, Return
  <2> QED
    BY <2>2, <2>3, <2>4, <2>5, <2>6 DEF TypeOK
<1>11. ASSUME NEW c \in Conns, DowngradeLock(c) PROVE TypeOK'
  <2>1. os' = os \/ os' = [os EXCEPT ![c]["SHARED"] = "rd"]
    BY <1>11 DEF DowngradeLock, Granted, Return, Goto
  <2>a. [os[c] EXCEPT !["SHARED"] = "rd"] \in [Ranges -> {"un", "rd", "wr"}]
    BY DEF TypeOK
  <2>2. os' \in [Conns -> [Ranges -> {"un", "rd", "wr"}]]
    <3>1. CASE os' = os
      BY <3>1 DEF TypeOK
    <3>2. CASE os' = [os EXCEPT ![c] = [os[c] EXCEPT !["SHARED"] = "rd"]]
      BY <2>a, <3>2 DEF TypeOK
    <3> QED
      BY <2>1, <3>1, <3>2
  <2>3. rc' \in Codes
    BY <1>11 DEF TypeOK, Codes, DowngradeLock, Granted, Return, Goto
  <2>4. eLock' \in [Conns -> vfsLockState]
    BY <1>11 DEF TypeOK, DowngradeLock, Granted, Return, Goto
  <2>5. pc' \in [Conns -> {"closed", "idle", "GetSharedLock", "GetExclusiveLock", "unlock"}]
    BY <1>11 DEF TypeOK, DowngradeLock, Granted, Return, Goto
  <2>6. UNCHANGED <<res, version, snap>>
    BY <1>11 DEF DowngradeLock, Granted, Return, Goto
  <2> QED
    BY <2>2, <2>3, <2>4, <2>5, <2>6 DEF TypeOK
<1>12. ASSUME NEW c \in Conns, unlock(c) PROVE TypeOK'
  <2> USE <1>12 DEF unlock, Return
  <2>1. os' \in [Conns -> [Ranges -> {"un", "rd", "wr"}]]
    <3>1. [os[c] EXCEPT !["PENDING"] = "un", !["RESERVED"] = "un"] \in [Ranges -> {"un", "rd", "wr"}]
      BY DEF TypeOK
    <3>2. os' = os \/ os' = [os EXCEPT ![c] = [os[c] EXCEPT !["PENDING"] = "un", !["RESERVED"] = "un"]]
      BY DEF TypeOK
    <3> HIDE <1>12 DEF unlock
    <3> QED
      BY <3>1, <3>2 DEF TypeOK
  <2>2. rc' \in Codes
    BY DEF TypeOK, Codes
  <2>3. eLock' \in [Conns -> vfsLockState]
    BY DEF TypeOK
  <2>4. pc' \in [Conns -> {"closed", "idle", "GetSharedLock", "GetExclusiveLock", "unlock"}]
    BY DEF TypeOK
  <2>5. UNCHANGED <<res, version, snap>>
    OBVIOUS
  <2> HIDE <1>12 DEF unlock, Return
  <2> QED
    BY <2>1, <2>2, <2>3, <2>4, <2>5 DEF TypeOK
<1>13. ASSUME NEW c \in Conns, ReleaseLock(c) PROVE TypeOK'
  <2> USE <1>13 DEF ReleaseLock, Return, Unlocked
  <2>1. os' \in [Conns -> [Ranges -> {"un", "rd", "wr"}]]
    BY DEF TypeOK
  <2>2. rc' \in Codes
    BY DEF TypeOK, Codes
  <2>3. eLock' \in [Conns -> vfsLockState]
    BY DEF TypeOK
  <2>4. pc' \in [Conns -> {"closed", "idle", "GetSharedLock", "GetExclusiveLock", "unlock"}]
    BY DEF TypeOK
  <2>5. UNCHANGED <<res, version, snap>>
    OBVIOUS
  <2> HIDE <1>13 DEF ReleaseLock, Return, Unlocked
  <2> QED
    BY <2>1, <2>2, <2>3, <2>4, <2>5 DEF TypeOK
<1>14. ASSUME NEW c \in Conns, vfsCheckReservedLock(c) PROVE TypeOK'
  <2> USE <1>14 DEF vfsCheckReservedLock, Return
  <2>1. res' \in BOOLEAN
    BY Zenon DEF Conflict
  <2> QED
    BY <2>1 DEF TypeOK, Codes
<1>15. CASE UNCHANGED vars
  BY <1>15 DEF vars, TypeOK
<1> QED
  BY <1>1, <1>2, <1>3, <1>4, <1>5, <1>6, <1>7, <1>8, <1>9, <1>10, <1>11, <1>12, <1>13, <1>14, <1>15 DEF Next, FileNext, LockNext

\* A step locks one range of one connection, or releases some of its ranges: the
\* locks of two connections never come to conflict.
LEMMA NextRanges == ASSUME TypeOK, RangesExclusive, [Next]_vars PROVE RangesExclusive'
<1> DEFINE Types == {"un", "rd", "wr"}
           Released(c) == \A d \in Conns, q \in Ranges :
                              os'[d][q] = os[d][q] \/ (d = c /\ os'[d][q] = "un")
<1>1. ASSUME NEW c \in Conns, FileNext(c) PROVE os' = os \/ os' = [os EXCEPT ![c] = Unlocked]
  BY <1>1 DEF FileNext, vfsOpen, vfsClose, Crash, vfsWrite, NothingToDo
<1>2. ASSUME NEW c \in Conns, LockNext(c)
      PROVE  \/ os' = os \/ os' = [os EXCEPT ![c] = Unlocked]
             \/ os' = [os EXCEPT ![c]["PENDING"] = "un", ![c]["RESERVED"] = "un"]
             \/ \E r \in Ranges, t \in {"rd", "wr"} : Granted(c, r, t)
  BY <1>2 DEF LockNext, CheckPendingLock, GetSharedLock, GetReservedLock, GetPendingLock, GetExclusiveLock,
     DowngradeLock, unlock, ReleaseLock, vfsCheckReservedLock, Refused, Ranges
<1>3. ASSUME NEW c \in Conns, Released(c) PROVE RangesExclusive'
  BY <1>3 DEF RangesExclusive
<1>4. ASSUME NEW c \in Conns, os' = [os EXCEPT ![c] = Unlocked] PROVE Released(c)
  BY <1>4 DEF TypeOK, Unlocked
<1>5. ASSUME NEW c \in Conns, os' = [os EXCEPT ![c]["PENDING"] = "un", ![c]["RESERVED"] = "un"]
      PROVE  Released(c)
  BY <1>5 DEF TypeOK, Ranges
<1>6. ASSUME NEW c \in Conns, NEW r \in Ranges, NEW t \in {"rd", "wr"}, Granted(c, r, t)
      PROVE  RangesExclusive'
  <2>1. \A d \in Conns, q \in Ranges : os'[d][q] = IF d = c /\ q = r THEN t ELSE os[d][q]
    BY <1>6 DEF Granted, SetRange, TypeOK
  <2>2. \A d \in Conns \ {c} : os[d][r] # "wr" /\ (t = "wr" => os[d][r] # "rd") /\ os[d][r] \in Types
    BY <1>6 DEF Granted, Conflict, TypeOK
  <2> QED
    BY <2>1, <2>2 DEF RangesExclusive
<1>7. CASE os' = os
  BY <1>7 DEF RangesExclusive
<1>8. ASSUME NEW c \in Conns, FileNext(c) \/ LockNext(c) PROVE RangesExclusive'
  <2>1. CASE os' = [os EXCEPT ![c] = Unlocked]
    BY Zenon, <1>3, <1>4, <2>1
  <2>2. CASE os' = [os EXCEPT ![c]["PENDING"] = "un", ![c]["RESERVED"] = "un"]
    BY Zenon, <1>3, <1>5, <2>2
  <2>3. CASE \E r \in Ranges, t \in {"rd", "wr"} : Granted(c, r, t)
    BY Zenon, <1>6, <2>3
  <2> QED
    BY Zenon, <1>1, <1>2, <1>7, <1>8, <2>1, <2>2, <2>3
<1> QED
  BY Zenon, <1>7, <1>8 DEF Next, vars

\* Every step of every connection preserves the invariant.
LEMMA NextIInv == ASSUME UnlockFails = FALSE, IInv, [Next]_vars PROVE IInv'
<1> USE DEF NO_LOCK, SHARED_LOCK, RESERVED_LOCK, PENDING_LOCK, EXCLUSIVE_LOCK,
            vfsLockState, Ranges, Idle, SetLock, SetRange
<1>0. TypeOK' /\ RangesExclusive'
  BY NextTypeOK, NextRanges DEF IInv
<1>1. ASSUME NEW c \in Conns, vfsOpen(c) PROVE IInv'
  <2> USE <1>1 DEF IInv, vfsOpen, Return
  <2>1. LocksAgree'
    BY DEF TypeOK, LocksAgree, Holds
  <2>2. ReadStability'
    BY DEF TypeOK, LocksAgree, RangesExclusive, ReadStability, Level, Holds
  <2> QED
    BY <1>0, <2>1, <2>2
<1>2. ASSUME NEW c \in Conns, vfsClose(c) PROVE IInv'
  <2> USE <1>2 DEF IInv, vfsClose, Unlocked
  <2>1. LocksAgree'
    BY DEF TypeOK, LocksAgree, Holds
  <2>2. ReadStability'
    BY DEF TypeOK, LocksAgree, RangesExclusive, ReadStability, Level, Holds
  <2> QED
    BY <1>0, <2>1, <2>2
<1>3. ASSUME NEW c \in Conns, Crash(c) PROVE IInv'
  <2> USE <1>3 DEF IInv, Crash, Unlocked
  <2>1. LocksAgree'
    BY DEF TypeOK, LocksAgree, Holds
  <2>2. ReadStability'
    BY DEF TypeOK, LocksAgree, RangesExclusive, ReadStability, Level, Holds
  <2> QED
    BY <1>0, <2>1, <2>2
<1>4. ASSUME NEW c \in Conns, vfsWrite(c) PROVE IInv'
  <2> USE <1>4 DEF IInv, vfsWrite, Return
  <2>1. LocksAgree'
    BY DEF TypeOK, LocksAgree, Holds
  <2>2. ReadStability'
    BY DEF TypeOK, LocksAgree, RangesExclusive, ReadStability, Level, Holds
  <2> QED
    BY <1>0, <2>1, <2>2
<1>5. ASSUME NEW c \in Conns, NothingToDo(c) PROVE IInv'
  <2> USE <1>5 DEF IInv, NothingToDo, Return
  <2>1. LocksAgree'
    BY DEF TypeOK, LocksAgree, Holds
  <2>2. ReadStability'
    BY DEF TypeOK, LocksAgree, RangesExclusive, ReadStability, Level, Holds
  <2> QED
    BY <1>0, <2>1, <2>2
<1>6. ASSUME NEW c \in Conns, CheckPendingLock(c) PROVE IInv'
  <2> USE <1>6 DEF IInv, CheckPendingLock, Return, Goto
  <2>1. LocksAgree'
    BY DEF TypeOK, LocksAgree, Holds
  <2>2. ReadStability'
    BY DEF TypeOK, LocksAgree, RangesExclusive, ReadStability, Level, Holds
  <2> QED
    BY <1>0, <2>1, <2>2
<1>7. ASSUME NEW c \in Conns, GetSharedLock(c) PROVE IInv'
  <2> USE <1>7 DEF IInv, GetSharedLock, Granted, Refused, Return
  <2>1. LocksAgree'
    BY DEF TypeOK, LocksAgree, Holds
  <2>2. ReadStability'
    BY DEF TypeOK, LocksAgree, RangesExclusive, ReadStability, Level, Holds
  <2> QED
    BY <1>0, <2>1, <2>2
<1>8. ASSUME NEW c \in Conns, GetReservedLock(c) PROVE IInv'
  <2> USE <1>8 DEF IInv, GetReservedLock, Granted, Refused, Return
  <2>1. LocksAgree'
    BY DEF TypeOK, LocksAgree, Holds
  <2>2. ReadStability'
    BY DEF TypeOK, LocksAgree, RangesExclusive, ReadStability, Level, Holds
  <2> QED
    BY <1>0, <2>1, <2>2
<1>9. ASSUME NEW c \in Conns, GetPendingLock(c) PROVE IInv'
  <2> USE <1>9 DEF IInv, GetPendingLock, Granted, Refused, Return, Goto
  <2>1. LocksAgree'
    BY DEF TypeOK, LocksAgree, Holds
  <2>2. ReadStability'
    BY DEF TypeOK, LocksAgree, RangesExclusive, ReadStability, Level, Holds
  <2> QED
    BY <1>0, <2>1, <2>2
<1>10. ASSUME NEW c \in Conns, GetExclusiveLock(c) PROVE IInv'
  <2> USE <1>10 DEF IInv, GetExclusiveLock, Granted, Refused, Return
  <2>1. LocksAgree'
    BY DEF TypeOK, LocksAgree, Holds
  <2>2. ReadStability'
    BY DEF TypeOK, LocksAgree, RangesExclusive, ReadStability, Level, Holds
  <2> QED
    BY <1>0, <2>1, <2>2
<1>11. ASSUME NEW c \in Conns, DowngradeLock(c) PROVE IInv'
  <2> USE <1>11 DEF IInv, DowngradeLock, Granted, Return, Goto
  <2>1. LocksAgree'
    BY DEF TypeOK, LocksAgree, Holds
  <2>2. ReadStability'
    BY DEF TypeOK, LocksAgree, RangesExclusive, ReadStability, Level, Holds
  <2> QED
    BY <1>0, <2>1, <2>2
<1>12. ASSUME NEW c \in Conns, unlock(c) PROVE IInv'
  <2> USE <1>12 DEF IInv, unlock, Return
  <2>1. LocksAgree'
    BY DEF TypeOK, LocksAgree, Holds
  <2>2. ReadStability'
    BY DEF TypeOK, LocksAgree, RangesExclusive, ReadStability, Level, Holds
  <2> QED
    BY <1>0, <2>1, <2>2
<1>13. ASSUME NEW c \in Conns, ReleaseLock(c) PROVE IInv'
  <2> USE <1>13 DEF IInv, ReleaseLock, Return, Unlocked
  <2>1. LocksAgree'
    BY DEF TypeOK, LocksAgree, Holds
  <2>2. ReadStability'
    BY DEF TypeOK, LocksAgree, RangesExclusive, ReadStability, Level, Holds
  <2> QED
    BY <1>0, <2>1, <2>2
<1>14. ASSUME NEW c \in Conns, vfsCheckReservedLock(c) PROVE IInv'
  <2> USE <1>14 DEF IInv, vfsCheckReservedLock, Return
  <2>1. LocksAgree'
    BY DEF TypeOK, LocksAgree, Holds
  <2>2. ReadStability'
    BY DEF TypeOK, LocksAgree, RangesExclusive, ReadStability, Level, Holds
  <2> QED
    BY <1>0, <2>1, <2>2
<1>15. CASE UNCHANGED vars
  BY <1>15 DEF vars, IInv, TypeOK, LocksAgree, Holds, RangesExclusive, ReadStability, Level
<1> QED
  BY <1>1, <1>2, <1>3, <1>4, <1>5, <1>6, <1>7, <1>8, <1>9, <1>10, <1>11, <1>12, <1>13, <1>14, <1>15 DEF Next, FileNext, LockNext

\* The lock calls keep the types, whatever fails.
THEOREM TypeCorrect == Spec => []TypeOK
<1>1. Init => TypeOK
  BY InitIInv DEF IInv
<1>2. TypeOK /\ [Next]_vars => TypeOK'
  BY NextTypeOK
<1> QED
  BY <1>1, <1>2, PTL DEF Spec

\* The invariant holds throughout.
LEMMA Invariance == ASSUME UnlockFails = FALSE PROVE Spec => []IInv
<1>1. IInv /\ [Next]_vars => IInv'
  BY Zenon, NextIInv
<1> QED
  BY InitIInv, <1>1, PTL DEF Spec

\* The level that a connection's go_file records and the locks that it has
\* agree at every point of every vfsLock and vfsUnlock.
THEOREM LocksCorrect == ASSUME UnlockFails = FALSE PROVE Spec => []LocksAgree
<1>1. IInv => LocksAgree
  BY DEF IInv
<1> QED
  BY Invariance, <1>1, PTL

\* Nobody writes to the file under a connection that has at least SHARED.
THEOREM ReadsStable == ASSUME UnlockFails = FALSE PROVE Spec => []ReadStability
<1>1. IInv => ReadStability
  BY DEF IInv
<1> QED
  BY Invariance, <1>1, PTL

\* A connection at EXCLUSIVE has the only lock on the file: its write lock on
\* the SHARED range conflicts with the lock that every other level includes.
THEOREM ExclusiveIsAlone == ASSUME UnlockFails = FALSE PROVE Spec => []ExclusiveAlone
<1>1. IInv => ExclusiveAlone
  BY DEF IInv, TypeOK, LocksAgree, RangesExclusive, ExclusiveAlone, Level, Idle, Holds,
         Ranges, vfsLockState, NO_LOCK, SHARED_LOCK, RESERVED_LOCK, PENDING_LOCK,
         EXCLUSIVE_LOCK
<1> QED
  BY Invariance, <1>1, PTL

\* A step of one connection changes the abstract level of that one only.
LEMMA RefinementStep ==
    ASSUME UnlockFails = FALSE, IInv, IInv', [Next]_vars
    PROVE  [Abs!Next]_[c \in Conns |-> Held(c)]
<1> DEFINE M == [c \in Conns |-> Held(c)]
<1> USE DEF NO_LOCK, SHARED_LOCK, RESERVED_LOCK, PENDING_LOCK, EXCLUSIVE_LOCK,
            vfsLockState, Ranges, Idle, SetLock, SetRange, Abs!vfsLockState, Abs!NO_LOCK,
            Abs!SHARED_LOCK, Abs!RESERVED_LOCK, Abs!PENDING_LOCK, Abs!EXCLUSIVE_LOCK
<1>a. \A c \in Conns : Held(c) \in vfsLockState
  BY DEF IInv, TypeOK, Held, Level
<1>d. \A c \in Conns : Held(c)' \in vfsLockState
  BY DEF IInv, TypeOK, Held, Level
<1>b. ASSUME NEW c \in Conns, NEW l \in vfsLockState, l < Held(c), M' = [M EXCEPT ![c] = l]
      PROVE  Abs!Next
  BY Zenon, <1>b DEF Abs!Next, Abs!Lower
<1>c. ASSUME NEW c \in Conns, Held(c)' <= Held(c),
             \A d \in Conns \ {c} : Held(d)' = Held(d)
      PROVE  Abs!Next \/ M' = M
  <2>1. M' = [M EXCEPT ![c] = Held(c)']
    BY Zenon, <1>c
  <2>2. CASE Held(c)' < Held(c)
    BY Zenon, <1>b, <1>d, <2>1, <2>2
  <2>3. CASE Held(c)' = Held(c)
    BY <1>c, <2>3
  <2> QED
    BY <1>a, <1>c, <1>d, <2>2, <2>3
<1>1. ASSUME NEW c \in Conns, vfsOpen(c) PROVE M' = M
  BY <1>1 DEF IInv, TypeOK, LocksAgree, Held, Level, vfsOpen, Return
<1>2. ASSUME NEW c \in Conns, vfsWrite(c) PROVE M' = M
  BY <1>2 DEF IInv, TypeOK, LocksAgree, Held, Level, vfsWrite, Return
<1>3. ASSUME NEW c \in Conns, NothingToDo(c) PROVE M' = M
  BY <1>3 DEF IInv, TypeOK, LocksAgree, Held, Level, NothingToDo, Return
<1>4. ASSUME NEW c \in Conns, CheckPendingLock(c) PROVE M' = M
  BY <1>4 DEF IInv, TypeOK, LocksAgree, Held, Level, CheckPendingLock, Return, Goto
<1>5. ASSUME NEW c \in Conns, vfsCheckReservedLock(c) PROVE M' = M
  BY <1>5 DEF IInv, TypeOK, LocksAgree, Held, Level, vfsCheckReservedLock, Return
<1>6. ASSUME NEW c \in Conns, vfsClose(c) PROVE Abs!Next \/ M' = M
  <2>1. Held(c)' = NO_LOCK
    BY <1>6 DEF IInv, TypeOK, Held, Level, vfsClose
  <2>2. \A d \in Conns \ {c} : Held(d)' = Held(d)
    BY <1>6 DEF IInv, TypeOK, LocksAgree, Held, Level, vfsClose, Unlocked
  <2> QED
    BY <1>a, <1>c, <1>d, <2>1, <2>2
<1>7. ASSUME NEW c \in Conns, Crash(c) PROVE Abs!Next \/ M' = M
  <2>1. Held(c)' = NO_LOCK
    BY <1>7 DEF IInv, TypeOK, Held, Level, Crash
  <2>2. \A d \in Conns \ {c} : Held(d)' = Held(d)
    BY <1>7 DEF IInv, TypeOK, LocksAgree, Held, Level, Crash, Unlocked
  <2> QED
    BY <1>a, <1>c, <1>d, <2>1, <2>2
<1>8. ASSUME NEW c \in Conns, DowngradeLock(c) PROVE Abs!Next \/ M' = M
  <2>1. Held(c) = EXCLUSIVE_LOCK
    BY <1>8 DEF IInv, TypeOK, Held, Level, DowngradeLock, Idle
  <2>2. \A d \in Conns \ {c} : Held(d)' = Held(d)
    BY <1>8 DEF IInv, TypeOK, LocksAgree, Held, Level, DowngradeLock, Granted, Return, Goto, Errnos
  <2> QED
    BY <1>a, <1>c, <1>d, <2>1, <2>2
<1>9. ASSUME NEW c \in Conns, unlock(c) PROVE Abs!Next \/ M' = M
  <2>1. Held(c)' = SHARED_LOCK /\ Held(c) >= SHARED_LOCK
    BY <1>9 DEF IInv, TypeOK, Held, Level, unlock, Return
  <2>2. \A d \in Conns \ {c} : Held(d)' = Held(d)
    BY <1>9 DEF IInv, TypeOK, LocksAgree, Held, Level, unlock, Return
  <2> QED
    BY <1>a, <1>c, <1>d, <2>1, <2>2
<1>10. ASSUME NEW c \in Conns, ReleaseLock(c) PROVE Abs!Next \/ M' = M
  <2>1. Held(c)' = NO_LOCK
    BY <1>10 DEF IInv, TypeOK, Held, Level, ReleaseLock, Return
  <2>2. \A d \in Conns \ {c} : Held(d)' = Held(d)
    BY <1>10 DEF IInv, TypeOK, LocksAgree, Held, Level, ReleaseLock, Return, Unlocked
  <2> QED
    BY <1>a, <1>c, <1>d, <2>1, <2>2
<1>11. ASSUME NEW c \in Conns, GetSharedLock(c) PROVE Abs!Next \/ M' = M
  <2>1. CASE eLock'[c] = SHARED_LOCK
    <3>1. \A d \in Conns \ {c} : Held(d)' = Held(d)
      BY <1>11 DEF IInv, TypeOK, LocksAgree, Held, Level, GetSharedLock, Granted, Refused, Return, Goto
    <3>2. Held(c) = NO_LOCK /\ Held(c)' = SHARED_LOCK
      BY <1>11, <2>1 DEF IInv, TypeOK, LocksAgree, Held, Level, GetSharedLock, Granted, Refused, Return, Goto
    <3>3. M' = [M EXCEPT ![c] = SHARED_LOCK]
      BY Zenon, <3>1, <3>2
    <3>4. \A d \in Conns \ {c} : Held(d) # EXCLUSIVE_LOCK
      BY <1>11, <2>1 DEF IInv, TypeOK, LocksAgree, Held, Level, GetSharedLock, Granted, Refused, Return, Goto, RangesExclusive, Conflict, Holds
    <3>5. Abs!Share(c)
      BY <3>2, <3>3, <3>4 DEF Abs!Share, Abs!Others
    <3> QED
      BY <3>5 DEF Abs!Next
  <2>2. CASE eLock'[c] # SHARED_LOCK
    BY <1>11, <2>2 DEF IInv, TypeOK, LocksAgree, Held, Level, GetSharedLock, Granted, Refused, Return, Goto
  <2> QED
    BY <2>1, <2>2
<1>12. ASSUME NEW c \in Conns, GetReservedLock(c) PROVE Abs!Next \/ M' = M
  <2>1. CASE eLock'[c] = RESERVED_LOCK
    <3>1. \A d \in Conns \ {c} : Held(d)' = Held(d)
      BY <1>12 DEF IInv, TypeOK, LocksAgree, Held, Level, GetReservedLock, Granted, Refused, Return, Goto
    <3>2. Held(c) = SHARED_LOCK /\ Held(c)' = RESERVED_LOCK
      BY <1>12, <2>1 DEF IInv, TypeOK, LocksAgree, Held, Level, GetReservedLock, Granted, Refused, Return, Goto
    <3>3. M' = [M EXCEPT ![c] = RESERVED_LOCK]
      BY Zenon, <3>1, <3>2
    <3>4. \A d \in Conns \ {c} : Held(d) < RESERVED_LOCK
      BY <1>12, <2>1 DEF IInv, TypeOK, LocksAgree, Held, Level, GetReservedLock, Granted, Refused, Return, Goto, RangesExclusive, Conflict, Holds
    <3>5. Abs!Reserve(c)
      BY <3>2, <3>3, <3>4 DEF Abs!Reserve, Abs!Others
    <3> QED
      BY <3>5 DEF Abs!Next
  <2>2. CASE eLock'[c] # RESERVED_LOCK
    BY <1>12, <2>2 DEF IInv, TypeOK, LocksAgree, Held, Level, GetReservedLock, Granted, Refused, Return, Goto
  <2> QED
    BY <2>1, <2>2
<1>13. ASSUME NEW c \in Conns, GetPendingLock(c) PROVE Abs!Next \/ M' = M
  <2>1. CASE eLock'[c] = PENDING_LOCK
    <3>1. \A d \in Conns \ {c} : Held(d)' = Held(d)
      BY <1>13 DEF IInv, TypeOK, LocksAgree, Held, Level, GetPendingLock, Granted, Refused, Return, Goto
    <3>2. Held(c) = RESERVED_LOCK /\ Held(c)' = PENDING_LOCK
      BY <1>13, <2>1 DEF IInv, TypeOK, LocksAgree, Held, Level, GetPendingLock, Granted, Refused, Return, Goto
    <3>3. M' = [M EXCEPT ![c] = PENDING_LOCK]
      BY Zenon, <3>1, <3>2
    <3>5. Abs!Pend(c)
      BY <3>2, <3>3 DEF Abs!Pend, Abs!Others
    <3> QED
      BY <3>5 DEF Abs!Next
  <2>2. CASE eLock'[c] # PENDING_LOCK
    BY <1>13, <2>2 DEF IInv, TypeOK, LocksAgree, Held, Level, GetPendingLock, Granted, Refused, Return, Goto
  <2> QED
    BY <2>1, <2>2
<1>14. ASSUME NEW c \in Conns, GetExclusiveLock(c) PROVE Abs!Next \/ M' = M
  <2>1. CASE eLock'[c] = EXCLUSIVE_LOCK
    <3>1. \A d \in Conns \ {c} : Held(d)' = Held(d)
      BY <1>14 DEF IInv, TypeOK, LocksAgree, Held, Level, GetExclusiveLock, Granted, Refused, Return, Goto
    <3>2. Held(c) \in {SHARED_LOCK, RESERVED_LOCK, PENDING_LOCK} /\ Held(c)' = EXCLUSIVE_LOCK
      BY <1>14, <2>1 DEF IInv, TypeOK, LocksAgree, Held, Level, GetExclusiveLock, Granted, Refused, Return, Goto
    <3>3. M' = [M EXCEPT ![c] = EXCLUSIVE_LOCK]
      BY Zenon, <3>1, <3>2
    <3>4. \A d \in Conns \ {c} : Held(d) = NO_LOCK
      BY <1>14, <2>1 DEF IInv, TypeOK, LocksAgree, Held, Level, GetExclusiveLock, Granted, Refused, Return, Goto, RangesExclusive, Conflict, Holds
    <3>5. Abs!Exclude(c)
      BY <3>2, <3>3, <3>4 DEF Abs!Exclude, Abs!Others
    <3> QED
      BY <3>5 DEF Abs!Next
  <2>2. CASE eLock'[c] # EXCLUSIVE_LOCK
    BY <1>14, <2>2 DEF IInv, TypeOK, LocksAgree, Held, Level, GetExclusiveLock, Granted, Refused, Return, Goto
  <2> QED
    BY <2>1, <2>2
<1>15. CASE UNCHANGED vars
  BY <1>15 DEF vars, Held, Level
<1> QED
  BY <1>1, <1>2, <1>3, <1>4, <1>5, <1>6, <1>7, <1>8, <1>9, <1>10, <1>11, <1>12, <1>13, <1>14, <1>15 DEF Next, FileNext, LockNext

\* The system calls of vfs_lock.go and vfs_unix.go implement SQLite's five
\* lock levels, for any number of connections.
THEOREM Refinement == ASSUME UnlockFails = FALSE PROVE Spec => Implements
<1>1. Init => Abs!Init
  BY DEF Init, Abs!Init, Held, Level, NO_LOCK, Abs!NO_LOCK
<1>2. IInv /\ IInv' /\ [Next]_vars => [Abs!Next]_[c \in Conns |-> Held(c)]
  BY Zenon, RefinementStep
<1> QED
  BY Invariance, <1>1, <1>2, PTL DEF Spec, Implements, Abs!Spec

-------------------------------------------------------------------------------
(* When unlock calls may fail. *)
\* The level at each system call inside a lock call.
LevelsInCalls ==
    \A c \in Conns :
        /\ pc[c] = "GetSharedLock" => eLock[c] = NO_LOCK
        /\ pc[c] = "GetExclusiveLock" => eLock[c] = PENDING_LOCK
        /\ pc[c] = "unlock" => eLock[c] = EXCLUSIVE_LOCK

\* The inductive invariant for failing unlock calls.
FaultInv == TypeOK /\ LevelsInCalls /\ RangesExclusive /\ LevelBacked

\* Every step preserves it, whether system calls fail or not.
LEMMA NextFaultInv == ASSUME FaultInv, [Next]_vars PROVE FaultInv'
<1> USE DEF NO_LOCK, SHARED_LOCK, RESERVED_LOCK, PENDING_LOCK, EXCLUSIVE_LOCK,
            vfsLockState, Ranges, Idle, SetLock, SetRange
<1>0. TypeOK' /\ RangesExclusive'
  BY NextTypeOK, NextRanges DEF FaultInv
<1>1. ASSUME NEW c \in Conns, vfsOpen(c) PROVE FaultInv'
  <2> USE <1>1 DEF FaultInv, vfsOpen, Return
  <2>1. LevelsInCalls'
    BY DEF TypeOK, LevelsInCalls
  <2>2. LevelBacked'
    BY DEF TypeOK, LevelsInCalls, LevelBacked, Level
  <2> QED
    BY <1>0, <2>1, <2>2
<1>2. ASSUME NEW c \in Conns, vfsClose(c) PROVE FaultInv'
  <2> USE <1>2 DEF FaultInv, vfsClose, Unlocked
  <2>1. LevelsInCalls'
    BY DEF TypeOK, LevelsInCalls
  <2>2. LevelBacked'
    BY DEF TypeOK, LevelsInCalls, LevelBacked, Level
  <2> QED
    BY <1>0, <2>1, <2>2
<1>3. ASSUME NEW c \in Conns, Crash(c) PROVE FaultInv'
  <2> USE <1>3 DEF FaultInv, Crash, Unlocked
  <2>1. LevelsInCalls'
    BY DEF TypeOK, LevelsInCalls
  <2>2. LevelBacked'
    BY DEF TypeOK, LevelsInCalls, LevelBacked, Level
  <2> QED
    BY <1>0, <2>1, <2>2
<1>4. ASSUME NEW c \in Conns, vfsWrite(c) PROVE FaultInv'
  <2> USE <1>4 DEF FaultInv, vfsWrite, Return
  <2>1. LevelsInCalls'
    BY DEF TypeOK, LevelsInCalls
  <2>2. LevelBacked'
    BY DEF TypeOK, LevelsInCalls, LevelBacked, Level
  <2> QED
    BY <1>0, <2>1, <2>2
<1>5. ASSUME NEW c \in Conns, NothingToDo(c) PROVE FaultInv'
  <2> USE <1>5 DEF FaultInv, NothingToDo, Return
  <2>1. LevelsInCalls'
    BY DEF TypeOK, LevelsInCalls
  <2>2. LevelBacked'
    BY DEF TypeOK, LevelsInCalls, LevelBacked, Level
  <2> QED
    BY <1>0, <2>1, <2>2
<1>6. ASSUME NEW c \in Conns, CheckPendingLock(c) PROVE FaultInv'
  <2> USE <1>6 DEF FaultInv, CheckPendingLock, Return, Goto
  <2>1. LevelsInCalls'
    BY DEF TypeOK, LevelsInCalls
  <2>2. LevelBacked'
    BY DEF TypeOK, LevelsInCalls, LevelBacked, Level
  <2> QED
    BY <1>0, <2>1, <2>2
<1>7. ASSUME NEW c \in Conns, GetSharedLock(c) PROVE FaultInv'
  <2> USE <1>7 DEF FaultInv, GetSharedLock, Granted, Refused, Return
  <2>1. LevelsInCalls'
    BY DEF TypeOK, LevelsInCalls
  <2>2. LevelBacked'
    BY DEF TypeOK, LevelsInCalls, LevelBacked, Level
  <2> QED
    BY <1>0, <2>1, <2>2
<1>8. ASSUME NEW c \in Conns, GetReservedLock(c) PROVE FaultInv'
  <2> USE <1>8 DEF FaultInv, GetReservedLock, Granted, Refused, Return
  <2>1. LevelsInCalls'
    BY DEF TypeOK, LevelsInCalls
  <2>2. LevelBacked'
    BY DEF TypeOK, LevelsInCalls, LevelBacked, Level
  <2> QED
    BY <1>0, <2>1, <2>2
<1>9. ASSUME NEW c \in Conns, GetPendingLock(c) PROVE FaultInv'
  <2> USE <1>9 DEF FaultInv, GetPendingLock, Granted, Refused, Return, Goto
  <2>1. LevelsInCalls'
    BY DEF TypeOK, LevelsInCalls
  <2>2. LevelBacked'
    BY DEF TypeOK, LevelsInCalls, LevelBacked, Level
  <2> QED
    BY <1>0, <2>1, <2>2
<1>10. ASSUME NEW c \in Conns, GetExclusiveLock(c) PROVE FaultInv'
  <2> USE <1>10 DEF FaultInv, GetExclusiveLock, Granted, Refused, Return
  <2>1. LevelsInCalls'
    BY DEF TypeOK, LevelsInCalls
  <2>2. LevelBacked'
    BY DEF TypeOK, LevelsInCalls, LevelBacked, Level
  <2> QED
    BY <1>0, <2>1, <2>2
<1>11. ASSUME NEW c \in Conns, DowngradeLock(c) PROVE FaultInv'
  <2> USE <1>11 DEF FaultInv, DowngradeLock, Granted, Return, Goto
  <2>1. LevelsInCalls'
    BY DEF TypeOK, LevelsInCalls
  <2>2. LevelBacked'
    BY DEF TypeOK, LevelsInCalls, LevelBacked, Level
  <2> QED
    BY <1>0, <2>1, <2>2
<1>12. ASSUME NEW c \in Conns, unlock(c) PROVE FaultInv'
  <2> USE <1>12 DEF FaultInv, unlock, Return
  <2>1. LevelsInCalls'
    BY DEF TypeOK, LevelsInCalls
  <2>2. LevelBacked'
    BY DEF TypeOK, LevelsInCalls, LevelBacked, Level
  <2> QED
    BY <1>0, <2>1, <2>2
<1>13. ASSUME NEW c \in Conns, ReleaseLock(c) PROVE FaultInv'
  <2> USE <1>13 DEF FaultInv, ReleaseLock, Return, Unlocked
  <2>1. LevelsInCalls'
    BY DEF TypeOK, LevelsInCalls
  <2>2. LevelBacked'
    BY DEF TypeOK, LevelsInCalls, LevelBacked, Level
  <2> QED
    BY <1>0, <2>1, <2>2
<1>14. ASSUME NEW c \in Conns, vfsCheckReservedLock(c) PROVE FaultInv'
  <2> USE <1>14 DEF FaultInv, vfsCheckReservedLock, Return
  <2>1. LevelsInCalls'
    BY DEF TypeOK, LevelsInCalls
  <2>2. LevelBacked'
    BY DEF TypeOK, LevelsInCalls, LevelBacked, Level
  <2> QED
    BY <1>0, <2>1, <2>2
<1>15. CASE UNCHANGED vars
  BY <1>15 DEF vars, FaultInv, TypeOK, LevelsInCalls, RangesExclusive, LevelBacked, Level
<1> QED
  BY <1>1, <1>2, <1>3, <1>4, <1>5, <1>6, <1>7, <1>8, <1>9, <1>10, <1>11, <1>12, <1>13, <1>14, <1>15
  DEF Next, FileNext, LockNext

\* It holds throughout.
LEMMA FaultInvariance == Spec => []FaultInv
<1>1. Init => FaultInv
  BY InitIInv DEF Init, IInv, FaultInv, LevelsInCalls, LevelBacked, Level, NO_LOCK, SHARED_LOCK,
     RESERVED_LOCK, PENDING_LOCK
<1>2. FaultInv /\ [Next]_vars => FaultInv'
  BY NextFaultInv
<1> QED
  BY <1>1, <1>2, PTL DEF Spec

\* Whatever unlock calls fail, vfsUnlock leaves no connection with a level whose
\* lock it has lost: a reader has its read lock, and a writer RESERVED.
THEOREM LevelsBacked == Spec => []LevelBacked
BY FaultInvariance, PTL DEF FaultInv

\* Whatever lock and unlock calls fail, vfsLock lets one connection at a time
\* prepare to write.
THEOREM OneUnixWriter == Spec => []OneWriter
<1>1. FaultInv => OneWriter
  BY DEF FaultInv, TypeOK, RangesExclusive, LevelBacked, OneWriter, Idle, Level, Ranges,
     RESERVED_LOCK, PENDING_LOCK
<1> QED
  BY <1>1, FaultInvariance, PTL

-------------------------------------------------------------------------------
\* A connection that may come to hold, or holds, the SHARED range: it has
\* passed the test of PENDING in vfsLock(SHARED), or has the range locked.
Reading(c) == pc[c] = "GetSharedLock" \/ os[c]["SHARED"] # "un"

\* While a connection stays at PENDING no other one starts to read.
ReadersRunOut ==
    [][\A c, d \in Conns : c # d /\ Level(c) = PENDING_LOCK /\ Level(c)' = PENDING_LOCK
           => (Reading(d)' => Reading(d))]_vars

\* No step of any connection makes another one a reader beside a PENDING lock.
LEMMA NextReading ==
    ASSUME UnlockFails = FALSE, LockErrnos = {}, IInv, [Next]_vars, NEW c \in Conns, NEW d \in Conns,
           c # d, Level(c) = PENDING_LOCK, Reading(d)'
    PROVE  Reading(d)
<1>0. /\ pc \in [Conns -> {"closed", "idle", "GetSharedLock", "GetExclusiveLock", "unlock"}]
      /\ os \in [Conns -> [Ranges -> {"un", "rd", "wr"}]]
      /\ os[c]["PENDING"] = "wr"
      /\ pc[d] = "GetExclusiveLock" => os[d]["SHARED"] # "un"
      /\ pc[d] = "idle" /\ eLock[d] \in {SHARED_LOCK, PENDING_LOCK, EXCLUSIVE_LOCK}
            => os[d]["SHARED"] # "un"
  BY DEF IInv, TypeOK, LocksAgree, Holds, Level, NO_LOCK, SHARED_LOCK, RESERVED_LOCK, PENDING_LOCK,
         EXCLUSIVE_LOCK
<1> USE <1>0 DEF Reading, Ranges, Idle, SetRange, NO_LOCK, SHARED_LOCK, RESERVED_LOCK, PENDING_LOCK,
                 EXCLUSIVE_LOCK
<1>1. ASSUME NEW e \in Conns, vfsOpen(e) PROVE Reading(d)
  BY <1>1 DEF vfsOpen, Return
<1>2. ASSUME NEW e \in Conns, vfsClose(e) PROVE Reading(d)
  BY <1>2 DEF vfsClose, Unlocked
<1>3. ASSUME NEW e \in Conns, Crash(e) PROVE Reading(d)
  BY <1>3 DEF Crash, Unlocked
<1>4. ASSUME NEW e \in Conns, vfsWrite(e) PROVE Reading(d)
  BY <1>4 DEF vfsWrite, Return
<1>5. ASSUME NEW e \in Conns, NothingToDo(e) PROVE Reading(d)
  BY <1>5 DEF NothingToDo, Return
<1>6. ASSUME NEW e \in Conns, CheckPendingLock(e) PROVE Reading(d)
  BY <1>6 DEF CheckPendingLock, Return, Goto, Conflict
<1>7. ASSUME NEW e \in Conns, GetSharedLock(e) PROVE Reading(d)
  BY <1>7 DEF GetSharedLock, Granted, Refused, Return
<1>8. ASSUME NEW e \in Conns, GetReservedLock(e) PROVE Reading(d)
  BY <1>8 DEF GetReservedLock, Granted, Refused, Return
<1>9. ASSUME NEW e \in Conns, GetPendingLock(e) PROVE Reading(d)
  BY <1>9 DEF GetPendingLock, Granted, Refused, Return, Goto
<1>10. ASSUME NEW e \in Conns, GetExclusiveLock(e) PROVE Reading(d)
  BY <1>10 DEF GetExclusiveLock, Granted, Refused, Return
<1>11. ASSUME NEW e \in Conns, DowngradeLock(e) PROVE Reading(d)
  BY <1>11 DEF DowngradeLock, Granted, Return, Goto
<1>12. ASSUME NEW e \in Conns, unlock(e) PROVE Reading(d)
  BY <1>12 DEF unlock, Return
<1>13. ASSUME NEW e \in Conns, ReleaseLock(e) PROVE Reading(d)
  BY <1>13 DEF ReleaseLock, Return, Unlocked
<1>14. ASSUME NEW e \in Conns, vfsCheckReservedLock(e) PROVE Reading(d)
  BY <1>14 DEF vfsCheckReservedLock, Return
<1>15. CASE UNCHANGED vars
  BY <1>15 DEF vars
<1> HIDE <1>0 DEF Reading
<1> QED
  BY <1>1, <1>2, <1>3, <1>4, <1>5, <1>6, <1>7, <1>8, <1>9, <1>10, <1>11, <1>12, <1>13, <1>14, <1>15
  DEF Next, FileNext, LockNext

\* A writer that waits at PENDING is not overtaken: the test of PENDING in
\* vfsLock(SHARED) turns new readers away, and only those that passed it before
\* are still to be waited for.  With readers that end this is why the writer
\* becomes EXCLUSIVE (WriterProgress).  Lock requests fail for a conflict only:
\* a test of PENDING that fails for another reason lets the reader in.
THEOREM NoNewReaders == ASSUME UnlockFails = FALSE, LockErrnos = {} PROVE Spec => ReadersRunOut
<1>1. IInv /\ [Next]_vars =>
         [\A c, d \in Conns : c # d /\ Level(c) = PENDING_LOCK /\ Level(c)' = PENDING_LOCK
             => (Reading(d)' => Reading(d))]_vars
  BY Zenon, NextReading
<1> QED
  BY <1>1, Invariance, PTL DEF Spec, ReadersRunOut
===============================================================================
