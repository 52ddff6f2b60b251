----------------------------- MODULE RollbackLock -----------------------------
(***************************************************************************)
(* What the file locks promise to SQLite: the lock levels described by the *)
(* comments on the constants of vfs_lock.go, every change of level being   *)
(* one atomic step.  The lock protocols of VfsUnix and VfsWindows, which   *)
(* take several system calls for a change of level, implement this.        *)
(***************************************************************************)
EXTENDS LockStates

CONSTANT Conns          \* connections that have the same database file open

VARIABLE mode           \* the lock level each of them holds

Init == mode = [c \in Conns |-> NO_LOCK]

Others(c) == Conns \ {c}

Share(c) ==
    /\ mode[c] = NO_LOCK
    /\ \A d \in Others(c) : mode[d] # EXCLUSIVE_LOCK
    /\ mode' = [mode EXCEPT ![c] = SHARED_LOCK]

Reserve(c) ==
    /\ mode[c] = SHARED_LOCK
    /\ \A d \in Others(c) : mode[d] < RESERVED_LOCK
    /\ mode' = [mode EXCEPT ![c] = RESERVED_LOCK]

Pend(c) ==
    /\ mode[c] = RESERVED_LOCK
    /\ mode' = [mode EXCEPT ![c] = PENDING_LOCK]

Exclude(c) ==
    /\ mode[c] \in {SHARED_LOCK, RESERVED_LOCK, PENDING_LOCK}
    /\ \A d \in Others(c) : mode[d] = NO_LOCK
    /\ mode' = [mode EXCEPT ![c] = EXCLUSIVE_LOCK]

Lower(c) ==
    \E l \in vfsLockState : /\ l < mode[c]
                            /\ mode' = [mode EXCEPT ![c] = l]

Next == \E c \in Conns :
            Share(c) \/ Reserve(c) \/ Pend(c) \/ Exclude(c) \/ Lower(c)

Spec == Init /\ [][Next]_mode
===============================================================================
