------------------------------ MODULE LockStates ------------------------------
(***************************************************************************)
(* The five lock levels of a database file (vfs_lock.go), in the order in  *)
(* which the code compares them.                                           *)
(***************************************************************************)
EXTENDS Naturals

NO_LOCK == 0
SHARED_LOCK == 1
RESERVED_LOCK == 2
PENDING_LOCK == 3
EXCLUSIVE_LOCK == 4

vfsLockState == NO_LOCK..EXCLUSIVE_LOCK
===============================================================================
