----------------------------- MODULE MCFileTable ------------------------------
(***************************************************************************)
(* FileTable for TLC.  The go_files are interchangeable.  No action reads  *)
(* ret, so that states that differ only in ret have the same successors:   *)
(* View identifies them, and TLC still checks Implements on every step,    *)
(* with the ret of that step.                                              *)
(***************************************************************************)
EXTENDS FileTable, TLC

Symmetry == Permutations(PFiles)

View == <<vfsOpenFiles, ID, file, state, dir, data, peak>>
===============================================================================
