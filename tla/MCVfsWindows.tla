---------------------------- MODULE MCVfsWindows -----------------------------
(***************************************************************************)
(* Model checking of VfsWindows: any two of the connections are            *)
(* interchangeable.                                                        *)
(***************************************************************************)
EXTENDS VfsWindows, TLC

Symmetry == Permutations(Conns)
===============================================================================
