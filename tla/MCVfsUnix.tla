------------------------------ MODULE MCVfsUnix -------------------------------
(***************************************************************************)
(* Model checking of VfsUnix: any two of the connections are               *)
(* interchangeable.                                                        *)
(***************************************************************************)
EXTENDS VfsUnix, TLC

Symmetry == Permutations(Conns)
===============================================================================
