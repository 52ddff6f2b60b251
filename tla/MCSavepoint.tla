----------------------------- MODULE MCSavepoint ------------------------------
(***************************************************************************)
(* Model checking of Savepoint: any two functions are interchangeable.     *)
(* The properties are about the steps up to the first release function     *)
(* that panics by itself, so what the program does after it is not         *)
(* explored.                                                               *)
(***************************************************************************)
EXTENDS Savepoint, TLC

Symmetry == Permutations(Functions)

UntilPanic == ~panicked
===============================================================================
