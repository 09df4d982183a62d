------------------------------ MODULE MCSpaces ------------------------------
(***************************************************************************)
(* Spaces for TLC: which executor object is which makes no difference.     *)
(***************************************************************************)
EXTENDS Spaces, TLC

ExecutorSymmetry == Permutations(Executors)
=============================================================================
