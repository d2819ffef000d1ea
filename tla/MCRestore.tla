------------------------------ MODULE MCRestore ------------------------------
(* Restore on a small instance. *)
EXTENDS Restore, TLC

RestoreSymmetry == Permutations(Threads)
=============================================================================
