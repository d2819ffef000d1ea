---------------------------- MODULE MCVerification ----------------------------
(* Verification on a small instance. *)
EXTENDS Verification, TLC

VerificationSymmetry == Permutations(Threads) \union Permutations(Snapshots)
=============================================================================
