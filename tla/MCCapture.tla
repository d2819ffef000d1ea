------------------------------ MODULE MCCapture ------------------------------
(* Capture on small instances; the cfg files give the constants. *)
EXTENDS Capture, TLC

(* Goroutines and chunk contents are interchangeable (no liveness run uses it). *)
CaptureSymmetry == Permutations(Threads) \union Permutations(Digests)
=============================================================================
