---------------------------- MODULE MCReplication ----------------------------
(* Replication on small instances: a snapshot of one byte and one of two. *)
EXTENDS Replication, TLC

CONSTANTS small, large

SizeOf == [s \in Snapshots |-> IF s = large THEN 2 ELSE 1]

ReplicationSymmetry == Permutations(Threads)
=============================================================================
