------------------------------- MODULE Window -------------------------------
(***************************************************************************)
(* pruneLocked of internal/replication/window.go, which is the same code   *)
(* in internal/orchestrator/window.go and internal/telemetry/window.go.    *)
(* Outcomes are kept in the order they were added, which need not be the   *)
(* order of their times, and a prune drops the prefix that is older than   *)
(* the window: an old outcome behind a recent one stays.                   *)
(***************************************************************************)
EXTENDS Integers, Sequences

Pruned(seq, time, length) ==
    LET recent == {i \in DOMAIN seq : seq[i].at >= time - length}
    IN  IF recent = {} THEN <<>>
        ELSE LET first == CHOOSE i \in recent : \A j \in recent : i <= j
             IN  SubSeq(seq, first, Len(seq))
=============================================================================
