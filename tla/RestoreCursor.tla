----------------------------- MODULE RestoreCursor -----------------------------
(***************************************************************************)
(* internal/restore/cursor.go: how far a restore has received its chunks   *)
(* without a gap.  AdvanceContiguous runs under CursorStore.mu, so         *)
(* AdvanceRestore is one step; the indexes it is given come in any order,  *)
(* repeated, again, or never.                                              *)
(***************************************************************************)
EXTENDS Integers, SequencesExt

CONSTANTS Plans,
          Indexes,    \* chunk indexes
          MaxBatch    \* BOUND on the indexes passed in one call

ASSUME CursorAssumption == Indexes \subseteq Int /\ MaxBatch \in Nat

VARIABLES cursors,    \* plan -> its cursor, 0 until it is first advanced
          received    \* history: plan -> indexes passed for it so far

cursorVars == <<cursors, received>>

CursorTypeOK ==
    /\ cursors \in [Plans -> Nat]
    /\ received \in [Plans -> SUBSET Indexes]

CursorInit ==
    /\ cursors = [p \in Plans |-> 0]
    /\ received = [p \in Plans |-> {}]

(* A mutant of WalkStep: a gap is jumped over. *)
WalkStepJump(walk, value) ==
    IF value <= walk.cursor THEN walk ELSE [walk EXCEPT !.cursor = value]

(* One turn of the loop: continue, break or advance. *)
WalkStep(walk, value) ==
    IF walk.broken \/ value <= walk.cursor THEN walk
    ELSE IF value # walk.cursor + 1 THEN [walk EXCEPT !.broken = TRUE]
    ELSE [walk EXCEPT !.cursor = value]

(* A mutant of Sorted: the caller's order is kept. *)
SortedNot(values) == values

(* order lists every place of values, none before one with a smaller value. *)
Ascends(order, values) ==
    /\ \A i, j \in DOMAIN values : i < j => values[order[i]] <= values[order[j]]
    /\ \A i \in DOMAIN values : \E j \in DOMAIN values : order[j] = i

(* sort.Ints. *)
Sorted(values) ==
    LET order == CHOOSE p \in [DOMAIN values -> DOMAIN values] : Ascends(p, values)
    IN  [i \in DOMAIN values |-> values[order[i]]]

AdvanceContiguous(cursor, values) ==
    LET sorted == Sorted(values)
        Walk[i \in 0..Len(values)] ==
            IF i = 0 THEN [cursor |-> cursor, broken |-> FALSE]
            ELSE WalkStep(Walk[i - 1], sorted[i])
    IN  Walk[Len(values)].cursor

AdvanceRestore(p, values) ==
    /\ cursors' = [cursors EXCEPT ![p] = AdvanceContiguous(@, values)]
    /\ received' = [received EXCEPT ![p] = @ \union ToSet(values)]

CursorNext ==
    \E p \in Plans, values \in BoundedSeq(Indexes, MaxBatch) : AdvanceRestore(p, values)

CursorSpec == CursorInit /\ [][CursorNext]_cursorVars

------------------------------------------------------------------------------
(* Properties.                                                              *)

(* Of the chunks numbered from 1 on, the cursor never passes one that did not
   arrive, whatever arrived beyond it, in whatever order and in however many
   calls.  Chunk 0, and any before it, it passes unasked: see NoChunkPassed. *)
GapPreserving ==
    /\ CursorTypeOK
    /\ \A p \in Plans : 1..cursors[p] \subseteq received[p]

(* "Gap-preserving", for plans whose chunks are Indexes: a cursor that has moved
   has no chunk missing before it.  It starts at 0 and takes what is not beyond
   it for received, so it does not hold where chunks are numbered from 0.     *)
NoChunkPassed ==
    \A p \in Plans : cursors[p] # 0 =>
        {i \in Indexes : i <= cursors[p]} \subseteq received[p]

(* What one call must make of the indexes it is given: the end of the run of
   consecutive indexes that follows the cursor. *)
ContiguousEnd(cursor, values) ==
    Max({cursor} \union {k \in ToSet(values) : (cursor + 1)..k \subseteq ToSet(values)})

(* The sorted walk with its break computes the contiguous end of every batch,
   duplicates and old indexes included. *)
WalkIsContiguousEnd ==
    \A cursor \in {cursors[p] : p \in Plans} : \A values \in BoundedSeq(Indexes, MaxBatch) :
        AdvanceContiguous(cursor, values) = ContiguousEnd(cursor, values)
=============================================================================
