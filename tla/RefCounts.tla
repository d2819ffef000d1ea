------------------------------ MODULE RefCounts ------------------------------
(***************************************************************************)
(* The chunk references of internal/gc/store.go: a slice of counts, an     *)
(* index from digests to positions in the slice and the list of the live   *)
(* digests, which must agree while entries are appended, counted down and  *)
(* cut out of the middle.  Store.mu makes AddRef and ReleaseRef one step.  *)
(* Positions count from 1 here and from 0 in the code.                     *)
(***************************************************************************)
EXTENDS Integers, SequencesExt

CONSTANTS Digests,
          Counts,     \* counts passed to AddRef and ReleaseRef
          MaxCount    \* BOUND on the count of a digest

ASSUME RefCountsAssumption == Counts \subseteq Int /\ MaxCount \in Nat

VARIABLES refs,       \* Store.refs
          index,      \* Store.index: digest -> position, 0 if it has none
          live,       \* Store.digests
          balance     \* history: digest -> references added and not yet released

refVars == <<refs, index, live, balance>>

RefEntry == [digest: Digests, count: Nat \ {0}]

RefCountsTypeOK ==
    /\ refs \in Seq(RefEntry)
    /\ index \in [Digests -> Nat]
    /\ live \in Seq(Digests)
    /\ balance \in [Digests -> Nat]

RefCountsInit ==
    /\ refs = <<>>
    /\ index = [d \in Digests |-> 0]
    /\ live = <<>>
    /\ balance = [d \in Digests |-> 0]

(* rebuildDigestsLocked goes through the entries and appends. *)
LiveDigests(entries) ==
    LET UpTo[i \in 0..Len(entries)] ==
            IF i = 0 THEN <<>>
            ELSE IF entries[i].count > 0 THEN Append(UpTo[i - 1], entries[i].digest)
            ELSE UpTo[i - 1]
    IN  UpTo[Len(entries)]

AddRef(d, n) ==
    /\ n >= 1
    /\ balance[d] + n <= MaxCount
    /\ IF index[d] # 0
       THEN /\ refs' = [refs EXCEPT ![index[d]].count = @ + n]
            /\ UNCHANGED index
       ELSE /\ refs' = Append(refs, [digest |-> d, count |-> n])
            /\ index' = [index EXCEPT ![d] = Len(refs) + 1]
    /\ live' = LiveDigests(refs')
    /\ balance' = [balance EXCEPT ![d] = @ + n]

(* A mutant of Reindexed: the entries behind the cut keep their positions. *)
ReindexedNot(d, entries) == [index EXCEPT ![d] = 0]

(* The index once the entry of d has been cut out of the slice. *)
Reindexed(d, entries) ==
    [e \in Digests |->
        IF e = d THEN 0
        ELSE IF \E i \in index[d]..Len(entries) : entries[i].digest = e
        THEN CHOOSE i \in index[d]..Len(entries) : entries[i].digest = e
        ELSE index[e]]

(* A digest without references is not an action: it changes nothing. *)
ReleaseRef(d, n) ==
    /\ n >= 1
    /\ index[d] # 0
    /\ IF refs[index[d]].count - n <= 0
       THEN /\ refs' = RemoveAt(refs, index[d])
            /\ index' = Reindexed(d, refs')
       ELSE /\ refs' = [refs EXCEPT ![index[d]].count = @ - n]
            /\ UNCHANGED index
    /\ live' = LiveDigests(refs')
    /\ balance' = [balance EXCEPT ![d] = IF @ > n THEN @ - n ELSE 0]

RefCountsNext == \E d \in Digests, n \in Counts : AddRef(d, n) \/ ReleaseRef(d, n)

RefCountsSpec == RefCountsInit /\ [][RefCountsNext]_refVars

------------------------------------------------------------------------------
(* Properties.                                                              *)

Refcount(d) == IF index[d] # 0 THEN refs[index[d]].count ELSE 0

(* Over every sequence of calls Refcount answers the references added and not
   released, also for the digests whose entries moved when another was cut. *)
RefcountIsBalance ==
    \A d \in Digests : index[d] \in 0..Len(refs) /\ Refcount(d) = balance[d]

(* Compact and the cached list name each digest that is still referenced once,
   and no other: a chunk is never taken for garbage, nor kept for ever. *)
LiveIsReferenced ==
    /\ \A d \in Digests : Cardinality({i \in DOMAIN live : live[i] = d}) = IF balance[d] > 0 THEN 1 ELSE 0
    /\ live = LiveDigests(refs)

(* The inductive invariant: the index and the slice are inverse. *)
RefCountsInv ==
    /\ RefCountsTypeOK
    /\ \A i \in DOMAIN refs : index[refs[i].digest] = i
    /\ \A d \in Digests : index[d] # 0 => refs[index[d]].digest = d
    /\ RefcountIsBalance
    /\ LiveIsReferenced
=============================================================================
