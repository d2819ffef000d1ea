--------------------------- MODULE ReplicaSnapshot ---------------------------
(***************************************************************************)
(* The snapshot store of package replsnap and the calls that take it       *)
(* through several locked methods: Prune lists and then deletes one by     *)
(* one, PlanRestore lists and then follows base snapshots with one Get     *)
(* each, and Capture saves, also over an id that exists and with any base. *)
(* One Prune and one PlanRestore are in progress at a time.  Contents are  *)
(* left to ReplicaManifest.                                                *)
(***************************************************************************)
EXTENDS Integers, Sequences, FiniteSets

CONSTANTS SnapIds,       \* snapshot ids, as positive numbers in the order of the strings
          SnapTimes,     \* CreatedAt values
          Replicas,      \* replicas with an inventory
          KeepCounts,    \* keepNewest values
          CopyMinimums,  \* RecoveryPolicy.MinimumCopies values
          MaxCaptures    \* BOUND: calls of Capture

ASSUME ReplicaAssumption ==
    SnapIds \subseteq Nat \ {0} /\ IsFiniteSet(SnapIds) /\ SnapTimes \subseteq Nat /\ MaxCaptures \in Nat

VARIABLES snaps,     \* id -> base and time of its SnapshotMeta; base -1: not stored
          prune,     \* the Prune in progress
          plan,      \* the PlanRestore in progress
          captures   \* calls of Capture (history)

replicaVars == <<snaps, prune, plan, captures>>

NoBase == 0

NotStored == [base |-> -1, at |-> 0]

Stored(id) == snaps[id].base # -1

Listed == {id \in SnapIds : Stored(id)}

NoPrune == [pc |-> "idle"]

NoPlan == [pc |-> "idle"]

ReplicaTypeOK ==
    /\ snaps \in [SnapIds -> {NotStored} \union [base: SnapIds \union {NoBase}, at: SnapTimes]]
    /\ prune \in {NoPrune} \union
          [pc: {"delete"}, victims: SUBSET SnapIds, needed: SUBSET SnapIds]
    /\ plan \in {NoPlan} \union
          [pc: {"walk"}, next: SnapIds \union {NoBase}, chain: Seq(SnapIds), touched: BOOLEAN,
           line: Seq(SnapIds)]
    /\ captures \in 0..MaxCaptures

ReplicaInit ==
    /\ snaps = [id \in SnapIds |-> NotStored]
    /\ prune = NoPrune
    /\ plan = NoPlan
    /\ captures = 0

(* The order of RetainedIDs and ChooseLatestAvailable. *)
Newer(a, b) == snaps[a].at > snaps[b].at \/ (snaps[a].at = snaps[b].at /\ a > b)

NewestOf(ids, n) == {a \in ids : Cardinality({b \in ids : Newer(b, a)}) < n}

Bases(ids) == {snaps[id].base : id \in {a \in ids \intersect SnapIds : Stored(a)}} \ {NoBase}

(* A mutant of RetainedIDs: only the bases of the newest snapshots are added. *)
RetainedIDsOnce(keep) == LET newest == NewestOf(Listed, keep) IN newest \union Bases(newest)

(* The newest snapshots and, until nothing changes, the bases of what is
   retained: the smallest set that has them all. *)
RetainedIDs(keep) ==
    LET closed == {ids \in SUBSET SnapIds :
                      NewestOf(Listed, keep) \subseteq ids /\ Bases(ids) \subseteq ids}
    IN  {id \in SnapIds : \A ids \in closed : id \in ids}

SeqsUpTo(n) == UNION {[1..k -> SnapIds] : k \in 0..n}

(* The base of each is the one before, the first has none. *)
IsChain(c) ==
    \A i \in DOMAIN c : Stored(c[i]) /\ snaps[c[i]].base = IF i = 1 THEN NoBase ELSE c[i - 1]

(* The chain of id by its definition.  None or one. *)
ChainsTo(id) ==
    {c \in SeqsUpTo(Cardinality(SnapIds)) : c # <<>> /\ c[Len(c)] = id /\ IsChain(c)}

(* Capture saves over what is there; touched and line are for the property of
   a PlanRestore that is under way. *)
Capture(id, base, at) ==
    /\ snaps' = [snaps EXCEPT ![id] = [base |-> base, at |-> at]]
    /\ captures < MaxCaptures
    /\ captures' = captures + 1
    /\ plan' = IF plan = NoPlan THEN plan ELSE [plan EXCEPT !.touched = TRUE, !.line = <<>>]
    /\ UNCHANGED prune

(* ApplyRetention: List and RetainedIDs.  needed, for the property, is the
   chains of the snapshots to keep. *)
Prune(keep) ==
    /\ prune = NoPrune
    /\ prune' = [pc |-> "delete", victims |-> Listed \ RetainedIDs(keep),
                 needed |-> UNION {{c[i] : i \in DOMAIN c} :
                              c \in UNION {ChainsTo(id) : id \in NewestOf(Listed, keep)}}]
    /\ UNCHANGED <<snaps, plan, captures>>

(* Delete of the next id, whatever it holds by now. *)
DeleteVictim ==
    /\ prune # NoPrune
    /\ \/ \E id \in prune.victims :
             /\ snaps' = [snaps EXCEPT ![id] = NotStored]
             /\ prune' = [prune EXCEPT !.victims = @ \ {id}]
       \/ /\ prune.victims = {}
          /\ prune' = NoPrune
          /\ UNCHANGED snaps
    /\ UNCHANGED <<plan, captures>>

(* CountAvailability: inventories that have the id, once each. *)
Copies(inventories, id) == Cardinality({r \in Replicas : id \in inventories[r]})

Eligible(copies, minimum) == copies >= IF minimum < 1 THEN 1 ELSE minimum

(* ChooseLatestAvailable over List; without a candidate the call returns.
   line, for the property, is the chain of the selected snapshot by then. *)
PlanRestore(inventories, minimum) ==
    LET candidates == {id \in Listed : Eligible(Copies(inventories, id), minimum)} IN
    /\ plan = NoPlan
    /\ \E id \in NewestOf(candidates, 1) :
          plan' = [pc |-> "walk", next |-> id, chain |-> <<>>, touched |-> FALSE,
                   line |-> IF ChainsTo(id) = {} THEN <<>> ELSE CHOOSE c \in ChainsTo(id) : TRUE]
    /\ UNCHANGED <<snaps, prune, captures>>

(* One round of ResolveChain: a repeated id and a missing one are errors. *)
FollowBase ==
    /\ plan.pc = "walk"
    /\ plan.next # NoBase
    /\ plan' = IF (\E i \in DOMAIN plan.chain : plan.chain[i] = plan.next) \/ ~Stored(plan.next)
               THEN NoPlan
               ELSE [plan EXCEPT !.chain = <<plan.next>> \o @, !.next = snaps[plan.next].base]
    /\ UNCHANGED <<snaps, prune, captures>>

(* The walk is over: the chain is what PlanRestore returns. *)
ReturnPlan ==
    /\ plan.pc = "walk"
    /\ plan.next = NoBase
    /\ plan' = NoPlan
    /\ UNCHANGED <<snaps, prune, captures>>

ReplicaNext ==
    \/ \E id \in SnapIds, base \in SnapIds \union {NoBase}, at \in SnapTimes : Capture(id, base, at)
    \/ \E keep \in KeepCounts : Prune(keep)
    \/ \E inventories \in [Replicas -> SUBSET SnapIds], minimum \in CopyMinimums :
          PlanRestore(inventories, minimum)
    \/ DeleteVictim \/ FollowBase \/ ReturnPlan

ReplicaSpec == ReplicaInit /\ [][ReplicaNext]_replicaVars

-----------------------------------------------------------------------------
(* Prune deletes nothing that one of the snapshots it keeps is restored from:
   while and after it deletes, the whole chain of each is stored, also when
   captures save over parts of it.                                           *)
PruneKeepsChains ==
    prune # NoPrune =>
        \A id \in prune.needed : Stored(id) /\ id \notin prune.victims

(* The walk visits no id twice, so it ends although bases may form a cycle;
   and whatever Prune deletes meanwhile, without captures it finds the chain
   that the snapshot had when it was selected, or nothing.                   *)
PlanIsTheChain ==
    plan # NoPlan =>
        /\ \A i, j \in DOMAIN plan.chain : plan.chain[i] = plan.chain[j] => i = j
        /\ plan.next = NoBase /\ ~plan.touched => plan.chain = plan.line

(* What the second promise rests on: until a capture comes in, a chain that is
   still stored and leads to where the walk stands completes what was walked to
   the chain of the snapshot. *)
WalkLeadsToTheLine ==
    plan # NoPlan /\ ~plan.touched =>
        \A c \in SeqsUpTo(Cardinality(SnapIds)) :
            /\ Len(c) + Len(plan.chain) <= Cardinality(SnapIds)
            /\ IsChain(c)
            /\ IF c = <<>> THEN plan.next = NoBase ELSE plan.next = c[Len(c)]
            => c \o plan.chain = plan.line

(* Types, the promises of Prune and PlanRestore, and what makes them inductive. *)
ReplicaInv == ReplicaTypeOK /\ PruneKeepsChains /\ PlanIsTheChain /\ WalkLeadsToTheLine
=============================================================================
