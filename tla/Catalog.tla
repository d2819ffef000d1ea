------------------------------- MODULE Catalog -------------------------------
(***************************************************************************)
(* The published half of internal/catalog/store.go: snapshots, their       *)
(* states and the restore references that protect them.  Store.mu makes    *)
(* every method one step.  Chunks and metadata are left to Capture; an     *)
(* Operation and its Generation are issued together and never again, so    *)
(* gen stands for both.                                                    *)
(***************************************************************************)
EXTENDS Integers, FiniteSets

CONSTANTS Snapshots, Plans

VARIABLES catalog,      \* snapshot -> its record
          restoreRefs   \* snapshot -> plans that hold a reference on it

States == {"absent", "published", "verified", "expired"}

Record == [state: States, gen: Nat, full: BOOLEAN, created: Nat]

Absent == [state |-> "absent", gen |-> 0, full |-> FALSE, created |-> 0]

CatalogTypeOK ==
    /\ catalog \in [Snapshots -> Record]
    /\ restoreRefs \in [Snapshots -> SUBSET Plans]

CatalogInit ==
    /\ catalog = [s \in Snapshots |-> Absent]
    /\ restoreRefs = [s \in Snapshots |-> {}]

Exists(s) == catalog[s].state # "absent"

(* CommitSnapshot, or its ErrConflict. *)
CommitSnapshot(s, gen, full, created) ==
    IF Exists(s) THEN UNCHANGED catalog
    ELSE catalog' = [catalog EXCEPT ![s] =
            [state |-> "published", gen |-> gen, full |-> full, created |-> created]]

(* SetState returns nil. *)
CanSetState(s, gen) == Exists(s) /\ catalog[s].gen = gen

SetState(s, state) == catalog' = [catalog EXCEPT ![s].state = state]

AddRestoreReference(p, s) ==
    restoreRefs' = [restoreRefs EXCEPT ![s] = @ \union {p}]

RemoveRestoreReference(p, s) ==
    restoreRefs' = [restoreRefs EXCEPT ![s] = @ \ {p}]

(* The keep newest snapshots, for one of the orders the sort may leave ties
   of CreatedAt in. *)
Newest(keep, kept) ==
    LET all == {s \in Snapshots : Exists(s)} IN
    /\ kept \subseteq all
    /\ Cardinality(kept) = IF Cardinality(all) < keep THEN Cardinality(all) ELSE keep
    /\ \A s \in kept, r \in all \ kept : catalog[s].created >= catalog[r].created

(* Mutant of ExpireUnprotected: references are not looked at. *)
ExpireReferenced(keep) ==
    \E kept \in SUBSET Snapshots :
        /\ Newest(keep, kept)
        /\ catalog' = [s \in Snapshots |->
              IF Exists(s) /\ s \notin kept
              THEN [catalog[s] EXCEPT !.state = "expired"] ELSE catalog[s]]

ExpireUnprotected(keep) ==
    \E kept \in SUBSET Snapshots :
        /\ Newest(keep, kept)
        /\ catalog' = [s \in Snapshots |->
              IF Exists(s) /\ s \notin kept /\ restoreRefs[s] = {}
              THEN [catalog[s] EXCEPT !.state = "expired"] ELSE catalog[s]]

(* Mutant of LastVerifiedFull: the generation bound includes the current one. *)
LastVerifiedFullOrSelf(before) ==
    LET found == {s \in Snapshots : /\ catalog[s].full
                                    /\ catalog[s].state = "verified"
                                    /\ catalog[s].gen <= before}
    IN  {s \in found : \A r \in found : catalog[r].gen <= catalog[s].gen}

(* The newest verified full snapshot before a generation: none or one. *)
LastVerifiedFull(before) ==
    LET found == {s \in Snapshots : /\ catalog[s].full
                                    /\ catalog[s].state = "verified"
                                    /\ catalog[s].gen < before}
    IN  {s \in found : \A r \in found : catalog[r].gen <= catalog[s].gen}
=============================================================================
