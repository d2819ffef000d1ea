------------------------------ MODULE Collection ------------------------------
(***************************************************************************)
(* Chain garbage collection: GcCollect of internal/service/service_new.go  *)
(* over the pins of internal/gc/store.go, the mirror records, the journal  *)
(* and the restore references of the catalog.                              *)
(*                                                                         *)
(* Service.gcMu lets one GcCollect run at a time; gc is that call.  It     *)
(* pins what is mirrored, lists ids, reads their snapshots and then scans  *)
(* them under the lock of the gc store, so that pins stand still during    *)
(* the scan while restore references do not.  Captures, mirror updates,    *)
(* restores and callers of GcPin and GcUnpin run in between.  The ids come *)
(* out of a Go map, so they are taken in any order.                        *)
(***************************************************************************)
EXTENDS Integers

CONSTANTS Snapshots,
          Times        \* values of CreatedAt

ASSUME CollectionAssumption == Times \subseteq Nat

VARIABLES journaled,   \* snapshots the journal has an entry of
          created,     \* snapshot -> CreatedAt in the catalog, -1 if it is not there
          mirrored,    \* snapshots with a mirror record
          referenced,  \* snapshots with a restore reference
          pins,        \* gc.Store.pins
          gc           \* the GcCollect in progress

collVars == <<journaled, created, mirrored, referenced, pins, gc>>

(* todo are the ids still to be worked on in this phase, found the snapshots
   read.  keepPinned and keepReferenced are history: what was pinned or mirrored
   when the call began and not unpinned since, and what was referenced all along. *)
Collector ==
    [pc: {"idle", "pin", "mirrors", "journal", "load", "scan"}, upto: Times,
     todo: SUBSET Snapshots, found: SUBSET Snapshots, result: SUBSET Snapshots,
     keepPinned: SUBSET Snapshots, keepReferenced: SUBSET Snapshots]

CollectionTypeOK ==
    /\ journaled \subseteq Snapshots
    /\ created \in [Snapshots -> Times \union {-1}]
    /\ mirrored \subseteq Snapshots
    /\ referenced \subseteq Snapshots
    /\ pins \subseteq Snapshots
    /\ gc \in Collector

CollectionInit ==
    /\ journaled = {}
    /\ created = [s \in Snapshots |-> -1]
    /\ mirrored = {}
    /\ referenced = {}
    /\ pins = {}
    /\ \E upto \in Times :
          gc = [pc |-> "idle", upto |-> upto, todo |-> {}, found |-> {}, result |-> {},
                keepPinned |-> {}, keepReferenced |-> {}]

At(pc) == gc.pc = pc

------------------------------------------------------------------------------
(* The other components.                                                    *)

(* A capture journals, and then commits. *)
JournalPublish(s) ==
    /\ s \notin journaled
    /\ journaled' = journaled \union {s}
    /\ UNCHANGED <<created, mirrored, referenced, pins, gc>>

CommitSnapshot(s, time) ==
    /\ s \in journaled /\ created[s] = -1
    /\ created' = [created EXCEPT ![s] = time]
    /\ UNCHANGED <<journaled, mirrored, referenced, pins, gc>>

(* Mirror updates come for any id, also one that is not in the catalog. *)
ApplyMirrorUpdate(s) ==
    /\ mirrored' = mirrored \union {s}
    /\ UNCHANGED <<journaled, created, referenced, pins, gc>>

BeginRestore(s) ==
    /\ created[s] # -1
    /\ referenced' = referenced \union {s}
    /\ UNCHANGED <<journaled, created, mirrored, pins, gc>>

(* The last restore of s finishes. *)
FinishRestore(s) ==
    /\ s \in referenced
    /\ referenced' = referenced \ {s}
    /\ gc' = [gc EXCEPT !.keepReferenced = @ \ {s}]
    /\ UNCHANGED <<journaled, created, mirrored, pins>>

------------------------------------------------------------------------------
(* GcPin and GcUnpin wait for the scan.                                     *)

GcPin(s) ==
    /\ ~At("scan")
    /\ pins' = pins \union {s}
    /\ UNCHANGED <<journaled, created, mirrored, referenced, gc>>

GcUnpin(s) ==
    /\ ~At("scan")
    /\ pins' = pins \ {s}
    /\ gc' = [gc EXCEPT !.keepPinned = @ \ {s}]
    /\ UNCHANGED <<journaled, created, mirrored, referenced>>

------------------------------------------------------------------------------
(* GcCollect(now, keepWindow); upto is now - keepWindow.                    *)

GcCollect(upto) ==
    /\ At("idle")
    /\ gc' = [pc |-> "pin", upto |-> upto, todo |-> mirrored, found |-> {}, result |-> {},
              keepPinned |-> pins \union mirrored, keepReferenced |-> referenced]
    /\ UNCHANGED <<journaled, created, mirrored, referenced, pins>>

(* An Unpin that overtakes the loop's own Pin of the same id is lost. *)
PinMirror ==
    /\ At("pin")
    /\ \/ \E s \in gc.todo :
             /\ pins' = pins \union {s}
             /\ gc' = [gc EXCEPT !.todo = @ \ {s}]
       \/ /\ gc.todo = {}
          /\ gc' = [gc EXCEPT !.pc = "mirrors"]
          /\ UNCHANGED pins
    /\ UNCHANGED <<journaled, created, mirrored, referenced>>

(* gcSnapshotIDs: mirror records, then journal entries, read in turn. *)
ListMirrors ==
    /\ At("mirrors")
    /\ gc' = [gc EXCEPT !.pc = "journal", !.todo = mirrored]
    /\ UNCHANGED <<journaled, created, mirrored, referenced, pins>>

ListJournal ==
    /\ At("journal")
    /\ gc' = [gc EXCEPT !.pc = "load", !.todo = @ \union journaled]
    /\ UNCHANGED <<journaled, created, mirrored, referenced, pins>>

LoadSnapshot ==
    /\ At("load")
    /\ \/ \E s \in gc.todo :
             gc' = [gc EXCEPT !.todo = @ \ {s},
                              !.found = IF created[s] # -1 THEN @ \union {s} ELSE @]
       \/ /\ gc.todo = {}
          /\ gc' = [gc EXCEPT !.pc = "scan", !.todo = gc.found]
    /\ UNCHANGED <<journaled, created, mirrored, referenced, pins>>

(* A mutant of Expired: restore references are not looked at. *)
ExpiredReferenced(s) == created[s] <= gc.upto /\ s \notin pins

(* Collect takes s into its result. *)
Expired(s) == created[s] <= gc.upto /\ s \notin pins \union referenced

Scan ==
    /\ At("scan")
    /\ \/ \E s \in gc.todo :
             gc' = [gc EXCEPT !.todo = @ \ {s},
                              !.result = IF Expired(s) THEN @ \union {s} ELSE @]
       \/ /\ gc.todo = {}
          /\ gc' = [gc EXCEPT !.pc = "idle"]
    /\ UNCHANGED <<journaled, created, mirrored, referenced, pins>>

------------------------------------------------------------------------------
CollectionNext ==
    \/ \E s \in Snapshots :
          \/ JournalPublish(s) \/ ApplyMirrorUpdate(s)
          \/ BeginRestore(s) \/ FinishRestore(s) \/ GcPin(s) \/ GcUnpin(s)
          \/ \E time \in Times : CommitSnapshot(s, time)
    \/ \E upto \in Times : GcCollect(upto)
    \/ PinMirror \/ ListMirrors \/ ListJournal \/ LoadSnapshot \/ Scan

CollectionSpec == CollectionInit /\ [][CollectionNext]_collVars

------------------------------------------------------------------------------
(* Properties.                                                              *)

(* A snapshot that was mirrored or pinned when GcCollect began, and was not
   unpinned before it returns, is not collected; neither is one that a restore
   referenced from beginning to end.  What is mirrored, or begins to be
   restored, only during the call may be. *)
ProtectedIsKept == gc.result \intersect (gc.keepPinned \union gc.keepReferenced) = {}

(* What is collected was published, journaled first, and is as old as asked. *)
CollectedIsOld ==
    \A s \in gc.result : s \in journaled /\ created[s] \in 0..gc.upto

(* The inductive invariant: when the scan begins every snapshot that must be
   kept is pinned, and the loop before it has the others still to pin. *)
CollectionInv ==
    /\ CollectionTypeOK
    /\ \A s \in Snapshots : created[s] # -1 => s \in journaled
    /\ gc.keepReferenced \subseteq referenced
    /\ ~At("idle") => gc.keepPinned \subseteq pins \union (IF At("pin") THEN gc.todo ELSE {})
    /\ \A s \in gc.found : created[s] # -1
    /\ At("scan") => gc.todo \subseteq gc.found
    /\ gc.result \subseteq gc.found
    /\ ProtectedIsKept
    /\ CollectedIsOld
=============================================================================
