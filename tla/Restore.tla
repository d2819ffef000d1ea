------------------------------- MODULE Restore -------------------------------
(***************************************************************************)
(* Restores against retention: BeginRestore, FinishRestore and             *)
(* ApplyRetention of internal/service/restore.go over the lease store (the *)
(* resources "restore:<id>"), the catalog and the journal.                 *)
(*                                                                         *)
(* BeginRestore decides on a copy of the snapshot that it reads before it  *)
(* has the lease, and FinishRestore on the lease it finds, not on the one  *)
(* its plan was issued under (a plan does not carry its epoch).  Verified  *)
(* snapshots are restored like published ones, so Publish is the only      *)
(* other thing that happens to the catalog.  A plan's caller passes the    *)
(* owner it began with to FinishRestore.                                   *)
(***************************************************************************)
EXTENDS LeaseStore, Catalog, Journal

CONSTANTS Threads,
          SharedOwners,  \* owner names that may be used for several restores
          MaxEpochs,     \* BOUND (as Plans is) on the times a snapshot's lease is taken
          MaxEntries     \* BOUND on the journal

ASSUME RestoreAssumption ==
    /\ Resources = Snapshots
    /\ SharedOwners \subseteq Owners
    /\ MaxEpochs \in Nat
    /\ MaxEntries \in Nat
    /\ Plans \subseteq Nat \ {0}

VARIABLES plans,   \* the plans BeginRestore returned, with their owner
          late,    \* history: ids of plans whose snapshot had expired when BeginRestore protected it
          call     \* goroutine -> the call it is in

restoreVars == <<now, leases, catalog, restoreRefs, entries, closed, plans, late, call>>

(* epoch is history: the lease the plan was issued under, which a plan of the
   code does not carry. *)
Plan == [id: Plans, snap: Snapshots, owner: Owners, epoch: Nat]

CompleteEntry == [kind: {"restore-complete"}, snap: Snapshots, op: Plans, gen: Nat]

Idle == [pc |-> "idle"]

Call ==
    {Idle}
    \union [pc: {"acquire"}, snap: Snapshots, owner: Owners, copy: States, since: Nat]
    \union [pc: {"failed"}, snap: Snapshots, owner: Owners]
    \union [pc: {"undo"}, snap: Snapshots, owner: Owners, epoch: Nat]
    \union [pc: {"protect"}, plan: Plan]
    \union [pc: {"complete", "release", "unprotect"}, plan: Plan, epoch: Nat]

RestoreTypeOK ==
    /\ LeaseTypeOK
    /\ CatalogTypeOK
    /\ entries \in Seq(CompleteEntry)
    /\ closed \in BOOLEAN
    /\ plans \subseteq Plan
    /\ late \subseteq Plans
    /\ call \in [Threads -> Call]

RestoreInit ==
    /\ LeaseInit
    /\ CatalogInit
    /\ JournalInit
    /\ plans = {}
    /\ late = {}
    /\ call = [t \in Threads |-> Idle]

At(t, pc) == call[t].pc = pc

Goto(t, pc) == call' = [call EXCEPT ![t].pc = pc]

Return(t) == call' = [call EXCEPT ![t] = Idle]

Begin(t, c) == At(t, "idle") /\ call' = [call EXCEPT ![t] = c]

(* Plans that BeginRestore returned or is about to return. *)
Issued == plans \union {call[t].plan : t \in {u \in Threads : At(u, "protect")}}

Acquiring == Cardinality({t \in Threads : At(t, "acquire")})

(* BeginRestore is in progress, and the owner it was called with. *)
Opening(t) == call[t].pc \in {"acquire", "failed", "undo", "protect"}

OwnerOf(t) == IF At(t, "protect") THEN call[t].plan.owner ELSE call[t].owner

(* FinishRestore is in progress. *)
Finishing(t) == call[t].pc \in {"complete", "release", "unprotect"}

(* An owner that has begun a restore. *)
Busy(o) ==
    \/ \E p \in plans : p.owner = o
    \/ \E t \in Threads : Opening(t) /\ OwnerOf(t) = o

------------------------------------------------------------------------------
(* The end of a capture.                                                    *)
Publish(s) ==
    /\ ~Exists(s)
    /\ CommitSnapshot(s, 1, TRUE, now)
    /\ UNCHANGED <<now, leases, restoreRefs, entries, closed, plans, late, call>>

------------------------------------------------------------------------------
(* BeginRestore(snapshotID, owner, ttl)                                     *)

BeginRestore(t, s, o) ==
    /\ Exists(s)
    /\ leases[s].epoch + Acquiring < MaxEpochs
    /\ Cardinality(Issued) + Acquiring < Cardinality(Plans)
    /\ o \in SharedOwners \/ ~Busy(o)
    /\ Begin(t, [pc |-> "acquire", snap |-> s, owner |-> o,
                 copy |-> catalog[s].state, since |-> now])
    /\ UNCHANGED <<now, leases, catalog, restoreRefs, entries, closed, plans, late>>

(* Acquire, at a time the clock showed since the copy was read, and Build,
   which looks at the copy only.  An id that no plan has is the plan's own. *)
Acquire(t) ==
    /\ At(t, "acquire")
    /\ LET c == call[t] IN
       \E at \in c.since..now :
          \/ /\ Held(c.snap, at)
             /\ Return(t)
             /\ UNCHANGED leases
          \/ /\ ~Held(c.snap, at)
             /\ \E ttl \in TTLs : AcquireLease(c.snap, c.owner, at, ttl)
             /\ IF c.copy = "expired"
                THEN call' = [call EXCEPT ![t] =
                        [pc |-> "failed", snap |-> c.snap, owner |-> c.owner]]
                ELSE \E id \in Plans \ {p.id : p \in Issued} :
                        /\ \A other \in Plans \ {p.id : p \in Issued} : id <= other
                        /\ call' = [call EXCEPT ![t] = [pc |-> "protect",
                              plan |-> [id |-> id, snap |-> c.snap, owner |-> c.owner,
                                       epoch |-> leases[c.snap].epoch + 1]]]
    /\ UNCHANGED <<now, catalog, restoreRefs, entries, closed, plans, late>>

(* Nobody looks again: retention may have come since the copy was read. *)
Protect(t) ==
    /\ At(t, "protect")
    /\ LET p == call[t].plan IN
       /\ AddRestoreReference(p.id, p.snap)
       /\ plans' = plans \union {p}
       /\ late' = IF catalog[p.snap].state = "expired" THEN late \union {p.id} ELSE late
    /\ Return(t)
    /\ UNCHANGED <<now, leases, catalog, entries, closed>>

(* The error path asks for the lease again and releases what it finds. *)
FailedReadLease(t) ==
    /\ At(t, "failed")
    /\ LET c == call[t] IN
       call' = [call EXCEPT ![t] = [pc |-> "undo", snap |-> c.snap, owner |-> c.owner,
                                    epoch |-> leases[c.snap].epoch]]
    /\ UNCHANGED <<now, leases, catalog, restoreRefs, entries, closed, plans, late>>

FailedRelease(t) ==
    /\ At(t, "undo")
    /\ LET c == call[t] IN ReleaseIfOwned(c.snap, c.owner, c.epoch)
    /\ Return(t)
    /\ UNCHANGED <<now, catalog, restoreRefs, entries, closed, plans, late>>

------------------------------------------------------------------------------
(* FinishRestore(plan, owner)                                               *)

FinishRestore(t, p) ==
    /\ leases[p.snap].epoch # 0
    /\ Len(entries) + Cardinality({u \in Threads : At(u, "complete")}) < MaxEntries
    /\ Begin(t, [pc |-> "complete", plan |-> p, epoch |-> leases[p.snap].epoch])
    /\ UNCHANGED <<now, leases, catalog, restoreRefs, entries, closed, plans, late>>

(* A mutant of JournalComplete: the error of Append is ignored. *)
JournalCompleteUnchecked(t) ==
    /\ At(t, "complete")
    /\ LET c == call[t] IN
       IF closed THEN UNCHANGED <<entries, closed>>
       ELSE AppendEntry([kind |-> "restore-complete", snap |-> c.plan.snap,
                         op |-> c.plan.id, gen |-> c.epoch])
    /\ Goto(t, "release")
    /\ UNCHANGED <<now, leases, catalog, restoreRefs, plans, late>>

JournalComplete(t) ==
    /\ At(t, "complete")
    /\ LET c == call[t] IN
       \/ /\ AppendEntry([kind |-> "restore-complete", snap |-> c.plan.snap,
                          op |-> c.plan.id, gen |-> c.epoch])
          /\ Goto(t, "release")
       \/ /\ closed
          /\ Return(t)
          /\ UNCHANGED <<entries, closed>>
    /\ UNCHANGED <<now, leases, catalog, restoreRefs, plans, late>>

(* A mutant of ReleaseRestore: the call ends with the lease. *)
ReleaseRestoreOnly(t) ==
    /\ At(t, "release")
    /\ LET c == call[t] IN ReleaseIfOwned(c.plan.snap, c.plan.owner, c.epoch)
    /\ Return(t)
    /\ UNCHANGED <<now, catalog, restoreRefs, entries, closed, plans, late>>

(* A fenced caller returns here: the journal says complete, the reference stays. *)
ReleaseRestore(t) ==
    /\ At(t, "release")
    /\ LET c == call[t] IN
       \/ /\ Releasable(c.plan.snap, c.plan.owner, c.epoch)
          /\ ReleaseLease(c.plan.snap)
          /\ Goto(t, "unprotect")
       \/ /\ ~Releasable(c.plan.snap, c.plan.owner, c.epoch)
          /\ Return(t)
          /\ UNCHANGED leases
    /\ UNCHANGED <<now, catalog, restoreRefs, entries, closed, plans, late>>

Unprotect(t) ==
    /\ At(t, "unprotect")
    /\ RemoveRestoreReference(call[t].plan.id, call[t].plan.snap)
    /\ Return(t)
    /\ UNCHANGED <<now, leases, catalog, entries, closed, plans, late>>

------------------------------------------------------------------------------
ApplyRetention(t, keep) ==
    /\ At(t, "idle")
    /\ ExpireUnprotected(keep)
    /\ UNCHANGED <<now, leases, restoreRefs, entries, closed, plans, late, call>>

Step(t) ==
    \/ Acquire(t) \/ Protect(t) \/ FailedReadLease(t) \/ FailedRelease(t)
    \/ JournalComplete(t) \/ ReleaseRestore(t) \/ Unprotect(t)

Environment ==
    \/ \E s \in Snapshots : Publish(s)
    \/ \E t \in Threads, s \in Snapshots, o \in Owners : BeginRestore(t, s, o)
    \/ \E t \in Threads, p \in plans : FinishRestore(t, p)
    \/ \E t \in Threads, keep \in 0..Cardinality(Snapshots) : ApplyRetention(t, keep)
    \/ /\ \/ Tick /\ UNCHANGED <<entries, closed>>
          \/ (CloseJournal \/ OpenJournal) /\ UNCHANGED <<now, leases>>
       /\ UNCHANGED <<catalog, restoreRefs, plans, late, call>>

RestoreNext == Environment \/ \E t \in Threads : Step(t)

RestoreSpec == RestoreInit /\ [][RestoreNext]_restoreVars

------------------------------------------------------------------------------
(* Properties.                                                              *)

(* A plan loses the protection of its reference only after its completion was
   journaled, however its FinishRestore races with others, with expiry, with
   take-over of the lease and with a closed journal. *)
UnprotectedIsComplete ==
    \A p \in plans :
        p.id \notin restoreRefs[p.snap] => Logged("restore-complete", p.snap, p.id)

(* Until its completion is journaled, a plan's snapshot does not expire, with
   however many plans, failed or fenced FinishRestores and calls of retention,
   unless it had expired before BeginRestore protected it: BeginRestore looks
   at a copy it reads before it has the lease, and may protect too late.      *)
UnfinishedIsNotExpired ==
    \A p \in plans :
        p.id \notin late /\ ~Logged("restore-complete", p.snap, p.id)
            => catalog[p.snap].state # "expired"

(* What it rests on: a reference that came in time keeps retention off. *)
ProtectedIsNotExpired ==
    \A p \in plans :
        p.id \notin late /\ p.id \in restoreRefs[p.snap] => catalog[p.snap].state # "expired"

(* A restore with an owner name of its own, whose completion is journaled and
   whose lease nobody has taken over, holds no reference once no call on it is
   in progress: finishing it twice, late, or from two goroutines at the same
   time leaves nothing that would protect the snapshot for ever. *)
CompleteHoldsNoReference ==
    \A p \in plans :
        /\ p.owner \notin SharedOwners
        /\ leases[p.snap].epoch = p.epoch
        /\ Logged("restore-complete", p.snap, p.id)
        /\ \A t \in Threads : Finishing(t) => call[t].plan # p
        => p.id \notin restoreRefs[p.snap]

(* Plan ids are unique, references and entries belong to issued plans, and a
   finishing call is past the points its plan has passed. *)
PlansAreKnown ==
    /\ \A p, q \in plans : p.id = q.id => p = q
    /\ \A t \in Threads : At(t, "protect") =>
          /\ \A p \in plans : p.id # call[t].plan.id
          /\ \A u \in Threads \ {t} : At(u, "protect") => call[u].plan.id # call[t].plan.id
    /\ \A s \in Snapshots : \A id \in restoreRefs[s] : \E p \in plans : p.id = id /\ p.snap = s
    /\ \A i \in DOMAIN entries : \E p \in plans : p.id = entries[i].op
    /\ \A t \in Threads :
          /\ Finishing(t) => call[t].plan \in plans
          /\ call[t].pc \in {"release", "unprotect"} =>
                Logged("restore-complete", call[t].plan.snap, call[t].plan.id)

(* An owner name of its own is used by one restore. *)
OwnersAreSole ==
    /\ \A p, q \in plans : p.owner \notin SharedOwners /\ p.owner = q.owner => p = q
    /\ \A t \in Threads : Opening(t) /\ OwnerOf(t) \notin SharedOwners =>
          /\ \A p \in plans : p.owner # OwnerOf(t)
          /\ \A u \in Threads \ {t} : Opening(u) => OwnerOf(u) # OwnerOf(t)

(* The lease p was issued under is the newest one, and it is p's. *)
Newer(p) ==
    /\ p.epoch <= leases[p.snap].epoch
    /\ p.epoch = leases[p.snap].epoch => leases[p.snap].owner = p.owner

LeasesAreThePlans ==
    /\ \A p \in plans : Newer(p)
    /\ \A t \in Threads :
          /\ At(t, "protect") => Newer(call[t].plan)
          /\ Finishing(t) => /\ call[t].plan.epoch <= call[t].epoch
                             /\ call[t].epoch <= leases[call[t].plan.snap].epoch

(* p alone decides about the lease it was issued under. *)
Sole(p) == p.owner \notin SharedOwners /\ leases[p.snap].epoch = p.epoch

(* A sole plan that was completed has a call that will release its lease, and
   one whose lease is released has a call that will drop its reference. *)
CompletionGoesOn ==
    /\ \A t \in Threads : At(t, "protect") /\ Sole(call[t].plan) =>
          ~leases[call[t].plan.snap].released
    /\ \A p \in plans : Sole(p) =>
          /\ leases[p.snap].released /\ p.id \in restoreRefs[p.snap] =>
                \E t \in Threads : At(t, "unprotect") /\ call[t].plan = p
          /\ ~leases[p.snap].released /\ Logged("restore-complete", p.snap, p.id) =>
                \E t \in Threads : At(t, "release") /\ call[t].plan = p

(* The inductive invariant. *)
RestoreInv ==
    /\ RestoreTypeOK
    /\ PlansAreKnown
    /\ OwnersAreSole
    /\ LeasesAreThePlans
    /\ CompletionGoesOn
    /\ UnprotectedIsComplete
=============================================================================
