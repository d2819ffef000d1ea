---------------------------- MODULE RestoreProofs ----------------------------
(***************************************************************************)
(* Proofs about Restore for any set of goroutines, snapshots, owners, ids  *)
(* and durations.                                                          *)
(***************************************************************************)
EXTENDS Restore, TLAPS

(* The fields of a call, by the point it has reached. *)
LEMMA CallFields ==
    ASSUME RestoreTypeOK, NEW t \in Threads
    PROVE  /\ call[t] \in Call
           /\ At(t, "acquire") => /\ call[t].snap \in Snapshots
                                  /\ call[t].owner \in Owners
                                  /\ call[t].copy \in States
                                  /\ call[t].since \in Nat
           /\ At(t, "failed") => call[t].snap \in Snapshots /\ call[t].owner \in Owners
           /\ At(t, "undo") => /\ call[t].snap \in Snapshots
                               /\ call[t].owner \in Owners
                               /\ call[t].epoch \in Nat
           /\ At(t, "protect") => call[t].plan \in Plan
           /\ Finishing(t) => call[t].plan \in Plan /\ call[t].epoch \in Nat
  <1>1. call[t] \in Call
    BY DEF RestoreTypeOK
  <1> QED BY <1>1 DEF Call, At, Finishing, Idle

(* A call of the journaled half goes on with the plan and the epoch it has. *)
LEMMA GoesOn ==
    ASSUME RestoreTypeOK, NEW t \in Threads, Finishing(t),
           NEW pc \in {"release", "unprotect"}, Goto(t, pc)
    PROVE  /\ call' \in [Threads -> Call]
           /\ call'[t].pc = pc
           /\ call'[t].plan = call[t].plan
           /\ call'[t].epoch = call[t].epoch
           /\ \A u \in Threads \ {t} : call'[u] = call[u]
  <1>1. call \in [Threads -> Call]
    BY DEF RestoreTypeOK
  <1>2. call[t] \in [pc: {"complete", "release", "unprotect"}, plan: Plan, epoch: Nat]
    BY <1>1 DEF Call, Finishing, Idle
  <1>3. [call[t] EXCEPT !.pc = pc] = [pc |-> pc, plan |-> call[t].plan, epoch |-> call[t].epoch]
    BY <1>2
  <1>4. call' = [call EXCEPT ![t] = [pc |-> pc, plan |-> call[t].plan, epoch |-> call[t].epoch]]
    BY <1>1, <1>3 DEF Goto
  <1>5. [pc |-> pc, plan |-> call[t].plan, epoch |-> call[t].epoch] \in Call
    BY <1>2 DEF Call
  <1> QED BY <1>1, <1>4, <1>5

(* What a call is replaced by when it is set. *)
LEMMA IsSet ==
    ASSUME RestoreTypeOK, NEW t \in Threads, NEW c \in Call,
           call' = [call EXCEPT ![t] = c]
    PROVE  /\ call' \in [Threads -> Call]
           /\ call'[t] = c
           /\ \A u \in Threads \ {t} : call'[u] = call[u]
  BY DEF RestoreTypeOK

(* The types of the leases are kept by the operations on them. *)
LEMMA LeaseSteps ==
    ASSUME LeaseTypeOK, NEW r \in Resources, NEW o \in Owners
    PROVE  /\ \A at \in Nat, ttl \in TTLs : AcquireLease(r, o, at, ttl) =>
                 leases' \in [Resources -> Lease]
           /\ ReleaseLease(r) => leases' \in [Resources -> Lease]
           /\ \A e : ReleaseIfOwned(r, o, e) => leases' \in [Resources -> Lease]
  <1>1. ASSUME NEW at \in Nat, NEW ttl \in TTLs, AcquireLease(r, o, at, ttl)
        PROVE  leases' \in [Resources -> Lease]
    <2>1. ttl \in Nat
      BY LeaseAssumption
    <2> QED BY <1>1, <2>1 DEF LeaseTypeOK, AcquireLease, Lease
  <1>2. ReleaseLease(r) => leases' \in [Resources -> Lease]
    BY DEF LeaseTypeOK, ReleaseLease, Lease
  <1> QED BY <1>1, <1>2 DEF ReleaseIfOwned, LeaseTypeOK

------------------------------------------------------------------------------
(* What each step of a goroutine does, with the conversions between records
   and functions done once. *)

(* The goroutine takes the lease: the epoch goes up and the owner is its own. *)
Takes(t) ==
    /\ leases' \in [Resources -> Lease]
    /\ leases'[call[t].snap].epoch = leases[call[t].snap].epoch + 1
    /\ leases'[call[t].snap].owner = call[t].owner
    /\ ~leases'[call[t].snap].released
    /\ \A s \in Snapshots \ {call[t].snap} : leases'[s] = leases[s]

(* The plan Build returns to it. *)
Builds(t, id) ==
    /\ id \in Plans
    /\ id \notin {p.id : p \in Issued}
    /\ call'[t] = [pc |-> "protect",
                   plan |-> [id |-> id, snap |-> call[t].snap, owner |-> call[t].owner,
                             epoch |-> leases[call[t].snap].epoch + 1]]

(* BeginRestore's second step refuses, fails or builds a plan. *)
LEMMA AcquireStep ==
    ASSUME RestoreTypeOK, NEW t \in Threads, Acquire(t)
    PROVE  /\ \A u \in Threads \ {t} : call'[u] = call[u]
           /\ call' \in [Threads -> Call]
           /\ \/ call'[t] = Idle /\ leases' = leases
              \/ /\ Takes(t)
                 /\ call'[t] = [pc |-> "failed", snap |-> call[t].snap, owner |-> call[t].owner]
              \/ Takes(t) /\ \E id \in Plans : Builds(t, id)
  <1>1. /\ At(t, "acquire")
        /\ call[t].snap \in Snapshots
        /\ call[t].owner \in Owners
        /\ call[t].since \in Nat
        /\ now \in Nat
        /\ leases \in [Snapshots -> Lease]
        /\ Resources = Snapshots
    BY CallFields, RestoreAssumption DEF Acquire, RestoreTypeOK, LeaseTypeOK
  <1>2. leases[call[t].snap].epoch + 1 \in Nat
    BY <1>1 DEF Lease
  <1>3. PICK at \in call[t].since..now :
          \/ Return(t) /\ leases' = leases
          \/ /\ \E ttl \in TTLs : AcquireLease(call[t].snap, call[t].owner, at, ttl)
             /\ IF call[t].copy = "expired"
                THEN call' = [call EXCEPT ![t] =
                        [pc |-> "failed", snap |-> call[t].snap, owner |-> call[t].owner]]
                ELSE \E id \in Plans \ {p.id : p \in Issued} :
                        call' = [call EXCEPT ![t] = [pc |-> "protect",
                           plan |-> [id |-> id, snap |-> call[t].snap, owner |-> call[t].owner,
                                     epoch |-> leases[call[t].snap].epoch + 1]]]
    BY DEF Acquire
  <1>4. CASE Return(t) /\ leases' = leases
    <2>1. Idle \in Call
      BY DEF Call
    <2> QED BY <1>4, <2>1, IsSet DEF Return
  <1>5. CASE \E ttl \in TTLs : AcquireLease(call[t].snap, call[t].owner, at, ttl)
    <2>1. PICK ttl \in TTLs : AcquireLease(call[t].snap, call[t].owner, at, ttl)
      BY <1>5
    <2>2. at \in Nat /\ ttl \in Nat
      BY <1>1, LeaseAssumption
    <2>3. leases' \in [Snapshots -> Lease]
      BY <1>1, <2>1, <2>2, LeaseSteps DEF RestoreTypeOK
    <2>4. Takes(t)
      BY <1>1, <2>1, <2>3 DEF AcquireLease, Takes
    <2>5. CASE call' = [call EXCEPT ![t] =
                 [pc |-> "failed", snap |-> call[t].snap, owner |-> call[t].owner]]
      <3>1. [pc |-> "failed", snap |-> call[t].snap, owner |-> call[t].owner] \in Call
        BY <1>1 DEF Call
      <3> QED BY <2>4, <2>5, <3>1, IsSet
    <2>6. ASSUME NEW id \in Plans \ {p.id : p \in Issued},
                 call' = [call EXCEPT ![t] = [pc |-> "protect",
                    plan |-> [id |-> id, snap |-> call[t].snap, owner |-> call[t].owner,
                              epoch |-> leases[call[t].snap].epoch + 1]]]
          PROVE  /\ \A u \in Threads \ {t} : call'[u] = call[u]
                 /\ call' \in [Threads -> Call]
                 /\ Builds(t, id)
      <3>1. [id |-> id, snap |-> call[t].snap, owner |-> call[t].owner,
             epoch |-> leases[call[t].snap].epoch + 1] \in Plan
        BY <1>1, <1>2 DEF Plan
      <3>2. [pc |-> "protect", plan |-> [id |-> id, snap |-> call[t].snap,
             owner |-> call[t].owner, epoch |-> leases[call[t].snap].epoch + 1]] \in Call
        BY <3>1 DEF Call
      <3> QED BY <2>6, <3>2, IsSet DEF Builds
    <2>7. CASE Return(t) /\ leases' = leases
      BY <1>4, <2>7
    <2> QED BY <1>3, <2>4, <2>5, <2>6, <2>7
  <1> QED BY <1>3, <1>4, <1>5

(* BeginRestore's last step. *)
LEMMA ProtectStep ==
    ASSUME RestoreTypeOK, NEW t \in Threads, Protect(t)
    PROVE  /\ At(t, "protect")
           /\ call[t].plan \in Plan
           /\ call' \in [Threads -> Call]
           /\ call'[t] = Idle
           /\ \A u \in Threads \ {t} : call'[u] = call[u]
           /\ plans' = plans \union {call[t].plan}
           /\ restoreRefs' \in [Snapshots -> SUBSET Plans]
           /\ restoreRefs'[call[t].plan.snap] = restoreRefs[call[t].plan.snap] \union {call[t].plan.id}
           /\ \A s \in Snapshots \ {call[t].plan.snap} : restoreRefs'[s] = restoreRefs[s]
  <1>1. At(t, "protect") /\ call[t].plan \in Plan
    BY CallFields DEF Protect
  <1>2. Idle \in Call
    BY DEF Call
  <1>3. call' \in [Threads -> Call] /\ call'[t] = Idle /\ \A u \in Threads \ {t} : call'[u] = call[u]
    BY <1>2, IsSet DEF Protect, Return
  <1>4. restoreRefs \in [Snapshots -> SUBSET Plans]
    BY DEF RestoreTypeOK, CatalogTypeOK
  <1>5. call[t].plan.snap \in Snapshots /\ call[t].plan.id \in Plans
    BY <1>1 DEF Plan
  <1> QED BY <1>1, <1>3, <1>4, <1>5 DEF Protect, AddRestoreReference

(* The steps that end a failed BeginRestore. *)
LEMMA FailedSteps ==
    ASSUME RestoreTypeOK, NEW t \in Threads, FailedReadLease(t) \/ FailedRelease(t)
    PROVE  /\ call' \in [Threads -> Call]
           /\ \A u \in Threads \ {t} : call'[u] = call[u]
           /\ leases' \in [Resources -> Lease]
           /\ \/ /\ At(t, "failed") /\ leases' = leases
                 /\ call'[t].pc = "undo"
                 /\ call'[t].owner = call[t].owner
              \/ /\ At(t, "undo") /\ call'[t] = Idle
                 /\ \/ leases' = leases
                    \/ /\ Releasable(call[t].snap, call[t].owner, call[t].epoch)
                       /\ ReleaseLease(call[t].snap)
  <1>1. leases \in [Snapshots -> Lease] /\ Resources = Snapshots
    BY RestoreAssumption DEF RestoreTypeOK, LeaseTypeOK
  <1>2. CASE FailedReadLease(t)
    <2>1. At(t, "failed") /\ call[t].snap \in Snapshots /\ call[t].owner \in Owners
      BY <1>2, CallFields DEF FailedReadLease
    <2>2. leases[call[t].snap].epoch \in Nat
      BY <1>1, <2>1 DEF Lease
    <2>3. [pc |-> "undo", snap |-> call[t].snap, owner |-> call[t].owner,
           epoch |-> leases[call[t].snap].epoch] \in Call
      BY <2>1, <2>2 DEF Call
    <2> QED BY <1>1, <1>2, <2>1, <2>3, IsSet DEF FailedReadLease
  <1>3. CASE FailedRelease(t)
    <2>1. At(t, "undo") /\ call[t].snap \in Snapshots /\ call[t].owner \in Owners
      BY <1>3, CallFields DEF FailedRelease
    <2>2. Idle \in Call
      BY DEF Call
    <2>3. /\ call' \in [Threads -> Call]
          /\ call'[t] = Idle
          /\ \A u \in Threads \ {t} : call'[u] = call[u]
      BY <1>3, <2>2, IsSet DEF FailedRelease, Return
    <2>4. leases' \in [Resources -> Lease]
      BY <1>1, <1>3, <2>1, LeaseSteps DEF FailedRelease, RestoreTypeOK
    <2> QED BY <1>3, <2>1, <2>3, <2>4 DEF FailedRelease, ReleaseIfOwned
  <1> QED BY <1>2, <1>3

(* The two calls start. *)
LEMMA BeginStep ==
    ASSUME RestoreTypeOK, NEW t \in Threads, NEW s \in Snapshots, NEW o \in Owners,
           BeginRestore(t, s, o)
    PROVE  /\ At(t, "idle")
           /\ call' \in [Threads -> Call]
           /\ call'[t].pc = "acquire" /\ call'[t].owner = o
           /\ \A u \in Threads \ {t} : call'[u] = call[u]
           /\ o \in SharedOwners \/ ~Busy(o)
  <1>1. catalog[s].state \in States /\ now \in Nat
    BY DEF RestoreTypeOK, LeaseTypeOK, CatalogTypeOK, Record
  <1>2. [pc |-> "acquire", snap |-> s, owner |-> o, copy |-> catalog[s].state,
         since |-> now] \in Call
    BY <1>1 DEF Call
  <1> QED BY <1>2, IsSet DEF BeginRestore, Begin

LEMMA FinishStep ==
    ASSUME RestoreTypeOK, NEW t \in Threads, NEW p \in plans, FinishRestore(t, p)
    PROVE  /\ At(t, "idle")
           /\ call' \in [Threads -> Call]
           /\ call'[t] = [pc |-> "complete", plan |-> p, epoch |-> leases[p.snap].epoch]
           /\ \A u \in Threads \ {t} : call'[u] = call[u]
  <1>1. p \in Plan /\ leases[p.snap].epoch \in Nat
    BY RestoreAssumption DEF RestoreTypeOK, LeaseTypeOK, Lease, Plan
  <1>2. [pc |-> "complete", plan |-> p, epoch |-> leases[p.snap].epoch] \in Call
    BY <1>1 DEF Call
  <1> QED BY <1>2, IsSet DEF FinishRestore, Begin

(* The journal says complete, or the call ends. *)
LEMMA JournalStep ==
    ASSUME RestoreTypeOK, NEW t \in Threads, JournalComplete(t)
    PROVE  /\ At(t, "complete")
           /\ call[t].plan \in Plan
           /\ entries' \in Seq(CompleteEntry)
           /\ call' \in [Threads -> Call]
           /\ \A u \in Threads \ {t} : call'[u] = call[u]
           /\ \/ /\ entries' = Append(entries, [kind |-> "restore-complete",
                                 snap |-> call[t].plan.snap, op |-> call[t].plan.id,
                                 gen |-> call[t].epoch])
                 /\ closed' = closed
                 /\ call'[t].pc = "release"
                 /\ call'[t].plan = call[t].plan
                 /\ call'[t].epoch = call[t].epoch
              \/ call'[t] = Idle /\ entries' = entries /\ closed' = closed
  <1>1. At(t, "complete") /\ Finishing(t) /\ call[t].plan \in Plan /\ call[t].epoch \in Nat
    BY CallFields DEF JournalComplete, At, Finishing
  <1>2. CASE /\ AppendEntry([kind |-> "restore-complete", snap |-> call[t].plan.snap,
                             op |-> call[t].plan.id, gen |-> call[t].epoch])
             /\ Goto(t, "release")
    <2>1. [kind |-> "restore-complete", snap |-> call[t].plan.snap,
           op |-> call[t].plan.id, gen |-> call[t].epoch] \in CompleteEntry
      BY <1>1 DEF CompleteEntry, Plan
    <2>2. entries \in Seq(CompleteEntry)
      BY DEF RestoreTypeOK
    <2>3. entries' \in Seq(CompleteEntry)
      BY <1>2, <2>1, <2>2 DEF AppendEntry
    <2> QED BY <1>1, <1>2, <2>3, GoesOn DEF AppendEntry
  <1>3. CASE closed /\ Return(t) /\ UNCHANGED <<entries, closed>>
    <2>1. Idle \in Call
      BY DEF Call
    <2>2. entries \in Seq(CompleteEntry)
      BY DEF RestoreTypeOK
    <2> QED BY <1>1, <1>3, <2>1, <2>2, IsSet DEF Return
  <1> QED BY <1>2, <1>3 DEF JournalComplete

(* The lease is released, or the call finds it is another's or released. *)
LEMMA ReleaseStep ==
    ASSUME RestoreTypeOK, NEW t \in Threads, ReleaseRestore(t)
    PROVE  /\ At(t, "release")
           /\ call[t].plan \in Plan
           /\ leases' \in [Resources -> Lease]
           /\ call' \in [Threads -> Call]
           /\ \A u \in Threads \ {t} : call'[u] = call[u]
           /\ \/ /\ Releasable(call[t].plan.snap, call[t].plan.owner, call[t].epoch)
                 /\ ReleaseLease(call[t].plan.snap)
                 /\ call'[t].pc = "unprotect"
                 /\ call'[t].plan = call[t].plan
                 /\ call'[t].epoch = call[t].epoch
              \/ /\ ~Releasable(call[t].plan.snap, call[t].plan.owner, call[t].epoch)
                 /\ call'[t] = Idle
                 /\ leases' = leases
  <1>1. At(t, "release") /\ Finishing(t) /\ call[t].plan \in Plan
    BY CallFields DEF ReleaseRestore, At, Finishing
  <1>2. /\ leases \in [Resources -> Lease]
        /\ call[t].plan.snap \in Resources /\ call[t].plan.owner \in Owners
    BY <1>1, RestoreAssumption DEF RestoreTypeOK, LeaseTypeOK, Plan
  <1>3. CASE /\ Releasable(call[t].plan.snap, call[t].plan.owner, call[t].epoch)
             /\ ReleaseLease(call[t].plan.snap)
             /\ Goto(t, "unprotect")
    <2>1. leases' \in [Resources -> Lease]
      BY <1>2, <1>3, LeaseSteps DEF RestoreTypeOK
    <2> QED BY <1>1, <1>3, <2>1, GoesOn
  <1>4. CASE /\ ~Releasable(call[t].plan.snap, call[t].plan.owner, call[t].epoch)
             /\ Return(t)
             /\ UNCHANGED leases
    <2>1. Idle \in Call
      BY DEF Call
    <2> QED BY <1>1, <1>2, <1>4, <2>1, IsSet DEF Return
  <1> QED BY <1>3, <1>4 DEF ReleaseRestore

(* A released lease keeps its epoch and owner, the others everything. *)
LEMMA ReleaseKeeps ==
    ASSUME LeaseTypeOK, NEW r \in Resources, ReleaseLease(r)
    PROVE  /\ leases'[r].epoch = leases[r].epoch
           /\ leases'[r].owner = leases[r].owner
           /\ leases'[r].released
           /\ \A s \in Resources \ {r} : leases'[s] = leases[s]
  <1>1. leases \in [Resources -> Lease]
    BY DEF LeaseTypeOK
  <1> QED BY <1>1 DEF ReleaseLease, Lease

(* The reference is dropped. *)
LEMMA UnprotectStep ==
    ASSUME RestoreTypeOK, NEW t \in Threads, Unprotect(t)
    PROVE  /\ At(t, "unprotect")
           /\ call[t].plan \in Plan
           /\ call' \in [Threads -> Call]
           /\ call'[t] = Idle
           /\ \A u \in Threads \ {t} : call'[u] = call[u]
           /\ restoreRefs' \in [Snapshots -> SUBSET Plans]
           /\ restoreRefs'[call[t].plan.snap] = restoreRefs[call[t].plan.snap] \ {call[t].plan.id}
           /\ \A s \in Snapshots \ {call[t].plan.snap} : restoreRefs'[s] = restoreRefs[s]
  <1>1. At(t, "unprotect") /\ call[t].plan \in Plan
    BY CallFields DEF Unprotect, Finishing, At
  <1>2. Idle \in Call
    BY DEF Call
  <1>3. call' \in [Threads -> Call] /\ call'[t] = Idle /\ \A u \in Threads \ {t} : call'[u] = call[u]
    BY <1>2, IsSet DEF Unprotect, Return
  <1>4. restoreRefs \in [Snapshots -> SUBSET Plans]
    BY DEF RestoreTypeOK, CatalogTypeOK
  <1>5. call[t].plan.snap \in Snapshots
    BY <1>1 DEF Plan
  <1> QED BY <1>1, <1>3, <1>4, <1>5 DEF Unprotect, RemoveRestoreReference

------------------------------------------------------------------------------
(* The types are kept by every step. *)
LEMMA RestoreTypeStep ==
    ASSUME RestoreTypeOK, [RestoreNext]_restoreVars
    PROVE  RestoreTypeOK'
  <1>1. ASSUME NEW s \in Snapshots, Publish(s)
        PROVE  RestoreTypeOK'
    <2>1. catalog' \in [Snapshots -> Record]
      <3>1. [state |-> "published", gen |-> 1, full |-> TRUE, created |-> now] \in Record
        BY DEF Record, States, RestoreTypeOK, LeaseTypeOK
      <3> QED BY <1>1, <3>1 DEF Publish, CommitSnapshot, RestoreTypeOK, CatalogTypeOK
    <2> QED BY <1>1, <2>1 DEF Publish, RestoreTypeOK, CatalogTypeOK, LeaseTypeOK
  <1>2. ASSUME NEW t \in Threads, NEW s \in Snapshots, NEW o \in Owners, BeginRestore(t, s, o)
        PROVE  RestoreTypeOK'
    BY <1>2, BeginStep DEF BeginRestore, RestoreTypeOK, CatalogTypeOK, LeaseTypeOK
  <1>3. ASSUME NEW t \in Threads, NEW p \in plans, FinishRestore(t, p)
        PROVE  RestoreTypeOK'
    BY <1>3, FinishStep DEF FinishRestore, RestoreTypeOK, CatalogTypeOK, LeaseTypeOK
  <1>4. ASSUME NEW t \in Threads, NEW keep, ApplyRetention(t, keep)
        PROVE  RestoreTypeOK'
    <2>1. PICK kept \in SUBSET Snapshots :
            catalog' = [s \in Snapshots |->
              IF Exists(s) /\ s \notin kept /\ restoreRefs[s] = {}
              THEN [catalog[s] EXCEPT !.state = "expired"] ELSE catalog[s]]
      BY <1>4 DEF ApplyRetention, ExpireUnprotected
    <2>2. \A s \in Snapshots : [catalog[s] EXCEPT !.state = "expired"] \in Record
      BY DEF RestoreTypeOK, CatalogTypeOK, Record, States
    <2>3. catalog' \in [Snapshots -> Record]
      BY <2>1, <2>2 DEF RestoreTypeOK, CatalogTypeOK
    <2> QED BY <1>4, <2>3 DEF ApplyRetention, RestoreTypeOK, CatalogTypeOK, LeaseTypeOK
  <1>5. CASE Tick /\ UNCHANGED <<entries, closed>> /\ UNCHANGED <<catalog, restoreRefs, plans, late, call>>
    BY <1>5 DEF Tick, RestoreTypeOK, CatalogTypeOK, LeaseTypeOK
  <1>6. CASE /\ (CloseJournal \/ OpenJournal) /\ UNCHANGED <<now, leases>>
             /\ UNCHANGED <<catalog, restoreRefs, plans, late, call>>
    BY <1>6 DEF CloseJournal, OpenJournal, RestoreTypeOK, CatalogTypeOK, LeaseTypeOK
  <1>7. ASSUME NEW t \in Threads, Acquire(t)
        PROVE  RestoreTypeOK'
    <2>1. leases' \in [Resources -> Lease] /\ call' \in [Threads -> Call]
      BY <1>7, AcquireStep DEF Takes, RestoreTypeOK, LeaseTypeOK
    <2> QED BY <1>7, <2>1 DEF Acquire, RestoreTypeOK, CatalogTypeOK, LeaseTypeOK
  <1>8. ASSUME NEW t \in Threads, Protect(t)
        PROVE  RestoreTypeOK'
    <2>1. plans' \subseteq Plan /\ call[t].plan.id \in Plans
      BY <1>8, ProtectStep DEF RestoreTypeOK, Plan
    <2>2. late' \subseteq Plans
      BY <1>8, <2>1 DEF Protect, RestoreTypeOK
    <2>3. call' \in [Threads -> Call] /\ restoreRefs' \in [Snapshots -> SUBSET Plans]
      BY <1>8, ProtectStep
    <2>4. UNCHANGED <<now, leases, catalog, entries, closed>>
      BY <1>8 DEF Protect
    <2> QED BY <2>1, <2>2, <2>3, <2>4 DEF RestoreTypeOK, CatalogTypeOK, LeaseTypeOK
  <1>9. ASSUME NEW t \in Threads, FailedReadLease(t) \/ FailedRelease(t)
        PROVE  RestoreTypeOK'
    BY <1>9, FailedSteps DEF FailedReadLease, FailedRelease, RestoreTypeOK, CatalogTypeOK, LeaseTypeOK
  <1>10. ASSUME NEW t \in Threads, JournalComplete(t)
         PROVE  RestoreTypeOK'
    BY <1>10, JournalStep DEF JournalComplete, RestoreTypeOK, CatalogTypeOK, LeaseTypeOK
  <1>11. ASSUME NEW t \in Threads, ReleaseRestore(t)
         PROVE  RestoreTypeOK'
    BY <1>11, ReleaseStep DEF ReleaseRestore, RestoreTypeOK, CatalogTypeOK, LeaseTypeOK
  <1>12. ASSUME NEW t \in Threads, Unprotect(t)
         PROVE  RestoreTypeOK'
    BY <1>12, UnprotectStep DEF Unprotect, RestoreTypeOK, CatalogTypeOK, LeaseTypeOK
  <1>13. CASE UNCHANGED restoreVars
    BY <1>13 DEF restoreVars, RestoreTypeOK, CatalogTypeOK, LeaseTypeOK
  <1> QED
    BY <1>1, <1>2, <1>3, <1>4, <1>5, <1>6, <1>7, <1>8, <1>9, <1>10, <1>11, <1>12, <1>13
       DEF RestoreNext, Environment, Step

------------------------------------------------------------------------------
(* The invariant is kept by every step, one lemma per operation. *)

(* Publishing, retention, the clock and the operator of the journal. *)
LEMMA StillKeeps ==
    ASSUME RestoreInv, RestoreTypeOK',
           UNCHANGED <<leases, restoreRefs, entries, plans, call>>
    PROVE  RestoreInv'
  <1>1. PlansAreKnown' /\ OwnersAreSole'
    BY DEF RestoreInv, PlansAreKnown, OwnersAreSole, At, Finishing, Opening, OwnerOf, Logged
  <1>2. LeasesAreThePlans' /\ CompletionGoesOn' /\ UnprotectedIsComplete'
    BY DEF RestoreInv, LeasesAreThePlans, CompletionGoesOn, UnprotectedIsComplete,
           At, Finishing, Newer, Sole, Logged
  <1> QED BY <1>1, <1>2 DEF RestoreInv

LEMMA BeginKeeps ==
    ASSUME RestoreInv, RestoreTypeOK', NEW t \in Threads, NEW s \in Snapshots, NEW o \in Owners,
           BeginRestore(t, s, o)
    PROVE  RestoreInv'
  <1>0. RestoreTypeOK
    BY DEF RestoreInv
  <1>1. /\ At(t, "idle")
        /\ call'[t].pc = "acquire" /\ call'[t].owner = o
        /\ \A u \in Threads \ {t} : call'[u] = call[u]
        /\ o \in SharedOwners \/ ~Busy(o)
    BY <1>0, BeginStep
  <1>2. leases' = leases /\ restoreRefs' = restoreRefs /\ entries' = entries /\ plans' = plans
    BY DEF BeginRestore
  <1>3. PlansAreKnown'
    BY <1>1, <1>2 DEF RestoreInv, PlansAreKnown, At, Finishing, Logged
  <1>4. OwnersAreSole'
    BY <1>1, <1>2 DEF RestoreInv, OwnersAreSole, At, Opening, OwnerOf, Busy
  <1>5. LeasesAreThePlans'
    BY <1>1, <1>2 DEF RestoreInv, LeasesAreThePlans, At, Finishing, Newer
  <1>6. CompletionGoesOn'
    BY <1>1, <1>2 DEF RestoreInv, CompletionGoesOn, At, Sole, Logged
  <1>7. UnprotectedIsComplete'
    BY <1>2 DEF RestoreInv, UnprotectedIsComplete, Logged
  <1> QED BY <1>3, <1>4, <1>5, <1>6, <1>7 DEF RestoreInv

LEMMA FinishKeeps ==
    ASSUME RestoreInv, RestoreTypeOK', NEW t \in Threads, NEW p \in plans, FinishRestore(t, p)
    PROVE  RestoreInv'
  <1>0. RestoreTypeOK
    BY DEF RestoreInv
  <1>1. /\ At(t, "idle")
        /\ call'[t].pc = "complete" /\ call'[t].plan = p
        /\ call'[t].epoch = leases[p.snap].epoch
        /\ \A u \in Threads \ {t} : call'[u] = call[u]
    <2>1. /\ At(t, "idle")
          /\ call'[t] = [pc |-> "complete", plan |-> p, epoch |-> leases[p.snap].epoch]
          /\ \A u \in Threads \ {t} : call'[u] = call[u]
      BY <1>0, FinishStep
    <2> QED BY <2>1
  <1>2. leases' = leases /\ restoreRefs' = restoreRefs /\ entries' = entries /\ plans' = plans
    BY DEF FinishRestore
  <1>3. p \in Plan /\ p.epoch \in Nat /\ leases[p.snap].epoch \in Nat
    BY <1>0, RestoreAssumption DEF RestoreTypeOK, LeaseTypeOK, Lease, Plan
  <1>4. PlansAreKnown'
    BY <1>1, <1>2 DEF RestoreInv, PlansAreKnown, At, Finishing, Logged
  <1>5. OwnersAreSole'
    BY <1>1, <1>2 DEF RestoreInv, OwnersAreSole, At, Opening, OwnerOf
  <1>6. LeasesAreThePlans'
    BY <1>1, <1>2, <1>3 DEF RestoreInv, LeasesAreThePlans, At, Finishing, Newer
  <1>7. CompletionGoesOn'
    BY <1>1, <1>2 DEF RestoreInv, CompletionGoesOn, At, Sole, Logged
  <1>8. UnprotectedIsComplete'
    BY <1>2 DEF RestoreInv, UnprotectedIsComplete, Logged
  <1> QED BY <1>4, <1>5, <1>6, <1>7, <1>8 DEF RestoreInv

LEMMA AcquireKeeps ==
    ASSUME RestoreInv, RestoreTypeOK', NEW t \in Threads, Acquire(t)
    PROVE  RestoreInv'
  <1>0. RestoreTypeOK
    BY DEF RestoreInv
  <1>1. /\ At(t, "acquire")
        /\ call[t].snap \in Snapshots /\ call[t].owner \in Owners
        /\ \A u \in Threads \ {t} : call'[u] = call[u]
    BY <1>0, AcquireStep, CallFields DEF Acquire
  <1>2. restoreRefs' = restoreRefs /\ entries' = entries /\ plans' = plans
    BY DEF Acquire
  <1>3. ASSUME NEW p \in Plan
        PROVE  /\ p.snap \in Snapshots /\ p.epoch \in Nat
               /\ leases[p.snap].epoch \in Nat /\ leases'[p.snap].epoch \in Nat
    <2>1. p.snap \in Resources /\ p.snap \in Snapshots /\ p.epoch \in Nat
      BY RestoreAssumption DEF Plan
    <2>2. leases \in [Resources -> Lease] /\ leases' \in [Resources -> Lease]
      BY <1>0 DEF RestoreTypeOK, LeaseTypeOK
    <2> QED BY <2>1, <2>2 DEF Lease
  <1>4. plans \subseteq Plan
    BY <1>0 DEF RestoreTypeOK
  <1>5. UnprotectedIsComplete'
    BY <1>2 DEF RestoreInv, UnprotectedIsComplete, Logged
  <1>6. CASE call'[t] = Idle /\ leases' = leases
    <2>1. PlansAreKnown' /\ OwnersAreSole'
      BY <1>1, <1>2, <1>6
         DEF RestoreInv, PlansAreKnown, OwnersAreSole, At, Finishing, Opening, OwnerOf, Logged, Idle
    <2>2. LeasesAreThePlans'
      BY <1>1, <1>2, <1>6 DEF RestoreInv, LeasesAreThePlans, At, Finishing, Newer, Idle
    <2>3. CompletionGoesOn'
      BY <1>1, <1>2, <1>6 DEF RestoreInv, CompletionGoesOn, At, Sole, Logged, Idle
    <2> QED BY <1>5, <2>1, <2>2, <2>3 DEF RestoreInv
  <1>7. ASSUME Takes(t), NEW p \in Plan, Newer(p)
        PROVE  Newer(p)' /\ (Sole(p)' => Sole(p) /\ leases'[p.snap] = leases[p.snap])
    BY <1>1, <1>3, <1>7 DEF Takes, Newer, Sole
  <1>8. ASSUME Takes(t), NEW u \in Threads \ {t}
        PROVE  /\ At(u, "protect") => Newer(call[u].plan)'
               /\ Finishing(u) => /\ call[u].plan.epoch <= call[u].epoch
                                  /\ call[u].epoch <= leases'[call[u].plan.snap].epoch
    <2>1. At(u, "protect") => call[u].plan \in Plan
      BY <1>0, CallFields
    <2>2. At(u, "protect") => Newer(call[u].plan)'
      BY <1>1, <1>7, <1>8, <2>1 DEF RestoreInv, LeasesAreThePlans, Newer
    <2>3. Finishing(u) => call[u].plan \in Plan /\ call[u].epoch \in Nat
      BY <1>0, CallFields
    <2>4. Finishing(u) => leases[call[u].plan.snap].epoch <= leases'[call[u].plan.snap].epoch
      BY <1>1, <1>3, <1>8, <2>3 DEF Takes
    <2> QED BY <1>3, <2>2, <2>3, <2>4 DEF RestoreInv, LeasesAreThePlans
  <1>9. ASSUME Takes(t), At(t, "protect")' \/ At(t, "failed")'
        PROVE  /\ \A p \in plans : Sole(p)' =>
                    /\ leases'[p.snap].released /\ p.id \in restoreRefs'[p.snap] =>
                          \E v \in Threads : At(v, "unprotect")' /\ call'[v].plan = p
                    /\ ~leases'[p.snap].released /\ Logged("restore-complete", p.snap, p.id)' =>
                          \E v \in Threads : At(v, "release")' /\ call'[v].plan = p
               /\ \A u \in Threads \ {t} : At(u, "protect")' /\ Sole(call[u].plan)' =>
                    ~leases'[call[u].plan.snap].released
    <2>1. \A v \in Threads : At(v, "unprotect") \/ At(v, "release") => call'[v] = call[v]
      BY <1>1 DEF At
    <2>2. \A p \in plans : Sole(p)' => Sole(p) /\ leases'[p.snap] = leases[p.snap]
      BY <1>4, <1>7, <1>9 DEF RestoreInv, LeasesAreThePlans
    <2>3. ASSUME NEW u \in Threads \ {t}, At(u, "protect"), Sole(call[u].plan)'
          PROVE  Sole(call[u].plan) /\ leases'[call[u].plan.snap] = leases[call[u].plan.snap]
      <3>1. call[u].plan \in Plan /\ call'[u] = call[u] /\ Newer(call[u].plan)
        BY <1>0, <1>1, <2>3, CallFields DEF RestoreInv, LeasesAreThePlans
      <3>2. PICK p \in Plan : p = call[u].plan
        BY <3>1
      <3>3. Sole(p)'
        BY <2>3, <3>1, <3>2 DEF Sole
      <3> QED BY <1>7, <1>9, <3>1, <3>2, <3>3
    <2>4. \A p \in plans : Logged("restore-complete", p.snap, p.id)' =>
             Logged("restore-complete", p.snap, p.id)
      BY <1>2 DEF Logged
    <2> QED BY <1>1, <1>2, <2>1, <2>2, <2>3, <2>4 DEF RestoreInv, CompletionGoesOn, At
  <1>10. CASE /\ Takes(t)
              /\ call'[t] = [pc |-> "failed", snap |-> call[t].snap, owner |-> call[t].owner]
    <2>1. call'[t].pc = "failed" /\ call'[t].owner = call[t].owner
      BY <1>10
    <2>2. PlansAreKnown'
      BY <1>1, <1>2, <2>1 DEF RestoreInv, PlansAreKnown, At, Finishing, Logged
    <2>3. OwnersAreSole'
      BY <1>1, <1>2, <2>1 DEF RestoreInv, OwnersAreSole, At, Opening, OwnerOf
    <2>4. \A p \in plans : Newer(p)'
      BY <1>4, <1>7, <1>10 DEF RestoreInv, LeasesAreThePlans
    <2>5. LeasesAreThePlans'
      BY <1>1, <1>2, <1>8, <1>10, <2>1, <2>4 DEF LeasesAreThePlans, At, Finishing, Newer
    <2>6. CompletionGoesOn'
      BY <1>1, <1>2, <1>9, <1>10, <2>1 DEF CompletionGoesOn, At, Sole
    <2> QED BY <1>5, <2>2, <2>3, <2>5, <2>6 DEF RestoreInv
  <1>11. ASSUME NEW id \in Plans, Takes(t), Builds(t, id)
         PROVE  RestoreInv'
    <2>1. /\ call'[t].pc = "protect"
          /\ call'[t].plan.id = id
          /\ call'[t].plan.snap = call[t].snap
          /\ call'[t].plan.owner = call[t].owner
          /\ call'[t].plan.epoch = leases[call[t].snap].epoch + 1
      BY <1>11 DEF Builds
    <2>2. \A p \in plans : p.id # id
      BY <1>11 DEF Builds, Issued
    <2>3. \A u \in Threads : At(u, "protect") => call[u].plan.id # id
      BY <1>11 DEF Builds, Issued
    <2>4. PlansAreKnown'
      BY <1>1, <1>2, <2>1, <2>2, <2>3 DEF RestoreInv, PlansAreKnown, At, Finishing, Logged
    <2>5. OwnersAreSole'
      BY <1>1, <1>2, <2>1 DEF RestoreInv, OwnersAreSole, At, Opening, OwnerOf
    <2>6. \A p \in plans : Newer(p)'
      BY <1>4, <1>7, <1>11 DEF RestoreInv, LeasesAreThePlans
    <2>7. Newer(call[t].plan)' /\ ~leases'[call'[t].plan.snap].released
      <3>1. leases[call[t].snap].epoch + 1 \in Nat
        BY <1>0, <1>1, RestoreAssumption DEF RestoreTypeOK, LeaseTypeOK, Lease
      <3> QED BY <1>1, <1>11, <2>1, <3>1 DEF Takes, Newer
    <2>8. LeasesAreThePlans'
      BY <1>1, <1>2, <1>8, <1>11, <2>1, <2>6, <2>7 DEF LeasesAreThePlans, At, Finishing, Newer
    <2>9. CompletionGoesOn'
      BY <1>1, <1>2, <1>9, <1>11, <2>1, <2>7 DEF CompletionGoesOn, At, Sole
    <2> QED BY <1>5, <2>4, <2>5, <2>8, <2>9 DEF RestoreInv
  <1> QED BY <1>0, <1>6, <1>10, <1>11, AcquireStep

LEMMA ProtectKeeps ==
    ASSUME RestoreInv, RestoreTypeOK', NEW t \in Threads, Protect(t)
    PROVE  RestoreInv'
  <1>0. RestoreTypeOK
    BY DEF RestoreInv
  <1> DEFINE p == call[t].plan
  <1>1. /\ At(t, "protect") /\ p \in Plan
        /\ call'[t] = Idle
        /\ \A u \in Threads \ {t} : call'[u] = call[u]
        /\ plans' = plans \union {p}
        /\ restoreRefs'[p.snap] = restoreRefs[p.snap] \union {p.id}
        /\ \A s \in Snapshots \ {p.snap} : restoreRefs'[s] = restoreRefs[s]
    BY <1>0, ProtectStep
  <1>2. leases' = leases /\ entries' = entries
    BY DEF Protect
  <1>3. call'[t].pc = "idle"
    BY <1>1 DEF Idle
  <1>4. \A q \in plans : q.snap \in Snapshots /\ q.id \in Plans
    BY <1>0 DEF RestoreTypeOK, Plan
  <1>5. p.snap \in Snapshots /\ p.id \in Plans
    BY <1>1 DEF Plan
  <1>6. \A q \in plans : q.id # p.id
    BY <1>1 DEF RestoreInv, PlansAreKnown
  <1>7. \A u \in Threads \ {t} : At(u, "protect") => call[u].plan.id # p.id
    BY <1>1 DEF RestoreInv, PlansAreKnown
  <1>8. \A q \in plans : q.id \in restoreRefs'[q.snap] <=> q.id \in restoreRefs[q.snap]
    BY <1>1, <1>4, <1>6
  <1> HIDE DEF p
  <1>9. PlansAreKnown'
    <2>1. \A q, r \in plans' : q.id = r.id => q = r
      BY <1>1, <1>6 DEF RestoreInv, PlansAreKnown
    <2>2. \A u \in Threads : At(u, "protect")' =>
            /\ \A q \in plans' : q.id # call'[u].plan.id
            /\ \A v \in Threads \ {u} : At(v, "protect")' => call'[v].plan.id # call'[u].plan.id
      BY <1>1, <1>3, <1>7 DEF RestoreInv, PlansAreKnown, At
    <2>3. \A s \in Snapshots : \A id \in restoreRefs'[s] : \E q \in plans' : q.id = id /\ q.snap = s
      BY <1>1, <1>5 DEF RestoreInv, PlansAreKnown
    <2>4. \A i \in DOMAIN entries' : \E q \in plans' : q.id = entries'[i].op
      BY <1>1, <1>2 DEF RestoreInv, PlansAreKnown
    <2>5. \A u \in Threads :
            /\ Finishing(u)' => call'[u].plan \in plans'
            /\ call'[u].pc \in {"release", "unprotect"} =>
                  Logged("restore-complete", call[u].plan.snap, call[u].plan.id)'
      BY <1>1, <1>2, <1>3 DEF RestoreInv, PlansAreKnown, Finishing, Logged
    <2> QED BY <2>1, <2>2, <2>3, <2>4, <2>5 DEF PlansAreKnown, At, Finishing
  <1>10. OwnersAreSole'
    <2>1. p.owner = OwnerOf(t) /\ Opening(t)
      BY <1>1 DEF OwnerOf, Opening, At, p
    <2>2. \A q, r \in plans' : q.owner \notin SharedOwners /\ q.owner = r.owner => q = r
      BY <1>1, <2>1 DEF RestoreInv, OwnersAreSole
    <2>3. \A u \in Threads : Opening(u)' =>
             u # t /\ Opening(u) /\ OwnerOf(u)' = OwnerOf(u)
      BY <1>1, <1>3 DEF Opening, OwnerOf, At
    <2>4. \A u \in Threads \ {t} : Opening(u) /\ OwnerOf(u) \notin SharedOwners => OwnerOf(u) # p.owner
      BY <2>1 DEF RestoreInv, OwnersAreSole
    <2>5. \A u \in Threads : Opening(u)' /\ OwnerOf(u)' \notin SharedOwners =>
            /\ \A q \in plans' : q.owner # OwnerOf(u)'
            /\ \A v \in Threads \ {u} : Opening(v)' => OwnerOf(v)' # OwnerOf(u)'
      BY <1>1, <2>3, <2>4 DEF RestoreInv, OwnersAreSole
    <2> QED BY <2>2, <2>5 DEF OwnersAreSole
  <1>11. LeasesAreThePlans'
    <2>1. Newer(p)
      BY <1>1 DEF RestoreInv, LeasesAreThePlans, p
    <2> QED BY <1>1, <1>2, <1>3, <2>1 DEF RestoreInv, LeasesAreThePlans, At, Finishing, Newer
  <1>12. ~Logged("restore-complete", p.snap, p.id)
    BY <1>6 DEF RestoreInv, PlansAreKnown, Logged
  <1>13. CompletionGoesOn'
    <2>1. Sole(p) => ~leases[p.snap].released
      BY <1>1 DEF RestoreInv, CompletionGoesOn, p
    <2>2. \A v \in Threads : At(v, "unprotect") \/ At(v, "release") => call'[v] = call[v]
      BY <1>1 DEF At
    <2>3. \A u \in Threads : At(u, "protect")' /\ Sole(call[u].plan)' =>
             ~leases'[call'[u].plan.snap].released
      BY <1>1, <1>2, <1>3 DEF RestoreInv, CompletionGoesOn, At, Sole
    <2>4. ASSUME NEW q \in plans', Sole(q)'
          PROVE  /\ leases'[q.snap].released /\ q.id \in restoreRefs'[q.snap] =>
                      \E v \in Threads : At(v, "unprotect")' /\ call'[v].plan = q
                 /\ ~leases'[q.snap].released /\ Logged("restore-complete", q.snap, q.id)' =>
                      \E v \in Threads : At(v, "release")' /\ call'[v].plan = q
      <3>1. Sole(q) /\ (Logged("restore-complete", q.snap, q.id)' =>
                           Logged("restore-complete", q.snap, q.id))
        BY <1>2, <2>4 DEF Sole, Logged
      <3>2. CASE q = p
        BY <1>2, <1>12, <2>1, <3>1, <3>2
      <3>3. CASE q \in plans
        BY <1>2, <1>8, <2>2, <3>1, <3>3 DEF RestoreInv, CompletionGoesOn, At
      <3> QED BY <1>1, <3>2, <3>3
    <2> QED BY <2>3, <2>4 DEF CompletionGoesOn
  <1>14. UnprotectedIsComplete'
    BY <1>1, <1>2, <1>5, <1>8 DEF RestoreInv, UnprotectedIsComplete, Logged
  <1> QED BY <1>9, <1>10, <1>11, <1>13, <1>14 DEF RestoreInv

LEMMA FailedKeeps ==
    ASSUME RestoreInv, RestoreTypeOK', NEW t \in Threads, FailedReadLease(t) \/ FailedRelease(t)
    PROVE  RestoreInv'
  <1>0. RestoreTypeOK
    BY DEF RestoreInv
  <1>1. /\ \A u \in Threads \ {t} : call'[u] = call[u]
        /\ call[t].pc \in {"failed", "undo"}
        /\ \/ call'[t].pc = "undo" /\ call'[t].owner = call[t].owner
           \/ call'[t].pc = "idle"
    BY <1>0, FailedSteps DEF At, Idle
  <1>2. restoreRefs' = restoreRefs /\ entries' = entries /\ plans' = plans
    BY DEF FailedReadLease, FailedRelease
  <1>3. /\ call[t].snap \in Snapshots /\ call[t].owner \in Owners
        /\ OwnerOf(t) = call[t].owner /\ Opening(t)
    BY <1>0, <1>1, CallFields DEF At, OwnerOf, Opening
  <1>4. \/ leases' = leases
        \/ /\ Releasable(call[t].snap, call[t].owner, call[t].epoch)
           /\ leases'[call[t].snap].epoch = leases[call[t].snap].epoch
           /\ leases'[call[t].snap].owner = leases[call[t].snap].owner
           /\ \A s \in Snapshots \ {call[t].snap} : leases'[s] = leases[s]
    <2>1. call[t].snap \in Resources /\ Resources = Snapshots
      BY <1>3, RestoreAssumption
    <2> QED BY <1>0, <2>1, FailedSteps, ReleaseKeeps DEF RestoreTypeOK
  <1>5. ASSUME NEW p \in Plan, Newer(p)
        PROVE  /\ Newer(p)' /\ (Sole(p)' <=> Sole(p))
               /\ Sole(p) /\ p.owner # call[t].owner => leases'[p.snap] = leases[p.snap]
    <2>1. p.snap \in Snapshots
      BY DEF Plan
    <2> QED BY <1>3, <1>4, <1>5, <2>1 DEF Newer, Sole, Releasable
  <1>6. \A p \in plans : Newer(p) /\ p \in Plan /\ (p.owner \notin SharedOwners => p.owner # call[t].owner)
    BY <1>0, <1>3 DEF RestoreInv, LeasesAreThePlans, OwnersAreSole, RestoreTypeOK
  <1>7. \A u \in Threads : At(u, "protect") =>
          /\ u # t /\ call'[u] = call[u] /\ call[u].plan \in Plan /\ Newer(call[u].plan)
          /\ call[u].plan.owner \notin SharedOwners => call[u].plan.owner # call[t].owner
    <2>1. \A u \in Threads : At(u, "protect") => OwnerOf(u) = call[u].plan.owner /\ Opening(u) /\ u # t
      BY <1>1 DEF OwnerOf, Opening, At
    <2> QED BY <1>0, <1>1, <1>3, <2>1, CallFields DEF RestoreInv, LeasesAreThePlans, OwnersAreSole
  <1>8. PlansAreKnown'
    BY <1>1, <1>2 DEF RestoreInv, PlansAreKnown, At, Finishing, Logged
  <1>9. OwnersAreSole'
    BY <1>1, <1>2 DEF RestoreInv, OwnersAreSole, At, Opening, OwnerOf
  <1>10. LeasesAreThePlans'
    <2>1. \A p \in plans : Newer(p)'
      BY <1>5, <1>6
    <2>2. \A u \in Threads : At(u, "protect") => Newer(call[u].plan)'
      BY <1>5, <1>7 DEF Newer
    <2>3. ASSUME NEW u \in Threads, Finishing(u)
          PROVE  /\ call[u].plan.epoch <= call[u].epoch
                 /\ call[u].epoch <= leases'[call[u].plan.snap].epoch
      <3>1. call[u].plan.snap \in Snapshots
        BY <1>0, <2>3, CallFields DEF Plan
      <3>2. leases'[call[u].plan.snap].epoch = leases[call[u].plan.snap].epoch
        BY <1>4, <3>1
      <3> QED BY <2>3, <3>2 DEF RestoreInv, LeasesAreThePlans
    <2> QED BY <1>1, <1>2, <2>1, <2>2, <2>3 DEF LeasesAreThePlans, At, Finishing
  <1>11. CompletionGoesOn'
    <2>1. \A u \in Threads : At(u, "protect")' /\ Sole(call[u].plan)' =>
             ~leases'[call'[u].plan.snap].released
      BY <1>1, <1>5, <1>7 DEF RestoreInv, CompletionGoesOn, At, Sole
    <2>2. \A v \in Threads : At(v, "unprotect") \/ At(v, "release") => call'[v] = call[v]
      BY <1>1 DEF At
    <2>3. \A p \in plans : Sole(p)' => Sole(p) /\ leases'[p.snap] = leases[p.snap]
      BY <1>5, <1>6 DEF Sole
    <2> QED BY <1>2, <2>1, <2>2, <2>3 DEF RestoreInv, CompletionGoesOn, At, Logged
  <1>12. UnprotectedIsComplete'
    BY <1>2 DEF RestoreInv, UnprotectedIsComplete, Logged
  <1> QED BY <1>8, <1>9, <1>10, <1>11, <1>12 DEF RestoreInv

(* What the journal says after an entry for a plan was appended. *)
LEMMA AppendLogs ==
    ASSUME entries \in Seq(CompleteEntry), NEW p \in Plan, NEW e \in Nat,
           entries' = Append(entries, [kind |-> "restore-complete", snap |-> p.snap,
                                       op |-> p.id, gen |-> e])
    PROVE  /\ \A s, id : Logged("restore-complete", s, id)' <=>
                 Logged("restore-complete", s, id) \/ (s = p.snap /\ id = p.id)
           /\ \A i \in DOMAIN entries' : (entries'[i].op = p.id) \/ (i \in DOMAIN entries /\ entries'[i] = entries[i])
  <1>1. [kind |-> "restore-complete", snap |-> p.snap, op |-> p.id, gen |-> e] \in CompleteEntry
    BY DEF CompleteEntry, Plan
  <1>2. /\ Len(entries') = Len(entries) + 1
        /\ Len(entries) \in Nat
        /\ DOMAIN entries = 1..Len(entries)
        /\ DOMAIN entries' = 1..Len(entries) + 1
        /\ \A i \in 1..Len(entries) : entries'[i] = entries[i]
        /\ entries'[Len(entries) + 1] =
              [kind |-> "restore-complete", snap |-> p.snap, op |-> p.id, gen |-> e]
    BY <1>1
  <1>3. /\ entries'[Len(entries) + 1].kind = "restore-complete"
        /\ entries'[Len(entries) + 1].snap = p.snap
        /\ entries'[Len(entries) + 1].op = p.id
    BY <1>2
  <1>4. \A i \in DOMAIN entries' : i \in DOMAIN entries \/ i = Len(entries) + 1
    BY <1>2
  <1>5. \A i \in DOMAIN entries : i \in DOMAIN entries' /\ entries'[i] = entries[i]
    BY <1>2
  <1>6. Len(entries) + 1 \in DOMAIN entries'
    BY <1>2
  <1> QED BY <1>3, <1>4, <1>5, <1>6 DEF Logged

LEMMA JournalKeeps ==
    ASSUME RestoreInv, RestoreTypeOK', NEW t \in Threads, JournalComplete(t)
    PROVE  RestoreInv'
  <1>0. RestoreTypeOK
    BY DEF RestoreInv
  <1> DEFINE p == call[t].plan
  <1>1. /\ At(t, "complete") /\ p \in Plan /\ call[t].epoch \in Nat
        /\ \A u \in Threads \ {t} : call'[u] = call[u]
    BY <1>0, JournalStep, CallFields DEF At, Finishing
  <1>2. leases' = leases /\ restoreRefs' = restoreRefs /\ plans' = plans
    BY DEF JournalComplete
  <1>3. p \in plans
    BY <1>1 DEF RestoreInv, PlansAreKnown, Finishing, At
  <1>4. \/ /\ entries' = Append(entries, [kind |-> "restore-complete", snap |-> p.snap,
                                          op |-> p.id, gen |-> call[t].epoch])
           /\ call'[t].pc = "release" /\ call'[t].plan = p /\ call'[t].epoch = call[t].epoch
        \/ call'[t].pc = "idle" /\ entries' = entries
    BY <1>0, JournalStep DEF Idle
  <1>5. OwnersAreSole'
    BY <1>1, <1>2, <1>4 DEF RestoreInv, OwnersAreSole, At, Opening, OwnerOf
  <1>6. LeasesAreThePlans'
    BY <1>1, <1>2, <1>4 DEF RestoreInv, LeasesAreThePlans, At, Finishing, Newer
  <1>7. CASE call'[t].pc = "idle" /\ entries' = entries
    <2>1. PlansAreKnown'
      BY <1>1, <1>2, <1>7 DEF RestoreInv, PlansAreKnown, At, Finishing, Logged
    <2>2. CompletionGoesOn'
      BY <1>1, <1>2, <1>7 DEF RestoreInv, CompletionGoesOn, At, Sole, Logged
    <2>3. UnprotectedIsComplete'
      BY <1>2, <1>7 DEF RestoreInv, UnprotectedIsComplete, Logged
    <2> QED BY <1>5, <1>6, <2>1, <2>2, <2>3 DEF RestoreInv
  <1>8. CASE /\ entries' = Append(entries, [kind |-> "restore-complete", snap |-> p.snap,
                                            op |-> p.id, gen |-> call[t].epoch])
             /\ call'[t].pc = "release" /\ call'[t].plan = p
    <2>1. entries \in Seq(CompleteEntry)
      BY <1>0 DEF RestoreTypeOK
    <2> HIDE DEF p
    <2>2. /\ \A s, id : Logged("restore-complete", s, id)' <=>
                Logged("restore-complete", s, id) \/ (s = p.snap /\ id = p.id)
          /\ \A i \in DOMAIN entries' : (entries'[i].op = p.id) \/ (i \in DOMAIN entries /\ entries'[i] = entries[i])
      BY <1>1, <1>8, <2>1, AppendLogs
    <2>3. PlansAreKnown'
      <3>1. \A i \in DOMAIN entries' : \E q \in plans' : q.id = entries'[i].op
        BY <1>2, <1>3, <2>2 DEF RestoreInv, PlansAreKnown
      <3>2. \A u \in Threads :
              /\ Finishing(u)' => call'[u].plan \in plans'
              /\ call'[u].pc \in {"release", "unprotect"} =>
                    Logged("restore-complete", call[u].plan.snap, call[u].plan.id)'
        BY <1>1, <1>2, <1>3, <1>8, <2>2 DEF RestoreInv, PlansAreKnown, Finishing
      <3>3. \A u \in Threads : At(u, "protect")' =>
              /\ \A q \in plans' : q.id # call'[u].plan.id
              /\ \A v \in Threads \ {u} : At(v, "protect")' => call'[v].plan.id # call'[u].plan.id
        BY <1>1, <1>2, <1>8 DEF RestoreInv, PlansAreKnown, At
      <3>4. /\ \A q, r \in plans' : q.id = r.id => q = r
            /\ \A s \in Snapshots : \A id \in restoreRefs'[s] : \E q \in plans' : q.id = id /\ q.snap = s
        BY <1>2 DEF RestoreInv, PlansAreKnown
      <3> QED BY <3>1, <3>2, <3>3, <3>4 DEF PlansAreKnown
    <2>4. CompletionGoesOn'
      <3>1. \A u \in Threads : At(u, "protect")' /\ Sole(call[u].plan)' =>
               ~leases'[call'[u].plan.snap].released
        BY <1>1, <1>2, <1>8 DEF RestoreInv, CompletionGoesOn, At, Sole
      <3>2. \A v \in Threads : At(v, "unprotect") \/ At(v, "release") => call'[v] = call[v]
        BY <1>1 DEF At
      <3>3. At(t, "release")' /\ call'[t].plan = p
        BY <1>8 DEF At
      <3>4. \A q \in plans : q.id = p.id => q = p
        BY <1>3 DEF RestoreInv, PlansAreKnown
      <3>5. \A q \in plans : Sole(q)' => Sole(q)
        BY <1>2 DEF Sole
      <3> QED BY <1>2, <2>2, <3>1, <3>2, <3>3, <3>4, <3>5 DEF RestoreInv, CompletionGoesOn, At
    <2>5. UnprotectedIsComplete'
      BY <1>2, <2>2 DEF RestoreInv, UnprotectedIsComplete
    <2> QED BY <1>5, <1>6, <2>3, <2>4, <2>5 DEF RestoreInv
  <1> QED BY <1>4, <1>7, <1>8

LEMMA ReleaseRestoreKeeps ==
    ASSUME RestoreInv, RestoreTypeOK', NEW t \in Threads, ReleaseRestore(t)
    PROVE  RestoreInv'
  <1>0. RestoreTypeOK
    BY DEF RestoreInv
  <1> DEFINE p == call[t].plan
  <1>1. /\ At(t, "release") /\ p \in Plan /\ call[t].epoch \in Nat
        /\ \A u \in Threads \ {t} : call'[u] = call[u]
    BY <1>0, ReleaseStep, CallFields DEF At, Finishing
  <1>2. restoreRefs' = restoreRefs /\ entries' = entries /\ plans' = plans
    BY DEF ReleaseRestore
  <1>3. p \in plans /\ p.snap \in Snapshots /\ p.epoch \in Nat /\ leases[p.snap].epoch \in Nat
    <2>1. p \in plans
      BY <1>1 DEF RestoreInv, PlansAreKnown, Finishing, At
    <2>2. p.snap \in Snapshots /\ p.epoch \in Nat
      BY <1>1 DEF Plan
    <2> QED BY <1>0, <2>1, <2>2, RestoreAssumption DEF RestoreTypeOK, LeaseTypeOK, Lease
  <1>4. \/ /\ Releasable(p.snap, p.owner, call[t].epoch)
           /\ leases'[p.snap].epoch = leases[p.snap].epoch
           /\ leases'[p.snap].owner = leases[p.snap].owner
           /\ leases'[p.snap].released
           /\ \A s \in Snapshots \ {p.snap} : leases'[s] = leases[s]
           /\ call'[t].pc = "unprotect" /\ call'[t].plan = p /\ call'[t].epoch = call[t].epoch
        \/ /\ ~Releasable(p.snap, p.owner, call[t].epoch)
           /\ leases' = leases /\ call'[t].pc = "idle"
    <2>1. p.snap \in Resources /\ Resources = Snapshots
      BY <1>3, RestoreAssumption
    <2> QED BY <1>0, <2>1, ReleaseStep, ReleaseKeeps DEF RestoreTypeOK, Idle
  <1>5. Sole(p) => call[t].epoch = leases[p.snap].epoch /\ leases[p.snap].owner = p.owner
    BY <1>1, <1>3 DEF RestoreInv, LeasesAreThePlans, Finishing, At, Newer, Sole
  <1>6. \A s \in Snapshots : /\ leases'[s].epoch = leases[s].epoch
                             /\ leases'[s].owner = leases[s].owner
    BY <1>3, <1>4
  <1>7. \A q \in Plan : (Newer(q)' <=> Newer(q)) /\ (Sole(q)' <=> Sole(q))
    BY <1>6 DEF Newer, Sole, Plan
  <1>8. \A q \in plans : q \in Plan /\ q.snap \in Snapshots
    BY <1>0 DEF RestoreTypeOK, Plan
  <1>9. \A u \in Threads : At(u, "protect")' =>
          u # t /\ At(u, "protect") /\ call'[u] = call[u] /\ call[u].plan \in Plan
    BY <1>0, <1>1, <1>4, CallFields DEF At
  <1>10. \A q \in Plan : /\ Newer(q) /\ Sole(q) /\ q.owner # p.owner
                         => leases'[q.snap] = leases[q.snap]
    BY <1>3, <1>4 DEF Newer, Sole, Releasable, Plan
  <1> HIDE DEF p
  <1>11. PlansAreKnown'
    BY <1>1, <1>2, <1>3, <1>4 DEF RestoreInv, PlansAreKnown, At, Finishing, Logged, p
  <1>12. OwnersAreSole'
    BY <1>1, <1>2, <1>4 DEF RestoreInv, OwnersAreSole, At, Opening, OwnerOf
  <1>13. LeasesAreThePlans'
    <2>1. \A q \in plans' : Newer(q)'
      BY <1>2, <1>7, <1>8 DEF RestoreInv, LeasesAreThePlans
    <2>2. \A u \in Threads : At(u, "protect")' => Newer(call[u].plan)'
      BY <1>7, <1>9 DEF RestoreInv, LeasesAreThePlans, Newer
    <2>3. ASSUME NEW u \in Threads, Finishing(u)'
          PROVE  /\ call'[u].plan.epoch <= call'[u].epoch
                 /\ call'[u].epoch <= leases'[call'[u].plan.snap].epoch
      <3>1. Finishing(u) /\ call'[u].plan = call[u].plan /\ call'[u].epoch = call[u].epoch
        BY <1>1, <1>4, <2>3 DEF Finishing, At, p
      <3>2. call[u].plan.snap \in Snapshots
        BY <1>0, <3>1, CallFields DEF Plan
      <3> QED BY <1>6, <3>1, <3>2 DEF RestoreInv, LeasesAreThePlans
    <2> QED BY <2>1, <2>2, <2>3 DEF LeasesAreThePlans
  <1>14. CompletionGoesOn'
    <2>1. ASSUME NEW u \in Threads, At(u, "protect")', Sole(call[u].plan)'
          PROVE  ~leases'[call'[u].plan.snap].released
      <3>1. /\ u # t /\ At(u, "protect") /\ call'[u] = call[u]
            /\ call[u].plan \in Plan /\ Newer(call[u].plan)
        BY <1>9, <2>1 DEF RestoreInv, LeasesAreThePlans
      <3>2. Sole(call[u].plan)
        BY <1>7, <2>1, <3>1 DEF Sole
      <3>3. call[u].plan.owner # p.owner
        BY <1>3, <3>1, <3>2 DEF RestoreInv, OwnersAreSole, Opening, OwnerOf, At, Sole
      <3> QED BY <1>10, <3>1, <3>2, <3>3 DEF RestoreInv, CompletionGoesOn
    <2>2. ASSUME NEW q \in plans, Sole(q)'
          PROVE  /\ leases'[q.snap].released /\ q.id \in restoreRefs'[q.snap] =>
                      \E v \in Threads : At(v, "unprotect")' /\ call'[v].plan = q
                 /\ ~leases'[q.snap].released /\ Logged("restore-complete", q.snap, q.id)' =>
                      \E v \in Threads : At(v, "release")' /\ call'[v].plan = q
      <3>1. Sole(q) /\ Newer(q) /\ q \in Plan
        BY <1>7, <1>8, <2>2 DEF RestoreInv, LeasesAreThePlans
      <3>2. \A v \in Threads : At(v, "unprotect") => v # t /\ call'[v] = call[v]
        BY <1>1 DEF At
      <3>3. Logged("restore-complete", q.snap, q.id)' => Logged("restore-complete", q.snap, q.id)
        BY <1>2 DEF Logged
      <3>4. CASE q = p
        <4>1. CASE Releasable(p.snap, p.owner, call[t].epoch)
          <5>1. leases'[p.snap].released /\ At(t, "unprotect")' /\ call'[t].plan = p
            BY <1>4, <4>1 DEF At
          <5> QED BY <3>4, <5>1
        <4>2. CASE ~Releasable(p.snap, p.owner, call[t].epoch)
          <5>1. leases[p.snap].released /\ leases' = leases
            BY <1>4, <1>5, <3>1, <3>4, <4>2 DEF Releasable
          <5> QED BY <1>2, <3>1, <3>2, <3>4, <5>1 DEF RestoreInv, CompletionGoesOn, At
        <4> QED BY <4>1, <4>2
      <3>5. CASE q # p
        <4>1. q.owner # p.owner
          BY <1>3, <3>1, <3>5 DEF RestoreInv, OwnersAreSole, Sole
        <4>2. leases'[q.snap] = leases[q.snap]
          BY <1>10, <3>1, <4>1
        <4>3. \A v \in Threads : At(v, "release") /\ call[v].plan = q => v # t /\ call'[v] = call[v]
          BY <1>1, <3>5 DEF p
        <4> QED BY <1>2, <3>1, <3>2, <3>3, <4>2, <4>3 DEF RestoreInv, CompletionGoesOn, At
      <3> QED BY <3>4, <3>5
    <2> QED BY <1>2, <2>1, <2>2 DEF CompletionGoesOn
  <1>15. UnprotectedIsComplete'
    BY <1>2 DEF RestoreInv, UnprotectedIsComplete, Logged
  <1> QED BY <1>11, <1>12, <1>13, <1>14, <1>15 DEF RestoreInv

LEMMA UnprotectKeeps ==
    ASSUME RestoreInv, RestoreTypeOK', NEW t \in Threads, Unprotect(t)
    PROVE  RestoreInv'
  <1>0. RestoreTypeOK
    BY DEF RestoreInv
  <1> DEFINE p == call[t].plan
  <1>1. /\ At(t, "unprotect") /\ p \in Plan
        /\ call'[t] = Idle
        /\ \A u \in Threads \ {t} : call'[u] = call[u]
        /\ restoreRefs'[p.snap] = restoreRefs[p.snap] \ {p.id}
        /\ \A s \in Snapshots \ {p.snap} : restoreRefs'[s] = restoreRefs[s]
    BY <1>0, UnprotectStep
  <1>2. leases' = leases /\ entries' = entries /\ plans' = plans
    BY DEF Unprotect
  <1>3. call'[t].pc = "idle"
    BY <1>1 DEF Idle
  <1>4. p \in plans /\ p.snap \in Snapshots /\ Logged("restore-complete", p.snap, p.id)
    BY <1>1 DEF RestoreInv, PlansAreKnown, Finishing, At, Plan
  <1>5. \A q \in plans : q.snap \in Snapshots
    BY <1>0 DEF RestoreTypeOK, Plan
  <1>6. \A q \in plans : q.id \in restoreRefs'[q.snap] <=> q.id \in restoreRefs[q.snap] /\ q # p
    BY <1>1, <1>4, <1>5 DEF RestoreInv, PlansAreKnown
  <1>7. \A s \in Snapshots : restoreRefs'[s] \subseteq restoreRefs[s]
    BY <1>1
  <1> HIDE DEF p
  <1>8. PlansAreKnown'
    BY <1>1, <1>2, <1>3, <1>7 DEF RestoreInv, PlansAreKnown, At, Finishing, Logged
  <1>9. OwnersAreSole'
    BY <1>1, <1>2, <1>3 DEF RestoreInv, OwnersAreSole, At, Opening, OwnerOf
  <1>10. LeasesAreThePlans'
    BY <1>1, <1>2, <1>3 DEF RestoreInv, LeasesAreThePlans, At, Finishing, Newer
  <1>11. CompletionGoesOn'
    <2>1. \A u \in Threads : At(u, "protect")' /\ Sole(call[u].plan)' =>
             ~leases'[call'[u].plan.snap].released
      BY <1>1, <1>2, <1>3 DEF RestoreInv, CompletionGoesOn, At, Sole
    <2>2. \A q \in plans : q # p => \A v \in Threads : At(v, "unprotect") /\ call[v].plan = q => call'[v] = call[v]
      BY <1>1 DEF p
    <2>3. \A v \in Threads : At(v, "release") => call'[v] = call[v]
      BY <1>1 DEF At
    <2>4. \A q \in plans : /\ Sole(q)' => Sole(q)
                           /\ Logged("restore-complete", q.snap, q.id)' => Logged("restore-complete", q.snap, q.id)
      BY <1>2 DEF Sole, Logged
    <2> QED BY <1>2, <1>6, <2>1, <2>2, <2>3, <2>4 DEF RestoreInv, CompletionGoesOn, At
  <1>12. UnprotectedIsComplete'
    BY <1>2, <1>4, <1>6 DEF RestoreInv, UnprotectedIsComplete, Logged
  <1> QED BY <1>8, <1>9, <1>10, <1>11, <1>12 DEF RestoreInv

------------------------------------------------------------------------------
(* Nothing is restored at the start. *)
LEMMA RestoreInvInit == RestoreInit => RestoreInv
  <1> SUFFICES ASSUME RestoreInit PROVE RestoreInv OBVIOUS
  <1>1. NoLease \in Lease /\ Absent \in Record /\ Idle \in Call
    BY DEF NoLease, Lease, Absent, Record, States, Call
  <1>2. RestoreTypeOK
    <2>1. LeaseTypeOK
      BY <1>1 DEF RestoreInit, LeaseInit, LeaseTypeOK
    <2>2. CatalogTypeOK
      BY <1>1 DEF RestoreInit, CatalogInit, CatalogTypeOK
    <2>3. entries \in Seq(CompleteEntry)
      BY DEF RestoreInit, JournalInit
    <2>4. closed \in BOOLEAN
      BY Zenon DEF RestoreInit, JournalInit
    <2> QED BY <1>1, <2>1, <2>2, <2>3, <2>4 DEF RestoreInit, RestoreTypeOK
  <1>3. \A t \in Threads : call[t].pc = "idle"
    BY DEF RestoreInit, Idle
  <1>4. plans = {} /\ entries = <<>> /\ \A s \in Snapshots : restoreRefs[s] = {}
    BY DEF RestoreInit, CatalogInit, JournalInit
  <1>5. PlansAreKnown
    BY <1>3, <1>4 DEF PlansAreKnown, At, Finishing
  <1>6. OwnersAreSole /\ LeasesAreThePlans /\ CompletionGoesOn /\ UnprotectedIsComplete
    BY <1>3, <1>4 DEF OwnersAreSole, LeasesAreThePlans, CompletionGoesOn, UnprotectedIsComplete,
                      At, Finishing, Opening
  <1> QED BY <1>2, <1>5, <1>6 DEF RestoreInv

LEMMA RestoreInvStep ==
    ASSUME RestoreInv, [RestoreNext]_restoreVars
    PROVE  RestoreInv'
  <1>0. RestoreTypeOK'
    BY RestoreTypeStep DEF RestoreInv
  <1>1. ASSUME NEW s \in Snapshots, Publish(s)
        PROVE  RestoreInv'
    BY <1>0, <1>1, StillKeeps DEF Publish
  <1>2. ASSUME NEW t \in Threads, NEW s \in Snapshots, NEW o \in Owners, BeginRestore(t, s, o)
        PROVE  RestoreInv'
    BY <1>0, <1>2, BeginKeeps
  <1>3. ASSUME NEW t \in Threads, NEW p \in plans, FinishRestore(t, p)
        PROVE  RestoreInv'
    BY <1>0, <1>3, FinishKeeps
  <1>4. ASSUME NEW t \in Threads, NEW keep, ApplyRetention(t, keep)
        PROVE  RestoreInv'
    BY <1>0, <1>4, StillKeeps DEF ApplyRetention
  <1>5. CASE /\ \/ Tick /\ UNCHANGED <<entries, closed>>
                \/ (CloseJournal \/ OpenJournal) /\ UNCHANGED <<now, leases>>
             /\ UNCHANGED <<catalog, restoreRefs, plans, late, call>>
    BY <1>0, <1>5, StillKeeps DEF Tick, CloseJournal, OpenJournal
  <1>6. ASSUME NEW t \in Threads, Step(t)
        PROVE  RestoreInv'
    BY <1>0, <1>6, AcquireKeeps, ProtectKeeps, FailedKeeps, JournalKeeps, ReleaseRestoreKeeps,
       UnprotectKeeps DEF Step
  <1>7. CASE UNCHANGED restoreVars
    BY <1>0, <1>7, StillKeeps DEF restoreVars
  <1> QED BY <1>1, <1>2, <1>3, <1>4, <1>5, <1>6, <1>7 DEF RestoreNext, Environment

(* The state of BeginRestore, FinishRestore and ApplyRetention always
   satisfies the inductive invariant: a reference is dropped only once the
   completion is journaled; and a restore with an owner name of its own and a
   lease nobody has taken over has, once it is completed, a call that goes on
   to release the lease, and, once that is released, a call that goes on to
   drop the reference. *)
THEOREM RestoreInvariant == RestoreSpec => []RestoreInv
  <1>1. RestoreInv /\ [RestoreNext]_restoreVars => RestoreInv'
    BY RestoreInvStep
  <1> QED BY RestoreInvInit, <1>1, PTL DEF RestoreSpec

(* A restore with an owner of its own whose completion is journaled holds no
   reference once no FinishRestore is in progress on it, unless its lease was
   taken over. *)
THEOREM RestoreLeavesNoReference == RestoreSpec => []CompleteHoldsNoReference
  <1>1. RestoreInv => CompleteHoldsNoReference
    <2> SUFFICES ASSUME RestoreInv,
                        NEW p \in plans,
                        p.owner \notin SharedOwners,
                        leases[p.snap].epoch = p.epoch,
                        Logged("restore-complete", p.snap, p.id),
                        \A t \in Threads : Finishing(t) => call[t].plan # p
                 PROVE  p.id \notin restoreRefs[p.snap]
      BY DEF CompleteHoldsNoReference
    <2>1. Sole(p)
      BY DEF Sole
    <2>2. \A t \in Threads : At(t, "release") \/ At(t, "unprotect") => call[t].plan # p
      BY DEF At, Finishing
    <2> QED BY <2>1, <2>2 DEF RestoreInv, CompletionGoesOn
  <1> QED BY <1>1, RestoreInvariant, PTL

(* A step leaves a snapshot alone that a reference came for in time: retention
   passes over it, and the other operations do not expire anything. *)
LEMMA ProtectedStep ==
    ASSUME RestoreInv, ProtectedIsNotExpired, [RestoreNext]_restoreVars
    PROVE  ProtectedIsNotExpired'
  <1>0. /\ catalog \in [Snapshots -> Record]
        /\ RestoreTypeOK
        /\ \A p \in plans : p.snap \in Snapshots
    BY DEF RestoreInv, RestoreTypeOK, CatalogTypeOK, Plan
  <1>1. CASE UNCHANGED <<catalog, restoreRefs, plans, late>>
    BY <1>1 DEF ProtectedIsNotExpired
  <1>2. ASSUME NEW s \in Snapshots, Publish(s)
        PROVE  ProtectedIsNotExpired'
    <2>1. \A r \in Snapshots : catalog'[r].state = "expired" => catalog[r].state = "expired"
      BY <1>0, <1>2 DEF Publish, CommitSnapshot
    <2> QED BY <1>0, <1>2, <2>1 DEF Publish, ProtectedIsNotExpired
  <1>3. ASSUME NEW t \in Threads, NEW keep, ApplyRetention(t, keep)
        PROVE  ProtectedIsNotExpired'
    <2>1. PICK kept \in SUBSET Snapshots :
            catalog' = [s \in Snapshots |->
              IF Exists(s) /\ s \notin kept /\ restoreRefs[s] = {}
              THEN [catalog[s] EXCEPT !.state = "expired"] ELSE catalog[s]]
      BY <1>3 DEF ApplyRetention, ExpireUnprotected
    <2>2. \A s \in Snapshots : restoreRefs[s] # {} => catalog'[s] = catalog[s]
      BY <2>1
    <2> QED BY <1>0, <1>3, <2>2 DEF ApplyRetention, ProtectedIsNotExpired
  <1>4. ASSUME NEW t \in Threads, Protect(t)
        PROVE  ProtectedIsNotExpired'
    <2> DEFINE p == call[t].plan
    <2>1. /\ plans' = plans \union {p}
          /\ catalog' = catalog
          /\ late' = IF catalog[p.snap].state = "expired" THEN late \union {p.id} ELSE late
      BY <1>4 DEF Protect
    <2>2. /\ p.snap \in Snapshots
          /\ restoreRefs'[p.snap] = restoreRefs[p.snap] \union {p.id}
          /\ \A s \in Snapshots \ {p.snap} : restoreRefs'[s] = restoreRefs[s]
      BY <1>0, <1>4, ProtectStep DEF Plan
    <2>3. \A q \in plans : q.id # p.id
      BY <1>4 DEF Protect, RestoreInv, PlansAreKnown
    <2> HIDE DEF p
    <2>4. ASSUME NEW q \in plans', q.id \notin late', q.id \in restoreRefs'[q.snap]
          PROVE  catalog'[q.snap].state # "expired"
      <3>1. CASE q = p
        BY <2>1, <2>4, <3>1
      <3>2. CASE q \in plans
        BY <1>0, <2>1, <2>2, <2>3, <2>4, <3>2 DEF ProtectedIsNotExpired
      <3> QED BY <2>1, <3>1, <3>2
    <2> QED BY <2>4 DEF ProtectedIsNotExpired
  <1>5. ASSUME NEW t \in Threads, Unprotect(t)
        PROVE  ProtectedIsNotExpired'
    <2>1. \A s \in Snapshots : restoreRefs'[s] \subseteq restoreRefs[s]
      BY <1>0, <1>5 DEF Unprotect, RemoveRestoreReference, RestoreTypeOK, CatalogTypeOK
    <2> QED BY <1>0, <1>5, <2>1 DEF Unprotect, ProtectedIsNotExpired
  <1>6. ASSUME NEW t \in Threads, Step(t), ~Protect(t), ~Unprotect(t)
        PROVE  UNCHANGED <<catalog, restoreRefs, plans, late>>
    BY <1>6 DEF Step, Acquire, FailedReadLease, FailedRelease, JournalComplete, ReleaseRestore
  <1>7. ASSUME NEW t \in Threads, NEW s \in Snapshots, NEW o \in Owners, BeginRestore(t, s, o)
        PROVE  UNCHANGED <<catalog, restoreRefs, plans, late>>
    BY <1>7 DEF BeginRestore
  <1>8. ASSUME NEW t \in Threads, NEW p \in plans, FinishRestore(t, p)
        PROVE  UNCHANGED <<catalog, restoreRefs, plans, late>>
    BY <1>8 DEF FinishRestore
  <1>9. CASE UNCHANGED restoreVars
    BY <1>1, <1>9 DEF restoreVars
  <1> QED
    BY <1>1, <1>2, <1>3, <1>4, <1>5, <1>6, <1>7, <1>8, <1>9 DEF RestoreNext, Environment

(* The snapshot of a restore whose completion is not journaled does not
   expire, for any plans, goroutines and calls of ApplyRetention, unless it had
   expired before its reference was added: as long as nothing is journaled the
   reference stays, and retention passes over what a reference protects. *)
THEOREM UnfinishedNeverExpires == RestoreSpec => []UnfinishedIsNotExpired
  <1>1. RestoreInit => ProtectedIsNotExpired
    BY DEF RestoreInit, ProtectedIsNotExpired
  <1>2. RestoreInv /\ ProtectedIsNotExpired /\ [RestoreNext]_restoreVars
            => ProtectedIsNotExpired'
    BY ProtectedStep
  <1>3. RestoreInv /\ ProtectedIsNotExpired => UnfinishedIsNotExpired
    BY DEF RestoreInv, UnprotectedIsComplete, ProtectedIsNotExpired, UnfinishedIsNotExpired
  <1> QED BY <1>1, <1>2, <1>3, RestoreInvariant, PTL DEF RestoreSpec
=============================================================================
