----------------------------- MODULE LeaseStore -----------------------------
(***************************************************************************)
(* internal/lease/store.go and the clock of internal/model/types.go.       *)
(*                                                                         *)
(* Store.mu makes Acquire, Validate, Release and Lease atomic, so each is  *)
(* one operator here and a service call is a sequence of them.  The map    *)
(* epochs always holds the epoch of the lease stored last for a resource   *)
(* (both are written in Acquire and nowhere else), so it is not a variable *)
(* of its own: a resource that was never leased has epoch 0.               *)
(***************************************************************************)
EXTENDS Integers

CONSTANTS Resources,   \* the resources that are leased ("capture:<id>", ...)
          Owners,      \* lease owners (nodes)
          TTLs,        \* durations a caller may ask for
          NoOwner,     \* owner of a lease that does not exist
          MaxTime      \* BOUND on the clock

ASSUME LeaseAssumption ==
    /\ TTLs \subseteq Nat \ {0}
    /\ NoOwner \notin Owners
    /\ MaxTime \in Nat

VARIABLES now,      \* what clock.Now() returns
          leases    \* resource -> its newest lease

Lease == [owner: Owners \union {NoOwner}, epoch: Nat, deadline: Nat, released: BOOLEAN]

NoLease == [owner |-> NoOwner, epoch |-> 0, deadline |-> 0, released |-> TRUE]

LeaseInit ==
    /\ now = 0
    /\ leases = [r \in Resources |-> NoLease]

LeaseTypeOK ==
    /\ now \in Nat
    /\ leases \in [Resources -> Lease]

(* A mutant of AcquireLease: the epoch counter is not advanced. *)
AcquireSameEpoch(r, o, t, ttl) ==
    leases' = [leases EXCEPT ![r] =
        [owner |-> o, epoch |-> IF @.epoch = 0 THEN 1 ELSE @.epoch,
         deadline |-> t + ttl, released |-> FALSE]]

(* The lease of r keeps others out at time t. *)
Held(r, t) == ~leases[r].released /\ t < leases[r].deadline

(* Acquire, once it has found r not Held; t is the time the caller read. *)
AcquireLease(r, o, t, ttl) ==
    leases' = [leases EXCEPT ![r] =
        [owner |-> o, epoch |-> @.epoch + 1, deadline |-> t + ttl, released |-> FALSE]]

(* A mutant of Valid: a lease is known by its owner alone. *)
ValidAnyEpoch(r, o, e, t) == Held(r, t) /\ leases[r].owner = o

(* Validate returns nil. *)
Valid(r, o, e, t) ==
    /\ Held(r, t)
    /\ leases[r].owner = o
    /\ leases[r].epoch = e

(* Release returns nil; unlike Valid it does not look at the deadline. *)
Releasable(r, o, e) ==
    /\ ~leases[r].released
    /\ leases[r].owner = o
    /\ leases[r].epoch = e

ReleaseLease(r) == leases' = [leases EXCEPT ![r].released = TRUE]

(* Release with its error ignored by the caller. *)
ReleaseIfOwned(r, o, e) ==
    IF Releasable(r, o, e) THEN ReleaseLease(r) ELSE UNCHANGED leases

(* Time passes. *)
Tick ==
    /\ now < MaxTime
    /\ now' = now + 1
    /\ UNCHANGED leases
=============================================================================
