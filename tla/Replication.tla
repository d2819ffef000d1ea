----------------------------- MODULE Replication -----------------------------
(***************************************************************************)
(* internal/replication under PlanReplication and CompleteReplication of   *)
(* the service: the registry of destinations, the byte budget, the plans   *)
(* in the journal and the window of outcomes.                              *)
(*                                                                         *)
(* Budget, Registry, Window, journal, audit ledger and the completed map   *)
(* each have a lock of their own, so a call is a sequence of steps.  The   *)
(* id of a plan, "rep-<snapshot>-<generation>", is a function of its       *)
(* snapshot (a snapshot is published under one generation), which names it *)
(* here.  The catalog is no variable: a call whose copy of the snapshot is *)
(* missing, expired or without bytes changes nothing.  Of the audit        *)
(* ledger only "replication-planned" is kept, in plans: it is recorded on  *)
(* the way to the return.                                                  *)
(***************************************************************************)
EXTENDS Journal, Window, FiniteSetsExt

CONSTANTS Threads,
          Snapshots,
          Size,          \* snapshot -> bytes of its chunks
          Limit,         \* Budget.limit
          Destinations,  \* ids of destinations, ordered as numbers
          Capacities,    \* capacities destinations may be registered with
          Length,        \* Window.length
          MaxEntries,    \* BOUND on the journal
          MaxTime        \* BOUND on the clock

ASSUME ReplicationAssumption ==
    /\ IsFiniteSet(Snapshots)
    /\ Size \in [Snapshots -> Nat \ {0}]
    /\ Limit \in Nat /\ Length \in Nat /\ MaxEntries \in Nat /\ MaxTime \in Nat
    /\ Destinations \subseteq Nat /\ Capacities \subseteq Nat \ {0}

VARIABLES now,           \* what the clock shows
          registry,      \* destination -> capacity (0 if unknown) and health
          reservations,  \* Budget.reservations: plan -> bytes, 0 if none
          used,          \* Budget.used
          completed,     \* Dispatcher.completed
          items,         \* Window.items
          plans,         \* plans recorded as planned and returned to a caller
          call           \* goroutine -> the call it is in

budgetVars == <<reservations, used>>

replVars == <<now, registry, reservations, used, completed, items, plans,
              entries, closed, call>>

Plan == [snap: Snapshots, dests: SUBSET Destinations]

Outcome == [snap: Snapshots, dest: Destinations, ok: BOOLEAN, at: Nat]

PlanEntry == [kind: {"replication-plan"}, snap: Snapshots, op: Snapshots]

Idle == [pc |-> "idle"]

PlanPCs == {"has", "reserve", "closed", "append", "rollback", "audit"}

Call ==
    {Idle}
    \union [pc: {"eligible"}, snap: Snapshots]
    \union [pc: PlanPCs, plan: Plan]
    \union [pc: {"release"}, plan: Plan, ok: BOOLEAN]
    \union [pc: {"outcomes"}, plan: Plan, ok: BOOLEAN, at: Nat, todo: SUBSET Destinations]

ReplicationTypeOK ==
    /\ now \in Nat
    /\ registry \in [Destinations -> [capacity: Capacities \union {0}, healthy: BOOLEAN]]
    /\ reservations \in [Snapshots -> Nat]
    /\ used \in Nat
    /\ completed \subseteq Snapshots
    /\ items \in Seq(Outcome)
    /\ plans \subseteq Plan
    /\ entries \in Seq(PlanEntry)
    /\ closed \in BOOLEAN
    /\ call \in [Threads -> Call]

ReplicationInit ==
    /\ now = 0
    /\ registry = [d \in Destinations |-> [capacity |-> 0, healthy |-> FALSE]]
    /\ reservations = [s \in Snapshots |-> 0]
    /\ used = 0
    /\ completed = {}
    /\ items = <<>>
    /\ plans = {}
    /\ JournalInit
    /\ call = [t \in Threads |-> Idle]

At(t, pc) == call[t].pc = pc

Goto(t, pc) == call' = [call EXCEPT ![t].pc = pc]

Return(t) == call' = [call EXCEPT ![t] = Idle]

Become(t, c) == call' = [call EXCEPT ![t] = c]

------------------------------------------------------------------------------
(* The registry.                                                            *)

Register(d, capacity, healthy) ==
    /\ registry' = [registry EXCEPT ![d] = [capacity |-> capacity, healthy |-> healthy]]
    /\ UNCHANGED <<now, budgetVars, completed, items, plans, entries, closed, call>>

MarkHealth(d, healthy) ==
    /\ registry[d].capacity # 0
    /\ registry' = [registry EXCEPT ![d].healthy = healthy]
    /\ UNCHANGED <<now, budgetVars, completed, items, plans, entries, closed, call>>

Eligible(required) ==
    {d \in Destinations : registry[d].healthy /\ registry[d].capacity >= required}

------------------------------------------------------------------------------
(* PlanReplication(snapshotID)                                              *)

PlanReplication(t, s) ==
    /\ At(t, "idle")
    /\ Become(t, [pc |-> "eligible", snap |-> s])
    /\ UNCHANGED <<now, registry, budgetVars, completed, items, plans, entries, closed>>

(* Eligible and Planner.Build, which refuses a plan without destinations. *)
BuildPlan(t) ==
    /\ At(t, "eligible")
    /\ LET s == call[t].snap
           found == Eligible(Size[s])
       IN  IF found = {} THEN Return(t)
           ELSE Become(t, [pc |-> "has", plan |-> [snap |-> s, dests |-> found]])
    /\ UNCHANGED <<now, registry, budgetVars, completed, items, plans, entries, closed>>

HasReservation(t) ==
    /\ At(t, "has")
    /\ IF reservations[call[t].plan.snap] # 0
       THEN Return(t) ELSE Goto(t, "reserve")
    /\ UNCHANGED <<now, registry, budgetVars, completed, items, plans, entries, closed>>

(* Mutant of CanReserve: the answer of HasReservation is trusted. *)
CanReserveAgain(s) == used + Size[s] <= Limit

(* Budget.Reserve returns true. *)
CanReserve(s) == reservations[s] = 0 /\ used + Size[s] <= Limit

Reserve(t) ==
    /\ At(t, "reserve")
    /\ LET s == call[t].plan.snap IN
       \/ /\ CanReserve(s)
          /\ reservations' = [reservations EXCEPT ![s] = Size[s]]
          /\ used' = used + Size[s]
          /\ Goto(t, "closed")
       \/ /\ ~CanReserve(s)
          /\ Return(t)
          /\ UNCHANGED budgetVars
    /\ UNCHANGED <<now, registry, completed, items, plans, entries, closed>>

(* journal.Closed(), and then Append, which may find it closed after all. *)
JournalClosed(t) ==
    /\ At(t, "closed")
    /\ Goto(t, IF closed THEN "rollback" ELSE "append")
    /\ UNCHANGED <<now, registry, budgetVars, completed, items, plans, entries, closed>>

JournalPlan(t) ==
    /\ At(t, "append")
    /\ LET s == call[t].plan.snap IN
       \/ /\ AppendEntry([kind |-> "replication-plan", snap |-> s, op |-> s])
          /\ Goto(t, "audit")
       \/ /\ closed
          /\ Goto(t, "rollback")
          /\ UNCHANGED <<entries, closed>>
    /\ UNCHANGED <<now, registry, budgetVars, completed, items, plans>>

(* Budget.Release; a plan without a reservation releases 0 bytes. *)
Release(s) ==
    /\ reservations' = [reservations EXCEPT ![s] = 0]
    /\ used' = IF used < reservations[s] THEN 0 ELSE used - reservations[s]

RollBackPlan(t) ==
    /\ At(t, "rollback")
    /\ Release(call[t].plan.snap)
    /\ Return(t)
    /\ UNCHANGED <<now, registry, completed, items, plans, entries, closed>>

(* audit.Record, and the return of the plan. *)
RecordPlanned(t) ==
    /\ At(t, "audit")
    /\ plans' = plans \union {call[t].plan}
    /\ Return(t)
    /\ UNCHANGED <<now, registry, budgetVars, completed, items, entries, closed>>

------------------------------------------------------------------------------
(* CompleteReplication(plan, succeeded)                                     *)

(* Mutant of MarkCompleted: a plan may be completed again. *)
MarkCompletedAgain(t, p, ok) ==
    /\ At(t, "idle")
    /\ completed' = completed \union {p.snap}
    /\ Become(t, [pc |-> "release", plan |-> p, ok |-> ok])
    /\ UNCHANGED <<now, registry, budgetVars, items, plans, entries, closed>>

(* markCompleted lets the first caller through; the others return at once. *)
MarkCompleted(t, p, ok) ==
    /\ At(t, "idle")
    /\ p.snap \notin completed
    /\ completed' = completed \union {p.snap}
    /\ Become(t, [pc |-> "release", plan |-> p, ok |-> ok])
    /\ UNCHANGED <<now, registry, budgetVars, items, plans, entries, closed>>

(* Mutant of ReleaseBudget: the reservation is kept. *)
ReleaseBudgetNot(t) ==
    /\ At(t, "release")
    /\ LET c == call[t] IN
       Become(t, [pc |-> "outcomes", plan |-> c.plan, ok |-> c.ok, at |-> now,
                  todo |-> c.plan.dests])
    /\ UNCHANGED <<now, registry, budgetVars, completed, items, plans, entries, closed>>

(* The clock is read once, before the outcomes are added one by one. *)
ReleaseBudget(t) ==
    /\ At(t, "release")
    /\ LET c == call[t] IN
       /\ Release(c.plan.snap)
       /\ Become(t, [pc |-> "outcomes", plan |-> c.plan, ok |-> c.ok, at |-> now,
                     todo |-> c.plan.dests])
    /\ UNCHANGED <<now, registry, completed, items, plans, entries, closed>>

(* addUniqueLocked. *)
Added(outcome) ==
    IF \E i \in DOMAIN items : items[i].snap = outcome.snap /\ items[i].dest = outcome.dest
    THEN items ELSE Pruned(Append(items, outcome), now, Length)

AddOutcome(t) ==
    /\ At(t, "outcomes")
    /\ LET c == call[t] IN
       IF c.todo = {}
       THEN Return(t) /\ UNCHANGED items
       ELSE LET d == Min(c.todo) IN
            /\ items' = Added([snap |-> c.plan.snap, dest |-> d, ok |-> c.ok, at |-> c.at])
            /\ Become(t, [c EXCEPT !.todo = @ \ {d}])
    /\ UNCHANGED <<now, registry, budgetVars, completed, plans, entries, closed>>

(* Outcomes() and OutcomeSummary() prune as well. *)
ReadOutcomes ==
    /\ items' = Pruned(items, now, Length)
    /\ UNCHANGED <<now, registry, budgetVars, completed, plans, entries, closed, call>>

------------------------------------------------------------------------------
PassTime ==
    /\ now < MaxTime
    /\ now' = now + 1
    /\ UNCHANGED <<registry, budgetVars, completed, items, plans, entries, closed, call>>

Step(t) ==
    \/ BuildPlan(t) \/ HasReservation(t) \/ Reserve(t) \/ JournalClosed(t)
    \/ JournalPlan(t) \/ RollBackPlan(t) \/ RecordPlanned(t)
    \/ ReleaseBudget(t) \/ AddOutcome(t)

Planning == {t \in Threads : call[t].pc \in {"eligible"} \union (PlanPCs \ {"audit"})}

Environment ==
    \/ \E d \in Destinations, healthy \in BOOLEAN :
          MarkHealth(d, healthy) \/ \E capacity \in Capacities : Register(d, capacity, healthy)
    \/ /\ Len(entries) + Cardinality(Planning) < MaxEntries
       /\ \E t \in Threads, s \in Snapshots : PlanReplication(t, s)
    \/ \E t \in Threads, p \in plans, ok \in BOOLEAN : MarkCompleted(t, p, ok)
    \/ ReadOutcomes
    \/ PassTime
    \/ /\ CloseJournal \/ OpenJournal
       /\ UNCHANGED <<now, registry, budgetVars, completed, items, plans, call>>

ReplicationNext == Environment \/ \E t \in Threads : Step(t)

ReplicationSpec == ReplicationInit /\ [][ReplicationNext]_replVars

------------------------------------------------------------------------------
(* Properties.                                                              *)

(* total is what f sums to over S: the last of the running sums that some
   order of S gives. *)
IsSum(total, f, S) ==
    LET n == Cardinality(S) IN
    \E order \in Bijection(1..n, S), sum \in [0..n -> 0..total] :
        /\ sum[0] = 0 /\ sum[n] = total
        /\ \A i \in 1..n : sum[i] = sum[i - 1] + f[order[i]]

(* The budget is exact: used is what the reservations sum to, over racing
   plans of one snapshot, roll-backs and completions, and never above the
   limit. *)
BudgetIsExact ==
    /\ IsSum(used, reservations, Snapshots)
    /\ used <= Limit

(* A call in the planning of s. *)
PlansSnapshot(t, s) == call[t].pc \in PlanPCs /\ call[t].plan.snap = s

(* Bytes stay reserved only for a plan that is in the journal: one that finds
   it closed, at Closed() or only at Append, gives its bytes back. *)
ReservedIsJournaled ==
    \A s \in Snapshots :
        reservations[s] # 0 /\ (\A t \in Threads : ~PlansSnapshot(t, s))
            => Logged("replication-plan", s, s)

(* The audit ledger and the callers see a plan only after the journal does. *)
PlannedIsJournaled ==
    \A p \in plans : Logged("replication-plan", p.snap, p.snap)

(* All the outcomes the window has of one plan agree, also when two callers
   complete it with different results. *)
OutcomesAgree ==
    \A i, j \in DOMAIN items : items[i].snap = items[j].snap => items[i].ok = items[j].ok

(* A plan whose completion is over holds no bytes, unless its snapshot was
   planned again: the second plan has the id of the first, and its completion
   is taken for a repetition. *)
CompletedHoldsNothing ==
    \A s \in completed :
        /\ \A i, j \in DOMAIN entries : entries[i].snap = s /\ entries[j].snap = s => i = j
        /\ \A t \in Threads : ~PlansSnapshot(t, s)
        /\ \A t \in Threads : At(t, "release") => call[t].plan.snap # s
        => reservations[s] = 0

(* t holds the bytes of s and has not journaled its plan; t completes s. *)
Holds(t, s) == call[t].pc \in {"closed", "append", "rollback"} /\ call[t].plan.snap = s

Completes(t, s) == call[t].pc \in {"release", "outcomes"} /\ call[t].plan.snap = s

Releases(t, s) == At(t, "release") /\ call[t].plan.snap = s

Journaled(s) == Logged("replication-plan", s, s)

JournaledTwice(s) ==
    \E i, j \in DOMAIN entries : i # j /\ entries[i].snap = s /\ entries[j].snap = s

(* Who the bytes of s belong to: one call that holds them, or a plan in the
   journal, which keeps them until the one call that completes it releases
   them.  After that only a second plan of s, which the journal shows, can
   have bytes again. *)
OwnedBytes(s) ==
    /\ \A t, u \in Threads : Holds(t, s) /\ Holds(u, s) => t = u
    /\ \A t, u \in Threads : Completes(t, s) /\ Completes(u, s) => t = u
    /\ \A t \in Threads : Holds(t, s) => reservations[s] # 0
    /\ \A t \in Threads : Completes(t, s) => s \in completed
    /\ s \in completed => Journaled(s)
    /\ reservations[s] # 0 => Journaled(s) \/ \E t \in Threads : Holds(t, s)
    /\ Journaled(s) /\ (s \notin completed \/ \E t \in Threads : Releases(t, s)) =>
          reservations[s] # 0 /\ \A t \in Threads : ~Holds(t, s)
    /\ s \in completed /\ reservations[s] # 0 =>
          JournaledTwice(s) \/ \E t \in Threads : Releases(t, s) \/ Holds(t, s)

(* What the calls rely on, apart from the budget: types, owners of the bytes,
   and outcomes that agree with the one completion of their plan. *)
PlanningInv ==
    /\ ReplicationTypeOK
    /\ PlannedIsJournaled
    /\ OutcomesAgree
    /\ \A s \in Snapshots : reservations[s] \in {0, Size[s]} /\ OwnedBytes(s)
    /\ \A i \in DOMAIN items : items[i].snap \in completed
    /\ \A t \in Threads :
          /\ At(t, "audit") => Journaled(call[t].plan.snap)
          /\ call[t].pc \in {"release", "outcomes"} =>
                \A i \in DOMAIN items :
                    items[i].snap = call[t].plan.snap => items[i].ok = call[t].ok

ReplicationInv == PlanningInv /\ BudgetIsExact /\ ReservedIsJournaled
=============================================================================
