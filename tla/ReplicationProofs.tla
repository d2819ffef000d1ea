------------------------- MODULE ReplicationProofs -------------------------
(***************************************************************************)
(* Plans, budget and outcomes of the replication, for any number of        *)
(* goroutines, snapshots and destinations.                                 *)
(***************************************************************************)
EXTENDS Replication, FiniteSetTheorems, SequenceTheorems, WellFoundedInduction, TLAPS

(* A set of numbers has a least one. *)
LEMMA LeastOf ==
    ASSUME NEW T, T \subseteq Nat, T # {}
    PROVE  \E i \in T : \A j \in T : i <= j
  <1>1. PICK i \in T : \A j \in T : ~(<<j, i>> \in OpToRel(<, Nat))
    BY WFMin, NatLessThanWellFounded
  <1>2. \A j \in T : ~(j < i)
    BY <1>1 DEF OpToRel
  <1> QED BY <1>2

------------------------------------------------------------------------------
(* Sums.                                                                    *)

(* Running sums of numbers rise. *)
LEMMA SumsRise ==
    ASSUME NEW n \in Nat, NEW sum \in [0..n -> Nat], NEW g \in [1..n -> Nat],
           \A i \in 1..n : sum[i] = sum[i - 1] + g[i],
           NEW i \in 0..n, NEW j \in 0..n, i <= j
    PROVE  sum[i] <= sum[j]
  <1> DEFINE Bad == {k \in i..n : ~(sum[i] <= sum[k])}
  <1>1. Bad = {}
    <2> SUFFICES ASSUME Bad # {} PROVE FALSE
      OBVIOUS
    <2>1. PICK k \in Bad : \A l \in Bad : k <= l
      <3>1. Bad \subseteq Nat
        OBVIOUS
      <3> HIDE DEF Bad
      <3> QED BY <3>1, LeastOf
    <2>2. k \in i..n /\ ~(sum[i] <= sum[k])
      BY <2>1
    <2>3. sum[i] \in Nat
      OBVIOUS
    <2>4. k # i
      BY <2>2, <2>3
    <2>5. k \in 1..n /\ k - 1 \in i..n /\ k - 1 \notin Bad
      BY <2>1, <2>2, <2>4
    <2>6. sum[i] <= sum[k - 1] /\ k - 1 \in 0..n
      BY <2>5
    <2>7. sum[k - 1] \in Nat /\ sum[k] \in Nat /\ g[k] \in Nat /\ sum[k] = sum[k - 1] + g[k]
      BY <2>5, <2>6
    <2> QED BY <2>2, <2>3, <2>6, <2>7
  <1>2. j \in i..n
    OBVIOUS
  <1> QED BY <1>1, <1>2

(* Nothing sums to nothing. *)
LEMMA EmptySum ==
    ASSUME NEW S, IsFiniteSet(S)
    PROVE  IsSum(0, [s \in S |-> 0], S)
  <1> DEFINE n == Cardinality(S)
             f == [s \in S |-> 0]
             sum == [i \in 0..n |-> 0]
  <1>1. n \in Nat /\ \E order : order \in Bijection(1..n, S)
    BY FS_CardinalityType DEF ExistsBijection
  <1>2. PICK order : order \in Bijection(1..n, S)
    BY <1>1
  <1>3. order \in [1..n -> S]
    BY <1>2 DEF Bijection, Injection
  <1> HIDE DEF n
  <1>4. sum \in [0..n -> 0..0] /\ sum[0] = 0 /\ sum[n] = 0
    BY <1>1
  <1>5. ASSUME NEW i \in 1..n PROVE sum[i] = sum[i - 1] + f[order[i]]
    <2>1. order[i] \in S /\ i \in 0..n /\ i - 1 \in 0..n
      BY <1>1, <1>3
    <2> QED BY <2>1
  <1> HIDE DEF sum, f
  <1>6. \E o \in Bijection(1..n, S), u \in [0..n -> 0..0] :
          u[0] = 0 /\ u[n] = 0 /\ \A i \in 1..n : u[i] = u[i - 1] + f[o[i]]
    BY <1>2, <1>4, <1>5
  <1> QED BY <1>6 DEF IsSum, n, f

(* Taking a off and adding b keeps steps and bounds. *)
LEMMA ShiftedStep ==
    ASSUME NEW x \in Nat, NEW y \in Nat, NEW z \in Nat, NEW a \in Nat, NEW b \in Nat, x = y + z
    PROVE  (x - a) + b = ((y - a) + b) + z
  OBVIOUS

LEMMA ShiftedBound ==
    ASSUME NEW x \in Nat, NEW total \in Nat, NEW a \in Nat, NEW b \in Nat, a <= x, x <= total
    PROVE  (x - a) + b \in 0..((total - a) + b)
  OBVIOUS

(* One summand moves, and the sum moves with it; no summand is more than the
   sum. *)
LEMMA SumMoves ==
    ASSUME NEW S, IsFiniteSet(S), NEW f \in [S -> Nat], NEW total \in Nat,
           IsSum(total, f, S), NEW s \in S, NEW b \in Nat
    PROVE  /\ f[s] <= total
           /\ IsSum((total - f[s]) + b, [f EXCEPT ![s] = b], S)
  <1> DEFINE n == Cardinality(S)
             a == f[s]
             f2 == [f EXCEPT ![s] = b]
             all == (total - a) + b
  <1>0. n \in Nat /\ a \in Nat
    BY FS_CardinalityType
  <1>1. PICK order \in Bijection(1..n, S), sum \in [0..n -> 0..total] :
          /\ sum[0] = 0 /\ sum[n] = total
          /\ \A i \in 1..n : sum[i] = sum[i - 1] + f[order[i]]
    BY DEF IsSum
  <1>2. /\ order \in [1..n -> S]
        /\ \A i, j \in 1..n : order[i] = order[j] => i = j
        /\ \A x \in S : \E i \in 1..n : order[i] = x
    BY <1>1 DEF Bijection, Injection, Surjection, IsInjective
  <1>3. PICK k \in 1..n : order[k] = s
    BY <1>2
  <1> HIDE DEF n
  <1>4. sum \in [0..n -> Nat] /\ \A i \in 0..n : sum[i] \in Nat /\ sum[i] <= total
    BY <1>0, <1>1
  <1>5. \A i, j \in 0..n : i <= j => sum[i] <= sum[j]
    <2> DEFINE g == [i \in 1..n |-> f[order[i]]]
    <2>1. g \in [1..n -> Nat] /\ \A i \in 1..n : sum[i] = sum[i - 1] + g[i]
      BY <1>1, <1>2
    <2> HIDE DEF g
    <2> QED BY <1>0, <1>4, <2>1, SumsRise
  <1>6. sum[k] = sum[k - 1] + a /\ k \in 0..n /\ k - 1 \in 0..n
    BY <1>0, <1>1, <1>3
  <1>7. a <= total
    BY <1>0, <1>4, <1>6
  <1>8. all \in Nat
    BY <1>0, <1>7
  <1> DEFINE sum2 == [i \in 0..n |-> IF i < k THEN sum[i] ELSE (sum[i] - a) + b]
  <1>9. ASSUME NEW i \in 0..n PROVE sum2[i] \in 0..all
    <2>1. sum[i] \in Nat /\ sum[i] <= total /\ sum[k] <= total /\ sum[k - 1] \in Nat /\ sum[k] \in Nat
      BY <1>4, <1>6
    <2>2. CASE i < k
      <3>1. sum[i] <= sum[k - 1]
        BY <1>5, <1>6, <2>2, <1>3, <1>0
      <3>2. sum2[i] = sum[i]
        BY <2>2
      <3> HIDE DEF sum2, a
      <3> QED BY <1>0, <1>6, <2>1, <3>1, <3>2
    <2>3. CASE ~(i < k)
      <3>1. sum[k] <= sum[i]
        BY <1>5, <1>6, <2>3, <1>3, <1>0
      <3>2. sum2[i] = (sum[i] - a) + b
        BY <2>3
      <3> HIDE DEF sum2, a
      <3>3. a <= sum[k]
        BY <1>0, <1>6, <2>1
      <3>4. a <= sum[i]
        BY <1>0, <2>1, <3>1, <3>3
      <3>5. (sum[i] - a) + b \in 0..all
        BY <1>0, <2>1, <3>4, ShiftedBound
      <3> QED BY <3>2, <3>5
    <2> QED BY <2>2, <2>3
  <1>10. sum2 \in [0..n -> 0..all]
    BY <1>9
  <1>11. sum2[0] = 0 /\ sum2[n] = all
    BY <1>0, <1>1, <1>3
  <1>12. ASSUME NEW i \in 1..n PROVE sum2[i] = sum2[i - 1] + f2[order[i]]
    <2>0. i \in 0..n /\ i - 1 \in 0..n
      BY <1>0
    <2>1. /\ i \in 0..n /\ i - 1 \in 0..n /\ order[i] \in S
          /\ sum[i] = sum[i - 1] + f[order[i]] /\ sum[i] \in Nat /\ sum[i - 1] \in Nat
          /\ f[order[i]] \in Nat
      <3>1. order[i] \in S
        BY <1>2
      <3>2. sum[i] \in Nat /\ sum[i - 1] \in Nat
        BY <1>4, <2>0
      <3>3. sum[i] = sum[i - 1] + f[order[i]]
        BY <1>1
      <3> QED BY <2>0, <3>1, <3>2, <3>3
    <2>2. CASE i = k
      <3>1. sum2[i] = (sum[i] - a) + b /\ sum2[i - 1] = sum[i - 1] /\ f2[order[i]] = b
        BY <1>3, <2>1, <2>2
      <3>2. sum[i] = sum[i - 1] + a
        BY <1>6, <2>2
      <3> HIDE DEF sum2, a, f2
      <3> QED BY <1>0, <2>1, <3>1, <3>2
    <2>3. CASE i # k
      <3>1. f2[order[i]] = f[order[i]]
        BY <1>2, <1>3, <2>1, <2>3
      <3>2. CASE i < k
        BY <1>3, <2>1, <3>1, <3>2
      <3>3. CASE ~(i < k)
        <4>1. sum2[i] = (sum[i] - a) + b /\ sum2[i - 1] = (sum[i - 1] - a) + b
          BY <1>3, <2>1, <2>3, <3>3
        <4>2. PICK x, y, z : x = sum[i] /\ y = sum[i - 1] /\ z = f[order[i]]
          OBVIOUS
        <4>3. x \in Nat /\ y \in Nat /\ z \in Nat /\ x = y + z
          BY <2>1, <4>2
        <4>4. (x - a) + b = ((y - a) + b) + z
          <5> HIDE DEF a
          <5> QED BY <1>0, <4>3, ShiftedStep
        <4> HIDE DEF sum2, a, f2
        <4> QED BY <3>1, <4>1, <4>2, <4>4
      <3> QED BY <3>2, <3>3
    <2> QED BY <2>2, <2>3
  <1> HIDE DEF sum2, f2, all
  <1>13. \E o \in Bijection(1..n, S), u \in [0..n -> 0..all] :
           u[0] = 0 /\ u[n] = all /\ \A i \in 1..n : u[i] = u[i - 1] + f2[o[i]]
    BY <1>1, <1>10, <1>11, <1>12
  <1>14. IsSum(all, f2, S)
    BY <1>13 DEF IsSum, n
  <1> QED BY <1>7, <1>14 DEF all, f2, a

------------------------------------------------------------------------------
(* Calls, journal and window.                                               *)

Completing == {"release", "outcomes"}

(* What the record of a call holds, by where the call is. *)
LEMMA CallShape ==
    ASSUME ReplicationTypeOK, NEW t \in Threads
    PROVE  /\ call[t].pc = "eligible" => call[t] \in [pc: {"eligible"}, snap: Snapshots]
           /\ call[t].pc \in PlanPCs => call[t] \in [pc: PlanPCs, plan: Plan]
           /\ call[t].pc = "release" => call[t] \in [pc: {"release"}, plan: Plan, ok: BOOLEAN]
           /\ call[t].pc = "outcomes" =>
                call[t] \in [pc: {"outcomes"}, plan: Plan, ok: BOOLEAN, at: Nat,
                             todo: SUBSET Destinations]
           /\ call[t].pc \in PlanPCs \union Completing =>
                call[t].plan \in Plan /\ call[t].plan.snap \in Snapshots
           /\ call[t].pc \in Completing => call[t].ok \in BOOLEAN
  <1>1. call[t] \in Call
    BY DEF ReplicationTypeOK
  <1>2. CASE call[t] = Idle
    BY <1>2 DEF Idle, PlanPCs, Completing
  <1>3. CASE call[t] \in [pc: {"eligible"}, snap: Snapshots]
    BY <1>3 DEF PlanPCs, Completing
  <1>4. CASE call[t] \in [pc: PlanPCs, plan: Plan]
    BY <1>4 DEF PlanPCs, Plan, Completing
  <1>5. CASE call[t] \in [pc: {"release"}, plan: Plan, ok: BOOLEAN]
    BY <1>5 DEF PlanPCs, Plan, Completing
  <1>6. CASE call[t] \in [pc: {"outcomes"}, plan: Plan, ok: BOOLEAN, at: Nat,
                          todo: SUBSET Destinations]
    BY <1>6 DEF PlanPCs, Plan, Completing
  <1> QED BY <1>1, <1>2, <1>3, <1>4, <1>5, <1>6 DEF Call

(* A planning call that goes on keeps its plan. *)
LEMMA PlanGoesOn ==
    ASSUME ReplicationTypeOK, NEW t \in Threads, call[t].pc \in PlanPCs, NEW q \in PlanPCs,
           Goto(t, q)
    PROVE  /\ call' \in [Threads -> Call]
           /\ call'[t].pc = q /\ call'[t].plan = call[t].plan
           /\ \A u \in Threads \ {t} : call'[u] = call[u]
  <1>1. call[t] \in [pc: PlanPCs, plan: Plan]
    BY CallShape
  <1> DEFINE c == [pc |-> q, plan |-> call[t].plan]
  <1>2. [call[t] EXCEPT !.pc = q] = c
    BY <1>1
  <1>3. c \in Call /\ c.pc = q /\ c.plan = call[t].plan
    BY <1>1 DEF Call
  <1> HIDE DEF c
  <1>4. call' = [call EXCEPT ![t] = c]
    BY <1>2 DEF Goto
  <1> QED BY <1>3, <1>4 DEF ReplicationTypeOK

(* A call takes up another record. *)
LEMMA CallBecomes ==
    ASSUME ReplicationTypeOK, NEW t \in Threads, NEW c \in Call,
           call' = [call EXCEPT ![t] = c]
    PROVE  /\ call' \in [Threads -> Call] /\ call'[t] = c
           /\ \A u \in Threads \ {t} : call'[u] = call[u]
  BY DEF ReplicationTypeOK

LEMMA CallReturns ==
    ASSUME ReplicationTypeOK, NEW t \in Threads, Return(t)
    PROVE  /\ call' \in [Threads -> Call] /\ call'[t].pc = "idle"
           /\ \A u \in Threads \ {t} : call'[u] = call[u]
  <1>1. Idle \in Call /\ Idle.pc = "idle"
    BY DEF Call, Idle
  <1> QED BY <1>1, CallBecomes DEF Return

(* What the journal says of snapshots while it stands. *)
LEMMA JournalStands ==
    ASSUME entries' = entries, NEW s
    PROVE  (Journaled(s)' <=> Journaled(s)) /\ (JournaledTwice(s)' <=> JournaledTwice(s))
  BY DEF Journaled, Logged, JournaledTwice

(* And what it says when a plan of s is appended. *)
LEMMA JournalGrows ==
    ASSUME ReplicationTypeOK, NEW s \in Snapshots,
           AppendEntry([kind |-> "replication-plan", snap |-> s, op |-> s])
    PROVE  /\ entries' \in Seq(PlanEntry)
           /\ Journaled(s)' /\ (Journaled(s) => JournaledTwice(s)')
           /\ \A x \in Snapshots :
                /\ x # s => (Journaled(x)' <=> Journaled(x))
                /\ JournaledTwice(x) => JournaledTwice(x)'
  <1> DEFINE e == [kind |-> "replication-plan", snap |-> s, op |-> s]
             n == Len(entries)
  <1>0. entries \in Seq(PlanEntry) /\ entries' = Append(entries, e)
    BY DEF ReplicationTypeOK, AppendEntry
  <1>1. e \in PlanEntry /\ e.kind = "replication-plan" /\ e.snap = s /\ e.op = s
    BY DEF PlanEntry
  <1> HIDE DEF e
  <1>2. /\ n \in Nat /\ DOMAIN entries = 1..n
        /\ DOMAIN entries' = 1..(n + 1)
        /\ entries'[n + 1] = e
        /\ \A i \in 1..n : entries'[i] = entries[i]
        /\ entries' \in Seq(PlanEntry)
    BY <1>0, <1>1
  <1> HIDE DEF n
  <1>3. n + 1 \in DOMAIN entries' /\ \A i \in DOMAIN entries : i \in DOMAIN entries' /\ i # n + 1
    BY <1>2
  <1>4. \A i \in DOMAIN entries' : i \in DOMAIN entries \/ i = n + 1
    BY <1>2
  <1>5. Journaled(s)'
    BY <1>1, <1>2, <1>3 DEF Journaled, Logged
  <1>6. Journaled(s) => JournaledTwice(s)'
    BY <1>1, <1>2, <1>3 DEF Journaled, Logged, JournaledTwice
  <1>7. ASSUME NEW x \in Snapshots, x # s PROVE Journaled(x)' <=> Journaled(x)
    BY <1>1, <1>2, <1>3, <1>4, <1>7 DEF Journaled, Logged
  <1>8. ASSUME NEW x \in Snapshots, JournaledTwice(x) PROVE JournaledTwice(x)'
    BY <1>2, <1>3, <1>8 DEF JournaledTwice
  <1> QED BY <1>2, <1>5, <1>6, <1>7, <1>8

(* A prune leaves outcomes that were there. *)
LEMMA PrunedIsPart ==
    ASSUME NEW S, NEW seq \in Seq(S), NEW time, NEW length
    PROVE  /\ Pruned(seq, time, length) \in Seq(S)
           /\ \A i \in DOMAIN Pruned(seq, time, length) :
                \E j \in DOMAIN seq : Pruned(seq, time, length)[i] = seq[j]
  <1> DEFINE recent == {i \in DOMAIN seq : seq[i].at >= time - length}
             first == CHOOSE i \in recent : \A j \in recent : i <= j
  <1>1. recent \subseteq 1..Len(seq) /\ Len(seq) \in Nat /\ DOMAIN seq = 1..Len(seq)
    OBVIOUS
  <1>2. CASE recent = {}
    BY <1>2 DEF Pruned
  <1>3. CASE recent # {}
    <2>1. \E i \in recent : \A j \in recent : i <= j
      <3>1. recent \subseteq Nat
        BY <1>1
      <3> HIDE DEF recent
      <3> QED BY <1>3, <3>1, LeastOf
    <2>2. first \in 1..Len(seq)
      BY <1>1, <2>1
    <2>3. Pruned(seq, time, length) = SubSeq(seq, first, Len(seq))
      BY <1>3 DEF Pruned
    <2> HIDE DEF first, recent
    <2> DEFINE rest == SubSeq(seq, first, Len(seq))
    <2>4. \A i \in first..Len(seq) : seq[i] \in S
      BY <2>2
    <2>5. /\ rest \in Seq(S)
          /\ Len(rest) = Len(seq) - first + 1
          /\ \A i \in 1..(Len(seq) - first + 1) : rest[i] = seq[first + i - 1]
      BY <1>1, <2>2, <2>4, SubSeqProperties
    <2> HIDE DEF rest
    <2>6. ASSUME NEW i \in DOMAIN rest PROVE \E j \in DOMAIN seq : rest[i] = seq[j]
      <3>1. i \in 1..(Len(seq) - first + 1)
        BY <2>5
      <3>2. first + i - 1 \in DOMAIN seq
        BY <1>1, <2>2, <3>1
      <3> QED BY <2>5, <3>1, <3>2
    <2> QED BY <2>3, <2>5, <2>6 DEF rest
  <1> QED BY <1>2, <1>3

------------------------------------------------------------------------------
(* The parts of the invariant, and the steps that leave them alone.         *)

BytesPart == \A s \in Snapshots : reservations[s] \in {0, Size[s]} /\ OwnedBytes(s)

AgreesWith(t) ==
    call[t].pc \in Completing =>
        \A i \in DOMAIN items :
            items[i].snap = call[t].plan.snap => items[i].ok = call[t].ok

OutcomesPart ==
    /\ OutcomesAgree
    /\ \A i \in DOMAIN items : items[i].snap \in completed
    /\ \A t \in Threads : AgreesWith(t)

JournalPart ==
    /\ PlannedIsJournaled
    /\ \A t \in Threads : call[t].pc = "audit" => Journaled(call[t].plan.snap)

LEMMA PlanningParts ==
    /\ PlanningInv <=> (ReplicationTypeOK /\ BytesPart /\ OutcomesPart /\ JournalPart)
    /\ PlanningInv' <=> (ReplicationTypeOK' /\ BytesPart' /\ OutcomesPart' /\ JournalPart')
  BY DEF PlanningInv, BytesPart, AgreesWith, OutcomesPart, JournalPart, At, Completing

(* u takes on no bytes, no completion and no plan to record, and gives no
   bytes away. *)
Quiet(u) ==
    /\ \A s \in Snapshots :
          /\ Holds(u, s)' <=> Holds(u, s)
          /\ Releases(u, s)' <=> Releases(u, s)
          /\ Completes(u, s)' => Completes(u, s)
    /\ call'[u].pc \in Completing =>
          /\ call[u].pc \in Completing
          /\ call'[u].plan = call[u].plan /\ call'[u].ok = call[u].ok
    /\ call'[u].pc = "audit" => call[u].pc = "audit" /\ call'[u].plan = call[u].plan

LEMMA StandingIsQuiet ==
    ASSUME NEW u, call'[u] = call[u]
    PROVE  Quiet(u)
  BY DEF Quiet, Holds, Releases, Completes, At

(* A call that holds and completes nothing before and after a step. *)
LEMMA AsideIsQuiet ==
    ASSUME NEW u,
           call[u].pc \notin Completing \union {"closed", "append", "rollback"},
           call'[u].pc \notin Completing \union {"closed", "append", "rollback", "audit"}
    PROVE  Quiet(u)
  BY DEF Quiet, Holds, Releases, Completes, At, Completing

(* The bytes of s, when nothing that is said of them changes. *)
LEMMA BytesFrame ==
    ASSUME NEW s \in Snapshots, OwnedBytes(s),
           reservations'[s] = reservations[s],
           s \in completed' <=> s \in completed,
           Journaled(s)' <=> Journaled(s),
           JournaledTwice(s) => JournaledTwice(s)',
           \A u \in Threads : /\ Holds(u, s)' <=> Holds(u, s)
                              /\ Releases(u, s)' <=> Releases(u, s)
                              /\ Completes(u, s)' => Completes(u, s)
    PROVE  OwnedBytes(s)'
  <1>1. (\E u \in Threads : Holds(u, s)') <=> (\E u \in Threads : Holds(u, s))
    OBVIOUS
  <1>2. (\E u \in Threads : Releases(u, s)') <=> (\E u \in Threads : Releases(u, s))
    OBVIOUS
  <1>3. /\ \A t, u \in Threads : Holds(t, s)' /\ Holds(u, s)' => t = u
        /\ \A t, u \in Threads : Completes(t, s)' /\ Completes(u, s)' => t = u
        /\ \A t \in Threads : Holds(t, s)' => reservations'[s] # 0
        /\ \A t \in Threads : Completes(t, s)' => s \in completed'
        /\ s \in completed' => Journaled(s)'
    BY DEF OwnedBytes
  <1>4. reservations'[s] # 0 => Journaled(s)' \/ \E t \in Threads : Holds(t, s)'
    BY <1>1 DEF OwnedBytes
  <1>5. Journaled(s)' /\ (s \notin completed' \/ \E t \in Threads : Releases(t, s)') =>
          reservations'[s] # 0 /\ \A t \in Threads : ~Holds(t, s)'
    BY <1>2 DEF OwnedBytes
  <1>6. s \in completed' /\ reservations'[s] # 0 =>
          JournaledTwice(s)' \/ \E t \in Threads : Releases(t, s)' \/ Holds(t, s)'
    BY DEF OwnedBytes
  <1> QED BY <1>3, <1>4, <1>5, <1>6 DEF OwnedBytes

(* The outcomes, when none is added and no call starts to complete. *)
LEMMA OutcomesFrame ==
    ASSUME OutcomesPart, completed \subseteq completed',
           \A i \in DOMAIN items' : \E j \in DOMAIN items : items'[i] = items[j],
           \A u \in Threads : call'[u].pc \in Completing =>
              /\ call[u].pc \in Completing
              /\ call'[u].plan = call[u].plan /\ call'[u].ok = call[u].ok
    PROVE  OutcomesPart'
  <1>1. OutcomesAgree'
    BY DEF OutcomesPart, OutcomesAgree
  <1>2. \A i \in DOMAIN items' : items'[i].snap \in completed'
    BY DEF OutcomesPart
  <1>3. ASSUME NEW u \in Threads PROVE AgreesWith(u)'
    <2>1. AgreesWith(u)
      BY DEF OutcomesPart
    <2> QED BY <2>1 DEF AgreesWith
  <1> QED BY <1>1, <1>2, <1>3 DEF OutcomesPart

(* A step that adds at most journaled plans, drops at most outcomes, and in
   which every call is quiet. *)
LEMMA QuietKeeps ==
    ASSUME PlanningInv, ReplicationTypeOK',
           UNCHANGED <<reservations, completed, entries>>,
           \A p \in plans' \ plans : Journaled(p.snap),
           \A i \in DOMAIN items' : \E j \in DOMAIN items : items'[i] = items[j],
           \A u \in Threads : Quiet(u)
    PROVE  PlanningInv'
  <1>0. BytesPart /\ OutcomesPart /\ JournalPart
    BY PlanningParts
  <1>1. BytesPart'
    <2> SUFFICES ASSUME NEW s \in Snapshots
                 PROVE  reservations'[s] \in {0, Size[s]} /\ OwnedBytes(s)'
      BY DEF BytesPart
    <2>1. reservations[s] \in {0, Size[s]} /\ OwnedBytes(s)
      BY <1>0 DEF BytesPart
    <2>2. (Journaled(s)' <=> Journaled(s)) /\ (JournaledTwice(s) => JournaledTwice(s)')
      BY JournalStands
    <2>3. OwnedBytes(s)'
      BY <2>1, <2>2, BytesFrame DEF Quiet
    <2> QED BY <2>1, <2>3
  <1>2. OutcomesPart'
    BY <1>0, OutcomesFrame DEF Quiet
  <1>3. JournalPart'
    <2>1. \A s : Journaled(s)' <=> Journaled(s)
      BY JournalStands
    <2>2. \A p \in plans' : Journaled(p.snap)
      BY <1>0 DEF JournalPart, PlannedIsJournaled, Journaled
    <2>3. PlannedIsJournaled'
      BY <2>2 DEF PlannedIsJournaled, Journaled, Logged
    <2>4. ASSUME NEW u \in Threads, call'[u].pc = "audit" PROVE Journaled(call[u].plan.snap)
      BY <1>0, <2>4 DEF JournalPart, Quiet
    <2>5. ASSUME NEW u \in Threads, call'[u].pc = "audit" PROVE Journaled(call[u].plan.snap)' 
      BY <2>4, <2>5 DEF Journaled, Logged, Quiet
    <2> QED BY <2>3, <2>5 DEF JournalPart, Quiet
  <1> QED BY <1>1, <1>2, <1>3, PlanningParts

------------------------------------------------------------------------------
(* The steps that move bytes.                                               *)

Owning == Completing \union {"closed", "append", "rollback"}

(* What is said of a call that stands still. *)
LEMMA OthersAsBefore ==
    ASSUME NEW u, call'[u] = call[u], NEW s
    PROVE  /\ Holds(u, s)' <=> Holds(u, s)
           /\ Releases(u, s)' <=> Releases(u, s)
           /\ Completes(u, s)' <=> Completes(u, s)
  BY DEF Holds, Releases, Completes, At

(* The bytes of another snapshot than the one t is at work on. *)
LEMMA OtherBytes ==
    ASSUME BytesPart, NEW t \in Threads, \A u \in Threads \ {t} : call'[u] = call[u],
           NEW s, NEW x \in Snapshots, x # s,
           call[t].pc \in Owning => call[t].plan.snap = s,
           call'[t].pc \in Owning => call'[t].plan.snap = s,
           reservations'[x] = reservations[x],
           x \in completed' <=> x \in completed,
           Journaled(x)' <=> Journaled(x),
           JournaledTwice(x) => JournaledTwice(x)'
    PROVE  reservations'[x] \in {0, Size[x]} /\ OwnedBytes(x)'
  <1>1. reservations[x] \in {0, Size[x]} /\ OwnedBytes(x)
    BY DEF BytesPart
  <1>2. /\ ~Holds(t, x) /\ ~Releases(t, x) /\ ~Completes(t, x)
        /\ ~Holds(t, x)' /\ ~Releases(t, x)' /\ ~Completes(t, x)'
    BY DEF Holds, Releases, Completes, At, Owning, Completing
  <1>3. ASSUME NEW u \in Threads
        PROVE  /\ Holds(u, x)' <=> Holds(u, x)
               /\ Releases(u, x)' <=> Releases(u, x)
               /\ Completes(u, x)' => Completes(u, x)
    BY <1>2, OthersAsBefore
  <1> QED BY <1>1, <1>3, BytesFrame

(* What is in force at s before a step of t. *)
LEMMA BytesOf ==
    ASSUME PlanningInv, NEW s \in Snapshots
    PROVE  /\ reservations[s] \in {0, Size[s]} /\ Size[s] \in Nat \ {0}
           /\ OwnedBytes(s)
           /\ s \in completed => Journaled(s)
  BY PlanningParts, ReplicationAssumption DEF BytesPart, OwnedBytes

(* Budget.Reserve. *)
LEMMA ReserveKeeps ==
    ASSUME PlanningInv, NEW t \in Threads, Reserve(t)
    PROVE  PlanningInv'
  <1>0. ReplicationTypeOK /\ BytesPart /\ OutcomesPart /\ JournalPart
    BY PlanningParts
  <1>1. call[t].pc = "reserve" /\ call[t].pc \in PlanPCs
    BY DEF Reserve, At, PlanPCs
  <1>2. PICK s : s = call[t].plan.snap
    OBVIOUS
  <1>3. s \in Snapshots
    BY <1>0, <1>1, <1>2, CallShape
  <1>4. UNCHANGED <<now, registry, completed, items, plans, entries, closed>>
    BY DEF Reserve
  <1>5. CASE CanReserve(s) /\ reservations' = [reservations EXCEPT ![s] = Size[s]]
             /\ used' = used + Size[s] /\ Goto(t, "closed")
    <2>1. /\ call' \in [Threads -> Call]
          /\ call'[t].pc = "closed" /\ call'[t].plan = call[t].plan
          /\ \A u \in Threads \ {t} : call'[u] = call[u]
      BY <1>0, <1>1, <1>5, PlanGoesOn DEF PlanPCs
    <2>2. Size[s] \in Nat \ {0}
      BY <1>3, BytesOf
    <2>3. /\ reservations' \in [Snapshots -> Nat] /\ reservations'[s] = Size[s]
          /\ \A x \in Snapshots : x # s => reservations'[x] = reservations[x]
      BY <1>0, <1>3, <1>5, <2>2 DEF ReplicationTypeOK
    <2>4. ReplicationTypeOK'
      <3>1. used' \in Nat
        BY <1>0, <1>5, <2>2 DEF ReplicationTypeOK
      <3> QED BY <1>0, <1>4, <2>1, <2>3, <3>1 DEF ReplicationTypeOK
    <2>5. reservations[s] = 0 /\ OwnedBytes(s)
      BY <1>3, <1>5, BytesOf DEF CanReserve
    <2>6. \A x : (Journaled(x)' <=> Journaled(x)) /\ (JournaledTwice(x)' <=> JournaledTwice(x))
      BY <1>4, JournalStands
    <2>7. OwnedBytes(s)'
      <3>1. /\ Holds(t, s)' /\ ~Releases(t, s)' /\ ~Completes(t, s)'
            /\ ~Releases(t, s) /\ ~Completes(t, s)
        BY <1>1, <1>2, <2>1 DEF Holds, Releases, Completes, At
      <3>2. \A u \in Threads \ {t} :
              /\ Holds(u, s)' <=> Holds(u, s)
              /\ Releases(u, s)' <=> Releases(u, s)
              /\ Completes(u, s)' <=> Completes(u, s)
        BY <2>1, OthersAsBefore
      <3>3. \A u \in Threads : ~Holds(u, s)
        BY <2>5 DEF OwnedBytes
      <3>4. \A u \in Threads : Holds(u, s)' => u = t
        BY <3>2, <3>3
      <3>5. \A u \in Threads : (Completes(u, s)' => Completes(u, s)) /\ (Releases(u, s)' => Releases(u, s))
        BY <3>1, <3>2
      <3>6. Journaled(s) => s \in completed /\ \A u \in Threads : ~Releases(u, s)
        BY <2>5 DEF OwnedBytes
      <3> QED BY <1>4, <2>2, <2>3, <2>5, <2>6, <3>1, <3>4, <3>5, <3>6 DEF OwnedBytes
    <2>8. BytesPart'
      <3>1. ASSUME NEW x \in Snapshots, x # s
            PROVE  reservations'[x] \in {0, Size[x]} /\ OwnedBytes(x)'
        BY <1>0, <1>2, <1>1, <1>4, <2>1, <2>3, <2>6, <3>1, OtherBytes DEF Owning, Completing
      <3> QED BY <2>3, <2>7, <3>1 DEF BytesPart
    <2>9. OutcomesPart'
      <3>1. \A u \in Threads : call'[u].pc \in Completing =>
              /\ call[u].pc \in Completing
              /\ call'[u].plan = call[u].plan /\ call'[u].ok = call[u].ok
        BY <2>1 DEF Completing
      <3> QED BY <1>0, <1>4, <3>1, OutcomesFrame
    <2>10. JournalPart'
      <3>1. \A u \in Threads : call'[u].pc = "audit" => call'[u] = call[u]
        BY <2>1
      <3> QED BY <1>0, <1>4, <3>1 DEF JournalPart, PlannedIsJournaled, Journaled, Logged
    <2> QED BY <2>4, <2>8, <2>9, <2>10, PlanningParts
  <1>6. CASE Return(t) /\ UNCHANGED budgetVars
    <2>1. /\ call' \in [Threads -> Call] /\ call'[t].pc = "idle"
          /\ \A u \in Threads \ {t} : call'[u] = call[u]
      BY <1>0, <1>6, CallReturns
    <2>2. ReplicationTypeOK' /\ UNCHANGED reservations
      BY <1>0, <1>4, <1>6, <2>1 DEF ReplicationTypeOK, budgetVars
    <2>3. Quiet(t)
      BY <1>1, <2>1, AsideIsQuiet DEF Completing
    <2>4. \A u \in Threads : Quiet(u)
      BY <2>1, <2>3, StandingIsQuiet
    <2> QED BY <1>4, <2>2, <2>4, QuietKeeps
  <1> QED BY <1>2, <1>5, <1>6 DEF Reserve

(* The append of a plan: its bytes now belong to the journaled plan. *)
LEMMA JournalPlanKeeps ==
    ASSUME PlanningInv, NEW t \in Threads, JournalPlan(t)
    PROVE  PlanningInv'
  <1>0. ReplicationTypeOK /\ BytesPart /\ OutcomesPart /\ JournalPart
    BY PlanningParts
  <1>1. call[t].pc = "append" /\ call[t].pc \in PlanPCs
    BY DEF JournalPlan, At, PlanPCs
  <1>2. PICK s : s = call[t].plan.snap
    OBVIOUS
  <1>3. s \in Snapshots
    BY <1>0, <1>1, <1>2, CallShape
  <1>4. UNCHANGED <<now, registry, reservations, used, completed, items, plans>>
    BY DEF JournalPlan, budgetVars
  <1>5. ASSUME AppendEntry([kind |-> "replication-plan", snap |-> s, op |-> s]), Goto(t, "audit")
        PROVE  PlanningInv'
    <2>1. /\ call' \in [Threads -> Call]
          /\ call'[t].pc = "audit" /\ call'[t].plan = call[t].plan
          /\ \A u \in Threads \ {t} : call'[u] = call[u]
      BY <1>0, <1>1, <1>5, PlanGoesOn DEF PlanPCs
    <2>2. /\ entries' \in Seq(PlanEntry)
          /\ Journaled(s)' /\ (Journaled(s) => JournaledTwice(s)')
          /\ \A x \in Snapshots :
                /\ x # s => (Journaled(x)' <=> Journaled(x))
                /\ JournaledTwice(x) => JournaledTwice(x)'
      BY <1>0, <1>3, <1>5, JournalGrows
    <2>3. ReplicationTypeOK'
      <3>1. closed' = closed
        BY <1>5 DEF AppendEntry
      <3> QED BY <1>0, <1>4, <2>1, <2>2, <3>1 DEF ReplicationTypeOK
    <2>4. OwnedBytes(s)'
      <3>1. /\ Holds(t, s)
            /\ ~Holds(t, s)' /\ ~Releases(t, s)' /\ ~Completes(t, s)'
        BY <1>1, <1>2, <2>1 DEF Holds, Releases, Completes, At
      <3>2. \A u \in Threads \ {t} :
              /\ Holds(u, s)' <=> Holds(u, s)
              /\ Releases(u, s)' <=> Releases(u, s)
              /\ Completes(u, s)' <=> Completes(u, s)
        BY <2>1, OthersAsBefore
      <3>3. OwnedBytes(s) /\ (s \in completed => Journaled(s))
        BY <1>3, BytesOf
      <3>4. reservations[s] # 0 /\ \A u \in Threads : Holds(u, s) => u = t
        BY <3>1, <3>3 DEF OwnedBytes
      <3>5. \A u \in Threads : ~Holds(u, s)' /\ (Completes(u, s)' => Completes(u, s))
        BY <3>1, <3>2, <3>4
      <3> QED BY <1>4, <2>2, <3>3, <3>4, <3>5 DEF OwnedBytes
    <2>5. BytesPart'
      <3>1. ASSUME NEW x \in Snapshots, x # s
            PROVE  reservations'[x] \in {0, Size[x]} /\ OwnedBytes(x)'
        BY <1>0, <1>2, <1>1, <1>4, <2>1, <2>2, <3>1, OtherBytes DEF Owning, Completing
      <3> QED BY <1>3, <1>4, <2>4, <3>1, BytesOf DEF BytesPart
    <2>6. OutcomesPart'
      <3>1. \A u \in Threads : call'[u].pc \in Completing =>
              /\ call[u].pc \in Completing
              /\ call'[u].plan = call[u].plan /\ call'[u].ok = call[u].ok
        BY <2>1 DEF Completing
      <3> QED BY <1>0, <1>4, <3>1, OutcomesFrame
    <2>7. JournalPart'
      <3>1. \A x \in Snapshots : Journaled(x) => Journaled(x)'
        BY <2>2
      <3>2. ASSUME NEW p \in plans' PROVE Logged("replication-plan", p.snap, p.snap)'
        <4>1. p \in plans /\ p.snap \in Snapshots
          BY <1>0, <1>4, <3>2 DEF ReplicationTypeOK, Plan
        <4>2. Journaled(p.snap)
          BY <1>0, <4>1 DEF JournalPart, PlannedIsJournaled, Journaled
        <4> QED BY <3>1, <4>1, <4>2 DEF Journaled
      <3>3. ASSUME NEW u \in Threads, call'[u].pc = "audit" PROVE Journaled(call[u].plan.snap)'
        <4>1. CASE u = t
          BY <1>2, <2>1, <2>2, <4>1 DEF Journaled, Logged
        <4>2. CASE u # t
          <5>1. call'[u] = call[u] /\ call[u].pc = "audit"
            BY <2>1, <3>3, <4>2
          <5>2. PICK x : x = call[u].plan.snap
            OBVIOUS
          <5>3. x \in Snapshots /\ Journaled(x)
            BY <1>0, <5>1, <5>2, CallShape DEF JournalPart, PlanPCs
          <5>4. Journaled(x)' /\ x = call'[u].plan.snap
            BY <3>1, <5>1, <5>2, <5>3
          <5> QED BY <5>4 DEF Journaled, Logged
        <4> QED BY <4>1, <4>2
      <3> QED BY <3>2, <3>3 DEF JournalPart, PlannedIsJournaled, Journaled, Logged
    <2> QED BY <2>3, <2>5, <2>6, <2>7, PlanningParts
  <1>6. ASSUME Goto(t, "rollback"), UNCHANGED <<entries, closed>>
        PROVE  PlanningInv'
    <2>1. /\ call' \in [Threads -> Call]
          /\ call'[t].pc = "rollback" /\ call'[t].plan = call[t].plan
          /\ \A u \in Threads \ {t} : call'[u] = call[u]
      BY <1>0, <1>1, <1>6, PlanGoesOn DEF PlanPCs
    <2>2. ReplicationTypeOK'
      BY <1>0, <1>4, <1>6, <2>1 DEF ReplicationTypeOK
    <2>3. Quiet(t)
      BY <1>1, <2>1 DEF Quiet, Holds, Releases, Completes, At, Completing
    <2>4. \A u \in Threads : Quiet(u)
      BY <2>1, <2>3, StandingIsQuiet
    <2> QED BY <1>4, <1>6, <2>2, <2>4, QuietKeeps
  <1> QED BY <1>2, <1>5, <1>6 DEF JournalPlan

(* What Budget.Release does to the types. *)
LEMMA ReleaseTypes ==
    ASSUME ReplicationTypeOK, NEW s \in Snapshots, Release(s)
    PROVE  /\ reservations' \in [Snapshots -> Nat] /\ reservations'[s] = 0
           /\ \A x \in Snapshots : x # s => reservations'[x] = reservations[x]
           /\ used' \in Nat
  <1>1. reservations[s] \in Nat /\ used \in Nat
    BY DEF ReplicationTypeOK
  <1>2. used' \in Nat
    BY <1>1 DEF Release
  <1> QED BY <1>2 DEF Release, ReplicationTypeOK

(* A plan that cannot be journaled gives its bytes back. *)
LEMMA RollBackPlanKeeps ==
    ASSUME PlanningInv, NEW t \in Threads, RollBackPlan(t)
    PROVE  PlanningInv'
  <1>0. ReplicationTypeOK /\ BytesPart /\ OutcomesPart /\ JournalPart
    BY PlanningParts
  <1>1. call[t].pc = "rollback" /\ call[t].pc \in PlanPCs
    BY DEF RollBackPlan, At, PlanPCs
  <1>2. PICK s : s = call[t].plan.snap
    OBVIOUS
  <1>3. s \in Snapshots
    BY <1>0, <1>1, <1>2, CallShape
  <1>4. /\ UNCHANGED <<now, registry, completed, items, plans, entries, closed>>
        /\ Release(s) /\ Return(t)
    BY <1>2 DEF RollBackPlan
  <1>5. /\ call' \in [Threads -> Call] /\ call'[t].pc = "idle"
        /\ \A u \in Threads \ {t} : call'[u] = call[u]
    BY <1>0, <1>4, CallReturns
  <1>6. /\ reservations' \in [Snapshots -> Nat] /\ reservations'[s] = 0
        /\ \A x \in Snapshots : x # s => reservations'[x] = reservations[x]
        /\ used' \in Nat
    BY <1>0, <1>3, <1>4, ReleaseTypes
  <1>7. ReplicationTypeOK'
    BY <1>0, <1>4, <1>5, <1>6 DEF ReplicationTypeOK
  <1>8. \A x : (Journaled(x)' <=> Journaled(x)) /\ (JournaledTwice(x)' <=> JournaledTwice(x))
    BY <1>4, JournalStands
  <1>9. OwnedBytes(s)'
    <2>1. Holds(t, s) /\ ~Holds(t, s)' /\ ~Releases(t, s)' /\ ~Completes(t, s)'
      BY <1>1, <1>2, <1>5 DEF Holds, Releases, Completes, At
    <2>2. \A u \in Threads \ {t} :
            /\ Holds(u, s)' <=> Holds(u, s)
            /\ Releases(u, s)' <=> Releases(u, s)
            /\ Completes(u, s)' <=> Completes(u, s)
      BY <1>5, OthersAsBefore
    <2>3. OwnedBytes(s)
      BY <1>3, BytesOf
    <2>4. \A u \in Threads : Holds(u, s) => u = t
      BY <2>1, <2>3 DEF OwnedBytes
    <2>5. \A u \in Threads : ~Holds(u, s)' /\ (Completes(u, s)' => Completes(u, s))
                             /\ (Releases(u, s)' => Releases(u, s))
      BY <2>1, <2>2, <2>4
    <2>6. Journaled(s) => s \in completed /\ \A u \in Threads : ~Releases(u, s)
      BY <2>1, <2>3 DEF OwnedBytes
    <2> QED BY <1>4, <1>6, <1>8, <2>3, <2>5, <2>6 DEF OwnedBytes
  <1>10. BytesPart'
    <2>1. ASSUME NEW x \in Snapshots, x # s
          PROVE  reservations'[x] \in {0, Size[x]} /\ OwnedBytes(x)'
      BY <1>0, <1>2, <1>1, <1>4, <1>5, <1>6, <1>8, <2>1, OtherBytes DEF Owning, Completing
    <2> QED BY <1>6, <1>9, <2>1 DEF BytesPart
  <1>11. OutcomesPart'
    <2>1. \A u \in Threads : call'[u].pc \in Completing =>
            /\ call[u].pc \in Completing
            /\ call'[u].plan = call[u].plan /\ call'[u].ok = call[u].ok
      BY <1>5 DEF Completing
    <2> QED BY <1>0, <1>4, <2>1, OutcomesFrame
  <1>12. JournalPart'
    <2>1. \A u \in Threads : call'[u].pc = "audit" => call'[u] = call[u]
      BY <1>5
    <2> QED BY <1>0, <1>4, <2>1 DEF JournalPart, PlannedIsJournaled, Journaled, Logged
  <1> QED BY <1>7, <1>10, <1>11, <1>12, PlanningParts

(* markCompleted: the bytes of a journaled plan now belong to one completion. *)
LEMMA MarkCompletedKeeps ==
    ASSUME PlanningInv, NEW t \in Threads, NEW p \in plans, NEW ok \in BOOLEAN,
           MarkCompleted(t, p, ok)
    PROVE  PlanningInv'
  <1>0. ReplicationTypeOK /\ BytesPart /\ OutcomesPart /\ JournalPart
    BY PlanningParts
  <1>1. p \in Plan /\ p.snap \in Snapshots
    BY <1>0 DEF ReplicationTypeOK, Plan
  <1>2. PICK s \in Snapshots : s = p.snap
    BY <1>1
  <1>3. /\ call[t].pc = "idle" /\ s \notin completed
        /\ completed' = completed \union {s}
        /\ UNCHANGED <<now, registry, reservations, used, items, plans, entries, closed>>
    BY <1>2 DEF MarkCompleted, At, budgetVars
  <1>4. PICK c : c = [pc |-> "release", plan |-> p, ok |-> ok]
    OBVIOUS
  <1>5. c \in Call /\ c.pc = "release" /\ c.plan = p /\ c.ok = ok
    BY <1>1, <1>4 DEF Call
  <1>6. /\ call' \in [Threads -> Call] /\ call'[t] = c
        /\ \A u \in Threads \ {t} : call'[u] = call[u]
    <2>1. call' = [call EXCEPT ![t] = c]
      BY <1>4 DEF MarkCompleted, Become
    <2> QED BY <1>0, <1>5, <2>1, CallBecomes
  <1>7. ReplicationTypeOK'
    BY <1>0, <1>3, <1>6 DEF ReplicationTypeOK
  <1>8. \A x : (Journaled(x)' <=> Journaled(x)) /\ (JournaledTwice(x)' <=> JournaledTwice(x))
    BY <1>3, JournalStands
  <1>9. OwnedBytes(s)'
    <2>1. Journaled(s)
      BY <1>0, <1>2 DEF JournalPart, PlannedIsJournaled, Journaled
    <2>2. OwnedBytes(s)
      BY BytesOf
    <2>3. /\ reservations[s] # 0
          /\ \A u \in Threads : ~Holds(u, s) /\ ~Completes(u, s)
      BY <1>3, <2>1, <2>2 DEF OwnedBytes
    <2>4. Releases(t, s)' /\ Completes(t, s)' /\ ~Holds(t, s)'
      BY <1>2, <1>5, <1>6 DEF Holds, Releases, Completes, At
    <2>5. \A u \in Threads : ~Holds(u, s)' /\ (Completes(u, s)' => u = t)
      BY <1>6, <2>3, <2>4, OthersAsBefore
    <2> QED BY <1>3, <1>8, <2>1, <2>3, <2>4, <2>5 DEF OwnedBytes
  <1>10. BytesPart'
    <2>1. ASSUME NEW x \in Snapshots, x # s
          PROVE  reservations'[x] \in {0, Size[x]} /\ OwnedBytes(x)'
      <3>1. call[t].pc \notin Owning /\ call'[t].plan.snap = s
        BY <1>2, <1>3, <1>5, <1>6 DEF Owning, Completing
      <3> QED BY <1>0, <1>3, <1>6, <1>8, <2>1, <3>1, OtherBytes
    <2> QED BY <1>3, <1>9, <2>1, BytesOf DEF BytesPart
  <1>11. OutcomesPart'
    <2>1. \A i \in DOMAIN items : items[i].snap \in completed /\ items[i].snap # s
      BY <1>0, <1>3 DEF OutcomesPart
    <2>2. ASSUME NEW u \in Threads PROVE AgreesWith(u)'
      <3>1. CASE u = t
        BY <1>2, <1>3, <1>5, <1>6, <2>1, <3>1 DEF AgreesWith
      <3>2. CASE u # t
        <4>1. AgreesWith(u) /\ call'[u] = call[u]
          BY <1>0, <1>6, <3>2 DEF OutcomesPart
        <4> QED BY <1>3, <4>1 DEF AgreesWith
      <3> QED BY <3>1, <3>2
    <2>3. OutcomesAgree'
      BY <1>0, <1>3 DEF OutcomesPart, OutcomesAgree
    <2> QED BY <1>3, <2>1, <2>2, <2>3 DEF OutcomesPart
  <1>12. JournalPart'
    <2>1. \A u \in Threads : call'[u].pc = "audit" => call'[u] = call[u]
      BY <1>5, <1>6
    <2> QED BY <1>0, <1>3, <2>1 DEF JournalPart, PlannedIsJournaled, Journaled, Logged
  <1> QED BY <1>7, <1>10, <1>11, <1>12, PlanningParts

(* The completion gives the bytes of its plan back. *)
LEMMA ReleaseBudgetKeeps ==
    ASSUME PlanningInv, NEW t \in Threads, ReleaseBudget(t)
    PROVE  PlanningInv'
  <1>0. ReplicationTypeOK /\ BytesPart /\ OutcomesPart /\ JournalPart
    BY PlanningParts
  <1>1. call[t].pc = "release"
    BY DEF ReleaseBudget, At
  <1>2. PICK p, ok : p = call[t].plan /\ ok = call[t].ok
    OBVIOUS
  <1>3. p \in Plan /\ p.snap \in Snapshots /\ p.dests \in SUBSET Destinations /\ ok \in BOOLEAN
    <2>1. call[t] \in [pc: {"release"}, plan: Plan, ok: BOOLEAN]
      BY <1>0, <1>1, CallShape
    <2>2. p \in Plan /\ ok \in BOOLEAN
      BY <1>2, <2>1
    <2> QED BY <2>2 DEF Plan
  <1>4. PICK s \in Snapshots : s = p.snap
    BY <1>3
  <1>5. PICK c : c = [pc |-> "outcomes", plan |-> p, ok |-> ok, at |-> now, todo |-> p.dests]
    OBVIOUS
  <1>6. c \in Call /\ c.pc = "outcomes" /\ c.plan = p /\ c.ok = ok
    BY <1>0, <1>3, <1>5 DEF Call, ReplicationTypeOK
  <1>7. /\ UNCHANGED <<now, registry, completed, items, plans, entries, closed>>
        /\ Release(s) /\ call' = [call EXCEPT ![t] = c]
    BY <1>2, <1>4, <1>5 DEF ReleaseBudget, Become
  <1>8. /\ call' \in [Threads -> Call] /\ call'[t] = c
        /\ \A u \in Threads \ {t} : call'[u] = call[u]
    BY <1>0, <1>6, <1>7, CallBecomes
  <1>9. /\ reservations' \in [Snapshots -> Nat] /\ reservations'[s] = 0
        /\ \A x \in Snapshots : x # s => reservations'[x] = reservations[x]
        /\ used' \in Nat
    BY <1>0, <1>7, ReleaseTypes
  <1>10. ReplicationTypeOK'
    BY <1>0, <1>7, <1>8, <1>9 DEF ReplicationTypeOK
  <1>11. \A x : (Journaled(x)' <=> Journaled(x)) /\ (JournaledTwice(x)' <=> JournaledTwice(x))
    BY <1>7, JournalStands
  <1>12. OwnedBytes(s)'
    <2>1. Releases(t, s) /\ Completes(t, s)
      BY <1>1, <1>2, <1>4 DEF Releases, Completes, At
    <2>2. Completes(t, s)' /\ ~Releases(t, s)' /\ ~Holds(t, s)'
      BY <1>6, <1>8, <1>4 DEF Holds, Releases, Completes, At
    <2>3. OwnedBytes(s)
      BY BytesOf
    <2>4. /\ s \in completed /\ Journaled(s)
          /\ \A u \in Threads : ~Holds(u, s) /\ (Completes(u, s) => u = t)
      BY <2>1, <2>3 DEF OwnedBytes
    <2>5. \A u \in Threads : Releases(u, s) => Completes(u, s)
      BY DEF Releases, Completes, At
    <2>6. \A u \in Threads : /\ ~Holds(u, s)' /\ ~Releases(u, s)'
                             /\ Completes(u, s)' => u = t
      BY <1>8, <2>2, <2>4, <2>5, OthersAsBefore
    <2> QED BY <1>7, <1>9, <1>11, <2>4, <2>6 DEF OwnedBytes
  <1>13. BytesPart'
    <2>1. ASSUME NEW x \in Snapshots, x # s
          PROVE  reservations'[x] \in {0, Size[x]} /\ OwnedBytes(x)'
      <3>1. call[t].plan.snap = s /\ call'[t].plan.snap = s
        BY <1>2, <1>4, <1>6, <1>8
      <3> QED BY <1>0, <1>7, <1>8, <1>9, <1>11, <2>1, <3>1, OtherBytes
    <2> QED BY <1>9, <1>12, <2>1 DEF BytesPart
  <1>14. OutcomesPart'
    <2>1. \A u \in Threads : call'[u].pc \in Completing =>
            /\ call[u].pc \in Completing
            /\ call'[u].plan = call[u].plan /\ call'[u].ok = call[u].ok
      BY <1>1, <1>2, <1>6, <1>8 DEF Completing
    <2> QED BY <1>0, <1>7, <2>1, OutcomesFrame
  <1>15. JournalPart'
    <2>1. \A u \in Threads : call'[u].pc = "audit" => call'[u] = call[u]
      BY <1>6, <1>8
    <2> QED BY <1>0, <1>7, <2>1 DEF JournalPart, PlannedIsJournaled, Journaled, Logged
  <1> QED BY <1>10, <1>13, <1>14, <1>15, PlanningParts

------------------------------------------------------------------------------
(* The steps that move no bytes.                                            *)

(* An outcome is added by the one completion of its plan, with its result. *)
LEMMA OutcomeAdded ==
    ASSUME OutcomesPart, completed' = completed, NEW o, NEW t \in Threads,
           o.snap \in completed, call[t].pc \in Completing,
           o.snap = call[t].plan.snap, o.ok = call[t].ok,
           \A i \in DOMAIN items' :
              items'[i] = o \/ \E j \in DOMAIN items : items'[i] = items[j],
           \A u \in Threads : call'[u].pc \in Completing =>
              /\ call[u].pc \in Completing
              /\ call'[u].plan = call[u].plan /\ call'[u].ok = call[u].ok,
           \A u \in Threads : call[u].pc \in Completing /\ call[u].plan.snap = o.snap => u = t
    PROVE  OutcomesPart'
  <1>1. \A j \in DOMAIN items : items[j].snap = o.snap => items[j].ok = o.ok
    BY DEF OutcomesPart, AgreesWith
  <1>2. OutcomesAgree'
    BY <1>1 DEF OutcomesPart, OutcomesAgree
  <1>3. \A i \in DOMAIN items' : items'[i].snap \in completed'
    BY DEF OutcomesPart
  <1>4. ASSUME NEW u \in Threads PROVE AgreesWith(u)'
    <2>1. AgreesWith(u)
      BY DEF OutcomesPart
    <2> QED BY <1>1, <2>1 DEF AgreesWith
  <1> QED BY <1>2, <1>3, <1>4 DEF OutcomesPart

(* The outcomes after one is offered. *)
LEMMA AddedIsPart ==
    ASSUME items \in Seq(Outcome), NEW o \in Outcome
    PROVE  /\ Added(o) \in Seq(Outcome)
           /\ \A i \in DOMAIN Added(o) :
                Added(o)[i] = o \/ \E j \in DOMAIN items : Added(o)[i] = items[j]
  <1> DEFINE more == Append(items, o)
             rest == Pruned(more, now, Length)
  <1>1. /\ more \in Seq(Outcome)
        /\ \A i \in DOMAIN more : more[i] = o \/ \E j \in DOMAIN items : more[i] = items[j]
    OBVIOUS
  <1> HIDE DEF more
  <1>2. /\ rest \in Seq(Outcome)
        /\ \A i \in DOMAIN rest : \E j \in DOMAIN more : rest[i] = more[j]
    BY <1>1, PrunedIsPart
  <1>3. Added(o) = items \/ Added(o) = rest
    BY DEF Added, more
  <1> HIDE DEF rest
  <1> QED BY <1>1, <1>2, <1>3

(* addUniqueLocked for one destination, or the end of a completion. *)
LEMMA AddOutcomeKeeps ==
    ASSUME PlanningInv, NEW t \in Threads, AddOutcome(t)
    PROVE  PlanningInv'
  <1>0. ReplicationTypeOK /\ BytesPart /\ OutcomesPart /\ JournalPart
    BY PlanningParts
  <1>1. call[t].pc = "outcomes"
    BY DEF AddOutcome, At
  <1>2. call[t] \in [pc: {"outcomes"}, plan: Plan, ok: BOOLEAN, at: Nat, todo: SUBSET Destinations]
    BY <1>0, <1>1, CallShape
  <1>3. UNCHANGED <<now, registry, reservations, used, completed, plans, entries, closed>>
    BY DEF AddOutcome, budgetVars
  <1>4. CASE call[t].todo = {}
    <2>1. Return(t) /\ UNCHANGED items
      BY <1>4 DEF AddOutcome
    <2>2. /\ call' \in [Threads -> Call] /\ call'[t].pc = "idle"
          /\ \A u \in Threads \ {t} : call'[u] = call[u]
      BY <1>0, <2>1, CallReturns
    <2>3. ReplicationTypeOK'
      BY <1>0, <1>3, <2>1, <2>2 DEF ReplicationTypeOK
    <2>4. Quiet(t)
      BY <1>1, <2>2 DEF Quiet, Holds, Releases, Completes, At, Completing
    <2>5. \A u \in Threads : Quiet(u)
      BY <2>2, <2>4, StandingIsQuiet
    <2> QED BY <1>3, <2>1, <2>3, <2>5, QuietKeeps
  <1>5. CASE call[t].todo # {}
    <2>1. PICK d : d = Min(call[t].todo)
      OBVIOUS
    <2>2. d \in call[t].todo /\ d \in Destinations
      <3>1. PICK T : T = call[t].todo
        OBVIOUS
      <3>2. T \subseteq Nat /\ T \subseteq Destinations /\ T # {}
        BY <1>2, <1>5, <3>1, ReplicationAssumption
      <3>3. \E x \in T : \A y \in T : x <= y
        BY <3>2, LeastOf
      <3>4. Min(T) \in T
        BY <3>3 DEF Min
      <3> QED BY <2>1, <3>1, <3>2, <3>4
    <2>3. PICK o : o = [snap |-> call[t].plan.snap, dest |-> d, ok |-> call[t].ok, at |-> call[t].at]
      OBVIOUS
    <2>4. o \in Outcome /\ o.snap = call[t].plan.snap /\ o.ok = call[t].ok
      BY <1>2, <2>2, <2>3 DEF Outcome, Plan
    <2>5. PICK c : c = [pc |-> "outcomes", plan |-> call[t].plan, ok |-> call[t].ok,
                        at |-> call[t].at, todo |-> call[t].todo \ {d}]
      OBVIOUS
    <2>6. c = [call[t] EXCEPT !.todo = @ \ {d}]
      BY <1>2, <2>5
    <2>7. c \in Call /\ c.pc = "outcomes" /\ c.plan = call[t].plan /\ c.ok = call[t].ok
      BY <1>2, <2>5 DEF Call
    <2>8. items' = Added(o) /\ call' = [call EXCEPT ![t] = c]
      BY <1>5, <2>1, <2>3, <2>6 DEF AddOutcome, Become
    <2>9. /\ call' \in [Threads -> Call] /\ call'[t] = c
          /\ \A u \in Threads \ {t} : call'[u] = call[u]
      BY <1>0, <2>7, <2>8, CallBecomes
    <2>10. /\ items' \in Seq(Outcome)
           /\ \A i \in DOMAIN items' :
                items'[i] = o \/ \E j \in DOMAIN items : items'[i] = items[j]
      BY <1>0, <2>4, <2>8, AddedIsPart DEF ReplicationTypeOK
    <2>11. ReplicationTypeOK'
      BY <1>0, <1>3, <2>9, <2>10 DEF ReplicationTypeOK
    <2>12. Quiet(t)
      BY <1>1, <2>7, <2>9 DEF Quiet, Holds, Releases, Completes, At, Completing
    <2>13. \A u \in Threads : Quiet(u)
      BY <2>9, <2>12, StandingIsQuiet
    <2>14. BytesPart'
      <3> SUFFICES ASSUME NEW x \in Snapshots
                   PROVE  reservations'[x] \in {0, Size[x]} /\ OwnedBytes(x)'
        BY DEF BytesPart
      <3>1. reservations[x] \in {0, Size[x]} /\ OwnedBytes(x)
        BY <1>0 DEF BytesPart
      <3>2. (Journaled(x)' <=> Journaled(x)) /\ (JournaledTwice(x) => JournaledTwice(x)')
        BY <1>3, JournalStands
      <3> QED BY <1>3, <2>13, <3>1, <3>2, BytesFrame DEF Quiet
    <2>15. OutcomesPart'
      <3>1. PICK s \in Snapshots : s = o.snap
        BY <2>4 DEF Outcome
      <3>2. OwnedBytes(s) /\ Completes(t, s)
        BY <1>1, <2>4, <3>1, BytesOf DEF Completes
      <3>3. s \in completed /\ \A u \in Threads : Completes(u, s) => u = t
        BY <3>2 DEF OwnedBytes
      <3>4. \A u \in Threads : call[u].pc \in Completing /\ call[u].plan.snap = o.snap => u = t
        BY <3>1, <3>3 DEF Completes, Completing
      <3>5. \A u \in Threads : call'[u].pc \in Completing =>
              /\ call[u].pc \in Completing
              /\ call'[u].plan = call[u].plan /\ call'[u].ok = call[u].ok
        BY <2>13 DEF Quiet
      <3>6. call[t].pc \in Completing /\ o.snap \in completed /\ completed' = completed
        BY <1>1, <1>3, <3>1, <3>3 DEF Completing
      <3> QED BY <1>0, <2>4, <2>10, <3>4, <3>5, <3>6, OutcomeAdded
    <2>16. JournalPart'
      <3>1. \A u \in Threads : call'[u].pc = "audit" => call'[u] = call[u]
        BY <2>7, <2>9
      <3> QED BY <1>0, <1>3, <3>1 DEF JournalPart, PlannedIsJournaled, Journaled, Logged
    <2> QED BY <2>11, <2>14, <2>15, <2>16, PlanningParts
  <1> QED BY <1>4, <1>5

(* A call that is neither holding bytes nor completing moves to a place that
   is neither. *)
LEMMA AsideKeeps ==
    ASSUME PlanningInv, NEW t \in Threads,
           call[t].pc \notin Owning, call'[t].pc \notin Owning \union {"audit"},
           call' \in [Threads -> Call], \A u \in Threads \ {t} : call'[u] = call[u],
           UNCHANGED <<now, registry, reservations, used, completed, items, entries, closed>>,
           plans' \subseteq Plan, \A p \in plans' \ plans : Journaled(p.snap)
    PROVE  PlanningInv'
  <1>0. ReplicationTypeOK
    BY PlanningParts
  <1>1. ReplicationTypeOK'
    BY <1>0 DEF ReplicationTypeOK
  <1>2. Quiet(t)
    BY AsideIsQuiet DEF Owning
  <1>3. \A u \in Threads : Quiet(u)
    BY <1>2, StandingIsQuiet
  <1> QED BY <1>1, <1>3, QuietKeeps

(* The other steps of a call. *)
LEMMA PlanReplicationKeeps ==
    ASSUME PlanningInv, NEW t \in Threads, NEW s \in Snapshots, PlanReplication(t, s)
    PROVE  PlanningInv'
  <1>0. ReplicationTypeOK
    BY PlanningParts
  <1>1. PICK c : c = [pc |-> "eligible", snap |-> s]
    OBVIOUS
  <1>2. c \in Call /\ c.pc = "eligible"
    BY <1>1 DEF Call
  <1>3. call[t].pc = "idle" /\ call' = [call EXCEPT ![t] = c]
    BY <1>1 DEF PlanReplication, At, Become
  <1>4. /\ call' \in [Threads -> Call] /\ call'[t] = c
        /\ \A u \in Threads \ {t} : call'[u] = call[u]
    BY <1>0, <1>2, <1>3, CallBecomes
  <1>5. /\ call[t].pc \notin Owning /\ call'[t].pc \notin Owning \union {"audit"}
        /\ UNCHANGED <<now, registry, reservations, used, completed, items, plans, entries, closed>>
    BY <1>2, <1>3, <1>4 DEF Owning, Completing, PlanReplication, budgetVars
  <1>6. plans' \subseteq Plan
    BY <1>0, <1>5 DEF ReplicationTypeOK
  <1> QED BY <1>4, <1>5, <1>6, AsideKeeps

LEMMA BuildPlanKeeps ==
    ASSUME PlanningInv, NEW t \in Threads, BuildPlan(t)
    PROVE  PlanningInv'
  <1>0. ReplicationTypeOK
    BY PlanningParts
  <1>1. call[t].pc = "eligible" /\ call[t].snap \in Snapshots
    BY <1>0, CallShape DEF BuildPlan, At
  <1>2. PICK c \in Call : call' = [call EXCEPT ![t] = c] /\ c.pc \in {"idle", "has"}
    <2>1. PICK found : found = Eligible(Size[call[t].snap])
      OBVIOUS
    <2>2. found \subseteq Destinations
      BY <2>1 DEF Eligible
    <2> DEFINE p == [snap |-> call[t].snap, dests |-> found]
               has == [pc |-> "has", plan |-> p]
    <2>3. p \in Plan
      BY <1>1, <2>2 DEF Plan
    <2> HIDE DEF p
    <2>4. has \in Call /\ has.pc = "has" /\ Idle \in Call /\ Idle.pc = "idle"
      BY <2>3 DEF Call, PlanPCs, Idle
    <2> HIDE DEF has
    <2>5. call' = [call EXCEPT ![t] = has] \/ call' = [call EXCEPT ![t] = Idle]
      BY <2>1 DEF BuildPlan, Become, Return, has, p
    <2> QED BY <2>4, <2>5
  <1>3. /\ call' \in [Threads -> Call] /\ call'[t] = c
        /\ \A u \in Threads \ {t} : call'[u] = call[u]
    BY <1>0, <1>2, CallBecomes
  <1>4. /\ call[t].pc \notin Owning /\ call'[t].pc \notin Owning \union {"audit"}
        /\ UNCHANGED <<now, registry, reservations, used, completed, items, plans, entries, closed>>
    BY <1>1, <1>2, <1>3 DEF Owning, Completing, BuildPlan, budgetVars
  <1>5. plans' \subseteq Plan
    BY <1>0, <1>4 DEF ReplicationTypeOK
  <1> QED BY <1>3, <1>4, <1>5, AsideKeeps

LEMMA HasReservationKeeps ==
    ASSUME PlanningInv, NEW t \in Threads, HasReservation(t)
    PROVE  PlanningInv'
  <1>0. ReplicationTypeOK
    BY PlanningParts
  <1>1. call[t].pc = "has" /\ call[t].pc \in PlanPCs
    BY DEF HasReservation, At, PlanPCs
  <1>2. /\ call' \in [Threads -> Call] /\ call'[t].pc \in {"idle", "reserve"}
        /\ \A u \in Threads \ {t} : call'[u] = call[u]
    <2>1. CASE Return(t)
      BY <1>0, <2>1, CallReturns
    <2>2. CASE Goto(t, "reserve")
      BY <1>0, <1>1, <2>2, PlanGoesOn DEF PlanPCs
    <2> QED BY <2>1, <2>2 DEF HasReservation
  <1>3. /\ call[t].pc \notin Owning /\ call'[t].pc \notin Owning \union {"audit"}
        /\ UNCHANGED <<now, registry, reservations, used, completed, items, plans, entries, closed>>
    BY <1>1, <1>2 DEF Owning, Completing, HasReservation, budgetVars
  <1>4. plans' \subseteq Plan
    BY <1>0, <1>3 DEF ReplicationTypeOK
  <1> QED BY <1>2, <1>3, <1>4, AsideKeeps

LEMMA JournalClosedKeeps ==
    ASSUME PlanningInv, NEW t \in Threads, JournalClosed(t)
    PROVE  PlanningInv'
  <1>0. ReplicationTypeOK
    BY PlanningParts
  <1>1. call[t].pc = "closed" /\ call[t].pc \in PlanPCs
    BY DEF JournalClosed, At, PlanPCs
  <1>2. PICK q \in {"rollback", "append"} : Goto(t, q)
    BY DEF JournalClosed
  <1>3. q \in PlanPCs
    BY <1>2 DEF PlanPCs
  <1>4. /\ call' \in [Threads -> Call]
        /\ call'[t].pc = q /\ call'[t].plan = call[t].plan
        /\ \A u \in Threads \ {t} : call'[u] = call[u]
    BY <1>0, <1>1, <1>2, <1>3, PlanGoesOn
  <1>5. UNCHANGED <<now, registry, reservations, used, completed, items, plans, entries, closed>>
    BY DEF JournalClosed, budgetVars
  <1>6. ReplicationTypeOK'
    BY <1>0, <1>4, <1>5 DEF ReplicationTypeOK
  <1>7. Quiet(t)
    BY <1>1, <1>2, <1>4 DEF Quiet, Holds, Releases, Completes, At, Completing
  <1>8. \A u \in Threads : Quiet(u)
    BY <1>4, <1>7, StandingIsQuiet
  <1> QED BY <1>5, <1>6, <1>8, QuietKeeps

LEMMA RecordPlannedKeeps ==
    ASSUME PlanningInv, NEW t \in Threads, RecordPlanned(t)
    PROVE  PlanningInv'
  <1>0. ReplicationTypeOK /\ JournalPart
    BY PlanningParts
  <1>1. call[t].pc = "audit" /\ call[t].plan \in Plan
    BY <1>0, CallShape DEF RecordPlanned, At, PlanPCs
  <1>2. Journaled(call[t].plan.snap)
    BY <1>0, <1>1 DEF JournalPart
  <1>3. /\ call' \in [Threads -> Call] /\ call'[t].pc = "idle"
        /\ \A u \in Threads \ {t} : call'[u] = call[u]
    BY <1>0, CallReturns DEF RecordPlanned
  <1>4. /\ call[t].pc \notin Owning /\ call'[t].pc \notin Owning \union {"audit"}
        /\ UNCHANGED <<now, registry, reservations, used, completed, items, entries, closed>>
        /\ plans' = plans \union {call[t].plan}
    BY <1>1, <1>3 DEF Owning, Completing, RecordPlanned, budgetVars
  <1>5. plans' \subseteq Plan
    BY <1>0, <1>1, <1>4 DEF ReplicationTypeOK
  <1>6. \A p \in plans' \ plans : Journaled(p.snap)
    BY <1>2, <1>4
  <1> QED BY <1>3, <1>4, <1>5, <1>6, AsideKeeps

(* Registry, window, clock and the operator at the journal. *)
LEMMA EnvironmentKeeps ==
    ASSUME PlanningInv, UNCHANGED <<reservations, used, completed, plans, entries, call>>,
           now' \in Nat, closed' \in BOOLEAN,
           registry' \in [Destinations -> [capacity: Capacities \union {0}, healthy: BOOLEAN]],
           items' \in Seq(Outcome),
           \A i \in DOMAIN items' : \E j \in DOMAIN items : items'[i] = items[j]
    PROVE  PlanningInv'
  <1>0. ReplicationTypeOK
    BY PlanningParts
  <1>1. ReplicationTypeOK'
    BY <1>0 DEF ReplicationTypeOK
  <1>2. \A u \in Threads : Quiet(u)
    BY StandingIsQuiet
  <1> QED BY <1>1, <1>2, QuietKeeps

(* Health and capacity of a destination. *)
LEMMA RegistryTypes ==
    ASSUME ReplicationTypeOK, NEW d \in Destinations, NEW healthy \in BOOLEAN,
           \/ MarkHealth(d, healthy)
           \/ \E capacity \in Capacities : Register(d, capacity, healthy)
    PROVE  registry' \in [Destinations -> [capacity: Capacities \union {0}, healthy: BOOLEAN]]
  <1>1. PICK c \in Capacities \union {0} :
          registry' = [registry EXCEPT ![d] = [capacity |-> c, healthy |-> healthy]]
    <2>1. CASE MarkHealth(d, healthy)
      <3>1. registry[d] \in [capacity: Capacities \union {0}, healthy: BOOLEAN]
        BY DEF ReplicationTypeOK
      <3>2. [registry[d] EXCEPT !.healthy = healthy] =
              [capacity |-> registry[d].capacity, healthy |-> healthy]
        BY <3>1
      <3>3. registry[d].capacity \in Capacities \union {0}
        BY <3>1
      <3>4. registry' = [registry EXCEPT ![d] = [registry[d] EXCEPT !.healthy = healthy]]
        BY <2>1 DEF MarkHealth
      <3> QED BY <3>2, <3>3, <3>4
    <2>2. CASE \E capacity \in Capacities : Register(d, capacity, healthy)
      BY <2>2 DEF Register
    <2> QED BY <2>1, <2>2
  <1>2. PICK r : r = [capacity |-> c, healthy |-> healthy]
    OBVIOUS
  <1>3. r \in [capacity: Capacities \union {0}, healthy: BOOLEAN]
    BY <1>2
  <1> QED BY <1>1, <1>2, <1>3 DEF ReplicationTypeOK

LEMMA PlanningInit == ReplicationInit => PlanningInv
  <1> SUFFICES ASSUME ReplicationInit PROVE PlanningInv
    OBVIOUS
  <1>1. /\ now = 0 /\ used = 0 /\ completed = {} /\ items = <<>> /\ plans = {}
        /\ entries = <<>> /\ closed = FALSE
        /\ \A s \in Snapshots : reservations[s] = 0
        /\ \A t \in Threads : call[t].pc = "idle"
    BY DEF ReplicationInit, JournalInit, Idle
  <1>2. ReplicationTypeOK
    <2>1. registry \in [Destinations -> [capacity: Capacities \union {0}, healthy: BOOLEAN]]
      BY DEF ReplicationInit
    <2>2. call \in [Threads -> Call] /\ reservations \in [Snapshots -> Nat]
      BY DEF ReplicationInit, Call
    <2>3. items \in Seq(Outcome) /\ entries \in Seq(PlanEntry)
      BY <1>1
    <2>4. closed \in BOOLEAN
      BY <1>1, Zenon
    <2>5. now \in Nat /\ used \in Nat /\ completed \subseteq Snapshots /\ plans \subseteq Plan
      BY <1>1
    <2> QED BY <2>1, <2>2, <2>3, <2>4, <2>5 DEF ReplicationTypeOK
  <1>3. BytesPart
    <2> SUFFICES ASSUME NEW s \in Snapshots PROVE OwnedBytes(s)
      BY <1>1 DEF BytesPart
    <2>1. \A t \in Threads : ~Holds(t, s) /\ ~Completes(t, s) /\ ~Releases(t, s)
      BY <1>1 DEF Holds, Completes, Releases, At
    <2>2. ~Journaled(s)
      BY <1>1 DEF Journaled, Logged
    <2> QED BY <1>1, <2>1, <2>2 DEF OwnedBytes
  <1>4. OutcomesPart
    BY <1>1 DEF OutcomesPart, OutcomesAgree, AgreesWith, Completing
  <1>5. JournalPart
    BY <1>1 DEF JournalPart, PlannedIsJournaled
  <1> QED BY <1>2, <1>3, <1>4, <1>5, PlanningParts

LEMMA PlanningStep ==
    ASSUME PlanningInv, [ReplicationNext]_replVars
    PROVE  PlanningInv'
  <1>0. ReplicationTypeOK
    BY PlanningParts
  <1>i. /\ items \in Seq(Outcome)
        /\ \A i \in DOMAIN items : \E j \in DOMAIN items : items[i] = items[j]
    BY <1>0 DEF ReplicationTypeOK
  <1>r. registry \in [Destinations -> [capacity: Capacities \union {0}, healthy: BOOLEAN]]
    BY <1>0 DEF ReplicationTypeOK
  <1>n. now \in Nat /\ closed \in BOOLEAN
    BY <1>0 DEF ReplicationTypeOK
  <1>1. ASSUME NEW t \in Threads, Step(t) PROVE PlanningInv'
    BY <1>1, BuildPlanKeeps, HasReservationKeeps, ReserveKeeps, JournalClosedKeeps, JournalPlanKeeps,
       RollBackPlanKeeps, RecordPlannedKeeps, ReleaseBudgetKeeps, AddOutcomeKeeps DEF Step
  <1>2. ASSUME NEW d \in Destinations, NEW healthy \in BOOLEAN,
               \/ MarkHealth(d, healthy)
               \/ \E capacity \in Capacities : Register(d, capacity, healthy)
        PROVE  PlanningInv'
    <2>1. UNCHANGED <<now, reservations, used, completed, items, plans, entries, closed, call>>
      BY <1>2 DEF MarkHealth, Register, budgetVars
    <2>2. registry' \in [Destinations -> [capacity: Capacities \union {0}, healthy: BOOLEAN]]
      BY <1>0, <1>2, RegistryTypes
    <2> QED BY <1>i, <1>n, <2>1, <2>2, EnvironmentKeeps
  <1>3. CASE ReadOutcomes
    <2>1. /\ items' = Pruned(items, now, Length)
          /\ UNCHANGED <<now, registry, reservations, used, completed, plans, entries, closed, call>>
      BY <1>3 DEF ReadOutcomes, budgetVars
    <2>2. /\ items' \in Seq(Outcome)
          /\ \A i \in DOMAIN items' : \E j \in DOMAIN items : items'[i] = items[j]
      BY <1>i, <2>1, PrunedIsPart
    <2> QED BY <1>r, <1>n, <2>1, <2>2, EnvironmentKeeps
  <1>4. CASE PassTime
    <2>1. /\ now' = now + 1
          /\ UNCHANGED <<registry, reservations, used, completed, items, plans, entries, closed, call>>
      BY <1>4 DEF PassTime, budgetVars
    <2>2. now' \in Nat
      BY <1>n, <2>1
    <2> QED BY <1>i, <1>r, <1>n, <2>1, <2>2, EnvironmentKeeps
  <1>5. CASE (CloseJournal \/ OpenJournal)
             /\ UNCHANGED <<now, registry, budgetVars, completed, items, plans, call>>
    <2>1. UNCHANGED <<now, registry, reservations, used, completed, items, plans, entries, call>>
      BY <1>5 DEF CloseJournal, OpenJournal, budgetVars
    <2>2. closed' \in BOOLEAN
      <3>1. closed' = TRUE \/ closed' = FALSE
        BY <1>5, Zenon DEF CloseJournal, OpenJournal
      <3> QED BY <3>1, Zenon
    <2> QED BY <1>i, <1>r, <1>n, <2>1, <2>2, EnvironmentKeeps
  <1>6. CASE UNCHANGED replVars
    <2>1. UNCHANGED <<now, registry, reservations, used, completed, items, plans, entries, closed, call>>
      BY <1>6 DEF replVars
    <2> QED BY <1>i, <1>r, <1>n, <2>1, EnvironmentKeeps
  <1> QED BY <1>1, <1>2, <1>3, <1>4, <1>5, <1>6, PlanReplicationKeeps, MarkCompletedKeeps
          DEF ReplicationNext, Environment

------------------------------------------------------------------------------
(* The budget, and what the invariants say.                                 *)

(* Only Reserve and Release touch the budget, at one snapshot each. *)
LEMMA BudgetStep ==
    ASSUME ReplicationTypeOK, BudgetIsExact, [ReplicationNext]_replVars
    PROVE  BudgetIsExact'
  <1>0. /\ used \in Nat /\ reservations \in [Snapshots -> Nat] /\ Limit \in Nat
        /\ IsFiniteSet(Snapshots) /\ IsSum(used, reservations, Snapshots) /\ used <= Limit
    BY ReplicationAssumption DEF ReplicationTypeOK, BudgetIsExact
  <1>1. ASSUME NEW s \in Snapshots, Release(s) PROVE BudgetIsExact'
    <2>1. reservations[s] \in Nat
      BY <1>0
    <2>2. /\ reservations[s] <= used
          /\ IsSum((used - reservations[s]) + 0, [reservations EXCEPT ![s] = 0], Snapshots)
      BY <1>0, SumMoves
    <2>3. used' = used - reservations[s] /\ (used - reservations[s]) + 0 = used - reservations[s]
      BY <1>0, <1>1, <2>1, <2>2 DEF Release
    <2>4. reservations' = [reservations EXCEPT ![s] = 0]
      BY <1>1 DEF Release
    <2>5. IsSum(used', reservations', Snapshots)
      BY <2>2, <2>3, <2>4
    <2>6. used' <= Limit
      BY <1>0, <2>1, <2>3
    <2> QED BY <2>5, <2>6 DEF BudgetIsExact, IsSum
  <1>2. ASSUME NEW s \in Snapshots, CanReserve(s),
               reservations' = [reservations EXCEPT ![s] = Size[s]], used' = used + Size[s]
        PROVE  BudgetIsExact'
    <2>1. Size[s] \in Nat /\ reservations[s] = 0 /\ used + Size[s] <= Limit
      BY <1>2, ReplicationAssumption DEF CanReserve
    <2>2. IsSum((used - reservations[s]) + Size[s], [reservations EXCEPT ![s] = Size[s]], Snapshots)
      BY <1>0, <2>1, SumMoves
    <2>3. (used - reservations[s]) + Size[s] = used'
      BY <1>0, <1>2, <2>1
    <2>4. IsSum(used', reservations', Snapshots)
      BY <1>2, <2>2, <2>3
    <2> QED BY <1>2, <2>1, <2>4 DEF BudgetIsExact, IsSum
  <1>3. CASE UNCHANGED <<reservations, used>>
    BY <1>3 DEF BudgetIsExact, IsSum
  <1>4. ASSUME NEW t \in Threads, Reserve(t) PROVE BudgetIsExact'
    <2>1. PICK s : s = call[t].plan.snap
      OBVIOUS
    <2>2. s \in Snapshots
      BY <1>4, <2>1, CallShape DEF Reserve, At, PlanPCs
    <2> QED BY <1>2, <1>3, <1>4, <2>1, <2>2 DEF Reserve, budgetVars
  <1>5. ASSUME NEW t \in Threads, RollBackPlan(t) \/ ReleaseBudget(t) PROVE BudgetIsExact'
    <2>1. call[t].plan.snap \in Snapshots
      BY <1>5, CallShape DEF RollBackPlan, ReleaseBudget, At, PlanPCs, Completing
    <2>2. Release(call[t].plan.snap)
      BY <1>5 DEF RollBackPlan, ReleaseBudget
    <2> QED BY <1>1, <2>1, <2>2
  <1>6. ASSUME NEW t \in Threads, Step(t) PROVE BudgetIsExact'
    <2>1. CASE \/ BuildPlan(t) \/ HasReservation(t) \/ JournalClosed(t)
               \/ JournalPlan(t) \/ RecordPlanned(t) \/ AddOutcome(t)
      BY <1>3, <2>1 DEF BuildPlan, HasReservation, JournalClosed, JournalPlan, RecordPlanned,
         AddOutcome, budgetVars
    <2> QED BY <1>4, <1>5, <1>6, <2>1 DEF Step
  <1>7. CASE Environment
    BY <1>3, <1>7 DEF Environment, MarkHealth, Register, PlanReplication, MarkCompleted,
       ReadOutcomes, PassTime, budgetVars
  <1>8. CASE UNCHANGED replVars
    BY <1>3, <1>8 DEF replVars
  <1> QED BY <1>6, <1>7, <1>8 DEF ReplicationNext

(* The owners of the bytes imply what the runs check of them. *)
LEMMA OwnersSuffice ==
    ASSUME PlanningInv
    PROVE  ReservedIsJournaled /\ CompletedHoldsNothing
  <1>1. \A t \in Threads, s \in Snapshots : Holds(t, s) => PlansSnapshot(t, s)
    BY DEF Holds, PlansSnapshot, PlanPCs
  <1>2. ASSUME NEW s \in Snapshots, reservations[s] # 0, \A t \in Threads : ~PlansSnapshot(t, s)
        PROVE  Journaled(s)
    BY <1>1, <1>2, BytesOf DEF OwnedBytes
  <1>3. ASSUME NEW s \in completed,
               \A i, j \in DOMAIN entries : entries[i].snap = s /\ entries[j].snap = s => i = j,
               \A t \in Threads : ~PlansSnapshot(t, s),
               \A t \in Threads : At(t, "release") => call[t].plan.snap # s
        PROVE  reservations[s] = 0
    <2>1. s \in Snapshots
      BY <1>3, PlanningParts DEF ReplicationTypeOK
    <2>2. ~JournaledTwice(s)
      BY <1>3 DEF JournaledTwice
    <2>3. \A t \in Threads : ~Holds(t, s) /\ ~Releases(t, s)
      BY <1>1, <1>3, <2>1 DEF Releases
    <2> QED BY <2>1, <2>2, <2>3, BytesOf DEF OwnedBytes
  <1> QED BY <1>2, <1>3 DEF ReservedIsJournaled, CompletedHoldsNothing, Journaled

LEMMA OwnersSufficeNext == PlanningInv' => ReservedIsJournaled'
<1>1. PlanningInv => ReservedIsJournaled
  BY OwnersSuffice
<1> QED BY <1>1, PTL

LEMMA ReplicationInvInit == ReplicationInit => ReplicationInv
  <1> SUFFICES ASSUME ReplicationInit PROVE ReplicationInv
    OBVIOUS
  <1>1. PlanningInv
    BY PlanningInit
  <1>2. IsSum(0, [s \in Snapshots |-> 0], Snapshots)
    BY EmptySum, ReplicationAssumption
  <1>3. BudgetIsExact
    BY <1>2, ReplicationAssumption DEF ReplicationInit, BudgetIsExact
  <1> QED BY <1>1, <1>3, OwnersSuffice DEF ReplicationInv

LEMMA ReplicationInvStep ==
    ASSUME ReplicationInv, [ReplicationNext]_replVars
    PROVE  ReplicationInv'
  <1>1. PlanningInv /\ BudgetIsExact /\ ReplicationTypeOK
    BY PlanningParts DEF ReplicationInv
  <1>2. PlanningInv'
    BY <1>1, PlanningStep
  <1>3. BudgetIsExact'
    BY <1>1, BudgetStep
  <1>4. ReservedIsJournaled'
    BY <1>2, OwnersSufficeNext
  <1> QED BY <1>2, <1>3, <1>4 DEF ReplicationInv

(* However plans, roll-backs, completions and closings of the journal race:
   the budget has in use exactly what the reservations sum to and never more
   than its limit, bytes outlive a plan only with the plan in the journal, and
   what a caller or the audit ledger sees as planned is journaled. *)
THEOREM ReplicationInvariant == ReplicationSpec => []ReplicationInv
  <1> QED BY ReplicationInvInit, ReplicationInvStep, PTL DEF ReplicationSpec

(* Two callers that complete one plan with different results never leave both
   results in the window: markCompleted lets one of them through. *)
THEOREM OutcomesAlwaysAgree == ReplicationSpec => []OutcomesAgree
<1>1. ReplicationInv => OutcomesAgree
  BY DEF ReplicationInv, PlanningInv
<1> QED BY <1>1, ReplicationInvariant, PTL

(* Once a completion has released its plan, bytes of the snapshot are reserved
   only if it is planned, or was planned, again. *)
THEOREM CompletionHoldsNothing == ReplicationSpec => []CompletedHoldsNothing
<1>1. ReplicationInv => CompletedHoldsNothing
  BY OwnersSuffice DEF ReplicationInv
<1> QED BY <1>1, ReplicationInvariant, PTL
=============================================================================
