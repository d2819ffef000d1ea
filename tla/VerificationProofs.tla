------------------------- MODULE VerificationProofs -------------------------
(***************************************************************************)
(* Verification, retention, rollback and replay for any number of          *)
(* goroutines, snapshots and captures, and any journal.                    *)
(***************************************************************************)
EXTENDS Verification, FiniteSetTheorems, SequenceTheorems, WellFoundedInduction, TLAPS

(* Sets of numbers have a least and, if bounded, a greatest member. *)
LEMMA LeastNumber ==
    ASSUME NEW T, T \subseteq Nat, T # {}
    PROVE  \E i \in T : \A j \in T : i <= j
  <1>1. PICK i \in T : \A j \in T : ~(<<j, i>> \in OpToRel(<, Nat))
    BY WFMin, NatLessThanWellFounded
  <1>2. \A j \in T : ~(j < i)
    BY <1>1 DEF OpToRel
  <1> QED BY <1>2

LEMMA GreatestNumber ==
    ASSUME NEW b \in Nat, NEW T, T \subseteq 0..b, T # {}
    PROVE  \E i \in T : \A j \in T : j <= i
  <1> DEFINE D == {b - x : x \in T}
  <1>0. \A x \in T : x \in 0..b /\ b - x \in Nat
    <2>1. \A x \in T : x \in 0..b
      OBVIOUS
    <2> QED BY <2>1
  <1>1. D \subseteq Nat /\ D # {}
    BY <1>0
  <1>2. PICK d \in D : \A e \in D : d <= e
    <2> HIDE DEF D
    <2> QED BY <1>1, LeastNumber
  <1>3. PICK i \in T : d = b - i
    BY <1>2
  <1>4. ASSUME NEW j \in T PROVE j <= i
    <2>1. b - i <= b - j
      BY <1>2, <1>3
    <2>2. i \in Nat /\ j \in Nat
      BY <1>0
    <2> QED BY <2>1, <2>2
  <1> QED BY <1>4

(* A finite set of numbers has a member of every rank. *)
LEMMA RankExists ==
    ASSUME NEW F, F \subseteq Nat, IsFiniteSet(F), NEW n \in 1..Cardinality(F)
    PROVE  \E i \in F : Cardinality({j \in F : j < i}) = n - 1
  <1> DEFINE Below(i) == {j \in F : j < i}
             Upto(i) == {j \in F : j <= i}
             Above(i) == {j \in F : j > i}
             Ranked(m) == \E i \in F : Cardinality(Below(i)) = m - 1
             Bad == {m \in 1..Cardinality(F) : ~Ranked(m)}
  <1>0. \A j \in F : j \in Nat
    OBVIOUS
  <1>1. Cardinality(F) \in Nat
    BY FS_CardinalityType
  <1>2. SUFFICES Bad = {}
    BY DEF Bad, Ranked
  <1>3. SUFFICES ASSUME Bad # {} PROVE FALSE
    OBVIOUS
  <1>4. PICK m \in Bad : \A k \in Bad : m <= k
    <2>1. Bad \subseteq Nat
      BY <1>1
    <2> HIDE DEF Bad
    <2> QED BY <1>3, <2>1, LeastNumber
  <1>5. \A i : Below(i) \subseteq F /\ Upto(i) \subseteq F /\ IsFiniteSet(Below(i)) /\ IsFiniteSet(Upto(i))
    BY FS_Subset
  <1>6. F # {}
    BY <1>1, <1>4, FS_EmptySet
  <1>7. CASE m = 1
    <2>1. PICK i \in F : \A j \in F : i <= j
      BY <1>6, LeastNumber
    <2>2. Below(i) = {}
      <3>1. \A j \in F : ~(j < i)
        BY <1>0, <2>1
      <3> QED BY <3>1
    <2>3. Cardinality(Below(i)) = 0
      BY <2>2, FS_EmptySet
    <2> QED BY <1>4, <1>7, <2>3
  <1>8. CASE m # 1
    <2>1. m \in 1..Cardinality(F) /\ m - 1 \in 1..Cardinality(F) /\ m - 1 \notin Bad
      BY <1>1, <1>4, <1>8
    <2>2. PICK i \in F : Cardinality(Below(i)) = (m - 1) - 1
      BY <2>1
    <2>3. Upto(i) = Below(i) \union {i} /\ i \notin Below(i)
      <3>1. \A j \in F : j <= i <=> j < i \/ j = i
        BY <1>0
      <3>2. ~(i < i)
        BY <1>0
      <3> QED BY <3>1, <3>2
    <2>4. Cardinality(Upto(i)) = m - 1
      <3>1. Cardinality(Upto(i)) = Cardinality(Below(i)) + 1
        <4> HIDE DEF Below, Upto
        <4> QED BY <1>5, <2>3, FS_AddElement
      <3> HIDE DEF Below, Upto
      <3> QED BY <1>1, <2>1, <2>2, <3>1
    <2>5. Above(i) # {}
      <3>1. SUFFICES ASSUME Above(i) = {} PROVE FALSE
        OBVIOUS
      <3>2. \A j \in F : j <= i
        BY <1>0, <3>1
      <3>3. Upto(i) = F
        BY <3>2
      <3>4. Cardinality(F) = m - 1
        BY <2>4, <3>3
      <3> QED BY <1>1, <2>1, <3>4
    <2>6. PICK a \in Above(i) : \A b \in Above(i) : a <= b
      <3>1. Above(i) \subseteq Nat
        OBVIOUS
      <3> HIDE DEF Above
      <3> QED BY <2>5, <3>1, LeastNumber
    <2>7. a \in F /\ Below(a) = Upto(i)
      <3>1. \A j \in F : j < a <=> j <= i
        <4>1. i \in Nat /\ a \in Nat /\ a > i /\ a \in F
          BY <1>0
        <4>2. ASSUME NEW j \in F, j < a PROVE j <= i
          BY <1>0, <2>6, <4>1, <4>2
        <4>3. ASSUME NEW j \in F, j <= i PROVE j < a
          BY <1>0, <4>1, <4>3
        <4> QED BY <4>2, <4>3
      <3> QED BY <2>6, <3>1
    <2>8. Cardinality(Below(a)) = m - 1
      BY <2>4, <2>7
    <2>9. Ranked(m)
      BY <2>7, <2>8
    <2> QED BY <1>4, <2>9
  <1> QED BY <1>7, <1>8

(* Two members of a finite set of numbers differ in rank. *)
LEMMA RankDiffers ==
    ASSUME NEW F, F \subseteq Nat, IsFiniteSet(F), NEW i \in F, NEW k \in F, i < k
    PROVE  /\ Cardinality({j \in F : j < i}) \in Nat
           /\ Cardinality({j \in F : j < i}) < Cardinality({j \in F : j < k})
           /\ Cardinality({j \in F : j < k}) < Cardinality(F)
  <1> DEFINE Below(x) == {j \in F : j < x}
  <1>0. \A j \in F : j \in Nat
    OBVIOUS
  <1>1. \A x : IsFiniteSet(Below(x)) /\ Below(x) \subseteq F
    BY FS_Subset
  <1>2. i \notin Below(i) /\ Below(i) \union {i} \subseteq Below(k)
    <2>1. \A j \in F : j < i => j < k
      BY <1>0
    <2>2. ~(i < i)
      BY <1>0
    <2> QED BY <2>1, <2>2
  <1>3. k \notin Below(k) /\ Below(k) \union {k} \subseteq F
    <2>1. ~(k < k)
      BY <1>0
    <2> QED BY <2>1
  <1> HIDE DEF Below
  <1>4. /\ Cardinality(Below(i)) \in Nat /\ Cardinality(Below(k)) \in Nat /\ Cardinality(F) \in Nat
    BY <1>1, FS_CardinalityType
  <1>5. Cardinality(Below(i) \union {i}) = Cardinality(Below(i)) + 1
    BY <1>1, <1>2, FS_AddElement
  <1>6. Cardinality(Below(k) \union {k}) = Cardinality(Below(k)) + 1
    BY <1>1, <1>3, FS_AddElement
  <1>7. Cardinality(Below(i) \union {i}) <= Cardinality(Below(k))
    BY <1>1, <1>2, FS_Subset
  <1>8. Cardinality(Below(k) \union {k}) <= Cardinality(F)
    BY <1>3, FS_Subset
  <1>9. Cardinality(Below(i)) < Cardinality(Below(k)) /\ Cardinality(Below(k)) < Cardinality(F)
    BY <1>4, <1>5, <1>6, <1>7, <1>8
  <1> QED BY <1>4, <1>9 DEF Below

LEMMA RankInRange ==
    ASSUME NEW F, F \subseteq Nat, IsFiniteSet(F), NEW i \in F
    PROVE  Cardinality({j \in F : j < i}) + 1 \in 1..Cardinality(F)
  <1> DEFINE Below == {j \in F : j < i}
  <1>0. i \in Nat
    OBVIOUS
  <1>1. i \notin Below /\ Below \union {i} \subseteq F /\ Below \subseteq F
    BY <1>0
  <1> HIDE DEF Below
  <1>2. IsFiniteSet(Below)
    BY <1>1, FS_Subset
  <1>3. Cardinality(Below) \in Nat /\ Cardinality(F) \in Nat
    BY <1>2, FS_CardinalityType
  <1>4. Cardinality(Below \union {i}) = Cardinality(Below) + 1
    BY <1>1, <1>2, FS_AddElement
  <1>5. Cardinality(Below \union {i}) <= Cardinality(F)
    BY <1>1, FS_Subset
  <1>6. Cardinality(Below) + 1 \in 1..Cardinality(F)
    BY <1>3, <1>4, <1>5
  <1> QED BY <1>6 DEF Below

(* journal.LatestByOperation, for any log: what it returns are entries of the
   log, one for each operation of the log, and none of the same operation has a
   greater generation. *)
THEOREM LatestIsExact ==
    ASSUME NEW log \in Seq(Entry), NEW latest, latest = LatestByOperation(log)
    PROVE  /\ latest \in Seq(Entry)
           /\ \A n \in DOMAIN latest : \E j \in DOMAIN log : latest[n] = log[j]
           /\ \A n \in DOMAIN latest, k \in DOMAIN log :
                 log[k].op = latest[n].op => log[k].gen <= latest[n].gen
           /\ \A m, n \in DOMAIN latest : latest[m].op = latest[n].op => m = n
           /\ \A k \in DOMAIN log : \E n \in DOMAIN latest : latest[n].op = log[k].op
  <1> DEFINE later(i, j) == log[j].gen > log[i].gen \/ (log[j].gen = log[i].gen /\ j > i)
             same(i)     == {j \in DOMAIN log : log[j].op = log[i].op}
             firsts      == {i \in DOMAIN log : \A j \in same(i) : i <= j}
             last(i)     == CHOOSE j \in same(i) : \A k \in same(i) : ~later(j, k)
             nth(n)      == CHOOSE i \in firsts : Cardinality({j \in firsts : j < i}) = n - 1
             N           == Cardinality(firsts)
  <1>1. Len(log) \in Nat /\ DOMAIN log = 1..Len(log) /\ \A i \in DOMAIN log : log[i] \in Entry
    OBVIOUS
  <1>2. \A i \in DOMAIN log : log[i].gen \in 0..MaxGens /\ i \in 0..Len(log) /\ i \in Nat
    BY <1>1, VerificationAssumption DEF Entry, Gens
  <1>3. firsts \subseteq Nat /\ firsts \subseteq DOMAIN log /\ IsFiniteSet(firsts)
    <2>1. firsts \subseteq DOMAIN log
      OBVIOUS
    <2>2. IsFiniteSet(DOMAIN log)
      BY <1>1, FS_Interval
    <2> QED BY <1>2, <2>1, <2>2, FS_Subset
  <1>4. ASSUME NEW i \in DOMAIN log
        PROVE  /\ last(i) \in same(i)
               /\ \A k \in same(i) : log[k].gen <= log[last(i)].gen
    <2>1. i \in same(i) /\ same(i) \subseteq DOMAIN log
      OBVIOUS
    <2> DEFINE G == {log[k].gen : k \in same(i)}
    <2>2. PICK g \in G : \A h \in G : h <= g
      <3>1. G # {} /\ G \subseteq 0..MaxGens
        BY <1>2, <2>1
      <3> HIDE DEF G
      <3> QED BY <3>1, GreatestNumber, VerificationAssumption
    <2> DEFINE J == {k \in same(i) : log[k].gen = g}
    <2>3. PICK j \in J : \A k \in J : k <= j
      <3>1. J # {} /\ J \subseteq 0..Len(log)
        BY <1>2, <2>1, <2>2
      <3> HIDE DEF J
      <3> QED BY <1>1, <3>1, GreatestNumber
    <2>4. j \in same(i) /\ log[j].gen = g
      OBVIOUS
    <2>5. \A k \in same(i) : ~later(j, k)
      <3>1. ASSUME NEW k \in same(i) PROVE ~later(j, k)
        <4>1. log[k].gen <= g /\ log[k].gen \in Nat /\ g \in Nat /\ k \in Nat /\ j \in Nat
          BY <1>2, <2>2, <2>4
        <4>2. log[k].gen = g => k <= j
          BY <2>3
        <4> QED BY <2>4, <4>1, <4>2
      <3> QED BY <3>1
    <2>6. last(i) \in same(i) /\ \A k \in same(i) : ~later(last(i), k)
      <3> HIDE DEF same, later
      <3> QED BY <2>4, <2>5
    <2>7. ASSUME NEW k \in same(i) PROVE log[k].gen <= log[last(i)].gen
      <3>1. ~(log[k].gen > log[last(i)].gen)
        BY <2>6
      <3>2. log[k].gen \in Nat /\ log[last(i)].gen \in Nat
        BY <1>2, <2>1, <2>6
      <3> HIDE DEF last
      <3> QED BY <3>1, <3>2
    <2> QED BY <2>6, <2>7
  <1>5. ASSUME NEW n \in 1..N
        PROVE  nth(n) \in firsts /\ Cardinality({j \in firsts : j < nth(n)}) = n - 1
    <2>1. \E i \in firsts : Cardinality({j \in firsts : j < i}) = n - 1
      <3> HIDE DEF firsts
      <3> QED BY <1>3, RankExists
    <2> HIDE DEF firsts
    <2> QED BY <2>1
  <1>6. latest = [n \in 1..N |-> log[last(nth(n))]]
    BY DEF LatestByOperation
  <1>7. N \in Nat
    <2> HIDE DEF firsts
    <2> QED BY <1>3, FS_CardinalityType
  <1>8. DOMAIN latest = 1..N /\ \A n \in 1..N : latest[n] = log[last(nth(n))]
    <2> HIDE DEF N, nth, last
    <2> QED BY <1>6
  <1>9. ASSUME NEW n \in 1..N
        PROVE  /\ nth(n) \in firsts /\ nth(n) \in DOMAIN log
               /\ last(nth(n)) \in DOMAIN log
               /\ log[last(nth(n))].op = log[nth(n)].op
               /\ \A k \in DOMAIN log : log[k].op = log[nth(n)].op =>
                     log[k].gen <= log[last(nth(n))].gen
    <2>1. nth(n) \in firsts /\ nth(n) \in DOMAIN log
      BY <1>3, <1>5
    <2> HIDE DEF nth, last, firsts
    <2>2. last(nth(n)) \in same(nth(n)) /\ \A k \in same(nth(n)) : log[k].gen <= log[last(nth(n))].gen
      BY <1>4, <2>1
    <2> QED BY <2>1, <2>2
  <1>10. \A i, k \in firsts : log[i].op = log[k].op => i = k
    <2>1. ASSUME NEW i \in firsts, NEW k \in firsts, log[i].op = log[k].op PROVE i = k
      <3>1. i <= k /\ k <= i
        BY <2>1
      <3>2. i \in Nat /\ k \in Nat
        BY <1>3
      <3> QED BY <3>1, <3>2
    <2> QED BY <2>1
  <1>11. \A k \in DOMAIN log : \E i \in firsts : log[i].op = log[k].op
    <2>1. ASSUME NEW k \in DOMAIN log PROVE \E i \in firsts : log[i].op = log[k].op
      <3>1. same(k) \subseteq Nat /\ same(k) # {}
        BY <1>2
      <3>2. PICK i \in same(k) : \A j \in same(k) : i <= j
        <4> HIDE DEF same
        <4> QED BY <3>1, LeastNumber
      <3>3. i \in DOMAIN log /\ log[i].op = log[k].op /\ same(i) = same(k)
        OBVIOUS
      <3> QED BY <3>2, <3>3
    <2> QED BY <2>1
  <1>12. ASSUME NEW i \in firsts
         PROVE  \E n \in 1..N : nth(n) = i
    <2> DEFINE rank(x) == Cardinality({j \in firsts : j < x})
    <2>1. rank(i) + 1 \in 1..N
      <3> HIDE DEF firsts
      <3> QED BY <1>3, RankInRange
    <2>2. nth(rank(i) + 1) \in firsts /\ rank(nth(rank(i) + 1)) = (rank(i) + 1) - 1
      <3> HIDE DEF nth, firsts
      <3> QED BY <1>5, <2>1
    <2>3. rank(i) \in Nat
      <3>1. IsFiniteSet({j \in firsts : j < i})
        BY <1>3, FS_Subset
      <3> HIDE DEF firsts
      <3> QED BY <3>1, FS_CardinalityType
    <2> DEFINE k == nth(rank(i) + 1)
    <2>4. k \in firsts /\ rank(k) = rank(i) /\ k \in Nat /\ i \in Nat
      <3> HIDE DEF nth, firsts, rank
      <3>1. (rank(i) + 1) - 1 = rank(i)
        BY <2>3
      <3>2. \A x \in firsts : x \in Nat
        BY <1>3
      <3>3. k \in firsts /\ rank(k) = rank(i)
        BY <2>2, <3>1
      <3> HIDE DEF k
      <3> QED BY <3>2, <3>3
    <2> HIDE DEF k
    <2>5. ~(i < k)
      <3>1. i < k => rank(i) < rank(k)
        <4> HIDE DEF firsts
        <4> QED BY <1>3, <2>4, RankDiffers
      <3> HIDE DEF rank
      <3> QED BY <2>3, <2>4, <3>1
    <2>6. ~(k < i)
      <3>1. k < i => rank(k) < rank(i)
        <4> HIDE DEF firsts
        <4> QED BY <1>3, <2>4, RankDiffers
      <3> HIDE DEF rank
      <3> QED BY <2>3, <2>4, <3>1
    <2>7. k = i
      BY <2>4, <2>5, <2>6
    <2> HIDE DEF rank, firsts, nth
    <2> QED BY <2>1, <2>7 DEF k
  <1> HIDE DEF later, same, firsts, last, nth, N
  <1>13. latest \in Seq(Entry)
    <2>1. \A n \in 1..N : latest[n] \in Entry
      BY <1>1, <1>8, <1>9
    <2>2. latest = [n \in 1..N |-> latest[n]]
      BY <1>6, <1>8
    <2> QED BY <1>7, <2>1, <2>2, IsASeq
  <1>14. \A n \in DOMAIN latest : \E j \in DOMAIN log : latest[n] = log[j]
    BY <1>8, <1>9
  <1>15. \A n \in DOMAIN latest, k \in DOMAIN log :
            log[k].op = latest[n].op => log[k].gen <= latest[n].gen
    BY <1>8, <1>9
  <1>16. ASSUME NEW m \in DOMAIN latest, NEW n \in DOMAIN latest, latest[m].op = latest[n].op
         PROVE  m = n
    <2>1. m \in 1..N /\ n \in 1..N
      BY <1>8
    <2>2. log[nth(m)].op = log[nth(n)].op
      BY <1>8, <1>9, <1>16, <2>1
    <2>3. nth(m) = nth(n)
      BY <1>9, <1>10, <2>1, <2>2
    <2>4. m - 1 = n - 1
      BY <1>5, <2>1, <2>3
    <2> QED BY <1>7, <2>1, <2>4
  <1>17. \A k \in DOMAIN log : \E n \in DOMAIN latest : latest[n].op = log[k].op
    <2>1. ASSUME NEW k \in DOMAIN log PROVE \E n \in DOMAIN latest : latest[n].op = log[k].op
      <3>1. PICK i \in firsts : log[i].op = log[k].op
        BY <1>11
      <3>2. PICK n \in 1..N : nth(n) = i
        BY <1>12
      <3>3. n \in DOMAIN latest /\ latest[n].op = log[i].op
        BY <1>8, <1>9, <3>2
      <3> QED BY <3>1, <3>3
    <2> QED BY <2>1
  <1> QED BY <1>13, <1>14, <1>15, <1>16, <1>17

------------------------------------------------------------------------------
(* The shape of a step.                                                     *)

(* What a call in progress relies on, one goroutine at a time. *)
Relies(t) ==
    LET c == call[t] IN
    /\ c.pc = "publish" => c.gen <= nextGen
    /\ c.pc \in {"journal", "setstate", "receipt"} => CanSetState(c.snap, c.gen)
    /\ c.pc \in {"setstate", "receipt"} => VerifyLogged(c.snap, c.gen)
    /\ c.pc = "rollback" =>
          /\ catalog[c.snap].full
          /\ catalog[c.snap].gen < c.gen
          /\ VerifyLogged(c.snap, catalog[c.snap].gen)
    /\ c.pc = "replay" => \A i \in DOMAIN c.todo : \E j \in DOMAIN entries : c.todo[i] = entries[j]

(* What RollbackGoesBack says of one entry of the journal. *)
GoesBack(i) ==
    LET target == entries[i].snap IN
    /\ catalog[target].full
    /\ catalog[target].gen < entries[i].gen
    /\ \E j \in 1..(i - 1) :
          entries[j].kind = "verify" /\ entries[j].snap = target
            /\ entries[j].gen = catalog[target].gen

(* Nothing that was captured or journaled is taken back. *)
NothingIsLost ==
    /\ \A s \in Snapshots : Exists(s) =>
          /\ catalog'[s].state # "absent"
          /\ catalog'[s].gen = catalog[s].gen /\ catalog'[s].full = catalog[s].full
    /\ \A i \in DOMAIN entries : i \in DOMAIN entries' /\ entries'[i] = entries[i]
    /\ nextGen' >= nextGen

(* Whatever is new has its reason. *)
NewIsJustified ==
    /\ \A u \in Threads : call'[u] = call[u] \/ Relies(u)'
    /\ \A s \in Snapshots : catalog'[s].state = "verified" =>
          catalog[s].state = "verified" \/ VerifyLogged(s, catalog'[s].gen)
    /\ \A s \in Snapshots : receipts'[s] # 0 =>
          \/ receipts'[s] = receipts[s]
          \/ Exists(s) /\ receipts'[s] = catalog[s].gen /\ VerifyLogged(s, catalog[s].gen)
    /\ \A s \in Snapshots : catalog'[s].state # "absent" =>
          Exists(s) \/ catalog'[s].gen \in 1..nextGen
    /\ \A i \in DOMAIN entries' :
          \/ i \in DOMAIN entries
          \/ /\ entries'[i].op = entries'[i].gen
             /\ entries'[i].kind = "verify" => CanSetState(entries'[i].snap, entries'[i].gen)
             /\ entries'[i].kind = "rollback" => GoesBack(i)'

LEMMA CallsRely ==
    ASSUME VerificationInv, NEW t \in Threads
    PROVE  Relies(t)
  BY DEF VerificationInv, VerifyNeverConflicts, Relies, At

LEMMA LoggedExists ==
    ASSUME VerificationInv, NEW s \in Snapshots, NEW g, VerifyLogged(s, g)
    PROVE  Exists(s) /\ catalog[s].gen = g
  BY DEF VerificationInv, VerifyLogged

LEMMA LoggedStays ==
    ASSUME NothingIsLost, NEW s, NEW g, VerifyLogged(s, g)
    PROVE  VerifyLogged(s, g)'
  BY DEF VerifyLogged, NothingIsLost

(* The shape of a call, by its pc. *)
LEMMA CallShape ==
    ASSUME VerificationTypeOK, NEW t \in Threads
    PROVE  /\ call[t].pc = "publish" =>
                 call[t] \in [pc: {"publish"}, snap: Snapshots, gen: Gens, full: BOOLEAN, created: Nat]
           /\ call[t].pc \in {"journal", "setstate", "receipt"} =>
                 call[t] \in [pc: {"journal", "setstate", "receipt"}, snap: Snapshots, gen: Gens]
           /\ call[t].pc = "rollback" =>
                 call[t] \in [pc: {"rollback"}, snap: Snapshots, gen: Gens]
           /\ call[t].pc = "replay" => call[t] \in [pc: {"replay"}, todo: Seq(Entry)]
  <1>1. call[t] \in Call
    BY DEF VerificationTypeOK
  <1> QED BY <1>1 DEF Call, Idle

LEMMA CallFields ==
    ASSUME VerificationTypeOK, NEW t \in Threads
    PROVE  /\ call[t].pc = "publish" =>
                 call[t].snap \in Snapshots /\ call[t].gen \in Gens /\ call[t].created \in Nat
           /\ call[t].pc \in {"journal", "setstate", "receipt", "rollback"} =>
                 call[t].snap \in Snapshots /\ call[t].gen \in Gens
           /\ call[t].pc = "replay" => call[t].todo \in Seq(Entry)
  BY CallShape

(* What goroutines that do not move rely on stays true. *)
LEMMA ReliesStill ==
    ASSUME VerificationInv, NothingIsLost, VerificationTypeOK',
           NEW u \in Threads, call'[u] = call[u]
    PROVE  Relies(u)'
  <1> DEFINE c == call[u]
  <1>0. VerificationTypeOK /\ Relies(u)
    BY CallsRely DEF VerificationInv
  <1>1. nextGen \in Nat /\ nextGen' \in Nat
    BY <1>0, VerificationAssumption DEF VerificationTypeOK
  <1>2. CASE c.pc = "publish"
    <2>1. c.gen \in Nat
      BY <1>0, <1>2, CallFields DEF Gens
    <2> QED BY <1>0, <1>1, <1>2, <2>1 DEF Relies, NothingIsLost
  <1>3. CASE c.pc \in {"journal", "setstate", "receipt"}
    <2>1. c.snap \in Snapshots
      BY <1>0, <1>3, CallFields
    <2>2. CanSetState(c.snap, c.gen) /\ (c.pc # "journal" => VerifyLogged(c.snap, c.gen))
      BY <1>0, <1>3 DEF Relies
    <2>3. catalog'[c.snap].state # "absent" /\ catalog'[c.snap].gen = c.gen
      BY <2>1, <2>2 DEF CanSetState, NothingIsLost
    <2>4. PICK s, g : s = c.snap /\ g = c.gen
      OBVIOUS
    <2>5. c.pc # "journal" => VerifyLogged(s, g)'
      BY <2>2, <2>4, LoggedStays
    <2> QED BY <1>3, <2>3, <2>4, <2>5 DEF Relies, CanSetState, Exists, VerifyLogged
  <1>4. CASE c.pc = "rollback"
    <2>1. PICK s, g : s = c.snap /\ g = catalog[s].gen
      OBVIOUS
    <2>2. s \in Snapshots
      BY <1>0, <1>4, <2>1, CallFields
    <2>3. catalog[s].full /\ g < c.gen /\ VerifyLogged(s, g)
      BY <1>0, <1>4, <2>1 DEF Relies
    <2>4. VerifyLogged(s, g)' /\ Exists(s)
      BY <2>2, <2>3, LoggedStays, LoggedExists
    <2>5. catalog'[s].full /\ catalog'[s].gen = g
      BY <2>1, <2>2, <2>3, <2>4 DEF NothingIsLost
    <2> QED BY <1>4, <2>1, <2>3, <2>4, <2>5 DEF Relies, VerifyLogged
  <1>5. CASE c.pc = "replay"
    BY <1>0, <1>5 DEF Relies, NothingIsLost
  <1>6. CASE c.pc \notin {"publish", "journal", "setstate", "receipt", "rollback", "replay"}
    BY <1>6 DEF Relies
  <1> QED BY <1>2, <1>3, <1>4, <1>5, <1>6

(* A step of that shape keeps the invariant. *)
LEMMA JustifiedKeeps ==
    ASSUME VerificationInv, VerificationTypeOK', NothingIsLost, NewIsJustified
    PROVE  VerificationInv'
  <1>0. VerificationTypeOK
    BY DEF VerificationInv
  <1>1. ASSUME NEW u \in Threads PROVE Relies(u)'
    BY ReliesStill DEF NewIsJustified
  <1>2. ASSUME NEW s \in Snapshots, catalog'[s].state = "verified"
        PROVE  VerifyLogged(s, catalog[s].gen)'
    <2>1. PICK g : g = catalog'[s].gen
      OBVIOUS
    <2>2. VerifyLogged(s, g)
      <3>1. CASE catalog[s].state = "verified"
        <4>1. VerifyLogged(s, catalog[s].gen) /\ g = catalog[s].gen
          BY <2>1, <3>1 DEF VerificationInv, VerifiedIsJournaled, NothingIsLost, Exists
        <4> QED BY <4>1
      <3>2. CASE VerifyLogged(s, catalog'[s].gen)
        BY <2>1, <3>2
      <3> QED BY <1>2, <3>1, <3>2 DEF NewIsJustified
    <2>3. VerifyLogged(s, g)'
      BY <2>2, LoggedStays
    <2> QED BY <2>1, <2>3 DEF VerifyLogged
  <1>3. ASSUME NEW s \in Snapshots, receipts'[s] # 0
        PROVE  receipts'[s] = catalog'[s].gen /\ VerifyLogged(s, receipts[s])'
    <2>1. PICK g : g = catalog[s].gen
      OBVIOUS
    <2>2. Exists(s) /\ receipts'[s] = g /\ VerifyLogged(s, g)
      <3>1. CASE receipts'[s] = receipts[s]
        <4>1. receipts[s] = catalog[s].gen /\ VerifyLogged(s, receipts[s])
          BY <1>3, <3>1 DEF VerificationInv, VerifiedIsJournaled
        <4>2. VerifyLogged(s, g)
          BY <2>1, <4>1
        <4> QED BY <2>1, <3>1, <4>1, <4>2, LoggedExists
      <3>2. CASE Exists(s) /\ receipts'[s] = catalog[s].gen /\ VerifyLogged(s, catalog[s].gen)
        BY <2>1, <3>2
      <3> QED BY <1>3, <3>1, <3>2 DEF NewIsJustified
    <2>3. VerifyLogged(s, g)'
      BY <2>2, LoggedStays
    <2> QED BY <2>1, <2>2, <2>3 DEF VerifyLogged, NothingIsLost
  <1>4. ASSUME NEW s \in Snapshots, catalog'[s].state # "absent"
        PROVE  catalog'[s].gen \in 1..nextGen'
    <2>1. nextGen \in Nat /\ nextGen' \in Nat /\ nextGen' >= nextGen
      BY <1>0, VerificationAssumption DEF VerificationTypeOK, NothingIsLost
    <2>2. catalog'[s].gen \in 1..nextGen
      BY <1>4 DEF VerificationInv, NewIsJustified, NothingIsLost
    <2> QED BY <2>1, <2>2
  <1>5. ASSUME NEW i \in DOMAIN entries'
        PROVE  /\ entries'[i].op = entries'[i].gen
               /\ entries'[i].kind = "verify" =>
                     catalog'[entries'[i].snap].state # "absent" /\ catalog'[entries'[i].snap].gen = entries'[i].gen
    <2>1. entries'[i].snap \in Snapshots
      <3>1. entries'[i] \in Entry
        BY DEF VerificationTypeOK
      <3> QED BY <3>1 DEF Entry
    <2>2. /\ entries'[i].op = entries'[i].gen
          /\ entries'[i].kind = "verify" => CanSetState(entries'[i].snap, entries'[i].gen)
      <3>1. CASE i \in DOMAIN entries
        BY <3>1 DEF VerificationInv, NothingIsLost, CanSetState
      <3>2. CASE i \notin DOMAIN entries
        BY <3>2 DEF NewIsJustified
      <3> QED BY <3>1, <3>2
    <2> QED BY <2>1, <2>2 DEF NothingIsLost, CanSetState
  <1>6. VerifyNeverConflicts'
    BY <1>1 DEF VerifyNeverConflicts, Relies
  <1>7. VerifiedIsJournaled'
    BY <1>2, <1>3 DEF VerifiedIsJournaled
  <1>8. \A t \in Threads : /\ At(t, "publish")' => call'[t].gen <= nextGen'
                           /\ At(t, "rollback")' =>
                                 /\ catalog'[call'[t].snap].full
                                 /\ catalog'[call'[t].snap].gen < call'[t].gen
                                 /\ VerifyLogged(call[t].snap, catalog[call[t].snap].gen)'
                           /\ At(t, "replay")' =>
                                 \A i \in DOMAIN call'[t].todo :
                                    \E j \in DOMAIN entries' : call'[t].todo[i] = entries'[j]
    BY <1>1 DEF Relies, At
  <1> QED BY <1>4, <1>5, <1>6, <1>7, <1>8 DEF VerificationInv, Exists

LEMMA JustifiedGoesBack ==
    ASSUME VerificationInv, VerificationTypeOK', NothingIsLost, NewIsJustified, RollbackGoesBack
    PROVE  RollbackGoesBack'
  <1>0. VerificationTypeOK
    BY DEF VerificationInv
  <1>1. ASSUME NEW i \in DOMAIN entries', entries'[i].kind = "rollback" PROVE GoesBack(i)'
    <2>1. CASE i \notin DOMAIN entries
      BY <1>1, <2>1 DEF NewIsJustified
    <2>2. CASE i \in DOMAIN entries
      <3>1. entries'[i] = entries[i] /\ entries[i].kind = "rollback" /\ entries[i].snap \in Snapshots
        <4>1. entries[i] \in Entry
          BY <1>0, <2>2 DEF VerificationTypeOK
        <4> QED BY <1>1, <2>2, <4>1 DEF NothingIsLost, Entry
      <3>2. GoesBack(i)
        BY <2>2, <3>1 DEF RollbackGoesBack, GoesBack
      <3>3. PICK target : target = entries[i].snap
        OBVIOUS
      <3>4. PICK j \in 1..(i - 1) : entries[j].kind = "verify" /\ entries[j].snap = target
                                      /\ entries[j].gen = catalog[target].gen
        BY <3>2, <3>3 DEF GoesBack
      <3>5. j \in DOMAIN entries
        BY <1>0, <2>2 DEF VerificationTypeOK
      <3>6. Exists(target)
        BY <3>3, <3>4, <3>5 DEF VerificationInv
      <3>7. catalog'[target].gen = catalog[target].gen /\ catalog'[target].full = catalog[target].full
            /\ entries'[j] = entries[j]
        BY <3>1, <3>3, <3>5, <3>6 DEF NothingIsLost
      <3> QED BY <3>1, <3>2, <3>3, <3>4, <3>7 DEF GoesBack
    <2> QED BY <2>1, <2>2
  <1> QED BY <1>1 DEF RollbackGoesBack, GoesBack

------------------------------------------------------------------------------
(* What the store steps and the control steps of a call do to their state.  *)

LEMMA CallSet ==
    ASSUME VerificationTypeOK, NEW t \in Threads, NEW c \in Call, call' = [call EXCEPT ![t] = c]
    PROVE  /\ call' \in [Threads -> Call]
           /\ call'[t] = c
           /\ \A u \in Threads : u # t => call'[u] = call[u]
  BY DEF VerificationTypeOK

LEMMA CallReturns ==
    ASSUME VerificationTypeOK, NEW t \in Threads, Return(t)
    PROVE  /\ call' \in [Threads -> Call]
           /\ \A u \in Threads : u # t => call'[u] = call[u]
           /\ Relies(t)'
  <1>1. Idle \in Call
    BY DEF Call
  <1>2. call'[t] = Idle /\ call' \in [Threads -> Call] /\ \A u \in Threads : u # t => call'[u] = call[u]
    BY <1>1, CallSet DEF Return
  <1>3. Relies(t)'
    BY <1>2 DEF Relies, Idle
  <1> QED BY <1>2, <1>3

LEMMA CallGoesOn ==
    ASSUME VerificationTypeOK, NEW t \in Threads, NEW pc \in {"journal", "setstate", "receipt"},
           call[t].pc \in {"journal", "setstate", "receipt"}, Goto(t, pc)
    PROVE  /\ call' \in [Threads -> Call]
           /\ \A u \in Threads : u # t => call'[u] = call[u]
           /\ call'[t].pc = pc /\ call'[t].snap = call[t].snap /\ call'[t].gen = call[t].gen
  <1> DEFINE c == [pc |-> pc, snap |-> call[t].snap, gen |-> call[t].gen]
  <1>1. call[t] \in [pc: {"journal", "setstate", "receipt"}, snap: Snapshots, gen: Gens]
    BY CallShape
  <1>2. [call[t] EXCEPT !.pc = pc] = c
    BY <1>1
  <1>3. c \in Call
    BY <1>1 DEF Call
  <1>4. call' = [call EXCEPT ![t] = c]
    BY <1>2 DEF Goto
  <1>5. call'[t] = c /\ call' \in [Threads -> Call] /\ \A u \in Threads : u # t => call'[u] = call[u]
    BY <1>3, <1>4, CallSet
  <1> QED BY <1>5

LEMMA TodoIsSet ==
    ASSUME NEW S, NEW r \in [pc: {"replay"}, todo: S], NEW q
    PROVE  [r EXCEPT !.todo = q] = [pc |-> "replay", todo |-> q]
  OBVIOUS

LEMMA CallNextEntry ==
    ASSUME VerificationTypeOK, NEW t \in Threads, call[t].pc = "replay", call[t].todo # <<>>,
           call' = [call EXCEPT ![t].todo = Tail(@)]
    PROVE  /\ call' \in [Threads -> Call]
           /\ \A u \in Threads : u # t => call'[u] = call[u]
           /\ call'[t] = [pc |-> "replay", todo |-> Tail(call[t].todo)]
  <1> DEFINE c == [pc |-> "replay", todo |-> Tail(call[t].todo)]
  <1>1. call[t] \in [pc: {"replay"}, todo: Seq(Entry)]
    BY CallShape
  <1>2. [call[t] EXCEPT !.todo = Tail(call[t].todo)] = c
    <2>1. PICK r, q : r = call[t] /\ q = Tail(call[t].todo)
      OBVIOUS
    <2>2. [r EXCEPT !.todo = q] = [pc |-> "replay", todo |-> q]
      BY <1>1, <2>1, TodoIsSet
    <2> QED BY <2>1, <2>2
  <1>3. c \in Call
    <2>1. Tail(call[t].todo) \in Seq(Entry)
      BY <1>1
    <2> QED BY <2>1 DEF Call
  <1>4. call' = [call EXCEPT ![t] = c]
    BY <1>2
  <1> QED BY <1>3, <1>4, CallSet

(* The journal grows by one entry at its end. *)
LEMMA JournalGrows ==
    ASSUME VerificationTypeOK, NEW e \in Entry, AppendEntry(e)
    PROVE  /\ entries' \in Seq(Entry)
           /\ closed' \in BOOLEAN
           /\ Len(entries') = Len(entries) + 1
           /\ DOMAIN entries' = 1..(Len(entries) + 1)
           /\ entries'[Len(entries) + 1] = e
           /\ \A i \in DOMAIN entries : i \in DOMAIN entries' /\ entries'[i] = entries[i]
           /\ \A i \in DOMAIN entries' : i \in DOMAIN entries \/ entries'[i] = e
  <1>1. entries \in Seq(Entry) /\ Len(entries) \in Nat /\ DOMAIN entries = 1..Len(entries)
    BY DEF VerificationTypeOK
  <1>2. closed' \in BOOLEAN
    BY DEF AppendEntry, VerificationTypeOK
  <1>3. entries' = Append(entries, e)
    BY DEF AppendEntry
  <1> QED BY <1>1, <1>2, <1>3

(* A state change keeps what identifies the snapshot. *)
LEMMA StateIsSet ==
    ASSUME CatalogTypeOK, NEW s \in Snapshots, SetState(s, "verified")
    PROVE  /\ catalog' \in [Snapshots -> Record]
           /\ catalog'[s].state = "verified"
           /\ \A r \in Snapshots : catalog'[r].gen = catalog[r].gen /\ catalog'[r].full = catalog[r].full
           /\ \A r \in Snapshots : r # s => catalog'[r] = catalog[r]
  <1>1. catalog[s] \in Record
    BY DEF CatalogTypeOK
  <1>2. [catalog[s] EXCEPT !.state = "verified"] \in Record
    BY <1>1 DEF Record, States
  <1> QED BY <1>1, <1>2 DEF SetState, CatalogTypeOK, Record

LEMMA ExpiredKeep ==
    ASSUME CatalogTypeOK, NEW keep, ExpireUnprotected(keep)
    PROVE  /\ catalog' \in [Snapshots -> Record]
           /\ \A r \in Snapshots : /\ catalog'[r].gen = catalog[r].gen
                                   /\ catalog'[r].full = catalog[r].full
                                   /\ \/ catalog'[r].state = catalog[r].state
                                      \/ Exists(r) /\ catalog'[r].state = "expired"
  <1>1. PICK kept \in SUBSET Snapshots :
            catalog' = [s \in Snapshots |->
              IF Exists(s) /\ s \notin kept /\ restoreRefs[s] = {}
              THEN [catalog[s] EXCEPT !.state = "expired"] ELSE catalog[s]]
    BY DEF ExpireUnprotected
  <1>2. ASSUME NEW r \in Snapshots
        PROVE  /\ catalog[r] \in Record
               /\ [catalog[r] EXCEPT !.state = "expired"] \in Record
               /\ [catalog[r] EXCEPT !.state = "expired"].gen = catalog[r].gen
               /\ [catalog[r] EXCEPT !.state = "expired"].full = catalog[r].full
               /\ [catalog[r] EXCEPT !.state = "expired"].state = "expired"
    BY DEF CatalogTypeOK, Record, States
  <1>3. catalog' \in [Snapshots -> Record]
    BY <1>1, <1>2
  <1>4. ASSUME NEW r \in Snapshots
        PROVE  catalog'[r] = IF Exists(r) /\ r \notin kept /\ restoreRefs[r] = {}
                             THEN [catalog[r] EXCEPT !.state = "expired"] ELSE catalog[r]
    BY <1>1
  <1>5. ASSUME NEW r \in Snapshots
        PROVE  /\ catalog'[r].gen = catalog[r].gen
               /\ catalog'[r].full = catalog[r].full
               /\ \/ catalog'[r].state = catalog[r].state
                  \/ Exists(r) /\ catalog'[r].state = "expired"
    <2>1. CASE Exists(r) /\ r \notin kept /\ restoreRefs[r] = {}
      BY <1>2, <1>4, <2>1
    <2>2. CASE ~(Exists(r) /\ r \notin kept /\ restoreRefs[r] = {})
      BY <1>4, <2>2
    <2> QED BY <2>1, <2>2
  <1> QED BY <1>3, <1>5

------------------------------------------------------------------------------
(* Every action makes a step of the shape above. *)
WellMade == VerificationTypeOK' /\ NothingIsLost /\ NewIsJustified

(* A step of one call that touches no store. *)
LEMMA OnlyTheCall ==
    ASSUME VerificationInv, NEW t \in Threads, Relies(t)', call' \in [Threads -> Call],
           \A u \in Threads : u # t => call'[u] = call[u],
           UNCHANGED <<catalog, restoreRefs, entries, closed, now, nextGen, receipts, replayed>>
    PROVE  WellMade
  <1>1. VerificationTypeOK'
    BY DEF VerificationInv, VerificationTypeOK, CatalogTypeOK
  <1>2. NothingIsLost
    <2>1. nextGen \in Nat
      BY VerificationAssumption DEF VerificationInv, VerificationTypeOK
    <2> QED BY <2>1 DEF NothingIsLost, Exists
  <1>3. NewIsJustified
    BY DEF NewIsJustified, Exists
  <1> QED BY <1>1, <1>2, <1>3 DEF WellMade

(* A call that appends its entry to the journal. *)
LEMMA OnlyTheJournal ==
    ASSUME VerificationInv, NEW t \in Threads, Relies(t)', call' \in [Threads -> Call],
           \A u \in Threads : u # t => call'[u] = call[u],
           NEW e \in Entry, AppendEntry(e), e.op = e.gen,
           e.kind = "verify" => CanSetState(e.snap, e.gen),
           e.kind = "rollback" => \A i \in DOMAIN entries' : i \in DOMAIN entries \/ GoesBack(i)',
           nextGen' \in 0..MaxGens, nextGen' >= nextGen,
           UNCHANGED <<catalog, restoreRefs, now, receipts, replayed>>
    PROVE  WellMade
  <1>0. VerificationTypeOK
    BY DEF VerificationInv
  <1>1. VerificationTypeOK'
    BY <1>0, JournalGrows DEF VerificationTypeOK, CatalogTypeOK
  <1>2. NothingIsLost
    BY <1>0, JournalGrows DEF NothingIsLost, Exists
  <1>3. \A i \in DOMAIN entries' : i \in DOMAIN entries \/ entries'[i] = e
    BY <1>0, JournalGrows
  <1>4. NewIsJustified
    BY <1>3 DEF NewIsJustified, Exists
  <1> QED BY <1>1, <1>2, <1>4 DEF WellMade

LEMMA JournalPublishStep ==
    ASSUME VerificationInv, NEW t \in Threads, NEW s \in Snapshots, NEW full \in BOOLEAN,
           JournalPublish(t, s, full)
    PROVE  WellMade
  <1> DEFINE e == [kind |-> "publish", snap |-> s, op |-> nextGen + 1, gen |-> nextGen + 1]
             c == [pc |-> "publish", snap |-> s, gen |-> nextGen + 1, full |-> full, created |-> now]
  <1>0. VerificationTypeOK
    BY DEF VerificationInv
  <1>1. /\ nextGen \in Nat /\ nextGen + 1 \in Gens /\ now \in Nat
        /\ nextGen' = nextGen + 1 /\ nextGen' \in 0..MaxGens /\ nextGen' >= nextGen
    BY <1>0, VerificationAssumption DEF VerificationTypeOK, JournalPublish, Gens
  <1>2. e \in Entry /\ e.op = e.gen /\ e.kind = "publish"
    BY <1>1 DEF Entry, Kinds
  <1>3. c \in Call
    BY <1>1 DEF Call
  <1>4. call' \in [Threads -> Call] /\ call'[t] = c /\ \A u \in Threads : u # t => call'[u] = call[u]
    BY <1>0, <1>3, CallSet DEF JournalPublish, Begin
  <1>5. Relies(t)'
    BY <1>1, <1>4 DEF Relies
  <1>6. AppendEntry(e) /\ UNCHANGED <<catalog, restoreRefs, now, receipts, replayed>>
    BY DEF JournalPublish
  <1> HIDE DEF e, c
  <1> QED BY <1>1, <1>2, <1>4, <1>5, <1>6, OnlyTheJournal

LEMMA PublishStep ==
    ASSUME VerificationInv, NEW t \in Threads, Publish(t)
    PROVE  WellMade
  <1> DEFINE c == call[t]
             r == [state |-> "published", gen |-> c.gen, full |-> c.full, created |-> c.created]
  <1>0. VerificationTypeOK /\ Relies(t)
    BY CallsRely DEF VerificationInv
  <1>1. c \in [pc: {"publish"}, snap: Snapshots, gen: Gens, full: BOOLEAN, created: Nat]
    BY <1>0, CallShape DEF Publish, At
  <1>2. c.snap \in Snapshots /\ c.gen \in 1..nextGen /\ c.gen \in Nat /\ nextGen \in Nat
    BY <1>0, <1>1, VerificationAssumption DEF Relies, Gens, VerificationTypeOK
  <1>3. r \in Record
    BY <1>1, <1>2 DEF Record, States
  <1>4. call' \in [Threads -> Call] /\ Relies(t)' /\ \A u \in Threads : u # t => call'[u] = call[u]
    BY <1>0, CallReturns DEF Publish
  <1>5. UNCHANGED <<restoreRefs, entries, closed, now, nextGen, receipts, replayed>>
    BY DEF Publish
  <1>6. CASE Exists(c.snap)
    <2>1. UNCHANGED catalog
      BY <1>6 DEF Publish, CommitSnapshot
    <2> QED BY <1>4, <1>5, <2>1, OnlyTheCall
  <1>7. CASE ~Exists(c.snap)
    <2>1. catalog' = [catalog EXCEPT ![c.snap] = r]
      BY <1>7 DEF Publish, CommitSnapshot
    <2>2. catalog \in [Snapshots -> Record]
      BY <1>0 DEF VerificationTypeOK, CatalogTypeOK
    <2>3. r.state = "published" /\ r.gen = c.gen
      OBVIOUS
    <2> HIDE DEF r
    <2>4. /\ catalog' \in [Snapshots -> Record] /\ catalog'[c.snap] = r
          /\ \A s \in Snapshots : s # c.snap => catalog'[s] = catalog[s]
      BY <1>2, <1>3, <2>1, <2>2
    <2> HIDE DEF c
    <2>5. VerificationTypeOK'
      BY <1>0, <1>4, <1>5, <2>4 DEF VerificationTypeOK, CatalogTypeOK
    <2>6. NothingIsLost
      BY <1>2, <1>5, <1>7, <2>4 DEF NothingIsLost, Exists
    <2>7. NewIsJustified
      BY <1>2, <1>4, <1>5, <2>3, <2>4 DEF NewIsJustified, Exists
    <2> QED BY <2>5, <2>6, <2>7 DEF WellMade
  <1> QED BY <1>6, <1>7

LEMMA VerifySnapshotStep ==
    ASSUME VerificationInv, NEW t \in Threads, NEW s \in Snapshots, VerifySnapshot(t, s)
    PROVE  WellMade
  <1> DEFINE c == [pc |-> "journal", snap |-> s, gen |-> catalog[s].gen]
  <1>0. VerificationTypeOK
    BY DEF VerificationInv
  <1>1. Exists(s) /\ catalog[s].gen \in Gens
    <2>1. Exists(s)
      BY DEF VerifySnapshot, Exists
    <2>2. catalog[s].gen \in 1..nextGen /\ nextGen \in 0..MaxGens
      BY <2>1 DEF VerificationInv, VerificationTypeOK
    <2> QED BY <2>1, <2>2, VerificationAssumption DEF Gens
  <1>2. c \in Call
    BY <1>1 DEF Call
  <1>3. call' \in [Threads -> Call] /\ call'[t] = c /\ \A u \in Threads : u # t => call'[u] = call[u]
    BY <1>0, <1>2, CallSet DEF VerifySnapshot, Begin
  <1>4. UNCHANGED <<catalog, restoreRefs, entries, closed, now, nextGen, receipts, replayed>>
    BY DEF VerifySnapshot
  <1>5. Relies(t)'
    BY <1>1, <1>3, <1>4 DEF Relies, CanSetState, Exists
  <1> QED BY <1>3, <1>4, <1>5, OnlyTheCall

LEMMA JournalVerifyStep ==
    ASSUME VerificationInv, NEW t \in Threads, JournalVerify(t)
    PROVE  WellMade
  <1> DEFINE c == call[t]
             e == [kind |-> "verify", snap |-> c.snap, op |-> c.gen, gen |-> c.gen]
  <1>0. VerificationTypeOK /\ Relies(t) /\ c.pc = "journal"
    BY CallsRely DEF VerificationInv, JournalVerify, At
  <1>1. c.snap \in Snapshots /\ c.gen \in Gens /\ CanSetState(c.snap, c.gen)
    BY <1>0, CallFields DEF Relies
  <1>2. UNCHANGED <<catalog, restoreRefs, now, nextGen, receipts, replayed>>
    BY DEF JournalVerify
  <1>3. CASE AppendEntry(e) /\ Goto(t, "setstate")
    <2>1. e \in Entry /\ e.op = e.gen /\ e.kind = "verify" /\ e.snap = c.snap /\ e.gen = c.gen
      BY <1>1 DEF Entry, Kinds
    <2>2. /\ call' \in [Threads -> Call] /\ \A u \in Threads : u # t => call'[u] = call[u]
          /\ call'[t].pc = "setstate" /\ call'[t].snap = c.snap /\ call'[t].gen = c.gen
      <3>1. PICK pc \in {"journal", "setstate", "receipt"} : pc = "setstate"
        OBVIOUS
      <3>2. Goto(t, pc) /\ call[t].pc \in {"journal", "setstate", "receipt"}
        BY <1>0, <1>3, <3>1
      <3> QED BY <1>0, <3>1, <3>2, CallGoesOn
    <2> HIDE DEF e
    <2>3. Len(entries) + 1 \in DOMAIN entries' /\ entries'[Len(entries) + 1] = e
      <3>1. Len(entries) \in Nat
        BY <1>0 DEF VerificationTypeOK
      <3> QED BY <1>0, <1>3, <2>1, <3>1, JournalGrows
    <2>4. VerifyLogged(call[t].snap, call[t].gen)'
      BY <2>1, <2>2, <2>3 DEF VerifyLogged
    <2>5. Relies(t)'
      BY <1>1, <1>2, <2>2, <2>4 DEF Relies, CanSetState, Exists
    <2>6. nextGen' \in 0..MaxGens /\ nextGen' >= nextGen
      BY <1>0, <1>2, VerificationAssumption DEF VerificationTypeOK
    <2>7. CanSetState(e.snap, e.gen)
      BY <1>1, <2>1
    <2> QED BY <1>2, <1>3, <2>1, <2>2, <2>5, <2>6, <2>7, OnlyTheJournal
  <1>4. CASE closed /\ Return(t) /\ UNCHANGED <<entries, closed>>
    BY <1>0, <1>2, <1>4, CallReturns, OnlyTheCall
  <1> QED BY <1>3, <1>4 DEF JournalVerify

LEMMA SetVerifiedStep ==
    ASSUME VerificationInv, NEW t \in Threads, SetVerified(t)
    PROVE  WellMade
  <1> DEFINE c == call[t]
  <1>0. VerificationTypeOK /\ CatalogTypeOK /\ Relies(t) /\ c.pc = "setstate"
    BY CallsRely DEF VerificationInv, VerificationTypeOK, SetVerified, At
  <1>1. /\ c.snap \in Snapshots /\ c.gen \in Gens /\ Exists(c.snap) /\ catalog[c.snap].gen = c.gen
        /\ VerifyLogged(c.snap, c.gen)
    BY <1>0, CallFields DEF Relies, CanSetState
  <1>2. /\ SetState(c.snap, "verified") /\ Goto(t, "receipt")
        /\ UNCHANGED <<restoreRefs, entries, closed, now, nextGen, receipts, replayed>>
    BY <1>1 DEF SetVerified, CanSetState
  <1>3. /\ call' \in [Threads -> Call] /\ \A u \in Threads : u # t => call'[u] = call[u]
        /\ call'[t].pc = "receipt" /\ call'[t].snap = c.snap /\ call'[t].gen = c.gen
    <2>1. PICK pc \in {"journal", "setstate", "receipt"} : pc = "receipt"
      OBVIOUS
    <2>2. Goto(t, pc) /\ call[t].pc \in {"journal", "setstate", "receipt"}
      BY <1>0, <1>2, <2>1
    <2> QED BY <1>0, <2>1, <2>2, CallGoesOn
  <1>4. /\ catalog' \in [Snapshots -> Record]
        /\ catalog'[c.snap].state = "verified"
        /\ \A r \in Snapshots : catalog'[r].gen = catalog[r].gen /\ catalog'[r].full = catalog[r].full
        /\ \A r \in Snapshots : r # c.snap => catalog'[r] = catalog[r]
    BY <1>0, <1>1, <1>2, StateIsSet
  <1>5. VerificationTypeOK'
    BY <1>0, <1>2, <1>3, <1>4 DEF VerificationTypeOK, CatalogTypeOK
  <1>6. NothingIsLost
    <2>1. nextGen' >= nextGen
      BY <1>0, <1>2, VerificationAssumption DEF VerificationTypeOK
    <2> QED BY <1>2, <1>4, <2>1 DEF NothingIsLost, Exists
  <1>7. Relies(t)'
    <2>1. PICK s, g : s = c.snap /\ g = c.gen
      OBVIOUS
    <2>2. VerifyLogged(s, g)'
      BY <1>1, <1>6, <2>1, LoggedStays
    <2>3. VerifyLogged(call[t].snap, call[t].gen)'
      BY <1>3, <2>1, <2>2 DEF VerifyLogged
    <2>4. CanSetState(call[t].snap, call[t].gen)'
      BY <1>1, <1>3, <1>4 DEF CanSetState, Exists
    <2> QED BY <1>3, <2>3, <2>4 DEF Relies
  <1>8. NewIsJustified
    <2>1. \A s \in Snapshots : catalog'[s].state = "verified" =>
            catalog[s].state = "verified" \/ VerifyLogged(s, catalog'[s].gen)
      BY <1>1, <1>4
    <2> QED BY <1>1, <1>2, <1>3, <1>4, <1>7, <2>1 DEF NewIsJustified, Exists
  <1> QED BY <1>5, <1>6, <1>8 DEF WellMade

LEMMA CommitReceiptStep ==
    ASSUME VerificationInv, NEW t \in Threads, CommitReceipt(t)
    PROVE  WellMade
  <1> DEFINE c == call[t]
  <1>0. VerificationTypeOK /\ Relies(t) /\ c.pc = "receipt"
    BY CallsRely DEF VerificationInv, CommitReceipt, At
  <1>1. /\ c.snap \in Snapshots /\ c.gen \in Gens /\ Exists(c.snap) /\ catalog[c.snap].gen = c.gen
        /\ VerifyLogged(c.snap, c.gen)
    BY <1>0, CallFields DEF Relies, CanSetState
  <1>2. /\ receipts' = [receipts EXCEPT ![c.snap] = c.gen] /\ Return(t)
        /\ UNCHANGED <<catalog, restoreRefs, entries, closed, now, nextGen, replayed>>
    BY DEF CommitReceipt
  <1>3. call' \in [Threads -> Call] /\ Relies(t)' /\ \A u \in Threads : u # t => call'[u] = call[u]
    BY <1>0, <1>2, CallReturns
  <1>4. /\ receipts' \in [Snapshots -> 0..MaxGens] /\ receipts'[c.snap] = c.gen
        /\ \A s \in Snapshots : s # c.snap => receipts'[s] = receipts[s]
    BY <1>0, <1>1, <1>2 DEF VerificationTypeOK, Gens
  <1>5. VerificationTypeOK'
    BY <1>0, <1>2, <1>3, <1>4 DEF VerificationTypeOK, CatalogTypeOK
  <1>6. NothingIsLost
    <2>1. nextGen' >= nextGen
      BY <1>0, <1>2, VerificationAssumption DEF VerificationTypeOK
    <2> QED BY <1>2, <2>1 DEF NothingIsLost, Exists
  <1>7. NewIsJustified
    BY <1>1, <1>2, <1>3, <1>4 DEF NewIsJustified, Exists
  <1> QED BY <1>5, <1>6, <1>7 DEF WellMade

LEMMA ApplyRetentionStep ==
    ASSUME VerificationInv, NEW t \in Threads, NEW keep, ApplyRetention(t, keep)
    PROVE  WellMade
  <1>0. VerificationTypeOK /\ CatalogTypeOK
    BY DEF VerificationInv, VerificationTypeOK
  <1>1. /\ ExpireUnprotected(keep)
        /\ UNCHANGED <<restoreRefs, entries, closed, now, nextGen, receipts, replayed, call>>
    BY DEF ApplyRetention
  <1>2. /\ catalog' \in [Snapshots -> Record]
        /\ \A r \in Snapshots : /\ catalog'[r].gen = catalog[r].gen
                                /\ catalog'[r].full = catalog[r].full
                                /\ \/ catalog'[r].state = catalog[r].state
                                   \/ Exists(r) /\ catalog'[r].state = "expired"
    BY <1>0, <1>1, ExpiredKeep
  <1>3. VerificationTypeOK'
    BY <1>0, <1>1, <1>2 DEF VerificationTypeOK, CatalogTypeOK
  <1>4. NothingIsLost
    <2>1. nextGen' >= nextGen
      BY <1>0, <1>1, VerificationAssumption DEF VerificationTypeOK
    <2> QED BY <1>1, <1>2, <2>1 DEF NothingIsLost, Exists
  <1>5. NewIsJustified
    BY <1>1, <1>2 DEF NewIsJustified, Exists
  <1> QED BY <1>3, <1>4, <1>5 DEF WellMade

LEMMA RollbackStep ==
    ASSUME VerificationInv, NEW t \in Threads, NEW s \in Snapshots, Rollback(t, s)
    PROVE  WellMade
  <1>0. VerificationTypeOK
    BY DEF VerificationInv
  <1>1. PICK target \in LastVerifiedFull(catalog[s].gen) :
            Begin(t, [pc |-> "rollback", snap |-> target, gen |-> catalog[s].gen])
    BY DEF Rollback
  <1> DEFINE c == [pc |-> "rollback", snap |-> target, gen |-> catalog[s].gen]
  <1>2. /\ target \in Snapshots /\ catalog[target].full /\ catalog[target].gen < catalog[s].gen
        /\ catalog[target].state = "verified"
    BY <1>1 DEF LastVerifiedFull
  <1>3. VerifyLogged(target, catalog[target].gen)
    BY <1>2 DEF VerificationInv, VerifiedIsJournaled
  <1>4. catalog[s].gen \in Gens
    <2>1. catalog[s].gen \in 1..nextGen /\ nextGen \in 0..MaxGens
      BY DEF Rollback, VerificationInv, VerificationTypeOK
    <2> QED BY <2>1, VerificationAssumption DEF Gens
  <1>5. c \in Call
    BY <1>2, <1>4 DEF Call
  <1>6. call' \in [Threads -> Call] /\ call'[t] = c /\ \A u \in Threads : u # t => call'[u] = call[u]
    BY <1>0, <1>1, <1>5, CallSet DEF Begin
  <1>7. UNCHANGED <<catalog, restoreRefs, entries, closed, now, nextGen, receipts, replayed>>
    BY DEF Rollback
  <1>8. Relies(t)'
    BY <1>2, <1>3, <1>6, <1>7 DEF Relies, VerifyLogged
  <1> QED BY <1>6, <1>7, <1>8, OnlyTheCall

LEMMA JournalRollbackStep ==
    ASSUME VerificationInv, NEW t \in Threads, JournalRollback(t)
    PROVE  WellMade
  <1> DEFINE c == call[t]
             e == [kind |-> "rollback", snap |-> c.snap, op |-> c.gen, gen |-> c.gen]
  <1>0. VerificationTypeOK /\ Relies(t) /\ c.pc = "rollback"
    BY CallsRely DEF VerificationInv, JournalRollback, At
  <1>1. /\ c.snap \in Snapshots /\ c.gen \in Gens
        /\ catalog[c.snap].full /\ catalog[c.snap].gen < c.gen
        /\ VerifyLogged(c.snap, catalog[c.snap].gen)
    BY <1>0, CallFields DEF Relies
  <1>2. UNCHANGED <<catalog, restoreRefs, now, nextGen, receipts, replayed>>
    BY DEF JournalRollback
  <1>3. call' \in [Threads -> Call] /\ Relies(t)' /\ \A u \in Threads : u # t => call'[u] = call[u]
    BY <1>0, CallReturns DEF JournalRollback
  <1>4. CASE AppendEntry(e)
    <2>1. e \in Entry /\ e.op = e.gen /\ e.kind = "rollback" /\ e.snap = c.snap /\ e.gen = c.gen
      BY <1>1 DEF Entry, Kinds
    <2> HIDE DEF e
    <2>2. PICK j \in DOMAIN entries :
             entries[j].kind = "verify" /\ entries[j].snap = c.snap /\ entries[j].gen = catalog[c.snap].gen
      BY <1>1 DEF VerifyLogged
    <2>3. /\ Len(entries) \in Nat /\ DOMAIN entries = 1..Len(entries)
          /\ DOMAIN entries' = 1..(Len(entries) + 1)
          /\ entries'[Len(entries) + 1] = e
          /\ entries'[j] = entries[j]
      <3>1. Len(entries) \in Nat /\ DOMAIN entries = 1..Len(entries)
        BY <1>0 DEF VerificationTypeOK
      <3> QED BY <1>0, <1>4, <2>1, <2>2, <3>1, JournalGrows
    <2>4. ASSUME NEW i \in DOMAIN entries', i \notin DOMAIN entries PROVE GoesBack(i)'
      <3>1. i = Len(entries) + 1
        BY <2>3, <2>4
      <3>2. j \in 1..(i - 1) /\ entries'[i] = e
        BY <2>2, <2>3, <3>1
      <3> QED BY <1>1, <1>2, <2>1, <2>2, <2>3, <3>2 DEF GoesBack
    <2>5. nextGen' \in 0..MaxGens /\ nextGen' >= nextGen
      BY <1>0, <1>2, VerificationAssumption DEF VerificationTypeOK
    <2> QED BY <1>2, <1>3, <1>4, <2>1, <2>4, <2>5, OnlyTheJournal
  <1>5. CASE closed /\ UNCHANGED <<entries, closed>>
    BY <1>2, <1>3, <1>5, OnlyTheCall
  <1> QED BY <1>4, <1>5 DEF JournalRollback

LEMMA ReplayStep ==
    ASSUME VerificationInv, NEW t \in Threads, NEW n \in 1..Len(entries), Replay(t, n)
    PROVE  WellMade
  <1>1. PICK log : log = SubSeq(entries, 1, n)
    OBVIOUS
  <1>2. PICK todo : todo = LatestByOperation(log)
    OBVIOUS
  <1> DEFINE c == [pc |-> "replay", todo |-> todo]
  <1>3. VerificationTypeOK /\ entries \in Seq(Entry) /\ Len(entries) \in Nat /\ DOMAIN entries = 1..Len(entries)
    BY DEF VerificationInv, VerificationTypeOK
  <1>4. /\ log \in Seq(Entry)
        /\ \A j \in DOMAIN log : j \in DOMAIN entries /\ log[j] = entries[j]
    BY <1>1, <1>3
  <1>5. todo \in Seq(Entry) /\ \A i \in DOMAIN todo : \E j \in DOMAIN log : todo[i] = log[j]
    BY <1>2, <1>4, LatestIsExact
  <1>6. c \in Call
    BY <1>5 DEF Call
  <1>7. call' = [call EXCEPT ![t] = c]
    BY <1>1, <1>2 DEF Replay, Begin
  <1>8. call' \in [Threads -> Call] /\ call'[t] = c /\ \A u \in Threads : u # t => call'[u] = call[u]
    BY <1>3, <1>6, <1>7, CallSet
  <1>9. UNCHANGED <<catalog, restoreRefs, entries, closed, now, nextGen, receipts, replayed>>
    BY DEF Replay
  <1>10. Relies(t)'
    BY <1>4, <1>5, <1>8, <1>9 DEF Relies
  <1> QED BY <1>8, <1>9, <1>10, OnlyTheCall

(* The entry Replay looks at next is one of the journal's. *)
LEMMA HeadOfTodo ==
    ASSUME VerificationInv, NEW t \in Threads, call[t].pc = "replay", call[t].todo # <<>>,
           NEW e, e = Head(call[t].todo)
    PROVE  /\ e \in Entry /\ e.op = e.gen
           /\ e.kind = "verify" => CanSetState(e.snap, e.gen) /\ VerifyLogged(e.snap, e.gen)
  <1>1. call[t].todo \in Seq(Entry) /\ entries \in Seq(Entry)
    BY CallFields DEF VerificationInv, VerificationTypeOK
  <1>2. 1 \in DOMAIN call[t].todo /\ e = call[t].todo[1]
    BY <1>1
  <1>3. PICK j \in DOMAIN entries : e = entries[j]
    BY <1>2 DEF VerificationInv, At
  <1>4. e \in Entry
    BY <1>1, <1>3
  <1> QED BY <1>3, <1>4 DEF VerificationInv, CanSetState, VerifyLogged

LEMMA ReplayEntryStep ==
    ASSUME VerificationInv, NEW t \in Threads, ReplayEntry(t)
    PROVE  WellMade
  <1>0. VerificationTypeOK /\ CatalogTypeOK /\ Relies(t) /\ call[t].pc = "replay" /\ call[t].todo # <<>>
    BY CallsRely DEF VerificationInv, VerificationTypeOK, ReplayEntry, At
  <1>1. PICK e : e = Head(call[t].todo)
    OBVIOUS
  <1>2. /\ e \in Entry /\ e.op = e.gen
        /\ e.kind = "verify" => CanSetState(e.snap, e.gen) /\ VerifyLogged(e.snap, e.gen)
    BY <1>0, <1>1, HeadOfTodo
  <1>3. e.snap \in Snapshots /\ e.op \in Gens /\ e.gen \in 0..MaxGens
    BY <1>2, VerificationAssumption DEF Entry, Gens
  <1>4. UNCHANGED <<restoreRefs, entries, closed, now, nextGen, receipts>>
    BY DEF ReplayEntry
  <1>5. call' = [call EXCEPT ![t].todo = Tail(@)]
    BY <1>1, <1>2 DEF ReplayEntry, CanSetState
  <1>6. /\ call' \in [Threads -> Call] /\ \A u \in Threads : u # t => call'[u] = call[u]
        /\ call'[t] = [pc |-> "replay", todo |-> Tail(call[t].todo)]
    BY <1>0, <1>5, CallNextEntry
  <1>7. Relies(t)'
    <2>1. PICK todo, rest : todo = call[t].todo /\ rest = Tail(todo)
      OBVIOUS
    <2>2. todo \in Seq(Entry) /\ todo # <<>>
      BY <1>0, <2>1, CallFields
    <2>3. \A i \in DOMAIN rest : i + 1 \in DOMAIN todo /\ rest[i] = todo[i + 1]
      BY <2>1, <2>2
    <2>4. \A i \in DOMAIN todo : \E j \in DOMAIN entries : todo[i] = entries[j]
      BY <1>0, <2>1 DEF Relies
    <2>5. \A i \in DOMAIN rest : \E j \in DOMAIN entries : rest[i] = entries[j]
      BY <2>3, <2>4
    <2>6. call'[t].pc = "replay" /\ call'[t].todo = rest
      BY <1>6, <2>1
    <2> QED BY <1>4, <2>5, <2>6 DEF Relies
  <1>8. CASE UNCHANGED <<replayed, catalog>>
    BY <1>4, <1>6, <1>7, <1>8, OnlyTheCall
  <1>9. CASE /\ replayed' = [replayed EXCEPT ![e.op] = e.gen]
             /\ IF e.kind = "verify" /\ CanSetState(e.snap, e.gen)
                THEN SetState(e.snap, "verified") ELSE UNCHANGED catalog
    <2>1. replayed' \in [Gens -> 0..MaxGens]
      BY <1>0, <1>3, <1>9 DEF VerificationTypeOK
    <2>2. /\ catalog' \in [Snapshots -> Record]
          /\ \A r \in Snapshots : catalog'[r].gen = catalog[r].gen /\ catalog'[r].full = catalog[r].full
          /\ \A r \in Snapshots : \/ catalog'[r] = catalog[r]
                                  \/ Exists(r) /\ catalog'[r].state = "verified" /\ VerifyLogged(r, catalog[r].gen)
      <3>1. CASE e.kind = "verify"
        <4>1. SetState(e.snap, "verified")
          BY <1>2, <1>9, <3>1
        <4>2. Exists(e.snap) /\ catalog[e.snap].gen = e.gen /\ VerifyLogged(e.snap, e.gen)
          BY <1>2, <3>1 DEF CanSetState
        <4> QED BY <1>0, <1>3, <4>1, <4>2, StateIsSet
      <3>2. CASE e.kind # "verify"
        BY <1>0, <1>9, <3>2 DEF CatalogTypeOK
      <3> QED BY <3>1, <3>2
    <2>3. VerificationTypeOK'
      BY <1>0, <1>4, <1>6, <2>1, <2>2 DEF VerificationTypeOK, CatalogTypeOK
    <2>4. NothingIsLost
      <3>1. nextGen' >= nextGen
        BY <1>0, <1>4, VerificationAssumption DEF VerificationTypeOK
      <3> QED BY <1>4, <2>2, <3>1 DEF NothingIsLost, Exists
    <2>5. NewIsJustified
      <3>1. \A s \in Snapshots : catalog'[s].state = "verified" =>
              catalog[s].state = "verified" \/ VerifyLogged(s, catalog'[s].gen)
        BY <2>2
      <3> QED BY <1>4, <1>6, <1>7, <2>2, <3>1 DEF NewIsJustified, Exists
    <2> QED BY <2>3, <2>4, <2>5 DEF WellMade
  <1> QED BY <1>1, <1>8, <1>9 DEF ReplayEntry

LEMMA ReplayDoneStep ==
    ASSUME VerificationInv, NEW t \in Threads, ReplayDone(t)
    PROVE  WellMade
  <1>0. VerificationTypeOK
    BY DEF VerificationInv
  <1> QED BY <1>0, CallReturns, OnlyTheCall DEF ReplayDone

LEMMA OutsideStep ==
    ASSUME VerificationInv,
           PassTime \/ ((CloseJournal \/ OpenJournal) /\ UNCHANGED now),
           UNCHANGED <<catalog, restoreRefs, nextGen, receipts, replayed, call>>
    PROVE  WellMade
  <1>0. VerificationTypeOK
    BY DEF VerificationInv
  <1>1. entries' = entries
    BY DEF PassTime, CloseJournal, OpenJournal
  <1>2. closed' \in BOOLEAN
    BY <1>0, Zenon DEF PassTime, CloseJournal, OpenJournal, VerificationTypeOK
  <1>3. now' \in 0..MaxTime
    BY <1>0, VerificationAssumption DEF PassTime, CloseJournal, OpenJournal, VerificationTypeOK
  <1>4. VerificationTypeOK'
    BY <1>0, <1>1, <1>2, <1>3 DEF VerificationTypeOK, CatalogTypeOK
  <1>5. NothingIsLost
    <2>1. nextGen' >= nextGen
      BY <1>0, VerificationAssumption DEF VerificationTypeOK
    <2> QED BY <1>1, <2>1 DEF NothingIsLost, Exists
  <1>6. NewIsJustified
    BY <1>1 DEF NewIsJustified, Exists
  <1> QED BY <1>4, <1>5, <1>6 DEF WellMade

LEMMA StutterStep ==
    ASSUME VerificationInv, UNCHANGED verifVars
    PROVE  WellMade
  <1>0. VerificationTypeOK
    BY DEF VerificationInv
  <1>1. VerificationTypeOK'
    BY <1>0 DEF VerificationTypeOK, CatalogTypeOK, verifVars
  <1>2. NothingIsLost
    <2>1. nextGen' >= nextGen
      BY <1>0, VerificationAssumption DEF VerificationTypeOK, verifVars
    <2> QED BY <2>1 DEF NothingIsLost, Exists, verifVars
  <1>3. NewIsJustified
    BY DEF NewIsJustified, Exists, verifVars
  <1> QED BY <1>1, <1>2, <1>3 DEF WellMade

LEMMA EveryStepIsWellMade ==
    ASSUME VerificationInv, [VerificationNext]_verifVars
    PROVE  WellMade
  <1>1. CASE Environment
    BY <1>1, JournalPublishStep, VerifySnapshotStep, RollbackStep, ApplyRetentionStep, ReplayStep, OutsideStep
       DEF Environment
  <1>2. CASE \E t \in Threads : Step(t)
    BY <1>2, PublishStep, JournalVerifyStep, SetVerifiedStep, CommitReceiptStep, JournalRollbackStep,
       ReplayEntryStep, ReplayDoneStep DEF Step
  <1>3. CASE UNCHANGED verifVars
    BY <1>3, StutterStep
  <1> QED BY <1>1, <1>2, <1>3 DEF VerificationNext

LEMMA VerificationStarts ==
    ASSUME VerificationInit
    PROVE  VerificationInv /\ RollbackGoesBack
  <1>1. VerificationTypeOK
    <2>1. Absent \in Record /\ 0 \in 0..MaxGens /\ 0 \in 0..MaxTime /\ Idle \in Call
      BY VerificationAssumption DEF Absent, Record, States, Call
    <2>2. entries \in Seq(Entry)
      BY DEF VerificationInit, JournalInit
    <2>3. closed \in BOOLEAN
      BY Zenon DEF VerificationInit, JournalInit
    <2> QED BY <2>1, <2>2, <2>3 DEF VerificationTypeOK, VerificationInit, CatalogInit, CatalogTypeOK
  <1>2. /\ \A s \in Snapshots : catalog[s].state = "absent" /\ receipts[s] = 0
        /\ \A t \in Threads : call[t].pc = "idle"
        /\ DOMAIN entries = {}
    <2>1. \A s \in Snapshots : catalog[s].state = "absent" /\ receipts[s] = 0
      BY DEF VerificationInit, CatalogInit, Absent
    <2>2. \A t \in Threads : call[t].pc = "idle"
      BY DEF VerificationInit, Idle
    <2>3. DOMAIN entries = {}
      BY DEF VerificationInit, JournalInit
    <2> QED BY <2>1, <2>2, <2>3
  <1>3. VerifyNeverConflicts
    BY <1>2 DEF VerifyNeverConflicts
  <1>4. VerifiedIsJournaled
    BY <1>2 DEF VerifiedIsJournaled
  <1> QED BY <1>1, <1>2, <1>3, <1>4 DEF VerificationInv, RollbackGoesBack, Exists, At

(* A replay moves on only by its own steps. *)
LEMMA OnlyReplayMoves ==
    ASSUME VerificationInv, VerificationNext, NEW t \in Threads, call[t].pc = "replay", call'[t] # call[t]
    PROVE  ReplayEntry(t) \/ ReplayDone(t)
  <1>0. call \in [Threads -> Call]
    BY DEF VerificationInv, VerificationTypeOK
  <1>1. ASSUME NEW u \in Threads, NEW c, Begin(u, c) PROVE FALSE
    <2>1. call[u].pc = "idle" /\ call' = [call EXCEPT ![u] = c]
      BY <1>1 DEF Begin, At
    <2> QED BY <1>0, <2>1
  <1>2. ASSUME NEW u \in Threads, call[u].pc # "replay", Return(u) PROVE FALSE
    BY <1>0, <1>2 DEF Return
  <1>3. ASSUME NEW u \in Threads, call[u].pc # "replay", NEW pc, Goto(u, pc) PROVE FALSE
    BY <1>0, <1>3 DEF Goto
  <1>4. ~Environment
    <2>1. ASSUME Environment PROVE FALSE
      <3>1. ASSUME NEW u \in Threads, NEW s \in Snapshots, NEW full \in BOOLEAN, JournalPublish(u, s, full)
            PROVE  FALSE
        BY <1>1, <3>1 DEF JournalPublish
      <3>2. ASSUME NEW u \in Threads, NEW s \in Snapshots, VerifySnapshot(u, s) \/ Rollback(u, s)
            PROVE  FALSE
        BY <1>1, <3>2 DEF VerifySnapshot, Rollback
      <3>3. ASSUME NEW u \in Threads, NEW n, Replay(u, n)
            PROVE  FALSE
        BY <1>1, <3>3 DEF Replay
      <3>4. ASSUME NEW u \in Threads, NEW keep, ApplyRetention(u, keep)
            PROVE  FALSE
        BY <3>4 DEF ApplyRetention
      <3> QED BY <2>1, <3>1, <3>2, <3>3, <3>4 DEF Environment
    <2> QED BY <2>1
  <1>5. PICK u \in Threads : Step(u)
    BY <1>4 DEF VerificationNext
  <1>6. ~(Publish(u) \/ CommitReceipt(u) \/ JournalRollback(u))
    BY <1>2 DEF Publish, CommitReceipt, JournalRollback, At
  <1>7. ~(JournalVerify(u) \/ SetVerified(u))
    <2>1. (JournalVerify(u) \/ SetVerified(u)) => call[u].pc # "replay"
      BY DEF JournalVerify, SetVerified, At
    <2>2. (JournalVerify(u) \/ SetVerified(u)) => Return(u) \/ Goto(u, "setstate") \/ Goto(u, "receipt")
      BY DEF JournalVerify, SetVerified
    <2> QED BY <1>2, <1>3, <2>1, <2>2
  <1>8. ReplayEntry(u) \/ ReplayDone(u)
    BY <1>5, <1>6, <1>7 DEF Step
  <1>9. u = t
    <2>1. SUFFICES ASSUME u # t PROVE call'[t] = call[t]
      OBVIOUS
    <2>2. VerificationTypeOK /\ call[u].pc = "replay"
      BY <1>8 DEF VerificationInv, ReplayEntry, ReplayDone, At
    <2>3. CASE Return(u)
      BY <2>1, <2>2, <2>3, CallReturns
    <2>4. CASE call[u].todo # <<>> /\ call' = [call EXCEPT ![u].todo = Tail(@)]
      BY <2>1, <2>2, <2>4, CallNextEntry
    <2> QED BY <1>8, <2>3, <2>4 DEF ReplayEntry, ReplayDone
  <1> QED BY <1>8, <1>9

LEMMA ReplayTouchesOnce ==
    ASSUME VerificationInv, VerificationNext,
           NEW t \in Threads, NEW s \in Snapshots, At(t, "replay"), call'[t] # call[t],
           Exists(s), replayed[catalog[s].gen] = catalog[s].gen
    PROVE  catalog'[s] = catalog[s]
  <1>0. call[t].pc = "replay" /\ CatalogTypeOK
    BY DEF At, VerificationInv, VerificationTypeOK
  <1>1. ReplayEntry(t) \/ ReplayDone(t)
    BY <1>0, OnlyReplayMoves
  <1>2. CASE ReplayDone(t)
    BY <1>2 DEF ReplayDone
  <1>3. CASE ReplayEntry(t)
    <2>1. call[t].todo # <<>>
      BY <1>3 DEF ReplayEntry
    <2>2. PICK e : e = Head(call[t].todo)
      OBVIOUS
    <2>3. e \in Entry /\ e.op = e.gen /\ (e.kind = "verify" => CanSetState(e.snap, e.gen))
      BY <1>0, <2>1, <2>2, HeadOfTodo
    <2>4. e.gen \in Nat /\ e.snap \in Snapshots
      BY <2>3, VerificationAssumption DEF Entry, Gens
    <2>5. CASE UNCHANGED catalog
      BY <2>5
    <2>6. CASE e.gen > replayed[e.op] /\ e.kind = "verify" /\ SetState(e.snap, "verified")
      <3>1. catalog[e.snap].gen = e.gen
        BY <2>3, <2>6 DEF CanSetState
      <3>2. e.snap # s
        BY <2>3, <2>4, <2>6, <3>1
      <3> QED BY <1>0, <2>4, <2>6, <3>2, StateIsSet
    <2> QED BY <1>3, <2>2, <2>5, <2>6 DEF ReplayEntry
  <1> QED BY <1>1, <1>2, <1>3

------------------------------------------------------------------------------
(* VerificationInv holds in every state: what VerifySnapshot read before it
   journaled is still true when it sets the state and files the receipt, and no
   state and no receipt is ahead of the journal, whatever other verifications,
   retention, rollbacks and replays of Service do between its steps. *)
THEOREM VerificationInvariant == VerificationSpec => []VerificationInv
  <1>1. VerificationInit => VerificationInv
    BY VerificationStarts
  <1>2. VerificationInv /\ [VerificationNext]_verifVars => VerificationInv'
    BY EveryStepIsWellMade, JustifiedKeeps DEF WellMade
  <1> QED BY <1>1, <1>2, PTL DEF VerificationSpec

(* RollbackGoesBack holds in every state: the target Service.Rollback journals
   is a full snapshot of an earlier generation whose verification stands earlier
   in the journal. *)
THEOREM RollbackIsBackwards == VerificationSpec => []RollbackGoesBack
  <1>1. VerificationInit => VerificationInv /\ RollbackGoesBack
    BY VerificationStarts
  <1>2. VerificationInv /\ RollbackGoesBack /\ [VerificationNext]_verifVars
          => (VerificationInv /\ RollbackGoesBack)'
    BY EveryStepIsWellMade, JustifiedKeeps, JustifiedGoesBack DEF WellMade
  <1> QED BY <1>1, <1>2, PTL DEF VerificationSpec

(* ReplayIsOnce holds of every step: Service.Replay never changes a snapshot
   whose generation was replayed before, so replaying a journal again, an older
   copy of it included, does not bring an expired snapshot back. *)
THEOREM ReplayOnce == VerificationSpec => ReplayIsOnce
  <1> DEFINE Untouched == \A t \in Threads, s \in Snapshots :
                At(t, "replay") /\ call'[t] # call[t]
                  /\ Exists(s) /\ replayed[catalog[s].gen] = catalog[s].gen
                    => catalog'[s] = catalog[s]
  <1>1. VerificationInv /\ [VerificationNext]_verifVars => [Untouched]_verifVars
    <2>1. VerificationInv /\ VerificationNext => Untouched
      BY ReplayTouchesOnce
    <2> HIDE DEF Untouched
    <2> QED BY <2>1
  <1>2. ReplayIsOnce <=> [][Untouched]_verifVars
    BY DEF ReplayIsOnce
  <1>3. VerificationSpec => [][Untouched]_verifVars
    <2> HIDE DEF Untouched
    <2> QED BY <1>1, VerificationInvariant, PTL DEF VerificationSpec
  <1> QED BY <1>2, <1>3
=============================================================================
