---------------------------- MODULE ReplicaProofs ----------------------------
(***************************************************************************)
(* Proofs about the copies: the mirror ledger, for any number of           *)
(* goroutines, sites, snapshots and generations, and the replsnap package, *)
(* for any snapshots, replicas, chunks and acknowledgements.               *)
(***************************************************************************)
EXTENDS Mirror, ReplicaSnapshot, ReplicaManifest, FiniteSetTheorems,
        SequenceTheorems, WellFoundedInduction, TLAPS

------------------------------------------------------------------------------
(* The mirror ledger.                                                       *)

(* What a busy call's record holds. *)
LEMMA BusyCall ==
    ASSUME MirrorTypeOK, NEW t \in Threads, call[t].pc \in Busy
    PROVE  /\ call[t] \in [pc: Busy, update: Update, copy: Generations \union {-1}]
           /\ call[t].update \in Update
           /\ call[t].update.site \in Sites
           /\ call[t].update.snap \in Snapshots
           /\ call[t].update.gen \in Generations
<1>1. call[t] \in Call
  BY DEF MirrorTypeOK
<1>2. call[t] # Idle
  BY DEF Idle, Busy
<1>3. call[t] \in [pc: Busy, update: Update, copy: Generations \union {-1}]
  BY <1>1, <1>2 DEF Call
<1> QED
  BY <1>3 DEF Update

(* Generations are numbers, and so is the mark of an absent record. *)
LEMMA RecordIsInt ==
    ASSUME MirrorTypeOK, NEW site \in Sites, NEW s \in Snapshots
    PROVE  records[site][s] \in Int
<1>1. records[site] \in [Snapshots -> Generations \union {-1}]
  BY DEF MirrorTypeOK
<1>2. records[site][s] \in Generations \/ records[site][s] = -1
  BY <1>1
<1>3. \A g \in Generations : g \in Int
  BY MirrorAssumption
<1> QED
  BY <1>2, <1>3

(* An empty ledger satisfies the invariant. *)
LEMMA MirrorInvInit == MirrorInit => MirrorInv
  BY DEF MirrorInit, MirrorInv, MirrorTypeOK, Call, Idle, At, Busy

(* Every step keeps the types. *)
LEMMA MirrorTypeStep ==
    ASSUME MirrorTypeOK, [MirrorNext]_mirrorVars
    PROVE  MirrorTypeOK'
<1> USE DEF MirrorTypeOK
<1>1. ASSUME NEW site \in Sites, RegisterMirrorSite(site)
      PROVE  MirrorTypeOK'
  BY <1>1 DEF RegisterMirrorSite
<1>2. ASSUME NEW s \in Snapshots, NEW gen \in Generations, CommitLocal(s, gen)
      PROVE  MirrorTypeOK'
  BY <1>2 DEF CommitLocal
<1>3. ASSUME NEW t \in Threads, NEW u \in Update, ApplyMirrorUpdate(t, u)
      PROVE  MirrorTypeOK'
  <2>1. local[u.snap] \in Generations \union {-1}
    BY DEF Update
  <2>2. [pc |-> "site", update |-> u, copy |-> local[u.snap]] \in Call
    BY <2>1 DEF Call, Busy
  <2> QED
    BY <1>3, <2>2 DEF ApplyMirrorUpdate
<1>4. ASSUME NEW t \in Threads, NEW pc \in Busy, call[t].pc \in Busy, Goto(t, pc)
      PROVE  call' \in [Threads -> Call]
  <2>1. [call[t] EXCEPT !.pc = pc] \in Call
    BY <1>4, BusyCall DEF Call
  <2> QED
    BY <1>4, <2>1 DEF Goto
<1>5. ASSUME NEW t \in Threads, Return(t)
      PROVE  call' \in [Threads -> Call]
  BY <1>5 DEF Return, Call
<1>6. ASSUME NEW t \in Threads, SiteRegistered(t)
      PROVE  MirrorTypeOK'
  BY <1>4, <1>5, <1>6 DEF SiteRegistered, At, Busy
<1>7. ASSUME NEW t \in Threads, RecordFor(t)
      PROVE  MirrorTypeOK'
  BY <1>4, <1>5, <1>7 DEF RecordFor, At, Busy
<1>8. ASSUME NEW t \in Threads, WriteRecord(t)
      PROVE  MirrorTypeOK'
  <2>1. call[t].pc \in Busy
    BY <1>8 DEF WriteRecord, At, Busy
  <2>2. call' \in [Threads -> Call]
    BY <1>4, <1>8, <2>1 DEF WriteRecord, Busy
  <2> QED
    BY <1>8, <2>1, <2>2, BusyCall DEF WriteRecord
<1>9. ASSUME NEW t \in Threads, RecordAudit(t)
      PROVE  MirrorTypeOK'
  <2>1. call[t].pc \in Busy
    BY <1>9 DEF RecordAudit, At, Busy
  <2> QED
    BY <1>5, <1>9, <2>1, BusyCall DEF RecordAudit
<1>10. CASE UNCHANGED mirrorVars
  BY <1>10 DEF mirrorVars
<1> QED
  BY <1>1, <1>2, <1>3, <1>6, <1>7, <1>8, <1>9, <1>10 DEF MirrorNext

(* Every step keeps the invariant, action by action. *)
LEMMA MirrorInvStep ==
    ASSUME MirrorInv, [MirrorNext]_mirrorVars
    PROVE  MirrorInv'
<1>t. MirrorTypeOK /\ MirrorTypeOK'
  BY MirrorTypeStep DEF MirrorInv
<1>c. \A t \in Threads : call[t].pc \in Busy =>
         /\ call[t].update.site \in Sites
         /\ call[t].update.snap \in Snapshots
         /\ call[t].update.gen \in Generations
  BY <1>t, BusyCall
<1>n. Generations \subseteq Nat
  BY MirrorAssumption
<1>1. ASSUME NEW site \in Sites, RegisterMirrorSite(site)
      PROVE  MirrorInv'
  BY <1>1, <1>t DEF RegisterMirrorSite, MirrorInv, At, Busy
<1>2. ASSUME NEW s \in Snapshots, NEW gen \in Generations, CommitLocal(s, gen)
      PROVE  MirrorInv'
  BY <1>2, <1>t DEF CommitLocal, MirrorInv, At, Busy
<1>3. ASSUME NEW t \in Threads, NEW u \in Update, ApplyMirrorUpdate(t, u)
      PROVE  MirrorInv'
  BY <1>3, <1>t DEF ApplyMirrorUpdate, MirrorInv, MirrorTypeOK, At, Busy
<1>4. ASSUME NEW t \in Threads, Return(t), UNCHANGED <<sites, records, local, audit>>
      PROVE  MirrorInv'
  <2>1. /\ call'[t].pc = "idle"
        /\ \A v \in Threads \ {t} : call'[v] = call[v]
    BY <1>4, <1>t DEF Return, Idle, MirrorTypeOK
  <2>2. \A v \in Threads : call'[v].pc \in Busy => v # t /\ call'[v] = call[v]
    BY <2>1 DEF Busy
  <2> QED
    BY <1>4, <1>t, <2>1, <2>2 DEF MirrorInv, At, Busy
<1>5. ASSUME NEW t \in Threads, NEW pc \in {"record", "write"}, Goto(t, pc), call[t].pc \in Busy,
             call[t].update.site \in sites,
             pc = "write" => call[t].update.gen >= records[call[t].update.site][call[t].update.snap],
             UNCHANGED <<sites, records, local, audit>>
      PROVE  MirrorInv'
  <2>1. call[t] \in [pc: Busy, update: Update, copy: Generations \union {-1}]
    BY <1>5, <1>t, BusyCall
  <2>2. /\ call'[t].pc = pc
        /\ call'[t].update = call[t].update
        /\ \A v \in Threads \ {t} : call'[v] = call[v]
    BY <1>5, <1>t, <2>1 DEF Goto, MirrorTypeOK
  <2>3. \A v \in Threads : call'[v].pc \in Busy =>
           call[v].pc \in Busy /\ call'[v].update = call[v].update
    BY <1>5, <2>2
  <2> QED
    BY <1>5, <1>t, <2>2, <2>3 DEF MirrorInv, At, Busy
<1>6. ASSUME NEW t \in Threads, SiteRegistered(t)
      PROVE  MirrorInv'
  BY <1>4, <1>5, <1>6 DEF SiteRegistered, At, Busy
<1>7. ASSUME NEW t \in Threads, RecordFor(t)
      PROVE  MirrorInv'
  <2>1. call[t].pc \in Busy /\ call[t].update.site \in sites
    BY <1>7 DEF RecordFor, At, Busy, MirrorInv
  <2>2. CASE StaleUpdate(call[t])
    BY <1>4, <1>7, <2>2 DEF RecordFor
  <2>3. CASE ~StaleUpdate(call[t])
    <3>1. records[call[t].update.site][call[t].update.snap] \in Int /\ call[t].update.gen \in Int
      <4>1. call[t].update.gen \in Generations
        BY <1>c, <2>1
      <4>2. call[t].update.gen \in Int
        BY <1>n, <4>1
      <4> QED
        BY <1>t, <1>c, <2>1, <4>2, RecordIsInt
    <3>2. call[t].update.gen >= records[call[t].update.site][call[t].update.snap]
      BY <2>3, <3>1 DEF StaleUpdate
    <3> QED
      BY <1>5, <1>7, <2>1, <2>3, <3>2 DEF RecordFor
  <2> QED
    BY <2>2, <2>3
<1>8. ASSUME NEW t \in Threads, WriteRecord(t)
      PROVE  MirrorInv'
  <2>0. PICK u \in Update : u = call[t].update
    BY <1>8, <1>t, BusyCall DEF WriteRecord, At, Busy
  <2>1. /\ call[t] \in [pc: Busy, update: Update, copy: Generations \union {-1}]
        /\ u.site \in sites /\ u.site \in Sites /\ u.snap \in Snapshots /\ u.gen \in Nat
    BY <1>8, <1>t, <1>n, <2>0, BusyCall DEF WriteRecord, At, Busy, MirrorInv
  <2>2. /\ call'[t].pc = "audit"
        /\ call'[t].update = u
        /\ \A v \in Threads \ {t} : call'[v] = call[v]
    BY <1>8, <1>t, <2>0, <2>1 DEF WriteRecord, Goto, MirrorTypeOK
  <2>3. \A v \in Threads : call'[v].pc \in Busy =>
           call[v].pc \in Busy /\ call'[v].update = call[v].update
    BY <1>8, <2>0, <2>2 DEF WriteRecord, At, Busy
  <2>4. /\ records'[u.site][u.snap] = u.gen
        /\ \A site \in Sites, s \in Snapshots :
              site # u.site \/ s # u.snap => records'[site][s] = records[site][s]
    BY <1>8, <1>t, <2>0, <2>1 DEF WriteRecord, MirrorTypeOK
  <2>5. \A site \in Sites, s \in Snapshots : records[site][s] # -1 => records'[site][s] # -1
    BY <2>1, <2>4
  <2>6. /\ sites' = sites /\ audit' = audit
        /\ \A site \in Sites, s \in Snapshots :
              /\ records'[site][s] # -1 => site \in sites'
              /\ <<site, s>> \in audit' => records'[site][s] # -1
    <3>1. sites' = sites /\ audit' = audit
      BY <1>8 DEF WriteRecord
    <3>2. \A site \in Sites, s \in Snapshots :
             /\ records[site][s] # -1 => site \in sites
             /\ <<site, s>> \in audit => records[site][s] # -1
      BY Zenon DEF MirrorInv
    <3> QED
      BY <2>1, <2>4, <2>5, <3>1, <3>2
  <2>7. \A v \in Threads : call'[v].pc \in {"record", "write", "audit"} =>
           call'[v].update.site \in sites'
    BY <2>1, <2>2, <2>6 DEF MirrorInv
  <2>8. ASSUME NEW v \in Threads, call'[v].pc = "audit"
        PROVE  records'[call'[v].update.site][call'[v].update.snap] # -1
    <3>1. CASE v = t
      BY <2>1, <2>2, <2>4, <3>1
    <3>2. CASE v # t
      <4>1. call[v].pc = "audit" /\ call'[v] = call[v]
        BY <2>2, <2>8, <3>2
      <4> QED
        BY <1>c, <2>5, <4>1 DEF MirrorInv, At, Busy
    <3> QED
      BY <3>1, <3>2
  <2>9. OneWorkerPerSite => \A v, w \in Threads :
           call'[v].pc \in Busy /\ call'[w].pc \in Busy /\ call'[v].update.site = call'[w].update.site
             => v = w
    BY <2>3 DEF MirrorInv
  <2>10. ASSUME OneWorkerPerSite, NEW v \in Threads, call'[v].pc = "write"
         PROVE  call'[v].update.gen >= records'[call'[v].update.site][call'[v].update.snap]
    <3>1. v # t /\ call'[v] = call[v] /\ call[v].pc = "write"
      BY <2>2, <2>10
    <3>2. call[v].update.site # u.site
      BY <1>8, <2>0, <2>10, <3>1 DEF MirrorInv, WriteRecord, At, Busy
    <3>3. records'[call[v].update.site][call[v].update.snap]
             = records[call[v].update.site][call[v].update.snap]
      BY <1>c, <2>4, <3>1, <3>2 DEF Busy
    <3> QED
      BY <2>10, <3>1, <3>3 DEF MirrorInv, At
  <2> QED
    BY <1>t, <2>6, <2>7, <2>8, <2>9, <2>10 DEF MirrorInv, At
<1>9. ASSUME NEW t \in Threads, RecordAudit(t)
      PROVE  MirrorInv'
  BY <1>9, <1>t, <1>c DEF RecordAudit, MirrorInv, MirrorTypeOK, At, Busy, Return, Idle
<1>10. CASE UNCHANGED mirrorVars
  BY <1>10 DEF mirrorVars, MirrorInv, MirrorTypeOK, At
<1> QED
  BY <1>1, <1>2, <1>3, <1>6, <1>7, <1>8, <1>9, <1>10 DEF MirrorNext

(* The invariant of the mirror ledger, whether or not workers share a site. *)
THEOREM MirrorInvariant == MirrorSpec => []MirrorInv
<1>1. MirrorInv /\ [MirrorNext]_mirrorVars => MirrorInv'
  BY MirrorInvStep
<1> QED
  BY <1>1, MirrorInvInit, PTL DEF MirrorSpec

(* Only WriteRecord writes, and what it writes was compared with the record
   that is still there. *)
LEMMA MirrorMonotonicStep ==
    ASSUME MirrorInv, [MirrorNext]_mirrorVars, OneWorkerPerSite
    PROVE  \A site \in Sites, s \in Snapshots : records'[site][s] >= records[site][s]
<1>n. \A site \in Sites, s \in Snapshots : records[site][s] \in Int
  BY RecordIsInt DEF MirrorInv
<1>1. ASSUME NEW t \in Threads, WriteRecord(t)
      PROVE  \A site \in Sites, s \in Snapshots : records'[site][s] >= records[site][s]
  BY <1>1, <1>n DEF WriteRecord, MirrorInv, MirrorTypeOK
<1>2. CASE UNCHANGED records
  BY <1>2, <1>n
<1> QED
  BY <1>1, <1>2 DEF MirrorNext, mirrorVars, RegisterMirrorSite, CommitLocal, ApplyMirrorUpdate,
                    SiteRegistered, RecordFor, RecordAudit

(* With one worker per site, Apply never replaces a generation by an older one,
   however the updates of different sites and local captures interleave. *)
THEOREM MirrorMonotonic ==
    ASSUME OneWorkerPerSite
    PROVE  MirrorSpec => RecordNeverRegresses
<1>1. MirrorInv /\ [MirrorNext]_mirrorVars =>
        [\A site \in Sites, s \in Snapshots : records'[site][s] >= records[site][s]]_mirrorVars
  BY MirrorMonotonicStep
<1> QED
  BY <1>1, MirrorInvariant, PTL DEF MirrorSpec, RecordNeverRegresses

------------------------------------------------------------------------------
(* Prune and PlanRestore.                                                   *)

(* A set of numbers has a least one. *)
LEMMA LeastNumber ==
    ASSUME NEW T, T \subseteq Nat, T # {}
    PROVE  \E i \in T : \A j \in T : i <= j
  <1>1. PICK i \in T : \A j \in T : ~(<<j, i>> \in OpToRel(<, Nat))
    BY WFMin, NatLessThanWellFounded
  <1>2. \A j \in T : ~(j < i)
    BY <1>1 DEF OpToRel
  <1> QED BY <1>2

(* The number of ids, and what is a chain to an id. *)
LEMMA IdsAreFinite == IsFiniteSet(SnapIds) /\ Cardinality(SnapIds) \in Nat /\ 0 \notin SnapIds
  BY ReplicaAssumption, FS_CardinalityType

(* The sequences of ids that the chains are chosen from. *)
LEMMA SeqUpTo ==
    ASSUME NEW n \in Nat, NEW c
    PROVE  c \in SeqsUpTo(n) <=> c \in Seq(SnapIds) /\ Len(c) <= n
  <1>1. ASSUME c \in SeqsUpTo(n) PROVE c \in Seq(SnapIds) /\ Len(c) <= n
    <2>1. PICK k \in 0..n : c \in [1..k -> SnapIds]
      BY <1>1 DEF SeqsUpTo
    <2> QED BY <2>1
  <1>2. ASSUME c \in Seq(SnapIds), Len(c) <= n PROVE c \in SeqsUpTo(n)
    <2>1. Len(c) \in 0..n /\ c \in [1..Len(c) -> SnapIds]
      BY <1>2
    <2> QED BY <2>1 DEF SeqsUpTo
  <1> QED BY <1>1, <1>2

(* A place counted from the end, other than the first. *)
LEMMA PlaceBefore ==
    ASSUME NEW n \in Nat, NEW i \in Nat, i + 1 < n
    PROVE  \E a \in 2..n : a = n - i /\ a \in 1..n /\ a # 1
  OBVIOUS

(* The places of a chain. *)
LEMMA ChainDomain ==
    ASSUME NEW c \in Seq(SnapIds)
    PROVE  \E n \in Nat : n = Len(c) /\ DOMAIN c = 1..n /\ c \in [1..n -> SnapIds]
  OBVIOUS

(* Going back from its end, two chains to an id do not differ. *)
LEMMA ChainsAgree ==
    ASSUME NEW id \in SnapIds, NEW c \in Seq(SnapIds), NEW d \in Seq(SnapIds),
           IsChain(c), IsChain(d), c # <<>>, d # <<>>, c[Len(c)] = id, d[Len(d)] = id,
           NEW k \in Nat, k < Len(c), k < Len(d)
    PROVE  c[Len(c) - k] = d[Len(d) - k]
  <1> DEFINE T == {j \in Nat : j < Len(c) /\ j < Len(d) /\ c[Len(c) - j] # d[Len(d) - j]}
  <1> SUFFICES ASSUME T # {} PROVE FALSE
    OBVIOUS
  <1>1. PICK j \in T : \A i \in T : j <= i
    <2>1. T \subseteq Nat
      OBVIOUS
    <2> HIDE DEF T
    <2> QED BY <2>1, LeastNumber
  <1>2. PICK n \in Nat, m \in Nat : n = Len(c) /\ m = Len(d)
    OBVIOUS
  <1>3. j \in Nat /\ j < n /\ j < m /\ c[n - j] # d[m - j]
    BY <1>1, <1>2
  <1>4. j # 0
    BY <1>2, <1>3
  <1>5. PICK i \in Nat : j = i + 1
    BY <1>3, <1>4
  <1>6. i \notin T
    BY <1>1, <1>3, <1>5
  <1>7. c[n - i] = d[m - i]
    BY <1>2, <1>3, <1>5, <1>6
  <1>8. PICK a \in 2..n, b \in 2..m : /\ a = n - i /\ a \in 1..n /\ a # 1
                                      /\ b = m - i /\ b \in 1..m /\ b # 1
    <2>1. i + 1 < n /\ i + 1 < m
      BY <1>3, <1>5
    <2>2. PICK a \in 2..n : a = n - i /\ a \in 1..n /\ a # 1
      BY <2>1, PlaceBefore
    <2>3. PICK b \in 2..m : b = m - i /\ b \in 1..m /\ b # 1
      BY <2>1, PlaceBefore
    <2> QED BY <2>2, <2>3
  <1>9. snaps[c[a]].base = c[a - 1] /\ snaps[d[b]].base = d[b - 1]
    <2>1. a \in DOMAIN c /\ b \in DOMAIN d /\ a # 1 /\ b # 1
      BY <1>2, <1>8, ChainDomain
    <2> QED BY <2>1, Zenon DEF IsChain
  <1>10. a - 1 = n - j /\ b - 1 = m - j
    BY <1>5, <1>8
  <1> QED
    BY <1>3, <1>7, <1>8, <1>9, <1>10

(* Nor is one longer than the other: the shorter one begins with a full snapshot. *)
LEMMA NotShorter ==
    ASSUME NEW id \in SnapIds, NEW c \in Seq(SnapIds), NEW d \in Seq(SnapIds),
           IsChain(c), IsChain(d), c # <<>>, d # <<>>, c[Len(c)] = id, d[Len(d)] = id
    PROVE  ~(Len(c) < Len(d))
  <1> SUFFICES ASSUME Len(c) < Len(d) PROVE FALSE
    OBVIOUS
  <1>1. PICK n \in Nat, m \in Nat : n = Len(c) /\ m = Len(d) /\ n # 0 /\ n < m
    OBVIOUS
  <1>2. PICK k \in Nat : k = n - 1
    BY <1>1
  <1>3. c[Len(c) - k] = d[Len(d) - k]
    <2>1. k < Len(c) /\ k < Len(d)
      BY <1>1, <1>2
    <2> QED BY <2>1, ChainsAgree
  <1>4. PICK b \in 2..m : b = m - k /\ b \in 1..m /\ b # 1
    <2>1. k + 1 < m
      BY <1>1, <1>2
    <2> QED BY <2>1, PlaceBefore
  <1>5. n - k = 1 /\ 1 \in 1..n
    BY <1>1, <1>2
  <1>6. c[1] = d[b]
    BY <1>1, <1>3, <1>4, <1>5
  <1>7. snaps[c[1]].base = NoBase
    <2>1. 1 \in DOMAIN c
      BY <1>1, <1>5
    <2> QED BY <2>1, Zenon DEF IsChain
  <1>8. snaps[d[b]].base = d[b - 1]
    <2>1. b \in DOMAIN d /\ b # 1
      BY <1>1, <1>4, ChainDomain
    <2> QED BY <2>1, Zenon DEF IsChain
  <1>9. d[b - 1] \in SnapIds
    BY <1>1, <1>4
  <1> QED
    BY <1>6, <1>7, <1>8, <1>9, IdsAreFinite DEF NoBase

(* A snapshot has one chain at most. *)
LEMMA ChainIsUnique ==
    ASSUME NEW id \in SnapIds, NEW c \in Seq(SnapIds), NEW d \in Seq(SnapIds),
           IsChain(c), IsChain(d), c # <<>>, d # <<>>, c[Len(c)] = id, d[Len(d)] = id
    PROVE  c = d
  <1>1. ~(Len(c) < Len(d)) /\ ~(Len(d) < Len(c))
    BY NotShorter
  <1>2. PICK n \in Nat : n = Len(c) /\ n = Len(d)
    BY <1>1
  <1>3. ASSUME NEW i \in 1..n PROVE c[i] = d[i]
    <2>1. PICK k \in Nat : k = n - i /\ k < n /\ n - k = i
      <3>1. n - i \in Nat /\ n - i < n /\ n - (n - i) = i
        OBVIOUS
      <3> QED BY <3>1
    <2>2. c[Len(c) - k] = d[Len(d) - k]
      BY <1>2, <2>1, ChainsAgree
    <2> QED BY <1>2, <2>1, <2>2
  <1>4. Len(c) = Len(d) /\ \A i \in 1..Len(c) : c[i] = d[i]
    BY <1>2, <1>3
  <1> QED BY <1>4, SeqEqual, Zenon

(* Whatever a chain to a snapshot consists of is in every set that has the
   snapshot and the bases of its members. *)
LEMMA ClosedHoldsChain ==
    ASSUME NEW id \in SnapIds, NEW c \in Seq(SnapIds), IsChain(c), c # <<>>, c[Len(c)] = id,
           NEW ids \in SUBSET SnapIds, id \in ids, Bases(ids) \subseteq ids,
           NEW p \in 1..Len(c)
    PROVE  c[p] \in ids
  <1>1. PICK n \in Nat : n = Len(c) /\ DOMAIN c = 1..n /\ c \in [1..n -> SnapIds]
    BY ChainDomain
  <1> DEFINE T == {j \in Nat : j < n /\ c[n - j] \notin ids}
  <1>2. T = {}
    <2> SUFFICES ASSUME T # {} PROVE FALSE
      OBVIOUS
    <2>1. PICK j \in T : \A i \in T : j <= i
      <3>1. T \subseteq Nat
        OBVIOUS
      <3> HIDE DEF T
      <3> QED BY <3>1, LeastNumber
    <2>2. j \in Nat /\ j < n /\ c[n - j] \notin ids /\ j # 0
      BY <1>1, <2>1
    <2>3. PICK i \in Nat : j = i + 1
      BY <2>2
    <2>4. i \notin T
      BY <2>1, <2>2, <2>3
    <2>5. c[n - i] \in ids
      BY <2>2, <2>3, <2>4
    <2>6. PICK a \in 2..n : a = n - i /\ a \in 1..n /\ a # 1
      BY <2>2, <2>3, PlaceBefore
    <2>7. a - 1 = n - j /\ a - 1 \in 1..n
      BY <2>2, <2>3, <2>6
    <2>8. Stored(c[a]) /\ snaps[c[a]].base = c[a - 1]
      BY <1>1, <2>6, Zenon DEF IsChain
    <2>9. c[a - 1] \in SnapIds /\ c[a - 1] # NoBase
      BY <1>1, <2>7, IdsAreFinite DEF NoBase
    <2>10. c[a - 1] \in Bases(ids)
      BY <2>5, <2>6, <2>8, <2>9 DEF Bases
    <2> QED BY <2>2, <2>7, <2>10
  <1>3. n - p \in Nat /\ n - p < n /\ n - (n - p) = p
    BY <1>1
  <1> QED BY <1>2, <1>3

(* RetainedIDs holds the whole chain of each of the newest snapshots. *)
LEMMA ChainIsRetained ==
    ASSUME ReplicaTypeOK, NEW keep, NEW id \in NewestOf(Listed, keep), NEW c \in ChainsTo(id),
           NEW p \in DOMAIN c
    PROVE  c[p] \in SnapIds /\ Stored(c[p]) /\ c[p] \in RetainedIDs(keep)
  <1>1. id \in SnapIds
    BY DEF NewestOf, Listed
  <1>2. c \in Seq(SnapIds) /\ IsChain(c) /\ c # <<>> /\ c[Len(c)] = id
    BY SeqUpTo, IdsAreFinite DEF ChainsTo
  <1>3. p \in 1..Len(c) /\ c[p] \in SnapIds
    BY <1>2
  <1>4. Stored(c[p])
    BY <1>2, Zenon DEF IsChain
  <1>5. ASSUME NEW ids \in SUBSET SnapIds, NewestOf(Listed, keep) \subseteq ids, Bases(ids) \subseteq ids
        PROVE  c[p] \in ids
    BY <1>1, <1>2, <1>3, <1>5, ClosedHoldsChain
  <1> QED
    BY <1>3, <1>4, <1>5, Zenon DEF RetainedIDs

(* A restore plan that is under way, field by field. *)
LEMMA PlanFields ==
    ASSUME ReplicaTypeOK, plan # NoPlan
    PROVE  /\ plan = [pc |-> "walk", next |-> plan.next, chain |-> plan.chain,
                      touched |-> plan.touched, line |-> plan.line]
           /\ plan.next \in SnapIds \union {NoBase} /\ plan.chain \in Seq(SnapIds)
           /\ plan.touched \in BOOLEAN /\ plan.line \in Seq(SnapIds)
  BY DEF ReplicaTypeOK

(* Ids that do not repeat are no more than there are. *)
LEMMA DistinctIsShort ==
    ASSUME NEW s \in Seq(SnapIds), \A i, j \in DOMAIN s : s[i] = s[j] => i = j
    PROVE  Len(s) <= Cardinality(SnapIds)
  <1>1. PICK n \in Nat : n = Len(s) /\ DOMAIN s = 1..n /\ s \in [1..n -> SnapIds]
    BY ChainDomain
  <1>2. s \in Injection(1..n, SnapIds)
    BY <1>1 DEF Injection, IsInjective
  <1>3. Cardinality(1..n) <= Cardinality(SnapIds)
    BY <1>2, FS_Injection, IdsAreFinite
  <1>4. Cardinality(1..n) = IF 1 > n THEN 0 ELSE n - 1 + 1
    <2>1. 1 \in Int /\ n \in Int
      OBVIOUS
    <2> QED BY <2>1, FS_Interval, Zenon
  <1>5. Cardinality(1..n) = n
    BY <1>4
  <1> QED BY <1>1, <1>3, <1>5

(* An id that is not among them yet keeps them distinct. *)
LEMMA DistinctGrows ==
    ASSUME NEW at \in SnapIds, NEW chain \in Seq(SnapIds), NEW longer, longer = <<at>> \o chain,
           \A i, j \in DOMAIN chain : chain[i] = chain[j] => i = j,
           \A i \in DOMAIN chain : chain[i] # at
    PROVE  /\ Len(longer) = Len(chain) + 1 /\ Len(chain) \in Nat
           /\ \A i, j \in DOMAIN longer : longer[i] = longer[j] => i = j
  <1>1. PICK n \in Nat : n = Len(chain) /\ DOMAIN chain = 1..n /\ chain \in [1..n -> SnapIds]
    BY ChainDomain
  <1>2. /\ Len(longer) = n + 1 /\ DOMAIN longer = 1..(n + 1) /\ longer[1] = at
        /\ \A i \in 2..(n + 1) : longer[i] = chain[i - 1]
    BY <1>1
  <1>3. ASSUME NEW i \in 1..(n + 1), NEW j \in 1..(n + 1), longer[i] = longer[j]
        PROVE  i = j
    <2>1. /\ i = 1 \/ (i \in 2..(n + 1) /\ i - 1 \in 1..n)
          /\ j = 1 \/ (j \in 2..(n + 1) /\ j - 1 \in 1..n)
      OBVIOUS
    <2>2. ASSUME NEW k \in 2..(n + 1), k - 1 \in 1..n PROVE longer[k] # at
      BY <1>1, <1>2, <2>2
    <2>3. CASE i = 1
      BY <1>2, <1>3, <2>1, <2>2, <2>3
    <2>4. CASE j = 1
      BY <1>2, <1>3, <2>1, <2>2, <2>4
    <2>5. CASE i # 1 /\ j # 1
      <3>1. chain[i - 1] = chain[j - 1] /\ i - 1 \in 1..n /\ j - 1 \in 1..n
        BY <1>2, <1>3, <2>1, <2>5
      <3>2. i - 1 = j - 1
        BY <1>1, <3>1
      <3> QED BY <3>2
    <2> QED BY <2>3, <2>4, <2>5
  <1> QED BY <1>1, <1>2, <1>3

(* An id may be put behind the one list or in front of the other. *)
LEMMA InsertedBetween ==
    \A at \in SnapIds, c, chain \in Seq(SnapIds) :
       (c \o <<at>>) \o chain = c \o (<<at>> \o chain)
  <1> SUFFICES ASSUME NEW at \in SnapIds, NEW c \in Seq(SnapIds), NEW chain \in Seq(SnapIds)
               PROVE  (c \o <<at>>) \o chain = c \o (<<at>> \o chain)
    OBVIOUS
  <1>0. <<at>> \in Seq(SnapIds)
    OBVIOUS
  <1>1. PICK one \in Seq(SnapIds) : one = <<at>>
    BY <1>0, Zenon
  <1>2. (c \o one) \o chain = c \o (one \o chain)
    BY ConcatAssociative
  <1> QED BY <1>1, <1>2

(* A chain whose ids are all stored and unchanged is a chain. *)
LEMMA ChainBefore ==
    ASSUME NEW c \in Seq(SnapIds), IsChain(c)',
           \A id \in SnapIds : Stored(id)' => snaps'[id] = snaps[id]
    PROVE  IsChain(c)
  <1>1. ASSUME NEW i \in DOMAIN c
        PROVE  Stored(c[i]) /\ snaps[c[i]].base = IF i = 1 THEN NoBase ELSE c[i - 1]
    <2>1. c[i] \in SnapIds
      OBVIOUS
    <2>2. Stored(c[i])' /\ snaps'[c[i]].base = IF i = 1 THEN NoBase ELSE c[i - 1]
      BY Zenon DEF IsChain
    <2>3. snaps'[c[i]] = snaps[c[i]]
      BY <2>1, <2>2
    <2> QED BY <2>2, <2>3 DEF Stored
  <1> QED BY <1>1 DEF IsChain

(* Deleting keeps the promise to the walk, and so does what changes neither
   the walk nor the store. *)
LEMMA WalkOutlivesDeletes ==
    ASSUME ReplicaInv, plan' = plan,
           \A id \in SnapIds : Stored(id)' => snaps'[id] = snaps[id]
    PROVE  PlanIsTheChain' /\ WalkLeadsToTheLine'
  <1>1. PlanIsTheChain'
    BY DEF ReplicaInv, PlanIsTheChain
  <1>2. ASSUME plan # NoPlan, ~plan.touched, NEW c \in SeqsUpTo(Cardinality(SnapIds)),
               Len(c) + Len(plan.chain) <= Cardinality(SnapIds), IsChain(c)',
               IF c = <<>> THEN plan.next = NoBase ELSE plan.next = c[Len(c)]
        PROVE  c \o plan.chain = plan.line
    <2>1. IsChain(c)
      BY <1>2, ChainBefore, SeqUpTo, IdsAreFinite
    <2> QED BY <1>2, <2>1, Zenon DEF ReplicaInv, WalkLeadsToTheLine
  <1>3. WalkLeadsToTheLine'
    BY <1>2 DEF WalkLeadsToTheLine, IsChain, Stored
  <1> QED BY <1>1, <1>3

(* Capture saves a snapshot, also over one that is stored. *)
LEMMA CaptureStep ==
    ASSUME ReplicaInv, NEW id \in SnapIds, NEW base \in SnapIds \union {NoBase},
           NEW at \in SnapTimes, Capture(id, base, at)
    PROVE  ReplicaInv'
  <1>1. snaps' = [snaps EXCEPT ![id] = [base |-> base, at |-> at]] /\ prune' = prune
    BY DEF Capture
  <1>2. /\ snaps' \in [SnapIds -> {NotStored} \union [base: SnapIds \union {NoBase}, at: SnapTimes]]
        /\ \A x \in SnapIds : Stored(x) => Stored(x)'
    <2>1. base # -1
      BY ReplicaAssumption DEF NoBase
    <2>2. snaps \in [SnapIds -> {NotStored} \union [base: SnapIds \union {NoBase}, at: SnapTimes]]
      BY DEF ReplicaInv, ReplicaTypeOK
    <2> QED BY <1>1, <2>1, <2>2 DEF Stored
  <1>3. captures' \in 0..MaxCaptures
    BY ReplicaAssumption DEF Capture, ReplicaInv, ReplicaTypeOK
  <1>4. PruneKeepsChains'
    <2>1. \A x \in prune.needed : prune # NoPrune => x \in SnapIds
      BY DEF ReplicaInv, ReplicaTypeOK, NoPrune
    <2> QED BY <1>1, <1>2, <2>1 DEF ReplicaInv, PruneKeepsChains
  <1>5. CASE plan = NoPlan
    <2>1. plan' = NoPlan
      BY <1>5 DEF Capture
    <2> QED
      BY <1>1, <1>2, <1>3, <1>4, <2>1
      DEF ReplicaInv, ReplicaTypeOK, PlanIsTheChain, WalkLeadsToTheLine
  <1>6. CASE plan # NoPlan
    <2>1. plan' = [pc |-> "walk", next |-> plan.next, chain |-> plan.chain, touched |-> TRUE,
                   line |-> <<>>]
      <3>1. plan' = [plan EXCEPT !.touched = TRUE, !.line = <<>>]
        BY <1>6 DEF Capture
      <3>2. PICK next, chain, touched, line :
               plan = [pc |-> "walk", next |-> next, chain |-> chain,
                       touched |-> touched, line |-> line]
        BY <1>6, PlanFields, Zenon DEF ReplicaInv
      <3>3. plan.next = next /\ plan.chain = chain
        BY <3>2
      <3> QED BY <3>1, <3>2, <3>3
    <2>2. plan'.touched = TRUE /\ plan'.chain = plan.chain
      BY <2>1
    <2>3. plan' \in [pc: {"walk"}, next: SnapIds \union {NoBase}, chain: Seq(SnapIds),
                      touched: BOOLEAN, line: Seq(SnapIds)]
      <3>1. <<>> \in Seq(SnapIds) /\ plan.next \in SnapIds \union {NoBase} /\ plan.chain \in Seq(SnapIds)
        BY <1>6, PlanFields DEF ReplicaInv
      <3> QED BY <2>1, <3>1
    <2>4. ReplicaTypeOK'
      BY <1>1, <1>2, <1>3, <2>3 DEF ReplicaInv, ReplicaTypeOK
    <2>5. PlanIsTheChain' /\ WalkLeadsToTheLine'
      BY <1>6, <2>2 DEF ReplicaInv, PlanIsTheChain, WalkLeadsToTheLine
    <2> QED BY <1>4, <2>4, <2>5 DEF ReplicaInv
  <1> QED BY <1>5, <1>6

(* Prune chooses what to delete. *)
LEMMA PruneStep ==
    ASSUME ReplicaInv, NEW keep \in KeepCounts, Prune(keep)
    PROVE  ReplicaInv'
  <1>1. UNCHANGED <<snaps, plan, captures>>
    BY DEF Prune
  <1>2. PICK needed : needed = UNION {{c[i] : i \in DOMAIN c} :
                              c \in UNION {ChainsTo(id) : id \in NewestOf(Listed, keep)}}
    OBVIOUS
  <1>3. prune' = [pc |-> "delete", victims |-> Listed \ RetainedIDs(keep), needed |-> needed]
    BY <1>2 DEF Prune
  <1>4. ASSUME NEW x \in needed
        PROVE  x \in SnapIds /\ Stored(x) /\ x \in RetainedIDs(keep)
    <2>1. PICK id \in NewestOf(Listed, keep) : \E c \in ChainsTo(id) : \E i \in DOMAIN c : x = c[i]
      BY <1>2, <1>4
    <2> QED BY <2>1, ChainIsRetained DEF ReplicaInv
  <1>5. ReplicaTypeOK'
    <2>1. Listed \ RetainedIDs(keep) \subseteq SnapIds /\ needed \subseteq SnapIds
      BY <1>4 DEF Listed
    <2>2. prune' \in [pc: {"delete"}, victims: SUBSET SnapIds, needed: SUBSET SnapIds]
      BY <1>3, <2>1
    <2> QED BY <1>1, <2>2 DEF ReplicaInv, ReplicaTypeOK
  <1>6. PruneKeepsChains'
    <2>1. prune'.needed = needed /\ prune'.victims = Listed \ RetainedIDs(keep)
      BY <1>3
    <2> QED BY <1>1, <1>4, <2>1 DEF PruneKeepsChains, Stored
  <1>7. PlanIsTheChain' /\ WalkLeadsToTheLine'
    BY <1>1, WalkOutlivesDeletes
  <1> QED BY <1>5, <1>6, <1>7 DEF ReplicaInv

(* Prune deletes one of them. *)
LEMMA DeleteStep ==
    ASSUME ReplicaInv, DeleteVictim
    PROVE  ReplicaInv'
  <1>1. UNCHANGED <<plan, captures>> /\ prune # NoPrune
    BY DEF DeleteVictim
  <1>2. PICK victims \in SUBSET SnapIds, needed \in SUBSET SnapIds :
           prune = [pc |-> "delete", victims |-> victims, needed |-> needed]
    BY <1>1 DEF ReplicaInv, ReplicaTypeOK
  <1>3. CASE prune' = NoPrune /\ UNCHANGED snaps
    <2>1. PlanIsTheChain' /\ WalkLeadsToTheLine'
      BY <1>1, <1>3, WalkOutlivesDeletes
    <2> QED BY <1>1, <1>3, <2>1 DEF ReplicaInv, ReplicaTypeOK, PruneKeepsChains
  <1>4. ASSUME NEW id \in victims, snaps' = [snaps EXCEPT ![id] = NotStored],
               prune' = [prune EXCEPT !.victims = @ \ {id}]
        PROVE  ReplicaInv'
    <2>0. snaps \in [SnapIds -> {NotStored} \union [base: SnapIds \union {NoBase}, at: SnapTimes]]
      BY DEF ReplicaInv, ReplicaTypeOK
    <2>1. /\ snaps' \in [SnapIds -> {NotStored} \union [base: SnapIds \union {NoBase}, at: SnapTimes]]
          /\ snaps'[id] = NotStored
          /\ \A x \in SnapIds \ {id} : snaps'[x] = snaps[x]
      BY <1>4, <2>0
    <2>2. \A x \in SnapIds : Stored(x)' => snaps'[x] = snaps[x]
      BY <2>1 DEF Stored, NotStored
    <2>3. prune' = [pc |-> "delete", victims |-> victims \ {id}, needed |-> needed]
      BY <1>2, <1>4
    <2>4. ReplicaTypeOK'
      <3>1. prune' \in [pc: {"delete"}, victims: SUBSET SnapIds, needed: SUBSET SnapIds]
        BY <2>3
      <3> QED BY <1>1, <2>1, <3>1 DEF ReplicaInv, ReplicaTypeOK
    <2>5. \A x \in needed : Stored(x) /\ x \notin victims
      BY <1>1, <1>2 DEF ReplicaInv, PruneKeepsChains
    <2>6. PruneKeepsChains'
      <3>1. prune'.needed = needed /\ prune'.victims = victims \ {id}
        BY <2>3
      <3> QED BY <1>4, <2>1, <2>5, <3>1 DEF PruneKeepsChains, Stored
    <2>7. PlanIsTheChain' /\ WalkLeadsToTheLine'
      BY <1>1, <2>2, WalkOutlivesDeletes
    <2> QED BY <2>4, <2>6, <2>7 DEF ReplicaInv
  <1> QED
    BY <1>2, <1>3, <1>4 DEF DeleteVictim

(* PlanRestore selects the snapshot it begins with. *)
LEMMA PlanStep ==
    ASSUME ReplicaInv, NEW inventories, NEW minimum, PlanRestore(inventories, minimum)
    PROVE  ReplicaInv'
  <1>1. UNCHANGED <<snaps, prune, captures>>
    BY DEF PlanRestore
  <1>2. PICK id \in SnapIds :
           plan' = [pc |-> "walk", next |-> id, chain |-> <<>>, touched |-> FALSE,
                    line |-> IF ChainsTo(id) = {} THEN <<>> ELSE CHOOSE c \in ChainsTo(id) : TRUE]
    BY DEF PlanRestore, NewestOf, Listed
  <1>3. PICK line :
           line = IF ChainsTo(id) = {} THEN <<>> ELSE CHOOSE c \in ChainsTo(id) : TRUE
    OBVIOUS
  <1>4. \A c \in ChainsTo(id) :
           c \in Seq(SnapIds) /\ c # <<>> /\ c[Len(c)] = id /\ IsChain(c)
    BY SeqUpTo, IdsAreFinite DEF ChainsTo
  <1>5. line \in Seq(SnapIds) /\ \A c \in ChainsTo(id) : c = line
    <2>1. CASE ChainsTo(id) = {}
      BY <1>3, <2>1
    <2>2. CASE ChainsTo(id) # {}
      <3>1. line \in ChainsTo(id)
        BY <1>3, <2>2
      <3> QED BY <1>4, <3>1, ChainIsUnique
    <2> QED BY <2>1, <2>2
  <1>6. plan' = [pc |-> "walk", next |-> id, chain |-> <<>>, touched |-> FALSE, line |-> line]
    BY <1>2, <1>3
  <1>7. /\ plan'.next = id /\ plan'.chain = <<>> /\ plan'.touched = FALSE /\ plan'.line = line
        /\ id # NoBase
    BY <1>6, IdsAreFinite DEF NoBase
  <1>8. plan' \in [pc: {"walk"}, next: SnapIds \union {NoBase}, chain: Seq(SnapIds),
                   touched: BOOLEAN, line: Seq(SnapIds)]
    BY <1>5, <1>6
  <1>9. ReplicaTypeOK' /\ PruneKeepsChains'
    BY <1>1, <1>8 DEF ReplicaInv, ReplicaTypeOK, PruneKeepsChains, Stored
  <1>10. PlanIsTheChain'
    BY <1>7 DEF PlanIsTheChain
  <1>11. ASSUME NEW c \in SeqsUpTo(Cardinality(SnapIds)), IsChain(c), c # <<>>, id = c[Len(c)]
         PROVE  c \o <<>> = line
    <2>1. c \in ChainsTo(id)
      BY <1>11 DEF ChainsTo
    <2>2. c \o <<>> = c
      BY <1>4, <2>1, ConcatEmptySeq
    <2> QED BY <1>5, <2>1, <2>2
  <1>12. WalkLeadsToTheLine'
    BY <1>1, <1>7, <1>11 DEF WalkLeadsToTheLine, IsChain, Stored
  <1> QED BY <1>9, <1>10, <1>12 DEF ReplicaInv

(* The plan once the walk has put an id in front. *)
LEMMA FollowedPlan ==
    ASSUME NEW p \in [pc: {"walk"}, next: SnapIds \union {NoBase}, chain: Seq(SnapIds),
                      touched: BOOLEAN, line: Seq(SnapIds)],
           NEW longer \in Seq(SnapIds), NEW base \in SnapIds \union {NoBase},
           NEW q, q = [p EXCEPT !.chain = longer, !.next = base]
    PROVE  /\ q \in [pc: {"walk"}, next: SnapIds \union {NoBase}, chain: Seq(SnapIds),
                     touched: BOOLEAN, line: Seq(SnapIds)]
           /\ q.next = base /\ q.chain = longer
           /\ q.touched = p.touched /\ q.line = p.line
  OBVIOUS

(* The walk goes one id back. *)
LEMMA FollowStep ==
    ASSUME ReplicaInv, plan # NoPlan,
           NEW at \in SnapIds, NEW chain \in Seq(SnapIds), NEW touched, NEW line \in Seq(SnapIds),
           plan.next = at, plan.chain = chain, plan.touched = touched, plan.line = line,
           Stored(at), \A i \in DOMAIN chain : chain[i] # at,
           NEW base, base = snaps[at].base, NEW longer \in Seq(SnapIds), longer = <<at>> \o chain,
           plan' \in [pc: {"walk"}, next: SnapIds \union {NoBase}, chain: Seq(SnapIds),
                      touched: BOOLEAN, line: Seq(SnapIds)],
           plan'.next = base, plan'.chain = longer, plan'.touched = touched, plan'.line = line,
           UNCHANGED <<snaps, prune, captures>>
    PROVE  ReplicaInv'
  <1>3. base = snaps[at].base
    OBVIOUS
  <1>c. <<at>> \in Seq(SnapIds) /\ Len(<<at>>) = 1
    OBVIOUS
  <1>4. longer = <<at>> \o chain
    OBVIOUS
  <1>6. ReplicaTypeOK' /\ PruneKeepsChains'
    BY DEF ReplicaInv, ReplicaTypeOK, PruneKeepsChains, Stored
  <1>7. /\ plan.next = at /\ plan.chain = chain /\ plan.touched = touched /\ plan.line = line
        /\ plan'.next = base /\ plan'.chain = longer /\ plan'.touched = touched /\ plan'.line = line
    OBVIOUS
  <1>8. /\ Len(longer) = Len(chain) + 1 /\ Len(chain) \in Nat
        /\ \A i, j \in DOMAIN longer : longer[i] = longer[j] => i = j
    <2>1. \A i, j \in DOMAIN chain : chain[i] = chain[j] => i = j
      BY <1>7 DEF ReplicaInv, PlanIsTheChain
    <2> QED BY <2>1, DistinctGrows
  <1>10. PICK size \in Nat : size = Cardinality(SnapIds)
    BY IdsAreFinite
  <1>11. ASSUME ~touched, NEW c \in Seq(SnapIds), IsChain(c), Len(c) + Len(longer) <= size,
                IF c = <<>> THEN base = NoBase ELSE base = c[Len(c)]
         PROVE  c \o longer = line
    <2>1. PICK n \in Nat : n = Len(c) /\ DOMAIN c = 1..n /\ c \in [1..n -> SnapIds]
      BY ChainDomain
    <2>2. PICK d \in Seq(SnapIds) : d = c \o <<at>>
      BY <1>c, ConcatProperties, Zenon
    <2>3. /\ Len(d) = n + 1 /\ DOMAIN d = 1..(n + 1) /\ d[n + 1] = at
          /\ \A i \in 1..n : d[i] = c[i]
      BY <2>1, <2>2
    <2>4. IsChain(d)
      <3> SUFFICES ASSUME NEW i \in 1..(n + 1)
                   PROVE  Stored(d[i]) /\ snaps[d[i]].base = IF i = 1 THEN NoBase ELSE d[i - 1]
        BY <2>3 DEF IsChain
      <3>1. CASE i \in 1..n
        <4>1. Stored(c[i]) /\ snaps[c[i]].base = IF i = 1 THEN NoBase ELSE c[i - 1]
          BY <1>11, <2>1, <3>1, Zenon DEF IsChain
        <4>2. d[i] = c[i] /\ (i # 1 => d[i - 1] = c[i - 1])
          <5>1. i # 1 => i - 1 \in 1..n
            BY <2>1, <3>1
          <5> QED BY <2>3, <3>1, <5>1, Zenon
        <4> QED BY <4>1, <4>2
      <3>2. CASE i = n + 1
        <4>1. d[i] = at /\ Stored(at)
          BY <1>7, <2>3, <3>2
        <4>2. CASE n = 0
          BY <1>3, <1>11, <2>1, <3>2, <4>1, <4>2
        <4>3. CASE n # 0
          <5>1. i # 1 /\ i - 1 = n /\ n \in 1..n
            BY <3>2, <4>3
          <5>2. base = c[n]
            BY <1>11, <2>1, <4>3
          <5>3. d[i - 1] = c[n]
            BY <2>3, <5>1
          <5> QED BY <1>3, <4>1, <5>1, <5>2, <5>3
        <4> QED BY <4>2, <4>3
      <3> QED BY <3>1, <3>2
    <2>5. Len(d) + Len(chain) <= size /\ Len(d) <= size
      BY <1>8, <1>11, <2>1, <2>3
    <2>6. d \in SeqsUpTo(size)
      BY <2>5, SeqUpTo
    <2>7. d # <<>> /\ d[Len(d)] = at
      BY <2>1, <2>3
    <2>8. d \o chain = line
      <3>1. /\ Len(d) + Len(plan.chain) <= Cardinality(SnapIds)
            /\ plan.next = d[Len(d)] /\ ~plan.touched
        BY <1>7, <1>10, <1>11, <2>5, <2>7
      <3>2. d \o plan.chain = plan.line
        BY <1>10, <2>4, <2>6, <2>7, <3>1, Zenon DEF ReplicaInv, WalkLeadsToTheLine
      <3> QED BY <1>7, <3>2
    <2>9. (c \o <<at>>) \o chain = c \o (<<at>> \o chain)
      BY InsertedBetween, ZenonT(60)
    <2> QED BY <1>4, <2>2, <2>8, <2>9
  <1>12. WalkLeadsToTheLine'
    <2> SUFFICES ASSUME ~plan'.touched, NEW c \in SeqsUpTo(Cardinality(SnapIds)),
                        Len(c) + Len(plan'.chain) <= Cardinality(SnapIds), IsChain(c)',
                        IF c = <<>> THEN plan'.next = NoBase ELSE plan'.next = c[Len(c)]
                 PROVE  c \o plan'.chain = plan'.line
      BY DEF WalkLeadsToTheLine
    <2>1. IsChain(c)
      BY DEF IsChain, Stored
    <2>2. c \in Seq(SnapIds)
      BY SeqUpTo, IdsAreFinite
    <2>3. Len(c) + Len(longer) <= size /\ ~touched
      BY <1>7, <1>10
    <2>4. IF c = <<>> THEN base = NoBase ELSE base = c[Len(c)]
      BY <1>7
    <2>5. c \o longer = line
      BY <1>11, <2>1, <2>2, <2>3, <2>4
    <2> QED BY <1>7, <2>5
  <1>13. ASSUME base = NoBase, ~touched PROVE longer = line
    <2>1. IsChain(<<>>) /\ <<>> \in Seq(SnapIds) /\ Len(<<>>) = 0
      BY DEF IsChain
    <2>2. Len(longer) <= size
      BY <1>8, <1>10, DistinctIsShort
    <2>3. <<>> \o longer = line
      <3>1. PICK c \in Seq(SnapIds) : c = <<>> /\ IsChain(c) /\ Len(c) = 0
        BY <2>1
      <3>2. Len(c) + Len(longer) <= size
        BY <1>8, <1>10, <2>2, <3>1
      <3>3. IF c = <<>> THEN base = NoBase ELSE base = c[Len(c)]
        BY <1>13, <3>1
      <3>4. c \o longer = line
        BY <1>11, <1>13, <3>1, <3>2, <3>3
      <3> QED BY <3>1, <3>4
    <2> QED BY <2>3, ConcatEmptySeq
  <1>14. PlanIsTheChain'
    BY <1>7, <1>8, <1>13 DEF PlanIsTheChain
  <1> QED BY <1>6, <1>12, <1>14 DEF ReplicaInv

(* Every step keeps the promises of Prune and PlanRestore. *)
LEMMA ReplicaStep ==
    ASSUME ReplicaInv, [ReplicaNext]_replicaVars
    PROVE  ReplicaInv'
  <1>1. ASSUME plan' = NoPlan, UNCHANGED <<snaps, prune, captures>> PROVE ReplicaInv'
    BY <1>1 DEF ReplicaInv, ReplicaTypeOK, PruneKeepsChains, PlanIsTheChain, WalkLeadsToTheLine,
                Stored
  <1>2. CASE FollowBase
    <2>1. plan # NoPlan
      BY <1>2 DEF FollowBase, NoPlan
    <2>2. PICK p : p = plan
      OBVIOUS
    <2>3. p \in [pc: {"walk"}, next: SnapIds \union {NoBase}, chain: Seq(SnapIds),
                 touched: BOOLEAN, line: Seq(SnapIds)]
      BY <2>1, <2>2 DEF ReplicaInv, ReplicaTypeOK
    <2>4. p.next \in SnapIds /\ p.chain \in Seq(SnapIds) /\ p.line \in Seq(SnapIds)
      BY <1>2, <2>2, <2>3 DEF FollowBase
    <2>5. CASE (\E i \in DOMAIN p.chain : p.chain[i] = p.next) \/ ~Stored(p.next)
      BY <1>1, <1>2, <2>2, <2>5 DEF FollowBase
    <2>6. CASE (\A i \in DOMAIN p.chain : p.chain[i] # p.next) /\ Stored(p.next)
      <3>1. PICK longer \in Seq(SnapIds) : longer = <<p.next>> \o p.chain
        <4>1. <<p.next>> \in Seq(SnapIds)
          BY <2>4
        <4> QED BY <2>4, <4>1, ConcatProperties, Zenon
      <3>2. PICK base \in SnapIds \union {NoBase} : base = snaps[p.next].base
        <4>1. snaps[p.next] # NotStored
          BY <2>6 DEF Stored, NotStored
        <4>2. snaps[p.next] \in [base: SnapIds \union {NoBase}, at: SnapTimes]
          BY <2>4, <4>1 DEF ReplicaInv, ReplicaTypeOK
        <4> QED BY <4>2
      <3>3. PICK q : q = plan'
        OBVIOUS
      <3>4. q = [p EXCEPT !.chain = longer, !.next = base]
        <4>1. plan' = [plan EXCEPT !.chain = <<plan.next>> \o @, !.next = snaps[plan.next].base]
          BY <1>2, <2>2, <2>6 DEF FollowBase
        <4> QED BY <2>2, <3>1, <3>2, <3>3, <4>1, Zenon
      <3>5. /\ q \in [pc: {"walk"}, next: SnapIds \union {NoBase}, chain: Seq(SnapIds),
                       touched: BOOLEAN, line: Seq(SnapIds)]
            /\ q.next = base /\ q.chain = longer /\ q.touched = p.touched /\ q.line = p.line
        BY <2>3, <3>4, FollowedPlan, Zenon
      <3>6. UNCHANGED <<snaps, prune, captures>>
        BY <1>2 DEF FollowBase
      <3> QED
        <4>0. PICK touched : touched = p.touched
          OBVIOUS
        <4>1. PICK at \in SnapIds, chain \in Seq(SnapIds), line \in Seq(SnapIds) :
                 at = p.next /\ chain = p.chain /\ touched = p.touched /\ line = p.line
          BY <2>4, <4>0
        <4>2. plan.next = at /\ plan.chain = chain /\ plan.touched = touched /\ plan.line = line
          BY <2>2, <4>1, Zenon
        <4>3. Stored(at) /\ (\A i \in DOMAIN chain : chain[i] # at) /\ base = snaps[at].base
                /\ longer = <<at>> \o chain
          BY <2>6, <3>1, <3>2, <4>1, Zenon
        <4>4. /\ plan' \in [pc: {"walk"}, next: SnapIds \union {NoBase}, chain: Seq(SnapIds),
                            touched: BOOLEAN, line: Seq(SnapIds)]
              /\ plan'.next = base /\ plan'.chain = longer
              /\ plan'.touched = touched /\ plan'.line = line
          BY <3>3, <3>5, <4>1, Zenon
        <4> QED
          BY <2>1, <3>6, <4>2, <4>3, <4>4, FollowStep, ZenonT(60)
    <2> QED BY <2>5, <2>6
  <1>3. CASE ReturnPlan
    BY <1>1, <1>3 DEF ReturnPlan
  <1>4. CASE UNCHANGED replicaVars
    BY <1>4 DEF replicaVars, ReplicaInv, ReplicaTypeOK, PruneKeepsChains, PlanIsTheChain,
                WalkLeadsToTheLine, IsChain, Stored
  <1> QED
    BY <1>2, <1>3, <1>4, CaptureStep, PruneStep, DeleteStep, PlanStep DEF ReplicaNext

(* For any finite set of snapshot ids, any times and any replicas: Prune deletes
   nothing of the chains the snapshots it keeps had when it decided, also while
   captures come in between its deletes (a new base that a kept id is captured
   on meanwhile is not protected); and the walk of PlanRestore visits no id
   twice and, if no capture comes in meanwhile, ends with the chain the snapshot
   had when it was selected. *)
THEOREM ReplicaInvariant == ReplicaSpec => []ReplicaInv
  <1>1. ReplicaInit => ReplicaInv
    BY ReplicaAssumption DEF ReplicaInit, ReplicaInv, ReplicaTypeOK, PruneKeepsChains,
       PlanIsTheChain, WalkLeadsToTheLine
  <1> QED BY <1>1, ReplicaStep, PTL DEF ReplicaSpec

------------------------------------------------------------------------------
(* Manifests, streams and quorums.                                          *)

(* A function on the first n numbers is a sequence. *)
LEMMA FunctionIsSeq ==
    ASSUME NEW R, NEW n \in Nat, NEW list \in [1..n -> R]
    PROVE  list \in Seq(R)
  OBVIOUS

(* Frames that are not final are frames. *)
LEMMA OpenFrames ==
    ASSUME NEW list \in Seq([data: Contents, final: {FALSE}])
    PROVE  /\ list \in Seq([data: Contents, final: BOOLEAN])
           /\ \A i \in 1..Len(list) : ~list[i].final
  <1>1. \A i \in 1..Len(list) : list[i] \in [data: Contents, final: {FALSE}]
    BY ElementOfSeq, Zenon
  <1>2. \A i \in 1..Len(list) : list[i] \in [data: Contents, final: BOOLEAN]
    BY <1>1
  <1>3. \A i \in 1..Len(list) : ~list[i].final
    BY <1>1
  <1>4. Len(list) \in Nat /\ list = [i \in 1..Len(list) |-> list[i]]
    OBVIOUS
  <1>5. list \in [1..Len(list) -> [data: Contents, final: BOOLEAN]]
    BY <1>2, <1>4
  <1>6. list \in Seq([data: Contents, final: BOOLEAN])
    BY <1>4, <1>5, FunctionIsSeq, Zenon
  <1> QED BY <1>3, <1>6

(* What a list of frames is saved as verifies, and its chunks are contents. *)
LEMMA BuiltVerifies ==
    ASSUME NEW list \in Seq([data: Contents, final: BOOLEAN]), list # <<>>,
           NEW chunks, chunks = [i \in DOMAIN list |-> list[i].data]
    PROVE  /\ chunks \in Seq(Contents)
           /\ Len(chunks) = Len(list)
           /\ VerifyManifest(BuildManifest(list), chunks)
           /\ \A i \in DOMAIN chunks : BuildManifest(list).chunks[i].final = list[i].final
  <1>1. DOMAIN list = 1..Len(list) /\ Len(list) \in Nat /\ Len(list) # 0
    OBVIOUS
  <1>2. \A i \in 1..Len(list) : list[i].data \in Contents
    <2>1. \A i \in 1..Len(list) : list[i] \in [data: Contents, final: BOOLEAN]
      BY ElementOfSeq, Zenon
    <2> QED BY <2>1
  <1>3. chunks \in Seq(Contents) /\ Len(chunks) = Len(list) /\ DOMAIN chunks = 1..Len(list)
    BY <1>1, <1>2
  <1> DEFINE parts == [i \in DOMAIN list |->
                         [index |-> i - 1, digest |-> Digest(list[i].data), final |-> list[i].final]]
  <1>4. BuildManifest(list).chunks = parts /\ BuildManifest(list).root = MerkleRoot(chunks)
    BY DEF BuildManifest
  <1>5. Len(parts) = Len(list)
    BY <1>1
  <1>6. \A i \in 1..Len(list) :
           parts[i].index = i - 1 /\ parts[i].digest = Digest(chunks[i]) /\ parts[i].final = list[i].final
    BY <1>1
  <1>7. chunks # <<>>
    BY <1>1, <1>3
  <1> HIDE DEF parts
  <1> QED
    BY <1>3, <1>4, <1>5, <1>6, <1>7 DEF VerifyManifest

(* Saving what was read keeps the invariant. *)
LEMMA SavedVerifies ==
    ASSUME ManifestInv, NEW list \in Seq([data: Contents, final: BOOLEAN]),
           \A i \in DOMAIN list : list[i].final => i = Len(list), SaveFrames(list)
    PROVE  ManifestInv'
  <1>1. frames' \in [reading: BOOLEAN, list: Seq([data: Contents, final: {FALSE}])]
    BY DEF SaveFrames, NoFrames
  <1>2. \A p \in promotions' :
          /\ IsFiniteSet(p.acks) /\ p.count \in Int
          /\ Cardinality(p.acks) >= StrictMajority(p.count)
    BY DEF SaveFrames, ManifestInv
  <1> DEFINE chunks == [i \in DOMAIN list |-> list[i].data]
  <1>3. CASE saved' = saved
    BY <1>1, <1>2, <1>3 DEF ManifestInv
  <1>4. CASE list # <<>> /\ saved' = [manifest |-> BuildManifest(list), chunks |-> chunks]
    <2>1. saved'.manifest = BuildManifest(list) /\ saved'.chunks = chunks
      BY <1>4
    <2>2. /\ chunks \in Seq(Contents) /\ Len(chunks) = Len(list)
          /\ DOMAIN chunks = DOMAIN list
          /\ VerifyManifest(BuildManifest(list), chunks)
          /\ \A i \in DOMAIN chunks : BuildManifest(list).chunks[i].final = list[i].final
      BY <1>4, BuiltVerifies, Zenon
    <2> HIDE DEF chunks
    <2>3. \A i \in DOMAIN chunks : BuildManifest(list).chunks[i].final => i = Len(chunks)
      BY <2>2
    <2> QED
      BY <1>1, <1>2, <2>1, <2>2, <2>3 DEF ManifestInv
  <1> QED
    BY <1>3, <1>4 DEF SaveFrames

(* Every step keeps the invariant. *)
LEMMA ManifestStep ==
    ASSUME ManifestInv, [ReplicaManifestNext]_manifestVars
    PROVE  ManifestInv'
  <1> USE DEF ManifestInv
  <1>0. frames.list \in Seq([data: Contents, final: {FALSE}])
    OBVIOUS
  <1>1. CASE BeginCapture
    BY <1>1 DEF BeginCapture
  <1>2. CASE ReadEOF
    <2>1. /\ frames.list \in Seq([data: Contents, final: BOOLEAN])
          /\ \A i \in 1..Len(frames.list) : ~frames.list[i].final
      BY <1>0, OpenFrames, Zenon
    <2>2. \A i \in DOMAIN frames.list : ~frames.list[i].final
      BY <1>0, <2>1
    <2> QED
      BY <1>2, <2>1, <2>2, SavedVerifies DEF ReadEOF
  <1>3. CASE ReadError
    BY <1>3 DEF ReadError, NoFrames
  <1>4. ASSUME NEW chunk \in Contents, ReadFrame(chunk) PROVE ManifestInv'
    <2>1. Append(frames.list, [data |-> chunk, final |-> FALSE])
             \in Seq([data: Contents, final: {FALSE}])
      BY <1>0
    <2>2. frames' = [reading |-> frames.reading,
                     list |-> Append(frames.list, [data |-> chunk, final |-> FALSE])]
      BY <1>4 DEF ReadFrame
    <2>3. UNCHANGED <<saved, promotions>>
      BY <1>4 DEF ReadFrame
    <2> QED BY <2>1, <2>2, <2>3
  <1>5. ASSUME NEW chunk \in Contents, ReadLastFrame(chunk) PROVE ManifestInv'
    <2> DEFINE list == Append(frames.list, [data |-> chunk, final |-> TRUE])
    <2>1. /\ Len(list) = Len(frames.list) + 1 /\ Len(frames.list) \in Nat
          /\ \A i \in 1..Len(frames.list) : list[i] = frames.list[i]
          /\ list[Len(frames.list) + 1] = [data |-> chunk, final |-> TRUE]
          /\ DOMAIN list = 1..(Len(frames.list) + 1)
      BY <1>0
    <2>2. /\ frames.list \in Seq([data: Contents, final: BOOLEAN])
          /\ \A i \in 1..Len(frames.list) : ~frames.list[i].final
      BY <1>0, OpenFrames, Zenon
    <2>3. \A i \in 1..Len(list) : i \in 1..Len(frames.list) \/ i = Len(list)
      BY <2>1
    <2>4. list \in Seq([data: Contents, final: BOOLEAN])
      BY <2>2
    <2>5. \A i \in DOMAIN list : list[i].final => i = Len(list)
      BY <2>1, <2>2, <2>3
    <2>6. SaveFrames(list)
      BY <1>5 DEF ReadLastFrame
    <2> HIDE DEF list
    <2> QED BY <2>4, <2>5, <2>6, SavedVerifies
  <1>6. ASSUME NEW n \in 0..MaxAcks, NEW count \in ReplicaCounts,
               NEW acks \in [1..n -> AckNames \union {NoName}], Promote(acks, count)
        PROVE  ManifestInv'
    <2>1. IsFiniteSet(Unique(acks)) /\ count \in Int
      <3>1. n \in Nat /\ count \in Int
        BY ManifestAssumption
      <3>2. IsFiniteSet(1..n)
        BY <3>1, FS_Interval
      <3> DEFINE names == {acks[i] : i \in 1..n}
      <3>3. acks \in Surjection(1..n, names)
        BY DEF Surjection
      <3> HIDE DEF names
      <3>4. IsFiniteSet(names)
        BY <3>2, <3>3, FS_Surjection
      <3>5. Unique(acks) \in SUBSET names
        BY DEF Unique, names
      <3> QED BY <3>1, <3>4, <3>5, FS_Subset
    <2>2. /\ UNCHANGED <<frames, saved>>
          /\ promotions' = promotions \union {[acks |-> Unique(acks), count |-> count]}
      BY <1>6 DEF Promote
    <2>3. Cardinality(Unique(acks)) >= StrictMajority(count)
      BY <1>6 DEF Promote, HasQuorum
    <2> QED BY <2>1, <2>2, <2>3
  <1>7. CASE UNCHANGED manifestVars
    BY <1>7 DEF manifestVars
  <1> QED
    BY <1>1, <1>2, <1>3, <1>4, <1>5, <1>6, <1>7 DEF ReplicaManifestNext

(* Whatever the reader returns and whoever acknowledges: what BuildManifest and
   Save leave in the store verifies and at most its last chunk is final, and a
   promotion has as many names behind it as a strict majority of its count. *)
THEOREM ManifestInvariant == ReplicaManifestSpec => []ManifestInv
  <1>1. ReplicaManifestInit => ManifestInv
    BY DEF ReplicaManifestInit, ManifestInv, NoFrames
  <1> QED BY <1>1, ManifestStep, PTL DEF ReplicaManifestSpec

(* A manifest that verifies accepts one list of chunks. *)
LEMMA ExactlyOne ==
    ASSUME ManifestInv
    PROVE  ManifestIsExact
  <1> SUFFICES ASSUME saved # NotSaved PROVE ManifestIsExact
    BY DEF ManifestIsExact
  <1>1. /\ saved.chunks \in Seq(Contents)
        /\ VerifyManifest(saved.manifest, saved.chunks)
        /\ \A i \in DOMAIN saved.chunks :
                saved.manifest.chunks[i].final => i = Len(saved.chunks)
    BY DEF ManifestInv
  <1>2. ASSUME NEW chunks \in ChunkLists, VerifyManifest(saved.manifest, chunks)
        PROVE  chunks = saved.chunks
    <2>1. PICK n \in 0..MaxFrames : chunks \in [1..n -> Contents]
      BY DEF ChunkLists
    <2>2. n \in Nat
      BY ManifestAssumption
    <2>3. chunks \in Seq(Contents) /\ Len(chunks) = n
      BY <2>1, <2>2
    <2>4. Len(chunks) = Len(saved.chunks)
      BY <1>1, <1>2 DEF VerifyManifest
    <2>5. \A i \in 1..n : chunks[i] = saved.chunks[i]
      BY <1>1, <1>2, <2>3, <2>4 DEF VerifyManifest, Digest
    <2> QED
      BY <1>1, <2>3, <2>4, <2>5
  <1> QED
    BY <1>1, <1>2 DEF ManifestIsExact

(* VerifyManifest accepts the chunks that were captured and no other list, for
   any contents and any number of frames, and only the last frame is final. *)
THEOREM ManifestAlwaysExact == ReplicaManifestSpec => []ManifestIsExact
  BY ManifestInvariant, ExactlyOne, PTL

(* A strict majority is more than half, of a count that is no number of replicas too. *)
LEMMA MoreThanHalf ==
    ASSUME NEW count \in Int
    PROVE  StrictMajority(count) \in Nat /\ 2 * StrictMajority(count) > count
  BY DEF StrictMajority

(* Two sets of more than half of the replicas that either caller counted have a
   replica in common. *)
LEMMA MajoritiesMeet ==
    ASSUME ManifestInv
    PROVE  QuorumsIntersect
  <1> SUFFICES ASSUME NEW p \in promotions, NEW q \in promotions,
                      Cardinality(p.acks \union q.acks) <= p.count,
                      Cardinality(p.acks \union q.acks) <= q.count
               PROVE  p.acks \intersect q.acks # {}
    BY DEF QuorumsIntersect
  <1>1. /\ IsFiniteSet(p.acks) /\ p.count \in Int
        /\ Cardinality(p.acks) >= StrictMajority(p.count)
        /\ IsFiniteSet(q.acks) /\ q.count \in Int
        /\ Cardinality(q.acks) >= StrictMajority(q.count)
    BY DEF ManifestInv
  <1>2. /\ StrictMajority(p.count) \in Nat /\ 2 * StrictMajority(p.count) > p.count
        /\ StrictMajority(q.count) \in Nat /\ 2 * StrictMajority(q.count) > q.count
    BY <1>1, MoreThanHalf
  <1>3. /\ Cardinality(p.acks) \in Nat /\ Cardinality(q.acks) \in Nat
        /\ IsFiniteSet(p.acks \union q.acks) /\ Cardinality(p.acks \union q.acks) \in Nat
    BY <1>1, FS_Union, FS_CardinalityType
  <1>4. Cardinality(p.acks) + Cardinality(q.acks) > Cardinality(p.acks \union q.acks)
    BY <1>1, <1>2, <1>3
  <1> QED
    BY <1>1, <1>3, <1>4, FS_MajoritiesIntersect

(* Any two promotions whose callers counted no fewer replicas than acknowledged
   to the two of them were acknowledged by a replica in common, for any counts,
   names and acknowledgements: StrictMajority is more than half, and names that
   are repeated or empty do not count. *)
THEOREM PromotionsAlwaysMeet == ReplicaManifestSpec => []QuorumsIntersect
  BY ManifestInvariant, MajoritiesMeet, PTL
=============================================================================
