---------------------------- MODULE CaptureProofs ----------------------------
(***************************************************************************)
(* Proofs about Capture for every set of goroutines, snapshots, owners,    *)
(* chunks and every value of the bounds: it is type correct, leases fence, *)
(* the journal is written ahead of the catalog, an acknowledged commit     *)
(* stays, and the whole implements Publication.                            *)
(***************************************************************************)
EXTENDS Capture, TLAPS

(* The pc tells which kind of call a goroutine is in. *)
LEMMA CallShape ==
    ASSUME NEW c \in Call
    PROVE  /\ c.pc = "acquire" => c \in [pc: {"acquire"}, snap: Snapshots, owner: Owners, at: Nat]
           /\ c.pc = "issue" => c \in [pc: {"issue"}, snap: Snapshots, owner: Owners, epoch: Nat]
           /\ c.pc \in StagePCs => c \in StageCall
           /\ c.pc \in CommitPCs => c \in CommitCall
BY DEF Call, Idle, StageCall, CommitCall, StagePCs, CommitPCs

(* Every kind of call record is a Call. *)
LEMMA CallKinds ==
    /\ Idle \in Call
    /\ [pc: {"acquire"}, snap: Snapshots, owner: Owners, at: Nat] \subseteq Call
    /\ [pc: {"issue"}, snap: Snapshots, owner: Owners, epoch: Nat] \subseteq Call
    /\ StageCall \subseteq Call
    /\ CommitCall \subseteq Call
BY DEF Call

(* Moving on inside a call keeps its record in the same kind. *)
LEMMA GotoType ==
    /\ \A c \in StageCall, pc \in StagePCs :
            [c EXCEPT !.pc = pc] \in StageCall
    /\ \A c \in CommitCall, pc \in CommitPCs :
            [c EXCEPT !.pc = pc] \in CommitCall
BY DEF StageCall, CommitCall, StagePCs, CommitPCs

(* What a call's record holds while it uses a handle. *)
LEMMA CallHandle ==
    /\ \A c \in StageCall : c.h \in Handle /\ c.idx \in Indexes /\ c.dig \in Digests
    /\ \A c \in CommitCall : c.h \in Handle
BY DEF StageCall, CommitCall

(* A new service is well typed. *)
LEMMA InitType == CaptureInit => CaptureTypeOK
  <1> SUFFICES ASSUME CaptureInit PROVE CaptureTypeOK OBVIOUS
  <1>1. NoChunks \in ChunkMap
    BY DEF NoChunks, ChunkMap
  <1>2. LeaseTypeOK
    BY DEF CaptureInit, LeaseInit, LeaseTypeOK, NoLease, Lease
  <1>3. call \in [Threads -> Call]
    BY CallKinds DEF CaptureInit
  <1>4. entries \in Seq(LogEntry)
    BY DEF CaptureInit, JournalInit
  <1>5. closed \in BOOLEAN
    BY Zenon DEF CaptureInit, JournalInit
  <1>6. nextOp \in 0..MaxOps
    BY CaptureAssumption DEF CaptureInit
  <1>7. snapshots \in [Snapshots -> [op: Ops \union {0}, chunks: ChunkMap]]
    BY <1>1 DEF CaptureInit, NotPublished
  <1>8. /\ staged \in [Ops -> ChunkMap]
        /\ reservations \in [Digests -> Ops \union {0}]
        /\ handles \subseteq Handle
        /\ acked \subseteq Ops
    BY <1>1 DEF CaptureInit
  <1> QED
    BY <1>2, <1>3, <1>4, <1>5, <1>6, <1>7, <1>8, Zenon DEF CaptureTypeOK

(* Time and the journal: no call takes part. *)
EnvironmentQuiet ==
    /\ \/ Tick /\ UNCHANGED <<entries, closed>>
       \/ (CloseJournal \/ OpenJournal) /\ UNCHANGED <<now, leases>>
    /\ UNCHANGED <<staged, reservations, snapshots, nextOp, handles, acked, call>>

(* Every step is one of these, or stutters. *)
LEMMA NextCases ==
    ASSUME [CaptureNext]_captureVars
    PROVE  \/ \E t \in Threads, s \in Snapshots, o \in Owners : BeginCapture(t, s, o)
           \/ \E t \in Threads, h \in handles, i \in Indexes, d \in Digests : StageChunk(t, h, i, d)
           \/ \E t \in Threads, h \in handles : CommitCapture(t, h) \/ AbortCapture(t, h)
           \/ \E t \in Threads : Step(t)
           \/ EnvironmentQuiet
           \/ UNCHANGED captureVars
BY Zenon DEF CaptureNext, Environment, EnvironmentQuiet

(* A call that starts on a handle in handles has a well-formed record. *)
LEMMA StartType ==
    ASSUME CaptureTypeOK, NEW h \in handles
    PROVE  /\ \A i \in Indexes, d \in Digests :
                  [pc |-> "reserve", h |-> h, idx |-> i, dig |-> d] \in StageCall
           /\ [pc |-> "journal", h |-> h] \in CommitCall
           /\ [pc |-> "forget", h |-> h] \in CommitCall
BY DEF CaptureTypeOK, StageCall, CommitCall, StagePCs, CommitPCs

(* Dropping the reservations of one operation leaves reservations. *)
LEMMA UnreservedType ==
    ASSUME CaptureTypeOK, NEW op
    PROVE  Unreserved(op) \in [Digests -> Ops \union {0}]
BY DEF CaptureTypeOK, Unreserved

(* An operation with nothing staged is well typed. *)
LEMMA NoChunksType == NoChunks \in ChunkMap
BY DEF NoChunks, ChunkMap

(* The calls that only begin keep the types. *)
LEMMA BeginType ==
    ASSUME CaptureTypeOK,
           \/ \E t \in Threads, s \in Snapshots, o \in Owners : BeginCapture(t, s, o)
           \/ \E t \in Threads, h \in handles, i \in Indexes, d \in Digests : StageChunk(t, h, i, d)
           \/ \E t \in Threads, h \in handles : CommitCapture(t, h) \/ AbortCapture(t, h)
    PROVE  CaptureTypeOK'
  <1>1. call' \in [Threads -> Call]
    <2>1. CASE \E t \in Threads, s \in Snapshots, o \in Owners : BeginCapture(t, s, o)
      BY <2>1, CallKinds DEF BeginCapture, CaptureTypeOK, LeaseTypeOK
    <2>2. CASE \E t \in Threads, h \in handles, i \in Indexes, d \in Digests : StageChunk(t, h, i, d)
      BY <2>2, CallKinds, StartType DEF StageChunk, CaptureTypeOK
    <2>3. CASE \E t \in Threads, h \in handles : CommitCapture(t, h) \/ AbortCapture(t, h)
      BY <2>3, CallKinds, StartType DEF CommitCapture, AbortCapture, CaptureTypeOK
    <2> QED BY <2>1, <2>2, <2>3
  <1>2. UNCHANGED <<now, leases, entries, closed, staged, reservations, snapshots,
                    nextOp, handles, acked>>
    BY Zenon DEF BeginCapture, StageChunk, CommitCapture, AbortCapture
  <1> QED BY <1>1, <1>2, Zenon DEF CaptureTypeOK, LeaseTypeOK

(* So do time, closing and opening the journal. *)
LEMMA QuietType ==
    ASSUME CaptureTypeOK, EnvironmentQuiet
    PROVE  CaptureTypeOK'
  <1>1. closed' \in BOOLEAN
    BY Zenon DEF CaptureTypeOK, EnvironmentQuiet, CloseJournal, OpenJournal
  <1>2. now' \in Nat /\ leases' = leases /\ entries' = entries
    BY DEF CaptureTypeOK, LeaseTypeOK, EnvironmentQuiet, CloseJournal, OpenJournal, Tick
  <1> QED
    BY <1>1, <1>2, Zenon DEF CaptureTypeOK, LeaseTypeOK, EnvironmentQuiet

(* Whatever a call does with a lease leaves a lease. *)
LEMMA ReleaseType ==
    ASSUME CaptureTypeOK, NEW r \in Resources,
           ReleaseLease(r) \/ UNCHANGED leases
    PROVE  leases' \in [Resources -> Lease]
BY ZenonT(60) DEF CaptureTypeOK, LeaseTypeOK, ReleaseLease, Lease

(* So does every step inside a call, one action at a time. *)
LEMMA StepType ==
    ASSUME CaptureTypeOK, NEW t \in Threads, Step(t)
    PROVE  CaptureTypeOK'
  <1> USE DEF StagePCs, CommitPCs
  <1> DEFINE c == call[t]
  <1>0. c \in Call
    BY DEF CaptureTypeOK
  <1>1. CASE Acquire(t)
    <2>1. c \in [pc: {"acquire"}, snap: Snapshots, owner: Owners, at: Nat]
      BY <1>0, <1>1, CallShape DEF Acquire, At
    <2>2. leases' \in [Resources -> Lease] /\ call' \in [Threads -> Call]
      <3>1. CASE UNCHANGED leases /\ Return(t)
        BY <3>1, CallKinds DEF Return, CaptureTypeOK, LeaseTypeOK
      <3>2. CASE /\ \E ttl \in TTLs : AcquireLease(c.snap, c.owner, c.at, ttl)
                 /\ call' = [call EXCEPT ![t] = [pc |-> "issue", snap |-> c.snap,
                        owner |-> c.owner, epoch |-> leases[c.snap].epoch + 1]]
        <4>1. PICK ttl \in TTLs : AcquireLease(c.snap, c.owner, c.at, ttl)
          BY <3>2
        <4>2. c.snap \in Resources /\ c.owner \in Owners /\ c.at + ttl \in Nat
              /\ leases[c.snap].epoch + 1 \in Nat
          BY <2>1, <4>1, LeaseAssumption DEF CaptureTypeOK, LeaseTypeOK, Lease, Snapshots
        <4>3. leases' \in [Resources -> Lease]
          BY <4>1, <4>2 DEF AcquireLease, CaptureTypeOK, LeaseTypeOK, Lease
        <4>4. call' \in [Threads -> Call]
          BY <3>2, <4>2, CallKinds DEF CaptureTypeOK, Snapshots
        <4> QED BY <4>3, <4>4
      <3> QED BY <1>1, <3>1, <3>2, Zenon DEF Acquire
    <2> QED BY <1>1, <2>2, Zenon DEF Acquire, CaptureTypeOK, LeaseTypeOK
  <1>2. CASE IssueHandle(t)
    <2>1. c \in [pc: {"issue"}, snap: Snapshots, owner: Owners, epoch: Nat]
      BY <1>0, <1>2, CallShape DEF IssueHandle, At
    <2>2. nextOp' \in 0..MaxOps /\ nextOp + 1 \in Ops
      BY <1>2, CaptureAssumption DEF IssueHandle, CaptureTypeOK, Ops
    <2>3. handles' \subseteq Handle
      BY <1>2, <2>1, <2>2 DEF IssueHandle, CaptureTypeOK, Handle
    <2>4. call' \in [Threads -> Call]
      BY <1>2, CallKinds DEF IssueHandle, Return, CaptureTypeOK
    <2> QED BY <1>2, <2>2, <2>3, <2>4, Zenon DEF IssueHandle, CaptureTypeOK, LeaseTypeOK
  <1>3. CASE ReserveDigest(t) \/ ReleaseDigest(t)
    <2>1. c \in StageCall /\ c.h.op \in Ops /\ c.dig \in Digests
      BY <1>0, <1>3, CallShape, CallHandle DEF ReserveDigest, ReleaseDigest, At, Handle
    <2>2. call' \in [Threads -> Call]
      BY <1>3, <2>1, CallKinds, GotoType DEF ReserveDigest, ReleaseDigest, Return, Goto, CaptureTypeOK
    <2>3. reservations' \in [Digests -> Ops \union {0}]
      BY <1>3, <2>1 DEF ReserveDigest, ReleaseDigest, CaptureTypeOK
    <2> QED
      BY <1>3, <2>2, <2>3, Zenon DEF ReserveDigest, ReleaseDigest, CaptureTypeOK, LeaseTypeOK
  <1>4. CASE StageInCatalog(t)
    <2>1. c \in StageCall /\ c.h.op \in Ops /\ c.dig \in Digests /\ c.idx \in Indexes
      BY <1>0, <1>4, CallShape, CallHandle DEF StageInCatalog, At, Handle
    <2>2. call' \in [Threads -> Call]
      BY <1>4, <2>1, CallKinds, GotoType DEF StageInCatalog, Return, Goto, CaptureTypeOK
    <2>3. staged' \in [Ops -> ChunkMap]
      <3>1. staged \in [Ops -> ChunkMap]
        BY DEF CaptureTypeOK
      <3>2. [staged[c.h.op] EXCEPT ![c.idx] = c.dig] \in ChunkMap
        BY <2>1, <3>1 DEF ChunkMap
      <3>3. staged' = staged
            \/ staged' = [staged EXCEPT ![c.h.op] = [staged[c.h.op] EXCEPT ![c.idx] = c.dig]]
        BY <1>4, <2>1, <3>1 DEF StageInCatalog
      <3> QED BY <2>1, <3>1, <3>2, <3>3
    <2> QED BY <1>4, <2>2, <2>3, Zenon DEF StageInCatalog, CaptureTypeOK, LeaseTypeOK
  <1>5. CASE JournalPublish(t)
    <2>1. c \in CommitCall /\ c.h.op \in Ops /\ c.h.snap \in Snapshots
      BY <1>0, <1>5, CallShape, CallHandle DEF JournalPublish, At, Handle
    <2>2. call' \in [Threads -> Call]
      BY <1>5, <2>1, CallKinds, GotoType DEF JournalPublish, Goto, CaptureTypeOK
    <2>3. entries' \in Seq(LogEntry)
      <3>1. PublishEntry(c.h) \in LogEntry
        BY <2>1 DEF PublishEntry, LogEntry
      <3>2. entries' = entries \/ entries' = Append(entries, PublishEntry(c.h))
        BY <1>5 DEF JournalPublish, AppendEntry
      <3> QED BY <3>1, <3>2 DEF CaptureTypeOK
    <2>4. closed' = closed
      BY <1>5, Zenon DEF JournalPublish, AppendEntry
    <2> QED
      BY <1>5, <2>2, <2>3, <2>4, Zenon DEF JournalPublish, CaptureTypeOK, LeaseTypeOK
  <1>6. CASE CommitSnapshot(t) \/ ForgetOperation(t)
    <2>1. c \in CommitCall /\ c.h.op \in Ops /\ c.h.snap \in Snapshots
      BY <1>0, <1>6, CallShape, CallHandle DEF CommitSnapshot, ForgetOperation, At, Handle
    <2>2. call' \in [Threads -> Call]
      BY <1>6, <2>1, CallKinds, GotoType DEF CommitSnapshot, ForgetOperation, Goto, CaptureTypeOK
    <2>3. staged' \in [Ops -> ChunkMap]
      BY <1>6, NoChunksType DEF CommitSnapshot, ForgetOperation, CaptureTypeOK
    <2>4. reservations' \in [Digests -> Ops \union {0}]
      BY <1>6, UnreservedType DEF CommitSnapshot, ForgetOperation, CaptureTypeOK
    <2>5. snapshots' \in [Snapshots -> [op: Ops \union {0}, chunks: ChunkMap]]
      BY <1>6, <2>1 DEF CommitSnapshot, ForgetOperation, CaptureTypeOK
    <2> QED
      BY <1>6, <2>2, <2>3, <2>4, <2>5, Zenon
      DEF CommitSnapshot, ForgetOperation, CaptureTypeOK, LeaseTypeOK
  <1>7. CASE ReleaseCapture(t) \/ DropLease(t)
    <2>1. c \in CommitCall /\ c.h.op \in Ops /\ c.h.snap \in Resources
      BY <1>0, <1>7, CallShape, CallHandle DEF ReleaseCapture, DropLease, At, Handle, Snapshots
    <2>2. call' \in [Threads -> Call]
      BY <1>7, CallKinds DEF ReleaseCapture, DropLease, Return, CaptureTypeOK
    <2>3. leases' \in [Resources -> Lease]
      BY <1>7, <2>1, ReleaseType DEF ReleaseCapture, DropLease, ReleaseIfOwned
    <2>4. acked' \subseteq Ops
      BY <1>7, <2>1 DEF ReleaseCapture, DropLease, CaptureTypeOK
    <2> QED
      BY <1>7, <2>2, <2>3, <2>4, Zenon
      DEF ReleaseCapture, DropLease, CaptureTypeOK, LeaseTypeOK
  <1> QED BY <1>1, <1>2, <1>3, <1>4, <1>5, <1>6, <1>7, Zenon DEF Step

(* Hence every step of the service keeps the types. *)
LEMMA NextType ==
    ASSUME CaptureTypeOK, [CaptureNext]_captureVars
    PROVE  CaptureTypeOK'
  <1>1. CASE UNCHANGED captureVars
    BY <1>1, Zenon DEF captureVars, CaptureTypeOK, LeaseTypeOK
  <1> QED BY <1>1, NextCases, BeginType, StepType, QuietType, Zenon

(* Every step of every goroutine, the clock and the operator keeps the
   state of the capture workflow well typed. *)
THEOREM CaptureTypeCorrect == CaptureSpec => []CaptureTypeOK
  <1> QED BY InitType, NextType, PTL DEF CaptureSpec

------------------------------------------------------------------------------
(* Fencing.                                                                 *)

(* A step that issues nothing and takes no lease cannot disturb it. *)
LEMMA EpochsFrame ==
    ASSUME EpochsAreUnique, CaptureTypeOK,
           handles' = handles, nextOp' = nextOp,
           \A r \in Resources : leases'[r].epoch = leases[r].epoch,
           \A t \in Threads : call'[t].pc = "issue" => call'[t] = call[t]
    PROVE  EpochsAreUnique'
  <1>1. \A h \in handles : h.snap \in Resources
    BY DEF CaptureTypeOK, Handle, Snapshots
  <1>2. \A t \in Threads : call[t].pc = "issue" => call[t].snap \in Resources
    BY CallShape DEF CaptureTypeOK, Snapshots
  <1> QED BY <1>1, <1>2 DEF EpochsAreUnique, At

(* Acquire makes an epoch nobody has and IssueHandle hands it over; no other
   step disturbs the uniqueness of epochs. *)
LEMMA EpochsStep ==
    ASSUME EpochsAreUnique, CaptureTypeOK, [CaptureNext]_captureVars
    PROVE  EpochsAreUnique'
  <1>1. CASE \/ \E t \in Threads, s \in Snapshots, o \in Owners : BeginCapture(t, s, o)
             \/ \E t \in Threads, h \in handles, i \in Indexes, d \in Digests : StageChunk(t, h, i, d)
             \/ \E t \in Threads, h \in handles : CommitCapture(t, h) \/ AbortCapture(t, h)
    <2>1. \A t \in Threads : call'[t].pc = "issue" => call'[t] = call[t]
      <3>0. call \in [Threads -> Call]
        BY DEF CaptureTypeOK
      <3>1. PICK u \in Threads : \E r : r.pc # "issue" /\ call' = [call EXCEPT ![u] = r]
        <4>1. CASE \E t \in Threads, s \in Snapshots, o \in Owners : BeginCapture(t, s, o)
          BY <4>1 DEF BeginCapture
        <4>2. CASE \E t \in Threads, h \in handles, i \in Indexes, d \in Digests : StageChunk(t, h, i, d)
          BY <4>2 DEF StageChunk
        <4>3. CASE \E t \in Threads, h \in handles : CommitCapture(t, h) \/ AbortCapture(t, h)
          BY <4>3 DEF CommitCapture, AbortCapture
        <4> QED BY <1>1, <4>1, <4>2, <4>3
      <3> QED BY <3>0, <3>1
    <2>2. handles' = handles /\ nextOp' = nextOp /\ leases' = leases
      BY <1>1, Zenon DEF BeginCapture, StageChunk, CommitCapture, AbortCapture
    <2> QED BY <2>1, <2>2, EpochsFrame
  <1>2. CASE EnvironmentQuiet \/ UNCHANGED captureVars
    <2>1. handles' = handles /\ nextOp' = nextOp /\ leases' = leases /\ call' = call
      BY <1>2, Zenon DEF EnvironmentQuiet, captureVars, Tick
    <2> QED BY <2>1, EpochsFrame
  <1>3. ASSUME NEW t \in Threads, Step(t) PROVE EpochsAreUnique'
    <2> DEFINE c == call[t]
    <2>0. c \in Call /\ call \in [Threads -> Call] /\ leases \in [Resources -> Lease]
      BY DEF CaptureTypeOK, LeaseTypeOK
    <2>1. CASE Acquire(t)
      <3>1. c.snap \in Resources /\ c.owner \in Owners
        BY <2>0, <2>1, CallShape DEF Acquire, At, Snapshots
      <3>2. CASE UNCHANGED leases /\ Return(t)
        <4>1. \A u \in Threads : call'[u].pc = "issue" => call'[u] = call[u]
          BY <2>0, <3>2 DEF Return, Idle
        <4>2. handles' = handles /\ nextOp' = nextOp
          BY <2>1 DEF Acquire
        <4> QED BY <3>2, <4>1, <4>2, EpochsFrame
      <3>3. CASE /\ \E ttl \in TTLs : AcquireLease(c.snap, c.owner, c.at, ttl)
                 /\ call' = [call EXCEPT ![t] = [pc |-> "issue", snap |-> c.snap,
                        owner |-> c.owner, epoch |-> leases[c.snap].epoch + 1]]
        <4> DEFINE e == leases[c.snap].epoch
        <4>1. /\ \A r \in Resources \ {c.snap} : leases'[r].epoch = leases[r].epoch
              /\ leases'[c.snap].epoch = e + 1
          BY <2>0, <3>1, <3>3 DEF AcquireLease
        <4>2. /\ \A u \in Threads \ {t} : call'[u] = call[u]
              /\ call'[t].pc = "issue" /\ call'[t].snap = c.snap /\ call'[t].epoch = e + 1
          BY <2>0, <3>3
        <4>3. handles' = handles /\ nextOp' = nextOp
          BY <2>1 DEF Acquire
        <4>4. /\ \A h \in handles : h.snap \in Resources /\ h.epoch \in Nat
              /\ \A r \in Resources : leases[r].epoch \in Nat
              /\ \A u \in Threads : call[u].pc = "issue" =>
                    call[u].snap \in Resources /\ call[u].epoch \in Nat
          BY <2>0, CallShape DEF CaptureTypeOK, Handle, Snapshots, Lease
        <4>5. /\ \A h \in handles : h.op <= nextOp /\ h.epoch <= leases'[h.snap].epoch
              /\ \A h \in handles : h.snap = c.snap => h.epoch <= e
          BY <3>1, <4>1, <4>4 DEF EpochsAreUnique
        <4>6. /\ \A u \in Threads \ {t} : call[u].pc = "issue" =>
                    call[u].epoch <= leases'[call[u].snap].epoch
              /\ \A u \in Threads \ {t} : call[u].pc = "issue" /\ call[u].snap = c.snap =>
                    call[u].epoch <= e
          BY <3>1, <4>1, <4>4 DEF EpochsAreUnique, At
        <4> HIDE DEF e
        <4>7. e \in Nat
          BY <3>1, <4>4 DEF e
        <4> QED
          BY <4>1, <4>2, <4>3, <4>4, <4>5, <4>6, <4>7 DEF EpochsAreUnique, At
      <3> QED BY <2>1, <3>2, <3>3, Zenon DEF Acquire
    <2>2. CASE IssueHandle(t)
      <3> DEFINE n == [op |-> nextOp + 1, snap |-> c.snap, owner |-> c.owner, epoch |-> c.epoch]
      <3>1. leases' = leases /\ handles' = handles \union {n} /\ nextOp' = nextOp + 1
        BY <2>2 DEF IssueHandle
      <3>2. nextOp \in Nat /\ \A h \in handles : h.op \in Nat /\ h.snap \in Resources /\ h.epoch \in Nat
        BY CaptureAssumption DEF CaptureTypeOK, Handle, Ops, Snapshots
      <3>3. \A u \in Threads : call'[u].pc = "issue" => u # t /\ call'[u] = call[u]
        BY <2>0, <2>2 DEF IssueHandle, Return, Idle
      <3>4. c.pc = "issue"
        BY <2>2 DEF IssueHandle, At
      <3>5. /\ c.epoch <= leases[c.snap].epoch
            /\ \A h \in handles : ~(h.snap = c.snap /\ h.epoch = c.epoch)
            /\ \A u \in Threads \ {t} : call[u].pc = "issue" =>
                  ~(call[u].snap = c.snap /\ call[u].epoch = c.epoch)
        BY <3>4 DEF EpochsAreUnique, At
      <3>6. \A h \in handles' : h.op <= nextOp' /\ h.epoch <= leases'[h.snap].epoch
        BY <3>1, <3>2, <3>5 DEF EpochsAreUnique
      <3>7. \A h \in handles : h # n /\ h.op # n.op /\ ~(h.snap = n.snap /\ h.epoch = n.epoch)
        BY <3>2, <3>5 DEF EpochsAreUnique
      <3>8. \A h1, h2 \in handles' :
              h1.op = h2.op \/ (h1.snap = h2.snap /\ h1.epoch = h2.epoch) => h1 = h2
        BY <3>1, <3>7 DEF EpochsAreUnique
      <3>9. ASSUME NEW u \in Threads, call'[u].pc = "issue"
            PROVE  /\ call'[u].epoch <= leases'[call'[u].snap].epoch
                   /\ \A h \in handles' : ~(h.snap = call'[u].snap /\ h.epoch = call'[u].epoch)
                   /\ \A v \in Threads \ {u} :
                        ~(call'[v].pc = "issue" /\ call'[v].snap = call'[u].snap
                            /\ call'[v].epoch = call'[u].epoch)
        <4>1. u # t /\ call'[u] = call[u] /\ call[u].pc = "issue"
          BY <3>3, <3>9
        <4>2. ~(n.snap = call[u].snap /\ n.epoch = call[u].epoch)
          BY <3>5, <4>1
        <4> QED BY <3>1, <3>3, <4>1, <4>2 DEF EpochsAreUnique, At
      <3> QED BY <3>6, <3>8, <3>9 DEF EpochsAreUnique, At
    <2>3. CASE ~Acquire(t) /\ ~IssueHandle(t)
      <3>1. handles' = handles /\ nextOp' = nextOp
        BY <1>3, <2>3, Zenon DEF Step, ReserveDigest, StageInCatalog, ReleaseDigest, JournalPublish,
              CommitSnapshot, ReleaseCapture, ForgetOperation, DropLease
      <3>2. \A u \in Threads : call'[u].pc = "issue" => call'[u] = call[u]
        <4>1. \/ Return(t)
              \/ \E pc \in StagePCs \union CommitPCs : Goto(t, pc)
          BY <1>3, <2>3 DEF Step, ReserveDigest, StageInCatalog, ReleaseDigest, JournalPublish,
              CommitSnapshot, ReleaseCapture, ForgetOperation, DropLease, StagePCs, CommitPCs
        <4>2. CASE Return(t)
          BY <2>0, <4>2 DEF Return, Idle
        <4>3. ASSUME NEW pc \in StagePCs \union CommitPCs, Goto(t, pc)
              PROVE  \A u \in Threads : call'[u].pc = "issue" => call'[u] = call[u]
          <5>1. \A u \in Threads \ {t} : call'[u] = call[u]
            BY <2>0, <4>3 DEF Goto
          <5>2. "pc" \in DOMAIN c
            BY <2>0 DEF Call, Idle, StageCall, CommitCall
          <5>3. call'[t].pc # "issue"
            BY <2>0, <4>3, <5>2 DEF Goto, StagePCs, CommitPCs
          <5> QED BY <5>1, <5>3
        <4> QED BY <4>1, <4>2, <4>3
      <3>3. \A r \in Resources : leases'[r].epoch = leases[r].epoch
        <4>1. leases' = leases \/ \E r \in Resources : ReleaseLease(r)
          <5>1. CASE ReleaseCapture(t) \/ DropLease(t)
            BY <2>0, <5>1, CallShape, CallHandle
            DEF ReleaseCapture, DropLease, ReleaseIfOwned, At, Handle, Snapshots, CommitPCs
          <5>2. CASE ~(ReleaseCapture(t) \/ DropLease(t))
            BY <1>3, <2>3, <5>2, Zenon DEF Step, ReserveDigest, StageInCatalog, ReleaseDigest,
              JournalPublish, CommitSnapshot, ForgetOperation
          <5> QED BY <5>1, <5>2
        <4> QED BY <2>0, <4>1 DEF ReleaseLease, Lease
      <3> QED BY <3>1, <3>2, <3>3, EpochsFrame
    <2> QED BY <2>1, <2>2, <2>3
  <1> QED BY <1>1, <1>2, <1>3, NextCases, Zenon

(* At the start there is no handle and no epoch in use. *)
LEMMA EpochsInit == CaptureInit => EpochsAreUnique
BY DEF CaptureInit, EpochsAreUnique, At, Idle

(* A handle passes Validate only under the newest epoch, which is its own. *)
LEMMA FencedByEpoch == EpochsAreUnique => SingleValidHandle
BY DEF EpochsAreUnique, SingleValidHandle, HandleValid, Valid

(* Of all handles ever issued for a snapshot, through any number of
   expiries, releases and take-overs, Validate accepts at most one. *)
THEOREM LeasesFence == CaptureSpec => []SingleValidHandle
  <1>1. CaptureInit => CaptureTypeOK /\ EpochsAreUnique
    BY InitType, EpochsInit
  <1>2. CaptureTypeOK /\ EpochsAreUnique /\ [CaptureNext]_captureVars
            => (CaptureTypeOK /\ EpochsAreUnique)'
    BY NextType, EpochsStep
  <1> QED BY <1>1, <1>2, FencedByEpoch, PTL DEF CaptureSpec

------------------------------------------------------------------------------
(* The journal is ahead of the catalog, and an acknowledgement is kept.     *)

(* Handles, journal entries and published snapshots are never taken back. *)
LEMMA NothingIsTakenBack ==
    ASSUME CaptureTypeOK, [CaptureNext]_captureVars
    PROVE  /\ handles \subseteq handles'
           /\ entries' = entries \/ \E e : entries' = Append(entries, e)
           /\ \A s \in Snapshots : snapshots[s].op # 0 => snapshots'[s] = snapshots[s]
  <1>1. handles \subseteq handles'
    BY NextCases DEF BeginCapture, StageChunk, CommitCapture, AbortCapture, EnvironmentQuiet,
        captureVars, Step, Acquire, IssueHandle, ReserveDigest, StageInCatalog, ReleaseDigest,
        JournalPublish, CommitSnapshot, ReleaseCapture, ForgetOperation, DropLease
  <1>2. entries' = entries \/ \E e : entries' = Append(entries, e)
    BY NextCases, Zenon DEF BeginCapture, StageChunk, CommitCapture, AbortCapture, EnvironmentQuiet,
        CloseJournal, OpenJournal, captureVars, Step, Acquire, IssueHandle, ReserveDigest,
        StageInCatalog, ReleaseDigest, JournalPublish, AppendEntry, CommitSnapshot,
        ReleaseCapture, ForgetOperation, DropLease
  <1>3. snapshots' = snapshots
        \/ \E s \in Snapshots : \E r : snapshots[s].op = 0 /\ snapshots' = [snapshots EXCEPT ![s] = r]
    <2>1. ASSUME NEW t \in Threads, CommitSnapshot(t)
          PROVE  snapshots' = snapshots
                 \/ \E s \in Snapshots : \E r : snapshots[s].op = 0 /\ snapshots' = [snapshots EXCEPT ![s] = r]
      <3>1. call[t].h.snap \in Snapshots
        BY <2>1, CallShape, CallHandle DEF CaptureTypeOK, CommitSnapshot, At, CommitPCs, Handle
      <3> QED BY <2>1, <3>1 DEF CommitSnapshot
    <2>2. (\E t \in Threads : CommitSnapshot(t)) \/ snapshots' = snapshots
      BY NextCases, Zenon DEF BeginCapture, StageChunk, CommitCapture, AbortCapture, EnvironmentQuiet,
        captureVars, Step, Acquire, IssueHandle, ReserveDigest, StageInCatalog, ReleaseDigest,
        JournalPublish, ReleaseCapture, ForgetOperation, DropLease
    <2> QED BY <2>1, <2>2
  <1>4. \A s \in Snapshots : snapshots[s].op # 0 => snapshots'[s] = snapshots[s]
    BY <1>3 DEF CaptureTypeOK
  <1> QED BY <1>1, <1>2, <1>4

(* What is in the journal stays in the journal. *)
LEMMA LoggedStable ==
    ASSUME CaptureTypeOK, NEW kind, NEW snap, NEW op, Logged(kind, snap, op),
           entries' = entries \/ \E e : entries' = Append(entries, e)
    PROVE  Logged(kind, snap, op)'
  <1>1. PICK i \in DOMAIN entries :
            entries[i].kind = kind /\ entries[i].snap = snap /\ entries[i].op = op
    BY DEF Logged
  <1>2. i \in DOMAIN entries' /\ entries'[i] = entries[i]
    BY <1>1 DEF CaptureTypeOK
  <1> QED BY <1>1, <1>2 DEF Logged

(* The new record of the goroutine that moves knows what it must. *)
LEMMA MoverKnows ==
    ASSUME CaptureInv, [CaptureNext]_captureVars,
           NEW t \in Threads, call'[t] # call[t]
    PROVE  /\ call'[t].pc \in StagePCs \union CommitPCs => call'[t].h \in handles
           /\ call'[t].pc = "commit" => Logged("publish", call[t].h.snap, call[t].h.op)'
           /\ call'[t].pc = "release" => snapshots'[call'[t].h.snap].op = call'[t].h.op
  <1> USE DEF StagePCs, CommitPCs
  <1>0. call \in [Threads -> Call] /\ call[t] \in Call
    BY DEF CaptureInv, CaptureTypeOK
  <1>1. ASSUME NEW u \in Threads, NEW s \in Snapshots, NEW o \in Owners, BeginCapture(u, s, o)
        PROVE  call'[t].pc = "acquire"
    BY <1>0, <1>1 DEF BeginCapture
  <1>2. ASSUME NEW u \in Threads, NEW h \in handles, NEW i \in Indexes, NEW d \in Digests,
               StageChunk(u, h, i, d)
        PROVE  call'[t].pc = "reserve" /\ call'[t].h \in handles
    BY <1>0, <1>2 DEF StageChunk
  <1>3. ASSUME NEW u \in Threads, NEW h \in handles, CommitCapture(u, h) \/ AbortCapture(u, h)
        PROVE  call'[t].pc \in {"journal", "forget"} /\ call'[t].h \in handles
    BY <1>0, <1>3 DEF CommitCapture, AbortCapture
  <1>4. ASSUME NEW u \in Threads, Step(u), u # t PROVE FALSE
    BY <1>0, <1>4 DEF Step, Acquire, IssueHandle, ReserveDigest, StageInCatalog, ReleaseDigest,
        JournalPublish, CommitSnapshot, ReleaseCapture, ForgetOperation, DropLease, Return, Goto
  <1>5. CASE Step(t)
    <2>1. CASE Return(t) \/ Acquire(t)
      BY <1>0, <2>1 DEF Return, Acquire, Idle
    <2>2. CASE ReserveDigest(t) \/ StageInCatalog(t)
      <3>1. call[t] \in StageCall /\ call[t].h \in handles
        BY <1>0, <2>2, CallShape DEF ReserveDigest, StageInCatalog, At, CaptureInv, CallsKnow
      <3>2. CASE \E pc \in StagePCs : Goto(t, pc)
        BY <1>0, <3>1, <3>2 DEF Goto, StageCall
      <3> QED BY <2>1, <2>2, <3>2 DEF ReserveDigest, StageInCatalog
    <2>3. CASE JournalPublish(t)
      <3>1. call[t] \in CommitCall /\ call[t].h \in handles /\ call[t].h \in Handle
        BY <1>0, <2>3, CallShape, CallHandle DEF JournalPublish, At, CaptureInv, CallsKnow
      <3>2. CASE Goto(t, "forget")
        BY <1>0, <3>1, <3>2 DEF Goto, CommitCall
      <3>3. CASE Goto(t, "commit") /\ AppendEntry(PublishEntry(call[t].h))
        <4>1. call'[t].pc = "commit" /\ call'[t].h = call[t].h
          BY <1>0, <3>1, <3>3 DEF Goto, CommitCall
        <4>2. Len(entries) + 1 \in DOMAIN entries'
              /\ entries'[Len(entries) + 1] = PublishEntry(call[t].h)
          BY <3>3 DEF AppendEntry, CaptureInv, CaptureTypeOK
        <4>3. Logged("publish", call[t].h.snap, call[t].h.op)'
          BY <1>0, <3>1, <4>1, <4>2 DEF Logged, PublishEntry
        <4> QED BY <3>1, <4>1, <4>3
      <3> QED BY <2>3, <3>2, <3>3, Zenon DEF JournalPublish
    <2>4. CASE CommitSnapshot(t)
      <3>1. call[t] \in CommitCall /\ call[t].h \in handles /\ call[t].h.snap \in Snapshots
        BY <1>0, <2>4, CallShape, CallHandle DEF CommitSnapshot, At, CaptureInv, CallsKnow, Handle
      <3>2. CASE Goto(t, "forget")
        BY <1>0, <3>1, <3>2 DEF Goto, CommitCall
      <3>3. CASE Goto(t, "release") /\ snapshots' = [snapshots EXCEPT ![call[t].h.snap] =
                    [op |-> call[t].h.op, chunks |-> staged[call[t].h.op]]]
        BY <1>0, <3>1, <3>3 DEF Goto, CommitCall, CaptureInv, CaptureTypeOK
      <3> QED BY <2>4, <3>2, <3>3, Zenon DEF CommitSnapshot
    <2>5. CASE ForgetOperation(t)
      <3>1. call[t] \in CommitCall /\ call[t].h \in handles
        BY <1>0, <2>5, CallShape DEF ForgetOperation, At, CaptureInv, CallsKnow
      <3> QED BY <1>0, <2>5, <3>1 DEF ForgetOperation, Goto, CommitCall
    <2> QED
      BY <1>5, <2>1, <2>2, <2>3, <2>4, <2>5, Zenon
      DEF Step, IssueHandle, ReleaseDigest, ReleaseCapture, DropLease
  <1>6. CASE EnvironmentQuiet \/ UNCHANGED captureVars
    BY <1>6, Zenon DEF EnvironmentQuiet, captureVars
  <1>7. call'[t].pc = "acquire" => call'[t].pc \notin StagePCs \union CommitPCs
    OBVIOUS
  <1>8. call'[t].pc \in {"journal", "forget", "reserve"} => call'[t].pc \notin {"commit", "release"}
    OBVIOUS
  <1> QED BY <1>1, <1>2, <1>3, <1>4, <1>5, <1>6, <1>7, <1>8, NextCases

(* What calls in progress rely on survives the steps of all goroutines. *)
LEMMA CallsKnowStep ==
    ASSUME CaptureInv, [CaptureNext]_captureVars
    PROVE  CallsKnow'
  <1> SUFFICES ASSUME NEW t \in Threads
               PROVE  /\ call'[t].pc \in StagePCs \union CommitPCs => call'[t].h \in handles'
                      /\ call'[t].pc = "commit" => Logged("publish", call[t].h.snap, call[t].h.op)'
                      /\ call'[t].pc = "release" => snapshots'[call'[t].h.snap].op = call'[t].h.op
    BY DEF CallsKnow, At
  <1>1. CaptureTypeOK /\ handles \subseteq handles'
    BY NothingIsTakenBack DEF CaptureInv
  <1>2. CASE call'[t] # call[t]
    BY <1>1, <1>2, MoverKnows
  <1>3. CASE call'[t] = call[t]
    <2>1. call'[t].pc = "commit" => Logged("publish", call[t].h.snap, call[t].h.op)'
      BY <1>1, <1>3, LoggedStable, NothingIsTakenBack DEF CaptureInv, CallsKnow, At
    <2>2. call'[t].pc = "release" => snapshots'[call[t].h.snap].op = call[t].h.op
      <3> SUFFICES ASSUME call'[t].pc = "release"
                   PROVE  snapshots'[call[t].h.snap].op = call[t].h.op
        OBVIOUS
      <3>1. call[t] \in CommitCall
        BY <1>1, <1>3, CallShape DEF CaptureTypeOK, CommitPCs
      <3>2. call[t].h.snap \in Snapshots /\ call[t].h.op # 0
        BY <3>1, CallHandle DEF Handle, Ops
      <3> QED BY <1>1, <1>3, <3>2, NothingIsTakenBack DEF CaptureInv, CallsKnow, At
    <2> QED BY <1>1, <1>3, <2>1, <2>2 DEF CaptureInv, CallsKnow
  <1> QED BY <1>2, <1>3

(* Only CommitSnapshot publishes, and what it publishes has been journaled. *)
LEMMA JournaledStep ==
    ASSUME CaptureInv, [CaptureNext]_captureVars
    PROVE  PublishedIsJournaled'
  <1> SUFFICES ASSUME NEW s \in Snapshots, snapshots'[s].op # 0
               PROVE  \E i \in DOMAIN entries' :
                        /\ entries'[i].kind = "publish"
                        /\ entries'[i].snap = s
                        /\ entries'[i].op = snapshots'[s].op
    BY DEF PublishedIsJournaled, Logged
  <1>0. CaptureTypeOK
    BY DEF CaptureInv
  <1>1. ASSUME NEW op, Logged("publish", s, op), snapshots'[s].op = op
        PROVE  \E i \in DOMAIN entries' :
                        /\ entries'[i].kind = "publish"
                        /\ entries'[i].snap = s
                        /\ entries'[i].op = snapshots'[s].op
    BY <1>0, <1>1, LoggedStable, NothingIsTakenBack DEF Logged
  <1>2. CASE snapshots'[s] = snapshots[s]
    BY <1>1, <1>2 DEF CaptureInv, PublishedIsJournaled
  <1>3. ASSUME NEW t \in Threads, CommitSnapshot(t), snapshots'[s] # snapshots[s]
        PROVE  Logged("publish", s, snapshots'[s].op)
    <2>1. call[t] \in CommitCall /\ call[t].pc = "commit" /\ call[t].h.snap \in Snapshots
      BY <1>0, <1>3, CallShape, CallHandle
      DEF CommitSnapshot, At, CaptureTypeOK, Handle, CommitPCs
    <2>2. s = call[t].h.snap /\ snapshots'[s].op = call[t].h.op
      BY <1>0, <1>3, <2>1 DEF CommitSnapshot, CaptureTypeOK
    <2>3. Logged("publish", call[t].h.snap, call[t].h.op)
      BY <2>1 DEF CaptureInv, CallsKnow, At
    <2> QED BY <2>2, <2>3
  <1>4. (\E t \in Threads : CommitSnapshot(t)) \/ snapshots' = snapshots
    BY NextCases, Zenon DEF BeginCapture, StageChunk, CommitCapture, AbortCapture, EnvironmentQuiet,
      captureVars, Step, Acquire, IssueHandle, ReserveDigest, StageInCatalog, ReleaseDigest,
      JournalPublish, ReleaseCapture, ForgetOperation, DropLease
  <1> QED BY <1>1, <1>2, <1>3, <1>4

(* Only ReleaseCapture acknowledges, after its own snapshot was published. *)
LEMMA AckedStep ==
    ASSUME CaptureInv, [CaptureNext]_captureVars
    PROVE  AckedIsDurable'
  <1> SUFFICES ASSUME NEW op \in acked'
               PROVE  \E h \in handles' : h.op = op /\ snapshots'[h.snap].op = op
    BY DEF AckedIsDurable
  <1>0. CaptureTypeOK /\ handles \subseteq Handle
    BY DEF CaptureInv, CaptureTypeOK
  <1>1. \E h \in handles : h.op = op /\ snapshots[h.snap].op = op
    <2>1. CASE op \in acked
      BY <2>1 DEF CaptureInv, AckedIsDurable
    <2>2. ASSUME NEW t \in Threads, ReleaseCapture(t), op \notin acked
          PROVE  \E h \in handles : h.op = op /\ snapshots[h.snap].op = op
      <3>1. call[t].pc = "release" /\ op = call[t].h.op
        BY <2>2 DEF ReleaseCapture, At
      <3> QED BY <3>1 DEF CaptureInv, CallsKnow, At, CommitPCs
    <2>3. (\E t \in Threads : ReleaseCapture(t)) \/ acked' = acked
      BY NextCases, Zenon DEF BeginCapture, StageChunk, CommitCapture, AbortCapture, EnvironmentQuiet,
        captureVars, Step, Acquire, IssueHandle, ReserveDigest, StageInCatalog, ReleaseDigest,
        JournalPublish, CommitSnapshot, ForgetOperation, DropLease
    <2> QED BY <2>1, <2>2, <2>3
  <1>2. PICK h \in handles : h.op = op /\ snapshots[h.snap].op = op
    BY <1>1
  <1>3. h.snap \in Snapshots /\ op # 0
    BY <1>0, <1>2 DEF Handle, Ops
  <1>4. h \in handles' /\ snapshots'[h.snap] = snapshots[h.snap]
    BY <1>0, <1>2, <1>3, NothingIsTakenBack
  <1> QED BY <1>2, <1>4

(* The inductive invariant holds of a new service. *)
LEMMA InvInit == CaptureInit => CaptureInv
  <1> SUFFICES ASSUME CaptureInit PROVE CaptureInv OBVIOUS
  <1>1. CallsKnow
    BY DEF CaptureInit, CallsKnow, At, Idle, StagePCs, CommitPCs
  <1>2. PublishedIsJournaled
    BY DEF CaptureInit, PublishedIsJournaled, NotPublished
  <1>3. AckedIsDurable
    BY DEF CaptureInit, AckedIsDurable
  <1> QED BY <1>1, <1>2, <1>3, InitType, EpochsInit DEF CaptureInv

(* Every step keeps the inductive invariant. *)
LEMMA InvNext == CaptureInv /\ [CaptureNext]_captureVars => CaptureInv'
BY NextType, EpochsStep, CallsKnowStep, JournaledStep, AckedStep DEF CaptureInv

(* The inductive invariant of the capture workflow: types, unique epochs, what
   calls rely on, and the two promises that rest on them. *)
THEOREM CaptureInvariant == CaptureSpec => []CaptureInv
  <1> QED BY InvInit, InvNext, PTL DEF CaptureSpec

(* No interleaving of captures, aborts, expiries and journal closures shows
   a snapshot in the catalog that the journal does not hold. *)
THEOREM JournalIsAhead == CaptureSpec => []PublishedIsJournaled
  <1>1. CaptureInv => PublishedIsJournaled
    BY DEF CaptureInv
  <1> QED BY <1>1, CaptureInvariant, PTL

(* A CommitCapture that returned success stays published by its operation. *)
THEOREM AcknowledgedIsKept == CaptureSpec => []AckedIsDurable
  <1>1. CaptureInv => AckedIsDurable
    BY DEF CaptureInv
  <1> QED BY <1>1, CaptureInvariant, PTL

------------------------------------------------------------------------------
(* Capture implements Publication.                                          *)

(* A new service maps to an initial state of Publication. *)
LEMMA PublicationInit == CaptureInit => Pub!PubInit
BY DEF CaptureInit, JournalInit, NotPublished, NoChunks, Pub!PubInit, Pub!Empty

(* A step that leaves staging, journal and catalog alone is a stutter. *)
LEMMA PublicationStutter ==
    ASSUME staged' = staged, entries' = entries, snapshots' = snapshots
    PROVE  UNCHANGED Pub!pubVars
BY DEF Pub!pubVars

(* Every step maps to a step of Publication or to a stutter. *)
LEMMA PublicationStep ==
    ASSUME CaptureInv, [CaptureNext]_captureVars
    PROVE  [Pub!PubNext]_(Pub!pubVars)
  <1>0. CaptureTypeOK /\ call \in [Threads -> Call]
    BY DEF CaptureInv, CaptureTypeOK
  <1>1. ASSUME NEW t \in Threads, StageInCatalog(t)
        PROVE  [Pub!PubNext]_(Pub!pubVars)
    <2> DEFINE c == call[t]
    <2>1. c.h.op \in Ops /\ c.idx \in Indexes /\ c.dig \in Digests
      BY <1>0, <1>1, CallShape, CallHandle DEF StageInCatalog, At, StagePCs, Handle
    <2>2. entries' = entries /\ snapshots' = snapshots
      BY <1>1 DEF StageInCatalog
    <2>3. CASE staged[c.h.op][c.idx] = NoDigest /\ CanStage(c.h.op, c.idx, c.dig)
      <3>1. Pub!Draft(c.h.op, c.idx, c.dig)
        <4>1. staged' = [staged EXCEPT ![c.h.op][c.idx] = c.dig]
          BY <1>1, <2>3, Zenon DEF StageInCatalog
        <4>2. Cardinality({i \in Indexes : staged[c.h.op][i] # NoDigest}) < MaxChunks
          BY <2>3, Zenon DEF CanStage, StagedCount
        <4>3. {<<entries'[i].snap, entries'[i].op>> : i \in DOMAIN entries'}
                = {<<entries[i].snap, entries[i].op>> : i \in DOMAIN entries}
          BY <2>2
        <4>4. staged[c.h.op][c.idx] = NoDigest
          BY <2>3
        <4> HIDE DEF c
        <4> QED BY <2>2, <4>1, <4>2, <4>3, <4>4 DEF Pub!Draft, Pub!Drafted, Cardinality, Pub!Cardinality
      <3> QED BY <2>1, <3>1 DEF Pub!PubNext
    <2>4. CASE ~(staged[c.h.op][c.idx] = NoDigest /\ CanStage(c.h.op, c.idx, c.dig))
      <3>1. staged' = staged
        <4>1. CASE ~CanStage(c.h.op, c.idx, c.dig)
          BY <1>1, <4>1, Zenon DEF StageInCatalog
        <4>2. CASE CanStage(c.h.op, c.idx, c.dig)
          <5>1. staged[c.h.op][c.idx] = c.dig
            BY <2>4, <4>2, Zenon DEF CanStage
          <5>2. staged' = [staged EXCEPT ![c.h.op][c.idx] = c.dig]
            BY <1>1, <4>2, Zenon DEF StageInCatalog
          <5>3. staged \in [Ops -> ChunkMap]
            BY <1>0 DEF CaptureTypeOK
          <5> QED BY <2>1, <5>1, <5>2, <5>3 DEF ChunkMap
        <4> QED BY <4>1, <4>2
      <3> QED BY <2>2, <3>1, PublicationStutter
    <2> QED BY <2>3, <2>4
  <1>2. ASSUME NEW t \in Threads, JournalPublish(t)
        PROVE  [Pub!PubNext]_(Pub!pubVars)
    <2> DEFINE c == call[t]
    <2>1. c.h.op \in Ops /\ c.h.snap \in Snapshots
      BY <1>0, <1>2, CallShape, CallHandle DEF JournalPublish, At, CommitPCs, Handle
    <2>2. staged' = staged /\ snapshots' = snapshots
      BY <1>2 DEF JournalPublish
    <2>3. CASE entries' = Append(entries, PublishEntry(c.h))
      <3>1. entries \in Seq(LogEntry)
        BY <1>0 DEF CaptureTypeOK
      <3>2. /\ DOMAIN entries' = DOMAIN entries \union {Len(entries) + 1}
            /\ \A i \in DOMAIN entries : entries'[i] = entries[i]
            /\ entries'[Len(entries) + 1] = PublishEntry(c.h)
        BY <2>3, <3>1
      <3>3. {<<entries'[i].snap, entries'[i].op>> : i \in DOMAIN entries'}
              = {<<entries[i].snap, entries[i].op>> : i \in DOMAIN entries}
                    \union {<<c.h.snap, c.h.op>>}
        BY <3>2 DEF PublishEntry
      <3>4. PICK s \in Snapshots, op \in Ops : s = c.h.snap /\ op = c.h.op
        BY <2>1
      <3>5. Pub!Intend(s, op)
        BY <2>2, <3>3, <3>4 DEF Pub!Intend
      <3> QED BY <3>5 DEF Pub!PubNext
    <2>4. CASE entries' = entries
      BY <2>2, <2>4, PublicationStutter
    <2> QED BY <1>2, <2>3, <2>4 DEF JournalPublish, AppendEntry
  <1>3. ASSUME NEW t \in Threads, CommitSnapshot(t)
        PROVE  [Pub!PubNext]_(Pub!pubVars)
    <2> DEFINE c == call[t]
    <2>1. c.h.op \in Ops /\ c.h.snap \in Snapshots /\ c.pc = "commit"
      BY <1>0, <1>3, CallShape, CallHandle DEF CommitSnapshot, At, CommitPCs, Handle
    <2>2. entries' = entries
      BY <1>3 DEF CommitSnapshot
    <2>3. <<c.h.snap, c.h.op>> \in {<<entries[i].snap, entries[i].op>> : i \in DOMAIN entries}
      BY <2>1 DEF CaptureInv, CallsKnow, At, Logged
    <2>4. CASE snapshots[c.h.snap].op = 0 /\ staged[c.h.op] # NoChunks
      <3>1. Pub!Publish(c.h.snap, c.h.op)
        BY <1>3, <2>2, <2>3, <2>4 DEF CommitSnapshot, Pub!Publish, Pub!Empty, NoChunks
      <3> QED BY <2>1, <3>1 DEF Pub!PubNext
    <2>5. CASE ~(snapshots[c.h.snap].op = 0 /\ staged[c.h.op] # NoChunks)
      <3>1. staged' = staged /\ snapshots' = snapshots
        BY <1>3, <2>5 DEF CommitSnapshot
      <3> QED BY <2>2, <3>1, PublicationStutter
    <2> QED BY <2>4, <2>5
  <1>4. ASSUME NEW t \in Threads, ForgetOperation(t)
        PROVE  [Pub!PubNext]_(Pub!pubVars)
    <2>1. call[t].h.op \in Ops
      BY <1>0, <1>4, CallShape, CallHandle DEF ForgetOperation, At, CommitPCs, Handle
    <2>2. Pub!Discard(call[t].h.op)
      BY <1>4 DEF ForgetOperation, Pub!Discard, Pub!Empty, NoChunks
    <2> QED BY <2>1, <2>2 DEF Pub!PubNext
  <1>5. \/ \E t \in Threads : \/ StageInCatalog(t) \/ JournalPublish(t)
                              \/ CommitSnapshot(t) \/ ForgetOperation(t)
        \/ staged' = staged /\ entries' = entries /\ snapshots' = snapshots
    BY NextCases, Zenon DEF BeginCapture, StageChunk, CommitCapture, AbortCapture, EnvironmentQuiet,
      CloseJournal, OpenJournal, captureVars, Step, Acquire, IssueHandle, ReserveDigest,
      ReleaseDigest, ReleaseCapture, DropLease
  <1> QED BY <1>1, <1>2, <1>3, <1>4, <1>5, PublicationStutter

(* The capture workflow, with its leases, goroutines and failures, is an
   implementation of the abstract publication protocol. *)
THEOREM CaptureImplementsPublication == CaptureSpec => ImplementsPublication
  <1> QED
    BY PublicationInit, PublicationStep, CaptureInvariant, PTL
    DEF CaptureSpec, ImplementsPublication, Pub!PubSpec

------------------------------------------------------------------------------
(* A capture that is over leaves nothing behind.                            *)

Busy(t) == call[t].pc \in StagePCs \union CommitPCs

StillOpen == StagePCs \union {"journal", "commit"}

HoldsLease(h) == Releasable(h.snap, h.owner, h.epoch)

LeaseOver(h) == leases[h.snap].epoch = h.epoch /\ leases[h.snap].released

(* What the step of one goroutine may do to the stores. *)
StoresMove(t) ==
    /\ \A op \in Ops : Clean(op) =>
          Clean(op)' \/ (call[t].pc \in {"reserve", "stage"} /\ op = call[t].h.op)
    /\ \A h \in handles : LeaseOver(h)' =>
          LeaseOver(h) \/ (call[t].pc \in {"release", "drop"} /\ call[t].h = h)
    /\ \A h \in handles : HoldsLease(h)' => HoldsLease(h)
    /\ \A h \in handles : snapshots'[h.snap].op = h.op =>
          \/ snapshots[h.snap].op = h.op
          \/ call[t].pc = "commit" /\ call[t].h = h /\ call'[t].pc = "release" /\ call'[t].h = h
    /\ \A s \in Snapshots : snapshots'[s].op <= nextOp
    /\ \A h \in handles' : h \in handles \/ h.op > nextOp
    /\ nextOp' >= nextOp

(* And how its call may go on. *)
CallMoves(t) ==
    /\ \A u \in Threads : u # t => call'[u] = call[u]
    /\ Busy(t)' => \/ Busy(t) /\ call'[t].h = call[t].h
                   \/ ~Busy(t) /\ \A u \in Threads : ~UsesHandle(call[u], call'[t].h)
    /\ call'[t].pc \in StillOpen =>
          \/ call[t].pc \in StillOpen
          \/ ~Busy(t) /\ HoldsLease(call'[t].h)
    /\ call'[t].pc \in {"release", "drop"} => Clean(call[t].h.op)'
    /\ Busy(t) /\ ~Busy(t)' => call[t].pc \in StagePCs \union {"release", "drop"}
    /\ call[t].pc = "release" => ~Busy(t)' /\ \A h \in handles : call[t].h = h => ~HoldsLease(h)'
    /\ Busy(t)' => call'[t].h \in handles

(* In the states of the specification a handle is known by its operation. *)
LEMMA HandleFacts ==
    ASSUME CaptureInv
    PROVE  /\ \A h \in handles : h.op \in Ops /\ h.snap \in Snapshots /\ h.op <= nextOp /\ h.op # 0
           /\ \A h, g \in handles : h.op = g.op => h = g
           /\ \A t \in Threads : Busy(t) => call[t].h \in handles
           /\ nextOp \in Nat /\ \A op \in Ops : op \in Nat
  <1>1. \A h \in handles : h \in Handle
    BY DEF CaptureInv, CaptureTypeOK
  <1>2. \A h \in handles : h.op \in Ops /\ h.snap \in Snapshots /\ h.op # 0
    BY <1>1 DEF Handle, Ops
  <1>3. \A h \in handles : h.op <= nextOp
    BY DEF CaptureInv, EpochsAreUnique
  <1>4. \A h, g \in handles : h.op = g.op => h = g
    BY DEF CaptureInv, EpochsAreUnique
  <1>5. \A t \in Threads : Busy(t) => call[t].h \in handles
    BY DEF CaptureInv, CallsKnow, Busy
  <1>6. nextOp \in Nat /\ \A op \in Ops : op \in Nat
    BY CaptureAssumption DEF CaptureInv, CaptureTypeOK, Ops
  <1> QED BY <1>2, <1>3, <1>4, <1>5, <1>6

(* ExclusiveInv, part by part, over such a step. *)
LEMMA ExclusiveKeeps ==
    ASSUME CaptureInv, CaptureInv', ExclusiveInv, NEW t \in Threads, StoresMove(t), CallMoves(t)
    PROVE  ExclusiveInv'
  <1> DEFINE Pcs == StagePCs \union CommitPCs
  <1>0. /\ "reserve" \in StagePCs /\ "stage" \in StagePCs
        /\ "release" \in CommitPCs /\ "drop" \in CommitPCs /\ "commit" \in CommitPCs
        /\ \A pc \in StillOpen : pc \in Pcs /\ pc \notin {"release", "drop", "forget"}
        /\ \A pc \in StagePCs : pc \in StillOpen
    BY DEF StagePCs, CommitPCs, StillOpen
  <1>1. \A u, v \in Threads : Busy(u) /\ Busy(v) /\ call[u].h = call[v].h => u = v
    BY DEF ExclusiveInv, UsesHandle, Busy
  <1>2. \A u, v \in Threads : Busy(u)' /\ Busy(v)' /\ call'[u].h = call'[v].h => u = v
    <2>1. \A u \in Threads : u # t => (Busy(u)' <=> Busy(u)) /\ call'[u] = call[u]
      BY DEF CallMoves, Busy
    <2>2. ASSUME NEW u \in Threads, u # t, Busy(u)', Busy(t)', call'[u].h = call'[t].h PROVE FALSE
      <3>1. Busy(u) /\ call[u].h = call'[t].h
        BY <2>1, <2>2
      <3>2. UsesHandle(call[u], call'[t].h)
        BY <3>1 DEF UsesHandle, Busy
      <3> QED BY <1>1, <2>2, <3>1, <3>2 DEF CallMoves
    <2> QED BY <1>1, <2>1, <2>2
  <1>3. ASSUME NEW h \in handles, Ended(h)', ~Ended(h)
        PROVE  /\ Busy(t) /\ call[t].h = h /\ call[t].pc \in {"release", "drop", "commit"}
               /\ call[t].pc = "commit" => call'[t].pc = "release"
    <2>1. CASE LeaseOver(h)'
      BY <1>0, <1>3, <2>1 DEF StoresMove, Ended, LeaseOver, Busy
    <2>2. CASE snapshots'[h.snap].op = h.op
      BY <1>0, <1>3, <2>2 DEF StoresMove, Ended, LeaseOver, Busy
    <2> QED BY <1>3, <2>1, <2>2 DEF Ended, LeaseOver
  <1>4. ASSUME NEW h \in handles, Clean(h.op), ~Clean(h.op)'
        PROVE  Busy(t) /\ call[t].h = h /\ call[t].pc \in {"reserve", "stage"}
    <2>1. PICK op \in Ops : op = h.op
      BY HandleFacts
    <2>2. Clean(op) /\ ~Clean(op)'
      BY <1>4, <2>1
    <2>3. call[t].pc \in {"reserve", "stage"} /\ call[t].h.op = h.op
      BY <2>1, <2>2 DEF StoresMove
    <2>4. Busy(t)
      BY <1>0, <2>3 DEF Busy
    <2> QED BY <2>3, <2>4, HandleFacts
  <1>5. ASSUME NEW op \in Ops, op > nextOp PROVE Clean(op)'
    <2>1. Clean(op)
      BY <1>5 DEF ExclusiveInv
    <2>2. call[t].pc \in {"reserve", "stage"} => op # call[t].h.op
      <3>1. call[t].pc \in {"reserve", "stage"} => call[t].h \in handles
        BY <1>0, HandleFacts DEF Busy
      <3> QED BY <1>5, <3>1, HandleFacts
    <2> QED BY <2>1, <2>2 DEF StoresMove
  <1>6. ASSUME NEW h \in handles', Over(h)' PROVE Clean(h.op)'
    <2>0. \A u \in Threads : ~(Busy(u)' /\ call'[u].h = h)
      BY <1>6 DEF Over, UsesHandle, Busy
    <2>1. CASE h \notin handles
      <3>1. h.op > nextOp
        BY <2>1 DEF StoresMove
      <3>2. PICK op \in Ops : op = h.op
        <4>1. h \in Handle
          BY DEF CaptureInv, CaptureTypeOK
        <4> QED BY <4>1 DEF Handle
      <3>3. Clean(op)'
        BY <1>5, <3>1, <3>2
      <3> QED BY <3>2, <3>3
    <2>2. CASE h \in handles /\ Busy(t) /\ call[t].h = h
      <3>1. ~Busy(t)'
        BY <2>0, <2>2 DEF CallMoves
      <3>2. call[t].pc \in StagePCs \union {"release", "drop"}
        BY <2>2, <3>1 DEF CallMoves
      <3>3. CASE call[t].pc \in StagePCs
        <4>1. ~Ended(h)
          BY <1>0, <2>2, <3>3 DEF ExclusiveInv, StillOpen
        <4>2. Ended(h)'
          BY <1>6 DEF Over
        <4> QED BY <1>0, <1>3, <2>2, <3>3, <4>1, <4>2 DEF StagePCs
      <3>4. CASE call[t].pc \in {"release", "drop"}
        <4>1. Clean(h.op)
          BY <2>2, <3>4 DEF ExclusiveInv
        <4> QED BY <1>4, <2>2, <3>4, <4>1
      <3> QED BY <3>2, <3>3, <3>4
    <2>3. CASE h \in handles /\ ~(Busy(t) /\ call[t].h = h)
      <3>1. \A u \in Threads : ~(Busy(u) /\ call[u].h = h)
        BY <2>0, <2>3 DEF CallMoves, Busy
      <3>2. Ended(h)
        BY <1>3, <1>6, <2>3 DEF Over
      <3>3. Over(h)
        BY <3>1, <3>2 DEF Over, UsesHandle, Busy
      <3>4. Clean(h.op)
        BY <2>3, <3>3 DEF ExclusiveInv, OverLeavesNothing
      <3> QED BY <1>4, <2>3, <3>4
    <2> QED BY <2>1, <2>2, <2>3
  <1>7. ASSUME NEW u \in Threads, call'[u].pc \in StillOpen PROVE ~Ended(call[u].h)'
    <2>1. PICK h : h = call'[u].h
      OBVIOUS
    <2>2. Busy(u)'
      BY <1>0, <1>7 DEF Busy
    <2>3. h \in handles
      <3>1. CASE u = t
        BY <2>1, <2>2, <3>1 DEF CallMoves
      <3>2. CASE u # t
        BY <2>1, <2>2, <3>2, HandleFacts DEF CallMoves, Busy
      <3> QED BY <3>1, <3>2
    <2>4. ~Ended(h)
      <3>1. CASE u # t
        BY <1>7, <2>1, <3>1 DEF CallMoves, ExclusiveInv, StillOpen
      <3>2. CASE u = t /\ call[t].pc \in StillOpen
        <4>1. Busy(t) /\ call'[t].h = call[t].h
          BY <1>0, <2>2, <3>2 DEF CallMoves, Busy
        <4> QED BY <2>1, <3>2, <4>1 DEF ExclusiveInv, StillOpen
      <3>3. CASE u = t /\ ~Busy(t) /\ HoldsLease(h)
        <4>1. \A v \in Threads : ~UsesHandle(call[v], h)
          BY <2>1, <2>2, <3>3 DEF CallMoves
        <4>2. \A v \in Threads : ~(At(v, "release") /\ call[v].h = h)
          BY <1>0, <4>1 DEF UsesHandle, At
        <4>3. snapshots[h.snap].op # h.op
          BY <2>3, <3>3, <4>2 DEF ExclusiveInv, HoldsLease
        <4>4. ~LeaseOver(h)
          BY <3>3 DEF HoldsLease, LeaseOver, Releasable
        <4> QED BY <4>3, <4>4 DEF Ended, LeaseOver
      <3> QED BY <1>7, <2>1, <3>1, <3>2, <3>3 DEF CallMoves
    <2>5. ~Ended(h)'
      <3>1. SUFFICES ASSUME Ended(h)' PROVE FALSE
        OBVIOUS
      <3>2. Busy(t) /\ call[t].h = h /\ call[t].pc \in {"release", "drop", "commit"}
            /\ (call[t].pc = "commit" => call'[t].pc = "release")
        BY <1>3, <2>3, <2>4, <3>1
      <3>3. u = t
        <4>1. u # t => Busy(u) /\ call[u].h = h
          BY <2>1, <2>2 DEF CallMoves, Busy
        <4> QED BY <1>1, <3>2, <4>1
      <3>4. call[t].pc \in StillOpen
        <4>1. call'[t].pc \in StillOpen
          BY <1>7, <3>3
        <4> QED BY <3>2, <4>1 DEF CallMoves
      <3> QED BY <1>0, <1>7, <3>2, <3>3, <3>4
    <2> QED BY <2>1, <2>5 DEF Ended
  <1>8. ASSUME NEW u \in Threads, call'[u].pc \in {"release", "drop"} PROVE Clean(call[u].h.op)'
    <2>1. CASE u = t
      BY <1>8, <2>1 DEF CallMoves
    <2>2. CASE u # t
      <3>1. PICK h : h = call[u].h
        OBVIOUS
      <3>2. Busy(u) /\ call'[u] = call[u] /\ call[u].pc \in {"release", "drop"}
        BY <1>0, <1>8, <2>2 DEF CallMoves, Busy
      <3>3. h \in handles /\ Clean(h.op)
        BY <3>1, <3>2, HandleFacts DEF ExclusiveInv
      <3>4. Clean(h.op)'
        BY <1>1, <1>4, <2>2, <3>1, <3>2, <3>3
      <3> QED BY <3>1, <3>2, <3>4 DEF Clean
    <2> QED BY <2>1, <2>2
  <1>9. ASSUME NEW h \in handles', snapshots'[h.snap].op = h.op
        PROVE  ~HoldsLease(h)' \/ \E u \in Threads : call'[u].pc = "release" /\ call'[u].h = h
    <2>1. h \in handles
      <3>1. h.snap \in Snapshots /\ h.op \in Nat
        BY HandleFacts, CaptureAssumption DEF CaptureInv, CaptureTypeOK, Handle, Ops
      <3>2. snapshots'[h.snap].op <= nextOp
        BY <3>1 DEF StoresMove
      <3> QED BY <1>9, <3>1, <3>2, HandleFacts DEF StoresMove
    <2>2. CASE snapshots[h.snap].op = h.op
      <3>1. CASE ~HoldsLease(h)
        BY <2>1, <3>1 DEF StoresMove
      <3>2. ASSUME NEW u \in Threads, At(u, "release"), call[u].h = h
            PROVE  ~HoldsLease(h)' \/ \E v \in Threads : call'[v].pc = "release" /\ call'[v].h = h
        <4>1. CASE u = t
          BY <2>1, <3>2, <4>1 DEF CallMoves, At
        <4>2. CASE u # t
          BY <3>2, <4>2 DEF CallMoves, At
        <4> QED BY <4>1, <4>2
      <3> QED BY <2>1, <2>2, <3>1, <3>2 DEF ExclusiveInv, HoldsLease
    <2>3. CASE snapshots[h.snap].op # h.op
      BY <1>9, <2>1, <2>3 DEF StoresMove
    <2> QED BY <2>2, <2>3
  <1>10. nextOp' >= nextOp /\ nextOp \in Nat /\ nextOp' \in Nat
    BY CaptureAssumption DEF StoresMove, CaptureInv, CaptureTypeOK
  <1>11. \A s \in Snapshots : snapshots'[s].op <= nextOp'
    <2>1. \A s \in Snapshots : snapshots'[s].op \in Nat
      <3>1. \A s \in Snapshots : snapshots'[s].op \in Ops \union {0}
        BY DEF CaptureInv, CaptureTypeOK
      <3> QED BY <3>1, CaptureAssumption DEF Ops
    <2> QED BY <1>10, <2>1 DEF StoresMove
  <1>12. \A op \in Ops : op > nextOp' => Clean(op)'
    BY <1>5, <1>10, HandleFacts
  <1>13. OverLeavesNothing'
    BY <1>6 DEF OverLeavesNothing
  <1>14. \A u, v \in Threads :
            (UsesHandle(call[u], call[u].h) /\ UsesHandle(call[v], call[u].h))' => u = v
    BY <1>2 DEF UsesHandle, Busy
  <1> QED
    BY <1>7, <1>8, <1>9, <1>11, <1>12, <1>13, <1>14 DEF ExclusiveInv, StillOpen, HoldsLease, At

(* The shape of a goroutine's new call. *)
LEMMA MovesTo ==
    ASSUME CaptureInv, NEW t \in Threads, NEW c, call' = [call EXCEPT ![t] = c]
    PROVE  call'[t] = c /\ \A u \in Threads : u # t => call'[u] = call[u]
BY DEF CaptureInv, CaptureTypeOK

LEMMA MovesOn ==
    ASSUME CaptureInv, NEW t \in Threads, NEW pc, Busy(t), Goto(t, pc)
    PROVE  /\ call'[t].pc = pc /\ call'[t].h = call[t].h
           /\ \A u \in Threads : u # t => call'[u] = call[u]
  <1>1. call[t] \in StageCall \/ call[t] \in CommitCall
    BY CallShape DEF CaptureInv, CaptureTypeOK, Busy
  <1>2. call \in [Threads -> Call]
    BY DEF CaptureInv, CaptureTypeOK
  <1>3. call'[t] = [call[t] EXCEPT !.pc = pc] /\ \A u \in Threads : u # t => call'[u] = call[u]
    BY <1>2 DEF Goto
  <1> QED BY <1>1, <1>3 DEF StageCall, CommitCall

LEMMA Returns ==
    ASSUME CaptureInv, NEW t \in Threads, Return(t)
    PROVE  ~Busy(t)' /\ call'[t].pc = "idle" /\ \A u \in Threads : u # t => call'[u] = call[u]
  <1>1. call'[t] = Idle /\ \A u \in Threads : u # t => call'[u] = call[u]
    BY MovesTo DEF Return
  <1> QED BY <1>1 DEF Idle, Busy, StagePCs, CommitPCs

(* A step that leaves the stores alone. *)
LEMMA StoresStay ==
    ASSUME CaptureInv, ExclusiveInv, NEW t \in Threads,
           UNCHANGED <<leases, staged, reservations, snapshots, nextOp, handles>>
    PROVE  StoresMove(t)
  <1>1. \A op \in Ops : Clean(op) => Clean(op)'
    BY DEF Clean
  <1>2. \A h \in handles : (LeaseOver(h)' => LeaseOver(h)) /\ (HoldsLease(h)' => HoldsLease(h))
    BY DEF LeaseOver, HoldsLease, Releasable
  <1>3. \A s \in Snapshots : snapshots'[s].op <= nextOp
    BY DEF ExclusiveInv
  <1>4. nextOp' >= nextOp
    BY HandleFacts
  <1> QED BY <1>1, <1>2, <1>3, <1>4 DEF StoresMove

(* Calls begin. *)
LEMMA BeginsExclusive ==
    ASSUME ~SharedHandles, CaptureInv, ExclusiveInv, NEW t \in Threads,
           \/ \E s \in Snapshots, o \in Owners : BeginCapture(t, s, o)
           \/ \E h \in handles, i \in Indexes, d \in Digests : StageChunk(t, h, i, d)
           \/ \E h \in handles : CommitCapture(t, h) \/ AbortCapture(t, h)
    PROVE  StoresMove(t) /\ CallMoves(t)
  <1> USE DEF StagePCs, CommitPCs
  <1>1. UNCHANGED <<leases, staged, reservations, snapshots, nextOp, handles>>
    BY Zenon DEF BeginCapture, StageChunk, CommitCapture, AbortCapture
  <1>2. StoresMove(t)
    BY <1>1, StoresStay
  <1>3. call[t].pc = "idle" /\ ~Busy(t)
    BY DEF BeginCapture, StageChunk, CommitCapture, AbortCapture, Usable, At, Busy
  <1>4. ASSUME NEW s \in Snapshots, NEW o \in Owners, BeginCapture(t, s, o) PROVE CallMoves(t)
    <2>1. call'[t].pc = "acquire" /\ \A u \in Threads : u # t => call'[u] = call[u]
      <3>1. PICK c : c = [pc |-> "acquire", snap |-> s, owner |-> o, at |-> now]
        OBVIOUS
      <3>2. call'[t] = c /\ \A u \in Threads : u # t => call'[u] = call[u]
        BY <1>4, <3>1, MovesTo DEF BeginCapture
      <3> QED BY <3>1, <3>2
    <2>2. ~Busy(t)'
      BY <2>1 DEF Busy
    <2> QED BY <1>3, <2>1, <2>2 DEF CallMoves, StillOpen
  <1>5. ASSUME NEW h \in handles, Usable(t, h), NEW c, call' = [call EXCEPT ![t] = c], c.h = h,
               c.pc = "forget" \/ (c.pc \in {"reserve", "journal"} /\ HandleValid(h))
        PROVE  CallMoves(t)
    <2>1. call'[t] = c /\ \A u \in Threads : u # t => call'[u] = call[u]
      BY <1>5, MovesTo
    <2>2. \A u \in Threads : ~UsesHandle(call[u], h)
      BY <1>5 DEF Usable
    <2>3. HandleValid(h) => HoldsLease(h)
      BY DEF HandleValid, Valid, Held, HoldsLease, Releasable
    <2> QED BY <1>3, <1>5, <2>1, <2>2, <2>3 DEF CallMoves, StillOpen
  <1>6. ASSUME NEW h \in handles, NEW i \in Indexes, NEW d \in Digests, StageChunk(t, h, i, d)
        PROVE  CallMoves(t)
    <2> DEFINE c == [pc |-> "reserve", h |-> h, idx |-> i, dig |-> d]
    <2>1. c.h = h /\ c.pc = "reserve"
      OBVIOUS
    <2>2. Usable(t, h) /\ HandleValid(h) /\ call' = [call EXCEPT ![t] = c]
      BY <1>6 DEF StageChunk
    <2> HIDE DEF c
    <2> QED BY <1>5, <2>1, <2>2
  <1>7. ASSUME NEW h \in handles, CommitCapture(t, h) PROVE CallMoves(t)
    <2> DEFINE c == [pc |-> "journal", h |-> h]
    <2>1. c.h = h /\ c.pc = "journal"
      OBVIOUS
    <2>2. Usable(t, h) /\ HandleValid(h) /\ call' = [call EXCEPT ![t] = c]
      BY <1>7 DEF CommitCapture
    <2> HIDE DEF c
    <2> QED BY <1>5, <2>1, <2>2
  <1>8. ASSUME NEW h \in handles, AbortCapture(t, h) PROVE CallMoves(t)
    <2> DEFINE c == [pc |-> "forget", h |-> h]
    <2>1. c.h = h /\ c.pc = "forget"
      OBVIOUS
    <2>2. Usable(t, h) /\ call' = [call EXCEPT ![t] = c]
      BY <1>8 DEF AbortCapture
    <2> HIDE DEF c
    <2> QED BY <1>5, <2>1, <2>2
  <1> QED BY <1>2, <1>4, <1>6, <1>7, <1>8

(* Leases: a new epoch ends nobody's capture and validates nobody's handle. *)
LEMMA AcquireExclusive ==
    ASSUME CaptureInv, ExclusiveInv, NEW t \in Threads, Acquire(t)
    PROVE  StoresMove(t) /\ CallMoves(t)
  <1> USE DEF StagePCs, CommitPCs
  <1> DEFINE c == call[t]
  <1>0. c \in [pc: {"acquire"}, snap: Snapshots, owner: Owners, at: Nat]
    BY CallShape DEF CaptureInv, CaptureTypeOK, Acquire, At
  <1>1. ~Busy(t) /\ c.pc = "acquire" /\ c.snap \in Snapshots
    BY <1>0 DEF Busy
  <1>2. UNCHANGED <<staged, reservations, snapshots, nextOp, handles>>
    BY DEF Acquire
  <1>3. CASE Return(t) /\ UNCHANGED leases
    <2>1. StoresMove(t)
      BY <1>2, <1>3, StoresStay
    <2>2. ~Busy(t)' /\ call'[t].pc = "idle" /\ \A u \in Threads : u # t => call'[u] = call[u]
      BY <1>3, Returns
    <2> QED BY <1>1, <2>1, <2>2 DEF CallMoves, StillOpen
  <1>4. ASSUME NEW ttl \in TTLs, AcquireLease(c.snap, c.owner, c.at, ttl),
               NEW e, call' = [call EXCEPT ![t] = [pc |-> "issue", snap |-> c.snap, owner |-> c.owner, epoch |-> e]]
        PROVE  StoresMove(t) /\ CallMoves(t)
    <2>1. call'[t].pc = "issue" /\ \A u \in Threads : u # t => call'[u] = call[u]
      <3>1. PICK i : i = [pc |-> "issue", snap |-> c.snap, owner |-> c.owner, epoch |-> e]
        OBVIOUS
      <3>2. call'[t] = i /\ \A u \in Threads : u # t => call'[u] = call[u]
        BY <1>4, <3>1, MovesTo
      <3> QED BY <3>1, <3>2
    <2>2. CallMoves(t)
      BY <1>1, <2>1 DEF CallMoves, StillOpen, Busy
    <2>3. /\ leases'[c.snap].epoch = leases[c.snap].epoch + 1 /\ ~leases'[c.snap].released
          /\ \A s \in Snapshots : s # c.snap => leases'[s] = leases[s]
      BY <1>1, <1>4 DEF AcquireLease, CaptureInv, CaptureTypeOK, LeaseTypeOK, Snapshots
    <2>4. ASSUME NEW h \in handles PROVE (LeaseOver(h)' => LeaseOver(h)) /\ (HoldsLease(h)' => HoldsLease(h))
      <3>1. h.snap \in Snapshots /\ h.epoch <= leases[h.snap].epoch /\ h.epoch \in Nat
        BY DEF CaptureInv, CaptureTypeOK, EpochsAreUnique, Handle
      <3>2. leases[c.snap].epoch \in Nat
        BY <1>1 DEF CaptureInv, CaptureTypeOK, LeaseTypeOK, Lease, Snapshots
      <3>3. CASE h.snap = c.snap
        <4>1. leases'[h.snap].epoch # h.epoch
          BY <2>3, <3>1, <3>2, <3>3
        <4> QED BY <4>1 DEF LeaseOver, HoldsLease, Releasable
      <3>4. CASE h.snap # c.snap
        BY <2>3, <3>1, <3>4 DEF LeaseOver, HoldsLease, Releasable
      <3> QED BY <3>3, <3>4
    <2>5. \A op \in Ops : Clean(op) => Clean(op)'
      BY <1>2 DEF Clean
    <2>6. StoresMove(t)
      BY <1>2, <2>4, <2>5, HandleFacts DEF StoresMove, ExclusiveInv
    <2> QED BY <2>2, <2>6
  <1> QED BY <1>3, <1>4 DEF Acquire

LEMMA IssueExclusive ==
    ASSUME CaptureInv, ExclusiveInv, NEW t \in Threads, IssueHandle(t)
    PROVE  StoresMove(t) /\ CallMoves(t)
  <1> USE DEF StagePCs, CommitPCs
  <1>1. call[t].pc = "issue" /\ ~Busy(t)
    BY DEF IssueHandle, At, Busy
  <1>2. ~Busy(t)' /\ call'[t].pc = "idle" /\ \A u \in Threads : u # t => call'[u] = call[u]
    BY Returns DEF IssueHandle
  <1>3. CallMoves(t)
    BY <1>1, <1>2 DEF CallMoves, StillOpen
  <1>4. /\ UNCHANGED <<leases, staged, reservations, snapshots>> /\ nextOp' = nextOp + 1
        /\ \A h \in handles' : h \in handles \/ h.op = nextOp + 1
    BY DEF IssueHandle
  <1>5. \A op \in Ops : Clean(op) => Clean(op)'
    BY <1>4 DEF Clean
  <1>6. \A h \in handles : (LeaseOver(h)' => LeaseOver(h)) /\ (HoldsLease(h)' => HoldsLease(h))
    BY <1>4 DEF LeaseOver, HoldsLease, Releasable
  <1>7. nextOp' >= nextOp /\ \A h \in handles' : h \in handles \/ h.op > nextOp
    BY <1>4, HandleFacts
  <1> QED BY <1>3, <1>4, <1>5, <1>6, <1>7 DEF StoresMove, ExclusiveInv

(* Staging: it changes the store of its own operation only. *)
LEMMA StageExclusive ==
    ASSUME CaptureInv, ExclusiveInv, NEW t \in Threads,
           ReserveDigest(t) \/ StageInCatalog(t) \/ ReleaseDigest(t)
    PROVE  StoresMove(t) /\ CallMoves(t)
  <1> DEFINE c == call[t]
  <1>0. c.pc \in StagePCs /\ c \in StageCall
    BY CallShape DEF CaptureInv, CaptureTypeOK, ReserveDigest, StageInCatalog, ReleaseDigest, At, StagePCs
  <1>1. /\ Busy(t) /\ c.h \in handles /\ c.h.op \in Ops /\ c.h.op # 0
        /\ c.dig \in Digests /\ c.idx \in Indexes
    BY <1>0, HandleFacts, CallHandle DEF Busy
  <1>2. CallMoves(t)
    <2>1. CASE Return(t)
      BY <1>0, <1>1, <2>1, Returns DEF CallMoves, StillOpen, StagePCs
    <2>2. ASSUME NEW pc \in StagePCs, Goto(t, pc) PROVE CallMoves(t)
      <3>1. call'[t].pc = pc /\ call'[t].h = c.h /\ \A u \in Threads : u # t => call'[u] = call[u]
        BY <1>1, <2>2, MovesOn
      <3>2. c.pc \in StillOpen /\ c.pc # "release" /\ pc \notin {"release", "drop"} /\ Busy(t)'
        BY <1>0, <3>1 DEF StagePCs, StillOpen, Busy
      <3> QED BY <1>1, <3>1, <3>2 DEF CallMoves
    <2>3. Return(t) \/ Goto(t, "stage") \/ Goto(t, "unreserve")
      BY DEF ReserveDigest, StageInCatalog, ReleaseDigest
    <2> QED BY <2>1, <2>2, <2>3 DEF StagePCs
  <1>3. UNCHANGED <<leases, snapshots, nextOp, handles>>
    BY DEF ReserveDigest, StageInCatalog, ReleaseDigest
  <1>4. ASSUME NEW op \in Ops, Clean(op)
        PROVE  Clean(op)' \/ (c.pc \in {"reserve", "stage"} /\ op = c.h.op)
    <2>0. staged \in [Ops -> ChunkMap] /\ reservations \in [Digests -> Ops \union {0}] /\ op # 0
      BY DEF CaptureInv, CaptureTypeOK, Ops
    <2>1. CASE ReserveDigest(t)
      <3>1. c.pc = "reserve" /\ staged' = staged
        BY <2>1 DEF ReserveDigest, At
      <3>2. op # c.h.op => \A d \in Digests : reservations'[d] # op
        BY <1>1, <1>4, <2>0, <2>1 DEF ReserveDigest, Clean
      <3> QED BY <1>4, <3>1, <3>2 DEF Clean
    <2>2. CASE StageInCatalog(t)
      <3>1. c.pc = "stage" /\ reservations' = reservations
        BY <2>2 DEF StageInCatalog, At
      <3>2. op # c.h.op => staged'[op] = staged[op]
        BY <1>1, <2>0, <2>2 DEF StageInCatalog
      <3> QED BY <1>4, <3>1, <3>2 DEF Clean
    <2>3. CASE ReleaseDigest(t)
      <3>1. staged' = staged
        BY <2>3 DEF ReleaseDigest
      <3>2. \A d \in Digests : reservations'[d] # op
        BY <1>1, <1>4, <2>0, <2>3 DEF ReleaseDigest, Clean
      <3> QED BY <1>4, <3>1, <3>2 DEF Clean
    <2> QED BY <2>1, <2>2, <2>3
  <1>5. \A h \in handles : (LeaseOver(h)' => LeaseOver(h)) /\ (HoldsLease(h)' => HoldsLease(h))
    BY <1>3 DEF LeaseOver, HoldsLease, Releasable
  <1>6. StoresMove(t)
    BY <1>3, <1>4, <1>5, HandleFacts DEF StoresMove, ExclusiveInv
  <1> QED BY <1>2, <1>6

LEMMA JournalExclusive ==
    ASSUME CaptureInv, ExclusiveInv, NEW t \in Threads, JournalPublish(t)
    PROVE  StoresMove(t) /\ CallMoves(t)
  <1> USE DEF StagePCs, CommitPCs
  <1>1. call[t].pc = "journal" /\ Busy(t) /\ call[t].h \in handles
    BY HandleFacts DEF JournalPublish, At, Busy
  <1>2. StoresMove(t)
    BY StoresStay DEF JournalPublish
  <1>3. ASSUME NEW pc \in {"commit", "forget"}, Goto(t, pc) PROVE CallMoves(t)
    <2>1. call'[t].pc = pc /\ call'[t].h = call[t].h /\ \A u \in Threads : u # t => call'[u] = call[u]
      BY <1>1, <1>3, MovesOn
    <2> QED BY <1>1, <2>1 DEF CallMoves, StillOpen, Busy
  <1> QED BY <1>2, <1>3 DEF JournalPublish

(* Publishing and forgetting clean up their own operation, and no other. *)
LEMMA Cleans ==
    ASSUME CaptureInv, NEW op \in Ops,
           staged' = [staged EXCEPT ![op] = NoChunks], reservations' = Unreserved(op)
    PROVE  Clean(op)' /\ \A other \in Ops : Clean(other) => Clean(other)'
  <1>1. staged \in [Ops -> ChunkMap] /\ reservations \in [Digests -> Ops \union {0}]
    BY DEF CaptureInv, CaptureTypeOK
  <1>2. \A other \in Ops : other # 0
    BY DEF Ops
  <1> QED BY <1>1, <1>2 DEF Clean, Unreserved

LEMMA CommitExclusive ==
    ASSUME CaptureInv, ExclusiveInv, NEW t \in Threads, CommitSnapshot(t)
    PROVE  StoresMove(t) /\ CallMoves(t)
  <1> USE DEF StagePCs, CommitPCs
  <1> DEFINE g == call[t].h
  <1>1. /\ call[t].pc = "commit" /\ Busy(t) /\ g \in handles /\ g.op \in Ops
        /\ g.snap \in Snapshots /\ g.op <= nextOp
    BY HandleFacts DEF CommitSnapshot, At, Busy
  <1>2. CASE UNCHANGED <<snapshots, staged, reservations>> /\ Goto(t, "forget")
    <2>1. StoresMove(t)
      BY <1>2, StoresStay DEF CommitSnapshot
    <2>2. call'[t].pc = "forget" /\ call'[t].h = g /\ \A u \in Threads : u # t => call'[u] = call[u]
      BY <1>1, <1>2, MovesOn
    <2> QED BY <1>1, <2>1, <2>2 DEF CallMoves, StillOpen, Busy
  <1>3. CASE /\ snapshots' = [snapshots EXCEPT ![g.snap] = [op |-> g.op, chunks |-> staged[g.op]]]
             /\ staged' = [staged EXCEPT ![g.op] = NoChunks]
             /\ reservations' = Unreserved(g.op)
             /\ Goto(t, "release")
    <2>1. call'[t].pc = "release" /\ call'[t].h = g /\ \A u \in Threads : u # t => call'[u] = call[u]
      BY <1>1, <1>3, MovesOn
    <2>2. PICK op \in Ops : op = g.op
      BY <1>1
    <2>3. Clean(op)' /\ \A other \in Ops : Clean(other) => Clean(other)'
      BY <1>3, <2>2, Cleans
    <2>4. CallMoves(t)
      <3>1. Clean(call[t].h.op)'
        BY <2>1, <2>2, <2>3 DEF Clean
      <3> QED BY <1>1, <2>1, <3>1 DEF CallMoves, StillOpen, Busy
    <2>5. UNCHANGED <<leases, nextOp, handles>>
      BY DEF CommitSnapshot
    <2>6. \A h \in handles : (LeaseOver(h)' => LeaseOver(h)) /\ (HoldsLease(h)' => HoldsLease(h))
      BY <2>5 DEF LeaseOver, HoldsLease, Releasable
    <2>7. /\ snapshots'[g.snap].op = g.op
          /\ \A s \in Snapshots : s # g.snap => snapshots'[s] = snapshots[s]
      BY <1>1, <1>3 DEF CaptureInv, CaptureTypeOK
    <2>8. ASSUME NEW h \in handles, snapshots'[h.snap].op = h.op
          PROVE  snapshots[h.snap].op = h.op \/ h = g
      <3>1. h.snap \in Snapshots
        BY HandleFacts
      <3>2. CASE h.snap = g.snap
        BY <1>1, <2>7, <2>8, <3>2, HandleFacts
      <3>3. CASE h.snap # g.snap
        BY <2>7, <2>8, <3>1, <3>3
      <3> QED BY <3>2, <3>3
    <2>9. \A s \in Snapshots : snapshots'[s].op <= nextOp
      BY <1>1, <2>7 DEF ExclusiveInv
    <2>10. StoresMove(t)
      BY <1>1, <2>1, <2>3, <2>5, <2>6, <2>8, <2>9, HandleFacts DEF StoresMove
    <2> QED BY <2>4, <2>10
  <1> QED BY <1>2, <1>3 DEF CommitSnapshot

LEMMA ForgetExclusive ==
    ASSUME CaptureInv, ExclusiveInv, NEW t \in Threads, ForgetOperation(t)
    PROVE  StoresMove(t) /\ CallMoves(t)
  <1> USE DEF StagePCs, CommitPCs
  <1> DEFINE g == call[t].h
  <1>1. call[t].pc = "forget" /\ Busy(t) /\ g \in handles /\ g.op \in Ops
    BY HandleFacts DEF ForgetOperation, At, Busy
  <1>2. call'[t].pc = "drop" /\ call'[t].h = g /\ \A u \in Threads : u # t => call'[u] = call[u]
    BY <1>1, MovesOn DEF ForgetOperation
  <1>3. PICK op \in Ops : op = g.op
    BY <1>1
  <1>4. Clean(op)' /\ \A other \in Ops : Clean(other) => Clean(other)'
    BY <1>3, Cleans DEF ForgetOperation
  <1>5. CallMoves(t)
    <2>1. Clean(call[t].h.op)'
      BY <1>2, <1>3, <1>4 DEF Clean
    <2> QED BY <1>1, <1>2, <2>1 DEF CallMoves, StillOpen, Busy
  <1>6. UNCHANGED <<leases, snapshots, nextOp, handles>>
    BY DEF ForgetOperation
  <1>7. \A h \in handles : (LeaseOver(h)' => LeaseOver(h)) /\ (HoldsLease(h)' => HoldsLease(h))
    BY <1>6 DEF LeaseOver, HoldsLease, Releasable
  <1>8. StoresMove(t)
    BY <1>4, <1>6, <1>7, HandleFacts DEF StoresMove, ExclusiveInv
  <1> QED BY <1>5, <1>8

(* The lease is given back: of the handles only the caller's can be over by it. *)
LEMMA ReleaseExclusive ==
    ASSUME CaptureInv, ExclusiveInv, NEW t \in Threads, ReleaseCapture(t) \/ DropLease(t)
    PROVE  StoresMove(t) /\ CallMoves(t)
  <1> USE DEF StagePCs, CommitPCs
  <1> DEFINE g == call[t].h
  <1>1. /\ call[t].pc \in {"release", "drop"} /\ Busy(t) /\ g \in handles /\ g.snap \in Snapshots
    BY HandleFacts DEF ReleaseCapture, DropLease, At, Busy
  <1>2. ~Busy(t)' /\ call'[t].pc = "idle" /\ \A u \in Threads : u # t => call'[u] = call[u]
    BY Returns DEF ReleaseCapture, DropLease
  <1>3. UNCHANGED <<staged, reservations, snapshots, nextOp, handles>>
    BY DEF ReleaseCapture, DropLease
  <1>4. \/ HoldsLease(g) /\ leases' = [leases EXCEPT ![g.snap].released = TRUE]
        \/ ~HoldsLease(g) /\ leases' = leases
    BY DEF ReleaseCapture, DropLease, ReleaseIfOwned, ReleaseLease, HoldsLease
  <1>5. leases \in [Snapshots -> Lease]
    BY DEF CaptureInv, CaptureTypeOK, LeaseTypeOK, Snapshots
  <1>6. CASE leases' = leases /\ ~HoldsLease(g)
    <2>1. StoresMove(t)
      BY <1>3, <1>6, StoresStay
    <2>2. \A h \in handles : g = h => ~HoldsLease(h)'
      BY <1>6 DEF HoldsLease, Releasable
    <2> QED BY <1>1, <1>2, <2>1, <2>2 DEF CallMoves, StillOpen
  <1>7. CASE HoldsLease(g) /\ leases' = [leases EXCEPT ![g.snap].released = TRUE]
    <2>1. leases[g.snap] \in Lease
      BY <1>1, <1>5
    <2>2. /\ leases'[g.snap].released /\ leases'[g.snap].epoch = leases[g.snap].epoch
          /\ \A s \in Snapshots : s # g.snap => leases'[s] = leases[s]
      BY <1>1, <1>5, <1>7, <2>1 DEF Lease
    <2>3. ASSUME NEW h \in handles
          PROVE  (LeaseOver(h)' => LeaseOver(h) \/ h = g) /\ (HoldsLease(h)' => HoldsLease(h) /\ h # g)
      <3>1. h.snap \in Snapshots
        BY HandleFacts
      <3>2. CASE h.snap = g.snap
        <4>1. leases[h.snap].epoch = g.epoch
          BY <1>7, <3>2 DEF HoldsLease, Releasable
        <4>2. LeaseOver(h)' => h.epoch = g.epoch
          BY <2>2, <3>2, <4>1 DEF LeaseOver
        <4>3. LeaseOver(h)' => h = g
          BY <1>1, <3>2, <4>2 DEF CaptureInv, EpochsAreUnique
        <4>4. ~HoldsLease(h)'
          BY <2>2, <3>2 DEF HoldsLease, Releasable
        <4> QED BY <4>3, <4>4
      <3>3. CASE h.snap # g.snap
        BY <2>2, <3>1, <3>3 DEF LeaseOver, HoldsLease, Releasable
      <3> QED BY <3>2, <3>3
    <2>4. \A op \in Ops : Clean(op) => Clean(op)'
      BY <1>3 DEF Clean
    <2>5. StoresMove(t)
      BY <1>1, <1>3, <2>3, <2>4, HandleFacts DEF StoresMove, ExclusiveInv
    <2>6. CallMoves(t)
      BY <1>1, <1>2, <2>3 DEF CallMoves, StillOpen
    <2> QED BY <2>5, <2>6
  <1> QED BY <1>4, <1>6, <1>7

LEMMA ExclusiveInit == CaptureInit => ExclusiveInv
  <1> SUFFICES ASSUME CaptureInit PROVE ExclusiveInv OBVIOUS
  <1>1. handles = {} /\ \A t \in Threads : call[t].pc = "idle"
    BY DEF CaptureInit, Idle
  <1>2. \A s \in Snapshots : snapshots[s].op <= nextOp
    BY DEF CaptureInit, NotPublished
  <1>3. \A op \in Ops : Clean(op)
    <2>1. \A op \in Ops : op # 0
      BY DEF Ops
    <2> QED BY <2>1 DEF CaptureInit, Clean
  <1> QED BY <1>1, <1>2, <1>3 DEF ExclusiveInv, OverLeavesNothing, UsesHandle, StagePCs, CommitPCs

LEMMA ExclusiveNext ==
    ASSUME ~SharedHandles, CaptureInv, ExclusiveInv, [CaptureNext]_captureVars
    PROVE  ExclusiveInv'
  <1>0. CaptureInv'
    BY InvNext
  <1>1. ASSUME NEW t \in Threads, Step(t) PROVE ExclusiveInv'
    <2>1. StoresMove(t) /\ CallMoves(t)
      BY <1>1, AcquireExclusive, IssueExclusive, StageExclusive, JournalExclusive, CommitExclusive,
         ForgetExclusive, ReleaseExclusive DEF Step
    <2> QED BY <1>0, <2>1, ExclusiveKeeps
  <1>2. ASSUME NEW t \in Threads,
               \/ \E s \in Snapshots, o \in Owners : BeginCapture(t, s, o)
               \/ \E h \in handles, i \in Indexes, d \in Digests : StageChunk(t, h, i, d)
               \/ \E h \in handles : CommitCapture(t, h) \/ AbortCapture(t, h)
        PROVE  ExclusiveInv'
    BY <1>0, <1>2, BeginsExclusive, ExclusiveKeeps
  <1>3. CASE EnvironmentQuiet \/ UNCHANGED captureVars
    <2>1. UNCHANGED <<leases, staged, reservations, snapshots, nextOp, handles, call>>
      BY <1>3 DEF EnvironmentQuiet, Tick, captureVars
    <2> QED BY <2>1 DEF ExclusiveInv, OverLeavesNothing, Over, Ended, Clean, UsesHandle, Releasable, At
  <1> QED BY <1>1, <1>2, <1>3, NextCases

(* If callers do not overlap two calls on one handle, a capture whose lease was
   given back or whose operation is published, and on which no call runs, leaves
   no staged chunk and no reserved digest in catalog.Store: CommitCapture, its
   failures, AbortCapture, a lease that expires or is taken over, and every other
   capture included. *)
THEOREM OverIsClean == ~SharedHandles => (CaptureSpec => []OverLeavesNothing)
  <1> SUFFICES ASSUME ~SharedHandles PROVE CaptureSpec => []OverLeavesNothing
    OBVIOUS
  <1>1. CaptureInit => CaptureInv /\ ExclusiveInv
    BY InvInit, ExclusiveInit
  <1>2. CaptureInv /\ ExclusiveInv /\ [CaptureNext]_captureVars => (CaptureInv /\ ExclusiveInv)'
    BY InvNext, ExclusiveNext
  <1>3. ExclusiveInv => OverLeavesNothing
    BY DEF ExclusiveInv
  <1> QED BY <1>1, <1>2, <1>3, PTL DEF CaptureSpec
=============================================================================
