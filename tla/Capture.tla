------------------------------- MODULE Capture -------------------------------
(***************************************************************************)
(* The capture workflow: internal/service/capture.go over the lease store, *)
(* the journal and the staging half of internal/catalog/store.go.          *)
(*                                                                         *)
(* Service methods run in goroutines that share the stores.  Every store   *)
(* locks for the length of one of its own methods and no longer, so a      *)
(* service call is a sequence of atomic store steps between which any      *)
(* other goroutine may run.  call[t] says how far the call of goroutine t  *)
(* has come; a handle, once issued, may be used by whoever holds it.       *)
(*                                                                         *)
(* Chunks are known by their digest.  Operation and Generation of a handle *)
(* are two fresh numbers that the code compares only for equality; one     *)
(* number, op, stands for both.  A call that fails before it changes       *)
(* anything (bad arguments, cancelled context, Validate fails) is not an   *)
(* action: it leaves every variable as it was.                             *)
(***************************************************************************)
EXTENDS LeaseStore, Journal, FiniteSets

CONSTANTS Threads,        \* goroutines that call the service
          Digests,        \* chunk contents
          Indexes,        \* chunk indexes
          NoDigest,       \* "no chunk at this index"
          MaxChunks,      \* catalog.Store.maxChunkCount
          SharedHandles,  \* may two calls on one handle overlap?
          MaxOps          \* BOUND on the number of captures begun

ASSUME CaptureAssumption ==
    /\ NoDigest \notin Digests
    /\ MaxChunks \in Nat \ {0}
    /\ SharedHandles \in BOOLEAN
    /\ MaxOps \in Nat

VARIABLES staged,        \* op -> index -> digest staged so far
          reservations,  \* digest -> op that reserved it, 0 if none
          snapshots,     \* snapshot -> who published it and its chunks
          nextOp,        \* model.NewID and Service.generation
          handles,       \* the CaptureHandles issued so far
          acked,         \* ops whose CommitCapture returned without error
          call           \* goroutine -> the call it is in

captureVars == <<now, leases, entries, closed, staged, reservations, snapshots,
                 nextOp, handles, acked, call>>

(* The lease resource "capture:" + id is named by the snapshot itself. *)
Snapshots == Resources

Ops == 1..MaxOps

ChunkMap == [Indexes -> Digests \union {NoDigest}]

NoChunks == [i \in Indexes |-> NoDigest]

Handle == [op: Ops, snap: Snapshots, owner: Owners, epoch: Nat]

NotPublished == [op |-> 0, chunks |-> NoChunks]

Idle == [pc |-> "idle"]

StagePCs == {"reserve", "stage", "unreserve"}

CommitPCs == {"journal", "commit", "release", "forget", "drop"}

StageCall == [pc: StagePCs, h: Handle, idx: Indexes, dig: Digests]

CommitCall == [pc: CommitPCs, h: Handle]

Call ==
    {Idle}
    \union [pc: {"acquire"}, snap: Snapshots, owner: Owners, at: Nat]
    \union [pc: {"issue"}, snap: Snapshots, owner: Owners, epoch: Nat]
    \union StageCall
    \union CommitCall

LogEntry == [kind: {"publish"}, snap: Snapshots, op: Ops]

PublishEntry(h) == [kind |-> "publish", snap |-> h.snap, op |-> h.op]

CaptureTypeOK ==
    /\ LeaseTypeOK
    /\ entries \in Seq(LogEntry)
    /\ closed \in BOOLEAN
    /\ staged \in [Ops -> ChunkMap]
    /\ reservations \in [Digests -> Ops \union {0}]
    /\ snapshots \in [Snapshots -> [op: Ops \union {0}, chunks: ChunkMap]]
    /\ nextOp \in 0..MaxOps
    /\ handles \subseteq Handle
    /\ acked \subseteq Ops
    /\ call \in [Threads -> Call]

CaptureInit ==
    /\ LeaseInit
    /\ JournalInit
    /\ staged = [op \in Ops |-> NoChunks]
    /\ reservations = [d \in Digests |-> 0]
    /\ snapshots = [s \in Snapshots |-> NotPublished]
    /\ nextOp = 0
    /\ handles = {}
    /\ acked = {}
    /\ call = [t \in Threads |-> Idle]

------------------------------------------------------------------------------
(* Helpers.                                                                 *)

At(t, pc) == call[t].pc = pc

Goto(t, pc) == call' = [call EXCEPT ![t].pc = pc]

Return(t) == call' = [call EXCEPT ![t] = Idle]

(* A call in progress that was given the handle h. *)
UsesHandle(c, h) == c.pc \in StagePCs \union CommitPCs /\ c.h = h

(* Goroutine t may start a call on h. *)
Usable(t, h) ==
    /\ At(t, "idle")
    /\ SharedHandles \/ \A u \in Threads : ~UsesHandle(call[u], h)

HandleValid(h) == Valid(h.snap, h.owner, h.epoch, now)

StagedCount(op) == Cardinality({i \in Indexes : staged[op][i] # NoDigest})

(* reservations without those of op: the loops that delete them. *)
Unreserved(op) ==
    [d \in Digests |-> IF reservations[d] = op THEN 0 ELSE reservations[d]]

------------------------------------------------------------------------------
(* BeginCapture(ctx, snapshotID, owner, ttl)                                *)

(* The clock is read before Acquire locks the lease store. *)
BeginCapture(t, s, o) ==
    /\ At(t, "idle")
    /\ nextOp + Cardinality({u \in Threads : At(u, "acquire") \/ At(u, "issue")}) < MaxOps
    /\ call' = [call EXCEPT ![t] = [pc |-> "acquire", snap |-> s, owner |-> o, at |-> now]]
    /\ UNCHANGED <<now, leases, entries, closed, staged, reservations, snapshots,
                   nextOp, handles, acked>>

Acquire(t) ==
    /\ At(t, "acquire")
    /\ LET c == call[t] IN
       \/ /\ Held(c.snap, c.at)
          /\ Return(t)
          /\ UNCHANGED leases
       \/ /\ ~Held(c.snap, c.at)
          /\ \E ttl \in TTLs : AcquireLease(c.snap, c.owner, c.at, ttl)
          /\ call' = [call EXCEPT ![t] =
                [pc |-> "issue", snap |-> c.snap, owner |-> c.owner,
                 epoch |-> leases[c.snap].epoch + 1]]
    /\ UNCHANGED <<now, entries, closed, staged, reservations, snapshots, nextOp,
                   handles, acked>>

IssueHandle(t) ==
    /\ At(t, "issue")
    /\ nextOp < MaxOps
    /\ nextOp' = nextOp + 1
    /\ handles' = handles \union
            {[op |-> nextOp + 1, snap |-> call[t].snap, owner |-> call[t].owner,
              epoch |-> call[t].epoch]}
    /\ Return(t)
    /\ UNCHANGED <<now, leases, entries, closed, staged, reservations, snapshots, acked>>

------------------------------------------------------------------------------
(* StageChunk(handle, index, data)                                          *)

StageChunk(t, h, i, d) ==
    /\ Usable(t, h)
    /\ HandleValid(h)
    /\ call' = [call EXCEPT ![t] = [pc |-> "reserve", h |-> h, idx |-> i, dig |-> d]]
    /\ UNCHANGED <<now, leases, entries, closed, staged, reservations, snapshots,
                   nextOp, handles, acked>>

ReserveDigest(t) ==
    /\ At(t, "reserve")
    /\ LET c == call[t] IN
       \/ /\ reservations[c.dig] \notin {0, c.h.op}
          /\ Return(t)
          /\ UNCHANGED reservations
       \/ /\ reservations[c.dig] \in {0, c.h.op}
          /\ reservations' = [reservations EXCEPT ![c.dig] = c.h.op]
          /\ Goto(t, "stage")
    /\ UNCHANGED <<now, leases, entries, closed, staged, snapshots, nextOp, handles, acked>>

(* Mutant of CanStage: an index that is already staged may be overwritten. *)
CanStageOverwrite(op, i, d) ==
    staged[op][i] = NoDigest => StagedCount(op) < MaxChunks

(* catalog.Store.StageChunk accepts: capacity left, or the same chunk again. *)
CanStage(op, i, d) ==
    IF staged[op][i] = NoDigest THEN StagedCount(op) < MaxChunks ELSE staged[op][i] = d

StageInCatalog(t) ==
    /\ At(t, "stage")
    /\ LET c == call[t] IN
       \/ /\ CanStage(c.h.op, c.idx, c.dig)
          /\ staged' = [staged EXCEPT ![c.h.op][c.idx] = c.dig]
          /\ Return(t)
       \/ /\ ~CanStage(c.h.op, c.idx, c.dig)
          /\ Goto(t, "unreserve")
          /\ UNCHANGED staged
    /\ UNCHANGED <<now, leases, entries, closed, reservations, snapshots, nextOp,
                   handles, acked>>

(* The reservation is undone, also when it was made by an earlier chunk. *)
ReleaseDigest(t) ==
    /\ At(t, "unreserve")
    /\ LET c == call[t] IN
       reservations' = [reservations EXCEPT ![c.dig] = IF @ = c.h.op THEN 0 ELSE @]
    /\ Return(t)
    /\ UNCHANGED <<now, leases, entries, closed, staged, snapshots, nextOp, handles, acked>>

------------------------------------------------------------------------------
(* CommitCapture(handle, baseID, full, metadata) and AbortCapture(handle)   *)

CommitCapture(t, h) ==
    /\ Usable(t, h)
    /\ HandleValid(h)
    /\ call' = [call EXCEPT ![t] = [pc |-> "journal", h |-> h]]
    /\ UNCHANGED <<now, leases, entries, closed, staged, reservations, snapshots,
                   nextOp, handles, acked>>

(* Mutants of JournalPublish: the error of Append is ignored; the failed
   commit returns without cleaning up. *)
JournalPublishUnchecked(t) ==
    /\ At(t, "journal")
    /\ Goto(t, "commit")
    /\ IF closed THEN UNCHANGED <<entries, closed>> ELSE AppendEntry(PublishEntry(call[t].h))
    /\ UNCHANGED <<now, leases, staged, reservations, snapshots, nextOp, handles, acked>>

JournalPublishNoCleanup(t) ==
    /\ At(t, "journal")
    /\ \/ /\ AppendEntry(PublishEntry(call[t].h))
          /\ Goto(t, "commit")
       \/ /\ closed
          /\ Return(t)
          /\ UNCHANGED <<entries, closed>>
    /\ UNCHANGED <<now, leases, staged, reservations, snapshots, nextOp, handles, acked>>

JournalPublish(t) ==
    /\ At(t, "journal")
    /\ \/ /\ AppendEntry(PublishEntry(call[t].h))
          /\ Goto(t, "commit")
       \/ /\ closed
          /\ Goto(t, "forget")
          /\ UNCHANGED <<entries, closed>>
    /\ UNCHANGED <<now, leases, staged, reservations, snapshots, nextOp, handles, acked>>

(* Mutants of CommitSnapshot: the test that the snapshot exists is dropped;
   the reservations of the operation are not deleted. *)
CommitSnapshotOverwrite(t) ==
    /\ At(t, "commit")
    /\ LET h == call[t].h IN
       /\ staged[h.op] # NoChunks
       /\ snapshots' = [snapshots EXCEPT ![h.snap] = [op |-> h.op, chunks |-> staged[h.op]]]
       /\ staged' = [staged EXCEPT ![h.op] = NoChunks]
       /\ reservations' = Unreserved(h.op)
    /\ Goto(t, "release")
    /\ UNCHANGED <<now, leases, entries, closed, nextOp, handles, acked>>

CommitSnapshotLeak(t) ==
    /\ At(t, "commit")
    /\ LET h == call[t].h IN
       /\ snapshots[h.snap].op = 0
       /\ staged[h.op] # NoChunks
       /\ snapshots' = [snapshots EXCEPT ![h.snap] = [op |-> h.op, chunks |-> staged[h.op]]]
       /\ staged' = [staged EXCEPT ![h.op] = NoChunks]
    /\ Goto(t, "release")
    /\ UNCHANGED <<now, leases, entries, closed, reservations, nextOp, handles, acked>>

CommitSnapshot(t) ==
    /\ At(t, "commit")
    /\ LET h == call[t].h IN
       \/ /\ snapshots[h.snap].op = 0
          /\ staged[h.op] # NoChunks
          /\ snapshots' = [snapshots EXCEPT ![h.snap] = [op |-> h.op, chunks |-> staged[h.op]]]
          /\ staged' = [staged EXCEPT ![h.op] = NoChunks]
          /\ reservations' = Unreserved(h.op)
          /\ Goto(t, "release")
       \/ /\ snapshots[h.snap].op # 0 \/ staged[h.op] = NoChunks
          /\ Goto(t, "forget")
          /\ UNCHANGED <<snapshots, staged, reservations>>
    /\ UNCHANGED <<now, leases, entries, closed, nextOp, handles, acked>>

(* The snapshot is published, but a fenced caller is told ErrLeaseFenced. *)
ReleaseCapture(t) ==
    /\ At(t, "release")
    /\ LET h == call[t].h IN
       \/ /\ Releasable(h.snap, h.owner, h.epoch)
          /\ ReleaseLease(h.snap)
          /\ acked' = acked \union {h.op}
       \/ /\ ~Releasable(h.snap, h.owner, h.epoch)
          /\ UNCHANGED <<leases, acked>>
    /\ Return(t)
    /\ UNCHANGED <<now, entries, closed, staged, reservations, snapshots, nextOp, handles>>

AbortCapture(t, h) ==
    /\ Usable(t, h)
    /\ call' = [call EXCEPT ![t] = [pc |-> "forget", h |-> h]]
    /\ UNCHANGED <<now, leases, entries, closed, staged, reservations, snapshots,
                   nextOp, handles, acked>>

(* The tail of AbortCapture and of a CommitCapture that failed. *)
ForgetOperation(t) ==
    /\ At(t, "forget")
    /\ staged' = [staged EXCEPT ![call[t].h.op] = NoChunks]
    /\ reservations' = Unreserved(call[t].h.op)
    /\ Goto(t, "drop")
    /\ UNCHANGED <<now, leases, entries, closed, snapshots, nextOp, handles, acked>>

DropLease(t) ==
    /\ At(t, "drop")
    /\ LET h == call[t].h IN ReleaseIfOwned(h.snap, h.owner, h.epoch)
    /\ Return(t)
    /\ UNCHANGED <<now, entries, closed, staged, reservations, snapshots, nextOp,
                   handles, acked>>

------------------------------------------------------------------------------
(* The steps inside a call, which the Go scheduler takes sooner or later.   *)
Step(t) ==
    \/ Acquire(t) \/ IssueHandle(t)
    \/ ReserveDigest(t) \/ StageInCatalog(t) \/ ReleaseDigest(t)
    \/ JournalPublish(t) \/ CommitSnapshot(t) \/ ReleaseCapture(t)
    \/ ForgetOperation(t) \/ DropLease(t)

(* What callers, operators and time may do and need not. *)
Environment ==
    \/ \E t \in Threads, s \in Snapshots, o \in Owners : BeginCapture(t, s, o)
    \/ \E t \in Threads, h \in handles, i \in Indexes, d \in Digests : StageChunk(t, h, i, d)
    \/ \E t \in Threads, h \in handles : CommitCapture(t, h)
    \/ \E t \in Threads, h \in handles : AbortCapture(t, h)
    \/ /\ \/ Tick /\ UNCHANGED <<entries, closed>>
          \/ (CloseJournal \/ OpenJournal) /\ UNCHANGED <<now, leases>>
       /\ UNCHANGED <<staged, reservations, snapshots, nextOp, handles, acked, call>>

CaptureNext == Environment \/ \E t \in Threads : Step(t)

CaptureSpec == CaptureInit /\ [][CaptureNext]_captureVars

FairCaptureSpec == CaptureSpec /\ \A t \in Threads : WF_captureVars(Step(t))

------------------------------------------------------------------------------
(* Properties.                                                              *)

(* Whatever the catalog shows as published was journaled first: a capture
   that meets a closed journal never reaches CommitSnapshot. *)
PublishedIsJournaled ==
    \A s \in Snapshots :
        snapshots[s].op # 0 => Logged("publish", s, snapshots[s].op)

(* A CommitCapture that returned without error published exactly its own
   operation, and no later capture of the same snapshot has replaced it. *)
AckedIsDurable ==
    \A op \in acked : \E h \in handles : h.op = op /\ snapshots[h.snap].op = op

(* The epoch fences: of all the handles issued for a snapshot, by expiry,
   release and take-over, at most one passes Validate. *)
SingleValidHandle ==
    \A h1, h2 \in handles :
        h1.snap = h2.snap /\ HandleValid(h1) /\ HandleValid(h2) => h1 = h2

(* Why handles are fenced: an epoch belongs to the handle it was issued to,
   or to the one goroutine that is about to issue it. *)
EpochsAreUnique ==
    /\ \A h \in handles : h.op <= nextOp /\ h.epoch <= leases[h.snap].epoch
    /\ \A h1, h2 \in handles :
          h1.op = h2.op \/ (h1.snap = h2.snap /\ h1.epoch = h2.epoch) => h1 = h2
    /\ \A t \in Threads : At(t, "issue") =>
          /\ call[t].epoch <= leases[call[t].snap].epoch
          /\ \A h \in handles : ~(h.snap = call[t].snap /\ h.epoch = call[t].epoch)
          /\ \A u \in Threads \ {t} :
                ~(At(u, "issue") /\ call[u].snap = call[t].snap /\ call[u].epoch = call[t].epoch)

(* What a call knows from its earlier steps still holds when it uses it:
   the handle was issued, the entry is in the journal, the snapshot is its own. *)
CallsKnow ==
    \A t \in Threads :
        /\ call[t].pc \in StagePCs \union CommitPCs => call[t].h \in handles
        /\ At(t, "commit") => Logged("publish", call[t].h.snap, call[t].h.op)
        /\ At(t, "release") => snapshots[call[t].h.snap].op = call[t].h.op

(* The inductive invariant of the proofs. *)
CaptureInv ==
    /\ CaptureTypeOK
    /\ EpochsAreUnique
    /\ CallsKnow
    /\ PublishedIsJournaled
    /\ AckedIsDurable

(* Nothing is staged and no digest is reserved for op. *)
Clean(op) == staged[op] = NoChunks /\ \A d \in Digests : reservations[d] # op

(* The lease of h was released under its own epoch, or its operation is
   published. *)
Ended(h) ==
    \/ leases[h.snap].epoch = h.epoch /\ leases[h.snap].released
    \/ snapshots[h.snap].op = h.op

(* The capture of h is over: it ended, and no call on h is in progress. *)
Over(h) == Ended(h) /\ \A t \in Threads : ~UsesHandle(call[t], h)

(* A capture that is over, committed or not, leaves neither staged chunks nor
   digest reservations behind that would refuse later captures.  It needs
   callers that do not overlap two calls on one handle (SharedHandles). *)
OverLeavesNothing == \A h \in handles : Over(h) => Clean(h.op)

(* What OverLeavesNothing rests on, if no two calls on a handle overlap: a call
   that may still stage is on a capture that has not ended, one that is about to
   give the lease back has cleaned up, and a published capture can be validated
   only until the call that published it gives the lease back. *)
ExclusiveInv ==
    /\ OverLeavesNothing
    /\ \A t, u \in Threads :
          UsesHandle(call[t], call[t].h) /\ UsesHandle(call[u], call[t].h) => t = u
    /\ \A t \in Threads :
          /\ call[t].pc \in StagePCs \union {"journal", "commit"} => ~Ended(call[t].h)
          /\ call[t].pc \in {"release", "drop"} => Clean(call[t].h.op)
    /\ \A h \in handles : snapshots[h.snap].op = h.op =>
          \/ ~Releasable(h.snap, h.owner, h.epoch)
          \/ \E t \in Threads : At(t, "release") /\ call[t].h = h
    /\ \A s \in Snapshots : snapshots[s].op <= nextOp
    /\ \A op \in Ops : op > nextOp => Clean(op)

(* A CommitCapture that got past Validate ends with the operation's staging
   cleared, whether it publishes, finds the journal closed or conflicts. *)
CommitResolves ==
    \A t \in Threads, op \in Ops :
        (At(t, "journal") /\ call[t].h.op = op)
            ~> (staged[op] = NoChunks /\ \A d \in Digests : reservations[d] # op)

Pub == INSTANCE Publication WITH
         draft     <- staged,
         intents   <- {<<entries[i].snap, entries[i].op>> : i \in DOMAIN entries},
         published <- snapshots

(* Capture with leases, races, failures and retries implements Publication:
   chunks are staged at most once per index and within the capacity, and a
   snapshot is published once, whole, after it was journaled. *)
ImplementsPublication == Pub!PubSpec
=============================================================================
