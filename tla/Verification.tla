----------------------------- MODULE Verification -----------------------------
(***************************************************************************)
(* What happens to a snapshot after it was captured, as long as nobody     *)
(* restores it: VerifySnapshot, ApplyRetention, Rollback and Replay of     *)
(* internal/service over the catalog, the journal and the receipts of      *)
(* internal/verify.  Each service call is a sequence of store steps, and   *)
(* call[t] holds what goroutine t has read and not yet used.               *)
(*                                                                         *)
(* Publish stands for the end of a capture, which Capture models in full:  *)
(* the journal entry first, then the catalog.  A call that fails without   *)
(* having changed anything is not an action.                               *)
(***************************************************************************)
EXTENDS Catalog, Journal

CONSTANTS Threads,
          MaxGens,      \* BOUND on captures
          MaxEntries,   \* BOUND on the journal
          MaxTime       \* BOUND on the clock

ASSUME VerificationAssumption ==
    MaxGens \in Nat /\ MaxEntries \in Nat /\ MaxTime \in Nat

VARIABLES now,        \* what clock.Now() returns
          nextGen,    \* Service.generation
          receipts,   \* snapshot -> generation of its receipt, 0 if it has none
          replayed,   \* Service.replayGenerations
          call        \* goroutine -> the call it is in

verifVars == <<catalog, restoreRefs, entries, closed, now, nextGen, receipts, replayed, call>>

Gens == 1..MaxGens

Kinds == {"publish", "verify", "rollback"}

(* op is the Operation, which its generation stands for. *)
Entry == [kind: Kinds, snap: Snapshots, op: Gens, gen: Gens]

Idle == [pc |-> "idle"]

Call ==
    {Idle}
    \union [pc: {"publish"}, snap: Snapshots, gen: Gens, full: BOOLEAN, created: Nat]
    \union [pc: {"journal", "setstate", "receipt"}, snap: Snapshots, gen: Gens]
    \union [pc: {"rollback"}, snap: Snapshots, gen: Gens]
    \union [pc: {"replay"}, todo: Seq(Entry)]

VerificationTypeOK ==
    /\ CatalogTypeOK
    /\ entries \in Seq(Entry)
    /\ closed \in BOOLEAN
    /\ now \in 0..MaxTime
    /\ nextGen \in 0..MaxGens
    /\ receipts \in [Snapshots -> 0..MaxGens]
    /\ replayed \in [Gens -> 0..MaxGens]
    /\ call \in [Threads -> Call]

VerificationInit ==
    /\ CatalogInit
    /\ JournalInit
    /\ now = 0
    /\ nextGen = 0
    /\ receipts = [s \in Snapshots |-> 0]
    /\ replayed = [g \in Gens |-> 0]
    /\ call = [t \in Threads |-> Idle]

At(t, pc) == call[t].pc = pc

Goto(t, pc) == call' = [call EXCEPT ![t].pc = pc]

Return(t) == call' = [call EXCEPT ![t] = Idle]

Begin(t, c) == At(t, "idle") /\ call' = [call EXCEPT ![t] = c]

(* BOUND: a call that will write to the journal starts only if its entry fits. *)
RoomInJournal ==
    Len(entries) + Cardinality({t \in Threads : At(t, "journal") \/ At(t, "rollback")}) < MaxEntries

------------------------------------------------------------------------------
(* The end of CommitCapture: journal, then catalog.                         *)

JournalPublish(t, s, full) ==
    /\ RoomInJournal
    /\ nextGen < MaxGens
    /\ nextGen' = nextGen + 1
    /\ AppendEntry([kind |-> "publish", snap |-> s, op |-> nextGen + 1, gen |-> nextGen + 1])
    /\ Begin(t, [pc |-> "publish", snap |-> s, gen |-> nextGen + 1, full |-> full, created |-> now])
    /\ UNCHANGED <<catalog, restoreRefs, now, receipts, replayed>>

Publish(t) ==
    /\ At(t, "publish")
    /\ LET c == call[t] IN CommitSnapshot(c.snap, c.gen, c.full, c.created)
    /\ Return(t)
    /\ UNCHANGED <<restoreRefs, entries, closed, now, nextGen, receipts, replayed>>

------------------------------------------------------------------------------
(* VerifySnapshot(snapshotID)                                               *)

(* The copy that is read here is used, however old, until the call ends. *)
VerifySnapshot(t, s) ==
    /\ RoomInJournal
    /\ catalog[s].state = "published"
    /\ Begin(t, [pc |-> "journal", snap |-> s, gen |-> catalog[s].gen])
    /\ UNCHANGED <<catalog, restoreRefs, entries, closed, now, nextGen, receipts, replayed>>

(* A mutant of JournalVerify: the error of Append is ignored. *)
JournalVerifyUnchecked(t) ==
    /\ At(t, "journal")
    /\ LET c == call[t] IN
       IF closed THEN UNCHANGED <<entries, closed>>
       ELSE AppendEntry([kind |-> "verify", snap |-> c.snap, op |-> c.gen, gen |-> c.gen])
    /\ Goto(t, "setstate")
    /\ UNCHANGED <<catalog, restoreRefs, now, nextGen, receipts, replayed>>

JournalVerify(t) ==
    /\ At(t, "journal")
    /\ LET c == call[t] IN
       \/ /\ AppendEntry([kind |-> "verify", snap |-> c.snap, op |-> c.gen, gen |-> c.gen])
          /\ Goto(t, "setstate")
       \/ /\ closed
          /\ Return(t)
          /\ UNCHANGED <<entries, closed>>
    /\ UNCHANGED <<catalog, restoreRefs, now, nextGen, receipts, replayed>>

(* The error path deletes the receipt of the generation that was verified. *)
SetVerified(t) ==
    /\ At(t, "setstate")
    /\ LET c == call[t] IN
       IF CanSetState(c.snap, c.gen)
       THEN /\ SetState(c.snap, "verified")
            /\ Goto(t, "receipt")
            /\ UNCHANGED receipts
       ELSE /\ receipts' = [receipts EXCEPT ![c.snap] = IF @ = c.gen THEN 0 ELSE @]
            /\ Return(t)
            /\ UNCHANGED catalog
    /\ UNCHANGED <<restoreRefs, entries, closed, now, nextGen, replayed>>

CommitReceipt(t) ==
    /\ At(t, "receipt")
    /\ receipts' = [receipts EXCEPT ![call[t].snap] = call[t].gen]
    /\ Return(t)
    /\ UNCHANGED <<catalog, restoreRefs, entries, closed, now, nextGen, replayed>>

------------------------------------------------------------------------------
(* ApplyRetention(keep): one step of the catalog.                           *)

ApplyRetention(t, keep) ==
    /\ At(t, "idle")
    /\ ExpireUnprotected(keep)
    /\ UNCHANGED <<restoreRefs, entries, closed, now, nextGen, receipts, replayed, call>>

------------------------------------------------------------------------------
(* Rollback(snapshotID): the generation of the current snapshot never       *)
(* changes, so reading it and choosing the target are one step.             *)

Rollback(t, s) ==
    /\ RoomInJournal
    /\ Exists(s)
    /\ \E target \in LastVerifiedFull(catalog[s].gen) :
          Begin(t, [pc |-> "rollback", snap |-> target, gen |-> catalog[s].gen])
    /\ UNCHANGED <<catalog, restoreRefs, entries, closed, now, nextGen, receipts, replayed>>

JournalRollback(t) ==
    /\ At(t, "rollback")
    /\ LET c == call[t] IN
       \/ AppendEntry([kind |-> "rollback", snap |-> c.snap, op |-> c.gen, gen |-> c.gen])
       \/ closed /\ UNCHANGED <<entries, closed>>
    /\ Return(t)
    /\ UNCHANGED <<catalog, restoreRefs, now, nextGen, receipts, replayed>>

------------------------------------------------------------------------------
(* Replay(entries) of a copy of the journal, however old.                   *)

(* journal.LatestByOperation: per operation the entry with the greatest
   generation, the last of those, in the order operations first appear. *)
LatestByOperation(log) ==
    LET later(i, j) == log[j].gen > log[i].gen \/ (log[j].gen = log[i].gen /\ j > i)
        same(i)     == {j \in DOMAIN log : log[j].op = log[i].op}
        firsts      == {i \in DOMAIN log : \A j \in same(i) : i <= j}
        latest(i)   == CHOOSE j \in same(i) : \A k \in same(i) : ~later(j, k)
        nth(n)      == CHOOSE i \in firsts : Cardinality({j \in firsts : j < i}) = n - 1
    IN  [n \in 1..Cardinality(firsts) |-> log[latest(nth(n))]]

(* Service.mu lets one Replay run at a time. *)
Replay(t, n) ==
    /\ \A u \in Threads : ~At(u, "replay")
    /\ Begin(t, [pc |-> "replay", todo |-> LatestByOperation(SubSeq(entries, 1, n))])
    /\ UNCHANGED <<catalog, restoreRefs, entries, closed, now, nextGen, receipts, replayed>>

(* A mutant of ReplayEntry: what was replayed before is not skipped. *)
ReplayEntryAgain(t) ==
    /\ At(t, "replay")
    /\ call[t].todo # <<>>
    /\ LET e == Head(call[t].todo) IN
       /\ replayed' = [replayed EXCEPT ![e.op] = e.gen]
       /\ IF e.kind = "verify" /\ CanSetState(e.snap, e.gen)
          THEN SetState(e.snap, "verified") ELSE UNCHANGED catalog
    /\ call' = [call EXCEPT ![t].todo = Tail(@)]
    /\ UNCHANGED <<restoreRefs, entries, closed, now, nextGen, receipts>>

(* One entry of the loop.  Of SetState's errors ErrNotFound is passed over
   and ErrConflict ends the call. *)
ReplayEntry(t) ==
    /\ At(t, "replay")
    /\ call[t].todo # <<>>
    /\ LET e == Head(call[t].todo) IN
       \/ /\ e.gen <= replayed[e.op]
          /\ call' = [call EXCEPT ![t].todo = Tail(@)]
          /\ UNCHANGED <<replayed, catalog>>
       \/ /\ e.gen > replayed[e.op]
          /\ replayed' = [replayed EXCEPT ![e.op] = e.gen]
          /\ IF e.kind = "verify" /\ CanSetState(e.snap, e.gen)
             THEN SetState(e.snap, "verified") ELSE UNCHANGED catalog
          /\ IF e.kind = "verify" /\ Exists(e.snap) /\ catalog[e.snap].gen # e.gen
             THEN Return(t) ELSE call' = [call EXCEPT ![t].todo = Tail(@)]
    /\ UNCHANGED <<restoreRefs, entries, closed, now, nextGen, receipts>>

ReplayDone(t) ==
    /\ At(t, "replay")
    /\ call[t].todo = <<>>
    /\ Return(t)
    /\ UNCHANGED <<catalog, restoreRefs, entries, closed, now, nextGen, receipts, replayed>>

------------------------------------------------------------------------------
PassTime ==
    /\ now < MaxTime
    /\ now' = now + 1
    /\ UNCHANGED <<entries, closed>>

Step(t) ==
    \/ Publish(t)
    \/ JournalVerify(t) \/ SetVerified(t) \/ CommitReceipt(t)
    \/ JournalRollback(t)
    \/ ReplayEntry(t) \/ ReplayDone(t)

Environment ==
    \/ \E t \in Threads, s \in Snapshots, full \in BOOLEAN : JournalPublish(t, s, full)
    \/ \E t \in Threads, s \in Snapshots : VerifySnapshot(t, s) \/ Rollback(t, s)
    \/ \E t \in Threads, keep \in 0..Cardinality(Snapshots) : ApplyRetention(t, keep)
    \/ \E t \in Threads, n \in 1..Len(entries) : Replay(t, n)
    \/ /\ PassTime \/ ((CloseJournal \/ OpenJournal) /\ UNCHANGED now)
       /\ UNCHANGED <<catalog, restoreRefs, nextGen, receipts, replayed, call>>

VerificationNext == Environment \/ \E t \in Threads : Step(t)

VerificationSpec == VerificationInit /\ [][VerificationNext]_verifVars

------------------------------------------------------------------------------
(* Properties.                                                              *)

(* The verify entry of a generation is in the journal. *)
VerifyLogged(s, g) ==
    \E i \in DOMAIN entries :
        entries[i].kind = "verify" /\ entries[i].snap = s /\ entries[i].gen = g

(* Neither a verified state nor a receipt exists without the journal entry
   that made it durable, and a receipt is never of another generation than
   the snapshot it is filed under. *)
VerifiedIsJournaled ==
    \A s \in Snapshots :
        /\ catalog[s].state = "verified" => VerifyLogged(s, catalog[s].gen)
        /\ receipts[s] # 0 => receipts[s] = catalog[s].gen /\ VerifyLogged(s, receipts[s])

(* What a verification read at its start still holds at every later step: the
   snapshot is in the catalog under the same generation, so SetState cannot
   conflict and the entry, the state and the receipt are of one generation. *)
VerifyNeverConflicts ==
    \A t \in Threads :
        /\ call[t].pc \in {"journal", "setstate", "receipt"} => CanSetState(call[t].snap, call[t].gen)
        /\ call[t].pc \in {"setstate", "receipt"} => VerifyLogged(call[t].snap, call[t].gen)

(* The inductive invariant: types, and what every call in progress relies on. *)
VerificationInv ==
    /\ VerificationTypeOK
    /\ VerifyNeverConflicts
    /\ VerifiedIsJournaled
    /\ \A s \in Snapshots : Exists(s) => catalog[s].gen \in 1..nextGen
    /\ \A i \in DOMAIN entries :
          /\ entries[i].op = entries[i].gen
          /\ entries[i].kind = "verify" =>
                Exists(entries[i].snap) /\ catalog[entries[i].snap].gen = entries[i].gen
    /\ \A t \in Threads : At(t, "publish") => call[t].gen <= nextGen
    /\ \A t \in Threads : At(t, "rollback") =>
          LET target == call[t].snap IN
          /\ catalog[target].full
          /\ catalog[target].gen < call[t].gen
          /\ VerifyLogged(target, catalog[target].gen)
    /\ \A t \in Threads : At(t, "replay") =>
          \A i \in DOMAIN call[t].todo : \E j \in DOMAIN entries : call[t].todo[i] = entries[j]

(* Rollback never leads to a snapshot that is not full, not older than the
   one it rolls back, or was not verified before, whatever retention,
   verification and replay did between its steps. *)
RollbackGoesBack ==
    \A i \in DOMAIN entries : entries[i].kind = "rollback" =>
        LET target == entries[i].snap IN
        /\ catalog[target].full
        /\ catalog[target].gen < entries[i].gen
        /\ \E j \in 1..(i - 1) :
              entries[j].kind = "verify" /\ entries[j].snap = target
                /\ entries[j].gen = catalog[target].gen

(* Replaying a journal twice changes nothing the second time: a snapshot that
   expired after its operation was replayed is not brought back by Replay. *)
ReplayIsOnce ==
    [][\A t \in Threads, s \in Snapshots :
          At(t, "replay") /\ call'[t] # call[t]
            /\ Exists(s) /\ replayed[catalog[s].gen] = catalog[s].gen
              => catalog'[s] = catalog[s]]_verifVars
=============================================================================
