-------------------------------- MODULE Audit --------------------------------
(***************************************************************************)
(* internal/audit/ledger.go: the chain of events every workflow records    *)
(* to.  Ledger.mu makes Record one step.  The hash of an event is sha256,  *)
(* taken as injective, of its fields joined by a bar, the previous hash    *)
(* among them; so a hash is the chain of texts up to its event.  An        *)
(* ObjectID and a Detail come from callers and may hold bars themselves:   *)
(* they are sequences of words.  A Kind is one of the service's own        *)
(* constants and a time has no bar in it: they are left out.               *)
(***************************************************************************)
EXTENDS Integers, Sequences

CONSTANTS Texts,       \* object ids and details callers pass, as sequences of words
          MaxEvents    \* BOUND: events of the ledger

ASSUME AuditAssumption == MaxEvents \in Nat /\ Texts \subseteq Seq(STRING)

VARIABLE ledger

(* The part of the hashed text that is not fixed by its place. *)
JoinedText(e) == e.object \o <<"|">> \o e.detail

HashOf(e) == Append(e.previous, <<e.seq, JoinedText(e)>>)

Genesis == <<>>

AuditInit == ledger = <<>>

RecordEvent(object, detail) ==
    LET e == [seq |-> Len(ledger) + 1, object |-> object, detail |-> detail,
              previous |-> IF ledger = <<>> THEN Genesis ELSE ledger[Len(ledger)].hash]
    IN  /\ Len(ledger) < MaxEvents
        /\ ledger' = Append(ledger, [seq |-> e.seq, object |-> object, detail |-> detail,
                                      previous |-> e.previous, hash |-> HashOf(e)])

(* A mutant of VerifyChain: the links are not compared. *)
VerifyChainUnlinked(events) ==
    \A i \in DOMAIN events : events[i].seq = i /\ events[i].hash = HashOf(events[i])

(* Verify returns nil. *)
VerifyChain(events) ==
    \A i \in DOMAIN events :
        /\ events[i].seq = i
        /\ events[i].previous = IF i = 1 THEN Genesis ELSE events[i - 1].hash
        /\ events[i].hash = HashOf(events[i])

(* EventsFor goes through the events from the first and appends to its result. *)
EventsFor(object) ==
    LET UpTo[i \in 0..Len(ledger)] ==
            IF i = 0 THEN <<>>
            ELSE IF ledger[i].object = object THEN Append(UpTo[i - 1], ledger[i]) ELSE UpTo[i - 1]
    IN  UpTo[Len(ledger)]

(* Latest looks from the end: none or one. *)
Latest(object) ==
    {ledger[i] : i \in {j \in DOMAIN ledger :
        /\ ledger[j].object = object
        /\ \A k \in DOMAIN ledger : k > j => ledger[k].object # object}}

AuditNext == \E object, detail \in Texts : RecordEvent(object, detail)

AuditSpec == AuditInit /\ [][AuditNext]_ledger

-----------------------------------------------------------------------------
(* Event i with another object or detail; rehashed, its own hash fits again. *)
Edited(i, object, detail) == [ledger[i] EXCEPT !.object = object, !.detail = detail]

Rehashed(e) == [e EXCEPT !.hash = HashOf(e)]

Removed(i) == SubSeq(ledger, 1, i - 1) \o SubSeq(ledger, i + 1, Len(ledger))

Swapped(i, j) == [ledger EXCEPT ![i] = ledger[j], ![j] = ledger[i]]

(* What Record wrote verifies.  A copy of the ledger in which one event was
   edited verifies only if the text that is hashed is the same (a bar moved
   from one field into the next), even if the hash of the event was made to
   fit, unless it is the last; nor does a copy verify that lacks an event
   before the last or has two in another order.  And the two ways to look
   events up agree on the last event of an object.                           *)
TamperEvident ==
    /\ VerifyChain(ledger)
    /\ \A i \in DOMAIN ledger :
          /\ \A object, detail \in Texts :
                LET e == Edited(i, object, detail) IN
                JoinedText(e) # JoinedText(ledger[i]) =>
                    /\ ~VerifyChain([ledger EXCEPT ![i] = e])
                    /\ i < Len(ledger) => ~VerifyChain([ledger EXCEPT ![i] = Rehashed(e)])
          /\ i < Len(ledger) => ~VerifyChain(Removed(i))
          /\ \A j \in DOMAIN ledger : i # j => ~VerifyChain(Swapped(i, j))
    /\ \A object \in Texts :
          LET found == EventsFor(object) IN
          Latest(object) = IF found = <<>> THEN {} ELSE {found[Len(found)]}

(* The words of a hashed text, and the hashes. *)
Word == STRING \union {"|"}

Hash == Seq(Nat \X Seq(Word))

(* The inductive invariant: the events are what Record makes and they verify. *)
AuditInv ==
    /\ ledger \in Seq([seq: Nat, object: Texts, detail: Texts, previous: Hash, hash: Hash])
    /\ VerifyChain(ledger)
=============================================================================
