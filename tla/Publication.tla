----------------------------- MODULE Publication -----------------------------
(***************************************************************************)
(* What capture promises, with no leases, calls or goroutines: an          *)
(* operation drafts a bounded set of chunks, each index at most once; the  *)
(* intent to publish is recorded first; a snapshot is then published once, *)
(* atomically, with all that its operation has drafted, and never changes. *)
(***************************************************************************)
EXTENDS Integers, FiniteSets

CONSTANTS Snapshots, Ops, Indexes, Digests, NoDigest, MaxChunks

VARIABLES draft,      \* op -> index -> digest
          intents,    \* pairs <<snapshot, op>> that were recorded
          published   \* snapshot -> the op that published it and its chunks

pubVars == <<draft, intents, published>>

Empty == [i \in Indexes |-> NoDigest]

Drafted(op) == {i \in Indexes : draft[op][i] # NoDigest}

PubInit ==
    /\ draft = [op \in Ops |-> Empty]
    /\ intents = {}
    /\ published = [s \in Snapshots |-> [op |-> 0, chunks |-> Empty]]

Draft(op, i, d) ==
    /\ draft[op][i] = NoDigest
    /\ Cardinality(Drafted(op)) < MaxChunks
    /\ draft' = [draft EXCEPT ![op][i] = d]
    /\ UNCHANGED <<intents, published>>

Discard(op) ==
    /\ draft' = [draft EXCEPT ![op] = Empty]
    /\ UNCHANGED <<intents, published>>

Intend(s, op) ==
    /\ intents' = intents \union {<<s, op>>}
    /\ UNCHANGED <<draft, published>>

Publish(s, op) ==
    /\ <<s, op>> \in intents
    /\ published[s].op = 0
    /\ draft[op] # Empty
    /\ published' = [published EXCEPT ![s] = [op |-> op, chunks |-> draft[op]]]
    /\ draft' = [draft EXCEPT ![op] = Empty]
    /\ UNCHANGED intents

PubNext ==
    \/ \E op \in Ops, i \in Indexes, d \in Digests : Draft(op, i, d)
    \/ \E op \in Ops : Discard(op)
    \/ \E s \in Snapshots, op \in Ops : Intend(s, op) \/ Publish(s, op)

PubSpec == PubInit /\ [][PubNext]_pubVars
=============================================================================
