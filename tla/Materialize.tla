----------------------------- MODULE Materialize -----------------------------
(***************************************************************************)
(* Service.MaterializeManifest over internal/manifest/store.go and         *)
(* internal/checkpoint/store.go: a manifest of the snapshot is published   *)
(* and its checkpoint is taken through prepared, staged and published, and *)
(* to verified if the snapshot was.  Each store method is one step, so     *)
(* calls for one snapshot race between any two of them.                    *)
(*                                                                         *)
(* Of a snapshot only its State changes after CommitSnapshot, so a payload *)
(* is the state it was encoded with.  An id is committed once: all calls   *)
(* bring the same generation and ErrGeneration cannot occur.               *)
(***************************************************************************)
EXTENDS Integers, Sequences, FiniteSets

CONSTANTS Materializers,   \* goroutines
          Images,          \* snapshot ids
          MaxVersions      \* BOUND: manifests published per snapshot

ASSUME MaterializeAssumption == MaxVersions \in Nat

VARIABLES imageState,    \* the catalog: snapshot -> its state
          manifests,     \* snapshot -> version, payload and digest of its envelope
          checkpoints,   \* snapshot -> state and digest of its checkpoint record
          history,       \* snapshot -> the states its checkpoint went through
          announced,     \* snapshots with a "manifest-published" audit event
          work           \* goroutine -> the MaterializeManifest call it is in

matVars == <<imageState, manifests, checkpoints, history, announced, work>>

ImageStates == {"published", "verified", "expired"}

(* sha256 of the payload, taken as injective. *)
PayloadDigest(payload) == <<"sha256", payload>>

NoDigest == <<"", "">>

Digests256 == {NoDigest} \union {PayloadDigest(p) : p \in ImageStates \union {"absent"}}

CheckpointStates == {"absent", "prepared", "staged", "published", "verified"}

NoWork == [pc |-> "idle"]

Work == [pc: {"publish", "get", "start", "staged", "published", "reread", "verified", "audit"},
         image: Images, copy: ImageStates]

MaterializeTypeOK ==
    /\ imageState \in [Images -> ImageStates \union {"absent"}]
    /\ manifests \in [Images -> [version: Nat,
                                 payload: ImageStates \union {"absent"}, digest: Digests256]]
    /\ checkpoints \in [Images -> [state: CheckpointStates, digest: Digests256]]
    /\ history \in [Images -> Seq(CheckpointStates)]
    /\ announced \subseteq Images
    /\ work \in [Materializers -> {NoWork} \union Work]

MaterializeInit ==
    /\ imageState = [i \in Images |-> "absent"]
    /\ manifests = [i \in Images |-> [version |-> 0, payload |-> "absent", digest |-> NoDigest]]
    /\ checkpoints = [i \in Images |-> [state |-> "absent", digest |-> NoDigest]]
    /\ history = [i \in Images |-> <<>>]
    /\ announced = {}
    /\ work = [t \in Materializers |-> NoWork]

WorkAt(t, pc) == work[t].pc = pc

WorkGoto(t, pc) == work' = [work EXCEPT ![t].pc = pc]

WorkReturn(t) == work' = [work EXCEPT ![t] = NoWork]

(* CommitSnapshot, a verification or a replay, and retention: each sets the
   state of a snapshot, the last two also that of one that has expired. *)
CatalogSets(i, state) ==
    /\ \/ imageState[i] = "absent" /\ state = "published"
       \/ imageState[i] # "absent" /\ state \in {"verified", "expired"}
    /\ imageState' = [imageState EXCEPT ![i] = state]
    /\ UNCHANGED <<manifests, checkpoints, history, announced, work>>

(* The snapshot is copied; every later step uses the copy. *)
MaterializeManifest(t, i) ==
    /\ WorkAt(t, "idle")
    /\ imageState[i] # "absent"
    /\ manifests[i].version + Cardinality({u \in Materializers :
            WorkAt(u, "publish") /\ work[u].image = i}) < MaxVersions
    /\ work' = [work EXCEPT ![t] = [pc |-> "publish", image |-> i, copy |-> imageState[i]]]
    /\ UNCHANGED <<imageState, manifests, checkpoints, history, announced>>

PublishManifest(t) ==
    /\ WorkAt(t, "publish")
    /\ manifests' = [manifests EXCEPT ![work[t].image] =
          [version |-> @.version + 1, payload |-> work[t].copy,
           digest |-> PayloadDigest(work[t].copy)]]
    /\ WorkGoto(t, "get")
    /\ UNCHANGED <<imageState, checkpoints, history, announced>>

(* What follows once the checkpoint exists. *)
Onward(t) == IF work[t].copy = "verified" THEN "reread" ELSE "audit"

GetCheckpoint(t) ==
    /\ WorkAt(t, "get")
    /\ WorkGoto(t, IF checkpoints[work[t].image].state = "absent" THEN "start" ELSE Onward(t))
    /\ UNCHANGED <<imageState, manifests, checkpoints, history, announced>>

(* A mutant of StartCheckpoint: a record that exists is started again. *)
StartCheckpointAgain(t) ==
    /\ WorkAt(t, "start")
    /\ checkpoints' = [checkpoints EXCEPT ![work[t].image] =
          [state |-> "prepared", digest |-> NoDigest]]
    /\ history' = [history EXCEPT ![work[t].image] = <<"prepared">>]
    /\ WorkGoto(t, "staged")
    /\ UNCHANGED <<imageState, manifests, announced>>

(* Start, or the ErrExists it returns when another call started it meanwhile. *)
StartCheckpoint(t) ==
    LET i == work[t].image IN
    /\ WorkAt(t, "start")
    /\ \/ /\ checkpoints[i].state = "absent"
          /\ checkpoints' = [checkpoints EXCEPT ![i] =
                [state |-> "prepared", digest |-> NoDigest]]
          /\ history' = [history EXCEPT ![i] = <<"prepared">>]
          /\ WorkGoto(t, "staged")
       \/ /\ checkpoints[i].state # "absent"
          /\ WorkReturn(t)
          /\ UNCHANGED <<checkpoints, history>>
    /\ UNCHANGED <<imageState, manifests, announced>>

(* The transitions of a checkpoint that MaterializeManifest asks for. *)
Allowed(current, next) ==
    \/ current = "prepared" /\ next = "staged"
    \/ current = "staged" /\ next = "published"
    \/ current = "published" /\ next = "verified"

(* Advance to next, or ErrTransition, which ends the call. *)
Advance(t, next, onward) ==
    LET i == work[t].image IN
    /\ WorkAt(t, next)
    /\ \/ /\ Allowed(checkpoints[i].state, next)
          /\ checkpoints' = [checkpoints EXCEPT ![i] =
                [state |-> next, digest |-> PayloadDigest(work[t].copy)]]
          /\ history' = [history EXCEPT ![i] = Append(@, next)]
          /\ WorkGoto(t, onward)
       \/ /\ ~Allowed(checkpoints[i].state, next)
          /\ WorkReturn(t)
          /\ UNCHANGED <<checkpoints, history>>
    /\ UNCHANGED <<imageState, manifests, announced>>

(* A mutant of AdvanceStaged: the call returns here. *)
AdvanceStagedOnly(t) == Advance(t, "staged", "audit")

AdvanceStaged(t) == Advance(t, "staged", "published")

AdvancePublished(t) == Advance(t, "published", Onward(t))

(* The checkpoint is read again: only a published one is advanced. *)
RereadCheckpoint(t) ==
    /\ WorkAt(t, "reread")
    /\ WorkGoto(t, IF checkpoints[work[t].image].state = "published" THEN "verified" ELSE "audit")
    /\ UNCHANGED <<imageState, manifests, checkpoints, history, announced>>

AdvanceVerified(t) == Advance(t, "verified", "audit")

AnnounceManifest(t) ==
    /\ WorkAt(t, "audit")
    /\ announced' = announced \union {work[t].image}
    /\ WorkReturn(t)
    /\ UNCHANGED <<imageState, manifests, checkpoints, history>>

MaterializeStep(t) ==
    \/ PublishManifest(t) \/ GetCheckpoint(t) \/ StartCheckpoint(t)
    \/ AdvanceStaged(t) \/ AdvancePublished(t)
    \/ RereadCheckpoint(t) \/ AdvanceVerified(t) \/ AnnounceManifest(t)

MaterializeNext ==
    \/ \E i \in Images, state \in ImageStates : CatalogSets(i, state)
    \/ \E t \in Materializers :
          MaterializeStep(t) \/ \E i \in Images : MaterializeManifest(t, i)

MaterializeSpec == MaterializeInit /\ [][MaterializeNext]_matVars

(* A goroutine inside MaterializeManifest is scheduled again. *)
MaterializeFairness == \A t \in Materializers : WF_matVars(MaterializeStep(t))

FairMaterializeSpec == MaterializeSpec /\ MaterializeFairness

-----------------------------------------------------------------------------
(* VerifyMaterializedManifest finds the digest of the payload. *)
ManifestVerifies(i) == manifests[i].digest = PayloadDigest(manifests[i].payload)

Ladder == <<"prepared", "staged", "published", "verified">>

(* However calls interleave, a checkpoint climbs the four states in order and
   its record shows the last one; it says verified only over the digest of a
   manifest of the verified snapshot.                                       *)
CheckpointsClimb ==
    \A i \in Images :
        /\ \E n \in 0..Len(Ladder) : history[i] = SubSeq(Ladder, 1, n)
        /\ checkpoints[i].state =
              IF history[i] = <<>> THEN "absent" ELSE history[i][Len(history[i])]
        /\ checkpoints[i].state = "verified" =>
              checkpoints[i].digest = PayloadDigest("verified")

(* The goroutine that started a checkpoint is the only one to take it to
   published, and neither of its two Advance calls can be refused.          *)
StarterOwns ==
    \A t \in Materializers :
        /\ WorkAt(t, "staged") => checkpoints[work[t].image].state = "prepared"
        /\ WorkAt(t, "published") => checkpoints[work[t].image].state = "staged"
        /\ WorkAt(t, "staged") \/ WorkAt(t, "published") =>
              \A u \in Materializers \ {t} :
                  WorkAt(u, "staged") \/ WorkAt(u, "published") =>
                      work[u].image # work[t].image

(* What the steps that t has taken left behind. *)
Grounded(t) ==
    /\ work[t].pc \notin {"idle", "publish"} => manifests[work[t].image].version > 0
    /\ work[t].pc \in {"reread", "verified", "audit"} =>
          checkpoints[work[t].image].state # "absent"
    /\ work[t].pc \in {"reread", "verified"} => work[t].copy = "verified"

(* What MaterializeManifest relies on and leaves behind: types, the climb, the
   starter's claim, stored payloads that match their digest, and an announced
   snapshot that has a manifest and a checkpoint.                            *)
MaterializeInv ==
    /\ MaterializeTypeOK
    /\ CheckpointsClimb
    /\ StarterOwns
    /\ \A t \in Materializers : Grounded(t)
    /\ \A i \in Images : manifests[i].version > 0 => ManifestVerifies(i)
    /\ \A i \in announced : manifests[i].version > 0 /\ checkpoints[i].state # "absent"

(* A started checkpoint reaches published: every later call finds that it
   exists and leaves it alone, so the call that started it must finish it.  *)
CheckpointCompletes ==
    \A i \in Images :
        checkpoints[i].state \in {"prepared", "staged"}
            ~> checkpoints[i].state \in {"published", "verified"}
=============================================================================
