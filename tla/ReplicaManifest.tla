--------------------------- MODULE ReplicaManifest ---------------------------
(***************************************************************************)
(* Capture of package replsnap up to Save, and Promote: a reader is read   *)
(* to its end, frame by frame; the frames become a manifest with a Merkle  *)
(* root, which is verified against the chunks; and a stored snapshot is    *)
(* promoted by the acknowledgements a caller collected.                    *)
(*                                                                         *)
(* A chunk is a value without its size.  sha256 is injective: the digest   *)
(* of a chunk is <<chunk>>, that of a pair of digests <<left, right>>.     *)
(***************************************************************************)
EXTENDS Integers, Sequences, FiniteSets

CONSTANTS Contents,       \* chunks a reader returns
          AckNames,       \* replica ids in acknowledgements
          NoName,         \* the empty replica id
          ReplicaCounts,  \* replica counts callers pass to Promote
          MaxFrames,      \* BOUND: frames per reader
          MaxAcks,        \* BOUND: acknowledgements per Promote
          MaxPromotions   \* BOUND: promotions that differ

ASSUME ManifestAssumption ==
    /\ ReplicaCounts \subseteq Int /\ MaxFrames \in Nat /\ MaxAcks \in Nat /\ MaxPromotions \in Nat
    /\ NoName \notin AckNames

VARIABLES frames,       \* read so far, or NoFrames
          saved,        \* manifest and chunks of the stored snapshot
          promotions    \* history: the names behind each promotion and its count

manifestVars == <<frames, saved, promotions>>

NoFrames == [reading |-> FALSE, list |-> <<>>]

NotSaved == [manifest |-> <<>>, chunks |-> <<>>]

(* A round of MerkleRoot: an odd level gets a copy of its last digest, then
   neighbours are hashed together. *)
HashPairs(level) ==
    LET even == IF Len(level) % 2 = 1 THEN Append(level, level[Len(level)]) ELSE level
    IN  IF Len(level) > 1
        THEN [i \in 1..(Len(even) \div 2) |-> <<even[2 * i - 1], even[2 * i]>>]
        ELSE level

(* The digest that is left; as many rounds as there are leaves are enough. *)
RootOf(leaves) ==
    LET Level[n \in Nat] == IF n = 0 THEN leaves ELSE HashPairs(Level[n - 1])
    IN  Level[Len(leaves)][1]

Digest(chunk) == <<chunk>>

MerkleRoot(chunks) == RootOf([i \in DOMAIN chunks |-> Digest(chunks[i])])

BuildManifest(list) ==
    [chunks |-> [i \in DOMAIN list |->
                    [index |-> i - 1, digest |-> Digest(list[i].data), final |-> list[i].final]],
     root |-> MerkleRoot([i \in DOMAIN list |-> list[i].data])]

(* A mutant of VerifyManifest: the root is held to be enough. *)
VerifyManifestRoot(manifest, chunks) ==
    chunks # <<>> /\ manifest.root = MerkleRoot(chunks)

(* VerifyManifest returns nil. *)
VerifyManifest(manifest, chunks) ==
    /\ Len(manifest.chunks) = Len(chunks)
    /\ chunks # <<>>
    /\ \A i \in DOMAIN chunks :
          manifest.chunks[i].index = i - 1 /\ manifest.chunks[i].digest = Digest(chunks[i])
    /\ manifest.root = MerkleRoot(chunks)

ReplicaManifestInit ==
    /\ frames = NoFrames
    /\ saved = NotSaved
    /\ promotions = {}

BeginCapture ==
    /\ frames = NoFrames
    /\ frames' = [reading |-> TRUE, list |-> <<>>]
    /\ UNCHANGED <<saved, promotions>>

(* Read returned data and no error. *)
ReadFrame(chunk) ==
    /\ frames.reading
    /\ Len(frames.list) < MaxFrames
    /\ frames' = [frames EXCEPT !.list = Append(@, [data |-> chunk, final |-> FALSE])]
    /\ UNCHANGED <<saved, promotions>>

(* Save, over what was there, if BuildManifest and VerifyManifest accept. *)
SaveFrames(list) ==
    /\ frames' = NoFrames
    /\ UNCHANGED promotions
    /\ LET chunks == [i \in DOMAIN list |-> list[i].data] IN
       saved' = IF list # <<>> /\ VerifyManifest(BuildManifest(list), chunks)
                THEN [manifest |-> BuildManifest(list), chunks |-> chunks] ELSE saved

(* Read returned EOF, with the last data or without. *)
ReadLastFrame(chunk) ==
    /\ frames.reading
    /\ Len(frames.list) < MaxFrames
    /\ SaveFrames(Append(frames.list, [data |-> chunk, final |-> TRUE]))

ReadEOF ==
    /\ frames.reading
    /\ SaveFrames(frames.list)

(* Read failed, or made no progress: the frames are dropped. *)
ReadError ==
    /\ frames.reading
    /\ frames' = NoFrames
    /\ UNCHANGED <<saved, promotions>>

(* A mutant of StrictMajority: half of an even number is enough. *)
HalfOrMore(count) == IF count < 1 THEN 1 ELSE (count + 1) \div 2

StrictMajority(count) == IF count < 1 THEN 1 ELSE count \div 2 + 1

(* uniqueCount, and the acks of a QuorumTracker: names once, the empty one not. *)
Unique(acks) == {acks[i] : i \in DOMAIN acks} \ {NoName}

HasQuorum(acks, count) == Cardinality(Unique(acks)) >= StrictMajority(count)

(* Promote returns Promoted; it checks neither the count nor the names. *)
Promote(acks, count) ==
    /\ saved # NotSaved
    /\ HasQuorum(acks, count)
    /\ Cardinality(promotions) < MaxPromotions
    /\ promotions' = promotions \union {[acks |-> Unique(acks), count |-> count]}
    /\ UNCHANGED <<frames, saved>>

ReplicaManifestNext ==
    \/ BeginCapture \/ ReadEOF \/ ReadError
    \/ \E chunk \in Contents : ReadFrame(chunk) \/ ReadLastFrame(chunk)
    \/ \E n \in 0..MaxAcks, count \in ReplicaCounts :
          \E acks \in [1..n -> AckNames \union {NoName}] : Promote(acks, count)

ReplicaManifestSpec == ReplicaManifestInit /\ [][ReplicaManifestNext]_manifestVars

-----------------------------------------------------------------------------
ChunkLists == UNION {[1..n -> Contents] : n \in 0..MaxFrames}

(* The manifest of what was captured accepts exactly the chunks it was made
   from, although an odd level of the Merkle tree has the root of a longer
   list; and only the last frame is ever marked final.                       *)
ManifestIsExact ==
    saved # NotSaved =>
        /\ \A chunks \in ChunkLists :
              VerifyManifest(saved.manifest, chunks) <=> chunks = saved.chunks
        /\ \A i \in DOMAIN saved.chunks :
              saved.manifest.chunks[i].final => i = Len(saved.chunks)

(* Any two promotions, however often an acknowledgement came in or came without
   a name, and whatever count of replicas each was made with, were acknowledged
   by a replica in common, unless more replicas acknowledged than a caller had
   counted: that, Promote cannot know.                                       *)
QuorumsIntersect ==
    \A p, q \in promotions :
        LET together == Cardinality(p.acks \union q.acks) IN
        together <= p.count /\ together <= q.count => p.acks \intersect q.acks # {}

(* The inductive invariant: the frames of a reader in progress are chunks none
   of which is final, what is saved verifies and at most its last chunk is
   final, and a promotion has the names of a strict majority of its count.   *)
ManifestInv ==
    /\ frames \in [reading: BOOLEAN, list: Seq([data: Contents, final: {FALSE}])]
    /\ saved # NotSaved =>
          /\ saved.chunks \in Seq(Contents)
          /\ VerifyManifest(saved.manifest, saved.chunks)
          /\ \A i \in DOMAIN saved.chunks :
                saved.manifest.chunks[i].final => i = Len(saved.chunks)
    /\ \A p \in promotions :
          /\ IsFiniteSet(p.acks) /\ p.count \in Int
          /\ Cardinality(p.acks) >= StrictMajority(p.count)
=============================================================================
