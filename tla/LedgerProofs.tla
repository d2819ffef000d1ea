----------------------------- MODULE LedgerProofs ----------------------------
(***************************************************************************)
(* Proofs about the components that stand by themselves: chain collection, *)
(* the watermark ledger, the quarantine, racing migrations, the audit      *)
(* ledger, the chunk references, the restore cursors and telemetry, for    *)
(* any number of goroutines, snapshots, subscribers, digests, versions,    *)
(* events, counts, plans, chunk indexes and observations.                  *)
(***************************************************************************)
EXTENDS Collection, Watermark, Quarantine, Migration, Audit, RefCounts, RestoreCursor, Telemetry,
        FiniteSetTheorems, SequenceTheorems, WellFoundedInduction, TLAPS

------------------------------------------------------------------------------
(* Chain collection.                                                        *)

LEMMA CollectionInvInit == CollectionInit => CollectionInv
  <1> SUFFICES ASSUME CollectionInit PROVE CollectionInv OBVIOUS
  <1>1. PICK upto \in Times :
          gc = [pc |-> "idle", upto |-> upto, todo |-> {}, found |-> {}, result |-> {},
                keepPinned |-> {}, keepReferenced |-> {}]
    BY DEF CollectionInit
  <1>2. CollectionTypeOK
    BY <1>1 DEF CollectionInit, CollectionTypeOK, Collector
  <1> QED
    BY <1>1, <1>2 DEF CollectionInit, CollectionInv, ProtectedIsKept, CollectedIsOld, At

(* The fields of the collector. *)
LEMMA CollectorFields ==
    ASSUME gc \in Collector
    PROVE  /\ gc = [pc |-> gc.pc, upto |-> gc.upto, todo |-> gc.todo, found |-> gc.found,
                    result |-> gc.result, keepPinned |-> gc.keepPinned,
                    keepReferenced |-> gc.keepReferenced]
           /\ gc.pc \in {"idle", "pin", "mirrors", "journal", "load", "scan"}
           /\ gc.upto \in Times
           /\ gc.todo \subseteq Snapshots /\ gc.found \subseteq Snapshots
           /\ gc.result \subseteq Snapshots
           /\ gc.keepPinned \subseteq Snapshots /\ gc.keepReferenced \subseteq Snapshots
  BY DEF Collector

(* The steps of captures, mirrors, restores and callers of GcPin. *)
LEMMA CollectionOthers ==
    ASSUME CollectionInv, NEW s \in Snapshots,
           \/ JournalPublish(s) \/ ApplyMirrorUpdate(s) \/ BeginRestore(s) \/ GcPin(s)
           \/ \E time \in Times : CommitSnapshot(s, time)
    PROVE  CollectionInv'
  <1>0. CollectionTypeOK /\ gc' = gc
    BY DEF CollectionInv, JournalPublish, ApplyMirrorUpdate, BeginRestore, GcPin, CommitSnapshot
  <1>1. CASE JournalPublish(s)
    BY <1>0, <1>1
       DEF JournalPublish, CollectionInv, CollectionTypeOK, ProtectedIsKept, CollectedIsOld, At
  <1>2. CASE ApplyMirrorUpdate(s)
    BY <1>0, <1>2
       DEF ApplyMirrorUpdate, CollectionInv, CollectionTypeOK, ProtectedIsKept, CollectedIsOld, At
  <1>3. CASE BeginRestore(s)
    BY <1>0, <1>3
       DEF BeginRestore, CollectionInv, CollectionTypeOK, ProtectedIsKept, CollectedIsOld, At
  <1>4. CASE GcPin(s)
    BY <1>0, <1>4
       DEF GcPin, CollectionInv, CollectionTypeOK, ProtectedIsKept, CollectedIsOld, At
  <1>5. ASSUME NEW time \in Times, CommitSnapshot(s, time)
        PROVE  CollectionInv'
    <2>1. created' \in [Snapshots -> Times \union {-1}] /\ CollectionTypeOK'
      BY <1>0, <1>5 DEF CommitSnapshot, CollectionTypeOK
    <2>2. /\ created[s] = -1 /\ s \in journaled
          /\ created'[s] \in Nat
          /\ \A r \in Snapshots \ {s} : created'[r] = created[r]
      BY <1>0, <1>5, CollectionAssumption DEF CommitSnapshot, CollectionTypeOK
    <2>3. gc.found \subseteq Snapshots /\ gc.result \subseteq gc.found /\ s \notin gc.found
      BY <1>0, <2>2, CollectorFields DEF CollectionTypeOK, CollectionInv
    <2> QED BY <1>0, <1>5, <2>1, <2>2, <2>3
            DEF CommitSnapshot, CollectionInv, ProtectedIsKept, CollectedIsOld, At
  <1> QED BY <1>1, <1>2, <1>3, <1>4, <1>5

(* The callers that give a protection up. *)
LEMMA CollectionGivesUp ==
    ASSUME CollectionInv, NEW s \in Snapshots, FinishRestore(s) \/ GcUnpin(s)
    PROVE  CollectionInv'
  <1>0. CollectionTypeOK /\ gc \in Collector
    BY DEF CollectionInv, CollectionTypeOK
  <1>1. CASE FinishRestore(s)
    <2>1. /\ gc'.pc = gc.pc /\ gc'.upto = gc.upto /\ gc'.todo = gc.todo /\ gc'.found = gc.found
          /\ gc'.result = gc.result /\ gc'.keepPinned = gc.keepPinned
          /\ gc'.keepReferenced = gc.keepReferenced \ {s}
          /\ gc' \in Collector
      BY <1>0, <1>1 DEF FinishRestore, Collector
    <2>2. CollectionTypeOK'
      BY <1>0, <1>1, <2>1 DEF FinishRestore, CollectionTypeOK
    <2> QED BY <1>1, <2>1, <2>2
            DEF FinishRestore, CollectionInv, ProtectedIsKept, CollectedIsOld, At
  <1>2. CASE GcUnpin(s)
    <2>1. /\ gc'.pc = gc.pc /\ gc'.upto = gc.upto /\ gc'.todo = gc.todo /\ gc'.found = gc.found
          /\ gc'.result = gc.result /\ gc'.keepPinned = gc.keepPinned \ {s}
          /\ gc'.keepReferenced = gc.keepReferenced
          /\ gc' \in Collector
      BY <1>0, <1>2 DEF GcUnpin, Collector
    <2>2. CollectionTypeOK'
      BY <1>0, <1>2, <2>1 DEF GcUnpin, CollectionTypeOK
    <2> QED BY <1>2, <2>1, <2>2
            DEF GcUnpin, CollectionInv, ProtectedIsKept, CollectedIsOld, At
  <1> QED BY <1>1, <1>2

(* GcCollect begins, pins and lists. *)
LEMMA CollectionBegins ==
    ASSUME CollectionInv,
           (\E upto \in Times : GcCollect(upto)) \/ PinMirror \/ ListMirrors \/ ListJournal
    PROVE  CollectionInv'
  <1>0. CollectionTypeOK /\ gc \in Collector
    BY DEF CollectionInv, CollectionTypeOK
  <1>1. ASSUME NEW upto \in Times, GcCollect(upto)
        PROVE  CollectionInv'
    <2>1. gc' \in Collector
      BY <1>0, <1>1 DEF GcCollect, Collector, CollectionTypeOK
    <2>2. CollectionTypeOK'
      BY <1>0, <1>1, <2>1 DEF GcCollect, CollectionTypeOK
    <2> QED BY <1>1, <2>2 DEF GcCollect, CollectionInv, ProtectedIsKept, CollectedIsOld, At
  <1>2. ASSUME NEW s \in gc.todo, pins' = pins \union {s}, gc' = [gc EXCEPT !.todo = @ \ {s}],
               PinMirror
        PROVE  CollectionInv'
    <2>1. /\ gc'.pc = gc.pc /\ gc'.upto = gc.upto /\ gc'.todo = gc.todo \ {s}
          /\ gc'.found = gc.found /\ gc'.result = gc.result
          /\ gc'.keepPinned = gc.keepPinned /\ gc'.keepReferenced = gc.keepReferenced
          /\ gc' \in Collector
      BY <1>0, <1>2 DEF Collector
    <2>2. CollectionTypeOK'
      BY <1>0, <1>2, <2>1, CollectorFields DEF PinMirror, CollectionTypeOK
    <2> QED BY <1>2, <2>1, <2>2
            DEF PinMirror, CollectionInv, ProtectedIsKept, CollectedIsOld, At
  <1>3. CASE PinMirror /\ gc.todo = {} /\ gc' = [gc EXCEPT !.pc = "mirrors"] /\ pins' = pins
    <2>1. /\ gc'.pc = "mirrors" /\ gc'.upto = gc.upto /\ gc'.todo = gc.todo
          /\ gc'.found = gc.found /\ gc'.result = gc.result
          /\ gc'.keepPinned = gc.keepPinned /\ gc'.keepReferenced = gc.keepReferenced
          /\ gc' \in Collector
      BY <1>0, <1>3 DEF Collector
    <2>2. CollectionTypeOK'
      BY <1>0, <1>3, <2>1 DEF PinMirror, CollectionTypeOK
    <2> QED BY <1>3, <2>1, <2>2
            DEF PinMirror, CollectionInv, ProtectedIsKept, CollectedIsOld, At
  <1>4. CASE ListMirrors
    <2>1. /\ gc'.pc = "journal" /\ gc'.upto = gc.upto /\ gc'.todo = mirrored
          /\ gc'.found = gc.found /\ gc'.result = gc.result
          /\ gc'.keepPinned = gc.keepPinned /\ gc'.keepReferenced = gc.keepReferenced
          /\ gc' \in Collector
      BY <1>0, <1>4 DEF ListMirrors, Collector, CollectionTypeOK
    <2>2. CollectionTypeOK'
      BY <1>0, <1>4, <2>1 DEF ListMirrors, CollectionTypeOK
    <2> QED BY <1>4, <2>1, <2>2
            DEF ListMirrors, CollectionInv, ProtectedIsKept, CollectedIsOld, At
  <1>5. CASE ListJournal
    <2>1. /\ gc'.pc = "load" /\ gc'.upto = gc.upto /\ gc'.todo = gc.todo \union journaled
          /\ gc'.found = gc.found /\ gc'.result = gc.result
          /\ gc'.keepPinned = gc.keepPinned /\ gc'.keepReferenced = gc.keepReferenced
          /\ gc' \in Collector
      BY <1>0, <1>5 DEF ListJournal, Collector, CollectionTypeOK
    <2>2. CollectionTypeOK'
      BY <1>0, <1>5, <2>1 DEF ListJournal, CollectionTypeOK
    <2> QED BY <1>5, <2>1, <2>2
            DEF ListJournal, CollectionInv, ProtectedIsKept, CollectedIsOld, At
  <1> QED BY <1>1, <1>2, <1>3, <1>4, <1>5 DEF PinMirror

(* GcCollect reads the snapshots and scans them. *)
LEMMA CollectionScans ==
    ASSUME CollectionInv, LoadSnapshot \/ Scan
    PROVE  CollectionInv'
  <1>0. CollectionTypeOK /\ gc \in Collector /\ gc.todo \subseteq Snapshots
    BY CollectorFields DEF CollectionInv, CollectionTypeOK
  <1>1. ASSUME LoadSnapshot, NEW s \in gc.todo,
               gc' = [gc EXCEPT !.todo = @ \ {s},
                                !.found = IF created[s] # -1 THEN @ \union {s} ELSE @]
        PROVE  CollectionInv'
    <2>1. /\ gc'.pc = gc.pc /\ gc'.upto = gc.upto /\ gc'.todo = gc.todo \ {s}
          /\ gc'.found = IF created[s] # -1 THEN gc.found \union {s} ELSE gc.found
          /\ gc'.result = gc.result
          /\ gc'.keepPinned = gc.keepPinned /\ gc'.keepReferenced = gc.keepReferenced
          /\ gc' \in Collector
      BY <1>0, <1>1 DEF Collector
    <2>2. CollectionTypeOK'
      BY <1>0, <1>1, <2>1 DEF LoadSnapshot, CollectionTypeOK
    <2>3. gc.found \subseteq gc'.found /\ \A r \in gc'.found : created[r] # -1
      BY <2>1 DEF CollectionInv
    <2>4. ~At("scan")' /\ ~At("pin")' /\ (At("idle")' <=> At("idle"))
      BY <1>1, <2>1 DEF LoadSnapshot, At
    <2> QED BY <1>1, <2>1, <2>2, <2>3, <2>4
            DEF LoadSnapshot, CollectionInv, ProtectedIsKept, CollectedIsOld, At
  <1>2. CASE LoadSnapshot /\ gc' = [gc EXCEPT !.pc = "scan", !.todo = gc.found]
    <2>1. /\ gc'.pc = "scan" /\ gc'.upto = gc.upto /\ gc'.todo = gc.found
          /\ gc'.found = gc.found /\ gc'.result = gc.result
          /\ gc'.keepPinned = gc.keepPinned /\ gc'.keepReferenced = gc.keepReferenced
          /\ gc' \in Collector
      BY <1>0, <1>2 DEF Collector
    <2>2. CollectionTypeOK'
      BY <1>0, <1>2, <2>1 DEF LoadSnapshot, CollectionTypeOK
    <2> QED BY <1>2, <2>1, <2>2
            DEF LoadSnapshot, CollectionInv, ProtectedIsKept, CollectedIsOld, At
  <1>3. ASSUME Scan, NEW s \in gc.todo,
               gc' = [gc EXCEPT !.todo = @ \ {s},
                                !.result = IF Expired(s) THEN @ \union {s} ELSE @]
        PROVE  CollectionInv'
    <2>1. /\ gc'.pc = gc.pc /\ gc'.upto = gc.upto /\ gc'.todo = gc.todo \ {s}
          /\ gc'.found = gc.found
          /\ gc'.result = IF Expired(s) THEN gc.result \union {s} ELSE gc.result
          /\ gc'.keepPinned = gc.keepPinned /\ gc'.keepReferenced = gc.keepReferenced
          /\ gc' \in Collector
      BY <1>0, <1>3 DEF Collector
    <2>2. CollectionTypeOK'
      BY <1>0, <1>3, <2>1 DEF Scan, CollectionTypeOK
    <2>3. s \in gc.found /\ created[s] # -1 /\ s \in journaled
      BY <1>0, <1>3 DEF Scan, CollectionInv, At
    <2>4. Expired(s) => /\ s \notin gc.keepPinned \union gc.keepReferenced
                        /\ created[s] \in 0..gc.upto
      <3>1. created[s] \in Nat /\ gc.upto \in Nat
        BY <1>0, <2>3, CollectionAssumption, CollectorFields DEF CollectionTypeOK
      <3>2. gc.keepPinned \subseteq pins /\ gc.keepReferenced \subseteq referenced
        BY <1>3 DEF Scan, CollectionInv, At
      <3> QED BY <3>1, <3>2 DEF Expired
    <2>5. /\ gc'.result \intersect (gc'.keepPinned \union gc'.keepReferenced) = {}
          /\ gc'.result \subseteq gc'.found
          /\ \A r \in gc'.result : r \in journaled /\ created[r] \in 0..gc'.upto
      BY <2>1, <2>3, <2>4 DEF CollectionInv, ProtectedIsKept, CollectedIsOld
    <2>6. /\ created' = created /\ journaled' = journaled /\ referenced' = referenced /\ pins' = pins
          /\ At("scan") /\ At("scan")' /\ ~At("pin") /\ ~At("pin")' /\ ~At("idle") /\ ~At("idle")'
      BY <1>3, <2>1 DEF Scan, At
    <2> QED BY <2>1, <2>2, <2>5, <2>6 DEF CollectionInv, ProtectedIsKept, CollectedIsOld
  <1>4. CASE Scan /\ gc' = [gc EXCEPT !.pc = "idle"]
    <2>1. /\ gc'.pc = "idle" /\ gc'.upto = gc.upto /\ gc'.todo = gc.todo
          /\ gc'.found = gc.found /\ gc'.result = gc.result
          /\ gc'.keepPinned = gc.keepPinned /\ gc'.keepReferenced = gc.keepReferenced
          /\ gc' \in Collector
      BY <1>0, <1>4 DEF Collector
    <2>2. CollectionTypeOK'
      BY <1>0, <1>4, <2>1 DEF Scan, CollectionTypeOK
    <2> QED BY <1>4, <2>1, <2>2
            DEF Scan, CollectionInv, ProtectedIsKept, CollectedIsOld, At
  <1> QED BY <1>1, <1>2, <1>3, <1>4 DEF LoadSnapshot, Scan

(* GcCollect, racing with captures, mirror updates, restores and pins, never
   collects a snapshot that was protected from its beginning on, nor one that
   is too young or was not published. *)
THEOREM CollectionInvariant == CollectionSpec => []CollectionInv
  <1>1. ASSUME CollectionInv, [CollectionNext]_collVars
        PROVE  CollectionInv'
    <2>1. CASE UNCHANGED collVars
      BY <1>1, <2>1
         DEF collVars, CollectionInv, CollectionTypeOK, ProtectedIsKept, CollectedIsOld, At
    <2> QED BY <1>1, <2>1, CollectionOthers, CollectionGivesUp, CollectionBegins, CollectionScans
            DEF CollectionNext
  <1> QED BY <1>1, CollectionInvInit, PTL DEF CollectionSpec

------------------------------------------------------------------------------
(* The watermark ledger.                                                    *)

LEMMA WatermarkInvInit == WatermarkInit => WatermarkInv
  <1> SUFFICES ASSUME WatermarkInit PROVE WatermarkInv OBVIOUS
  <1>1. WatermarkTypeOK
    BY DEF WatermarkInit, WatermarkTypeOK, Report
  <1>2. \A t \in Reporters : report[t].pc = "idle" /\ mu # t
    BY WatermarkAssumption DEF WatermarkInit, NoReport
  <1>3. \A s \in Subscribers : generations[s] = 0
    BY DEF WatermarkInit
  <1> QED BY <1>1, <1>2, <1>3 DEF WatermarkInv, ReportAt

(* The fields of a call in progress. *)
LEMMA ReportFields ==
    ASSUME WatermarkTypeOK, NEW t \in Reporters, report[t].pc # "idle"
    PROVE  /\ report[t] \in [pc: {"set", "advance", "offset", "generation"},
                             sub: Subscribers, offset: Offsets, gen: ReportGenerations]
           /\ report[t].sub \in Subscribers
           /\ report[t].offset \in Offsets /\ report[t].offset \in Nat
           /\ report[t].gen \in ReportGenerations /\ report[t].gen \in Nat
           /\ offsets[report[t].sub] \in Int /\ generations[report[t].sub] \in Nat
  <1>1. report[t] \in [pc: {"set", "advance", "offset", "generation"},
                       sub: Subscribers, offset: Offsets, gen: ReportGenerations]
    BY DEF WatermarkTypeOK, Report, NoReport
  <1>2. \A x \in Offsets : x \in Nat
    BY WatermarkAssumption
  <1>3. \A x \in ReportGenerations : x \in Nat
    BY WatermarkAssumption
  <1> QED BY <1>1, <1>2, <1>3 DEF WatermarkTypeOK

(* A call goes on with what it was called with. *)
LEMMA ReportGoesOn ==
    ASSUME WatermarkTypeOK, NEW t \in Reporters, report[t].pc # "idle",
           NEW pc \in {"offset", "generation"}, ReportGoto(t, pc)
    PROVE  /\ report' \in [Reporters -> Report]
           /\ report'[t].pc = pc /\ report'[t].sub = report[t].sub
           /\ report'[t].offset = report[t].offset /\ report'[t].gen = report[t].gen
           /\ \A u \in Reporters \ {t} : report'[u] = report[u]
  <1>1. report[t] \in [pc: {"set", "advance", "offset", "generation"},
                       sub: Subscribers, offset: Offsets, gen: ReportGenerations]
    BY ReportFields
  <1>2. [report[t] EXCEPT !.pc = pc] =
           [pc |-> pc, sub |-> report[t].sub, offset |-> report[t].offset, gen |-> report[t].gen]
    BY <1>1
  <1>3. [pc |-> pc, sub |-> report[t].sub, offset |-> report[t].offset,
         gen |-> report[t].gen] \in Report
    BY <1>1 DEF Report
  <1>4. report' = [report EXCEPT ![t] = [pc |-> pc, sub |-> report[t].sub,
                                         offset |-> report[t].offset, gen |-> report[t].gen]]
    BY <1>2 DEF ReportGoto, WatermarkTypeOK
  <1> QED BY <1>3, <1>4 DEF WatermarkTypeOK

LEMMA ReportReturns ==
    ASSUME WatermarkTypeOK, NEW t \in Reporters, ReportReturn(t)
    PROVE  /\ report' \in [Reporters -> Report]
           /\ report'[t].pc = "idle"
           /\ \A u \in Reporters \ {t} : report'[u] = report[u]
  BY DEF ReportReturn, WatermarkTypeOK, Report, NoReport

(* The path is chosen. *)
LEMMA WatermarkBegins ==
    ASSUME WatermarkInv, NEW t \in Reporters, NEW s \in Subscribers,
           NEW offset \in Offsets, NEW gen \in ReportGenerations,
           AdvanceWatermark(t, s, offset, gen)
    PROVE  WatermarkInv'
  <1>0. WatermarkTypeOK
    BY DEF WatermarkInv
  <1>1. PICK pc \in {"set", "advance"} :
          /\ report' = [report EXCEPT ![t] = [pc |-> pc, sub |-> s, offset |-> offset, gen |-> gen]]
          /\ pc = "set" => generations[s] = gen
    BY DEF AdvanceWatermark
  <1>2. [pc |-> pc, sub |-> s, offset |-> offset, gen |-> gen] \in Report
    BY DEF Report
  <1>3. /\ report' \in [Reporters -> Report]
        /\ report'[t].pc = pc /\ report'[t].sub = s /\ report'[t].gen = gen
        /\ \A u \in Reporters \ {t} : report'[u] = report[u]
    BY <1>0, <1>1, <1>2 DEF WatermarkTypeOK
  <1>4. offsets' = offsets /\ generations' = generations /\ mu' = mu /\ mu = NoReporter
    BY DEF AdvanceWatermark
  <1>5. WatermarkTypeOK'
    BY <1>0, <1>3, <1>4 DEF WatermarkTypeOK
  <1>6. SerialCallers => \A u \in Reporters \ {t} : report'[u].pc = "idle"
    BY <1>3 DEF AdvanceWatermark, ReportAt
  <1>7. \A u \in Reporters : mu' # u
    BY <1>4, WatermarkAssumption
  <1> QED BY <1>1, <1>3, <1>4, <1>5, <1>6, <1>7 DEF WatermarkInv, ReportAt

(* What was checked holds: both paths come to their first write. *)
LEMMA WatermarkChecks ==
    ASSUME WatermarkInv, NEW t \in Reporters, SetCheck(t) \/ AdvanceCheck(t)
    PROVE  WatermarkInv'
  <1>0. WatermarkTypeOK
    BY DEF WatermarkInv
  <1>1. /\ report[t].pc \in {"set", "advance"}
        /\ offsets' = offsets /\ generations' = generations
        /\ \/ ReportReturn(t) /\ mu' = mu
           \/ /\ ReportGoto(t, "offset") /\ ~StaleOffset(report[t])
              /\ \/ ReportAt(t, "set") /\ mu' = mu
                 \/ ReportAt(t, "advance") /\ mu' = t /\ mu = NoReporter
                       /\ ~StaleGeneration(report[t])
    BY DEF SetCheck, AdvanceCheck, ReportAt
  <1>2. mu # t
    BY <1>1 DEF WatermarkInv
  <1>3. CASE ReportReturn(t) /\ mu' = mu
    <2>1. /\ report' \in [Reporters -> Report]
          /\ report'[t].pc = "idle"
          /\ \A u \in Reporters \ {t} : report'[u] = report[u]
      BY <1>0, <1>3, ReportReturns
    <2>2. WatermarkTypeOK'
      BY <1>0, <1>1, <1>3, <2>1 DEF WatermarkTypeOK
    <2> QED BY <1>1, <1>2, <1>3, <2>1, <2>2 DEF WatermarkInv, ReportAt
  <1>4. CASE /\ ReportGoto(t, "offset") /\ ~StaleOffset(report[t])
             /\ \/ ReportAt(t, "set") /\ mu' = mu
                \/ ReportAt(t, "advance") /\ mu' = t /\ mu = NoReporter
                      /\ ~StaleGeneration(report[t])
    <2>1. /\ report' \in [Reporters -> Report]
          /\ report'[t].pc = "offset" /\ report'[t].sub = report[t].sub
          /\ report'[t].offset = report[t].offset /\ report'[t].gen = report[t].gen
          /\ \A u \in Reporters \ {t} : report'[u] = report[u]
      BY <1>0, <1>1, <1>4, ReportGoesOn
    <2>2. WatermarkTypeOK'
      BY <1>0, <1>1, <1>4, <2>1 DEF WatermarkTypeOK
    <2>3. /\ report[t].sub \in Subscribers
          /\ report[t].offset \in Nat /\ report[t].gen \in Nat
          /\ offsets[report[t].sub] \in Int /\ generations[report[t].sub] \in Nat
      BY <1>0, <1>1, ReportFields
    <2>4. report[t].offset >= offsets[report[t].sub]
      BY <1>4, <2>3 DEF StaleOffset
    <2>5. SerialCallers => report[t].gen >= generations[report[t].sub]
      BY <1>4, <2>3 DEF StaleGeneration, WatermarkInv, ReportAt
    <2>6. \A u \in Reporters : mu' = u => report'[u].pc \in {"offset", "generation"}
      BY <1>2, <1>4, <2>1 DEF WatermarkInv
    <2> QED BY <1>1, <2>1, <2>2, <2>4, <2>5, <2>6 DEF WatermarkInv, ReportAt
  <1> QED BY <1>1, <1>3, <1>4

(* The two writes; each goes forward when calls do not overlap. *)
LEMMA WatermarkWrites ==
    ASSUME WatermarkInv, NEW t \in Reporters, WriteOffset(t) \/ WriteGeneration(t)
    PROVE  /\ WatermarkInv'
           /\ SerialCallers => \A s \in Subscribers :
                 offsets'[s] >= offsets[s] /\ generations'[s] >= generations[s]
  <1>0. WatermarkTypeOK /\ report[t].pc # "idle"
    BY DEF WatermarkInv, WriteOffset, WriteGeneration, ReportAt
  <1>1. /\ report[t].sub \in Subscribers
        /\ report[t].offset \in Offsets /\ report[t].gen \in ReportGenerations
        /\ report[t].offset \in Nat /\ report[t].gen \in Nat
        /\ offsets[report[t].sub] \in Int /\ generations[report[t].sub] \in Nat
    BY <1>0, ReportFields
  <1>2. \A s \in Subscribers : offsets[s] \in Int /\ generations[s] \in Int
    <2>1. \A x \in Offsets : x \in Nat
      BY WatermarkAssumption
    <2>2. \A x \in ReportGenerations : x \in Nat
      BY WatermarkAssumption
    <2> QED BY <1>0, <2>1, <2>2 DEF WatermarkTypeOK
  <1>3. SerialCallers => \A u \in Reporters \ {t} : report[u].pc = "idle"
    BY <1>0 DEF WatermarkInv, ReportAt
  <1>4. CASE WriteOffset(t)
    <2>1. /\ report' \in [Reporters -> Report]
          /\ report'[t].pc = "generation" /\ report'[t].sub = report[t].sub
          /\ report'[t].offset = report[t].offset /\ report'[t].gen = report[t].gen
          /\ \A u \in Reporters \ {t} : report'[u] = report[u]
      BY <1>0, <1>4, ReportGoesOn DEF WriteOffset
    <2>2. /\ offsets' \in [Subscribers -> Offsets \union {-1}]
          /\ offsets'[report[t].sub] = report[t].offset
          /\ \A s \in Subscribers \ {report[t].sub} : offsets'[s] = offsets[s]
          /\ generations' = generations /\ mu' = mu /\ report[t].pc = "offset"
      BY <1>0, <1>1, <1>4 DEF WriteOffset, WatermarkTypeOK, ReportAt
    <2>3. WatermarkTypeOK'
      BY <1>0, <2>1, <2>2 DEF WatermarkTypeOK
    <2>4. \A u \in Reporters : mu' = u => report'[u].pc \in {"offset", "generation"}
      BY <2>1, <2>2 DEF WatermarkInv
    <2>5. \A u \in Reporters : ReportAt(u, "generation")' => offsets'[report'[u].sub] # -1
      <3>1. \A u \in Reporters \ {t} : report[u].pc = "generation" => report[u].sub \in Subscribers
        BY <1>0, ReportFields
      <3> QED BY <1>1, <2>1, <2>2, <3>1 DEF WatermarkInv, ReportAt
    <2>6. \A s \in Subscribers : offsets'[s] = -1 => generations'[s] = 0
      BY <1>1, <2>2 DEF WatermarkInv
    <2>7. SerialCallers =>
            /\ report[t].gen >= generations[report[t].sub]
            /\ report[t].offset >= offsets[report[t].sub]
      BY <2>2 DEF WatermarkInv, ReportAt
    <2>8. SerialCallers =>
            /\ \A u, v \in Reporters : ~ReportAt(u, "idle")' /\ ~ReportAt(v, "idle")' => u = v
            /\ \A u \in Reporters :
                  /\ ReportAt(u, "set")' => report'[u].gen = generations'[report'[u].sub]
                  /\ ReportAt(u, "offset")' => report'[u].offset >= offsets'[report'[u].sub]
                  /\ report'[u].pc \in {"offset", "generation"} =>
                        report'[u].gen >= generations'[report'[u].sub]
      BY <1>3, <2>1, <2>2, <2>7 DEF ReportAt
    <2>9. WatermarkInv'
      BY <2>3, <2>4, <2>5, <2>6, <2>8 DEF WatermarkInv, ReportAt
    <2> QED BY <1>1, <1>2, <2>2, <2>7, <2>9
  <1>5. CASE WriteGeneration(t)
    <2>1. /\ report' \in [Reporters -> Report]
          /\ report'[t].pc = "idle"
          /\ \A u \in Reporters \ {t} : report'[u] = report[u]
      BY <1>0, <1>5, ReportReturns DEF WriteGeneration
    <2>2. /\ generations' \in [Subscribers -> ReportGenerations \union {0}]
          /\ generations'[report[t].sub] = report[t].gen
          /\ \A s \in Subscribers \ {report[t].sub} : generations'[s] = generations[s]
          /\ offsets' = offsets /\ report[t].pc = "generation"
          /\ mu' = (IF mu = t THEN NoReporter ELSE mu)
      BY <1>0, <1>1, <1>5 DEF WriteGeneration, WatermarkTypeOK, ReportAt
    <2>3. WatermarkTypeOK'
      BY <1>0, <2>1, <2>2 DEF WatermarkTypeOK
    <2>4. \A u \in Reporters : mu' = u => report'[u].pc \in {"offset", "generation"}
      BY <2>1, <2>2, WatermarkAssumption DEF WatermarkInv
    <2>5. offsets[report[t].sub] # -1
      BY <2>2 DEF WatermarkInv, ReportAt
    <2>6. SerialCallers => report[t].gen >= generations[report[t].sub]
      BY <2>2 DEF WatermarkInv
    <2>7. SerialCallers => \A u \in Reporters : report'[u].pc = "idle"
      BY <1>3, <2>1
    <2>8. WatermarkInv'
      BY <2>1, <2>2, <2>3, <2>4, <2>5, <2>7 DEF WatermarkInv, ReportAt
    <2> QED BY <1>1, <1>2, <2>2, <2>6, <2>8
  <1> QED BY <1>4, <1>5

(* Every step keeps the invariant and, when calls do not overlap, goes forward. *)
LEMMA WatermarkStep ==
    ASSUME WatermarkInv, [WatermarkNext]_wmVars
    PROVE  /\ WatermarkInv'
           /\ SerialCallers => [\A s \in Subscribers :
                 offsets'[s] >= offsets[s] /\ generations'[s] >= generations[s]]_wmVars
  <1>1. \A s \in Subscribers : offsets[s] \in Int /\ generations[s] \in Int
    <2>1. \A x \in Offsets : x \in Nat
      BY WatermarkAssumption
    <2>2. \A x \in ReportGenerations : x \in Nat
      BY WatermarkAssumption
    <2> QED BY <2>1, <2>2 DEF WatermarkInv, WatermarkTypeOK
  <1>2. ASSUME NEW t \in Reporters, NEW s \in Subscribers, NEW offset \in Offsets,
               NEW gen \in ReportGenerations, AdvanceWatermark(t, s, offset, gen)
        PROVE  WatermarkInv' /\ offsets' = offsets /\ generations' = generations
    BY <1>2, WatermarkBegins DEF AdvanceWatermark
  <1>3. ASSUME NEW t \in Reporters, SetCheck(t) \/ AdvanceCheck(t)
        PROVE  WatermarkInv' /\ offsets' = offsets /\ generations' = generations
    BY <1>3, WatermarkChecks DEF SetCheck, AdvanceCheck
  <1>4. CASE UNCHANGED wmVars
    BY <1>4 DEF wmVars, WatermarkInv, WatermarkTypeOK, ReportAt
  <1> QED BY <1>1, <1>2, <1>3, <1>4, WatermarkWrites DEF WatermarkNext

(* The state of the ledger, fast path included, satisfies the invariant for
   any number of goroutines. *)
THEOREM WatermarkInvariant == WatermarkSpec => []WatermarkInv
  <1>1. WatermarkInv /\ [WatermarkNext]_wmVars => WatermarkInv'
    BY WatermarkStep
  <1> QED BY <1>1, WatermarkInvInit, PTL DEF WatermarkSpec

(* Neither the offset nor the generation of a subscriber ever goes back as
   long as calls of AdvanceWatermark do not overlap. *)
THEOREM WatermarkMonotonic == SerialCallers => (WatermarkSpec => WatermarkNeverRegresses)
  <1> SUFFICES ASSUME SerialCallers PROVE WatermarkSpec => WatermarkNeverRegresses
    OBVIOUS
  <1> DEFINE Forward == \A s \in Subscribers :
                           offsets'[s] >= offsets[s] /\ generations'[s] >= generations[s]
  <1>1. WatermarkInv /\ [WatermarkNext]_wmVars => [Forward]_wmVars
    BY WatermarkStep
  <1>2. WatermarkSpec => [][Forward]_wmVars
    BY <1>1, WatermarkInvariant, PTL DEF WatermarkSpec
  <1> QED BY <1>2 DEF WatermarkNeverRegresses

------------------------------------------------------------------------------
(* The quarantine.                                                          *)

Calling(pc, d) == [pc |-> pc, digest |-> d]

(* How the number of pending admissions changes with the call of one keeper. *)
LEMMA PendingChanges ==
    ASSUME QuarantineTypeOK, NEW t \in Keepers,
           \A u \in Keepers \ {t} : admission'[u] = admission[u],
           NEW d, NEW pc
    PROVE  /\ Pending(d, pc) \in Nat /\ Pending(d, pc)' \in Nat
           /\ Pending(d, pc)' = IF admission'[t] = Calling(pc, d)
                                THEN IF admission[t] = Calling(pc, d) THEN Pending(d, pc) ELSE Pending(d, pc) + 1
                                ELSE IF admission[t] = Calling(pc, d) THEN Pending(d, pc) - 1 ELSE Pending(d, pc)
  <1> DEFINE Now  == {u \in Keepers : admission[u] = [pc |-> pc, digest |-> d]}
             Then == {u \in Keepers : admission'[u] = [pc |-> pc, digest |-> d]}
             Rest == {u \in Keepers \ {t} : admission[u] = [pc |-> pc, digest |-> d]}
  <1>1. IsFiniteSet(Keepers)
    BY QuarantineAssumption
  <1>2. Rest \subseteq Keepers /\ t \notin Rest
    OBVIOUS
  <1>3. IsFiniteSet(Rest)
    BY <1>1, <1>2, FS_Subset
  <1>4. Cardinality(Rest) \in Nat
    BY <1>3, FS_CardinalityType
  <1>5. Cardinality(Rest \union {t}) = Cardinality(Rest) + 1
    BY <1>2, <1>3, FS_AddElement
  <1>6. Now = IF admission[t] = Calling(pc, d) THEN Rest \union {t} ELSE Rest
    BY DEF Calling
  <1>8. Then = IF admission'[t] = Calling(pc, d) THEN Rest \union {t} ELSE Rest
    BY DEF Calling
  <1>9. Pending(d, pc) = Cardinality(Now) /\ Pending(d, pc)' = Cardinality(Then)
    BY DEF Pending
  <1> HIDE DEF Now, Then, Rest
  <1> QED BY <1>4, <1>5, <1>6, <1>8, <1>9

(* The number of journaled intents. *)
LEMMA IntentsCounted ==
    ASSUME QuarantineTypeOK, NEW d
    PROVE  Intents(d) \in Nat
  <1>1. DOMAIN entries = 1..Len(entries) /\ Len(entries) \in Nat
    BY DEF QuarantineTypeOK
  <1>2. IsFiniteSet(DOMAIN entries)
    BY <1>1, FS_Interval
  <1>3. IsFiniteSet({i \in DOMAIN entries : entries[i].kind = "quarantine-admit" /\ entries[i].snap = d})
    BY <1>2, FS_Subset
  <1> QED BY <1>3, FS_CardinalityType DEF Intents

LEMMA IntentsGrow ==
    ASSUME QuarantineTypeOK, NEW d,
           AppendEntry([kind |-> "quarantine-admit", snap |-> d])
    PROVE  /\ entries' \in Seq({entries'[i] : i \in DOMAIN entries'})
           /\ Intents(d)' = Intents(d) + 1
           /\ \A other : other # d => Intents(other)' = Intents(other)
  <1> DEFINE e == [kind |-> "quarantine-admit", snap |-> d]
             Old == {entries[i] : i \in DOMAIN entries}
             New == {entries'[i] : i \in DOMAIN entries'}
             For(x) == {i \in DOMAIN entries : entries[i].kind = "quarantine-admit" /\ entries[i].snap = x}
             ForNext(x) == {i \in DOMAIN entries' : entries'[i].kind = "quarantine-admit" /\ entries'[i].snap = x}
  <1>1. entries \in Seq(Old \union {e})
    BY SeqMonotonic DEF QuarantineTypeOK
  <1>2. entries' = Append(entries, e)
    BY DEF AppendEntry
  <1>3. /\ Len(entries) \in Nat
        /\ DOMAIN entries = 1..Len(entries)
        /\ DOMAIN entries' = 1..Len(entries) + 1
        /\ entries'[Len(entries) + 1] = e
        /\ \A i \in 1..Len(entries) : entries'[i] = entries[i]
        /\ entries' \in Seq(Old \union {e})
        /\ Len(entries') = Len(entries) + 1
    BY <1>1, <1>2
  <1>4. \A i \in 1..Len(entries') : entries'[i] \in New
    BY <1>3
  <1>5. entries' \in Seq(New)
    <2> HIDE DEF New
    <2>1. entries' = [i \in 1..Len(entries') |-> entries'[i]]
      BY <1>3
    <2>2. Len(entries') \in Nat
      BY <1>3
    <2> QED BY <1>4, <2>1, <2>2, IsASeq
  <1>6. e.kind = "quarantine-admit" /\ e.snap = d
    OBVIOUS
  <1> HIDE DEF e
  <1>7. ForNext(d) = For(d) \union {Len(entries) + 1} /\ Len(entries) + 1 \notin For(d)
    BY <1>3, <1>6
  <1>8. \A other : other # d => ForNext(other) = For(other)
    BY <1>3, <1>6
  <1>9. IsFiniteSet(For(d))
    <2>1. IsFiniteSet(1..Len(entries))
      BY <1>3, FS_Interval
    <2>2. For(d) \subseteq 1..Len(entries)
      BY <1>3
    <2> QED BY <2>1, <2>2, FS_Subset
  <1>10. Cardinality(ForNext(d)) = Cardinality(For(d)) + 1
    BY <1>7, <1>9, FS_AddElement
  <1>11. /\ Intents(d) = Cardinality(For(d)) /\ Intents(d)' = Cardinality(ForNext(d))
         /\ \A other : /\ Intents(other) = Cardinality(For(other))
                       /\ Intents(other)' = Cardinality(ForNext(other))
    BY DEF Intents
  <1> QED BY <1>5, <1>8, <1>10, <1>11

LEMMA QuarantineInvInit == QuarantineInit => QuarantineInv
  <1> SUFFICES ASSUME QuarantineInit PROVE QuarantineInv OBVIOUS
  <1>1. QuarantineTypeOK
    <2>1. entries \in Seq({entries[i] : i \in DOMAIN entries})
      BY DEF QuarantineInit, JournalInit
    <2>2. closed \in BOOLEAN
      BY Zenon DEF QuarantineInit, JournalInit
    <2>3. NotQuarantined \in [in: BOOLEAN, verified: BOOLEAN]
      BY DEF NotQuarantined
    <2> QED BY <2>1, <2>2, <2>3 DEF QuarantineInit, QuarantineTypeOK
  <1>2. ASSUME NEW d \in Suspects, NEW pc \in {"admit", "audit"}
        PROVE  Pending(d, pc) = 0
    <2>1. NoAdmission # [pc |-> pc, digest |-> d]
      <3>1. NoAdmission.pc = "idle"
        BY DEF NoAdmission
      <3> QED BY <3>1
    <2>2. {t \in Keepers : admission[t] = [pc |-> pc, digest |-> d]} = {}
      BY <2>1 DEF QuarantineInit
    <2> QED BY <2>2, FS_EmptySet DEF Pending
  <1>3. \A d \in Suspects : Intents(d) \in Nat
    BY <1>1, IntentsCounted
  <1> QED BY <1>1, <1>2, <1>3 DEF QuarantineInit, QuarantineInv, NotQuarantined

LEMMA QuarantineChunkKeeps ==
    ASSUME QuarantineInv, NEW t \in Keepers, NEW d \in Suspects, QuarantineChunk(t, d)
    PROVE  QuarantineInv'
  <1>0. QuarantineTypeOK
    BY DEF QuarantineInv
  <1>1. /\ admission[t] = NoAdmission
        /\ admission' = [admission EXCEPT ![t] = Calling("admit", d)]
        /\ AppendEntry([kind |-> "quarantine-admit", snap |-> d])
        /\ UNCHANGED <<closed, quarantined, cleared, admitted, alarms, matched>>
    BY DEF QuarantineChunk, AppendEntry, Calling
  <1>2. \A pc, x : /\ admission[t] # Calling(pc, x) \/ pc = "idle"
                   /\ Calling("admit", d) = Calling(pc, x) <=> pc = "admit" /\ x = d
    <2>1. NoAdmission.pc = "idle"
      BY DEF NoAdmission
    <2> QED BY <1>1, <2>1 DEF Calling
  <1>3. ASSUME NEW x \in Suspects
        PROVE  /\ Pending(x, "admit") \in Nat
               /\ Pending(x, "admit")' = IF x = d THEN Pending(x, "admit") + 1 ELSE Pending(x, "admit")
               /\ Pending(x, "audit")' = Pending(x, "audit")
    <2>0. admission'[t] = Calling("admit", d) /\ \A u \in Keepers \ {t} : admission'[u] = admission[u]
      BY <1>0, <1>1 DEF QuarantineTypeOK
    <2>1. /\ Pending(x, "admit") \in Nat
         /\ Pending(x, "admit")' = IF admission'[t] = Calling("admit", x)
                    THEN IF admission[t] = Calling("admit", x) THEN Pending(x, "admit") ELSE Pending(x, "admit") + 1
                    ELSE IF admission[t] = Calling("admit", x) THEN Pending(x, "admit") - 1 ELSE Pending(x, "admit")
      BY <1>0, <2>0, PendingChanges
    <2>2. /\ Pending(x, "audit") \in Nat
         /\ Pending(x, "audit")' = IF admission'[t] = Calling("audit", x)
                    THEN IF admission[t] = Calling("audit", x) THEN Pending(x, "audit") ELSE Pending(x, "audit") + 1
                    ELSE IF admission[t] = Calling("audit", x) THEN Pending(x, "audit") - 1 ELSE Pending(x, "audit")
      BY <1>0, <2>0, PendingChanges
    <2> QED BY <1>2, <2>0, <2>1, <2>2
  <1>4. \A x \in Suspects : Intents(x)' = IF x = d THEN Intents(x) + 1 ELSE Intents(x)
    BY <1>0, <1>1, IntentsGrow
  <1>5. \A x \in Suspects : Intents(x) \in Nat /\ Pending(x, "admit") \in Nat /\ admitted[x] \in Nat
    BY <1>0, <1>3, IntentsCounted DEF QuarantineTypeOK
  <1>6. QuarantineTypeOK'
    <2>1. Calling("admit", d) \in [pc: {"admit", "audit"}, digest: Suspects]
      BY DEF Calling
    <2>2. admission' \in [Keepers -> {NoAdmission} \union [pc: {"admit", "audit"}, digest: Suspects]]
      BY <1>0, <1>1, <2>1 DEF QuarantineTypeOK
    <2>3. entries' \in Seq({entries'[i] : i \in DOMAIN entries'})
      BY <1>0, <1>1, IntentsGrow
    <2> QED BY <1>0, <1>1, <2>2, <2>3 DEF QuarantineTypeOK
  <1>7. \A x \in Suspects : admitted[x] + Pending(x, "admit")' <= Intents(x)'
    BY <1>3, <1>4, <1>5 DEF QuarantineInv
  <1> QED BY <1>1, <1>3, <1>6, <1>7 DEF QuarantineInv

LEMMA AdmitKeeps ==
    ASSUME QuarantineInv, NEW t \in Keepers, Admit(t)
    PROVE  QuarantineInv'
  <1>0. QuarantineTypeOK
    BY DEF QuarantineInv
  <1> DEFINE d == admission[t].digest
  <1>1. admission[t] \in [pc: {"admit", "audit"}, digest: Suspects] /\ admission[t].pc = "admit"
    <2>1. NoAdmission.pc = "idle"
      BY DEF NoAdmission
    <2> QED BY <1>0, <2>1 DEF Admit, QuarantineTypeOK
  <1>2. d \in Suspects /\ admission[t] = Calling("admit", d)
    BY <1>1 DEF Calling
  <1>3. entries' = entries /\ closed' = closed /\ cleared' = cleared /\ alarms' = alarms
    BY DEF Admit
  <1>4. \A x : Intents(x)' = Intents(x)
    BY <1>3 DEF Intents
  <1>5. [admission[t] EXCEPT !.pc = "audit"] = Calling("audit", d)
    BY <1>1 DEF Calling
  <1>6. \/ /\ ~quarantined[d].in
           /\ quarantined' = [quarantined EXCEPT ![d] = [in |-> TRUE, verified |-> FALSE]]
           /\ admitted' = [admitted EXCEPT ![d] = @ + 1]
           /\ matched' = matched \ {d}
           /\ admission' = [admission EXCEPT ![t] = Calling("audit", d)]
        \/ /\ admission' = [admission EXCEPT ![t] = NoAdmission]
           /\ UNCHANGED <<quarantined, admitted, matched>>
    BY <1>0, <1>5 DEF Admit, QuarantineTypeOK
  <1>7. \A x : /\ Calling("admit", d) = Calling("admit", x) <=> x = d
               /\ Calling("audit", d) = Calling("audit", x) <=> x = d
               /\ Calling("admit", d) # Calling("audit", x)
               /\ Calling("audit", d) # Calling("admit", x)
               /\ NoAdmission # Calling("admit", x) /\ NoAdmission # Calling("audit", x)
    <2>1. NoAdmission.pc = "idle"
      BY DEF NoAdmission
    <2> QED BY <2>1 DEF Calling
  <1> HIDE DEF d
  <1>8. CASE /\ admission' = [admission EXCEPT ![t] = NoAdmission]
             /\ UNCHANGED <<quarantined, admitted, matched>>
    <2>1. ASSUME NEW x \in Suspects
          PROVE  /\ Pending(x, "admit") \in Nat
                 /\ Pending(x, "admit")' = IF x = d THEN Pending(x, "admit") - 1 ELSE Pending(x, "admit")
                 /\ Pending(x, "audit")' = Pending(x, "audit")
      <3>0. admission'[t] = NoAdmission /\ \A u \in Keepers \ {t} : admission'[u] = admission[u]
        BY <1>0, <1>8 DEF QuarantineTypeOK
      <3>1. /\ Pending(x, "admit") \in Nat
           /\ Pending(x, "admit")' = IF admission'[t] = Calling("admit", x)
                      THEN IF admission[t] = Calling("admit", x) THEN Pending(x, "admit") ELSE Pending(x, "admit") + 1
                      ELSE IF admission[t] = Calling("admit", x) THEN Pending(x, "admit") - 1 ELSE Pending(x, "admit")
        BY <1>0, <3>0, PendingChanges
      <3>2. /\ Pending(x, "audit") \in Nat
           /\ Pending(x, "audit")' = IF admission'[t] = Calling("audit", x)
                      THEN IF admission[t] = Calling("audit", x) THEN Pending(x, "audit") ELSE Pending(x, "audit") + 1
                      ELSE IF admission[t] = Calling("audit", x) THEN Pending(x, "audit") - 1 ELSE Pending(x, "audit")
        BY <1>0, <3>0, PendingChanges
      <3> QED BY <1>2, <1>7, <3>0, <3>1, <3>2
    <2>2. \A x \in Suspects : Intents(x) \in Nat /\ admitted[x] \in Nat
      BY <1>0, IntentsCounted DEF QuarantineTypeOK
    <2>3. QuarantineTypeOK'
      BY <1>0, <1>3, <1>8 DEF QuarantineTypeOK
    <2>4. \A x \in Suspects : admitted[x] + Pending(x, "admit")' <= Intents(x)'
      BY <1>4, <2>1, <2>2 DEF QuarantineInv
    <2> QED BY <1>3, <1>8, <2>1, <2>3, <2>4 DEF QuarantineInv
  <1>9. CASE /\ quarantined' = [quarantined EXCEPT ![d] = [in |-> TRUE, verified |-> FALSE]]
             /\ admitted' = [admitted EXCEPT ![d] = @ + 1]
             /\ matched' = matched \ {d}
             /\ admission' = [admission EXCEPT ![t] = Calling("audit", d)]
    <2>1. ASSUME NEW x \in Suspects
          PROVE  /\ Pending(x, "admit") \in Nat /\ Pending(x, "audit") \in Nat
                 /\ Pending(x, "admit")' = IF x = d THEN Pending(x, "admit") - 1 ELSE Pending(x, "admit")
                 /\ Pending(x, "audit")' = IF x = d THEN Pending(x, "audit") + 1 ELSE Pending(x, "audit")
      <3>0. admission'[t] = Calling("audit", d) /\ \A u \in Keepers \ {t} : admission'[u] = admission[u]
        BY <1>0, <1>9 DEF QuarantineTypeOK
      <3>1. /\ Pending(x, "admit") \in Nat
           /\ Pending(x, "admit")' = IF admission'[t] = Calling("admit", x)
                      THEN IF admission[t] = Calling("admit", x) THEN Pending(x, "admit") ELSE Pending(x, "admit") + 1
                      ELSE IF admission[t] = Calling("admit", x) THEN Pending(x, "admit") - 1 ELSE Pending(x, "admit")
        BY <1>0, <3>0, PendingChanges
      <3>2. /\ Pending(x, "audit") \in Nat
           /\ Pending(x, "audit")' = IF admission'[t] = Calling("audit", x)
                      THEN IF admission[t] = Calling("audit", x) THEN Pending(x, "audit") ELSE Pending(x, "audit") + 1
                      ELSE IF admission[t] = Calling("audit", x) THEN Pending(x, "audit") - 1 ELSE Pending(x, "audit")
        BY <1>0, <3>0, PendingChanges
      <3> QED BY <1>2, <1>7, <3>0, <3>1, <3>2
    <2>2. \A x \in Suspects : Intents(x) \in Nat /\ admitted[x] \in Nat /\ alarms[x] \in Nat
      BY <1>0, IntentsCounted DEF QuarantineTypeOK
    <2>3. /\ admitted' \in [Suspects -> Nat]
          /\ admitted'[d] = admitted[d] + 1
          /\ \A x \in Suspects \ {d} : admitted'[x] = admitted[x]
      BY <1>0, <1>2, <1>9 DEF QuarantineTypeOK
    <2>4. /\ quarantined' \in [Suspects -> [in: BOOLEAN, verified: BOOLEAN]]
          /\ ~quarantined'[d].verified
          /\ \A x \in Suspects \ {d} : quarantined'[x] = quarantined[x]
      BY <1>0, <1>2, <1>9 DEF QuarantineTypeOK
    <2>5. QuarantineTypeOK'
      <3>1. Calling("audit", d) \in [pc: {"admit", "audit"}, digest: Suspects]
        BY <1>2 DEF Calling
      <3>2. admission' \in [Keepers -> {NoAdmission} \union [pc: {"admit", "audit"}, digest: Suspects]]
        BY <1>0, <1>9, <3>1 DEF QuarantineTypeOK
      <3> QED BY <1>0, <1>3, <1>9, <2>3, <2>4, <3>2 DEF QuarantineTypeOK
    <2>6. \A x \in Suspects : /\ admitted'[x] + Pending(x, "admit")' <= Intents(x)'
                              /\ alarms'[x] + Pending(x, "audit")' = admitted'[x]
      BY <1>2, <1>3, <1>4, <2>1, <2>2, <2>3 DEF QuarantineInv
    <2>7. \A x \in Suspects : admitted[x] > 0 => admitted'[x] > 0
      BY <1>2, <2>2, <2>3
    <2>8. admitted'[d] > 0
      BY <1>2, <2>2, <2>3
    <2> QED BY <1>2, <1>3, <1>9, <2>4, <2>5, <2>6, <2>7, <2>8 DEF QuarantineInv
  <1> QED BY <1>6, <1>8, <1>9 DEF d

LEMMA RaiseAlarmKeeps ==
    ASSUME QuarantineInv, NEW t \in Keepers, RaiseAlarm(t)
    PROVE  QuarantineInv'
  <1>0. QuarantineTypeOK
    BY DEF QuarantineInv
  <1> DEFINE d == admission[t].digest
  <1>1. admission[t] \in [pc: {"admit", "audit"}, digest: Suspects] /\ admission[t].pc = "audit"
    <2>1. NoAdmission.pc = "idle"
      BY DEF NoAdmission
    <2> QED BY <1>0, <2>1 DEF RaiseAlarm, QuarantineTypeOK
  <1>2. d \in Suspects /\ admission[t] = Calling("audit", d)
    BY <1>1 DEF Calling
  <1>3. /\ UNCHANGED <<entries, closed, quarantined, cleared, admitted, matched>>
        /\ alarms' = [alarms EXCEPT ![d] = @ + 1]
        /\ admission' = [admission EXCEPT ![t] = NoAdmission]
    BY DEF RaiseAlarm
  <1>4. \A x : Intents(x)' = Intents(x)
    BY <1>3 DEF Intents
  <1>5. \A x : /\ Calling("audit", d) = Calling("audit", x) <=> x = d
               /\ Calling("audit", d) # Calling("admit", x)
               /\ NoAdmission # Calling("admit", x) /\ NoAdmission # Calling("audit", x)
    <2>1. NoAdmission.pc = "idle"
      BY DEF NoAdmission
    <2> QED BY <2>1 DEF Calling
  <1> HIDE DEF d
  <1>6. ASSUME NEW x \in Suspects
        PROVE  /\ Pending(x, "audit") \in Nat
               /\ Pending(x, "admit")' = Pending(x, "admit")
               /\ Pending(x, "audit")' = IF x = d THEN Pending(x, "audit") - 1 ELSE Pending(x, "audit")
    <2>0. admission'[t] = NoAdmission /\ \A u \in Keepers \ {t} : admission'[u] = admission[u]
      BY <1>0, <1>3 DEF QuarantineTypeOK
    <2>1. /\ Pending(x, "admit") \in Nat
         /\ Pending(x, "admit")' = IF admission'[t] = Calling("admit", x)
                    THEN IF admission[t] = Calling("admit", x) THEN Pending(x, "admit") ELSE Pending(x, "admit") + 1
                    ELSE IF admission[t] = Calling("admit", x) THEN Pending(x, "admit") - 1 ELSE Pending(x, "admit")
      BY <1>0, <2>0, PendingChanges
    <2>2. /\ Pending(x, "audit") \in Nat
         /\ Pending(x, "audit")' = IF admission'[t] = Calling("audit", x)
                    THEN IF admission[t] = Calling("audit", x) THEN Pending(x, "audit") ELSE Pending(x, "audit") + 1
                    ELSE IF admission[t] = Calling("audit", x) THEN Pending(x, "audit") - 1 ELSE Pending(x, "audit")
      BY <1>0, <2>0, PendingChanges
    <2> QED BY <1>2, <1>5, <2>0, <2>1, <2>2
  <1>7. /\ alarms' \in [Suspects -> Nat]
        /\ \A x \in Suspects : alarms[x] \in Nat /\ admitted[x] \in Nat
        /\ alarms'[d] = alarms[d] + 1
        /\ \A x \in Suspects \ {d} : alarms'[x] = alarms[x]
    BY <1>0, <1>2, <1>3 DEF QuarantineTypeOK
  <1>8. QuarantineTypeOK'
    BY <1>0, <1>3, <1>7 DEF QuarantineTypeOK
  <1>9. \A x \in Suspects : alarms'[x] + Pending(x, "audit")' = admitted'[x]
    BY <1>2, <1>3, <1>6, <1>7 DEF QuarantineInv
  <1> QED BY <1>3, <1>4, <1>6, <1>8, <1>9 DEF QuarantineInv

(* Comparisons, clearings and the operator of the journal leave the counts alone. *)
LEMMA QuarantineOthers ==
    ASSUME QuarantineInv,
           \/ \E d \in Suspects : ReverifyChunk(d) \/ QuarantineClear(d)
           \/ /\ CloseJournal \/ OpenJournal
              /\ UNCHANGED <<quarantined, cleared, admission, admitted, alarms, matched>>
           \/ UNCHANGED quarVars
    PROVE  QuarantineInv'
  <1>0. QuarantineTypeOK
    BY DEF QuarantineInv
  <1>1. entries' = entries /\ admission' = admission /\ admitted' = admitted /\ alarms' = alarms
    BY DEF ReverifyChunk, QuarantineClear, CloseJournal, OpenJournal, quarVars
  <1>2. \A x, pc : Intents(x)' = Intents(x) /\ Pending(x, pc)' = Pending(x, pc)
    BY <1>1 DEF Intents, Pending
  <1>3. ASSUME NEW d \in Suspects, ReverifyChunk(d)
        PROVE  QuarantineInv'
    <2> DEFINE compared == [in |-> TRUE, verified |-> TRUE]
    <2>5. compared \in [in: BOOLEAN, verified: BOOLEAN]
      BY Zenon
    <2>6. compared.in
      OBVIOUS
    <2>7. quarantined' = [quarantined EXCEPT ![d] = compared]
      BY <1>3 DEF ReverifyChunk
    <2> HIDE DEF compared
    <2>8. quarantined[d].in /\ d \in matched'
      BY <1>3 DEF ReverifyChunk
    <2>9. /\ quarantined' \in [Suspects -> [in: BOOLEAN, verified: BOOLEAN]]
          /\ quarantined'[d] = compared
          /\ \A x \in Suspects \ {d} : quarantined'[x] = quarantined[x]
      BY <1>0, <2>5, <2>7 DEF QuarantineTypeOK
    <2>10. quarantined'[d].in
      BY <2>6, <2>9, Zenon
    <2>1. /\ quarantined' \in [Suspects -> [in: BOOLEAN, verified: BOOLEAN]]
          /\ quarantined'[d].in
          /\ \A x \in Suspects \ {d} : quarantined'[x] = quarantined[x]
          /\ quarantined[d].in /\ d \in matched'
      BY <2>8, <2>9, <2>10
    <2>2. QuarantineTypeOK'
      BY <1>0, <1>1, <1>3, <2>1 DEF ReverifyChunk, QuarantineTypeOK
    <2> QED BY <1>1, <1>2, <1>3, <2>1, <2>2 DEF ReverifyChunk, QuarantineInv
  <1>4. ASSUME NEW d \in Suspects, QuarantineClear(d)
        PROVE  QuarantineInv'
    <2>1. /\ quarantined' \in [Suspects -> [in: BOOLEAN, verified: BOOLEAN]]
          /\ ~quarantined'[d].in /\ ~quarantined'[d].verified
          /\ \A x \in Suspects \ {d} : quarantined'[x] = quarantined[x]
          /\ quarantined[d].in
      BY <1>0, <1>4 DEF QuarantineClear, QuarantineTypeOK, NotQuarantined
    <2>2. QuarantineTypeOK'
      BY <1>0, <1>1, <1>4, <2>1 DEF QuarantineClear, QuarantineTypeOK
    <2> QED BY <1>1, <1>2, <1>4, <2>1, <2>2 DEF QuarantineClear, QuarantineInv
  <1>5. CASE /\ CloseJournal \/ OpenJournal
             /\ UNCHANGED <<quarantined, cleared, admission, admitted, alarms, matched>>
    <2>0. closed' \in BOOLEAN
      BY <1>5, Zenon DEF CloseJournal, OpenJournal
    <2>1. QuarantineTypeOK'
      BY <1>0, <1>1, <1>5, <2>0 DEF QuarantineTypeOK
    <2> QED BY <1>1, <1>2, <1>5, <2>1 DEF QuarantineInv
  <1>6. CASE UNCHANGED quarVars
    <2>1. QuarantineTypeOK'
      BY <1>0, <1>6 DEF quarVars, QuarantineTypeOK
    <2> QED BY <1>1, <1>2, <1>6, <2>1 DEF QuarantineInv, quarVars
  <1> QED BY <1>3, <1>4, <1>5, <1>6

(* Over racing admissions, comparisons and clearings every admission has a
   journal entry and every audit event an admission of its own, and an entry
   says Verified only if its digest was compared equal since it was admitted. *)
THEOREM QuarantineInvariant == QuarantineSpec => []QuarantineInv
  <1>1. QuarantineInv /\ [QuarantineNext]_quarVars => QuarantineInv'
    BY QuarantineChunkKeeps, AdmitKeeps, RaiseAlarmKeeps, QuarantineOthers DEF QuarantineNext
  <1> QED BY <1>1, QuarantineInvInit, PTL DEF QuarantineSpec

------------------------------------------------------------------------------
(* Manifest migrations.                                                     *)

(* What the record of a call in progress holds. *)
LEMMA RunningMigration ==
    ASSUME MigrationTypeOK, NEW t \in Migrators, migration[t].pc # "idle"
    PROVE  /\ migration[t] \in MigrationCall
           /\ migration[t].snap \in Manifests
           /\ migration[t].to \in Versions
<1>1. migration[t] \in {NoMigration} \union MigrationCall
  BY DEF MigrationTypeOK
<1>2. migration[t] # NoMigration
  BY DEF NoMigration
<1>3. migration[t] \in MigrationCall
  BY <1>1, <1>2
<1> QED
  BY <1>3 DEF MigrationCall

(* Versions, with 0 for a snapshot that was never migrated, are numbers. *)
LEMMA VersionIsNat ==
    ASSUME MigrationTypeOK, NEW m \in Manifests
    PROVE  schema[m] \in Nat
<1>1. schema[m] \in Versions \/ schema[m] = 0
  BY DEF MigrationTypeOK
<1>2. \A v \in Versions : v \in Nat
  BY MigrationAssumption
<1> QED
  BY <1>1, <1>2

(* Append adds one migration to those that are journaled. *)
LEMMA JournalGrows ==
    ASSUME MigrationTypeOK, NEW m, NEW v, AppendEntry(MigrationEntry(m, v))
    PROVE  /\ JournaledMigrations' = JournaledMigrations \union {<<m, v>>}
           /\ entries' \in Seq({entries'[i] : i \in DOMAIN entries'})
<1> DEFINE e == MigrationEntry(m, v)
           n == Len(entries)
<1>0. entries \in Seq({entries[i] : i \in DOMAIN entries}) /\ entries' = Append(entries, e)
  BY DEF MigrationTypeOK, AppendEntry
<1>1. /\ n \in Nat /\ DOMAIN entries = 1..n
      /\ DOMAIN entries' = 1..(n + 1)
      /\ entries'[n + 1] = e
      /\ \A i \in 1..n : entries'[i] = entries[i]
  BY <1>0
<1>2. e.kind = "migration" /\ e.snap = m /\ e.gen = v
  BY DEF MigrationEntry
<1> HIDE DEF e, n
<1>3. JournaledMigrations' = JournaledMigrations \union {<<m, v>>}
  <2>1. ASSUME NEW i \in DOMAIN entries', entries'[i].kind = "migration"
        PROVE  <<entries'[i].snap, entries'[i].gen>> \in JournaledMigrations \union {<<m, v>>}
    <3>1. CASE i \in 1..n
      BY <2>1, <3>1, <1>1 DEF JournaledMigrations
    <3>2. CASE i = n + 1
      BY <3>2, <1>1, <1>2
    <3> QED
      BY <2>1, <3>1, <3>2, <1>1
  <2>2. ASSUME NEW i \in DOMAIN entries, entries[i].kind = "migration"
        PROVE  <<entries[i].snap, entries[i].gen>> \in JournaledMigrations'
    BY <2>2, <1>1 DEF JournaledMigrations
  <2>3. <<m, v>> \in JournaledMigrations'
    <3>1. n + 1 \in DOMAIN entries'
      BY <1>1
    <3> QED
      BY <3>1, <1>1, <1>2 DEF JournaledMigrations
  <2>4. ASSUME NEW x \in JournaledMigrations'
        PROVE  x \in JournaledMigrations \union {<<m, v>>}
    <3>1. PICK i \in DOMAIN entries' :
            entries'[i].kind = "migration" /\ x = <<entries'[i].snap, entries'[i].gen>>
      BY <2>4 DEF JournaledMigrations
    <3> QED
      BY <3>1, <2>1
  <2>5. ASSUME NEW x \in JournaledMigrations
        PROVE  x \in JournaledMigrations'
    <3>1. PICK i \in DOMAIN entries :
            entries[i].kind = "migration" /\ x = <<entries[i].snap, entries[i].gen>>
      BY <2>5 DEF JournaledMigrations
    <3> QED
      BY <3>1, <2>2
  <2> QED
    BY <2>3, <2>4, <2>5
<1>4. entries' \in Seq({entries'[i] : i \in DOMAIN entries'})
  <2> DEFINE T == {entries'[i] : i \in DOMAIN entries'}
  <2>1. e \in T /\ \A i \in 1..n : entries[i] \in T
    BY <1>1
  <2> HIDE DEF T
  <2>2. entries \in Seq(T)
    <3>1. {entries[i] : i \in DOMAIN entries} \subseteq T
      BY <2>1, <1>1
    <3> QED
      BY <3>1, <1>0, SeqMonotonic
  <2>3. Append(entries, e) \in Seq(T)
    BY <2>1, <2>2
  <2> QED
    BY <2>3, <1>0 DEF T
<1> QED
  BY <1>3, <1>4

(* A new store satisfies the invariant. *)
LEMMA MigrationInvInit == MigrationInit => MigrationInv
<1> SUFFICES ASSUME MigrationInit PROVE MigrationInv
  OBVIOUS
<1>1. entries = <<>> /\ DOMAIN entries = {} /\ closed = FALSE
  BY DEF MigrationInit, JournalInit
<1>2. JournaledMigrations = {}
  BY <1>1 DEF JournaledMigrations
<1>3. entries \in Seq({entries[i] : i \in DOMAIN entries})
  BY <1>1
<1>4. MigrationTypeOK
  BY <1>1, <1>2, <1>3 DEF MigrationInit, MigrationTypeOK
<1>5. \A t \in Migrators : migration[t].pc = "idle"
  BY DEF MigrationInit, NoMigration
<1> QED
  BY <1>2, <1>4, <1>5 DEF MigrationInit, MigrationInv, MigrationAt

(* The part of the invariant that speaks of one call. *)
CallKeeps(t) ==
    /\ migration[t].pc \in {"done", "journal", "audit"} =>
          migration[t].to <= schema[migration[t].snap]
    /\ migration[t].pc \in {"journal", "audit"} => migration[t].snap \in migrated
    /\ MigrationAt(t, "audit") =>
          <<migration[t].snap, migration[t].to>> \in JournaledMigrations

(* The part that speaks of the journal. *)
JournalKeeps ==
    \A j \in JournaledMigrations : j[2] <= schema[j[1]] /\ j[1] \in migrated

(* A step that changes neither journal, versions nor the runner's note changes
   what they say of nothing but the calls. *)
LEMMA OnlyCalls ==
    ASSUME MigrationInv, UNCHANGED <<entries, closed, schema, migrated, reported>>,
           NEW t \in Migrators, NEW c \in {NoMigration} \union MigrationCall,
           migration' = [migration EXCEPT ![t] = c],
           c.pc \in {"done", "journal", "audit"} => c.to <= schema[c.snap],
           c.pc \in {"journal", "audit"} => c.snap \in migrated,
           c.pc = "audit" => <<c.snap, c.to>> \in JournaledMigrations
    PROVE  MigrationInv'
<1>1. JournaledMigrations' = JournaledMigrations
  BY DEF JournaledMigrations
<1>2. MigrationTypeOK'
  BY <1>1 DEF MigrationInv, MigrationTypeOK
<1>3. migration'[t] = c /\ \A u \in Migrators \ {t} : migration'[u] = migration[u]
  BY DEF MigrationInv, MigrationTypeOK
<1>4. \A u \in Migrators : CallKeeps(u)'
  <2> SUFFICES ASSUME NEW u \in Migrators PROVE CallKeeps(u)'
    OBVIOUS
  <2>1. CallKeeps(u)
    BY DEF MigrationInv, CallKeeps
  <2>2. CASE u = t
    BY <2>2, <1>1, <1>3 DEF CallKeeps, MigrationAt
  <2>3. CASE u # t
    BY <2>1, <2>3, <1>1, <1>3 DEF CallKeeps, MigrationAt
  <2> QED
    BY <2>2, <2>3
<1> QED
  BY <1>1, <1>2, <1>4 DEF MigrationInv, CallKeeps

(* A call that goes on keeps what it was called with. *)
LEMMA GoesOn ==
    ASSUME MigrationTypeOK, NEW t \in Migrators, migration[t].pc # "idle",
           NEW pc \in {"version", "set", "done", "journal", "audit"}
    PROVE  LET c == [migration[t] EXCEPT !.pc = pc] IN
           /\ c \in MigrationCall /\ c.pc = pc
           /\ c.snap = migration[t].snap /\ c.to = migration[t].to
  BY RunningMigration DEF MigrationCall

(* While versions rise, and notes and journal grow, the calls that stand still
   and the journal as it was rely on nothing that is lost. *)
LEMMA NothingIsLost ==
    ASSUME MigrationTypeOK, MigrationTypeOK', \A u \in Migrators : CallKeeps(u),
           \A m \in Manifests : schema[m] <= schema'[m],
           migrated \subseteq migrated',
           JournaledMigrations \subseteq JournaledMigrations',
           NEW u \in Migrators, migration'[u] = migration[u]
    PROVE  CallKeeps(u)'
<1>1. CASE migration[u].pc = "idle"
  BY <1>1 DEF CallKeeps, MigrationAt
<1>2. CASE migration[u].pc # "idle"
  <2>1. migration[u].snap \in Manifests /\ migration[u].to \in Nat
    BY <1>2, RunningMigration, MigrationAssumption
  <2>2. schema[migration[u].snap] \in Nat /\ schema'[migration[u].snap] \in Nat
    <3>1. schema'[migration[u].snap] \in Versions \/ schema'[migration[u].snap] = 0
      BY <2>1 DEF MigrationTypeOK
    <3>2. \A w \in Versions : w \in Nat
      BY MigrationAssumption
    <3>3. schema[migration[u].snap] \in Nat
      BY <2>1, VersionIsNat
    <3> QED
      BY <3>1, <3>2, <3>3
  <2>3. CallKeeps(u) /\ schema[migration[u].snap] <= schema'[migration[u].snap]
    BY <2>1
  <2> QED
    BY <2>1, <2>2, <2>3 DEF CallKeeps, MigrationAt
<1> QED
  BY <1>1, <1>2

(* Every step of every call, and the operator at the journal, keep it. *)
LEMMA MigrationInvStep ==
    ASSUME MigrationInv, [MigrationNext]_migVars
    PROVE  MigrationInv'
<1>0. /\ MigrationTypeOK /\ JournalKeeps
      /\ reported \subseteq JournaledMigrations
      /\ \A t \in Migrators : CallKeeps(t)
  BY DEF MigrationInv, CallKeeps, JournalKeeps
<1>t. \A v \in Versions : v \in Nat
  BY MigrationAssumption
<1>1. ASSUME NEW t \in Migrators, NEW m \in Manifests, NEW from \in Versions,
             NEW to \in Versions, MigrateManifest(t, m, from, to)
      PROVE  MigrationInv'
  <2> DEFINE c == [pc |-> "version", snap |-> m, from |-> from, to |-> to, live |-> TRUE]
  <2>1. c \in MigrationCall /\ c.pc = "version"
    BY DEF MigrationCall
  <2>2. /\ migration' = [migration EXCEPT ![t] = c]
        /\ UNCHANGED <<entries, closed, schema, migrated, reported>>
    BY <1>1 DEF MigrateManifest
  <2> HIDE DEF c
  <2> QED
    BY <2>1, <2>2, OnlyCalls
<1>2. ASSUME NEW t \in Migrators, CancelContext(t)
      PROVE  MigrationInv'
  <2> DEFINE c == [migration[t] EXCEPT !.live = FALSE]
  <2>1. migration[t] \in MigrationCall
    BY <1>0, <1>2, RunningMigration DEF CancelContext, MigrationAt
  <2>2. /\ c \in MigrationCall /\ c.pc = migration[t].pc
        /\ c.snap = migration[t].snap /\ c.to = migration[t].to
    BY <2>1 DEF MigrationCall
  <2>3. /\ migration' = [migration EXCEPT ![t] = c]
        /\ UNCHANGED <<entries, closed, schema, migrated, reported>>
    BY <1>2 DEF CancelContext
  <2>4. CallKeeps(t)
    BY <1>0
  <2> HIDE DEF c
  <2> QED
    BY <2>2, <2>3, <2>4, OnlyCalls DEF CallKeeps, MigrationAt
<1>3. ASSUME NEW t \in Migrators, CheckVersion(t)
      PROVE  MigrationInv'
  <2>1. PICK c \in {NoMigration} \union MigrationCall :
          /\ migration' = [migration EXCEPT ![t] = c]
          /\ c.pc \in {"set", "idle"}
    <3>1. migration[t] \in MigrationCall
      BY <1>0, <1>3, RunningMigration DEF CheckVersion, MigrationAt
    <3>2. CASE migration' = [migration EXCEPT ![t].pc = "set"]
      <4>1. [migration[t] EXCEPT !.pc = "set"] \in MigrationCall
        BY <3>1 DEF MigrationCall
      <4>2. [migration[t] EXCEPT !.pc = "set"].pc = "set"
        BY <3>1 DEF MigrationCall
      <4> QED
        BY <3>2, <4>1, <4>2
    <3>3. CASE migration' = [migration EXCEPT ![t] = NoMigration]
      <4>1. NoMigration.pc = "idle"
        BY DEF NoMigration
      <4> QED
        BY <3>3, <4>1
    <3> QED
      BY <1>3, <3>2, <3>3 DEF CheckVersion, MigrationGoto, MigrationReturn
  <2>2. UNCHANGED <<entries, closed, schema, migrated, reported>>
    BY <1>3 DEF CheckVersion
  <2> QED
    BY <2>1, <2>2, OnlyCalls
<1>4. ASSUME NEW t \in Migrators, SetVersion(t)
      PROVE  MigrationInv'
  <2> DEFINE m == migration[t].snap
             v == migration[t].to
  <2>1. m \in Manifests /\ v \in Versions /\ v \in Nat /\ schema[m] \in Nat
    BY <1>0, <1>4, <1>t, RunningMigration, VersionIsNat DEF SetVersion, MigrationAt
  <2>2. ASSUME v >= schema[m], schema' = [schema EXCEPT ![m] = v], MigrationGoto(t, "done")
        PROVE  MigrationInv'
    <3> DEFINE c == [migration[t] EXCEPT !.pc = "done"]
    <3>1. c \in MigrationCall /\ c.pc = "done" /\ c.snap = m /\ c.to = v
      BY <1>0, <1>4, GoesOn DEF SetVersion, MigrationAt
    <3>2. migration' = [migration EXCEPT ![t] = c] /\ UNCHANGED <<entries, closed, migrated, reported>>
      BY <1>4, <2>2 DEF MigrationGoto, SetVersion
    <3> HIDE DEF c, m, v
    <3>3. JournaledMigrations' = JournaledMigrations
      BY <3>2 DEF JournaledMigrations
    <3>4. MigrationTypeOK'
      BY <1>0, <2>1, <2>2, <3>1, <3>2, <3>3 DEF MigrationTypeOK
    <3>5. \A x \in Manifests : schema[x] \in Nat /\ schema'[x] \in Nat /\ schema[x] <= schema'[x]
      <4> SUFFICES ASSUME NEW x \in Manifests
                   PROVE  schema[x] \in Nat /\ schema'[x] \in Nat /\ schema[x] <= schema'[x]
        OBVIOUS
      <4>1. schema[x] \in Nat
        BY <1>0, VersionIsNat
      <4>2. schema'[x] = IF x = m THEN v ELSE schema[x]
        BY <1>0, <2>2 DEF MigrationTypeOK
      <4> QED
        BY <4>1, <4>2, <2>1, <2>2
    <3>6. CallKeeps(t)'
      <4>1. migration'[t] = c
        BY <1>0, <3>2 DEF MigrationTypeOK
      <4>2. schema'[m] = v
        BY <1>0, <2>1, <2>2 DEF MigrationTypeOK
      <4> QED
        BY <2>1, <3>1, <4>1, <4>2 DEF CallKeeps, MigrationAt
    <3>7. \A u \in Migrators : CallKeeps(u)'
      <4> SUFFICES ASSUME NEW u \in Migrators, u # t PROVE CallKeeps(u)'
        BY <3>6
      <4>1. migration'[u] = migration[u]
        BY <1>0, <3>2 DEF MigrationTypeOK
      <4> QED
        BY <1>0, <3>2, <3>3, <3>4, <3>5, <4>1, NothingIsLost
    <3>8. JournalKeeps'
      <4> SUFFICES ASSUME NEW j \in JournaledMigrations
                   PROVE  j[2] <= schema'[j[1]] /\ j[1] \in migrated
        BY <3>2, <3>3 DEF JournalKeeps
      <4>1. j[1] \in Manifests /\ j[2] \in Nat
        BY <1>0, <1>t DEF MigrationTypeOK
      <4>2. j[2] <= schema[j[1]] /\ j[1] \in migrated
        BY <1>0 DEF JournalKeeps
      <4> QED
        BY <3>5, <4>1, <4>2
    <3> QED
      BY <1>0, <3>2, <3>3, <3>4, <3>7, <3>8 DEF MigrationInv, CallKeeps, JournalKeeps
  <2>3. ASSUME MigrationReturn(t), UNCHANGED schema
        PROVE  MigrationInv'
    <3>1. UNCHANGED <<entries, closed, schema, migrated, reported>>
      BY <1>4, <2>3 DEF SetVersion
    <3> QED
      BY <2>3, <3>1, OnlyCalls DEF MigrationReturn, NoMigration
  <2> QED
    BY <1>4, <2>2, <2>3 DEF SetVersion
<1>5. ASSUME NEW t \in Migrators, NoteDone(t)
      PROVE  MigrationInv'
  <2> DEFINE c == [migration[t] EXCEPT !.pc = "journal"]
             m == migration[t].snap
  <2>1. c \in MigrationCall /\ c.pc = "journal" /\ c.snap = m /\ c.to = migration[t].to
    BY <1>0, <1>5, GoesOn DEF NoteDone, MigrationAt
  <2>2. m \in Manifests /\ migration[t].to <= schema[m]
    BY <1>0, <1>5, RunningMigration DEF NoteDone, MigrationAt, CallKeeps
  <2>3. /\ migration' = [migration EXCEPT ![t] = c]
        /\ migrated' = migrated \union {m}
        /\ UNCHANGED <<entries, closed, schema, reported>>
    BY <1>5 DEF NoteDone, MigrationGoto
  <2> HIDE DEF c, m
  <2>4. JournaledMigrations' = JournaledMigrations
    BY <2>3 DEF JournaledMigrations
  <2>5. MigrationTypeOK'
    BY <1>0, <2>1, <2>2, <2>3, <2>4 DEF MigrationTypeOK
  <2>6. \A u \in Migrators : CallKeeps(u)'
    <3> SUFFICES ASSUME NEW u \in Migrators PROVE CallKeeps(u)'
      OBVIOUS
    <3>1. CASE u = t
      <4>1. migration'[t] = c
        BY <1>0, <2>3 DEF MigrationTypeOK
      <4> QED
        BY <3>1, <4>1, <2>1, <2>2, <2>3 DEF CallKeeps, MigrationAt
    <3>2. CASE u # t
      <4>1. migration'[u] = migration[u]
        BY <1>0, <2>3, <3>2 DEF MigrationTypeOK
      <4>2. \A x \in Manifests : schema[x] <= schema'[x]
        BY <1>0, <2>3, VersionIsNat
      <4> QED
        BY <1>0, <2>3, <2>4, <2>5, <4>1, <4>2, NothingIsLost
    <3> QED
      BY <3>1, <3>2
  <2>7. JournalKeeps'
    BY <1>0, <2>3, <2>4 DEF JournalKeeps
  <2> QED
    BY <1>0, <2>3, <2>4, <2>5, <2>6, <2>7 DEF MigrationInv, CallKeeps, JournalKeeps
<1>6. ASSUME NEW t \in Migrators, JournalMigration(t)
      PROVE  MigrationInv'
  <2> DEFINE c == [migration[t] EXCEPT !.pc = "audit"]
             m == migration[t].snap
             v == migration[t].to
  <2>1. c \in MigrationCall /\ c.pc = "audit" /\ c.snap = m /\ c.to = v
    BY <1>0, <1>6, GoesOn DEF JournalMigration, MigrationAt
  <2>2. m \in Manifests /\ v \in Versions /\ v <= schema[m] /\ m \in migrated
    BY <1>0, <1>6, RunningMigration DEF JournalMigration, MigrationAt, CallKeeps
  <2>3. ASSUME AppendEntry(MigrationEntry(m, v)), MigrationGoto(t, "audit")
        PROVE  MigrationInv'
    <3>1. /\ migration' = [migration EXCEPT ![t] = c]
          /\ UNCHANGED <<closed, schema, migrated, reported>>
      BY <1>6, <2>3 DEF JournalMigration, MigrationGoto, AppendEntry
    <3>2. /\ JournaledMigrations' = JournaledMigrations \union {<<m, v>>}
          /\ entries' \in Seq({entries'[i] : i \in DOMAIN entries'})
      BY <1>0, <2>3, JournalGrows
    <3> HIDE DEF c, m, v
    <3>3. MigrationTypeOK'
      BY <1>0, <2>1, <2>2, <3>1, <3>2 DEF MigrationTypeOK
    <3>4. \A u \in Migrators : CallKeeps(u)'
      <4> SUFFICES ASSUME NEW u \in Migrators PROVE CallKeeps(u)'
        OBVIOUS
      <4>1. CASE u = t
        <5>1. migration'[t] = c
          BY <1>0, <3>1 DEF MigrationTypeOK
        <5> QED
          BY <4>1, <5>1, <2>1, <2>2, <3>1, <3>2 DEF CallKeeps, MigrationAt
      <4>2. CASE u # t
        <5>1. migration'[u] = migration[u]
          BY <1>0, <3>1, <4>2 DEF MigrationTypeOK
        <5>2. \A x \in Manifests : schema[x] <= schema'[x]
          BY <1>0, <3>1, VersionIsNat
        <5> QED
          BY <1>0, <3>1, <3>2, <3>3, <5>1, <5>2, NothingIsLost
      <4> QED
        BY <4>1, <4>2
    <3>5. JournalKeeps'
      BY <1>0, <2>2, <3>1, <3>2 DEF JournalKeeps
    <3> QED
      BY <1>0, <3>1, <3>2, <3>3, <3>4, <3>5 DEF MigrationInv, CallKeeps, JournalKeeps
  <2>4. ASSUME MigrationReturn(t), UNCHANGED <<entries, closed>>
        PROVE  MigrationInv'
    <3>1. UNCHANGED <<entries, closed, schema, migrated, reported>>
      BY <1>6, <2>4 DEF JournalMigration
    <3> QED
      BY <2>4, <3>1, OnlyCalls DEF MigrationReturn, NoMigration
  <2> QED
    BY <1>6, <2>3, <2>4 DEF JournalMigration
<1>7. ASSUME NEW t \in Migrators, ReportMigration(t)
      PROVE  MigrationInv'
  <2> DEFINE m == migration[t].snap
             v == migration[t].to
  <2>1. m \in Manifests /\ v \in Versions /\ <<m, v>> \in JournaledMigrations
    BY <1>0, <1>7, RunningMigration DEF ReportMigration, MigrationAt, CallKeeps
  <2>2. /\ migration' = [migration EXCEPT ![t] = NoMigration]
        /\ reported' = reported \union {<<m, v>>}
        /\ UNCHANGED <<entries, closed, schema, migrated>>
    BY <1>7 DEF ReportMigration, MigrationReturn
  <2> HIDE DEF m, v
  <2>3. JournaledMigrations' = JournaledMigrations
    BY <2>2 DEF JournaledMigrations
  <2>4. MigrationTypeOK'
    BY <1>0, <2>1, <2>2, <2>3 DEF MigrationTypeOK
  <2>5. \A u \in Migrators : CallKeeps(u)'
    <3> SUFFICES ASSUME NEW u \in Migrators PROVE CallKeeps(u)'
      OBVIOUS
    <3>1. CASE u = t
      <4>1. migration'[t] = NoMigration
        BY <1>0, <2>2 DEF MigrationTypeOK
      <4>2. NoMigration.pc = "idle"
        BY DEF NoMigration
      <4> QED
        BY <3>1, <4>1, <4>2 DEF CallKeeps, MigrationAt
    <3>2. CASE u # t
      <4>1. migration'[u] = migration[u]
        BY <1>0, <2>2, <3>2 DEF MigrationTypeOK
      <4>2. CallKeeps(u)
        BY <1>0
      <4> QED
        BY <2>2, <2>3, <4>1, <4>2 DEF CallKeeps, MigrationAt
    <3> QED
      BY <3>1, <3>2
  <2> QED
    BY <1>0, <2>1, <2>2, <2>3, <2>4, <2>5 DEF MigrationInv, CallKeeps, JournalKeeps
<1>8. ASSUME UNCHANGED <<entries, schema, migrated, migration, reported>>, closed' \in BOOLEAN
      PROVE  MigrationInv'
  <2>1. JournaledMigrations' = JournaledMigrations
    BY <1>8 DEF JournaledMigrations
  <2> QED
    BY <1>8, <2>1 DEF MigrationInv, MigrationTypeOK, MigrationAt
<1>9. CASE (CloseJournal \/ OpenJournal) /\ UNCHANGED <<schema, migrated, migration, reported>>
  BY <1>8, <1>9 DEF CloseJournal, OpenJournal
<1>10. CASE UNCHANGED migVars
  BY <1>0, <1>8, <1>10 DEF migVars, MigrationTypeOK
<1> QED
  BY <1>1, <1>2, <1>3, <1>4, <1>5, <1>6, <1>7, <1>9, <1>10 DEF MigrationNext, MigrationStep

(* However migrations race and whenever the journal closes, the version of a
   snapshot is never behind a migration that was written, journaled or
   reported, and what is reported is journaled. *)
THEOREM MigrationInvariant == MigrationSpec => []MigrationInv
  <1> QED BY MigrationInvInit, MigrationInvStep, PTL DEF MigrationSpec

(* No step, of whatever goroutine, takes the version of a snapshot back: the
   one comparison that SetVersion makes under its lock is enough. *)
THEOREM VersionMonotonic ==
    MigrationSpec => [][\A m \in Manifests : schema'[m] >= schema[m]]_migVars
<1>1. MigrationInv /\ [MigrationNext]_migVars =>
        [\A m \in Manifests : schema'[m] >= schema[m]]_migVars
  <2> SUFFICES ASSUME MigrationInv, MigrationNext, NEW m \in Manifests
               PROVE  schema'[m] >= schema[m]
    OBVIOUS
  <2>1. MigrationTypeOK /\ schema[m] \in Nat
    BY VersionIsNat DEF MigrationInv
  <2>2. ASSUME NEW t \in Migrators, SetVersion(t), schema' # schema
        PROVE  schema'[m] >= schema[m]
    <3>1. migration[t].to \in Nat /\ migration[t].snap \in Manifests
      BY <2>1, <2>2, RunningMigration, MigrationAssumption DEF SetVersion, MigrationAt
    <3>2. /\ migration[t].to >= schema[migration[t].snap]
          /\ schema' = [schema EXCEPT ![migration[t].snap] = migration[t].to]
      BY <2>2 DEF SetVersion
    <3>3. schema'[m] = IF m = migration[t].snap THEN migration[t].to ELSE schema[m]
      BY <2>1, <3>2 DEF MigrationTypeOK
    <3> QED
      BY <2>1, <3>1, <3>2, <3>3
  <2>3. CASE schema' = schema
    BY <2>1, <2>3
  <2> QED
    BY <2>2, <2>3 DEF MigrationNext, MigrationStep, MigrateManifest, CancelContext, CheckVersion,
       NoteDone, JournalMigration, ReportMigration
<1> QED BY <1>1, MigrationInvariant, PTL DEF MigrationSpec

------------------------------------------------------------------------------
(* The audit ledger.                                                        *)

(* A set of numbers has a least one. *)
LEMMA LeastNumber ==
    ASSUME NEW T, T \subseteq Nat, T # {}
    PROVE  \E i \in T : \A j \in T : i <= j
  <1>1. PICK i \in T : \A j \in T : ~(<<j, i>> \in OpToRel(<, Nat))
    BY WFMin, NatLessThanWellFounded
  <1>2. \A j \in T : ~(j < i)
    BY <1>1 DEF OpToRel
  <1> QED BY <1>2

(* A sequence of one. *)
LEMMA OneIsSeq == \A S : \A x \in S : <<x>> \in Seq(S)
  OBVIOUS

(* A sequence over a set is one over a larger set. *)
LEMMA SeqGrows ==
    ASSUME NEW S, NEW T, S \subseteq T, NEW s \in Seq(S)
    PROVE  s \in Seq(T)
  <1>1. PICK n \in Nat : n = Len(s) /\ s \in [1..n -> S]
    OBVIOUS
  <1>2. s \in [1..n -> T]
    BY <1>1
  <1> QED BY <1>2

(* The words callers pass are words of the hashed text. *)
LEMMA TextType ==
    ASSUME NEW text \in Texts
    PROVE  text \in Seq(Word)
  <1>0. STRING \subseteq Word
    BY Zenon DEF Word
  <1>1. PICK S, T : S = STRING /\ T = Word /\ S \subseteq T
    BY <1>0, Zenon
  <1>2. text \in Seq(S)
    BY <1>1, AuditAssumption, Zenon
  <1>3. text \in Seq(T)
    BY <1>1, <1>2, SeqGrows
  <1> QED BY <1>1, <1>3

(* The hash before the first event is a hash. *)
LEMMA GenesisType == Genesis \in Hash
  BY EmptySeq DEF Genesis, Hash

(* The first element behind a front. *)
LEMMA AfterFront ==
    ASSUME NEW S, NEW front \in Seq(S), NEW back \in Seq(S), NEW m \in Nat, m = Len(front),
           Len(back) > 0
    PROVE  m + 1 \in DOMAIN (front \o back) /\ (front \o back)[m + 1] = back[1]
  OBVIOUS

(* The joined text is text, and a hash is a hash. *)
LEMMA HashType ==
    ASSUME NEW previous \in Hash, NEW n \in Nat, NEW object \in Texts, NEW detail \in Texts,
           NEW e, e.seq = n, e.object = object, e.detail = detail, e.previous = previous
    PROVE  /\ JoinedText(e) \in Seq(Word)
           /\ HashOf(e) = Append(previous, <<n, JoinedText(e)>>)
           /\ HashOf(e) \in Hash
  <1>a. object \in Seq(Word) /\ detail \in Seq(Word)
    BY AuditAssumption, TextType
  <1>b. "|" \in Word
    BY DEF Word
  <1>1. object \in Seq(Word) /\ detail \in Seq(Word) /\ <<"|">> \in Seq(Word)
    BY <1>a, <1>b, OneIsSeq, Zenon
  <1>2. PICK bar \in Seq(Word) : bar = <<"|">>
    BY <1>1, Zenon
  <1>3. object \o bar \in Seq(Word)
    BY <1>1, ConcatProperties, Zenon
  <1>4. (object \o bar) \o detail \in Seq(Word)
    BY <1>1, <1>3, ConcatProperties, Zenon
  <1>5. JoinedText(e) \in Seq(Word)
    BY <1>2, <1>4 DEF JoinedText
  <1>6. <<n, JoinedText(e)>> \in Nat \X Seq(Word)
    BY <1>5
  <1>7. HashOf(e) = Append(previous, <<n, JoinedText(e)>>)
    BY DEF HashOf
  <1> QED BY <1>5, <1>6, <1>7 DEF Hash

(* A hash determines what was hashed. *)
LEMMA HashIsInjective ==
    ASSUME NEW S, NEW previous \in Seq(S), NEW x \in S, NEW y \in S, Append(previous, x) = Append(previous, y)
    PROVE  x = y
  <1>1. Append(previous, x)[Len(previous) + 1] = x /\ Append(previous, y)[Len(previous) + 1] = y
    OBVIOUS
  <1> QED BY <1>1

(* Record appends an event that continues the chain. *)
LEMMA RecordKeeps ==
    ASSUME AuditInv, NEW object \in Texts, NEW detail \in Texts, RecordEvent(object, detail)
    PROVE  AuditInv'
  <1> DEFINE Event == [seq: Nat, object: Texts, detail: Texts, previous: Hash, hash: Hash]
  <1>0. ledger \in Seq(Event) /\ Len(ledger) \in Nat
    BY DEF AuditInv
  <1>1. PICK previous \in Hash : previous = IF ledger = <<>> THEN Genesis ELSE ledger[Len(ledger)].hash
    <2>1. CASE ledger = <<>>
      BY <2>1, GenesisType
    <2>2. CASE ledger # <<>>
      <3>1. ledger[Len(ledger)] \in Event
        <4> HIDE DEF Event
        <4> QED BY <1>0, <2>2
      <3>2. ledger[Len(ledger)].hash \in Hash
        BY <3>1
      <3> QED BY <2>2, <3>2
    <2> QED BY <2>1, <2>2
  <1>2. PICK e : e = [seq |-> Len(ledger) + 1, object |-> object, detail |-> detail,
                      previous |-> previous]
    OBVIOUS
  <1>3. e.seq = Len(ledger) + 1 /\ e.object = object /\ e.detail = detail /\ e.previous = previous
    BY <1>2
  <1>4. HashOf(e) \in Hash
    BY <1>0, <1>3, HashType
  <1>5. PICK r : r = [seq |-> Len(ledger) + 1, object |-> object, detail |-> detail,
                      previous |-> previous, hash |-> HashOf(e)]
    OBVIOUS
  <1>6. r \in Event /\ r.seq = Len(ledger) + 1 /\ r.previous = previous /\ r.hash = HashOf(r)
    <2>1. /\ r.seq = Len(ledger) + 1 /\ r.object = object /\ r.detail = detail
          /\ r.previous = previous /\ r.hash = HashOf(e)
      BY <1>5
    <2>2. HashOf(r) = HashOf(e)
      BY <1>3, <2>1 DEF HashOf, JoinedText
    <2>3. r \in Event
      BY <1>0, <1>4, <1>5
    <2> QED BY <2>1, <2>2, <2>3
  <1>7. ledger' = Append(ledger, r)
    BY <1>1, <1>2, <1>3, <1>5 DEF RecordEvent
  <1> HIDE DEF Event
  <1>8. /\ ledger' \in Seq(Event) /\ Len(ledger') = Len(ledger) + 1
        /\ DOMAIN ledger' = 1..(Len(ledger) + 1) /\ DOMAIN ledger = 1..Len(ledger)
        /\ ledger'[Len(ledger) + 1] = r
        /\ \A i \in 1..Len(ledger) : ledger'[i] = ledger[i]
    BY <1>0, <1>6, <1>7
  <1>9. VerifyChain(ledger')
    <2> SUFFICES ASSUME NEW i \in 1..(Len(ledger) + 1)
                 PROVE  /\ ledger'[i].seq = i
                        /\ ledger'[i].previous = IF i = 1 THEN Genesis ELSE ledger'[i - 1].hash
                        /\ ledger'[i].hash = HashOf(ledger'[i])
      BY <1>8 DEF VerifyChain
    <2>1. CASE i \in 1..Len(ledger)
      <3>1. /\ ledger[i].seq = i
            /\ ledger[i].previous = IF i = 1 THEN Genesis ELSE ledger[i - 1].hash
            /\ ledger[i].hash = HashOf(ledger[i])
        BY <1>8, <2>1, Zenon DEF AuditInv, VerifyChain
      <3>2. ledger'[i] = ledger[i] /\ (i # 1 => ledger'[i - 1] = ledger[i - 1])
        <4>1. i # 1 => i - 1 \in 1..Len(ledger)
          BY <1>0, <2>1
        <4> QED BY <1>8, <2>1, <4>1, Zenon
      <3> QED BY <3>1, <3>2
    <2>2. CASE i = Len(ledger) + 1
      <3>1. ledger'[i] = r
        BY <1>8, <2>2
      <3>2. CASE ledger = <<>>
        <4>1. i = 1 /\ previous = Genesis
          BY <1>1, <2>2, <3>2
        <4> QED BY <1>6, <2>2, <3>1, <4>1
      <3>3. CASE ledger # <<>>
        <4>1. i # 1 /\ i - 1 = Len(ledger) /\ i - 1 \in 1..Len(ledger)
          BY <1>0, <2>2, <3>3
        <4>2. previous = ledger'[i - 1].hash
          BY <1>1, <1>8, <3>3, <4>1
        <4> QED BY <1>6, <2>2, <3>1, <4>1, <4>2
      <3> QED BY <3>2, <3>3
    <2> QED BY <1>0, <2>1, <2>2
  <1> QED BY <1>8, <1>9 DEF AuditInv, VerifyChain, Event

(* Whatever texts callers record, the ledger is a hash chain that Verify accepts. *)
THEOREM AuditInvariant == AuditSpec => []AuditInv
  <1>1. AuditInit => AuditInv
    BY DEF AuditInit, AuditInv, VerifyChain
  <1>2. AuditInv /\ [AuditNext]_ledger => AuditInv'
    <2> SUFFICES ASSUME AuditInv, [AuditNext]_ledger PROVE AuditInv'
      OBVIOUS
    <2>1. CASE UNCHANGED ledger
      BY <2>1 DEF AuditInv, VerifyChain
    <2> QED BY <2>1, RecordKeeps DEF AuditNext
  <1> QED BY <1>1, <1>2, PTL DEF AuditSpec

(* What an event of the ledger holds, and the event after it. *)
LEMMA EventHolds ==
    ASSUME AuditInv, NEW i \in DOMAIN ledger
    PROVE  /\ i \in Nat /\ i # 0 /\ DOMAIN ledger = 1..Len(ledger) /\ Len(ledger) \in Nat
           /\ ledger[i] \in [seq: Nat, object: Texts, detail: Texts, previous: Hash, hash: Hash]
           /\ ledger[i].seq = i /\ ledger[i].object \in Texts /\ ledger[i].detail \in Texts
           /\ ledger[i].previous \in Hash /\ ledger[i].hash \in Hash
           /\ ledger[i].hash = Append(ledger[i].previous, <<i, JoinedText(ledger[i])>>)
           /\ JoinedText(ledger[i]) \in Seq(Word)
           /\ i < Len(ledger) => i + 1 \in DOMAIN ledger /\ ledger[i + 1].previous = ledger[i].hash
  <1> DEFINE Event == [seq: Nat, object: Texts, detail: Texts, previous: Hash, hash: Hash]
  <1>1. ledger \in Seq(Event)
    BY DEF AuditInv
  <1>2. i \in Nat /\ i # 0 /\ DOMAIN ledger = 1..Len(ledger) /\ Len(ledger) \in Nat /\ ledger[i] \in Event
    <2> HIDE DEF Event
    <2> QED BY <1>1
  <1>3. /\ ledger[i].object \in Texts /\ ledger[i].detail \in Texts
        /\ ledger[i].previous \in Hash /\ ledger[i].hash \in Hash
    BY <1>2
  <1>4. ledger[i].seq = i /\ ledger[i].hash = HashOf(ledger[i])
    BY Zenon DEF AuditInv, VerifyChain
  <1>5. /\ HashOf(ledger[i]) = Append(ledger[i].previous, <<i, JoinedText(ledger[i])>>)
        /\ JoinedText(ledger[i]) \in Seq(Word)
    BY <1>2, <1>3, <1>4, HashType
  <1>6. ASSUME i < Len(ledger)
        PROVE  i + 1 \in DOMAIN ledger /\ ledger[i + 1].previous = ledger[i].hash
    <2>1. i + 1 \in DOMAIN ledger /\ i + 1 # 1 /\ (i + 1) - 1 = i
      BY <1>2, <1>6
    <2>2. ledger[i + 1].previous = IF i + 1 = 1 THEN Genesis ELSE ledger[(i + 1) - 1].hash
      BY <2>1, Zenon DEF AuditInv, VerifyChain
    <2> QED BY <2>1, <2>2
  <1> HIDE DEF Event
  <1>7. ledger[i] \in [seq: Nat, object: Texts, detail: Texts, previous: Hash, hash: Hash]
    BY <1>2 DEF Event
  <1> QED BY <1>2, <1>3, <1>4, <1>5, <1>6, <1>7, Zenon

(* An event with another text has another hash. *)
LEMMA EditChangesHash ==
    ASSUME AuditInv, NEW i \in DOMAIN ledger, NEW object \in Texts, NEW detail \in Texts,
           NEW e, e = Edited(i, object, detail), JoinedText(e) # JoinedText(ledger[i])
    PROVE  /\ e.hash = ledger[i].hash
           /\ HashOf(e) # ledger[i].hash
  <1>1. /\ e.object = object /\ e.detail = detail /\ e.seq = i
        /\ e.previous = ledger[i].previous /\ e.hash = ledger[i].hash
    BY EventHolds DEF Edited
  <1>2. PICK previous \in Hash : previous = ledger[i].previous
    BY EventHolds, Zenon
  <1>3. HashOf(e) = Append(previous, <<i, JoinedText(e)>>) /\ JoinedText(e) \in Seq(Word)
    <2>1. i \in Nat
      BY EventHolds
    <2> QED BY <1>1, <1>2, <2>1, HashType
  <1>4. PICK x \in Nat \X Seq(Word), y \in Nat \X Seq(Word) :
           x = <<i, JoinedText(e)>> /\ y = <<i, JoinedText(ledger[i])>> /\ x # y
    <2>1. i \in Nat /\ JoinedText(ledger[i]) \in Seq(Word)
      BY EventHolds, Zenon
    <2>2. PICK a \in Seq(Word), b \in Seq(Word) : a = JoinedText(e) /\ b = JoinedText(ledger[i])
      BY <1>3, <2>1
    <2>3. <<i, a>> \in Nat \X Seq(Word) /\ <<i, b>> \in Nat \X Seq(Word) /\ <<i, a>> # <<i, b>>
      BY <2>1, <2>2
    <2> QED BY <2>2, <2>3, Zenon
  <1>5. Append(previous, x) # Append(previous, y)
    BY <1>4, HashIsInjective DEF Hash
  <1>6. ledger[i].hash = Append(previous, y)
    BY <1>2, <1>4, EventHolds
  <1> QED BY <1>1, <1>3, <1>4, <1>5, <1>6

(* The ledger with one event replaced. *)
LEMMA ReplacedEvent ==
    ASSUME AuditInv, NEW i \in DOMAIN ledger, NEW e, NEW copy, copy = [ledger EXCEPT ![i] = e]
    PROVE  /\ DOMAIN copy = DOMAIN ledger /\ copy[i] = e
           /\ \A k \in DOMAIN ledger \ {i} : copy[k] = ledger[k]
  OBVIOUS

(* Verify rejects the ledger with one event edited, rehashed or not. *)
LEMMA EditIsEvident ==
    ASSUME AuditInv, NEW i \in DOMAIN ledger, NEW object \in Texts, NEW detail \in Texts,
           NEW e, e = Edited(i, object, detail), JoinedText(e) # JoinedText(ledger[i])
    PROVE  /\ ~VerifyChain([ledger EXCEPT ![i] = e])
           /\ i < Len(ledger) => ~VerifyChain([ledger EXCEPT ![i] = Rehashed(e)])
  <1>1. e.hash = ledger[i].hash /\ HashOf(e) # ledger[i].hash
    BY EditChangesHash
  <1>2. ~VerifyChain([ledger EXCEPT ![i] = e])
    <2>1. PICK copy : copy = [ledger EXCEPT ![i] = e]
      OBVIOUS
    <2>2. i \in DOMAIN copy /\ copy[i] = e
      BY <2>1, ReplacedEvent
    <2>3. ~VerifyChain(copy)
      BY <1>1, <2>2 DEF VerifyChain
    <2> QED BY <2>1, <2>3
  <1>3. ASSUME i < Len(ledger) PROVE ~VerifyChain([ledger EXCEPT ![i] = Rehashed(e)])
    <2>1. PICK r, copy : r = Rehashed(e) /\ copy = [ledger EXCEPT ![i] = r]
      OBVIOUS
    <2>2. r.hash = HashOf(e)
      <3>1. PICK old : old \in [seq: Nat, object: Texts, detail: Texts, previous: Hash, hash: Hash]
                       /\ old = ledger[i]
        BY EventHolds, Zenon
      <3>2. e = [seq |-> old.seq, object |-> object, detail |-> detail, previous |-> old.previous,
                 hash |-> old.hash]
        BY <3>1 DEF Edited
      <3> QED BY <2>1, <3>2 DEF Rehashed
    <2>3. i + 1 \in DOMAIN ledger /\ ledger[i + 1].previous = ledger[i].hash /\ i + 1 # i /\ i + 1 # 1
             /\ (i + 1) - 1 = i
      BY <1>3, EventHolds
    <2>4. i + 1 \in DOMAIN copy /\ copy[i] = r /\ copy[i + 1] = ledger[i + 1]
      BY <2>1, <2>3, ReplacedEvent
    <2>5. ~VerifyChain(copy)
      <3> SUFFICES ASSUME VerifyChain(copy) PROVE FALSE
        OBVIOUS
      <3>1. copy[i + 1].previous = IF i + 1 = 1 THEN Genesis ELSE copy[(i + 1) - 1].hash
        BY <2>4, Zenon DEF VerifyChain
      <3> QED BY <1>1, <2>2, <2>3, <2>4, <3>1
    <2> QED BY <2>1, <2>5
  <1> QED BY <1>2, <1>3

(* Verify rejects the ledger without an event before the last. *)
LEMMA RemovalIsEvident ==
    ASSUME AuditInv, NEW i \in DOMAIN ledger, i < Len(ledger)
    PROVE  ~VerifyChain(Removed(i))
  <1> DEFINE Event == [seq: Nat, object: Texts, detail: Texts, previous: Hash, hash: Hash]
  <1>1. ledger \in Seq(Event) /\ i \in 1..Len(ledger) /\ Len(ledger) \in Nat
    BY EventHolds DEF AuditInv
  <1> HIDE DEF Event
  <1>2. PICK n \in Nat : n = Len(ledger) /\ i \in 1..n /\ i < n
    BY <1>1
  <1>a. PICK m \in Nat, rest \in Nat : m = i - 1 /\ m + 1 = i /\ rest = n - i /\ rest > 0
    BY <1>2
  <1>3. PICK front \in Seq(Event) : front = SubSeq(ledger, 1, i - 1) /\ Len(front) = m
    <2>1. SubSeq(ledger, 1, i - 1) \in Seq(Event) /\ Len(SubSeq(ledger, 1, i - 1)) = i - 1
      BY <1>1, <1>2
    <2> QED BY <1>a, <2>1
  <1>4. PICK back \in Seq(Event) : /\ back = SubSeq(ledger, i + 1, n)
                                   /\ Len(back) = rest /\ back[1] = ledger[i + 1]
    <2>1. /\ SubSeq(ledger, i + 1, n) \in Seq(Event) /\ Len(SubSeq(ledger, i + 1, n)) = n - i
          /\ SubSeq(ledger, i + 1, n)[1] = ledger[i + 1]
      BY <1>1, <1>2
    <2> QED BY <1>a, <2>1
  <1>5. PICK copy : copy = front \o back
    OBVIOUS
  <1>6. i \in DOMAIN copy /\ copy[i] = ledger[i + 1]
    <2>1. m = Len(front) /\ Len(back) > 0 /\ m + 1 = i
      BY <1>3, <1>4, <1>a, Zenon
    <2>2. m + 1 \in DOMAIN (front \o back) /\ (front \o back)[m + 1] = back[1]
      BY <2>1, AfterFront, Zenon
    <2> QED BY <1>4, <1>5, <2>1, <2>2, Zenon
  <1>7. ledger[i + 1].seq = i + 1 /\ i + 1 # i
    BY <1>2, EventHolds
  <1>8. ~VerifyChain(copy)
    BY <1>6, <1>7 DEF VerifyChain
  <1> QED BY <1>2, <1>3, <1>4, <1>5, <1>8 DEF Removed

(* Verify rejects the ledger with two events exchanged. *)
LEMMA SwapIsEvident ==
    ASSUME AuditInv, NEW i \in DOMAIN ledger, NEW j \in DOMAIN ledger, i # j
    PROVE  ~VerifyChain(Swapped(i, j))
  <1>1. PICK copy : copy = [ledger EXCEPT ![i] = ledger[j], ![j] = ledger[i]]
    OBVIOUS
  <1>2. i \in DOMAIN copy /\ copy[i] = ledger[j]
    BY <1>1
  <1>3. ledger[j].seq = j
    BY EventHolds
  <1>4. ~VerifyChain(copy)
    BY <1>2, <1>3 DEF VerifyChain
  <1> QED BY <1>1, <1>4 DEF Swapped

(* The result of EventsFor after each event it has gone through, as a function
   that satisfies its own definition.  There is one, for any number of events. *)
Filtered(f, n, object) ==
    f = [i \in 0..n |->
            IF i = 0 THEN <<>>
            ELSE IF ledger[i].object = object THEN Append(f[i - 1], ledger[i]) ELSE f[i - 1]]

(* EventsFor has such a function for every ledger. *)
LEMMA FilteredExists ==
    ASSUME NEW n \in Nat, NEW object
    PROVE  \E f : Filtered(f, n, object)
  <1> DEFINE T == {m \in Nat : ~ \E f : Filtered(f, m, object)}
  <1> SUFFICES ASSUME T # {} PROVE FALSE
    OBVIOUS
  <1>1. PICK m \in T : \A k \in T : m <= k
    <2>1. T \subseteq Nat
      OBVIOUS
    <2> HIDE DEF T
    <2> QED BY <2>1, LeastNumber
  <1>2. m \in Nat /\ ~ \E f : Filtered(f, m, object)
    OBVIOUS
  <1>3. CASE m = 0
    <2>1. PICK f : f = [i \in 0..0 |-> <<>>]
      OBVIOUS
    <2>2. Filtered(f, 0, object)
      BY <2>1 DEF Filtered
    <2> QED BY <1>2, <1>3, <2>2
  <1>4. CASE m # 0
    <2>1. PICK k \in Nat : m = k + 1
      BY <1>2, <1>4
    <2>2. k \notin T
      BY <1>1, <1>2, <2>1
    <2>3. PICK f : Filtered(f, k, object)
      BY <2>2
    <2>4. PICK g : g = [i \in 0..(k + 1) |->
             IF i <= k THEN f[i]
             ELSE IF ledger[k + 1].object = object THEN Append(f[k], ledger[k + 1]) ELSE f[k]]
      OBVIOUS
    <2>5. \A i \in 0..k : g[i] = f[i]
      BY <2>4
    <2>6. ASSUME NEW i \in 0..(k + 1)
          PROVE  g[i] = IF i = 0 THEN <<>>
                        ELSE IF ledger[i].object = object THEN Append(g[i - 1], ledger[i])
                        ELSE g[i - 1]
      <3>1. CASE i <= k
        <4>1. i \in 0..k /\ (i # 0 => i - 1 \in 0..k)
          BY <3>1
        <4>2. f[i] = IF i = 0 THEN <<>>
                     ELSE IF ledger[i].object = object THEN Append(f[i - 1], ledger[i]) ELSE f[i - 1]
          BY <2>3, <4>1 DEF Filtered
        <4> QED BY <2>5, <4>1, <4>2
      <3>2. CASE i = k + 1
        <4>1. i # 0 /\ ~(i <= k) /\ i - 1 = k /\ k \in 0..k
          BY <3>2
        <4>2. g[i - 1] = f[k]
          BY <2>5, <4>1
        <4> QED BY <2>4, <3>2, <4>1, <4>2
      <3> QED BY <3>1, <3>2
    <2>7. Filtered(g, k + 1, object)
      <3>1. PICK h : h = [i \in 0..(k + 1) |->
                            IF i = 0 THEN <<>>
                            ELSE IF ledger[i].object = object THEN Append(g[i - 1], ledger[i])
                            ELSE g[i - 1]]
        OBVIOUS
      <3>2. \A i \in 0..(k + 1) : g[i] = h[i]
        BY <2>6, <3>1
      <3>3. g = h
        BY <2>4, <3>1, <3>2
      <3> QED BY <3>1, <3>3 DEF Filtered
    <2> QED BY <1>2, <2>1, <2>7
  <1> QED BY <1>3, <1>4

(* What has been found among the first events ends with the last that matches. *)
EndsWithLast(found, n, object) ==
    IF found = <<>> THEN \A k \in 1..n : ledger[k].object # object
    ELSE \E j \in 1..n : /\ ledger[j].object = object
                         /\ \A k \in (j + 1)..n : ledger[k].object # object
                         /\ found[Len(found)] = ledger[j]

(* At every place it holds what the events so far say. *)
LEMMA FilteredEnds ==
    ASSUME NEW S, ledger \in Seq(S), NEW object, NEW f, Filtered(f, Len(ledger), object),
           NEW n \in 0..Len(ledger)
    PROVE  f[n] \in Seq(S) /\ EndsWithLast(f[n], n, object)
  <1>0. PICK size \in Nat : size = Len(ledger) /\ DOMAIN ledger = 1..size
    OBVIOUS
  <1>v. \A i \in 0..size :
           f[i] = IF i = 0 THEN <<>>
                  ELSE IF ledger[i].object = object THEN Append(f[i - 1], ledger[i]) ELSE f[i - 1]
    BY <1>0 DEF Filtered
  <1> DEFINE T == {m \in 0..size : ~(f[m] \in Seq(S) /\ EndsWithLast(f[m], m, object))}
  <1> SUFFICES ASSUME T # {} PROVE FALSE
    BY <1>0
  <1>1. PICK m \in T : \A k \in T : m <= k
    <2>1. T \subseteq Nat
      BY <1>0
    <2> HIDE DEF T
    <2> QED BY <2>1, LeastNumber
  <1>2. m \in 0..size /\ ~(f[m] \in Seq(S) /\ EndsWithLast(f[m], m, object))
    OBVIOUS
  <1>3. CASE m = 0
    <2>1. f[0] = <<>>
      BY <1>0, <1>v
    <2>2. <<>> \in Seq(S) /\ EndsWithLast(<<>>, 0, object)
      BY DEF EndsWithLast
    <2> QED BY <1>2, <1>3, <2>1, <2>2
  <1>4. CASE m # 0
    <2>1. PICK k \in 0..size : m = k + 1 /\ m - 1 = k /\ m \in 1..size
      <3>1. m - 1 \in 0..size /\ m = (m - 1) + 1 /\ m \in 1..size
        BY <1>0, <1>2, <1>4
      <3> QED BY <3>1
    <2>2. f[k] \in Seq(S) /\ EndsWithLast(f[k], k, object)
      <3>1. k \notin T
        BY <1>0, <1>1, <1>2, <2>1
      <3> QED BY <3>1
    <2>3. f[m] = IF ledger[m].object = object THEN Append(f[k], ledger[m]) ELSE f[k]
      BY <1>2, <1>4, <1>v, <2>1
    <2>4. ledger[m] \in S
      BY <1>0, <2>1
    <2>5. PICK s \in Seq(S) : s = f[k]
      BY <2>2
    <2>6. CASE ledger[m].object = object
      <3>1. f[m] = Append(s, ledger[m])
        BY <2>3, <2>5, <2>6
      <3>2. PICK r \in Seq(S) : r = Append(s, ledger[m]) /\ r # <<>> /\ r[Len(r)] = ledger[m]
        <4>1. /\ Append(s, ledger[m]) \in Seq(S) /\ Append(s, ledger[m]) # <<>>
              /\ Append(s, ledger[m])[Len(Append(s, ledger[m]))] = ledger[m]
          BY <2>4, AppendProperties
        <4> QED BY <4>1
      <3>3. m \in 1..m /\ \A l \in (m + 1)..m : FALSE
        BY <1>0, <2>1
      <3>4. EndsWithLast(r, m, object)
        BY <2>6, <3>2, <3>3 DEF EndsWithLast
      <3> QED BY <1>2, <3>1, <3>2, <3>4
    <2>7. CASE ledger[m].object # object
      <3>1. f[m] = s /\ EndsWithLast(s, k, object)
        BY <2>2, <2>3, <2>5, <2>7
      <3>2. CASE s = <<>>
        <4>1. \A l \in 1..k : ledger[l].object # object
          BY <3>1, <3>2 DEF EndsWithLast
        <4>2. \A l \in 1..m : l \in 1..k \/ l = m
          BY <1>0, <2>1
        <4>3. EndsWithLast(s, m, object)
          BY <2>7, <3>2, <4>1, <4>2 DEF EndsWithLast
        <4> QED BY <1>2, <3>1, <4>3
      <3>3. CASE s # <<>>
        <4>1. PICK j \in 1..k : /\ ledger[j].object = object
                                /\ \A l \in (j + 1)..k : ledger[l].object # object
                                /\ s[Len(s)] = ledger[j]
          BY <3>1, <3>3 DEF EndsWithLast
        <4>2. j \in 1..m /\ \A l \in (j + 1)..m : l \in (j + 1)..k \/ l = m
          BY <1>0, <2>1
        <4>3. \A l \in (j + 1)..m : ledger[l].object # object
          BY <2>7, <4>1, <4>2
        <4>4. EndsWithLast(s, m, object)
          BY <3>3, <4>1, <4>2, <4>3 DEF EndsWithLast
        <4> QED BY <1>2, <3>1, <4>4
      <3> QED BY <3>2, <3>3
    <2> QED BY <2>6, <2>7
  <1> QED BY <1>3, <1>4

(* Latest answers the last of the events that EventsFor answers. *)
LEMMA LookupsAgree ==
    ASSUME AuditInv, NEW object, NEW found, found = EventsFor(object)
    PROVE  Latest(object) = IF found = <<>> THEN {} ELSE {found[Len(found)]}
  <1>1. PICK S : ledger \in Seq(S)
    BY DEF AuditInv
  <1>2. PICK n \in Nat : n = Len(ledger) /\ DOMAIN ledger = 1..n
    BY <1>1
  <1>3. PICK f : f = CHOOSE g : Filtered(g, Len(ledger), object)
    OBVIOUS
  <1>4. Filtered(f, Len(ledger), object)
    <2>1. \E g : Filtered(g, Len(ledger), object)
      BY <1>2, FilteredExists
    <2> QED BY <1>3, <2>1, Zenon
  <1>5. found = f[Len(ledger)]
    BY <1>3, Zenon DEF EventsFor, Filtered
  <1>6. EndsWithLast(found, n, object)
    <2>1. Len(ledger) \in 0..Len(ledger)
      BY <1>2
    <2>2. EndsWithLast(f[Len(ledger)], Len(ledger), object)
      BY <1>1, <1>4, <2>1, FilteredEnds
    <2> QED BY <1>2, <1>5, <2>2
  <1>7. CASE found = <<>>
    <2>1. \A k \in 1..n : ledger[k].object # object
      BY <1>6, <1>7 DEF EndsWithLast
    <2>2. Latest(object) = {}
      BY <1>2, <2>1 DEF Latest
    <2> QED BY <1>7, <2>2
  <1>8. CASE found # <<>>
    <2>1. PICK j \in 1..n : /\ ledger[j].object = object
                            /\ \A k \in (j + 1)..n : ledger[k].object # object
                            /\ found[Len(found)] = ledger[j]
      BY <1>6, <1>8 DEF EndsWithLast
    <2>2. \A k \in 1..n : k > j => ledger[k].object # object
      BY <1>2, <2>1
    <2>3. {i \in DOMAIN ledger : /\ ledger[i].object = object
                                 /\ \A k \in DOMAIN ledger : k > i => ledger[k].object # object} = {j}
      BY <1>2, <2>1, <2>2
    <2>4. Latest(object) = {ledger[j]}
      BY <2>3, Zenon DEF Latest
    <2> QED BY <1>8, <2>1, <2>4
  <1> QED BY <1>7, <1>8

(* The invariant is all that the property needs. *)
LEMMA InvIsTamperEvident ==
    ASSUME AuditInv
    PROVE  TamperEvident
  <1>1. VerifyChain(ledger)
    BY DEF AuditInv
  <1>2. \A object \in Texts :
          LET found == EventsFor(object) IN
          Latest(object) = IF found = <<>> THEN {} ELSE {found[Len(found)]}
    BY LookupsAgree
  <1>3. ASSUME NEW i \in DOMAIN ledger
        PROVE  /\ \A object, detail \in Texts :
                    LET e == Edited(i, object, detail) IN
                    JoinedText(e) # JoinedText(ledger[i]) =>
                       /\ ~VerifyChain([ledger EXCEPT ![i] = e])
                       /\ i < Len(ledger) => ~VerifyChain([ledger EXCEPT ![i] = Rehashed(e)])
               /\ i < Len(ledger) => ~VerifyChain(Removed(i))
               /\ \A j \in DOMAIN ledger : i # j => ~VerifyChain(Swapped(i, j))
    BY <1>3, EditIsEvident, RemovalIsEvident, SwapIsEvident
  <1> QED BY <1>1, <1>2, <1>3 DEF TamperEvident

(* For any texts and any number of events Verify accepts the ledger that Record
   has written, but no copy of it with another text in one event (before the
   last also if its hash was made to fit), without an event before the last or
   with two events exchanged; and Latest answers the last event of EventsFor. *)
THEOREM AuditIsTamperEvident == AuditSpec => []TamperEvident
  BY AuditInvariant, InvIsTamperEvident, PTL

------------------------------------------------------------------------------
(* The chunk references.                                                    *)

(* A sequence is a function on its places. *)
LEMMA SeqIsFunction ==
    ASSUME NEW S, NEW s \in Seq(S), NEW n, n = Len(s)
    PROVE  s \in [1..n -> S]
  OBVIOUS

(* The live digests after each entry that has been gone through. *)
Rebuilt(f, n, slots) ==
    f = [i \in 0..n |->
            IF i = 0 THEN <<>>
            ELSE IF slots[i].count > 0 THEN Append(f[i - 1], slots[i].digest) ELSE f[i - 1]]

(* No entry has the count 0, so the list names the digest of each. *)
LEMMA LiveIsAll ==
    ASSUME NEW slots \in Seq(RefEntry)
    PROVE  LiveDigests(slots) = [i \in 1..Len(slots) |-> slots[i].digest]
  <1>1. PICK n \in Nat : n = Len(slots)
    OBVIOUS
  <1>2. \A i \in 1..n : slots[i] \in RefEntry
    BY <1>1
  <1>3. \A i \in 1..n : slots[i].count > 0 /\ slots[i].digest \in Digests
    BY <1>2 DEF RefEntry
  <1> DEFINE Prefix(k) == [i \in 1..k |-> slots[i].digest]
  <1>4. ASSUME NEW k \in Nat, k + 1 <= n
        PROVE  Append(Prefix(k), slots[k + 1].digest) = Prefix(k + 1)
    <2>1. Prefix(k) \in Seq(Digests) /\ Len(Prefix(k)) = k
      <3>1. \A i \in 1..k : i \in 1..n
        BY <1>1, <1>4
      <3>2. Prefix(k) \in [1..k -> Digests]
        BY <1>3, <3>1
      <3> QED BY <3>2
    <2>2. PICK s \in Seq(Digests) : s = Prefix(k) /\ Len(s) = k
      BY <2>1
    <2>3. \A i \in 1..k : s[i] = slots[i].digest
      BY <2>2
    <2>4. PICK x \in Digests : x = slots[k + 1].digest
      BY <1>1, <1>3, <1>4
    <2>5. /\ Append(s, x) \in [1..(k + 1) -> Digests]
          /\ \A i \in 1..(k + 1) : Append(s, x)[i] = slots[i].digest
      <3>1. /\ Append(s, x) \in Seq(Digests) /\ Len(Append(s, x)) = k + 1
            /\ \A i \in 1..k : Append(s, x)[i] = s[i]
            /\ Append(s, x)[k + 1] = x
        BY <2>2, AppendProperties
      <3>2. \A i \in 1..(k + 1) : i \in 1..k \/ i = k + 1
        OBVIOUS
      <3>3. PICK r \in Seq(Digests) : r = Append(s, x) /\ Len(r) = k + 1
        BY <3>1, Zenon
      <3>4. r \in [1..(k + 1) -> Digests]
        BY <3>3, SeqIsFunction, Zenon
      <3>5. \A i \in 1..(k + 1) : r[i] = slots[i].digest
        BY <2>3, <2>4, <3>1, <3>2, <3>3, Zenon
      <3> QED BY <3>3, <3>4, <3>5, Zenon
    <2>6. Append(s, x) = Prefix(k + 1)
      BY <2>5
    <2> QED BY <2>2, <2>4, <2>6
  <1>5. Prefix(0) = <<>>
    OBVIOUS
  <1>6. PICK g : g = [i \in 0..n |-> Prefix(i)]
    OBVIOUS
  <1>7. \A i \in 0..n : g[i] = Prefix(i)
    BY <1>6, Zenon
  <1> HIDE DEF Prefix
  <1>8. Rebuilt(g, n, slots)
    <2>1. ASSUME NEW i \in 0..n
          PROVE  g[i] = IF i = 0 THEN <<>>
                        ELSE IF slots[i].count > 0 THEN Append(g[i - 1], slots[i].digest)
                        ELSE g[i - 1]
      <3>1. CASE i = 0
        BY <1>5, <1>7, <3>1
      <3>2. CASE i # 0
        <4>1. PICK k \in Nat : i = k + 1 /\ k + 1 <= n /\ i - 1 = k /\ k \in 0..n /\ i \in 1..n
          <5>1. i - 1 \in Nat /\ i = (i - 1) + 1 /\ (i - 1) + 1 <= n /\ i - 1 \in 0..n /\ i \in 1..n
            BY <1>1, <3>2
          <5> QED BY <5>1
        <4>2. g[i] = Append(Prefix(k), slots[k + 1].digest)
          BY <1>4, <1>7, <4>1
        <4>3. g[i - 1] = Prefix(k) /\ slots[i].count > 0
          BY <1>3, <1>7, <4>1
        <4> QED BY <3>2, <4>1, <4>2, <4>3
      <3> QED BY <3>1, <3>2
    <2>2. PICK h : h = [i \in 0..n |->
                          IF i = 0 THEN <<>>
                          ELSE IF slots[i].count > 0 THEN Append(g[i - 1], slots[i].digest)
                          ELSE g[i - 1]]
      OBVIOUS
    <2>3. \A i \in 0..n : g[i] = h[i]
      BY <2>1, <2>2
    <2>4. g = h
      BY <1>6, <2>2, <2>3
    <2> QED BY <2>2, <2>4 DEF Rebuilt
  <1>9. PICK f : f = CHOOSE h : Rebuilt(h, Len(slots), slots)
    OBVIOUS
  <1>10. Rebuilt(f, n, slots)
    BY <1>1, <1>8, <1>9, Zenon
  <1>11. LiveDigests(slots) = f[n]
    BY <1>1, <1>9, Zenon DEF LiveDigests, Rebuilt
  <1> DEFINE T == {m \in Nat : m <= n /\ f[m] # g[m]}
  <1>12. T = {}
    <2> SUFFICES ASSUME T # {} PROVE FALSE
      OBVIOUS
    <2>1. PICK m \in T : \A k \in T : m <= k
      <3>1. T \subseteq Nat
        OBVIOUS
      <3> HIDE DEF T
      <3> QED BY <3>1, LeastNumber
    <2>2. m \in Nat /\ m <= n /\ f[m] # g[m]
      OBVIOUS
    <2>3. /\ f[m] = IF m = 0 THEN <<>>
                    ELSE IF slots[m].count > 0 THEN Append(f[m - 1], slots[m].digest)
                    ELSE f[m - 1]
          /\ g[m] = IF m = 0 THEN <<>>
                    ELSE IF slots[m].count > 0 THEN Append(g[m - 1], slots[m].digest)
                    ELSE g[m - 1]
      <3>1. m \in 0..n
        BY <2>2
      <3> QED BY <1>8, <1>10, <3>1 DEF Rebuilt
    <2>4. m # 0
      BY <2>2, <2>3
    <2>5. PICK k \in Nat : k = m - 1 /\ k < m /\ k <= n
      BY <1>1, <2>2, <2>4
    <2>6. f[k] = g[k]
      BY <2>1, <2>2, <2>5
    <2> QED BY <2>2, <2>3, <2>5, <2>6
  <1>13. f[n] = Prefix(n)
    <2>1. n \in 0..n /\ n <= n
      BY <1>1
    <2>2. f[n] = g[n]
      BY <1>12, <2>1
    <2> QED BY <1>7, <2>1, <2>2
  <1> QED BY <1>1, <1>11, <1>13 DEF Prefix

(* What the invariant says of a digest and of a place. *)
LEMMA Places ==
    ASSUME RefCountsInv
    PROVE  /\ Len(refs) \in Nat /\ DOMAIN refs = 1..Len(refs)
           /\ \A i \in 1..Len(refs) : /\ refs[i] \in RefEntry /\ refs[i].digest \in Digests
                                      /\ refs[i].count \in Nat /\ refs[i].count > 0
                                      /\ index[refs[i].digest] = i
           /\ \A d \in Digests : index[d] # 0 =>
                index[d] \in 1..Len(refs) /\ refs[index[d]].digest = d
                  /\ balance[d] = refs[index[d]].count
           /\ \A d \in Digests : index[d] = 0 => balance[d] = 0
  <1>1. refs \in Seq(RefEntry) /\ index \in [Digests -> Nat]
    BY DEF RefCountsInv, RefCountsTypeOK
  <1>2. Len(refs) \in Nat /\ DOMAIN refs = 1..Len(refs) /\ \A i \in 1..Len(refs) : refs[i] \in RefEntry
    BY <1>1
  <1>3. \A i \in 1..Len(refs) : refs[i].digest \in Digests /\ refs[i].count \in Nat /\ refs[i].count > 0
    BY <1>2 DEF RefEntry
  <1>4. \A i \in 1..Len(refs) : index[refs[i].digest] = i
    BY <1>2 DEF RefCountsInv
  <1>5. ASSUME NEW d \in Digests, index[d] # 0
        PROVE  index[d] \in 1..Len(refs) /\ refs[index[d]].digest = d /\ balance[d] = refs[index[d]].count
    <2>1. index[d] \in 0..Len(refs) /\ Refcount(d) = balance[d] /\ refs[index[d]].digest = d
      BY <1>5 DEF RefCountsInv, RefcountIsBalance
    <2> QED BY <1>2, <1>5, <2>1 DEF Refcount
  <1>6. ASSUME NEW d \in Digests, index[d] = 0 PROVE balance[d] = 0
    BY <1>6 DEF RefCountsInv, RefcountIsBalance, Refcount
  <1> QED BY <1>2, <1>3, <1>4, <1>5, <1>6, Zenon

(* The places of a sequence that hold one value, when only one does. *)
LEMMA OnePlace ==
    ASSUME NEW S, NEW f, NEW x, NEW p \in S, \A i \in S : f[i] = x <=> i = p
    PROVE  {i \in S : f[i] = x} = {p}
  OBVIOUS

(* The index and the slice are inverse and the counts are the balance. *)
Agree(rs, ix, bal) ==
    /\ rs \in Seq(RefEntry) /\ ix \in [Digests -> Nat] /\ bal \in [Digests -> Nat]
    /\ \A i \in 1..Len(rs) : ix[rs[i].digest] = i
    /\ \A d \in Digests : ix[d] # 0 =>
         ix[d] \in 1..Len(rs) /\ rs[ix[d]].digest = d /\ bal[d] = rs[ix[d]].count
    /\ \A d \in Digests : ix[d] = 0 => bal[d] = 0

(* Such a store satisfies the invariant, once the live digests are rebuilt. *)
LEMMA StoreIsSound ==
    ASSUME NEW rs, NEW ix, NEW bal, Agree(rs, ix, bal),
           refs' = rs, index' = ix, balance' = bal, live' = LiveDigests(refs')
    PROVE  RefCountsInv'
  <1>0. /\ rs \in Seq(RefEntry) /\ ix \in [Digests -> Nat] /\ bal \in [Digests -> Nat]
        /\ \A i \in 1..Len(rs) : ix[rs[i].digest] = i
        /\ \A d \in Digests : ix[d] # 0 =>
             ix[d] \in 1..Len(rs) /\ rs[ix[d]].digest = d /\ bal[d] = rs[ix[d]].count
        /\ \A d \in Digests : ix[d] = 0 => bal[d] = 0
    BY DEF Agree
  <1>1. PICK n \in Nat : n = Len(rs) /\ DOMAIN rs = 1..n
    BY <1>0
  <1>2. \A i \in 1..n : rs[i] \in RefEntry
    BY <1>0, <1>1
  <1>3. \A i \in 1..n : rs[i].digest \in Digests /\ rs[i].count \in Nat /\ rs[i].count > 0
    BY <1>2 DEF RefEntry
  <1>4. PICK lv : lv = LiveDigests(rs)
    OBVIOUS
  <1>5. live' = lv
    BY <1>4
  <1>6. lv = [i \in 1..n |-> rs[i].digest]
    BY <1>0, <1>1, <1>4, LiveIsAll
  <1>7. lv \in Seq(Digests) /\ DOMAIN lv = 1..n /\ \A i \in 1..n : lv[i] = rs[i].digest
    <2>1. lv \in [1..n -> Digests]
      BY <1>3, <1>6
    <2> QED BY <1>6, <2>1
  <1>8. ASSUME NEW d \in Digests
        PROVE  Cardinality({i \in DOMAIN lv : lv[i] = d}) = IF bal[d] > 0 THEN 1 ELSE 0
    <2>0. PICK m : m = Cardinality({i \in DOMAIN lv : lv[i] = d})
      OBVIOUS
    <2>1. CASE ix[d] = 0
      <3>1. {i \in DOMAIN lv : lv[i] = d} = {}
        BY <1>0, <1>1, <1>7, <2>1
      <3>2. bal[d] = 0
        BY <1>0, <2>1
      <3>3. Cardinality({}) = 0
        BY FS_EmptySet
      <3>4. m = 0
        BY <2>0, <3>1, <3>3, Zenon
      <3>5. m = IF bal[d] > 0 THEN 1 ELSE 0
        BY <3>2, <3>4
      <3> QED BY <2>0, <3>5, Zenon
    <2>2. CASE ix[d] # 0
      <3>1. PICK p \in 1..n : p = ix[d] /\ rs[p].digest = d /\ bal[d] = rs[p].count
        BY <1>0, <1>1, <2>2
      <3>2. {i \in DOMAIN lv : lv[i] = d} = {p}
        <4>1. ASSUME NEW i \in 1..n PROVE lv[i] = d <=> i = p
          <5>1. lv[i] = rs[i].digest /\ ix[rs[i].digest] = i /\ lv[p] = d
            BY <1>0, <1>1, <1>7, <3>1
          <5> QED BY <3>1, <5>1
        <4>2. {i \in 1..n : lv[i] = d} = {p}
          BY <4>1
        <4> QED BY <1>7, <4>2, Zenon
      <3>3. bal[d] > 0
        BY <1>3, <3>1
      <3>4. Cardinality({p}) = 1
        BY FS_Singleton
      <3>5. m = 1
        BY <2>0, <3>2, <3>4, Zenon
      <3>6. m = IF bal[d] > 0 THEN 1 ELSE 0
        BY <3>3, <3>5
      <3> QED BY <2>0, <3>6, Zenon
    <2> QED BY <2>1, <2>2
  <1>9. RefCountsTypeOK'
    BY <1>0, <1>5, <1>7 DEF RefCountsTypeOK
  <1>10. \A i \in DOMAIN refs' : index'[refs'[i].digest] = i
    BY <1>0, <1>1
  <1>11. \A d \in Digests : index'[d] # 0 => refs'[index'[d]].digest = d
    BY <1>0
  <1>12. RefcountIsBalance'
    <2>1. \A d \in Digests : /\ ix[d] \in 0..Len(rs)
                             /\ (IF ix[d] # 0 THEN rs[ix[d]].count ELSE 0) = bal[d]
      BY <1>0, <1>1
    <2> QED BY <2>1 DEF RefcountIsBalance, Refcount
  <1>13. LiveIsReferenced'
    BY <1>4, <1>5, <1>8 DEF LiveIsReferenced
  <1> QED BY <1>9, <1>10, <1>11, <1>12, <1>13 DEF RefCountsInv

(* What an assignment to one key of a map leaves. *)
LEMMA OneChanged ==
    ASSUME NEW S, NEW T, NEW f \in [S -> T], NEW d \in S, NEW c \in T,
           NEW g, g = [f EXCEPT ![d] = c]
    PROVE  g \in [S -> T] /\ g[d] = c /\ \A x \in S : x # d => g[x] = f[x]
  OBVIOUS

(* The same for a place of a slice. *)
LEMMA OneReplaced ==
    ASSUME NEW S, NEW s \in Seq(S), NEW n \in Nat, n = Len(s), NEW p \in 1..n, NEW e \in S,
           NEW r, r = [s EXCEPT ![p] = e]
    PROVE  r \in Seq(S) /\ Len(r) = n /\ r[p] = e /\ \A i \in 1..n : i # p => r[i] = s[i]
  OBVIOUS

(* What appending leaves. *)
LEMMA OneAppended ==
    ASSUME NEW S, NEW s \in Seq(S), NEW e \in S, NEW n \in Nat, n = Len(s),
           NEW r, r = Append(s, e)
    PROVE  r \in Seq(S) /\ Len(r) = n + 1 /\ r[n + 1] = e /\ \A i \in 1..n : r[i] = s[i]
  BY AppendProperties

(* What cutting one place out of a sequence leaves. *)
Cut(r, s, n, p) ==
    Len(r) = n - 1 /\ \A i \in 1..(n - 1) : r[i] = IF i < p THEN s[i] ELSE s[i + 1]

(* Cut is what RemoveAt does. *)
LEMMA OneRemoved ==
    ASSUME NEW S, NEW s \in Seq(S), NEW n \in Nat, n = Len(s), NEW p \in 1..n,
           NEW r, r = RemoveAt(s, p)
    PROVE  r \in Seq(S) /\ Cut(r, s, n, p)
  <1>1. PICK a : a = SubSeq(s, 1, p - 1)
    OBVIOUS
  <1>2. a \in Seq(S) /\ Len(a) = p - 1 /\ \A i \in 1..(p - 1) : a[i] = s[i]
    <2>1. \A i \in 1..(p - 1) : s[i] \in S
      OBVIOUS
    <2> QED BY <1>1, <2>1, SubSeqProperties
  <1>3. PICK z : z = SubSeq(s, p + 1, n)
    OBVIOUS
  <1>4. z \in Seq(S) /\ Len(z) = n - p /\ \A i \in 1..(n - p) : z[i] = s[p + i]
    <2>1. \A i \in (p + 1)..n : s[i] \in S
      OBVIOUS
    <2>2. /\ z \in Seq(S)
          /\ Len(z) = IF p + 1 <= n THEN n - (p + 1) + 1 ELSE 0
          /\ \A i \in 1..(n - (p + 1) + 1) : z[i] = s[p + 1 + i - 1]
      BY <1>3, <2>1, SubSeqProperties
    <2>3. n - (p + 1) + 1 = n - p /\ \A i \in 1..(n - p) : p + 1 + i - 1 = p + i
      OBVIOUS
    <2> QED BY <2>2, <2>3
  <1>5. r = a \o z
    BY <1>1, <1>3 DEF RemoveAt
  <1> HIDE DEF RemoveAt
  <1>6. /\ r \in Seq(S) /\ Len(r) = Len(a) + Len(z)
        /\ \A i \in 1..(Len(a) + Len(z)) : r[i] = IF i <= Len(a) THEN a[i] ELSE z[i - Len(a)]
    <2>1. a \in Seq(S) /\ z \in Seq(S)
      BY <1>2, <1>4, Zenon
    <2>2. /\ a \o z \in Seq(S) /\ Len(a \o z) = Len(a) + Len(z)
          /\ \A i \in 1..(Len(a) + Len(z)) : (a \o z)[i] = IF i <= Len(a) THEN a[i] ELSE z[i - Len(a)]
      BY <2>1, ConcatProperties, Zenon
    <2> QED BY <1>5, <2>2, Zenon
  <1>7. PICK m \in Nat, l \in Nat : /\ m = n - 1 /\ l = p - 1
                                    /\ Len(a) = l /\ Len(a) + Len(z) = m
    <2>1. Len(a) = p - 1 /\ Len(z) = n - p
      BY <1>2, <1>4, Zenon
    <2>2. p - 1 \in Nat /\ n - 1 \in Nat /\ (p - 1) + (n - p) = n - 1
      OBVIOUS
    <2>3. Len(a) + Len(z) = n - 1
      BY <2>1, <2>2, Zenon
    <2> QED BY <2>1, <2>2, <2>3, Zenon
  <1>8. Len(r) = m /\ \A i \in 1..m : r[i] = IF i <= l THEN a[i] ELSE z[i - l]
    BY <1>6, <1>7, Zenon
  <1>9. ASSUME NEW i \in 1..m PROVE r[i] = IF i < p THEN s[i] ELSE s[i + 1]
    <2>1. CASE i < p
      <3>1. i <= l /\ i \in 1..(p - 1)
        BY <1>7, <2>1
      <3> QED BY <1>2, <1>8, <2>1, <3>1
    <2>2. CASE ~(i < p)
      <3>1. ~(i <= l) /\ i - l \in 1..(n - p) /\ p + (i - l) = i + 1
        BY <1>7, <2>2
      <3> QED BY <1>4, <1>8, <2>2, <3>1
    <2> QED BY <2>1, <2>2
  <1> QED BY <1>6, <1>7, <1>8, <1>9, Zenon DEF Cut

(* The entry of a digest is counted up or down. *)
LEMMA CountChanges ==
    ASSUME RefCountsInv, NEW d \in Digests, index[d] # 0,
           refs' \in Seq(RefEntry), balance' \in [Digests -> Nat], index' = index,
           Len(refs') = Len(refs),
           refs'[index[d]].digest = d, refs'[index[d]].count = balance'[d],
           \A i \in 1..Len(refs) : i # index[d] => refs'[i] = refs[i],
           \A x \in Digests : x # d => balance'[x] = balance[x],
           live' = LiveDigests(refs')
    PROVE  RefCountsInv'
  <1>a. PICK rs \in Seq(RefEntry), bal \in [Digests -> Nat] : refs' = rs /\ balance' = bal
    OBVIOUS
  <1>b. /\ Len(rs) = Len(refs) /\ rs[index[d]].digest = d /\ rs[index[d]].count = bal[d]
        /\ \A i \in 1..Len(refs) : i # index[d] => rs[i] = refs[i]
        /\ \A x \in Digests : x # d => bal[x] = balance[x]
    BY <1>a, Zenon
  <1>0. index \in [Digests -> Nat]
    BY DEF RefCountsInv, RefCountsTypeOK
  <1>1. PICK ix \in [Digests -> Nat] : ix = index
    BY <1>b, <1>0
  <1>2. PICK n \in Nat : n = Len(refs) /\ n = Len(rs)
    BY <1>b
  <1>3. PICK p \in 1..n : p = ix[d] /\ refs[p].digest = d
    BY <1>b, <1>1, <1>2, Places
  <1>4. /\ rs[p].digest = d /\ rs[p].count = bal[d]
        /\ \A i \in 1..n : i # p => rs[i] = refs[i]
    BY <1>b, <1>1, <1>2, <1>3
  <1>5. \A i \in 1..n : ix[rs[i].digest] = i
    <2>1. \A i \in 1..n : ix[refs[i].digest] = i
      BY <1>b, <1>1, <1>2, Places
    <2> QED BY <1>b, <1>3, <1>4, <2>1
  <1>6. ASSUME NEW x \in Digests, ix[x] # 0
        PROVE  ix[x] \in 1..n /\ rs[ix[x]].digest = x /\ bal[x] = rs[ix[x]].count
    <2>1. ix[x] \in 1..n /\ refs[ix[x]].digest = x /\ balance[x] = refs[ix[x]].count
      BY <1>b, <1>1, <1>2, <1>6, Places
    <2>2. CASE x = d
      BY <1>b, <1>3, <1>4, <2>2
    <2>3. CASE x # d
      <3>1. ix[x] # p
        BY <1>b, <1>3, <2>1, <2>3
      <3> QED BY <1>b, <1>4, <2>1, <2>3, <3>1
    <2> QED BY <1>b, <2>2, <2>3
  <1>7. ASSUME NEW x \in Digests, ix[x] = 0 PROVE bal[x] = 0
    <2>1. x # d /\ balance[x] = 0
      BY <1>b, <1>1, <1>7, Places
    <2> QED BY <1>b, <2>1
  <1>8. index' = ix
    BY <1>b, <1>1
  <1>9. Agree(rs, ix, bal)
    BY <1>b, <1>2, <1>5, <1>6, <1>7, Zenon DEF Agree
  <1> QED BY <1>a, <1>8, <1>9, StoreIsSound, Zenon

(* An entry is appended for a digest that had none. *)
LEMMA EntryAppended ==
    ASSUME RefCountsInv, NEW d \in Digests, index[d] = 0, NEW n \in Nat, n = Len(refs),
           refs' \in Seq(RefEntry), index' \in [Digests -> Nat], balance' \in [Digests -> Nat],
           Len(refs') = n + 1, refs'[n + 1].digest = d, refs'[n + 1].count = balance'[d],
           \A i \in 1..n : refs'[i] = refs[i],
           index'[d] = n + 1,
           \A x \in Digests : x # d => index'[x] = index[x] /\ balance'[x] = balance[x],
           live' = LiveDigests(refs')
    PROVE  RefCountsInv'
  <1>a. PICK rs \in Seq(RefEntry), ix \in [Digests -> Nat], bal \in [Digests -> Nat] :
          refs' = rs /\ index' = ix /\ balance' = bal
    OBVIOUS
  <1>b. /\ Len(rs) = n + 1 /\ rs[n + 1].digest = d /\ rs[n + 1].count = bal[d]
        /\ \A i \in 1..n : rs[i] = refs[i]
        /\ ix[d] = n + 1
        /\ \A x \in Digests : x # d => ix[x] = index[x] /\ bal[x] = balance[x]
    BY <1>a, Zenon
  <1>1. ASSUME NEW i \in 1..Len(rs) PROVE ix[rs[i].digest] = i
    <2>1. CASE i \in 1..n
      <3>1. rs[i] = refs[i] /\ refs[i].digest \in Digests /\ index[refs[i].digest] = i
        BY <1>b, <2>1, Places
      <3>2. refs[i].digest # d
        BY <1>b, <2>1, <3>1
      <3> QED BY <1>b, <3>1, <3>2
    <2>2. CASE i = n + 1
      BY <1>b, <2>2
    <2> QED BY <1>b, <2>1, <2>2
  <1>2. ASSUME NEW x \in Digests, ix[x] # 0
        PROVE  ix[x] \in 1..Len(rs) /\ rs[ix[x]].digest = x /\ bal[x] = rs[ix[x]].count
    <2>1. CASE x = d
      BY <1>b, <2>1
    <2>2. CASE x # d
      <3>1. ix[x] = index[x] /\ bal[x] = balance[x]
        BY <1>b, <2>2
      <3>2. index[x] \in 1..n /\ refs[index[x]].digest = x /\ balance[x] = refs[index[x]].count
        BY <1>b, <1>2, <3>1, Places
      <3>3. rs[index[x]] = refs[index[x]] /\ index[x] \in 1..Len(rs)
        BY <1>b, <3>2
      <3> QED BY <1>b, <3>1, <3>2, <3>3
    <2> QED BY <1>b, <2>1, <2>2
  <1>3. ASSUME NEW x \in Digests, ix[x] = 0 PROVE bal[x] = 0
    <2>1. x # d
      BY <1>b, <1>3
    <2>2. index[x] = 0
      BY <1>b, <1>3, <2>1
    <2> QED BY <1>b, <2>1, <2>2, Places
  <1>4. Agree(rs, ix, bal)
    BY <1>b, <1>1, <1>2, <1>3, Zenon DEF Agree
  <1> QED BY <1>a, <1>4, StoreIsSound, Zenon

(* The entry of a digest is cut out and the ones behind it move up. *)
LEMMA EntryRemoved ==
    ASSUME RefCountsInv, NEW d \in Digests, NEW p \in Nat, p = index[d], p # 0,
           NEW n \in Nat, n = Len(refs),
           refs' \in Seq(RefEntry), index' \in [Digests -> Nat], balance' \in [Digests -> Nat],
           Cut(refs', refs, n, p), index' = Reindexed(d, refs'),
           balance'[d] = 0, \A x \in Digests : x # d => balance'[x] = balance[x],
           live' = LiveDigests(refs')
    PROVE  RefCountsInv'
  <1>b. PICK rs \in Seq(RefEntry), ix \in [Digests -> Nat], bal \in [Digests -> Nat] :
          refs' = rs /\ index' = ix /\ balance' = bal
    OBVIOUS
  <1>c. /\ Len(rs) = n - 1
        /\ \A i \in 1..(n - 1) : rs[i] = IF i < p THEN refs[i] ELSE refs[i + 1]
        /\ ix = Reindexed(d, rs)
        /\ bal[d] = 0 /\ \A x \in Digests : x # d => bal[x] = balance[x]
    <2>1. Cut(rs, refs, n, p)
      BY <1>b, Zenon
    <2>2. /\ Len(rs) = n - 1
          /\ \A i \in 1..(n - 1) : rs[i] = IF i < p THEN refs[i] ELSE refs[i + 1]
      BY <2>1, Zenon DEF Cut
    <2> QED BY <1>b, <2>2, Zenon
  <1>0. p \in 1..n /\ n - 1 \in Nat
    BY <1>c, Places
  <1>1. \A i \in 1..n : refs[i].digest \in Digests /\ index[refs[i].digest] = i
    BY <1>c, Places
  <1>a. PICK m \in Nat : m = n - 1 /\ Len(rs) = m
    BY <1>c, <1>0
  <1>2. \A x \in Digests :
          ix[x] = IF x = d THEN 0
                  ELSE IF \E i \in p..m : rs[i].digest = x
                  THEN CHOOSE i \in p..m : rs[i].digest = x
                  ELSE index[x]
    BY <1>c, <1>a DEF Reindexed
  <1>3. \A i \in 1..m : i < p => rs[i] = refs[i]
    BY <1>c, <1>a
  <1>4. \A i \in p..m : i + 1 \in 1..n /\ rs[i] = refs[i + 1]
    BY <1>c, <1>0, <1>a
  <1>5. ASSUME NEW i \in p..m, NEW x, x = rs[i].digest
        PROVE  x \in Digests /\ x # d /\ index[x] = i + 1 /\ ix[x] = i
    <2>1. x = refs[i + 1].digest /\ i + 1 \in 1..n
      BY <1>c, <1>4, <1>5
    <2>2. x \in Digests /\ index[x] = i + 1
      BY <1>c, <1>1, <2>1
    <2>3. x # d
      BY <1>c, <2>2, <1>0
    <2>4. \A j \in p..m : rs[j].digest = x => j = i
      <3> SUFFICES ASSUME NEW j \in p..m, rs[j].digest = x PROVE j = i
        BY <1>c
      <3>1. refs[j + 1].digest = x /\ j + 1 \in 1..n
        BY <1>c, <1>4
      <3>2. index[x] = j + 1
        BY <1>c, <1>1, <3>1
      <3> QED BY <1>c, <2>2, <3>2, <1>0
    <2>5. ix[x] = CHOOSE j \in p..m : rs[j].digest = x
      BY <1>c, <1>2, <1>5, <2>2, <2>3
    <2>6. (CHOOSE j \in p..m : rs[j].digest = x) = i
      BY <1>c, <1>5, <2>4
    <2> QED BY <1>c, <2>2, <2>3, <2>5, <2>6
  <1>6. ASSUME NEW x \in Digests, x # d, ~\E i \in p..m : rs[i].digest = x
        PROVE  ix[x] = index[x]
    BY <1>c, <1>2, <1>6, Zenon
  <1>7. ASSUME NEW i \in 1..m PROVE ix[rs[i].digest] = i
    <2>1. CASE i \in p..m
      BY <1>c, <1>5, <2>1
    <2>2. CASE i < p
      <3>1. rs[i] = refs[i] /\ i \in 1..n
        BY <1>c, <1>3, <2>2, <1>a, <1>0
      <3>2. PICK x \in Digests : x = rs[i].digest /\ index[x] = i
        BY <1>c, <1>1, <3>1
      <3>3. x # d
        BY <1>c, <2>2, <3>2
      <3>4. ~\E j \in p..m : rs[j].digest = x
        <4> SUFFICES ASSUME NEW j \in p..m, rs[j].digest = x PROVE FALSE
          BY <1>c
        <4>1. index[x] = j + 1
          BY <1>c, <1>5
        <4> QED BY <1>c, <2>2, <3>2, <4>1
      <3>5. ix[x] = index[x]
        BY <1>c, <1>6, <3>3, <3>4
      <3> QED BY <1>c, <3>2, <3>5
    <2> QED BY <1>c, <1>0, <2>1, <2>2
  <1>8. ASSUME NEW x \in Digests, x # d, index[x] # 0
        PROVE  /\ ix[x] \in 1..m /\ rs[ix[x]].digest = x /\ bal[x] = rs[ix[x]].count
    <2>1. PICK q \in 1..n : q = index[x] /\ refs[q].digest = x /\ balance[x] = refs[q].count
      BY <1>c, <1>8, Places
    <2>2. q # p
      <3>1. refs[p].digest = d
        BY <1>c, Places
      <3> QED BY <1>c, <1>8, <2>1, <3>1
    <2>3. CASE q < p
      <3>1. q \in 1..m /\ rs[q] = refs[q]
        BY <1>c, <1>0, <1>3, <1>a, <2>3
      <3>2. ix[x] = q
        <4>1. rs[q].digest = x
          BY <2>1, <3>1
        <4> QED BY <1>7, <3>1, <4>1
      <3> QED BY <1>c, <1>8, <2>1, <3>1, <3>2
    <2>4. CASE q > p
      <3>1. PICK i \in p..m : i + 1 = q
        <4>1. q - 1 \in p..m /\ (q - 1) + 1 = q
          BY <1>c, <1>0, <1>a, <2>4
        <4> QED BY <1>c, <4>1
      <3>2. rs[i] = refs[q] /\ i \in 1..m
        BY <1>c, <1>0, <1>4, <3>1
      <3>3. ix[x] = i
        BY <1>c, <1>7, <2>1, <3>2
      <3> QED BY <1>c, <1>8, <2>1, <3>2, <3>3
    <2> QED BY <1>c, <1>0, <2>2, <2>3, <2>4
  <1>9. ASSUME NEW x \in Digests, x # d, index[x] = 0
        PROVE  ix[x] = 0 /\ bal[x] = 0
    <2>1. ~\E i \in p..m : rs[i].digest = x
      <3> SUFFICES ASSUME NEW i \in p..m, rs[i].digest = x PROVE FALSE
        BY <1>c
      <3>1. index[x] = i + 1
        BY <1>c, <1>5
      <3>2. i + 1 # 0
        BY <1>c, <1>0
      <3> QED BY <1>9, <3>1, <3>2, Zenon
    <2>2. balance[x] = 0
      BY <1>c, <1>9, Places
    <2> QED BY <1>c, <1>6, <1>9, <2>1, <2>2
  <1>10. ix[d] = 0
    BY <1>c, <1>2
  <1>11. \A i \in 1..Len(rs) : ix[rs[i].digest] = i
    BY <1>c, <1>7, <1>a
  <1>12. \A x \in Digests : ix[x] # 0 =>
           ix[x] \in 1..Len(rs) /\ rs[ix[x]].digest = x /\ bal[x] = rs[ix[x]].count
    BY <1>c, <1>8, <1>9, <1>10, <1>a, Zenon
  <1>13. \A x \in Digests : ix[x] = 0 => bal[x] = 0
    <2> SUFFICES ASSUME NEW x \in Digests, ix[x] = 0 PROVE bal[x] = 0
      BY <1>c
    <2>1. CASE x = d
      BY <1>c, <2>1
    <2>2. CASE x # d /\ index[x] = 0
      BY <1>c, <1>9, <2>2
    <2>3. CASE x # d /\ index[x] # 0
      <3>1. ix[x] \in 1..m
        BY <1>c, <1>8, <2>3
      <3> QED BY <1>c, <3>1
    <2> QED BY <1>c, <2>1, <2>2, <2>3
  <1>14. Agree(rs, ix, bal)
    BY <1>c, <1>11, <1>12, <1>13, Zenon DEF Agree
  <1> QED BY <1>b, <1>14, StoreIsSound, Zenon

(* Every step keeps the invariant. *)
LEMMA RefCountsStep ==
    ASSUME RefCountsInv, RefCountsNext
    PROVE  RefCountsInv'
  <1>0. refs \in Seq(RefEntry) /\ index \in [Digests -> Nat] /\ balance \in [Digests -> Nat]
    BY DEF RefCountsInv, RefCountsTypeOK
  <1>a. PICK R \in Seq(RefEntry), X \in [Digests -> Nat], B \in [Digests -> Nat] :
          R = refs /\ X = index /\ B = balance
    BY <1>0
  <1>1. PICK d \in Digests, n \in Counts : AddRef(d, n) \/ ReleaseRef(d, n)
    BY DEF RefCountsNext
  <1>2. n \in Int
    BY RefCountsAssumption
  <1>3. PICK k \in Nat : k = Len(refs)
    BY <1>0
  <1>4. PICK q \in Nat, b \in Nat : q = index[d] /\ b = balance[d]
    BY <1>0
  <1>b. PICK R1, X1, B1 : R1 = refs' /\ X1 = index' /\ B1 = balance'
    OBVIOUS
  <1>5. CASE AddRef(d, n)
    <2>1. n >= 1 /\ live' = LiveDigests(refs') /\ B1 = [B EXCEPT ![d] = b + n]
      BY <1>a, <1>b, <1>4, <1>5 DEF AddRef
    <2>2. PICK c \in Nat : c = b + n /\ c # 0
      BY <1>2, <2>1
    <2>3. n \in Nat \ {0}
      BY <1>2, <2>1
    <2>4. B1 \in [Digests -> Nat] /\ B1[d] = c /\ \A x \in Digests : x # d => B1[x] = B[x]
      BY <2>1, <2>2, OneChanged
    <2>5. CASE q # 0
      <3>1. q \in 1..k /\ R[q] \in RefEntry /\ R[q].digest = d /\ R[q].count = b
        BY <1>a, <1>3, <1>4, <2>5, Places
      <3>2. PICK e : e = [R[q] EXCEPT !.count = c]
        OBVIOUS
      <3>3. e \in RefEntry /\ e.digest = d /\ e.count = c
        BY <2>2, <3>1, <3>2 DEF RefEntry
      <3>4. R1 = [R EXCEPT ![q] = e] /\ index' = index
        BY <1>a, <1>b, <1>4, <1>5, <2>2, <2>5, <3>1, <3>2 DEF AddRef
      <3>5. R1 \in Seq(RefEntry) /\ Len(R1) = k /\ R1[q] = e /\ \A i \in 1..k : i # q => R1[i] = R[i]
        BY <1>a, <1>3, <3>1, <3>3, <3>4, OneReplaced
      <3>6. R1[q].digest = d /\ R1[q].count = B1[d]
        BY <2>4, <3>3, <3>5
      <3>7. /\ index[d] # 0 /\ refs' \in Seq(RefEntry) /\ balance' \in [Digests -> Nat]
            /\ Len(refs') = Len(refs)
            /\ refs'[index[d]].digest = d /\ refs'[index[d]].count = balance'[d]
            /\ \A i \in 1..Len(refs) : i # index[d] => refs'[i] = refs[i]
            /\ \A x \in Digests : x # d => balance'[x] = balance[x]
        BY <1>a, <1>b, <1>3, <1>4, <2>4, <2>5, <3>5, <3>6, Zenon
      <3> QED BY <2>1, <3>4, <3>7, CountChanges, Zenon
    <2>6. CASE q = 0
      <3>1. PICK e : e = [digest |-> d, count |-> n]
        OBVIOUS
      <3>2. e \in RefEntry /\ e.digest = d /\ e.count = n
        BY <2>3, <3>1 DEF RefEntry
      <3>3. PICK j \in Nat : j = k + 1
        BY <1>3
      <3>4. R1 = Append(R, e) /\ X1 = [X EXCEPT ![d] = j]
        BY <1>a, <1>b, <1>3, <1>4, <1>5, <2>6, <3>1, <3>3 DEF AddRef
      <3>5. R1 \in Seq(RefEntry) /\ Len(R1) = k + 1 /\ R1[k + 1] = e /\ \A i \in 1..k : R1[i] = R[i]
        BY <1>a, <1>3, <3>2, <3>4, OneAppended
      <3>6. X1 \in [Digests -> Nat] /\ X1[d] = j /\ \A x \in Digests : x # d => X1[x] = X[x]
        BY <3>3, <3>4, OneChanged
      <3>7. b = 0
        BY <1>4, <2>6, Places
      <3>8. B1[d] = n
        BY <1>2, <2>2, <2>4, <3>7
      <3>9. R1[k + 1].digest = d /\ R1[k + 1].count = B1[d]
        BY <3>2, <3>5, <3>8
      <3>10. /\ index[d] = 0 /\ refs' \in Seq(RefEntry)
             /\ index' \in [Digests -> Nat] /\ balance' \in [Digests -> Nat]
             /\ Len(refs') = k + 1 /\ refs'[k + 1].digest = d /\ refs'[k + 1].count = balance'[d]
             /\ \A i \in 1..k : refs'[i] = refs[i]
             /\ index'[d] = k + 1
             /\ \A x \in Digests : x # d => index'[x] = index[x] /\ balance'[x] = balance[x]
        BY <1>a, <1>b, <1>4, <2>4, <2>6, <3>3, <3>5, <3>6, <3>9, Zenon
      <3> QED BY <1>3, <2>1, <3>10, EntryAppended, Zenon
    <2> QED BY <2>5, <2>6
  <1>6. CASE ReleaseRef(d, n)
    <2>1. n >= 1 /\ q # 0 /\ live' = LiveDigests(refs')
      BY <1>4, <1>6 DEF ReleaseRef
    <2>2. q \in 1..k /\ R[q] \in RefEntry /\ R[q].digest = d /\ R[q].count = b
      BY <1>a, <1>3, <1>4, <2>1, Places
    <2>3. B1 = [B EXCEPT ![d] = IF b > n THEN b - n ELSE 0]
      BY <1>a, <1>b, <1>4, <1>6 DEF ReleaseRef
    <2>4. PICK c \in Nat : c = IF b > n THEN b - n ELSE 0
      <3>1. (IF b > n THEN b - n ELSE 0) \in Nat
        BY <1>2
      <3> QED BY <3>1
    <2>5. B1 \in [Digests -> Nat] /\ B1[d] = c /\ \A x \in Digests : x # d => B1[x] = B[x]
      <3>1. B1 = [B EXCEPT ![d] = c]
        BY <2>3, <2>4
      <3> QED BY <3>1, OneChanged
    <2>6. CASE b - n <= 0
      <3>1. R1 = RemoveAt(R, q) /\ X1 = Reindexed(d, R1)
        BY <1>a, <1>b, <1>4, <1>6, <2>2, <2>6 DEF ReleaseRef
      <3>2. R1 \in Seq(RefEntry) /\ Cut(R1, R, k, q)
        <4>1. k = Len(R) /\ q \in 1..k /\ R1 = RemoveAt(R, q)
          BY <1>a, <1>3, <2>2, <3>1
        <4>2. R \in Seq(RefEntry) /\ k \in Nat
          OBVIOUS
        <4> QED BY <4>1, <4>2, OneRemoved, Zenon
      <3>3. X1 \in [Digests -> Nat]
        <4>1. PICK l \in Nat : l = Len(R1)
          BY <3>2
        <4>2. X1 = [e \in Digests |->
                      IF e = d THEN 0
                      ELSE IF \E i \in q..l : R1[i].digest = e
                      THEN CHOOSE i \in q..l : R1[i].digest = e
                      ELSE X[e]]
          BY <1>a, <1>4, <3>1, <4>1, Zenon DEF Reindexed
        <4>3. \A i \in q..l : i \in Nat
          BY <1>4
        <4>4. ASSUME NEW e \in Digests
              PROVE  (IF e = d THEN 0
                      ELSE IF \E i \in q..l : R1[i].digest = e
                      THEN CHOOSE i \in q..l : R1[i].digest = e
                      ELSE X[e]) \in Nat
          <5>1. (\E i \in q..l : R1[i].digest = e) => (CHOOSE i \in q..l : R1[i].digest = e) \in q..l
            BY Zenon
          <5> QED BY <4>3, <5>1
        <4> QED BY <4>2, <4>4
      <3>4. B1[d] = 0
        BY <1>2, <2>4, <2>5, <2>6
      <3>5. /\ refs' \in Seq(RefEntry) /\ index' \in [Digests -> Nat] /\ balance' \in [Digests -> Nat]
            /\ Cut(refs', refs, k, q) /\ index' = Reindexed(d, refs')
            /\ balance'[d] = 0 /\ \A x \in Digests : x # d => balance'[x] = balance[x]
        BY <1>a, <1>b, <2>5, <3>1, <3>2, <3>3, <3>4, Zenon
      <3> QED BY <1>3, <1>4, <2>1, <3>5, EntryRemoved, Zenon
    <2>7. CASE ~(b - n <= 0)
      <3>1. c = b - n /\ c # 0
        BY <1>2, <2>4, <2>7
      <3>2. PICK e : e = [R[q] EXCEPT !.count = c]
        OBVIOUS
      <3>3. e \in RefEntry /\ e.digest = d /\ e.count = c
        BY <2>2, <2>4, <3>1, <3>2 DEF RefEntry
      <3>4. R1 = [R EXCEPT ![q] = e] /\ index' = index
        BY <1>a, <1>b, <1>4, <1>6, <2>2, <2>7, <3>1, <3>2 DEF ReleaseRef
      <3>5. R1 \in Seq(RefEntry) /\ Len(R1) = k /\ R1[q] = e /\ \A i \in 1..k : i # q => R1[i] = R[i]
        BY <1>a, <1>3, <2>2, <3>3, <3>4, OneReplaced
      <3>6. R1[q].digest = d /\ R1[q].count = B1[d]
        BY <2>5, <3>3, <3>5
      <3>7. /\ index[d] # 0 /\ refs' \in Seq(RefEntry) /\ balance' \in [Digests -> Nat]
            /\ Len(refs') = Len(refs)
            /\ refs'[index[d]].digest = d /\ refs'[index[d]].count = balance'[d]
            /\ \A i \in 1..Len(refs) : i # index[d] => refs'[i] = refs[i]
            /\ \A x \in Digests : x # d => balance'[x] = balance[x]
        BY <1>a, <1>b, <1>3, <1>4, <2>1, <2>5, <3>5, <3>6, Zenon
      <3> QED BY <2>1, <3>4, <3>7, CountChanges, Zenon
    <2> QED BY <2>6, <2>7
  <1> QED BY <1>1, <1>5, <1>6

(* Over every sequence of AddRef and ReleaseRef, whatever the digests and the
   counts, the index and the slice of internal/gc/store.go stay inverse,
   Refcount answers the references added and not yet released, and the cached
   list names each digest that is still referenced exactly once. *)
THEOREM RefCountsInvariant == RefCountsSpec => []RefCountsInv
  <1>1. RefCountsInit => RefCountsInv
    <2> SUFFICES ASSUME RefCountsInit PROVE RefCountsInv
      OBVIOUS
    <2>1. /\ refs = <<>> /\ index = [d \in Digests |-> 0]
          /\ live = <<>> /\ balance = [d \in Digests |-> 0]
      BY DEF RefCountsInit
    <2>2. <<>> \in Seq(RefEntry) /\ Len(<<>>) = 0 /\ <<>> \in Seq(Digests)
      OBVIOUS
    <2>3. LiveDigests(<<>>) = <<>>
      <3>1. LiveDigests(<<>>) = [i \in 1..Len(<<>>) |-> <<>>[i].digest]
        BY <2>2, LiveIsAll, Zenon
      <3> QED BY <3>1
    <2>4. \A d \in Digests : Cardinality({i \in DOMAIN live : live[i] = d}) = 0
      <3> TAKE d \in Digests
      <3>1. {i \in DOMAIN live : live[i] = d} = {}
        BY <2>1
      <3> QED BY <3>1, FS_EmptySet
    <2>5. RefCountsTypeOK
      BY <2>1 DEF RefCountsTypeOK
    <2>6. RefcountIsBalance
      BY <2>1 DEF RefcountIsBalance, Refcount
    <2>7. LiveIsReferenced
      BY <2>1, <2>3, <2>4 DEF LiveIsReferenced
    <2>8. \A i \in DOMAIN refs : index[refs[i].digest] = i
      BY <2>1
    <2>9. \A d \in Digests : index[d] # 0 => refs[index[d]].digest = d
      BY <2>1
    <2> QED BY <2>5, <2>6, <2>7, <2>8, <2>9 DEF RefCountsInv
  <1>2. RefCountsInv /\ [RefCountsNext]_refVars => RefCountsInv'
    <2> SUFFICES ASSUME RefCountsInv, [RefCountsNext]_refVars PROVE RefCountsInv'
      OBVIOUS
    <2>1. CASE RefCountsNext
      BY <2>1, RefCountsStep
    <2>2. CASE UNCHANGED refVars
      <3>1. RefCountsTypeOK'
        BY <2>2 DEF RefCountsInv, RefCountsTypeOK, refVars
      <3>2. RefcountIsBalance'
        BY <2>2 DEF RefCountsInv, RefcountIsBalance, Refcount, refVars
      <3>3. LiveIsReferenced'
        BY <2>2 DEF RefCountsInv, LiveIsReferenced, refVars
      <3> QED BY <2>2, <3>1, <3>2, <3>3 DEF RefCountsInv, refVars
    <2> QED BY <2>1, <2>2
  <1> QED BY <1>1, <1>2, PTL DEF RefCountsSpec

------------------------------------------------------------------------------
(* Restore cursors.                                                         *)

(* f is what a loop leaves behind: a at the start, then turn i's result of what turn i - 1 left. *)
Loops(f, a, turn, n) == f[0] = a /\ \A i \in 1..n : f[i] = turn[i][f[i - 1]]

(* Every loop of so many turns has such an f. *)
LEMMA LoopExists ==
    ASSUME NEW A, NEW a \in A, NEW n \in Nat, NEW turn \in [1..n -> [A -> A]]
    PROVE  \E f \in [0..n -> A] : Loops(f, a, turn, n)
  <1> DEFINE T == {m \in Nat : m <= n /\ ~\E f \in [0..m -> A] : Loops(f, a, turn, m)}
  <1>1. T = {}
    <2> SUFFICES ASSUME T # {} PROVE FALSE
      OBVIOUS
    <2>1. PICK m \in T : \A j \in T : m <= j
      <3>1. T \subseteq Nat
        OBVIOUS
      <3> HIDE DEF T
      <3> QED BY <3>1, LeastNumber
    <2>2. m \in Nat /\ m <= n /\ ~\E f \in [0..m -> A] : Loops(f, a, turn, m)
      OBVIOUS
    <2>3. CASE m = 0
      <3>1. PICK f : f = [i \in 0..0 |-> a]
        OBVIOUS
      <3>2. f \in [0..0 -> A] /\ f[0] = a
        BY <3>1
      <3>3. Loops(f, a, turn, 0)
        BY <3>2 DEF Loops
      <3> QED BY <2>2, <2>3, <3>2, <3>3
    <2>4. CASE m # 0
      <3>1. PICK k \in Nat : m = k + 1 /\ k < m /\ k <= n
        <4>1. m - 1 \in Nat /\ m = (m - 1) + 1 /\ m - 1 < m /\ m - 1 <= n
          BY <2>2, <2>4
        <4> QED BY <4>1
      <3>2. PICK f \in [0..k -> A] : Loops(f, a, turn, k)
        BY <2>1, <2>2, <3>1
      <3> HIDE DEF T
      <3>3. PICK x \in A : x = turn[m][f[k]]
        <4>1. m \in 1..n /\ k \in 0..k
          BY <2>2, <3>1
        <4>2. turn[m] \in [A -> A] /\ f[k] \in A
          BY <4>1
        <4> QED BY <4>2
      <3>4. PICK g : g = [i \in 0..m |-> IF i <= k THEN f[i] ELSE x]
        OBVIOUS
      <3>5. /\ g \in [0..m -> A]
            /\ \A i \in 0..k : g[i] = f[i]
            /\ g[m] = x
        BY <3>1, <3>4
      <3>6. g[0] = a
        BY <3>2, <3>5 DEF Loops
      <3>7. ASSUME NEW i \in 1..m PROVE g[i] = turn[i][g[i - 1]]
        <4>1. CASE i = m
          <5>1. i - 1 = k /\ k \in 0..k
            BY <3>1, <4>1
          <5> QED BY <3>3, <3>5, <4>1, <5>1, Zenon
        <4>2. CASE i # m
          <5>1. i \in 1..k /\ i \in 0..k /\ i - 1 \in 0..k
            BY <3>1, <4>2
          <5>2. f[i] = turn[i][f[i - 1]]
            BY <3>2, <5>1, Zenon DEF Loops
          <5> QED BY <3>5, <5>1, <5>2, Zenon
        <4> QED BY <4>1, <4>2, Zenon
      <3>8. Loops(g, a, turn, m)
        BY <3>6, <3>7, Zenon DEF Loops
      <3> QED BY <2>2, <3>5, <3>8, Zenon
    <2> QED BY <2>3, <2>4
  <1>2. ~(n \in T)
    BY <1>1
  <1> QED BY <1>2

(* p lists every place of v, in an order in which the values never fall. *)
Orders(p, v, n) ==
    /\ p \in [1..n -> 1..n]
    /\ \A i \in 1..n : \E j \in 1..n : p[j] = i
    /\ \A i, j \in 1..n : i < j => v[p[i]] <= v[p[j]]

(* One value more is put in front of the first that is above it. *)
LEMMA OneMoreIsOrdered ==
    ASSUME NEW m \in Nat, NEW v \in [1..(m + 1) -> Int], NEW p, Orders(p, v, m)
    PROVE  \E q : Orders(q, v, m + 1)
  <1>1. /\ p \in [1..m -> 1..m]
        /\ \A i \in 1..m : \E j \in 1..m : p[j] = i
        /\ \A i, j \in 1..m : i < j => v[p[i]] <= v[p[j]]
    BY DEF Orders
  <1>2. PICK x \in Int : x = v[m + 1]
    OBVIOUS
  <1> DEFINE T == {i \in 1..(m + 1) : i = m + 1 \/ v[p[i]] > x}
  <1>3. PICK k \in T : \A j \in T : k <= j
    <2>1. T \subseteq Nat /\ m + 1 \in T
      OBVIOUS
    <2> HIDE DEF T
    <2> QED BY <2>1, LeastNumber
  <1>4. k \in 1..(m + 1) /\ (k = m + 1 \/ v[p[k]] > x)
    OBVIOUS
  <1>5. PICK u \in [1..m -> Int] : \A i \in 1..m : u[i] = v[p[i]]
    <2>1. \A i \in 1..m : v[p[i]] \in Int
      BY <1>1
    <2> QED BY <2>1, [i \in 1..m |-> v[p[i]]] \in [1..m -> Int]
  <1>6. \A i, j \in 1..m : i < j => u[i] <= u[j]
    BY <1>1, <1>5, Zenon
  <1>7. /\ \A i \in 1..m : i < k => u[i] <= x
        /\ \A i \in 1..m : i >= k => u[i] > x
    <2>1. \A i \in 1..m : i < k => u[i] <= x
      BY <1>3, <1>4, <1>5
    <2>2. ASSUME NEW i \in 1..m, i >= k PROVE u[i] > x
      <3>1. k \in 1..m /\ u[k] > x
        BY <1>4, <1>5, <2>2
      <3>2. CASE i = k
        BY <3>1, <3>2
      <3>3. CASE i > k
        <4>1. u[k] <= u[i]
          BY <1>6, <3>1, <3>3
        <4> HIDE DEF T
        <4> QED BY <3>1, <4>1
      <3> QED BY <2>2, <1>4, <3>2, <3>3
    <2> QED BY <2>1, <2>2
  <1> HIDE DEF T
  <1>8. PICK q : q = [i \in 1..(m + 1) |->
                        IF i < k THEN p[i] ELSE IF i = k THEN m + 1 ELSE p[i - 1]]
    OBVIOUS
  <1>9. /\ q \in [1..(m + 1) -> 1..(m + 1)]
        /\ \A i \in 1..m : i < k => q[i] = p[i]
        /\ q[k] = m + 1
        /\ \A i \in 1..m : i >= k => q[i + 1] = p[i]
    <2>1. \A i \in 1..m : p[i] \in 1..m
      BY <1>1
    <2> QED BY <1>4, <1>8, <2>1
  <1>10. PICK z \in [1..(m + 1) -> Int] : \A i \in 1..(m + 1) : z[i] = v[q[i]]
    <2>1. \A i \in 1..(m + 1) : v[q[i]] \in Int
      BY <1>9
    <2> QED BY <2>1, [i \in 1..(m + 1) |-> v[q[i]]] \in [1..(m + 1) -> Int]
  <1>11. /\ \A i \in 1..m : i < k => z[i] = u[i]
         /\ z[k] = x
         /\ \A i \in 1..m : i >= k => z[i + 1] = u[i]
    <2>1. \A i \in 1..m : i \in 1..(m + 1) /\ i + 1 \in 1..(m + 1)
      OBVIOUS
    <2>2. k \in 1..(m + 1)
      BY <1>4
    <2>3. ASSUME NEW i \in 1..m, i < k PROVE z[i] = u[i]
      BY <1>5, <1>9, <1>10, <2>1, <2>3, Zenon
    <2>4. z[k] = x
      BY <1>2, <1>9, <1>10, <2>2, Zenon
    <2>5. ASSUME NEW i \in 1..m, i >= k PROVE z[i + 1] = u[i]
      <3>1. z[i + 1] = v[q[i + 1]]
        BY <1>10, <2>1, Zenon
      <3>2. q[i + 1] = p[i]
        BY <1>9, <2>5, Zenon
      <3> QED BY <1>5, <3>1, <3>2, Zenon
    <2> QED BY <2>3, <2>4, <2>5, Zenon
  <1>12. ASSUME NEW i \in 1..(m + 1) PROVE \E j \in 1..(m + 1) : q[j] = i
    <2>1. CASE i = m + 1
      BY <1>4, <1>9, <2>1
    <2>2. CASE i # m + 1
      <3>1. PICK j \in 1..m : p[j] = i
        BY <1>1, <2>2
      <3>2. j \in 1..(m + 1) /\ j + 1 \in 1..(m + 1) /\ (j < k \/ j >= k)
        BY <1>4
      <3> QED BY <1>9, <3>1, <3>2, Zenon
    <2> QED BY <2>1, <2>2
  <1>13. ASSUME NEW i \in 1..(m + 1), NEW j \in 1..(m + 1), i < j
         PROVE  z[i] <= z[j]
    <2>1. k \in Nat /\ i \in Nat /\ j \in Nat /\ x \in Int
      BY <1>4
    <2>2. i < k => i \in 1..m /\ z[i] = u[i] /\ u[i] <= x /\ u[i] \in Int
      BY <1>4, <1>7, <1>11
    <2>3. i > k => i - 1 \in 1..m /\ z[i] = u[i - 1] /\ u[i - 1] > x /\ u[i - 1] \in Int
      <3> SUFFICES ASSUME i > k
                   PROVE  i - 1 \in 1..m /\ z[i] = u[i - 1] /\ u[i - 1] > x /\ u[i - 1] \in Int
        OBVIOUS
      <3>1. i - 1 \in 1..m /\ i - 1 >= k /\ i = (i - 1) + 1
        BY <1>4
      <3> QED BY <1>7, <1>11, <3>1
    <2>4. j < k => j \in 1..m /\ z[j] = u[j] /\ u[j] <= x /\ u[j] \in Int
      BY <1>4, <1>7, <1>11
    <2>5. j > k => j - 1 \in 1..m /\ z[j] = u[j - 1] /\ u[j - 1] > x /\ u[j - 1] \in Int
      <3> SUFFICES ASSUME j > k
                   PROVE  j - 1 \in 1..m /\ z[j] = u[j - 1] /\ u[j - 1] > x /\ u[j - 1] \in Int
        OBVIOUS
      <3>1. j - 1 \in 1..m /\ j - 1 >= k /\ j = (j - 1) + 1
        BY <1>4
      <3> QED BY <1>7, <1>11, <3>1
    <2>6. z[k] = x
      BY <1>11
    <2>7. CASE j < k
      <3>1. u[i] <= u[j]
        BY <1>6, <1>13, <2>1, <2>2, <2>4, <2>7
      <3> QED BY <1>13, <2>1, <2>2, <2>4, <2>7, <3>1
    <2>8. CASE i > k
      <3>1. i - 1 \in 1..m /\ j - 1 \in 1..m /\ i - 1 < j - 1
        BY <1>13, <2>1, <2>3, <2>5, <2>8
      <3>2. u[i - 1] <= u[j - 1]
        BY <1>6, <3>1
      <3>3. z[i] = u[i - 1] /\ z[j] = u[j - 1]
        BY <1>13, <2>1, <2>3, <2>5, <2>8
      <3> QED BY <3>2, <3>3, Zenon
    <2>9. CASE j >= k /\ i <= k
      <3>1. CASE i < k
        <4>1. z[i] = u[i] /\ u[i] <= x /\ u[i] \in Int
          BY <2>2, <3>1
        <4>2. j > k => z[j] = u[j - 1] /\ u[j - 1] > x /\ u[j - 1] \in Int
          BY <2>5
        <4>3. CASE j = k
          BY <2>6, <4>1, <4>3, Zenon
        <4>4. CASE j > k
          <5>1. PICK y \in Int : y = z[j] /\ y > x
            BY <4>2, <4>4, Zenon
          <5>2. PICK w \in Int : w = z[i] /\ w <= x
            BY <4>1, Zenon
          <5>3. w <= y
            BY <2>1, <5>1, <5>2
          <5> QED BY <5>1, <5>2, <5>3, Zenon
        <4> QED BY <2>1, <2>9, <4>3, <4>4
      <3>2. CASE i = k
        <4>1. j > k
          BY <1>13, <2>1, <3>2
        <4>2. PICK y \in Int : y = z[j] /\ y > x
          BY <2>5, <4>1, Zenon
        <4>3. x <= y
          BY <2>1, <4>2
        <4> QED BY <2>6, <3>2, <4>2, <4>3, Zenon
      <3> QED BY <2>1, <2>9, <3>1, <3>2
    <2> QED BY <2>1, <2>7, <2>8, <2>9
  <1>14. \A i, j \in 1..(m + 1) : i < j => v[q[i]] <= v[q[j]]
    BY <1>10, <1>13, Zenon
  <1> QED BY <1>9, <1>12, <1>14, Zenon DEF Orders

(* Every list of numbers can be sorted. *)
LEMMA OrderExists ==
    ASSUME NEW n \in Nat, NEW v \in [1..n -> Int]
    PROVE  \E p : Orders(p, v, n)
  <1> DEFINE T == {m \in Nat : m <= n /\ ~\E p : Orders(p, v, m)}
  <1>1. T = {}
    <2> SUFFICES ASSUME T # {} PROVE FALSE
      OBVIOUS
    <2>1. PICK m \in T : \A j \in T : m <= j
      <3>1. T \subseteq Nat
        OBVIOUS
      <3> HIDE DEF T
      <3> QED BY <3>1, LeastNumber
    <2>2. m \in Nat /\ m <= n /\ ~\E p : Orders(p, v, m)
      OBVIOUS
    <2>3. CASE m = 0
      <3>1. Orders([i \in 1..0 |-> i], v, 0)
        BY DEF Orders
      <3> QED BY <2>2, <2>3, <3>1
    <2>4. CASE m # 0
      <3>1. PICK k \in Nat : m = k + 1 /\ k < m /\ k <= n
        <4>1. m - 1 \in Nat /\ m = (m - 1) + 1 /\ m - 1 < m /\ m - 1 <= n
          BY <2>2, <2>4
        <4> QED BY <4>1
      <3>2. PICK p : Orders(p, v, k)
        BY <2>1, <2>2, <3>1
      <3>3. PICK w \in [1..(k + 1) -> Int] : w = [i \in 1..(k + 1) |-> v[i]]
        <4>1. [i \in 1..(k + 1) |-> v[i]] \in [1..(k + 1) -> Int]
          BY <2>2, <3>1
        <4> QED BY <4>1
      <3>4. \A i \in 1..(k + 1) : w[i] = v[i]
        BY <3>3
      <3>5. Orders(p, w, k)
        <4>1. \A i \in 1..k : p[i] \in 1..(k + 1)
          <5>1. p \in [1..k -> 1..k]
            BY <3>2, Zenon DEF Orders
          <5>2. \A i \in 1..k : p[i] \in 1..k
            BY <5>1, Zenon
          <5>3. \A i \in 1..k : i \in 1..(k + 1)
            OBVIOUS
          <5> QED BY <5>2, <5>3, Zenon
        <4>2. \A i \in 1..k : w[p[i]] = v[p[i]]
          BY <3>4, <4>1, Zenon
        <4> QED BY <3>2, <4>2, Zenon DEF Orders
      <3>6. PICK q : Orders(q, w, k + 1)
        BY <3>5, OneMoreIsOrdered
      <3>7. Orders(q, v, k + 1)
        <4>1. \A i \in 1..(k + 1) : q[i] \in 1..(k + 1)
          BY <3>6 DEF Orders
        <4>2. \A i \in 1..(k + 1) : w[q[i]] = v[q[i]]
          BY <3>4, <4>1, Zenon
        <4> QED BY <3>6, <4>2, Zenon DEF Orders
      <3> QED BY <2>2, <3>1, <3>7
    <2> QED BY <2>3, <2>4
  <1>2. ~(n \in T)
    BY <1>1
  <1> QED BY <1>2

(* What sorting gives: the same values, none above a later one. *)
LEMMA SortedProperties ==
    ASSUME NEW n \in Nat, NEW v \in [1..n -> Int]
    PROVE  /\ Sorted(v) \in [1..n -> Int]
           /\ \A i \in 1..n : \E j \in 1..n : Sorted(v)[i] = v[j]
           /\ \A j \in 1..n : \E i \in 1..n : Sorted(v)[i] = v[j]
           /\ \A i, j \in 1..n : i < j => Sorted(v)[i] <= Sorted(v)[j]
  <1>1. DOMAIN v = 1..n
    OBVIOUS
  <1>2. PICK p : p = CHOOSE q \in [DOMAIN v -> DOMAIN v] : Ascends(q, v)
    OBVIOUS
  <1>3. Orders(p, v, n)
    <2>1. PICK q : Orders(q, v, n)
      BY OrderExists, Zenon
    <2>2. q \in [DOMAIN v -> DOMAIN v] /\ Ascends(q, v)
      BY <1>1, <2>1, Zenon DEF Orders, Ascends
    <2>3. p \in [DOMAIN v -> DOMAIN v] /\ Ascends(p, v)
      BY <1>2, <2>2, Zenon
    <2> QED BY <1>1, <2>3, Zenon DEF Orders, Ascends
  <1>4. Sorted(v) = [i \in DOMAIN v |-> v[p[i]]]
    BY <1>2 DEF Sorted
  <1>5. PICK s : s = Sorted(v)
    OBVIOUS
  <1>6. /\ p \in [1..n -> 1..n]
        /\ \A i \in 1..n : \E j \in 1..n : p[j] = i
        /\ \A i, j \in 1..n : i < j => v[p[i]] <= v[p[j]]
    BY <1>3, Zenon DEF Orders
  <1>7. s = [i \in 1..n |-> v[p[i]]]
    BY <1>1, <1>4, <1>5, Zenon
  <1>8. \A i \in 1..n : s[i] = v[p[i]] /\ p[i] \in 1..n /\ v[p[i]] \in Int
    BY <1>6, <1>7
  <1>9. s \in [1..n -> Int]
    BY <1>7, <1>8
  <1>10. \A i \in 1..n : \E j \in 1..n : s[i] = v[j]
    BY <1>8, Zenon
  <1>11. ASSUME NEW j \in 1..n PROVE \E i \in 1..n : s[i] = v[j]
    <2>1. PICK i \in 1..n : p[i] = j
      BY <1>6, Zenon
    <2> QED BY <1>8, <2>1, Zenon
  <1>12. \A i, j \in 1..n : i < j => s[i] <= s[j]
    BY <1>6, <1>8, Zenon
  <1> QED BY <1>5, <1>9, <1>10, <1>11, <1>12, Zenon

(* The cursor of a call, and whether its loop has been left. *)
Walks == [cursor: Int, broken: BOOLEAN]

(* A turn of the walk leaves a walk. *)
LEMMA WalkStepType ==
    ASSUME NEW walk \in Walks, NEW value \in Int
    PROVE  WalkStep(walk, value) \in Walks
  BY DEF Walks, WalkStep

(* The body of AdvanceContiguous's loop over the sorted values. *)
Walked(f, c, s, n) ==
    f = [i \in 0..n |->
            IF i = 0 THEN [cursor |-> c, broken |-> FALSE] ELSE WalkStep(f[i - 1], s[i])]

(* The recursive function behind the walk exists. *)
LEMMA WalkedExists ==
    ASSUME NEW n \in Nat, NEW s \in [1..n -> Int], NEW c \in Int
    PROVE  \E f : Walked(f, c, s, n)
  <1>1. PICK turn : turn = [i \in 1..n |-> [w \in Walks |-> WalkStep(w, s[i])]]
    OBVIOUS
  <1>2. \A i \in 1..n : s[i] \in Int
    OBVIOUS
  <1>3. \A i \in 1..n : [w \in Walks |-> WalkStep(w, s[i])] \in [Walks -> Walks]
    BY <1>2, WalkStepType
  <1>4. turn \in [1..n -> [Walks -> Walks]]
    BY <1>1, <1>3, Zenon
  <1>5. PICK a \in Walks : a = [cursor |-> c, broken |-> FALSE]
    BY DEF Walks
  <1>6. PICK f \in [0..n -> Walks] : Loops(f, a, turn, n)
    BY <1>4, LoopExists
  <1>7. \A i \in 1..n : \A w \in Walks : turn[i][w] = WalkStep(w, s[i])
    BY <1>1, Zenon
  <1>8. PICK h : h = [i \in 0..n |->
              IF i = 0 THEN [cursor |-> c, broken |-> FALSE] ELSE WalkStep(f[i - 1], s[i])]
    OBVIOUS
  <1>9. ASSUME NEW i \in 0..n PROVE f[i] = h[i]
    <2>1. CASE i = 0
      BY <1>5, <1>6, <1>8, <2>1 DEF Loops
    <2>2. CASE i # 0
      <3>1. i \in 1..n /\ i - 1 \in 0..n
        BY <2>2
      <3>2. f[i] = turn[i][f[i - 1]] /\ f[i - 1] \in Walks
        BY <1>6, <3>1, Zenon DEF Loops
      <3>3. h[i] = WalkStep(f[i - 1], s[i])
        BY <1>8, <2>2
      <3> QED BY <1>7, <3>1, <3>2, <3>3, Zenon
    <2> QED BY <2>1, <2>2
  <1>10. f = h
    BY <1>6, <1>8, <1>9
  <1> QED BY <1>8, <1>10, Zenon DEF Walked

(* What the loop has found once it has gone through the first i values: all up to the
   cursor are among the values V, and the cursor has passed all it has seen or stands in
   front of a gap. *)
WalkInv(w, c, s, i, V) ==
    /\ w \in Walks
    /\ w.cursor >= c
    /\ (c + 1)..w.cursor \subseteq V
    /\ ~w.broken => \A j \in 1..i : s[j] <= w.cursor
    /\ w.broken => w.cursor + 1 \notin V

(* A turn of the loop keeps what the walk has found. *)
LEMMA WalkInvStep ==
    ASSUME NEW n \in Nat, NEW s \in [1..n -> Int], NEW c \in Int, NEW V,
           \A x \in V : \E j \in 1..n : s[j] = x,
           \A j \in 1..n : s[j] \in V,
           \A j, k \in 1..n : j < k => s[j] <= s[k],
           NEW i \in 0..n, i + 1 <= n, NEW w, WalkInv(w, c, s, i, V)
    PROVE  WalkInv(WalkStep(w, s[i + 1]), c, s, i + 1, V)
  <1>1. /\ w \in Walks /\ w.cursor \in Int /\ w.broken \in BOOLEAN
        /\ w = [cursor |-> w.cursor, broken |-> w.broken]
    BY DEF WalkInv, Walks
  <1>2. PICK d \in Int, b \in BOOLEAN : d = w.cursor /\ b = w.broken /\ w = [cursor |-> d, broken |-> b]
    BY <1>1
  <1>3. /\ d >= c
        /\ (c + 1)..d \subseteq V
        /\ ~b => \A j \in 1..i : s[j] <= d
        /\ b => d + 1 \notin V
    BY <1>2, Zenon DEF WalkInv
  <1>4. PICK x \in Int : x = s[i + 1]
    OBVIOUS
  <1>5. \A j \in 1..(i + 1) : j \in 1..i \/ j = i + 1
    OBVIOUS
  <1>6. i + 1 \in 1..n
    OBVIOUS
  <1>7. CASE b
    <2>1. WalkStep(w, x) = w
      BY <1>2, <1>7 DEF WalkStep
    <2> QED BY <1>1, <1>2, <1>3, <1>4, <1>7, <2>1, Zenon DEF WalkInv
  <1>8. CASE ~b /\ x <= d
    <2>1. WalkStep(w, x) = w
      BY <1>2, <1>8 DEF WalkStep
    <2>2. \A j \in 1..(i + 1) : s[j] <= d
      BY <1>3, <1>4, <1>5, <1>8, Zenon
    <2> QED BY <1>1, <1>2, <1>3, <1>4, <1>8, <2>1, <2>2, Zenon DEF WalkInv
  <1>9. CASE ~b /\ ~(x <= d) /\ x # d + 1
    <2>1. WalkStep(w, x) = [cursor |-> d, broken |-> TRUE]
      BY <1>2, <1>9 DEF WalkStep
    <2>2. d + 1 \notin V
      <3> SUFFICES ASSUME d + 1 \in V PROVE FALSE
        OBVIOUS
      <3>1. PICK j \in 1..n : s[j] = d + 1
        OBVIOUS
      <3>2. CASE j <= i
        <4>1. s[j] <= d
          BY <1>3, <1>9, <3>2
        <4> QED BY <3>1, <4>1
      <3>3. CASE j = i + 1
        BY <1>4, <1>9, <3>1, <3>3
      <3>4. CASE j > i + 1
        <4>1. s[i + 1] <= s[j]
          BY <1>6, <3>4
        <4> QED BY <1>4, <1>9, <3>1, <4>1
      <3> QED BY <3>2, <3>3, <3>4
    <2>3. PICK r : r = WalkStep(w, x) /\ r \in Walks /\ r.cursor = d /\ r.broken = TRUE
      <3>1. PICK r : r = WalkStep(w, x)
        OBVIOUS
      <3>2. r = [cursor |-> d, broken |-> TRUE]
        BY <2>1, <3>1, Zenon
      <3>3. r \in Walks /\ r.cursor = d /\ r.broken = TRUE
        BY <3>2 DEF Walks
      <3> QED BY <3>1, <3>3, Zenon
    <2> QED BY <1>3, <1>4, <2>2, <2>3, Zenon DEF WalkInv
  <1>10. CASE ~b /\ x = d + 1
    <2>1. WalkStep(w, x) = [cursor |-> x, broken |-> FALSE]
      <3>1. ~(x <= d) /\ x = d + 1
        BY <1>10
      <3>2. WalkStep(w, x) = [w EXCEPT !.cursor = x]
        BY <1>2, <1>10, <3>1, Zenon DEF WalkStep
      <3> QED BY <1>2, <1>10, <3>2
    <2>2. PICK r : r = WalkStep(w, x) /\ r \in Walks /\ r.cursor = x /\ r.broken = FALSE
      <3>1. PICK r : r = WalkStep(w, x)
        OBVIOUS
      <3>2. r = [cursor |-> x, broken |-> FALSE]
        BY <2>1, <3>1, Zenon
      <3>3. r \in Walks /\ r.cursor = x /\ r.broken = FALSE
        BY <3>2 DEF Walks
      <3> QED BY <3>1, <3>3, Zenon
    <2>3. x \in V
      BY <1>4, <1>6, Zenon
    <2>4. (c + 1)..x \subseteq V
      <3>1. \A y \in (c + 1)..x : y \in (c + 1)..d \/ y = x
        <4>1. x = d + 1
          BY <1>10
        <4> QED BY <4>1
      <3> QED BY <1>3, <2>3, <3>1, Zenon
    <2>5. \A j \in 1..i : s[j] <= x
      <3> SUFFICES ASSUME NEW j \in 1..i PROVE s[j] <= x
        OBVIOUS
      <3>1. s[j] <= d /\ s[j] \in Int
        BY <1>3, <1>10
      <3> QED BY <1>10, <3>1
    <2>6. \A j \in 1..(i + 1) : s[j] <= x
      <3>1. x <= x
        OBVIOUS
      <3> QED BY <1>4, <1>5, <2>5, <3>1, Zenon
    <2>7. x >= c
      BY <1>3, <1>10
    <2> QED BY <1>4, <2>2, <2>4, <2>6, <2>7, Zenon DEF WalkInv
  <1> QED BY <1>7, <1>8, <1>9, <1>10, Zenon

(* After all values the walk stands in front of a number they do not have. *)
LEMMA WalkEndsAtGap ==
    ASSUME NEW n \in Nat, NEW s \in [1..n -> Int], NEW c \in Int, NEW V,
           \A x \in V : \E j \in 1..n : s[j] = x,
           \A j \in 1..n : s[j] \in V,
           \A j, k \in 1..n : j < k => s[j] <= s[k],
           NEW f, Walked(f, c, s, n)
    PROVE  /\ f[n].cursor \in Int
           /\ f[n].cursor >= c
           /\ (c + 1)..f[n].cursor \subseteq V
           /\ f[n].cursor + 1 \notin V
  <1>1. /\ f[0] = [cursor |-> c, broken |-> FALSE]
        /\ \A i \in 1..n : f[i] = WalkStep(f[i - 1], s[i])
    <2>1. PICK h : h = [i \in 0..n |->
              IF i = 0 THEN [cursor |-> c, broken |-> FALSE] ELSE WalkStep(f[i - 1], s[i])]
      OBVIOUS
    <2>2. h[0] = [cursor |-> c, broken |-> FALSE] /\ \A i \in 1..n : h[i] = WalkStep(f[i - 1], s[i])
      BY <2>1
    <2>3. f = h
      BY <2>1, Zenon DEF Walked
    <2> QED BY <2>2, <2>3, Zenon
  <1> DEFINE T == {m \in Nat : m <= n /\ ~WalkInv(f[m], c, s, m, V)}
  <1>2. T = {}
    <2> SUFFICES ASSUME T # {} PROVE FALSE
      OBVIOUS
    <2>1. PICK m \in T : \A j \in T : m <= j
      <3>1. T \subseteq Nat
        OBVIOUS
      <3> HIDE DEF T
      <3> QED BY <3>1, LeastNumber
    <2>2. m \in Nat /\ m <= n /\ ~WalkInv(f[m], c, s, m, V)
      OBVIOUS
    <2>3. CASE m = 0
      <3>1. PICK w : w = [cursor |-> c, broken |-> FALSE]
        OBVIOUS
      <3>2. w \in Walks /\ w.cursor = c /\ w.broken = FALSE
        BY <3>1 DEF Walks
      <3>3. c >= c /\ (c + 1)..c \subseteq V /\ \A j \in 1..0 : s[j] <= c
        OBVIOUS
      <3>4. WalkInv(w, c, s, 0, V)
        BY <3>2, <3>3, Zenon DEF WalkInv
      <3> QED BY <1>1, <2>2, <2>3, <3>1, <3>4, Zenon
    <2>4. CASE m # 0
      <3>1. PICK k \in 0..n : /\ m = k + 1 /\ k < m /\ k <= n /\ k + 1 <= n
                             /\ m - 1 = k /\ k \in Nat /\ m \in 1..n
        <4>1. /\ m - 1 \in 0..n /\ m = (m - 1) + 1 /\ m - 1 < m /\ m - 1 <= n
              /\ (m - 1) + 1 <= n /\ m - 1 \in Nat /\ m \in 1..n
          BY <2>2, <2>4
        <4> QED BY <4>1
      <3>2. WalkInv(f[k], c, s, k, V)
        BY <2>1, <2>2, <3>1
      <3>3. f[m] = WalkStep(f[k], s[k + 1])
        BY <1>1, <3>1, Zenon
      <3>4. WalkInv(WalkStep(f[k], s[k + 1]), c, s, k + 1, V)
        BY <3>1, <3>2, WalkInvStep, Zenon
      <3> QED BY <2>2, <3>1, <3>3, <3>4, Zenon
    <2> QED BY <2>3, <2>4
  <1>3. WalkInv(f[n], c, s, n, V)
    BY <1>2
  <1>4. f[n].cursor \in Int /\ f[n].broken \in BOOLEAN
    BY <1>3 DEF WalkInv, Walks
  <1>5. PICK d \in Int : d = f[n].cursor
    BY <1>4
  <1>6. /\ d >= c
        /\ (c + 1)..d \subseteq V
        /\ ~f[n].broken => \A j \in 1..n : s[j] <= d
        /\ f[n].broken => d + 1 \notin V
    BY <1>3, <1>5, Zenon DEF WalkInv
  <1>7. CASE ~f[n].broken
    <2>1. d + 1 \notin V
      <3> SUFFICES ASSUME d + 1 \in V PROVE FALSE
        OBVIOUS
      <3>1. PICK j \in 1..n : s[j] = d + 1
        OBVIOUS
      <3> QED BY <1>6, <1>7, <3>1
    <2> QED BY <1>5, <1>6, <2>1, Zenon
  <1> QED BY <1>5, <1>6, <1>7, Zenon

(* A batch of BoundedSeq is a sequence of numbers. *)
LEMMA BatchType ==
    ASSUME NEW values \in BoundedSeq(Indexes, MaxBatch)
    PROVE  /\ Len(values) \in Nat
           /\ values \in [1..Len(values) -> Int]
           /\ ToSet(values) = {values[i] : i \in 1..Len(values)}
           /\ ToSet(values) \subseteq Indexes
  <1>1. PICK m \in Nat : values \in [1..m -> Indexes]
    BY CursorAssumption DEF BoundedSeq, SeqOf, CursorAssumption
  <1>2. Indexes \subseteq Int
    BY CursorAssumption DEF CursorAssumption
  <1>3. Len(values) = m /\ DOMAIN values = 1..m
    BY <1>1
  <1> QED BY <1>1, <1>2, <1>3 DEF ToSet

(* The walk stops right in front of the first number, beyond the cursor, that the batch
   does not have. *)
LEMMA AdvanceStopsAtGap ==
    ASSUME NEW values \in BoundedSeq(Indexes, MaxBatch), NEW c \in Int
    PROVE  /\ AdvanceContiguous(c, values) \in Int
           /\ AdvanceContiguous(c, values) >= c
           /\ (c + 1)..AdvanceContiguous(c, values) \subseteq ToSet(values)
           /\ AdvanceContiguous(c, values) + 1 \notin ToSet(values)
  <1>1. PICK n \in Nat : n = Len(values)
    BY BatchType
  <1>2. values \in [1..n -> Int] /\ ToSet(values) = {values[i] : i \in 1..n}
    BY <1>1, BatchType
  <1>3. PICK s : s = Sorted(values)
    OBVIOUS
  <1>4. /\ s \in [1..n -> Int]
        /\ \A i \in 1..n : \E j \in 1..n : s[i] = values[j]
        /\ \A j \in 1..n : \E i \in 1..n : s[i] = values[j]
        /\ \A i, j \in 1..n : i < j => s[i] <= s[j]
    BY <1>2, <1>3, SortedProperties, Zenon
  <1>5. PICK V : V = ToSet(values)
    OBVIOUS
  <1>6. \A x \in V : \E j \in 1..n : s[j] = x
    BY <1>2, <1>4, <1>5
  <1>7. \A j \in 1..n : s[j] \in V
    BY <1>2, <1>4, <1>5
  <1>8. PICK f : f = CHOOSE h : Walked(h, c, Sorted(values), Len(values))
    OBVIOUS
  <1>9. Walked(f, c, s, n)
    <2>1. \E h : Walked(h, c, s, n)
      BY <1>4, WalkedExists, Zenon
    <2> QED BY <1>1, <1>3, <1>8, <2>1, Zenon
  <1>10. AdvanceContiguous(c, values) = f[n].cursor
    BY <1>1, <1>8, Zenon DEF AdvanceContiguous, Walked
  <1>11. /\ f[n].cursor \in Int
         /\ f[n].cursor >= c
         /\ (c + 1)..f[n].cursor \subseteq V
         /\ f[n].cursor + 1 \notin V
    BY <1>4, <1>6, <1>7, <1>9, WalkEndsAtGap, Zenon
  <1> QED BY <1>5, <1>10, <1>11, Zenon

(* The end of the run of consecutive indexes is where the walk stops. *)
LEMMA EndOfRun ==
    ASSUME NEW V, V \subseteq Int, NEW c \in Int, NEW d \in Int,
           d >= c, (c + 1)..d \subseteq V, d + 1 \notin V
    PROVE  Max({c} \union {k \in V : (c + 1)..k \subseteq V}) = d
  <1>1. PICK E : E = {c} \union {k \in V : (c + 1)..k \subseteq V}
    OBVIOUS
  <1>2. d \in E
    <2>1. CASE d = c
      BY <1>1, <2>1
    <2>2. CASE d > c
      <3>1. d \in (c + 1)..d
        BY <2>2
      <3> QED BY <1>1, <3>1
    <2> QED BY <2>1, <2>2
  <1>3. ASSUME NEW k \in E PROVE k \in Int /\ d >= k
    <2>1. CASE k = c
      BY <2>1
    <2>2. CASE k \in V /\ (c + 1)..k \subseteq V
      <3>1. k \in Int
        BY <2>2
      <3>2. ~(d + 1 \in (c + 1)..k)
        BY <2>2
      <3> QED BY <3>1, <3>2
    <2> QED BY <1>1, <2>1, <2>2
  <1>4. \A x \in E : (\A y \in E : x >= y) => x = d
    <2> SUFFICES ASSUME NEW x \in E, \A y \in E : x >= y PROVE x = d
      OBVIOUS
    <2>1. x \in Int /\ d >= x /\ x >= d
      BY <1>2, <1>3
    <2> QED BY <2>1
  <1>5. Max(E) = d
    <2>1. d \in E /\ \A y \in E : d >= y
      BY <1>2, <1>3
    <2>2. PICK x : x = CHOOSE z \in E : \A y \in E : z >= y
      OBVIOUS
    <2>3. x \in E /\ \A y \in E : x >= y
      BY <2>1, <2>2, Zenon
    <2> QED BY <1>4, <2>2, <2>3, Zenon DEF Max
  <1> QED BY <1>1, <1>5, Zenon

(* CursorStore.AdvanceContiguous leaves the cursor at the end of the run of consecutive
   indexes that follows it, whatever batch of whatever indexes it is given. *)
LEMMA WalkIsExact ==
    ASSUME NEW values \in BoundedSeq(Indexes, MaxBatch), NEW c \in Int
    PROVE  AdvanceContiguous(c, values) = ContiguousEnd(c, values)
  <1>1. PICK V : V = ToSet(values)
    OBVIOUS
  <1>2. PICK d \in Int : d = AdvanceContiguous(c, values)
    BY AdvanceStopsAtGap, Zenon
  <1>3. d >= c /\ (c + 1)..d \subseteq V /\ d + 1 \notin V
    BY <1>1, <1>2, AdvanceStopsAtGap, Zenon
  <1>4. V \subseteq Int
    BY <1>1, BatchType, CursorAssumption DEF CursorAssumption
  <1>5. Max({c} \union {k \in V : (c + 1)..k \subseteq V}) = d
    BY <1>3, <1>4, EndOfRun, Zenon
  <1> QED BY <1>1, <1>2, <1>5, Zenon DEF ContiguousEnd

(* No cursor has moved yet. *)
LEMMA GapPreservingInit == CursorInit => GapPreserving
  <1> SUFFICES ASSUME CursorInit PROVE GapPreserving
    OBVIOUS
  <1>1. CursorTypeOK /\ \A p \in Plans : cursors[p] = 0
    BY DEF CursorInit, CursorTypeOK
  <1>2. 1..0 = {}
    OBVIOUS
  <1> QED BY <1>1, <1>2 DEF GapPreserving

(* AdvanceRestore moves a cursor over indexes it was given. *)
LEMMA GapPreservingStep ==
    ASSUME GapPreserving, [CursorNext]_cursorVars
    PROVE  GapPreserving'
  <1>1. CASE UNCHANGED cursorVars
    BY <1>1 DEF GapPreserving, CursorTypeOK, cursorVars
  <1>2. ASSUME NEW p \in Plans, NEW values \in BoundedSeq(Indexes, MaxBatch),
               AdvanceRestore(p, values)
        PROVE  GapPreserving'
    <2>1. PICK C \in [Plans -> Nat], R \in [Plans -> SUBSET Indexes] : C = cursors /\ R = received
      BY DEF GapPreserving, CursorTypeOK
    <2>2. PICK c \in Nat : c = C[p]
      BY <2>1
    <2>3. PICK d \in Int : d = AdvanceContiguous(c, values)
      BY <2>2, AdvanceStopsAtGap
    <2>4. PICK V : V = ToSet(values)
      OBVIOUS
    <2>5. V \subseteq Indexes
      BY <2>4, BatchType, Zenon
    <2>6. d >= c /\ (c + 1)..d \subseteq V
      BY <2>2, <2>3, <2>4, AdvanceStopsAtGap
    <2>7. d \in Nat
      BY <2>2, <2>6
    <2>8. cursors' = [C EXCEPT ![p] = d] /\ received' = [R EXCEPT ![p] = R[p] \union V]
      BY <1>2, <2>1, <2>2, <2>3, <2>4 DEF AdvanceRestore
    <2>9. PICK C1, R1 : C1 = cursors' /\ R1 = received'
      OBVIOUS
    <2>10. \A q \in Plans : 1..C[q] \subseteq R[q]
      BY <2>1 DEF GapPreserving
    <2>11. /\ C1 \in [Plans -> Nat] /\ R1 \in [Plans -> SUBSET Indexes]
           /\ C1[p] = d /\ R1[p] = R[p] \union V
           /\ \A q \in Plans : q # p => C1[q] = C[q] /\ R1[q] = R[q]
      BY <2>5, <2>7, <2>8, <2>9
    <2>12. 1..d \subseteq R[p] \union V
      <3>1. \A x \in 1..d : x \in 1..c \/ x \in (c + 1)..d
        BY <2>2, <2>7
      <3> QED BY <2>2, <2>6, <2>10, <3>1, Zenon
    <2>13. \A q \in Plans : 1..C1[q] \subseteq R1[q]
      BY <2>10, <2>11, <2>12, Zenon
    <2> QED BY <2>9, <2>11, <2>13 DEF GapPreserving, CursorTypeOK
  <1> QED BY <1>1, <1>2 DEF CursorNext

(* Of the chunk indexes from 1 on, no restore cursor of AdvanceRestore passes one that was
   not received, for any number of plans, indexes of any value and batches of any length. *)
THEOREM GapsArePreserved == CursorSpec => []GapPreserving
  BY GapPreservingInit, GapPreservingStep, PTL DEF CursorSpec

(* A cursor never goes back: no call, however old, repeated or far ahead its indexes, lowers
   the cursor of any plan. *)
THEOREM CursorsNeverGoBack ==
    CursorSpec => [][\A p \in Plans : cursors'[p] >= cursors[p]]_cursorVars
  <1>1. ASSUME GapPreserving, [CursorNext]_cursorVars
        PROVE  [\A p \in Plans : cursors'[p] >= cursors[p]]_cursorVars
    <2>1. ASSUME NEW p \in Plans, NEW values \in BoundedSeq(Indexes, MaxBatch),
                 AdvanceRestore(p, values), NEW q \in Plans
          PROVE  cursors'[q] >= cursors[q]
      <3>1. PICK C \in [Plans -> Nat] : C = cursors
        BY <1>1 DEF GapPreserving, CursorTypeOK
      <3>2. PICK d \in Int : d = AdvanceContiguous(C[p], values) /\ d >= C[p]
        <4>1. C[p] \in Int
          OBVIOUS
        <4> QED BY <4>1, AdvanceStopsAtGap, Zenon
      <3>3. cursors' = [C EXCEPT ![p] = d]
        BY <2>1, <3>1, <3>2 DEF AdvanceRestore
      <3>4. PICK C1 : C1 = cursors'
        OBVIOUS
      <3>5. C1[q] >= C[q]
        BY <3>2, <3>3, <3>4
      <3> QED BY <3>1, <3>4, <3>5, Zenon
    <2> QED BY <1>1, <2>1 DEF CursorNext
  <1> QED BY <1>1, GapsArePreserved, PTL DEF CursorSpec

(* In every state, AdvanceContiguous makes of every batch what ContiguousEnd says. *)
THEOREM WalkIsAlwaysExact == CursorSpec => []WalkIsContiguousEnd
  <1>1. GapPreserving => WalkIsContiguousEnd
    <2> SUFFICES ASSUME GapPreserving, NEW p \in Plans, NEW values \in BoundedSeq(Indexes, MaxBatch)
                 PROVE  AdvanceContiguous(cursors[p], values) = ContiguousEnd(cursors[p], values)
      BY DEF WalkIsContiguousEnd
    <2>1. cursors[p] \in Int
      BY DEF GapPreserving, CursorTypeOK
    <2> QED BY <2>1, WalkIsExact, Zenon
  <1> QED BY <1>1, GapsArePreserved, PTL

------------------------------------------------------------------------------
(* Telemetry.                                                               *)

(* t is how s ends. *)
IsEndOf(t, s) ==
    /\ Len(t) <= Len(s)
    /\ \A i \in 1..Len(t) : t[i] = s[i + (Len(s) - Len(t))]

(* A list has one end of each length. *)
LEMMA EndsAreEqual ==
    ASSUME NEW S, NEW s \in Seq(S), NEW t \in Seq(S), NEW u \in Seq(S),
           IsEndOf(t, s), IsEndOf(u, s), Len(t) = Len(u)
    PROVE  t = u
  <1>1. \A i \in 1..Len(t) : t[i] = u[i]
    BY DEF IsEndOf
  <1> QED BY <1>1

(* The end of an end. *)
LEMMA EndOfEnd ==
    ASSUME NEW S, NEW s \in Seq(S), NEW t \in Seq(S), NEW u \in Seq(S),
           IsEndOf(u, t), IsEndOf(t, s)
    PROVE  IsEndOf(u, s)
  <1>1. PICK l \in Nat, m \in Nat, n \in Nat : l = Len(u) /\ m = Len(t) /\ n = Len(s)
    OBVIOUS
  <1>2. /\ l <= m /\ \A i \in 1..l : u[i] = t[i + (m - l)]
        /\ m <= n /\ \A i \in 1..m : t[i] = s[i + (n - m)]
    BY <1>1 DEF IsEndOf
  <1>3. ASSUME NEW i \in 1..l PROVE u[i] = s[i + (n - l)]
    <2>1. i + (m - l) \in 1..m /\ (i + (m - l)) + (n - m) = i + (n - l)
      BY <1>1, <1>2
    <2>2. PICK j \in 1..m : j = i + (m - l)
      BY <2>1
    <2>3. u[i] = t[j] /\ t[j] = s[j + (n - m)] /\ j + (n - m) = i + (n - l)
      BY <1>2, <2>1, <2>2
    <2> QED BY <2>3
  <1>4. l <= n
    BY <1>1, <1>2
  <1> QED BY <1>1, <1>3, <1>4, Zenon DEF IsEndOf

(* A new last entry of both. *)
LEMMA AppendToEnd ==
    ASSUME NEW S, NEW s \in Seq(S), NEW t \in Seq(S), NEW e \in S, IsEndOf(t, s)
    PROVE  IsEndOf(Append(t, e), Append(s, e))
  <1>1. PICK m \in Nat, n \in Nat : m = Len(t) /\ n = Len(s)
    OBVIOUS
  <1>2. m <= n /\ \A i \in 1..m : t[i] = s[i + (n - m)]
    BY <1>1 DEF IsEndOf
  <1>3. PICK x, y : x = Append(t, e) /\ y = Append(s, e)
    OBVIOUS
  <1>4. /\ Len(x) = m + 1 /\ Len(y) = n + 1
        /\ \A i \in 1..m : x[i] = t[i]
        /\ \A i \in 1..n : y[i] = s[i]
        /\ x[m + 1] = e /\ y[n + 1] = e
    BY <1>1, <1>3, AppendProperties
  <1>5. ASSUME NEW i \in 1..(m + 1) PROVE x[i] = y[i + ((n + 1) - (m + 1))]
    <2>1. CASE i = m + 1
      <3>1. i + ((n + 1) - (m + 1)) = n + 1
        BY <1>1, <2>1
      <3> QED BY <1>4, <2>1, <3>1, Zenon
    <2>2. CASE i # m + 1
      <3>1. i \in 1..m /\ i + ((n + 1) - (m + 1)) = i + (n - m) /\ i + (n - m) \in 1..n
        BY <1>1, <1>2, <2>2
      <3> QED BY <1>2, <1>4, <3>1, Zenon
    <2> QED BY <2>1, <2>2
  <1>6. m + 1 <= n + 1
    BY <1>1, <1>2
  <1> QED BY <1>3, <1>4, <1>5, <1>6, Zenon DEF IsEndOf

(* From some entry on. *)
LEMMA RestIsEnd ==
    ASSUME NEW S, NEW s \in Seq(S), NEW m \in Nat, 1 <= m, m <= Len(s) + 1
    PROVE  /\ SubSeq(s, m, Len(s)) \in Seq(S)
           /\ Len(SubSeq(s, m, Len(s))) = Len(s) - m + 1
           /\ IsEndOf(SubSeq(s, m, Len(s)), s)
  <1>1. PICK n \in Nat : n = Len(s)
    OBVIOUS
  <1>2. PICK r : r = SubSeq(s, m, n)
    OBVIOUS
  <1>3. \A i \in m..n : s[i] \in S
    BY <1>1
  <1>4. /\ r \in Seq(S)
        /\ Len(r) = n - m + 1
        /\ \A i \in 1..(n - m + 1) : r[i] = s[m + i - 1]
    BY <1>1, <1>2, <1>3, SubSeqProperties
  <1>5. PICK l \in Nat : l = Len(r) /\ l = n - m + 1 /\ l <= n
    BY <1>1, <1>4
  <1>6. ASSUME NEW i \in 1..l PROVE r[i] = s[i + (n - l)]
    <2>1. m + i - 1 = i + (n - l) /\ i \in 1..(n - m + 1)
      BY <1>1, <1>5
    <2> QED BY <1>4, <2>1
  <1>7. IsEndOf(r, s)
    BY <1>1, <1>5, <1>6, Zenon DEF IsEndOf
  <1> QED BY <1>1, <1>2, <1>4, <1>7, Zenon

(* A list ends with itself. *)
LEMMA WholeIsEnd ==
    ASSUME NEW S, NEW s \in Seq(S)
    PROVE  IsEndOf(s, s)
  BY DEF IsEndOf

(* What LastOf returns: the end of that length, or everything. *)
LEMMA LastOfIsEnd ==
    ASSUME NEW S, NEW s \in Seq(S), NEW n \in Nat
    PROVE  /\ LastOf(s, n) \in Seq(S)
           /\ Len(LastOf(s, n)) = IF Len(s) > n THEN n ELSE Len(s)
           /\ IsEndOf(LastOf(s, n), s)
  <1>1. CASE Len(s) > n
    <2>1. PICK m \in Nat : m = Len(s) - n + 1 /\ 1 <= m /\ m <= Len(s) + 1
      <3>1. Len(s) - n + 1 \in Nat /\ 1 <= Len(s) - n + 1 /\ Len(s) - n + 1 <= Len(s) + 1
        BY <1>1
      <3> QED BY <3>1
    <2>2. LastOf(s, n) = SubSeq(s, m, Len(s))
      BY <1>1, <2>1, Zenon DEF LastOf
    <2>3. /\ SubSeq(s, m, Len(s)) \in Seq(S)
          /\ Len(SubSeq(s, m, Len(s))) = Len(s) - m + 1
          /\ IsEndOf(SubSeq(s, m, Len(s)), s)
      BY <2>1, RestIsEnd
    <2>4. Len(s) - m + 1 = n
      BY <2>1
    <2> QED BY <1>1, <2>2, <2>3, <2>4, Zenon
  <1>2. CASE ~(Len(s) > n)
    <2>1. LastOf(s, n) = s
      BY <1>2, Zenon DEF LastOf
    <2> QED BY <1>2, <2>1, WholeIsEnd, Zenon
  <1> QED BY <1>1, <1>2

(* An end is the last entries of its number. *)
LEMMA EndIsLastOf ==
    ASSUME NEW S, NEW s \in Seq(S), NEW t \in Seq(S), IsEndOf(t, s)
    PROVE  t = LastOf(s, Len(t))
  <1>1. Len(t) \in Nat /\ Len(t) <= Len(s) /\ Len(s) \in Nat
    BY DEF IsEndOf
  <1>2. /\ LastOf(s, Len(t)) \in Seq(S)
        /\ Len(LastOf(s, Len(t))) = IF Len(s) > Len(t) THEN Len(t) ELSE Len(s)
        /\ IsEndOf(LastOf(s, Len(t)), s)
    BY <1>1, LastOfIsEnd
  <1>3. Len(LastOf(s, Len(t))) = Len(t)
    BY <1>1, <1>2
  <1> QED BY <1>2, <1>3, EndsAreEqual

(* Cutting the list of the latest down after each entry keeps the latest of all. *)
LEMMA TrimKeepsLatest ==
    ASSUME NEW S, NEW s \in Seq(S), NEW n \in Nat \ {0}, NEW e \in S
    PROVE  LastOf(Append(LastOf(s, n), e), n) = LastOf(Append(s, e), n)
  <1>1. PICK t \in Seq(S) : t = LastOf(s, n)
    BY LastOfIsEnd
  <1>2. IsEndOf(t, s) /\ Len(t) = IF Len(s) > n THEN n ELSE Len(s)
    BY <1>1, LastOfIsEnd
  <1>3. PICK x \in Seq(S), y \in Seq(S) : x = Append(t, e) /\ y = Append(s, e)
    <2>1. Append(t, e) \in Seq(S) /\ Append(s, e) \in Seq(S)
      BY AppendProperties
    <2> QED BY <2>1, Zenon
  <1>4. Len(x) = Len(t) + 1 /\ Len(y) = Len(s) + 1
    BY <1>3, AppendProperties
  <1>5. IsEndOf(x, y)
    BY <1>2, <1>3, AppendToEnd
  <1>6. /\ LastOf(x, n) \in Seq(S) /\ LastOf(y, n) \in Seq(S)
        /\ Len(LastOf(x, n)) = (IF Len(x) > n THEN n ELSE Len(x))
        /\ Len(LastOf(y, n)) = (IF Len(y) > n THEN n ELSE Len(y))
        /\ IsEndOf(LastOf(x, n), x) /\ IsEndOf(LastOf(y, n), y)
    BY LastOfIsEnd
  <1>7. IsEndOf(LastOf(x, n), y)
    BY <1>5, <1>6, EndOfEnd
  <1>8. Len(LastOf(x, n)) = Len(LastOf(y, n))
    <2>1. Len(x) \in Nat /\ Len(y) \in Nat /\ Len(s) \in Nat /\ Len(t) \in Nat
      OBVIOUS
    <2> QED BY <1>2, <1>4, <1>6, <2>1
  <1>9. LastOf(x, n) = LastOf(y, n)
    BY <1>6, <1>7, <1>8, EndsAreEqual
  <1> QED BY <1>1, <1>3, <1>9

(* A prune leaves an end, and what it drops is older than the window. *)
LEMMA PrunedIsEnd ==
    ASSUME NEW S, NEW s \in Seq(S), NEW time \in Int, NEW length \in Int,
           \A x \in S : x.at \in Int
    PROVE  /\ Pruned(s, time, length) \in Seq(S)
           /\ IsEndOf(Pruned(s, time, length), s)
           /\ \A i \in 1..(Len(s) - Len(Pruned(s, time, length))) : s[i].at < time - length
  <1> DEFINE fresh == {i \in DOMAIN s : s[i].at >= time - length}
  <1>0. PICK n \in Nat : n = Len(s)
    OBVIOUS
  <1>1. fresh \subseteq 1..n /\ DOMAIN s = 1..n /\ \A i \in 1..n : s[i].at \in Int
    BY <1>0
  <1>2. CASE fresh = {}
    <2>1. Pruned(s, time, length) = <<>>
      BY <1>2 DEF Pruned
    <2>2. <<>> \in Seq(S) /\ Len(<<>>) = 0 /\ IsEndOf(<<>>, s)
      BY DEF IsEndOf
    <2>3. \A i \in 1..n : s[i].at < time - length
      BY <1>1, <1>2
    <2>4. n - 0 = n
      OBVIOUS
    <2> HIDE DEF fresh
    <2> QED BY <1>0, <2>1, <2>2, <2>3, <2>4, Zenon
  <1>3. CASE fresh # {}
    <2>1. \E i \in fresh : \A j \in fresh : i <= j
      <3>1. fresh \subseteq Nat
        BY <1>1
      <3> HIDE DEF fresh
      <3> QED BY <1>3, <3>1, LeastNumber
    <2>2. PICK first : first = CHOOSE i \in fresh : \A j \in fresh : i <= j
      OBVIOUS
    <2>3. first \in fresh /\ \A j \in fresh : first <= j
      BY <2>1, <2>2, Zenon
    <2>4. first \in 1..n
      BY <1>1, <2>3
    <2>5. Pruned(s, time, length) = SubSeq(s, first, Len(s))
      BY <1>3, <2>2 DEF Pruned
    <2>6. \A i \in 1..n : i < first => s[i].at < time - length
      BY <1>1, <2>3, <2>4
    <2> HIDE DEF fresh
    <2>7. first \in Nat /\ 1 <= first /\ first <= Len(s) + 1
      BY <1>0, <2>4
    <2>8. PICK r : r = SubSeq(s, first, Len(s))
      OBVIOUS
    <2>9. /\ r \in Seq(S) /\ Len(r) = Len(s) - first + 1 /\ IsEndOf(r, s)
      BY <2>7, <2>8, RestIsEnd
    <2>10. n - Len(r) = first - 1
      BY <1>0, <2>7, <2>9
    <2>11. \A i \in 1..(first - 1) : i \in 1..n /\ i < first
      BY <2>4
    <2> QED BY <1>0, <2>5, <2>6, <2>8, <2>9, <2>10, <2>11, Zenon
  <1> QED BY <1>2, <1>3

(* What one observation adds to the latency of name. *)
Share(name, e) == IF e.name = name THEN e.took ELSE 0

(* f adds up what the first entries of s, one after the other, contribute. *)
Sums(f, name, s, n) == f[0] = 0 /\ \A i \in 1..n : f[i] = f[i - 1] + Share(name, s[i])

(* Lists that agree add up to the same. *)
LEMMA SumsAgree ==
    ASSUME NEW n \in Nat, NEW name, NEW s, NEW t, \A i \in 1..n : s[i] = t[i],
           NEW f, NEW g, Sums(f, name, s, n), Sums(g, name, t, n)
    PROVE  f[n] = g[n]
  <1> DEFINE T == {m \in Nat : m <= n /\ f[m] # g[m]}
  <1>1. T = {}
    <2> SUFFICES ASSUME T # {} PROVE FALSE
      OBVIOUS
    <2>1. PICK m \in T : \A j \in T : m <= j
      <3>1. T \subseteq Nat
        OBVIOUS
      <3> HIDE DEF T
      <3> QED BY <3>1, LeastNumber
    <2>2. m \in Nat /\ m <= n /\ f[m] # g[m]
      OBVIOUS
    <2>3. CASE m = 0
      BY <2>2, <2>3, Zenon DEF Sums
    <2>4. CASE m # 0
      <3>1. m - 1 \in Nat /\ m - 1 <= n /\ ~(m <= m - 1) /\ m \in 1..n
        BY <2>2, <2>4
      <3>2. f[m - 1] = g[m - 1]
        BY <2>1, <3>1
      <3>3. f[m] = f[m - 1] + Share(name, s[m]) /\ g[m] = g[m - 1] + Share(name, t[m])
        BY <3>1, Zenon DEF Sums
      <3> HIDE DEF T
      <3> QED BY <2>2, <3>1, <3>2, <3>3, Zenon
    <2> QED BY <2>3, <2>4
  <1> QED BY <1>1

(* TotalOf's own recursive function. *)
Totalled(f, name, s) ==
    f = [i \in 0..Len(s) |->
            IF i = 0 THEN 0 ELSE f[i - 1] + (IF s[i].name = name THEN s[i].took ELSE 0)]

(* TotalOf adds up share by share. *)
LEMMA TotalledSums ==
    ASSUME NEW s, Len(s) \in Nat, NEW name, NEW f, Totalled(f, name, s)
    PROVE  Sums(f, name, s, Len(s))
  <1>1. PICK h : h = [i \in 0..Len(s) |->
            IF i = 0 THEN 0 ELSE f[i - 1] + (IF s[i].name = name THEN s[i].took ELSE 0)]
    OBVIOUS
  <1>2. f = h
    BY <1>1, Zenon DEF Totalled
  <1>3. h[0] = 0 /\ \A i \in 1..Len(s) : h[i] = f[i - 1] + (IF s[i].name = name THEN s[i].took ELSE 0)
    BY <1>1
  <1> QED BY <1>2, <1>3, Zenon DEF Sums, Share

(* The recursive function behind TotalOf exists. *)
LEMMA TotalledExists ==
    ASSUME NEW s \in Seq(Observation), NEW name
    PROVE  \E f \in [0..Len(s) -> Nat] : Totalled(f, name, s)
  <1>1. PICK n \in Nat : n = Len(s)
    OBVIOUS
  <1>2. PICK add \in [1..n -> Nat] : \A i \in 1..n : add[i] = IF s[i].name = name THEN s[i].took ELSE 0
    <2>1. \A i \in 1..n : s[i] \in Observation
      BY <1>1
    <2>2. \A i \in 1..n : s[i].took \in Nat
      BY <2>1 DEF Observation
    <2>3. \A i \in 1..n : (IF s[i].name = name THEN s[i].took ELSE 0) \in Nat
      BY <2>2
    <2>4. PICK g : g = [i \in 1..n |-> IF s[i].name = name THEN s[i].took ELSE 0]
      OBVIOUS
    <2>5. g \in [1..n -> Nat]
      BY <2>3, <2>4
    <2>6. \A i \in 1..n : g[i] = IF s[i].name = name THEN s[i].took ELSE 0
      BY <2>4
    <2> QED BY <2>5, <2>6, Zenon
  <1>3. PICK turn : turn = [i \in 1..n |-> [x \in Nat |-> x + add[i]]]
    OBVIOUS
  <1>4. \A i \in 1..n : [x \in Nat |-> x + add[i]] \in [Nat -> Nat]
    OBVIOUS
  <1>5. turn \in [1..n -> [Nat -> Nat]]
    BY <1>3, <1>4, Zenon
  <1>6. PICK f \in [0..n -> Nat] : Loops(f, 0, turn, n)
    <2>1. 0 \in Nat
      OBVIOUS
    <2> QED BY <1>5, <2>1, LoopExists, Zenon
  <1>7. \A i \in 1..n : \A x \in Nat : turn[i][x] = x + add[i]
    BY <1>3, Zenon
  <1>8. PICK h : h = [i \in 0..n |->
            IF i = 0 THEN 0 ELSE f[i - 1] + (IF s[i].name = name THEN s[i].took ELSE 0)]
    OBVIOUS
  <1>9. ASSUME NEW i \in 0..n PROVE f[i] = h[i]
    <2>1. CASE i = 0
      BY <1>6, <1>8, <2>1 DEF Loops
    <2>2. CASE i # 0
      <3>1. i \in 1..n /\ i - 1 \in 0..n
        BY <2>2
      <3>2. f[i] = turn[i][f[i - 1]] /\ f[i - 1] \in Nat
        BY <1>6, <3>1, Zenon DEF Loops
      <3>3. h[i] = f[i - 1] + (IF s[i].name = name THEN s[i].took ELSE 0)
        BY <1>8, <2>2
      <3>4. add[i] = (IF s[i].name = name THEN s[i].took ELSE 0)
        BY <1>2, <3>1
      <3> QED BY <1>7, <3>1, <3>2, <3>3, <3>4, Zenon
    <2> QED BY <2>1, <2>2
  <1>10. f = h
    BY <1>6, <1>8, <1>9
  <1> QED BY <1>1, <1>6, <1>8, <1>10, Zenon DEF Totalled

(* TotalOf is such a sum, and a number. *)
LEMMA TotalOfSums ==
    ASSUME NEW s \in Seq(Observation), NEW name
    PROVE  /\ TotalOf(name, s) \in Nat
           /\ \E f : Sums(f, name, s, Len(s)) /\ f[Len(s)] = TotalOf(name, s)
  <1>1. PICK g \in [0..Len(s) -> Nat] : Totalled(g, name, s)
    BY TotalledExists, Zenon
  <1>2. PICK f : f = CHOOSE h : Totalled(h, name, s)
    OBVIOUS
  <1>3. Totalled(f, name, s)
    BY <1>1, <1>2, Zenon
  <1>4. TotalOf(name, s) = f[Len(s)]
    BY <1>2, Zenon DEF TotalOf, Totalled
  <1>5. Len(s) \in Nat /\ Len(s) \in 0..Len(s)
    OBVIOUS
  <1>6. Sums(f, name, s, Len(s)) /\ Sums(g, name, s, Len(s))
    BY <1>1, <1>3, <1>5, TotalledSums, Zenon
  <1>7. f[Len(s)] = g[Len(s)]
    BY <1>5, <1>6, SumsAgree
  <1>8. g[Len(s)] \in Nat
    BY <1>5
  <1> QED BY <1>4, <1>6, <1>7, <1>8, Zenon

(* One observation more adds its share. *)
LEMMA TotalOfAppend ==
    ASSUME NEW s \in Seq(Observation), NEW e \in Observation, NEW name
    PROVE  TotalOf(name, Append(s, e)) = TotalOf(name, s) + Share(name, e)
  <1>1. PICK n \in Nat : n = Len(s)
    OBVIOUS
  <1>2. PICK t : t = Append(s, e)
    OBVIOUS
  <1>3. t \in Seq(Observation) /\ Len(t) = n + 1 /\ t[n + 1] = e /\ \A i \in 1..n : t[i] = s[i]
    BY <1>1, <1>2, AppendProperties
  <1>4. PICK f : Sums(f, name, s, n) /\ f[n] = TotalOf(name, s)
    BY <1>1, TotalOfSums, Zenon
  <1>5. PICK g : Sums(g, name, t, n + 1) /\ g[n + 1] = TotalOf(name, t)
    BY <1>3, TotalOfSums, Zenon
  <1>6. n + 1 \in 1..(n + 1) /\ (n + 1) - 1 = n /\ \A i \in 1..n : i \in 1..(n + 1)
    OBVIOUS
  <1>7. Sums(g, name, t, n)
    BY <1>5, <1>6, Zenon DEF Sums
  <1>8. f[n] = g[n]
    BY <1>3, <1>4, <1>7, SumsAgree
  <1>9. g[n + 1] = g[n] + Share(name, t[n + 1])
    BY <1>5, <1>6, Zenon DEF Sums
  <1> QED BY <1>2, <1>3, <1>4, <1>5, <1>8, <1>9, Zenon

(* Nothing observed took no time. *)
LEMMA TotalOfNone ==
    ASSUME NEW name
    PROVE  TotalOf(name, <<>>) = 0
  <1>1. <<>> \in Seq(Observation) /\ Len(<<>>) = 0
    OBVIOUS
  <1>2. PICK f : Sums(f, name, <<>>, 0) /\ f[0] = TotalOf(name, <<>>)
    BY <1>1, TotalOfSums, Zenon
  <1> QED BY <1>2, Zenon DEF Sums

(* How one more observation changes the entries of each name. *)
LEMMA OfAppend ==
    ASSUME NEW s \in Seq(Observation), NEW e \in Observation, NEW name
    PROVE  /\ IsFiniteSet(Of(name, s)) /\ Cardinality(Of(name, s)) \in Nat
           /\ Cardinality(Of(name, s)) <= Len(s)
           /\ Cardinality(Of(name, Append(s, e))) = Cardinality(Of(name, s)) + IF e.name = name THEN 1 ELSE 0
  <1>1. PICK n \in Nat : n = Len(s)
    OBVIOUS
  <1>2. PICK t : t = Append(s, e)
    OBVIOUS
  <1>3. DOMAIN s = 1..n /\ DOMAIN t = 1..(n + 1) /\ t[n + 1] = e /\ \A i \in 1..n : t[i] = s[i]
    BY <1>1, <1>2, AppendProperties
  <1>4. PICK F : F = Of(name, s)
    OBVIOUS
  <1>5. F \subseteq 1..n /\ \A i \in 1..n : i \in F <=> s[i].name = name
    BY <1>3, <1>4 DEF Of
  <1>6. IsFiniteSet(F) /\ Cardinality(F) \in Nat /\ Cardinality(F) <= n
    <2>1. IsFiniteSet(1..n) /\ Cardinality(1..n) = n
      BY FS_Interval
    <2>2. IsFiniteSet(F) /\ Cardinality(F) <= Cardinality(1..n)
      BY <1>5, <2>1, FS_Subset
    <2>3. Cardinality(F) \in Nat
      BY <2>2, FS_CardinalityType
    <2> QED BY <2>1, <2>2, <2>3
  <1>7. CASE e.name = name
    <2>1. Of(name, t) = F \union {n + 1}
      <3>1. \A i \in 1..(n + 1) : t[i].name = name <=> (i \in F \/ i = n + 1)
        <4>1. \A i \in 1..(n + 1) : i \in 1..n \/ i = n + 1
          OBVIOUS
        <4> QED BY <1>3, <1>5, <1>7, <4>1, Zenon
      <3>2. F \union {n + 1} \subseteq 1..(n + 1)
        BY <1>5
      <3>3. Of(name, t) = {i \in 1..(n + 1) : t[i].name = name}
        BY <1>3, Zenon DEF Of
      <3> QED BY <3>1, <3>2, <3>3
    <2>2. n + 1 \notin F
      BY <1>5
    <2>3. Cardinality(F \union {n + 1}) = Cardinality(F) + 1
      BY <1>6, <2>2, FS_AddElement
    <2> QED BY <1>1, <1>2, <1>4, <1>6, <1>7, <2>1, <2>3
  <1>8. CASE e.name # name
    <2>1. Of(name, t) = F
      BY <1>3, <1>5, <1>8 DEF Of
    <2> QED BY <1>1, <1>2, <1>4, <1>6, <1>8, <2>1
  <1> QED BY <1>7, <1>8

(* TelemetryInv with the number of observations. *)
TelemetryIInv == TelemetryInv /\ Len(observed) <= MaxObserved

(* A new registry. *)
LEMMA TelemetryIInvInit == TelemetryInit => TelemetryIInv
  <1> SUFFICES ASSUME TelemetryInit PROVE TelemetryIInv
    OBVIOUS
  <1>1. /\ counters = [n \in Names |-> 0] /\ latency = [n \in Names |-> 0]
        /\ events = <<>> /\ recent = <<>> /\ observed = <<>> /\ wallClock = 0
    BY DEF TelemetryInit
  <1>2. MaxObserved \in Nat /\ 0 \in ObserveTimes /\ Limit \in Nat
    BY TelemetryAssumption DEF TelemetryAssumption
  <1>3. TelemetryTypeOK
    BY <1>1, <1>2 DEF TelemetryTypeOK
  <1>4. <<>> \in Seq(Observation) /\ Len(<<>>) = 0 /\ ~(0 > Limit) /\ ~(0 > 0)
    BY <1>2
  <1>5. LastOf(<<>>, Limit) = <<>> /\ LastOf(<<>>, 0) = <<>>
    BY <1>4 DEF LastOf
  <1>6. \A n : Cardinality(Of(n, <<>>)) = 0 /\ TotalOf(n, <<>>) = 0
    <2> SUFFICES ASSUME NEW n PROVE Cardinality(Of(n, <<>>)) = 0 /\ TotalOf(n, <<>>) = 0
      OBVIOUS
    <2>1. Of(n, <<>>) = {}
      BY DEF Of
    <2> QED BY <2>1, TotalOfNone, FS_EmptySet
  <1>7. \A n \in Names : counters[n] = 0 /\ latency[n] = 0
    BY <1>1
  <1>8. 1..(Len(<<>>) - Len(<<>>)) = {}
    BY <1>4
  <1>9. Len(observed) <= MaxObserved
    BY <1>1, <1>2, <1>4
  <1>10. events = LastOf(observed, Limit) /\ recent = LastOf(observed, Len(recent))
    BY <1>1, <1>4, <1>5
  <1>11. \A i \in 1..(Len(observed) - Len(recent)) : observed[i].at < wallClock - WindowLength
    BY <1>1, <1>8
  <1>12. \A n \in Names : counters[n] = Cardinality(Of(n, observed)) /\ latency[n] = TotalOf(n, observed)
    BY <1>1, <1>6, <1>7, Zenon
  <1> QED BY <1>3, <1>9, <1>10, <1>11, <1>12, Zenon DEF TelemetryIInv, TelemetryInv

(* Times can be compared. *)
LEMMA ObservedTimes == \A x \in Observation : x.at \in Int
  <1> SUFFICES ASSUME NEW x \in Observation PROVE x.at \in Int
    OBVIOUS
  <1>1. x.at \in ObserveTimes
    BY DEF Observation
  <1>2. ObserveTimes \subseteq Nat
    BY TelemetryAssumption DEF TelemetryAssumption
  <1>3. \A t \in ObserveTimes : t \in Int
    BY <1>2
  <1> QED BY <1>1, <1>3, Zenon

(* What Observe leaves of the window, and of what is no longer in it. *)
LEMMA WindowKeeps ==
    ASSUME NEW O \in Seq(Observation), NEW R \in Seq(Observation), NEW e \in Observation,
           NEW w \in Int, NEW l \in Int,
           IsEndOf(R, O), \A i \in 1..(Len(O) - Len(R)) : O[i].at < w - l,
           NEW R1, R1 = Pruned(Append(R, e), w, l)
    PROVE  /\ R1 \in Seq(Observation) /\ IsEndOf(R1, Append(O, e))
           /\ \A i \in 1..(Len(Append(O, e)) - Len(R1)) : Append(O, e)[i].at < w - l
  <1>1. PICK O1, M : O1 = Append(O, e) /\ M = Append(R, e)
    OBVIOUS
  <1>2. PICK n \in Nat, m \in Nat : n = Len(O) /\ m = Len(R)
    OBVIOUS
  <1>3. /\ O1 \in Seq(Observation) /\ Len(O1) = n + 1
        /\ M \in Seq(Observation) /\ Len(M) = m + 1
        /\ \A i \in 1..n : O1[i] = O[i]
    BY <1>1, <1>2, AppendProperties
  <1>4. IsEndOf(M, O1)
    BY <1>1, AppendToEnd
  <1>5. \A x \in Observation : x.at \in Int
    BY ObservedTimes
  <1>6. /\ R1 \in Seq(Observation) /\ IsEndOf(R1, M)
        /\ \A i \in 1..(Len(M) - Len(R1)) : M[i].at < w - l
    BY <1>1, <1>3, <1>5, PrunedIsEnd
  <1>7. IsEndOf(R1, O1)
    BY <1>3, <1>4, <1>6, EndOfEnd
  <1>8. PICK k \in Nat : k = Len(R1) /\ k <= m + 1
    BY <1>3, <1>6 DEF IsEndOf
  <1>9. m <= n /\ \A i \in 1..(m + 1) : M[i] = O1[i + ((n + 1) - (m + 1))]
    <2>1. m + 1 <= n + 1 /\ \A i \in 1..(m + 1) : M[i] = O1[i + ((n + 1) - (m + 1))]
      BY <1>3, <1>4, Zenon DEF IsEndOf
    <2> QED BY <1>2, <2>1
  <1>10. ASSUME NEW i \in 1..((n + 1) - k) PROVE O1[i].at < w - l
    <2>1. CASE i <= n - m
      <3>1. i \in 1..(n - m) /\ i \in 1..n
        BY <1>2, <1>9, <2>1
      <3> QED BY <1>2, <1>3, <3>1
    <2>2. CASE i > n - m
      <3>1. PICK j \in 1..(m + 1) : j = i - (n - m) /\ j \in 1..((m + 1) - k) /\ j + ((n + 1) - (m + 1)) = i
        <4>1. i - (n - m) \in 1..(m + 1) /\ i - (n - m) \in 1..((m + 1) - k)
              /\ (i - (n - m)) + ((n + 1) - (m + 1)) = i
          BY <1>2, <1>8, <1>9, <2>2
        <4> QED BY <4>1, Zenon
      <3>2. M[j].at < w - l
        BY <1>3, <1>6, <1>8, <3>1
      <3>3. M[j] = O1[i]
        BY <1>9, <3>1, Zenon
      <3> QED BY <3>2, <3>3, Zenon
    <2> QED BY <1>2, <2>1, <2>2
  <1> QED BY <1>1, <1>3, <1>6, <1>7, <1>8, <1>10, Zenon

(* Observe records an observation, of a duration that is never negative. *)
LEMMA ObservationMade ==
    ASSUME NEW name \in Names, NEW started \in ObserveTimes, NEW at \in ObserveTimes, NEW ok \in BOOLEAN,
           NEW took, took = (IF at < started THEN 0 ELSE at - started)
    PROVE  took \in Nat /\ [name |-> name, at |-> at, took |-> took, ok |-> ok] \in Observation
  <1>1. started \in Nat /\ at \in Nat
    BY TelemetryAssumption DEF TelemetryAssumption
  <1>2. took \in Nat
    BY <1>1
  <1> QED BY <1>2 DEF Observation

(* The fields that the proofs about Observe start from. *)
LEMMA TelemetryFacts ==
    ASSUME TelemetryIInv
    PROVE  /\ observed \in Seq(Observation) /\ recent \in Seq(Observation) /\ events \in Seq(Observation)
           /\ counters \in [Names -> 0..MaxObserved] /\ latency \in [Names -> Nat]
           /\ wallClock \in ObserveTimes /\ wallClock \in Int
           /\ events = LastOf(observed, Limit)
           /\ IsEndOf(recent, observed) /\ IsEndOf(events, observed)
           /\ \A i \in 1..(Len(observed) - Len(recent)) : observed[i].at < wallClock - WindowLength
           /\ \A n \in Names :
                 counters[n] = Cardinality(Of(n, observed)) /\ latency[n] = TotalOf(n, observed)
           /\ Len(observed) \in Nat /\ Len(observed) <= MaxObserved
           /\ Limit \in Nat \ {0} /\ MaxObserved \in Nat /\ WindowLength \in Int
  <1>1. /\ observed \in Seq(Observation) /\ recent \in Seq(Observation) /\ events \in Seq(Observation)
        /\ counters \in [Names -> 0..MaxObserved] /\ latency \in [Names -> Nat]
        /\ wallClock \in ObserveTimes
        /\ events = LastOf(observed, Limit) /\ recent = LastOf(observed, Len(recent))
        /\ \A i \in 1..(Len(observed) - Len(recent)) : observed[i].at < wallClock - WindowLength
        /\ \A n \in Names :
              counters[n] = Cardinality(Of(n, observed)) /\ latency[n] = TotalOf(n, observed)
        /\ Len(observed) <= MaxObserved
    BY Zenon DEF TelemetryIInv, TelemetryInv, TelemetryTypeOK
  <1>2. Limit \in Nat \ {0} /\ Limit \in Nat /\ MaxObserved \in Nat /\ WindowLength \in Int /\ ObserveTimes \subseteq Nat
    BY TelemetryAssumption DEF TelemetryAssumption
  <1>3. Len(recent) \in Nat /\ Len(observed) \in Nat
    BY <1>1
  <1>4. IsEndOf(recent, observed) /\ IsEndOf(events, observed)
    <2>1. IsEndOf(LastOf(observed, Limit), observed)
      BY <1>1, <1>2, LastOfIsEnd, Zenon
    <2>2. IsEndOf(LastOf(observed, Len(recent)), observed)
      BY <1>1, <1>3, LastOfIsEnd, Zenon
    <2> QED BY <1>1, <2>1, <2>2, Zenon
  <1>5. wallClock \in Int
    BY <1>1, <1>2
  <1> QED BY <1>1, <1>2, <1>3, <1>4, <1>5, Zenon

(* Observe keeps counters, event list and window in step with all observations. *)
LEMMA TelemetryObserve ==
    ASSUME TelemetryIInv, NEW name \in Names, NEW started \in ObserveTimes, NEW at \in ObserveTimes,
           NEW ok \in BOOLEAN, Observe(name, started, at, ok)
    PROVE  TelemetryIInv'
  <1>1. PICK took : took = IF at < started THEN 0 ELSE at - started
    OBVIOUS
  <1>2. PICK e : e = [name |-> name, at |-> at, took |-> took, ok |-> ok]
    OBVIOUS
  <1>3. took \in Nat /\ e \in Observation
    BY <1>1, <1>2, ObservationMade, Zenon
  <1>4. e.name = name /\ e.took = took
    BY <1>2
  <1>5. /\ Len(observed) < MaxObserved
        /\ counters' = [counters EXCEPT ![name] = @ + 1]
        /\ latency' = [latency EXCEPT ![name] = @ + took]
        /\ events' = Trimmed(Append(events, e))
        /\ recent' = Pruned(Append(recent, e), wallClock, WindowLength)
        /\ observed' = Append(observed, e)
        /\ wallClock' = wallClock
    BY <1>1, <1>2, Zenon DEF Observe
  <1>6. PICK O \in Seq(Observation), R \in Seq(Observation), E \in Seq(Observation),
             C \in [Names -> 0..MaxObserved], L \in [Names -> Nat], w \in Int :
          /\ O = observed /\ R = recent /\ E = events /\ C = counters /\ L = latency /\ w = wallClock
    BY TelemetryFacts, Zenon
  <1>7. /\ IsEndOf(R, O) /\ E = LastOf(O, Limit)
        /\ \A i \in 1..(Len(O) - Len(R)) : O[i].at < w - WindowLength
        /\ \A n \in Names : C[n] = Cardinality(Of(n, O)) /\ L[n] = TotalOf(n, O)
        /\ Len(O) \in Nat /\ Len(O) < MaxObserved
        /\ Limit \in Nat \ {0} /\ MaxObserved \in Nat /\ WindowLength \in Int
    BY <1>5, <1>6, TelemetryFacts, Zenon
  <1>8. PICK O1, R1, E1, C1, L1 : /\ O1 = observed' /\ R1 = recent' /\ E1 = events'
                                  /\ C1 = counters' /\ L1 = latency'
    OBVIOUS
  <1>9. O1 = Append(O, e) /\ R1 = Pruned(Append(R, e), w, WindowLength) /\ E1 = LastOf(Append(E, e), Limit)
    BY <1>5, <1>6, <1>8, Zenon DEF Trimmed
  <1>10. O1 \in Seq(Observation) /\ Len(O1) = Len(O) + 1
    BY <1>3, <1>9, AppendProperties
  <1>11. Len(O1) <= MaxObserved
    BY <1>7, <1>10
  <1>12. E1 = LastOf(O1, Limit) /\ E1 \in Seq(Observation)
    <2>1. E1 = LastOf(O1, Limit)
      BY <1>3, <1>7, <1>9, TrimKeepsLatest
    <2>2. Limit \in Nat
      BY <1>7
    <2> QED BY <1>10, <2>1, <2>2, LastOfIsEnd
  <1>13. /\ R1 \in Seq(Observation) /\ IsEndOf(R1, O1)
         /\ \A i \in 1..(Len(O1) - Len(R1)) : O1[i].at < w - WindowLength
    BY <1>3, <1>7, <1>9, WindowKeeps
  <1>14. R1 = LastOf(O1, Len(R1))
    BY <1>10, <1>13, EndIsLastOf
  <1>15. ASSUME NEW n \in Names
         PROVE  /\ Cardinality(Of(n, O1)) = C[n] + (IF name = n THEN 1 ELSE 0)
                /\ TotalOf(n, O1) = L[n] + (IF name = n THEN took ELSE 0)
                /\ C[n] <= Len(O)
    <2>1. /\ Cardinality(Of(n, O)) <= Len(O)
          /\ Cardinality(Of(n, O1)) = Cardinality(Of(n, O)) + IF e.name = n THEN 1 ELSE 0
      BY <1>3, <1>9, OfAppend
    <2>2. TotalOf(n, O1) = TotalOf(n, O) + Share(n, e)
      BY <1>3, <1>9, TotalOfAppend
    <2>3. Share(n, e) = IF name = n THEN took ELSE 0
      BY <1>4 DEF Share
    <2>4. C[n] = Cardinality(Of(n, O)) /\ L[n] = TotalOf(n, O)
      BY <1>7
    <2> QED BY <1>4, <2>1, <2>2, <2>3, <2>4, Zenon
  <1>16. /\ C1 \in [Names -> 0..MaxObserved] /\ L1 \in [Names -> Nat]
         /\ \A n \in Names : C1[n] = C[n] + (IF name = n THEN 1 ELSE 0)
         /\ \A n \in Names : L1[n] = L[n] + (IF name = n THEN took ELSE 0)
    <2>1. C1 = [C EXCEPT ![name] = C[name] + 1] /\ L1 = [L EXCEPT ![name] = L[name] + took]
      BY <1>5, <1>6, <1>8
    <2>2. C[name] + 1 \in 0..MaxObserved
      BY <1>7, <1>15
    <2> QED BY <1>3, <2>1, <2>2
  <1>17. \A n \in Names : C1[n] = Cardinality(Of(n, O1)) /\ L1[n] = TotalOf(n, O1)
    BY <1>15, <1>16, Zenon
  <1>18. wallClock' = w /\ wallClock' \in ObserveTimes
    BY <1>5, <1>6, TelemetryFacts, Zenon
  <1>19. TelemetryTypeOK'
    BY <1>8, <1>10, <1>12, <1>13, <1>16, <1>18, Zenon DEF TelemetryTypeOK
  <1> QED BY <1>8, <1>11, <1>12, <1>13, <1>14, <1>17, <1>18, <1>19, Zenon DEF TelemetryIInv, TelemetryInv

(* A prune of the window on its own. *)
LEMMA TelemetryReadWindow ==
    ASSUME TelemetryIInv, ReadWindow
    PROVE  TelemetryIInv'
  <1>1. /\ recent' = Pruned(recent, wallClock, WindowLength)
        /\ counters' = counters /\ latency' = latency /\ events' = events
        /\ wallClock' = wallClock /\ observed' = observed
    BY DEF ReadWindow
  <1>2. PICK O \in Seq(Observation), R \in Seq(Observation), w \in Int :
          O = observed /\ R = recent /\ w = wallClock
    BY TelemetryFacts, Zenon
  <1>3. /\ IsEndOf(R, O) /\ WindowLength \in Int
        /\ \A i \in 1..(Len(O) - Len(R)) : O[i].at < w - WindowLength
    BY <1>2, TelemetryFacts, Zenon
  <1>4. PICK R1 : R1 = Pruned(R, w, WindowLength)
    OBVIOUS
  <1>5. \A x \in Observation : x.at \in Int
    BY ObservedTimes
  <1>6. /\ R1 \in Seq(Observation) /\ IsEndOf(R1, R)
        /\ \A i \in 1..(Len(R) - Len(R1)) : R[i].at < w - WindowLength
    BY <1>3, <1>4, <1>5, PrunedIsEnd
  <1>7. IsEndOf(R1, O)
    BY <1>3, <1>6, EndOfEnd
  <1>8. R1 = LastOf(O, Len(R1))
    BY <1>6, <1>7, EndIsLastOf
  <1>9. PICK n \in Nat, m \in Nat, k \in Nat : n = Len(O) /\ m = Len(R) /\ k = Len(R1)
    BY <1>6
  <1>10. m <= n /\ k <= m /\ \A i \in 1..m : R[i] = O[i + (n - m)]
    BY <1>3, <1>6, <1>9, Zenon DEF IsEndOf
  <1>11. ASSUME NEW i \in 1..(n - k) PROVE O[i].at < w - WindowLength
    <2>1. CASE i <= n - m
      <3>1. i \in 1..(n - m)
        BY <1>9, <1>10, <2>1
      <3> QED BY <1>3, <1>9, <3>1, Zenon
    <2>2. CASE i > n - m
      <3>1. PICK j \in 1..m : j \in 1..(m - k) /\ j + (n - m) = i
        <4>1. i - (n - m) \in 1..m /\ i - (n - m) \in 1..(m - k) /\ (i - (n - m)) + (n - m) = i
          BY <1>9, <1>10, <2>2
        <4> QED BY <4>1, Zenon
      <3>2. R[j].at < w - WindowLength
        BY <1>6, <1>9, <3>1, Zenon
      <3>3. R[j] = O[i]
        BY <1>10, <3>1, Zenon
      <3> QED BY <3>2, <3>3, Zenon
    <2> QED BY <1>9, <1>10, <2>1, <2>2
  <1>12. recent' = R1
    BY <1>1, <1>2, <1>4, Zenon
  <1>13. TelemetryTypeOK'
    BY <1>1, <1>6, <1>12, Zenon DEF TelemetryTypeOK, TelemetryIInv, TelemetryInv
  <1> QED BY <1>1, <1>2, <1>8, <1>9, <1>11, <1>12, <1>13, Zenon DEF TelemetryIInv, TelemetryInv

(* What is too old for the window stays too old. *)
LEMMA TelemetryClock ==
    ASSUME TelemetryIInv, AdvanceWallClock
    PROVE  TelemetryIInv'
  <1>1. /\ wallClock' \in ObserveTimes /\ wallClock' > wallClock
        /\ counters' = counters /\ latency' = latency /\ events' = events
        /\ recent' = recent /\ observed' = observed
    BY DEF AdvanceWallClock
  <1>2. PICK w \in Int, v \in Int, l \in Int : w = wallClock /\ v = wallClock' /\ l = WindowLength
    BY <1>1, TelemetryFacts, TelemetryAssumption DEF TelemetryAssumption
  <1>3. w < v
    BY <1>1, <1>2
  <1>4. PICK O \in Seq(Observation), k \in Int : O = observed /\ k = Len(observed) - Len(recent) /\ k <= Len(O)
    <2>1. PICK O \in Seq(Observation), R \in Seq(Observation) : O = observed /\ R = recent
      BY TelemetryFacts, Zenon
    <2>2. Len(O) - Len(R) \in Int /\ Len(O) - Len(R) <= Len(O)
      OBVIOUS
    <2> QED BY <2>1, <2>2, Zenon
  <1>5. \A i \in 1..k : O[i].at < w - l
    BY <1>2, <1>4, TelemetryFacts, Zenon
  <1>6. \A i \in 1..k : O[i].at \in Int
    <2>1. \A i \in 1..k : O[i] \in Observation
      BY <1>4
    <2>2. \A x \in Observation : x.at \in Int
      BY ObservedTimes
    <2> QED BY <2>1, <2>2, Zenon
  <1>7. \A i \in 1..k : O[i].at < v - l
    BY <1>3, <1>5, <1>6
  <1>8. TelemetryTypeOK'
    BY <1>1, Zenon DEF TelemetryTypeOK, TelemetryIInv, TelemetryInv
  <1> QED BY <1>1, <1>2, <1>4, <1>7, <1>8, Zenon DEF TelemetryIInv, TelemetryInv

(* The readers change none of it. *)
LEMMA TelemetryReaders ==
    ASSUME TelemetryIInv,
           UNCHANGED <<counters, latency, events, recent, wallClock, observed>>
    PROVE  TelemetryIInv'
  BY Zenon DEF TelemetryIInv, TelemetryInv, TelemetryTypeOK

(* Every step. *)
LEMMA TelemetryIInvStep ==
    ASSUME TelemetryIInv, [TelemetryNext]_teleVars
    PROVE  TelemetryIInv'
  <1>1. ASSUME NEW name \in Names, NEW started \in ObserveTimes, NEW at \in ObserveTimes,
               NEW ok \in BOOLEAN, Observe(name, started, at, ok)
        PROVE  TelemetryIInv'
    BY <1>1, TelemetryObserve, Zenon
  <1>2. CASE ReadWindow
    BY <1>2, TelemetryReadWindow
  <1>3. CASE AdvanceWallClock
    BY <1>3, TelemetryClock
  <1>4. CASE \/ HealthNames \/ HealthFailures \/ HealthEvents \/ RateFailures \/ RateCount
             \/ \E name \in Names : HealthCount(name) \/ HealthAverage(name) \/ FailureRate(name)
    <2>1. UNCHANGED <<counters, latency, events, recent, wallClock, observed>>
      BY <1>4 DEF HealthNames, HealthFailures, HealthEvents, RateFailures, RateCount,
                  HealthCount, HealthAverage, FailureRate, QueryGoto
    <2> QED BY <2>1, TelemetryReaders
  <1>5. CASE UNCHANGED teleVars
    BY <1>5, TelemetryReaders DEF teleVars
  <1> QED BY <1>1, <1>2, <1>3, <1>4, <1>5, Zenon DEF TelemetryNext

(* Registry.Observe, and the prunes of its window, keep the event list at the latest Limit
   observations in their order, every counter and latency at what all observations add up
   to, and every recent observation in the window: for any names, limit, window length,
   clock readings and number of observations. *)
THEOREM TelemetryInvariant == TelemetrySpec => []TelemetryInv
  <1>1. TelemetryIInv => TelemetryInv
    BY DEF TelemetryIInv
  <1> QED BY <1>1, TelemetryIInvInit, TelemetryIInvStep, PTL DEF TelemetrySpec

(* The counts put into an answer are those of an earlier moment. *)
CountsBehind(counts, C) == counts \in [Names -> Nat] /\ \A n \in Names : counts[n] <= C[n]

(* Every average in an answer is within a call that was observed. *)
AverageKnown(average, O) ==
    /\ average \in [Names -> Nat]
    /\ \A n \in Names : average[n] > 0 => \E i \in DOMAIN O : O[i].took >= average[n]

(* What the latency of a name adds up to is within its count times one of its calls. *)
MeanPart(C, L, O) ==
    \A n \in Names :
        /\ C[n] = 0 => L[n] = 0
        /\ C[n] > 0 => \E i \in DOMAIN O : O[i].took * C[n] >= L[n]

(* The counts of all names, side by side. *)
Layout(counts) ==
    {c \in Names \X (1..MaxObserved) : c[2] <= counts[c[1]]}

SumPart(C, O) == IsFiniteSet(Layout(C)) /\ Cardinality(Layout(C)) = Len(O)

(* HealthSnapshot while it goes through the names. *)
HealthCalls ==
    [pc: {"counters"}, todo: SUBSET Names, counters: [Names -> Nat], average: [Names -> Nat]]

(* What the call in progress has put together so far. *)
QueryPart(q, C, O, E) ==
    \/ q.pc = "idle"
    \/ /\ q.pc = "counters"
       /\ q \in HealthCalls
       /\ CountsBehind(q.counters, C) /\ AverageKnown(q.average, O)
    \/ /\ q.pc = "events"
       /\ CountsBehind(q.counters, C) /\ AverageKnown(q.average, O)
       /\ q.failures \in Nat /\ q.failures <= Len(E)
    \/ /\ q.pc = "health"
       /\ AverageKnown(q.average, O)
       /\ q.failures \in Nat /\ q.inWindow \in Nat /\ AllCounted(q.counters) \in Nat
       /\ q.failures <= q.inWindow /\ q.inWindow <= Limit
       /\ q.inWindow >= Limit \/ q.inWindow >= AllCounted(q.counters)
    \/ q.pc = "rateEvents" /\ q.name \in Names /\ C[q.name] > 0
    \/ /\ q.pc = "rateCount" /\ q.name \in Names /\ C[q.name] > 0
       /\ q.failures \in Nat /\ q.failures <= C[q.name]
    \/ q.pc = "rate" /\ q.of > 0 /\ q.failures <= q.of

(* The inductive invariant of the readers. *)
AnswersIInv ==
    /\ TelemetryIInv
    /\ MeanPart(counters, latency, observed)
    /\ SumPart(counters, observed)
    /\ QueryPart(query, counters, observed, events)

(* A mean that one of the calls, or the new one, reaches. *)
LEMMA MeanGrows ==
    ASSUME NEW u \in Nat, NEW t \in Nat, NEW c \in Nat, NEW l \in Nat, u * c >= l
    PROVE  u * (c + 1) >= l + t \/ t * (c + 1) >= l + t
  OBVIOUS

(* A mean is within the call that bounds the sum. *)
LEMMA MeanIsBounded ==
    ASSUME NEW u \in Nat, NEW l \in Nat, NEW c \in Nat, c > 0, u * c >= l
    PROVE  l \div c <= u /\ l \div c \in Nat
  OBVIOUS

(* One more observation of a name leaves its mean within one of its calls. *)
LEMMA MeanObserve ==
    ASSUME NEW C \in [Names -> Nat], NEW L \in [Names -> Nat], NEW O \in Seq(Observation),
           NEW e \in Observation, NEW C1, NEW L1,
           \A n \in Names : C1[n] = C[n] + (IF e.name = n THEN 1 ELSE 0),
           \A n \in Names : L1[n] = L[n] + (IF e.name = n THEN e.took ELSE 0),
           MeanPart(C, L, O)
    PROVE  MeanPart(C1, L1, Append(O, e))
  <1>1. PICK O1 : O1 = Append(O, e)
    OBVIOUS
  <1>2. PICK k \in Nat : k = Len(O) /\ DOMAIN O = 1..k
    OBVIOUS
  <1>3. DOMAIN O1 = 1..(k + 1) /\ O1[k + 1] = e /\ \A i \in 1..k : O1[i] = O[i]
    BY <1>1, <1>2, AppendProperties
  <1>4. k + 1 \in DOMAIN O1 /\ \A i \in DOMAIN O : i \in DOMAIN O1 /\ O1[i] = O[i]
    BY <1>2, <1>3
  <1>5. \A i \in DOMAIN O : O[i].took \in Nat
    <2>1. \A i \in DOMAIN O : O[i] \in Observation
      OBVIOUS
    <2> QED BY <2>1 DEF Observation
  <1>6. e.took \in Nat
    BY DEF Observation
  <1>7. ASSUME NEW n \in Names
        PROVE  /\ C1[n] = 0 => L1[n] = 0
               /\ C1[n] > 0 => \E i \in DOMAIN O1 : O1[i].took * C1[n] >= L1[n]
    <2>1. PICK c \in Nat, l \in Nat : c = C[n] /\ l = L[n]
      OBVIOUS
    <2>2. /\ c = 0 => l = 0
          /\ c > 0 => \E i \in DOMAIN O : O[i].took * c >= l
      BY <2>1, Zenon DEF MeanPart
    <2>3. CASE e.name # n
      <3>1. C1[n] = c /\ L1[n] = l
        BY <2>1, <2>3
      <3> QED BY <1>4, <2>2, <3>1, Zenon
    <2>4. CASE e.name = n
      <3>1. PICK t \in Nat : t = e.took
        BY <1>6
      <3>2. C1[n] = c + 1 /\ L1[n] = l + t
        BY <2>1, <2>4, <3>1
      <3>3. \E i \in DOMAIN O1 : O1[i].took * (c + 1) >= l + t
        <4>1. CASE c = 0
          <5>1. t * (c + 1) >= l + t
            BY <2>2, <4>1
          <5> QED BY <1>3, <1>4, <3>1, <5>1, Zenon
        <4>2. CASE c # 0
          <5>1. c > 0
            BY <4>2
          <5>2. PICK i \in DOMAIN O : O[i].took * c >= l
            BY <2>2, <5>1, Zenon
          <5>3. PICK u \in Nat : u = O[i].took
            BY <1>5
          <5>4. u * (c + 1) >= l + t \/ t * (c + 1) >= l + t
            BY <5>2, <5>3, MeanGrows
          <5> QED BY <1>3, <1>4, <3>1, <5>3, <5>4, Zenon
        <4> QED BY <4>1, <4>2
      <3>4. c + 1 # 0
        OBVIOUS
      <3> QED BY <3>2, <3>3, <3>4, Zenon
    <2> QED BY <2>3, <2>4
  <1> QED BY <1>1, <1>7, Zenon DEF MeanPart

(* One more observation is one more counted. *)
LEMMA SumObserve ==
    ASSUME NEW C \in [Names -> Nat], NEW O \in Seq(Observation), NEW e \in Observation, NEW C1,
           \A n \in Names : C1[n] = C[n] + (IF e.name = n THEN 1 ELSE 0),
           C[e.name] + 1 <= MaxObserved, SumPart(C, O)
    PROVE  SumPart(C1, Append(O, e))
  <1>1. e.name \in Names /\ MaxObserved \in Nat
    BY TelemetryAssumption DEF Observation, TelemetryAssumption
  <1>2. PICK a \in Names : a = e.name
    BY <1>1
  <1>3. PICK k \in Nat : k = C[a] + 1 /\ k \in 1..MaxObserved
    <2>1. C[a] + 1 \in Nat /\ C[a] + 1 \in 1..MaxObserved
      BY <1>1, <1>2
    <2> QED BY <2>1
  <1>4. PICK F : F = Layout(C)
    OBVIOUS
  <1>5. \A n \in Names, i \in 1..MaxObserved : <<n, i>> \in F <=> i <= C[n]
    BY <1>4 DEF Layout
  <1>6. \A n \in Names, i \in 1..MaxObserved : <<n, i>> \in Layout(C1) <=> i <= C1[n]
    BY DEF Layout
  <1>7. \A n \in Names, i \in 1..MaxObserved : i <= C1[n] <=> (i <= C[n] \/ (n = a /\ i = k))
    <2> SUFFICES ASSUME NEW n \in Names, NEW i \in 1..MaxObserved
                 PROVE  i <= C1[n] <=> (i <= C[n] \/ (n = a /\ i = k))
      OBVIOUS
    <2>1. CASE n = a
      <3>1. C1[n] = C[n] + 1 /\ C[n] \in Nat /\ k = C[n] + 1
        BY <1>2, <1>3, <2>1
      <3> QED BY <2>1, <3>1
    <2>2. CASE n # a
      <3>1. C1[n] = C[n] + 0 /\ C[n] \in Nat
        BY <1>2, <2>2
      <3> QED BY <2>2, <3>1
    <2> QED BY <2>1, <2>2
  <1>8. Layout(C1) = F \union {<<a, k>>}
    <2>1. Layout(C1) \subseteq Names \X (1..MaxObserved) /\ F \subseteq Names \X (1..MaxObserved)
      BY <1>4 DEF Layout
    <2>2. <<a, k>> \in Names \X (1..MaxObserved)
      BY <1>3
    <2>3. ASSUME NEW x \in Names \X (1..MaxObserved)
          PROVE  x \in Layout(C1) <=> (x \in F \/ x = <<a, k>>)
      <3>1. PICK n \in Names, i \in 1..MaxObserved : x = <<n, i>>
        BY <2>3
      <3>2. x = <<a, k>> <=> (n = a /\ i = k)
        BY <3>1
      <3>3. x \in Layout(C1) <=> i <= C1[n]
        BY <1>6, <3>1, Zenon
      <3>4. x \in F <=> i <= C[n]
        BY <1>5, <3>1, Zenon
      <3> QED BY <1>7, <3>2, <3>3, <3>4, Zenon
    <2>4. PICK G, H : G = Layout(C1) /\ H = {<<a, k>>}
      OBVIOUS
    <2>5. \A x \in Names \X (1..MaxObserved) : x \in G <=> x \in F \union H
      BY <2>3, <2>4, Zenon
    <2>6. G \subseteq Names \X (1..MaxObserved) /\ F \union H \subseteq Names \X (1..MaxObserved)
      BY <2>1, <2>2, <2>4, Zenon
    <2>7. G = F \union H
      BY <2>5, <2>6, Zenon
    <2> QED BY <2>4, <2>7, Zenon
  <1>9. <<a, k>> \notin F
    <2>1. ~(k <= C[a])
      BY <1>3
    <2> QED BY <1>3, <1>5, <2>1, Zenon
  <1>10. IsFiniteSet(F) /\ Cardinality(F) = Len(O)
    BY <1>4, Zenon DEF SumPart
  <1>11. IsFiniteSet(F \union {<<a, k>>}) /\ Cardinality(F \union {<<a, k>>}) = Cardinality(F) + 1
    BY <1>9, <1>10, FS_AddElement, Zenon
  <1>12. Len(Append(O, e)) = Len(O) + 1
    BY AppendProperties
  <1> QED BY <1>8, <1>10, <1>11, <1>12, Zenon DEF SumPart

(* An answer in the making, or made, stays as good when more is observed. *)
LEMMA QueryObserve ==
    ASSUME NEW q, NEW C \in [Names -> Nat], NEW C1 \in [Names -> Nat], \A n \in Names : C[n] <= C1[n],
           NEW O \in Seq(Observation), NEW O1,
           \A i \in DOMAIN O : i \in DOMAIN O1 /\ O1[i] = O[i],
           NEW E, NEW E1, Len(E) \in Nat, Len(E1) \in Nat, Len(E) <= Len(E1),
           QueryPart(q, C, O, E)
    PROVE  QueryPart(q, C1, O1, E1)
  <1>1. ASSUME NEW counts, CountsBehind(counts, C) PROVE CountsBehind(counts, C1)
    <2>1. counts \in [Names -> Nat] /\ \A n \in Names : counts[n] <= C[n]
      BY <1>1 DEF CountsBehind
    <2>2. \A n \in Names : counts[n] <= C1[n]
      BY <2>1
    <2> QED BY <2>1, <2>2 DEF CountsBehind
  <1>2. ASSUME NEW average, AverageKnown(average, O) PROVE AverageKnown(average, O1)
    BY <1>2, Zenon DEF AverageKnown
  <1>3. ASSUME NEW f \in Nat, f <= Len(E) PROVE f <= Len(E1)
    BY <1>3
  <1>4. ASSUME NEW n \in Names, NEW f \in Nat, f <= C[n] PROVE f <= C1[n]
    BY <1>4
  <1>5. ASSUME NEW n \in Names, C[n] > 0 PROVE C1[n] > 0
    BY <1>5
  <1>6. CASE q.pc = "idle"
    BY <1>6, Zenon DEF QueryPart
  <1>7. CASE q.pc = "counters"
    <2>1. /\ q \in HealthCalls
          /\ CountsBehind(q.counters, C) /\ AverageKnown(q.average, O)
      BY <1>7 DEF QueryPart
    <2> QED BY <1>1, <1>2, <1>7, <2>1, Zenon DEF QueryPart
  <1>8. CASE q.pc = "events"
    <2>1. /\ CountsBehind(q.counters, C) /\ AverageKnown(q.average, O)
          /\ q.failures \in Nat /\ q.failures <= Len(E)
      BY <1>8 DEF QueryPart
    <2> QED BY <1>1, <1>2, <1>3, <1>8, <2>1, Zenon DEF QueryPart
  <1>9. CASE q.pc = "health"
    <2>1. /\ AverageKnown(q.average, O)
          /\ q.failures \in Nat /\ q.inWindow \in Nat /\ AllCounted(q.counters) \in Nat
          /\ q.failures <= q.inWindow /\ q.inWindow <= Limit
          /\ q.inWindow >= Limit \/ q.inWindow >= AllCounted(q.counters)
      BY <1>9 DEF QueryPart
    <2> QED BY <1>2, <1>9, <2>1, Zenon DEF QueryPart
  <1>10. CASE q.pc = "rateEvents"
    <2>1. q.name \in Names /\ C[q.name] > 0
      BY <1>10 DEF QueryPart
    <2> QED BY <1>5, <1>10, <2>1, Zenon DEF QueryPart
  <1>11. CASE q.pc = "rateCount"
    <2>1. q.name \in Names /\ C[q.name] > 0 /\ q.failures \in Nat /\ q.failures <= C[q.name]
      BY <1>11 DEF QueryPart
    <2> QED BY <1>4, <1>5, <1>11, <2>1, Zenon DEF QueryPart
  <1>12. CASE q.pc = "rate"
    <2>1. q.of > 0 /\ q.failures <= q.of
      BY <1>12 DEF QueryPart
    <2> QED BY <1>12, <2>1, Zenon DEF QueryPart
  <1> QED BY <1>6, <1>7, <1>8, <1>9, <1>10, <1>11, <1>12, Zenon DEF QueryPart

(* The failures of the event list are among its entries. *)
LEMMA FailuresAmong ==
    ASSUME NEW E \in Seq(Observation)
    PROVE  Cardinality(Failures(E)) \in Nat /\ Cardinality(Failures(E)) <= Len(E)
  <1>1. PICK n \in Nat : n = Len(E) /\ DOMAIN E = 1..n
    OBVIOUS
  <1>2. Failures(E) \subseteq 1..n
    BY <1>1 DEF Failures
  <1>3. IsFiniteSet(1..n) /\ Cardinality(1..n) = n
    BY FS_Interval
  <1> QED BY <1>1, <1>2, <1>3, FS_Subset, FS_CardinalityType

(* The failures of a name in the event list are among its observations. *)
LEMMA FailuresCounted ==
    ASSUME NEW E \in Seq(Observation), NEW O \in Seq(Observation), IsEndOf(E, O), NEW name
    PROVE  /\ Cardinality(FailuresOf(name, E)) \in Nat
           /\ Cardinality(FailuresOf(name, E)) <= Cardinality(Of(name, O))
  <1>1. PICK n \in Nat, m \in Nat : n = Len(O) /\ DOMAIN O = 1..n /\ m = Len(E) /\ DOMAIN E = 1..m
    OBVIOUS
  <1>2. m <= n /\ \A i \in 1..m : E[i] = O[i + (n - m)]
    BY <1>1, Zenon DEF IsEndOf
  <1>3. PICK F, G : F = FailuresOf(name, E) /\ G = Of(name, O)
    OBVIOUS
  <1>4. F \subseteq 1..m /\ \A i \in F : E[i].name = name
    BY <1>1, <1>3 DEF FailuresOf, Failures
  <1>5. G \subseteq 1..n /\ \A i \in 1..n : O[i].name = name => i \in G
    BY <1>1, <1>3 DEF Of
  <1>6. ASSUME NEW i \in F PROVE i + (n - m) \in G
    <2>1. i \in 1..m /\ i + (n - m) \in 1..n
      BY <1>2, <1>4
    <2> QED BY <1>2, <1>4, <1>5, <2>1, Zenon
  <1>7. PICK f : f = [i \in F |-> i + (n - m)]
    OBVIOUS
  <1>8. f \in [F -> G]
    BY <1>6, <1>7
  <1>9. \A i, j \in F : f[i] = f[j] => i = j
    BY <1>4, <1>7
  <1>10. f \in Injection(F, G)
    <2>1. DOMAIN f = F
      BY <1>7
    <2> QED BY <1>8, <1>9, <2>1, Zenon DEF Injection, IsInjective
  <1>11. IsFiniteSet(G)
    <2>1. IsFiniteSet(1..n)
      BY FS_Interval
    <2> QED BY <1>5, <2>1, FS_Subset
  <1> QED BY <1>3, <1>10, <1>11, FS_Injection, FS_CardinalityType

(* The parts of one state that a reader works on. *)
Readable(C, L, O, E) ==
    /\ C \in [Names -> Nat] /\ L \in [Names -> Nat]
    /\ O \in Seq(Observation) /\ E \in Seq(Observation)
    /\ E = LastOf(O, Limit) /\ IsEndOf(E, O)
    /\ \A n \in Names : C[n] = Cardinality(Of(n, O))
    /\ MeanPart(C, L, O) /\ SumPart(C, O)

(* r is q with its averages, and its names to do, replaced. *)
ReadInto(q, r, average) ==
    /\ q \in HealthCalls
    /\ average \in [Names -> Nat]
    /\ \E T \in SUBSET Names : r = [q EXCEPT !.average = average, !.todo = T]

(* The fields of such a call. *)
LEMMA ReadIntoCall ==
    ASSUME NEW q, NEW r, NEW k, ReadInto(q, r, k)
    PROVE  r \in HealthCalls /\ r.pc = "counters" /\ r.counters = q.counters /\ r.average = k
  <1>1. PICK T \in SUBSET Names : r = [q EXCEPT !.average = k, !.todo = T]
    BY DEF ReadInto
  <1>2. q \in HealthCalls /\ k \in [Names -> Nat]
    BY DEF ReadInto
  <1> QED BY <1>1, <1>2 DEF HealthCalls

(* What HealthAverage makes of the call. *)
LEMMA AverageEntered ==
    ASSUME NEW q, q \in HealthCalls, NEW name \in Names, NEW v \in Nat, NEW r, NEW k,
           r = [q EXCEPT !.average[name] = v, !.todo = @ \ {name}],
           k = [q.average EXCEPT ![name] = v]
    PROVE  ReadInto(q, r, k)
  <1>1. q.average \in [Names -> Nat] /\ q.todo \in SUBSET Names
    BY DEF HealthCalls
  <1>2. PICK T : T = q.todo \ {name}
    OBVIOUS
  <1>3. k \in [Names -> Nat] /\ T \in SUBSET Names
    BY <1>1, <1>2
  <1>4. r = [q EXCEPT !.average = k, !.todo = T]
    BY <1>2
  <1> QED BY <1>3, <1>4, Zenon DEF ReadInto

(* HealthSnapshot begins with nothing read. *)
LEMMA HealthNamesAnswer ==
    ASSUME NEW C, NEW L, NEW O, NEW E, Readable(C, L, O, E), NEW q,
           q = [pc |-> "counters", todo |-> {n \in Names : C[n] > 0},
                counters |-> [n \in Names |-> 0], average |-> [n \in Names |-> 0]]
    PROVE  QueryPart(q, C, O, E)
  <1>1. C \in [Names -> Nat]
    BY DEF Readable
  <1>2. PICK z : z = [n \in Names |-> 0]
    OBVIOUS
  <1>3. z \in [Names -> Nat] /\ \A n \in Names : z[n] = 0
    BY <1>2
  <1>4. CountsBehind(z, C)
    BY <1>1, <1>3 DEF CountsBehind
  <1>5. AverageKnown(z, O)
    BY <1>3 DEF AverageKnown
  <1>6. q.pc = "counters" /\ q.counters = z /\ q.average = z /\ q \in HealthCalls
    BY <1>2, <1>3 DEF HealthCalls
  <1> QED BY <1>4, <1>5, <1>6, Zenon DEF QueryPart

(* Count(name) enters the count of this moment. *)
LEMMA HealthCountAnswer ==
    ASSUME NEW C, NEW L, NEW O, NEW E, Readable(C, L, O, E), NEW q, QueryPart(q, C, O, E),
           q.pc = "counters", NEW name \in Names, NEW r,
           r = [q EXCEPT !.counters[name] = C[name]]
    PROVE  QueryPart(r, C, O, E)
  <1>1. C \in [Names -> Nat]
    BY DEF Readable
  <1>2. q \in HealthCalls /\ CountsBehind(q.counters, C) /\ AverageKnown(q.average, O)
    BY DEF QueryPart
  <1>3. PICK k : k = [q.counters EXCEPT ![name] = C[name]]
    OBVIOUS
  <1>4. r \in HealthCalls /\ r.pc = "counters" /\ r.counters = k /\ r.average = q.average
    BY <1>1, <1>2, <1>3 DEF HealthCalls
  <1>5. CountsBehind(k, C)
    BY <1>1, <1>2, <1>3 DEF CountsBehind
  <1> QED BY <1>2, <1>4, <1>5, Zenon DEF QueryPart

(* AverageLatency(name) enters a mean within a call that was observed. *)
LEMMA HealthAverageAnswer ==
    ASSUME NEW C, NEW L, NEW O, NEW E, Readable(C, L, O, E), NEW q, QueryPart(q, C, O, E),
           q.pc = "counters", NEW name \in Names, q.counters[name] > 0, NEW r,
           r = [q EXCEPT !.average[name] = L[name] \div C[name], !.todo = @ \ {name}]
    PROVE  QueryPart(r, C, O, E)
  <1>1. C \in [Names -> Nat] /\ L \in [Names -> Nat] /\ O \in Seq(Observation) /\ MeanPart(C, L, O)
    BY DEF Readable
  <1>2. q \in HealthCalls /\ CountsBehind(q.counters, C) /\ AverageKnown(q.average, O)
    BY DEF QueryPart
  <1>3. PICK c \in Nat, l \in Nat : c = C[name] /\ l = L[name]
    BY <1>1
  <1>4. c > 0
    BY <1>2, <1>3 DEF CountsBehind
  <1>5. PICK i \in DOMAIN O : O[i].took * c >= l
    BY <1>3, <1>4, <1>1, Zenon DEF MeanPart
  <1>6. PICK u \in Nat : u = O[i].took
    <2>1. O[i] \in Observation
      BY <1>1
    <2> QED BY <2>1 DEF Observation
  <1>7. PICK v \in Nat : v = l \div c /\ v <= u /\ u >= v
    <2>1. l \div c <= u /\ l \div c \in Nat
      BY <1>4, <1>5, <1>6, MeanIsBounded
    <2>2. \A v \in Nat : v <= u => u >= v
      OBVIOUS
    <2> QED BY <2>1, <2>2, Zenon
  <1>8. PICK k : k = [q.average EXCEPT ![name] = v]
    OBVIOUS
  <1>9. r = [q EXCEPT !.average[name] = v, !.todo = @ \ {name}]
    BY <1>3, <1>7, Zenon
  <1>10. r \in HealthCalls /\ r.pc = "counters" /\ r.counters = q.counters /\ r.average = k
    <2>1. ReadInto(q, r, k)
      BY <1>2, <1>8, <1>9, AverageEntered, Zenon
    <2> QED BY <2>1, ReadIntoCall, Zenon
  <1>11. q.average \in [Names -> Nat]
    BY <1>2 DEF AverageKnown
  <1>12. /\ k \in [Names -> Nat] /\ k[name] = v
         /\ \A n \in Names : n # name => k[n] = q.average[n]
    BY <1>8, <1>11
  <1>13. AverageKnown(k, O)
    <2>1. ASSUME NEW n \in Names, k[n] > 0 PROVE \E j \in DOMAIN O : O[j].took >= k[n]
      <3>1. CASE n = name
        BY <1>6, <1>7, <1>12, <3>1, Zenon
      <3>2. CASE n # name
        BY <1>2, <1>12, <2>1, <3>2, Zenon DEF AverageKnown
      <3> QED BY <3>1, <3>2
    <2> QED BY <1>12, <2>1, Zenon DEF AverageKnown
  <1> QED BY <1>2, <1>10, <1>13, Zenon DEF QueryPart

(* The failures of the event list of this moment. *)
LEMMA HealthFailuresAnswer ==
    ASSUME NEW C, NEW L, NEW O, NEW E, Readable(C, L, O, E), NEW q, QueryPart(q, C, O, E),
           q.pc = "counters", NEW r,
           r = [pc |-> "events", counters |-> q.counters, average |-> q.average,
                failures |-> Cardinality(Failures(E))]
    PROVE  QueryPart(r, C, O, E)
  <1>1. CountsBehind(q.counters, C) /\ AverageKnown(q.average, O)
    BY DEF QueryPart
  <1>2. Cardinality(Failures(E)) \in Nat /\ Cardinality(Failures(E)) <= Len(E)
    BY FailuresAmong DEF Readable
  <1>3. /\ r.pc = "events" /\ r.counters = q.counters /\ r.average = q.average
        /\ r.failures = Cardinality(Failures(E))
    OBVIOUS
  <1> QED BY <1>1, <1>2, <1>3, Zenon DEF QueryPart

(* Earlier counts lie within the later ones, laid out side by side. *)
LEMMA BehindAddUp ==
    ASSUME NEW C \in [Names -> Nat], NEW O \in Seq(Observation), SumPart(C, O),
           NEW counts, CountsBehind(counts, C)
    PROVE  AllCounted(counts) \in Nat /\ AllCounted(counts) <= Len(O)
  <1>1. AllCounted(counts) = Cardinality(Layout(counts))
    BY DEF AllCounted, Layout
  <1>2. counts \in [Names -> Nat] /\ \A n \in Names : counts[n] <= C[n]
    BY DEF CountsBehind
  <1>3. Layout(counts) \subseteq Layout(C)
    <2> SUFFICES ASSUME NEW x \in Layout(counts) PROVE x \in Layout(C)
      OBVIOUS
    <2>1. x \in Names \X (1..MaxObserved) /\ x[2] <= counts[x[1]]
      BY DEF Layout
    <2>2. PICK n \in Names, i \in 1..MaxObserved : x = <<n, i>>
      BY <2>1
    <2>3. x[1] = n /\ x[2] = i
      BY <2>2
    <2>4. PICK a \in Nat, b \in Nat : a = counts[n] /\ b = C[n] /\ a <= b
      BY <1>2
    <2>5. i <= b
      BY <2>1, <2>3, <2>4
    <2> QED BY <2>1, <2>3, <2>4, <2>5, Zenon DEF Layout
  <1>4. IsFiniteSet(Layout(C)) /\ Cardinality(Layout(C)) = Len(O)
    BY DEF SumPart
  <1> QED BY <1>1, <1>3, <1>4, FS_Subset, FS_CardinalityType

(* The length of the event list, read last, covers the failures and the counts read before. *)
LEMMA HealthEventsAnswer ==
    ASSUME NEW C, NEW L, NEW O, NEW E, Readable(C, L, O, E), NEW q, QueryPart(q, C, O, E),
           q.pc = "events", NEW r,
           r = [pc |-> "health", counters |-> q.counters, average |-> q.average,
                failures |-> q.failures, inWindow |-> Len(E)]
    PROVE  QueryPart(r, C, O, E)
  <1>1. /\ CountsBehind(q.counters, C) /\ AverageKnown(q.average, O)
        /\ q.failures \in Nat /\ q.failures <= Len(E)
    BY DEF QueryPart
  <1>2. /\ r.pc = "health" /\ r.counters = q.counters /\ r.average = q.average
        /\ r.failures = q.failures /\ r.inWindow = Len(E)
    OBVIOUS
  <1>3. /\ C \in [Names -> Nat] /\ O \in Seq(Observation) /\ E \in Seq(Observation) /\ SumPart(C, O)
        /\ E = LastOf(O, Limit)
    BY DEF Readable
  <1>4. Limit \in Nat
    BY TelemetryAssumption DEF TelemetryAssumption
  <1>5. Len(E) = IF Len(O) > Limit THEN Limit ELSE Len(O)
    BY <1>3, <1>4, LastOfIsEnd
  <1>6. AllCounted(q.counters) \in Nat /\ AllCounted(q.counters) <= Len(O)
    BY <1>1, <1>3, BehindAddUp
  <1>7. PICK a \in Nat, o \in Nat, l \in Nat : a = AllCounted(q.counters) /\ o = Len(O) /\ l = Len(E)
    BY <1>3, <1>6
  <1>8. l <= Limit /\ (l >= Limit \/ l >= a)
    BY <1>4, <1>5, <1>6, <1>7
  <1> QED BY <1>1, <1>2, <1>6, <1>7, <1>8, Zenon DEF QueryPart

(* FailureRate goes on only when there is something to divide by. *)
LEMMA RateAnswer ==
    ASSUME NEW C, NEW L, NEW O, NEW E, Readable(C, L, O, E), NEW name \in Names, NEW r,
           r = IF C[name] = 0 THEN [pc |-> "rate", failures |-> 0, of |-> 1]
               ELSE [pc |-> "rateEvents", name |-> name]
    PROVE  QueryPart(r, C, O, E)
  <1>1. C[name] \in Nat
    BY DEF Readable
  <1>2. CASE C[name] = 0
    <2>1. r.pc = "rate" /\ r.failures = 0 /\ r.of = 1
      BY <1>2
    <2>2. 1 > 0 /\ 0 <= 1
      OBVIOUS
    <2> QED BY <2>1, <2>2, Zenon DEF QueryPart
  <1>3. CASE C[name] # 0
    <2>1. r.pc = "rateEvents" /\ r.name = name
      BY <1>3
    <2>2. C[name] > 0
      BY <1>1, <1>3
    <2> QED BY <2>1, <2>2, Zenon DEF QueryPart
  <1> QED BY <1>2, <1>3

(* The failures of a name are among its count. *)
LEMMA RateFailuresAnswer ==
    ASSUME NEW C, NEW L, NEW O, NEW E, Readable(C, L, O, E), NEW q, QueryPart(q, C, O, E),
           q.pc = "rateEvents", NEW r,
           r = [pc |-> "rateCount", name |-> q.name,
                failures |-> Cardinality(FailuresOf(q.name, E))]
    PROVE  QueryPart(r, C, O, E)
  <1>1. q.name \in Names /\ C[q.name] > 0
    BY DEF QueryPart
  <1>2. /\ Cardinality(FailuresOf(q.name, E)) \in Nat
        /\ Cardinality(FailuresOf(q.name, E)) <= Cardinality(Of(q.name, O))
    BY FailuresCounted DEF Readable
  <1>3. C[q.name] = Cardinality(Of(q.name, O))
    BY <1>1, Zenon DEF Readable
  <1>4. /\ r.pc = "rateCount" /\ r.name = q.name
        /\ r.failures = Cardinality(FailuresOf(q.name, E))
    OBVIOUS
  <1> QED BY <1>1, <1>2, <1>3, <1>4, Zenon DEF QueryPart

(* The count read again is no smaller. *)
LEMMA RateCountAnswer ==
    ASSUME NEW C, NEW L, NEW O, NEW E, Readable(C, L, O, E), NEW q, QueryPart(q, C, O, E),
           q.pc = "rateCount", NEW r,
           r = [pc |-> "rate", failures |-> q.failures, of |-> C[q.name]]
    PROVE  QueryPart(r, C, O, E)
  <1>1. q.name \in Names /\ C[q.name] > 0 /\ q.failures <= C[q.name]
    BY DEF QueryPart
  <1>2. r.pc = "rate" /\ r.failures = q.failures /\ r.of = C[q.name]
    OBVIOUS
  <1> QED BY <1>1, <1>2, Zenon DEF QueryPart

(* What the invariant says of the state a reader sees. *)
LEMMA AnswersReadable ==
    ASSUME AnswersIInv
    PROVE  Readable(counters, latency, observed, events)
  <1>1. counters \in [Names -> Nat]
    <2>1. counters \in [Names -> 0..MaxObserved] /\ MaxObserved \in Nat
      BY TelemetryFacts, Zenon DEF AnswersIInv
    <2> QED BY <2>1
  <1>2. TelemetryIInv /\ MeanPart(counters, latency, observed) /\ SumPart(counters, observed)
    BY DEF AnswersIInv
  <1> QED BY <1>1, <1>2, TelemetryFacts, Zenon DEF Readable

(* The steps of the two readers. *)
LEMMA AnswersQuery ==
    ASSUME AnswersIInv,
           \/ HealthNames \/ HealthFailures \/ HealthEvents \/ RateFailures \/ RateCount
           \/ \E name \in Names : HealthCount(name) \/ HealthAverage(name) \/ FailureRate(name)
    PROVE  AnswersIInv'
  <1>1. UNCHANGED <<counters, latency, events, recent, wallClock, observed>>
    BY DEF HealthNames, HealthFailures, HealthEvents, RateFailures, RateCount,
           HealthCount, HealthAverage, FailureRate, QueryGoto
  <1>2. TelemetryIInv'
    BY <1>1, TelemetryReaders DEF AnswersIInv
  <1>3. PICK C, L, O, E, q, r : /\ C = counters /\ L = latency /\ O = observed /\ E = events
                                /\ q = query /\ r = query'
    OBVIOUS
  <1>4. Readable(C, L, O, E)
    BY <1>3, AnswersReadable, Zenon
  <1>5. QueryPart(q, C, O, E)
    BY <1>3, Zenon DEF AnswersIInv
  <1>6. QueryPart(r, C, O, E)
    <2>1. CASE HealthNames
      BY <1>3, <1>4, <2>1, HealthNamesAnswer, Zenon DEF HealthNames, QueryGoto
    <2>2. CASE HealthFailures
      BY <1>3, <1>4, <1>5, <2>2, HealthFailuresAnswer, Zenon DEF HealthFailures, QueryGoto
    <2>3. CASE HealthEvents
      BY <1>3, <1>4, <1>5, <2>3, HealthEventsAnswer, Zenon DEF HealthEvents, QueryGoto
    <2>4. CASE RateFailures
      BY <1>3, <1>4, <1>5, <2>4, RateFailuresAnswer, Zenon DEF RateFailures, QueryGoto
    <2>5. CASE RateCount
      BY <1>3, <1>4, <1>5, <2>5, RateCountAnswer, Zenon DEF RateCount, QueryGoto
    <2>6. ASSUME NEW name \in Names, HealthCount(name) PROVE QueryPart(r, C, O, E)
      <3>1. r = [q EXCEPT !.counters[name] = C[name]] /\ q.pc = "counters"
        BY <1>3, <2>6 DEF HealthCount, QueryGoto
      <3> QED BY <1>4, <1>5, <3>1, HealthCountAnswer, Zenon
    <2>7. ASSUME NEW name \in Names, HealthAverage(name) PROVE QueryPart(r, C, O, E)
      <3>1. r = [q EXCEPT !.average[name] = L[name] \div C[name], !.todo = @ \ {name}]
        BY <1>3, <2>7 DEF HealthAverage, QueryGoto
      <3>2. q.pc = "counters" /\ q.counters[name] > 0
        BY <1>3, <2>7 DEF HealthAverage
      <3> QED BY <1>4, <1>5, <3>1, <3>2, HealthAverageAnswer, Zenon
    <2>8. ASSUME NEW name \in Names, FailureRate(name) PROVE QueryPart(r, C, O, E)
      <3>1. r = IF C[name] = 0 THEN [pc |-> "rate", failures |-> 0, of |-> 1]
                ELSE [pc |-> "rateEvents", name |-> name]
        BY <1>3, <2>8 DEF FailureRate, QueryGoto
      <3> QED BY <1>4, <3>1, RateAnswer, Zenon
    <2> QED BY <2>1, <2>2, <2>3, <2>4, <2>5, <2>6, <2>7, <2>8, Zenon
  <1>7. MeanPart(C, L, O) /\ SumPart(C, O)
    BY <1>4 DEF Readable
  <1> QED BY <1>1, <1>2, <1>3, <1>6, <1>7, Zenon DEF AnswersIInv

(* What Observe does to counts, latencies and the history. *)
LEMMA ObserveChanges ==
    ASSUME TelemetryIInv, NEW name \in Names, NEW started \in ObserveTimes, NEW at \in ObserveTimes,
           NEW ok \in BOOLEAN, Observe(name, started, at, ok)
    PROVE  \E e \in Observation :
              /\ observed' = Append(observed, e)
              /\ \A n \in Names : counters'[n] = counters[n] + (IF e.name = n THEN 1 ELSE 0)
              /\ \A n \in Names : latency'[n] = latency[n] + (IF e.name = n THEN e.took ELSE 0)
              /\ counters[e.name] + 1 <= MaxObserved
  <1>1. PICK took : took = IF at < started THEN 0 ELSE at - started
    OBVIOUS
  <1>2. PICK e : e = [name |-> name, at |-> at, took |-> took, ok |-> ok]
    OBVIOUS
  <1>3. took \in Nat /\ e \in Observation
    BY <1>1, <1>2, ObservationMade, Zenon
  <1>4. e.name = name /\ e.took = took
    BY <1>2
  <1>5. /\ Len(observed) < MaxObserved
        /\ counters' = [counters EXCEPT ![name] = @ + 1]
        /\ latency' = [latency EXCEPT ![name] = @ + took]
        /\ observed' = Append(observed, e)
    BY <1>1, <1>2, Zenon DEF Observe
  <1>6. PICK O \in Seq(Observation), C \in [Names -> 0..MaxObserved], L \in [Names -> Nat] :
          O = observed /\ C = counters /\ L = latency
    BY TelemetryFacts, Zenon
  <1>7. MaxObserved \in Nat /\ C[name] = Cardinality(Of(name, O))
    BY <1>6, TelemetryFacts, Zenon
  <1>8. Cardinality(Of(name, O)) <= Len(O) /\ Cardinality(Of(name, O)) \in Nat
    BY <1>3, OfAppend
  <1>9. C[name] + 1 <= MaxObserved
    BY <1>5, <1>6, <1>7, <1>8
  <1>10. PICK C1, L1 : C1 = counters' /\ L1 = latency'
    OBVIOUS
  <1>11. C1 = [C EXCEPT ![name] = C[name] + 1] /\ L1 = [L EXCEPT ![name] = L[name] + took]
    BY <1>5, <1>6, <1>10
  <1>12. /\ \A n \in Names : C1[n] = C[n] + (IF name = n THEN 1 ELSE 0)
         /\ \A n \in Names : L1[n] = L[n] + (IF name = n THEN took ELSE 0)
    BY <1>3, <1>11
  <1> QED BY <1>3, <1>4, <1>5, <1>6, <1>9, <1>10, <1>12, Zenon

(* An observation between any two reads. *)
LEMMA AnswersObserve ==
    ASSUME AnswersIInv, NEW name \in Names, NEW started \in ObserveTimes, NEW at \in ObserveTimes,
           NEW ok \in BOOLEAN, Observe(name, started, at, ok)
    PROVE  AnswersIInv'
  <1>1. TelemetryIInv /\ TelemetryIInv'
    BY TelemetryObserve, Zenon DEF AnswersIInv
  <1>2. PICK e \in Observation :
              /\ observed' = Append(observed, e)
              /\ \A n \in Names : counters'[n] = counters[n] + (IF e.name = n THEN 1 ELSE 0)
              /\ \A n \in Names : latency'[n] = latency[n] + (IF e.name = n THEN e.took ELSE 0)
              /\ counters[e.name] + 1 <= MaxObserved
    BY <1>1, ObserveChanges, Zenon
  <1>3. PICK C, L, O, E, q : C = counters /\ L = latency /\ O = observed /\ E = events /\ q = query
    OBVIOUS
  <1>4. PICK C1, L1, O1, E1 : C1 = counters' /\ L1 = latency' /\ O1 = observed' /\ E1 = events'
    OBVIOUS
  <1>5. Readable(C, L, O, E)
    BY <1>3, AnswersReadable, Zenon
  <1>6. /\ C \in [Names -> Nat] /\ L \in [Names -> Nat]
        /\ O \in Seq(Observation) /\ E \in Seq(Observation) /\ E = LastOf(O, Limit)
        /\ MeanPart(C, L, O) /\ SumPart(C, O)
    BY <1>5 DEF Readable
  <1>7. /\ O1 = Append(O, e) /\ C[e.name] + 1 <= MaxObserved
        /\ \A n \in Names : C1[n] = C[n] + (IF e.name = n THEN 1 ELSE 0)
        /\ \A n \in Names : L1[n] = L[n] + (IF e.name = n THEN e.took ELSE 0)
    BY <1>2, <1>3, <1>4, Zenon
  <1>8. /\ C1 \in [Names -> 0..MaxObserved] /\ E1 \in Seq(Observation) /\ E1 = LastOf(O1, Limit)
        /\ O1 \in Seq(Observation)
    BY <1>1, <1>4, Zenon DEF TelemetryIInv, TelemetryInv, TelemetryTypeOK
  <1>9. Limit \in Nat /\ MaxObserved \in Nat
    BY TelemetryAssumption DEF TelemetryAssumption
  <1>10. C1 \in [Names -> Nat] /\ \A n \in Names : C[n] <= C1[n]
    <2>1. C1 \in [Names -> Nat]
      BY <1>8, <1>9
    <2>2. ASSUME NEW n \in Names PROVE C[n] <= C1[n]
      <3>1. C[n] \in Nat /\ C1[n] = C[n] + (IF e.name = n THEN 1 ELSE 0)
        BY <1>6, <1>7
      <3> QED BY <3>1
    <2> QED BY <2>1, <2>2
  <1>11. MeanPart(C1, L1, O1)
    BY <1>6, <1>7, MeanObserve, Zenon
  <1>12. SumPart(C1, O1)
    BY <1>6, <1>7, SumObserve, Zenon
  <1>13. /\ Len(O1) = Len(O) + 1
         /\ \A i \in DOMAIN O : i \in DOMAIN O1 /\ O1[i] = O[i]
    BY <1>6, <1>7, AppendProperties
  <1>14. Len(E) \in Nat /\ Len(E1) \in Nat /\ Len(E) <= Len(E1)
    <2>1. /\ Len(E) = IF Len(O) > Limit THEN Limit ELSE Len(O)
          /\ Len(E1) = IF Len(O1) > Limit THEN Limit ELSE Len(O1)
      BY <1>6, <1>8, <1>9, LastOfIsEnd
    <2>2. Len(O) \in Nat
      BY <1>6
    <2> QED BY <1>9, <1>13, <2>1, <2>2
  <1>15. QueryPart(q, C, O, E)
    BY <1>3, Zenon DEF AnswersIInv
  <1>16. QueryPart(q, C1, O1, E1)
    BY <1>6, <1>10, <1>13, <1>14, <1>15, QueryObserve
  <1>17. query' = q
    BY <1>3 DEF Observe
  <1> QED BY <1>1, <1>4, <1>11, <1>12, <1>16, <1>17, Zenon DEF AnswersIInv

(* Steps of the window and its clock, which no reader looks at. *)
LEMMA AnswersOthers ==
    ASSUME AnswersIInv, TelemetryIInv',
           UNCHANGED <<counters, latency, events, observed, query>>
    PROVE  AnswersIInv'
  BY Zenon DEF AnswersIInv

(* Every step. *)
LEMMA AnswersStep ==
    ASSUME AnswersIInv, [TelemetryNext]_teleVars
    PROVE  AnswersIInv'
  <1>0. TelemetryIInv'
    BY TelemetryIInvStep, Zenon DEF AnswersIInv
  <1>1. ASSUME NEW name \in Names, NEW started \in ObserveTimes, NEW at \in ObserveTimes,
               NEW ok \in BOOLEAN, Observe(name, started, at, ok)
        PROVE  AnswersIInv'
    BY <1>1, AnswersObserve, Zenon
  <1>2. CASE ReadWindow \/ AdvanceWallClock \/ UNCHANGED teleVars
    BY <1>0, <1>2, AnswersOthers DEF ReadWindow, AdvanceWallClock, teleVars
  <1>3. CASE \/ HealthNames \/ HealthFailures \/ HealthEvents \/ RateFailures \/ RateCount
             \/ \E name \in Names : HealthCount(name) \/ HealthAverage(name) \/ FailureRate(name)
    BY <1>3, AnswersQuery, Zenon
  <1> QED BY <1>1, <1>2, <1>3, Zenon DEF TelemetryNext

(* Nobody has asked yet. *)
LEMMA AnswersInit == TelemetryInit => AnswersIInv
  <1> SUFFICES ASSUME TelemetryInit PROVE AnswersIInv
    OBVIOUS
  <1>1. TelemetryIInv
    BY TelemetryIInvInit
  <1>2. /\ \A n \in Names : counters[n] = 0 /\ latency[n] = 0
        /\ observed = <<>> /\ query.pc = "idle"
    BY DEF TelemetryInit, NoQuery
  <1>3. MeanPart(counters, latency, observed)
    BY <1>2 DEF MeanPart
  <1>4. Layout(counters) = {}
    BY <1>2 DEF Layout
  <1>5. SumPart(counters, observed)
    <2>1. Len(observed) = 0
      BY <1>2
    <2> QED BY <1>4, <2>1, FS_EmptySet DEF SumPart
  <1>6. QueryPart(query, counters, observed, events)
    BY <1>2, Zenon DEF QueryPart
  <1> QED BY <1>1, <1>3, <1>5, <1>6 DEF AnswersIInv

(* The invariant says of a finished answer what AnswersAddUp says. *)
LEMMA AnswersFollow == AnswersIInv => AnswersAddUp
  <1> SUFFICES ASSUME AnswersIInv PROVE AnswersAddUp
    OBVIOUS
  <1>1. QueryPart(query, counters, observed, events)
    BY DEF AnswersIInv
  <1>2. ASSUME query.pc = "health"
        PROVE  /\ query.failures <= query.inWindow
               /\ query.inWindow <= Limit
               /\ query.inWindow >= IF AllCounted(query.counters) < Limit
                                    THEN AllCounted(query.counters) ELSE Limit
               /\ \A n \in Names : query.average[n] > 0 =>
                     \E i \in DOMAIN observed : observed[i].took >= query.average[n]
    <2>1. /\ AverageKnown(query.average, observed)
          /\ query.failures \in Nat /\ query.inWindow \in Nat /\ AllCounted(query.counters) \in Nat
          /\ query.failures <= query.inWindow /\ query.inWindow <= Limit
          /\ query.inWindow >= Limit \/ query.inWindow >= AllCounted(query.counters)
      BY <1>1, <1>2 DEF QueryPart
    <2>2. PICK a \in Nat, w \in Nat : a = AllCounted(query.counters) /\ w = query.inWindow
      BY <2>1
    <2>3. Limit \in Nat
      BY TelemetryAssumption DEF TelemetryAssumption
    <2>4. w >= IF a < Limit THEN a ELSE Limit
      BY <2>1, <2>2, <2>3
    <2> QED BY <2>1, <2>2, <2>4, Zenon DEF AverageKnown
  <1>3. query.pc = "rate" => query.of > 0 /\ query.failures <= query.of
    BY <1>1 DEF QueryPart
  <1> QED BY <1>2, <1>3, Zenon DEF AnswersAddUp

(* HealthSnapshot and FailureRate, which read under a lock each and let observations in
   between, still answer with failures that were counted, counts that the events account
   for, averages within a call that was observed, and a fraction of at most one. *)
THEOREM AnswersAlwaysAddUp == TelemetrySpec => []AnswersAddUp
  BY AnswersInit, AnswersStep, AnswersFollow, PTL DEF TelemetrySpec
==============================================================================
