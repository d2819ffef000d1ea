------------------------------ MODULE Watermark ------------------------------
(***************************************************************************)
(* internal/watermark/ledger.go under Service.AdvanceWatermark.            *)
(*                                                                         *)
(* Advance runs under Ledger.mu.  The same-generation fast path calls Set, *)
(* which takes no lock: its read and its two writes are steps of their own *)
(* that interleave with each other and with an Advance in progress.  Go    *)
(* makes such access a data race; a runtime that notices may also abort    *)
(* the process, which here is a behaviour that takes no further step.  The *)
(* slice ordered is written and never read.                                *)
(***************************************************************************)
EXTENDS Integers

CONSTANTS Reporters,           \* goroutines
          Subscribers,
          Offsets,             \* offsets callers report
          ReportGenerations,   \* generations callers report
          NoReporter,          \* nobody holds the lock
          SerialCallers        \* does a call end before the next begins?

ASSUME WatermarkAssumption ==
    /\ Offsets \subseteq Nat /\ ReportGenerations \subseteq Nat
    /\ NoReporter \notin Reporters
    /\ SerialCallers \in BOOLEAN

VARIABLES offsets,      \* subscriber -> offset, -1 if it is not in the map
          generations,  \* subscriber -> generation, 0 if it is not in the map
          mu,           \* the goroutine inside Ledger.mu
          report        \* goroutine -> the call of AdvanceWatermark it is in

wmVars == <<offsets, generations, mu, report>>

NoReport == [pc |-> "idle"]

Report ==
    {NoReport} \union [pc: {"set", "advance", "offset", "generation"},
                       sub: Subscribers, offset: Offsets, gen: ReportGenerations]

WatermarkTypeOK ==
    /\ offsets \in [Subscribers -> Offsets \union {-1}]
    /\ generations \in [Subscribers -> ReportGenerations \union {0}]
    /\ mu \in Reporters \union {NoReporter}
    /\ report \in [Reporters -> Report]

WatermarkInit ==
    /\ offsets = [s \in Subscribers |-> -1]
    /\ generations = [s \in Subscribers |-> 0]
    /\ mu = NoReporter
    /\ report = [t \in Reporters |-> NoReport]

ReportAt(t, pc) == report[t].pc = pc

ReportGoto(t, pc) == report' = [report EXCEPT ![t].pc = pc]

ReportReturn(t) == report' = [report EXCEPT ![t] = NoReport]

(* The current generation is read under the lock and the path chosen by it. *)
AdvanceWatermark(t, s, offset, gen) ==
    /\ ReportAt(t, "idle")
    /\ SerialCallers => \A u \in Reporters : ReportAt(u, "idle")
    /\ mu = NoReporter
    /\ report' = [report EXCEPT ![t] =
          [pc |-> IF generations[s] = gen THEN "set" ELSE "advance",
           sub |-> s, offset |-> offset, gen |-> gen]]
    /\ UNCHANGED <<offsets, generations, mu>>

(* A mutant of StaleOffset: equal offsets are stale, older ones are not. *)
StaleOffsetEqual(c) == c.offset = offsets[c.sub]

(* ErrStaleOffset: exists && offset < current. *)
StaleOffset(c) == c.offset < offsets[c.sub]

(* A mutant of StaleGeneration: it is never stale. *)
StaleGenerationNever(c) == c.gen < 0

(* ErrStaleGeneration: exists && generation < current. *)
StaleGeneration(c) == offsets[c.sub] # -1 /\ c.gen < generations[c.sub]

(* Set, up to its first write. *)
SetCheck(t) ==
    /\ ReportAt(t, "set")
    /\ IF StaleOffset(report[t]) THEN ReportReturn(t) ELSE ReportGoto(t, "offset")
    /\ UNCHANGED <<offsets, generations, mu>>

(* Advance, up to its first write; it keeps the lock if it goes on. *)
AdvanceCheck(t) ==
    /\ ReportAt(t, "advance")
    /\ mu = NoReporter
    /\ IF StaleOffset(report[t]) \/ StaleGeneration(report[t])
       THEN ReportReturn(t) /\ UNCHANGED mu
       ELSE ReportGoto(t, "offset") /\ mu' = t
    /\ UNCHANGED <<offsets, generations>>

WriteOffset(t) ==
    /\ ReportAt(t, "offset")
    /\ offsets' = [offsets EXCEPT ![report[t].sub] = report[t].offset]
    /\ ReportGoto(t, "generation")
    /\ UNCHANGED <<generations, mu>>

WriteGeneration(t) ==
    /\ ReportAt(t, "generation")
    /\ generations' = [generations EXCEPT ![report[t].sub] = report[t].gen]
    /\ mu' = IF mu = t THEN NoReporter ELSE mu
    /\ ReportReturn(t)
    /\ UNCHANGED offsets

WatermarkNext ==
    \/ \E t \in Reporters, s \in Subscribers, offset \in Offsets, gen \in ReportGenerations :
          AdvanceWatermark(t, s, offset, gen)
    \/ \E t \in Reporters : SetCheck(t) \/ AdvanceCheck(t) \/ WriteOffset(t) \/ WriteGeneration(t)

WatermarkSpec == WatermarkInit /\ [][WatermarkNext]_wmVars

------------------------------------------------------------------------------
(* Properties.                                                              *)

(* The promise of the Ledger: a newer watermark is never regressed, neither
   its offset nor its generation.  It is kept over any sequence of fast-path
   and locked calls that do not overlap and broken by the unlocked fast path
   when they do. *)
WatermarkNeverRegresses ==
    [][\A s \in Subscribers :
          offsets'[s] >= offsets[s] /\ generations'[s] >= generations[s]]_wmVars

(* The inductive invariant: whoever holds the lock is writing, a generation is
   written to a subscriber that has an offset, and, when calls do not overlap,
   what a call has checked is still true when it writes. *)
WatermarkInv ==
    /\ WatermarkTypeOK
    /\ \A t \in Reporters : mu = t => report[t].pc \in {"offset", "generation"}
    /\ SerialCallers =>
          /\ \A t, u \in Reporters : ~ReportAt(t, "idle") /\ ~ReportAt(u, "idle") => t = u
          /\ \A t \in Reporters :
                /\ ReportAt(t, "set") => report[t].gen = generations[report[t].sub]
                /\ ReportAt(t, "offset") => report[t].offset >= offsets[report[t].sub]
                /\ report[t].pc \in {"offset", "generation"} =>
                      report[t].gen >= generations[report[t].sub]
    /\ \A t \in Reporters : ReportAt(t, "generation") => offsets[report[t].sub] # -1
    /\ \A s \in Subscribers : offsets[s] = -1 => generations[s] = 0
=============================================================================
