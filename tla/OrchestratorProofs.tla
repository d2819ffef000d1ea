------------------------- MODULE OrchestratorProofs -------------------------
(***************************************************************************)
(* The two calls that must finish what they start, for any number of       *)
(* goroutines, policies, runs and snapshots: scheduled runs, and the       *)
(* checkpoint of a manifest.                                               *)
(***************************************************************************)
EXTENDS Orchestrator, Materialize, FiniteSetTheorems, SequenceTheorems,
        WellFoundedInduction, TLAPS

(* A set of positions has a least one. *)
LEMMA LeastPosition ==
    ASSUME NEW T, T \subseteq Nat, T # {}
    PROVE  \E i \in T : \A j \in T : i <= j
  <1>1. PICK i \in T : \A j \in T : ~(<<j, i>> \in OpToRel(<, Nat))
    BY WFMin, NatLessThanWellFounded
  <1>2. \A j \in T : ~(j < i)
    BY <1>1 DEF OpToRel
  <1> QED BY <1>2

(* A prune leaves a suffix of the outcomes. *)
LEMMA PrunedIsSeq ==
    ASSUME NEW S, NEW seq \in Seq(S), NEW time, NEW length
    PROVE  Pruned(seq, time, length) \in Seq(S)
  <1> DEFINE recent == {i \in DOMAIN seq : seq[i].at >= time - length}
             first == CHOOSE i \in recent : \A j \in recent : i <= j
  <1>1. recent \subseteq 1..Len(seq) /\ Len(seq) \in Nat
    OBVIOUS
  <1>2. CASE recent = {}
    BY <1>2 DEF Pruned
  <1>3. CASE recent # {}
    <2>1. \E i \in recent : \A j \in recent : i <= j
      <3>1. recent \subseteq Nat
        BY <1>1
      <3> HIDE DEF recent
      <3> QED BY <1>3, <3>1, LeastPosition
    <2>2. first \in recent
      BY <2>1
    <2>3. first \in 1..Len(seq)
      BY <1>1, <2>2
    <2>4. SubSeq(seq, first, Len(seq)) \in Seq(S)
      <3> HIDE DEF first, recent
      <3>1. \A i \in first..Len(seq) : seq[i] \in S
        BY <2>3
      <3> QED BY <1>1, <2>3, <3>1, SubSeqProperties
    <2> QED BY <1>3, <2>4 DEF Pruned
  <1> QED BY <1>2, <1>3

------------------------------------------------------------------------------
(* Scheduled runs.                                                          *)

(* What the record of a call in progress holds. *)
LEMMA RunningCall ==
    ASSUME OrchestratorTypeOK, NEW t \in Threads,
           call[t].pc \in Running \union {"outcome"}
    PROVE  /\ call[t] \in [pc: Running \union {"outcome"}, run: Ids, ok: BOOLEAN, at: Nat]
           /\ call[t].run \in Ids /\ call[t].at \in Nat
  <1>1. call[t] \in Call
    BY DEF OrchestratorTypeOK
  <1>2. call[t] # Idle /\ call[t] \notin [pc: {"allows", "start"}, policy: Policy]
    BY DEF Idle, Running
  <1> QED BY <1>1, <1>2 DEF Call

LEMMA PolicyCall ==
    ASSUME OrchestratorTypeOK, NEW t \in Threads, call[t].pc \in {"allows", "start"}
    PROVE  /\ call[t] \in [pc: {"allows", "start"}, policy: Policy]
           /\ call[t].policy.id \in Policies
  <1>1. call[t] \in Call
    BY DEF OrchestratorTypeOK
  <1>2. call[t] # Idle
        /\ call[t] \notin [pc: Running \union {"outcome"}, run: Ids, ok: BOOLEAN, at: Nat]
    BY DEF Idle, Running
  <1>3. call[t] \in [pc: {"allows", "start"}, policy: Policy]
    BY <1>1, <1>2 DEF Call
  <1> QED BY <1>3 DEF Policy

(* A goroutine inside a run goes on to the next step of it. *)
LEMMA GoesOn ==
    ASSUME OrchestratorTypeOK, NEW t \in Threads, call[t].pc \in Running,
           NEW pc \in Running \union {"outcome"}, Goto(t, pc)
    PROVE  /\ call' \in [Threads -> Call]
           /\ call'[t].pc = pc /\ call'[t].run = call[t].run
           /\ call'[t].ok = call[t].ok /\ call'[t].at = call[t].at
           /\ \A u \in Threads \ {t} : call'[u] = call[u]
  <1> DEFINE c == [pc |-> pc, run |-> call[t].run, ok |-> call[t].ok, at |-> call[t].at]
  <1>1. call[t] \in [pc: Running \union {"outcome"}, run: Ids, ok: BOOLEAN, at: Nat]
    BY RunningCall
  <1>2. [call[t] EXCEPT !.pc = pc] = c
    BY <1>1
  <1>3. c \in [pc: Running \union {"outcome"}, run: Ids, ok: BOOLEAN, at: Nat]
    BY <1>1
  <1>4. c \in Call
    BY <1>3 DEF Call
  <1>5. call' = [call EXCEPT ![t] = c]
    BY <1>2 DEF Goto, OrchestratorTypeOK
  <1>6. c.pc = pc /\ c.run = call[t].run /\ c.ok = call[t].ok /\ c.at = call[t].at
    OBVIOUS
  <1> HIDE DEF c
  <1>7. call'[t] = c
    BY <1>5 DEF OrchestratorTypeOK
  <1> QED BY <1>4, <1>5, <1>6, <1>7 DEF OrchestratorTypeOK

LEMMA OrchestratorInvInit == OrchestratorInit => OrchestratorInv
  <1> SUFFICES ASSUME OrchestratorInit PROVE OrchestratorInv OBVIOUS
  <1>1. OrchestratorTypeOK
    <2>1. closed \in BOOLEAN
      BY Zenon DEF OrchestratorInit, JournalInit
    <2> QED BY <2>1 DEF OrchestratorInit, JournalInit, OrchestratorTypeOK, Call
  <1>2. DOMAIN runs = {} /\ DOMAIN entries = {}
    BY DEF OrchestratorInit, JournalInit
  <1>3. ActiveIsUnfinished
    <2>1. \A p \in Policies : Unfinished(p) = {}
      BY <1>2 DEF Unfinished
    <2> QED BY <2>1, FS_EmptySet DEF OrchestratorInit, ActiveIsUnfinished
  <1>4. RunsAreOwned
    BY DEF OrchestratorInit, RunsAreOwned, Idle, Running
  <1>5. \A t \in Threads : ~At(t, "outcome")
    BY DEF OrchestratorInit, At, Idle
  <1> QED BY <1>1, <1>2, <1>3, <1>4, <1>5 DEF OrchestratorInit, OrchestratorInv, SucceededIsJournaled

(* A step outside of any run. *)
LEMMA AsideKeeps ==
    ASSUME OrchestratorInv, OrchestratorTypeOK', UNCHANGED <<runs, active, audit, entries>>,
           \A u \in Threads : \/ call'[u] = call[u]
                              \/ /\ call[u].pc \notin Running /\ call'[u].pc \notin Running
                                 /\ call'[u].pc # "outcome"
    PROVE  OrchestratorInv'
  <1>1. \A u \in Threads : /\ call'[u].pc \in Running <=> call[u].pc \in Running
                           /\ call[u].pc \in Running => call'[u] = call[u]
    OBVIOUS
  <1>2. \A p : Unfinished(p)' = Unfinished(p)
    BY DEF Unfinished
  <1>3. \A p, i : Logged("orchestration-run", p, i)' <=> Logged("orchestration-run", p, i)
    BY DEF Logged
  <1>4. ActiveIsUnfinished'
    BY <1>1, <1>2 DEF OrchestratorInv, ActiveIsUnfinished
  <1>5. SucceededIsJournaled'
    BY <1>3 DEF OrchestratorInv, SucceededIsJournaled
  <1>6. RunsAreOwned'
    BY <1>1, <1>3 DEF OrchestratorInv, RunsAreOwned, At
  <1>7. \A u \in Threads : At(u, "outcome")' => call'[u].run \in DOMAIN runs'
    BY DEF OrchestratorInv, At
  <1> QED BY <1>4, <1>5, <1>6, <1>7 DEF OrchestratorInv

(* What the journal and the audit ledger hold of the run of t, at its step. *)
Recorded(t) ==
    LET c == call[t]
        logged == Logged("orchestration-run", runs[c.run].policy, c.run)
    IN  /\ c.pc = "journal" => ~logged /\ ~c.ok /\ c.run \notin audit
        /\ c.pc = "audit" => logged /\ ~c.ok /\ c.run \notin audit
        /\ c.pc \in {"clock", "finish"} => (c.ok <=> logged) /\ (c.ok <=> c.run \in audit)

LEMMA OwnedRun ==
    ASSUME OrchestratorInv, NEW t \in Threads, call[t].pc \in Running
    PROVE  /\ call[t].run \in DOMAIN runs /\ ~runs[call[t].run].finished
           /\ \A u \in Threads \ {t} : call[u].pc \in Running => call[u].run # call[t].run
           /\ Recorded(t)
  BY DEF OrchestratorInv, RunsAreOwned, Recorded, At

(* A step of one run that leaves the runbook alone. *)
LEMMA RunStepKeeps ==
    ASSUME OrchestratorInv, OrchestratorTypeOK', NEW t \in Threads,
           call[t].pc \in Running, call'[t].pc \in Running, call'[t].run = call[t].run,
           \A u \in Threads \ {t} : call'[u] = call[u],
           UNCHANGED <<runs, active>>,
           \A p, i : i # call[t].run =>
              (Logged("orchestration-run", p, i)' <=> Logged("orchestration-run", p, i)),
           \A i : i # call[t].run => (i \in audit' <=> i \in audit),
           audit' \subseteq DOMAIN runs,
           \A i \in DOMAIN entries' : entries'[i].op \in DOMAIN runs,
           Recorded(t)'
    PROVE  OrchestratorInv'
  <1>1. \A u \in Threads : /\ call'[u].pc \in Running <=> call[u].pc \in Running
                           /\ call'[u].run = call[u].run
    OBVIOUS
  <1>2. \A p : Unfinished(p)' = Unfinished(p)
    BY DEF Unfinished
  <1>3. ActiveIsUnfinished'
    BY <1>1, <1>2 DEF OrchestratorInv, ActiveIsUnfinished
  <1>4. \A i \in DOMAIN runs : runs[i].finished => i # call[t].run
    BY OwnedRun
  <1>5. SucceededIsJournaled'
    BY <1>4 DEF OrchestratorInv, SucceededIsJournaled
  <1>6. ASSUME NEW u \in Threads, call'[u].pc \in Running
        PROVE  /\ call'[u].run \in DOMAIN runs' /\ ~runs'[call'[u].run].finished
               /\ \A v \in Threads \ {u} : call'[v].pc \in Running => call'[v].run # call'[u].run
               /\ Recorded(u)'
    <2>1. call[u].pc \in Running
      BY <1>1, <1>6
    <2>2. Recorded(u)'
      <3>1. CASE u = t
        BY <3>1
      <3>2. CASE u # t
        <4>1. Recorded(u) /\ call'[u] = call[u] /\ call[u].run # call[t].run
          BY <2>1, <3>2, OwnedRun
        <4> QED BY <4>1 DEF Recorded
      <3> QED BY <3>1, <3>2
    <2> QED BY <1>1, <2>1, <2>2, OwnedRun
  <1>7. RunsAreOwned'
    BY <1>6 DEF RunsAreOwned, Recorded, At
  <1>8. \A u \in Threads : At(u, "outcome")' => call'[u].run \in DOMAIN runs'
    BY DEF OrchestratorInv, At, Running
  <1> QED BY <1>3, <1>5, <1>7, <1>8 DEF OrchestratorInv

(* The journal after Append. *)
LEMMA EntryAppended ==
    ASSUME OrchestratorTypeOK, NEW p \in Policies, NEW r \in Ids,
           AppendEntry([kind |-> "orchestration-run", snap |-> p, op |-> r])
    PROVE  /\ entries' \in Seq(RunEntry)
           /\ \A i \in DOMAIN entries' : entries'[i].op = r \/ \E j \in DOMAIN entries : entries'[i] = entries[j]
           /\ Logged("orchestration-run", p, r)'
           /\ \A q, i : i # r =>
                (Logged("orchestration-run", q, i)' <=> Logged("orchestration-run", q, i))
  <1> DEFINE e == [kind |-> "orchestration-run", snap |-> p, op |-> r]
             n == Len(entries)
  <1>1. e \in RunEntry /\ e.kind = "orchestration-run" /\ e.snap = p /\ e.op = r
    BY DEF RunEntry
  <1>2. entries \in Seq(RunEntry) /\ entries' = Append(entries, e)
    BY DEF OrchestratorTypeOK, AppendEntry
  <1> HIDE DEF e
  <1>3. /\ entries' \in Seq(RunEntry)
        /\ n \in Nat /\ DOMAIN entries = 1..n /\ DOMAIN entries' = 1..(n + 1)
        /\ entries'[n + 1] = e
        /\ \A i \in 1..n : entries'[i] = entries[i]
    BY <1>1, <1>2
  <1> HIDE DEF n
  <1>4. \A i \in DOMAIN entries' : i = n + 1 \/ (i \in DOMAIN entries /\ entries'[i] = entries[i])
    BY <1>3
  <1>5. n + 1 \in DOMAIN entries' /\ \A i \in DOMAIN entries : i \in DOMAIN entries'
    BY <1>3
  <1> QED BY <1>1, <1>3, <1>4, <1>5 DEF Logged

LEMMA JournalRunKeeps ==
    ASSUME OrchestratorInv, NEW t \in Threads, JournalRun(t)
    PROVE  OrchestratorInv'
  <1>0. OrchestratorTypeOK /\ call[t].pc \in Running /\ call[t].pc = "journal"
    BY DEF OrchestratorInv, JournalRun, At, Running
  <1>1. UNCHANGED <<now, policies, highest, runs, active, last, items, audit>>
    BY DEF JournalRun
  <1>2. /\ call[t].run \in DOMAIN runs /\ call[t].run \in Ids
        /\ Recorded(t)
        /\ runs[call[t].run].policy \in Policies
    <2>1. call[t].run \in DOMAIN runs /\ call[t].run \in Ids /\ Recorded(t)
      BY <1>0, OwnedRun, RunningCall
    <2>2. runs[call[t].run] \in Run
      BY <1>0, <2>1 DEF OrchestratorTypeOK
    <2> QED BY <2>1, <2>2 DEF Run
  <1>3. CASE /\ AppendEntry([kind |-> "orchestration-run", snap |-> runs[call[t].run].policy,
                             op |-> call[t].run])
             /\ Goto(t, "audit")
    <2>1. /\ call' \in [Threads -> Call]
          /\ call'[t].pc = "audit" /\ call'[t].run = call[t].run /\ call'[t].ok = call[t].ok
          /\ \A u \in Threads \ {t} : call'[u] = call[u]
      BY <1>0, <1>3, GoesOn DEF Running
    <2>2. /\ entries' \in Seq(RunEntry)
          /\ \A i \in DOMAIN entries' :
                entries'[i].op = call[t].run \/ \E j \in DOMAIN entries : entries'[i] = entries[j]
          /\ Logged("orchestration-run", runs[call[t].run].policy, call[t].run)'
          /\ \A q, i : i # call[t].run =>
                (Logged("orchestration-run", q, i)' <=> Logged("orchestration-run", q, i))
      BY <1>0, <1>1, <1>2, <1>3, <2>1, EntryAppended
    <2>3. OrchestratorTypeOK'
      BY <1>0, <1>1, <1>3, <2>1, <2>2 DEF OrchestratorTypeOK, AppendEntry
    <2>4. Recorded(t)'
      BY <1>0, <1>1, <1>2, <2>1, <2>2 DEF Recorded
    <2>5. \A i \in DOMAIN entries' : entries'[i].op \in DOMAIN runs
      BY <1>2, <2>2 DEF OrchestratorInv
    <2>6. audit' \subseteq DOMAIN runs
      BY <1>1 DEF OrchestratorInv
    <2> QED BY <1>0, <1>1, <2>1, <2>2, <2>3, <2>4, <2>5, <2>6, RunStepKeeps DEF Running
  <1>4. CASE Goto(t, "clock") /\ UNCHANGED <<entries, closed>>
    <2>1. /\ call' \in [Threads -> Call]
          /\ call'[t].pc = "clock" /\ call'[t].run = call[t].run /\ call'[t].ok = call[t].ok
          /\ \A u \in Threads \ {t} : call'[u] = call[u]
      BY <1>0, <1>4, GoesOn DEF Running
    <2>2. OrchestratorTypeOK'
      BY <1>0, <1>1, <1>4, <2>1 DEF OrchestratorTypeOK
    <2>3. \A q, i : Logged("orchestration-run", q, i)' <=> Logged("orchestration-run", q, i)
      BY <1>4 DEF Logged
    <2>4. Recorded(t)'
      BY <1>0, <1>1, <1>2, <2>1, <2>3 DEF Recorded
    <2>5. audit' \subseteq DOMAIN runs /\ \A i \in DOMAIN entries' : entries'[i].op \in DOMAIN runs
      BY <1>1, <1>4 DEF OrchestratorInv
    <2> QED BY <1>0, <1>1, <2>1, <2>2, <2>3, <2>4, <2>5, RunStepKeeps DEF Running
  <1> QED BY <1>3, <1>4 DEF JournalRun

LEMMA RecordAuditKeeps ==
    ASSUME OrchestratorInv, NEW t \in Threads, RecordAudit(t)
    PROVE  OrchestratorInv'
  <1>0. OrchestratorTypeOK /\ call[t].pc \in Running /\ call[t].pc = "audit"
    BY DEF OrchestratorInv, RecordAudit, At, Running
  <1>1. /\ UNCHANGED <<now, policies, highest, runs, active, last, items, entries, closed>>
        /\ audit' = audit \union {call[t].run}
    BY DEF RecordAudit
  <1>2. call[t].run \in DOMAIN runs /\ call[t].run \in Ids /\ Recorded(t)
    BY <1>0, OwnedRun, RunningCall
  <1>3. /\ call' \in [Threads -> Call]
        /\ call'[t].pc = "clock" /\ call'[t].run = call[t].run /\ call'[t].ok
        /\ \A u \in Threads \ {t} : call'[u] = call[u]
    <2> DEFINE c == [pc |-> "clock", run |-> call[t].run, ok |-> TRUE, at |-> call[t].at]
    <2>1. call[t] \in [pc: Running \union {"outcome"}, run: Ids, ok: BOOLEAN, at: Nat]
      BY <1>0, RunningCall
    <2>3. c \in [pc: Running \union {"outcome"}, run: Ids, ok: BOOLEAN, at: Nat]
      BY <2>1 DEF Running
    <2>4. c \in Call
      BY <2>3 DEF Call
    <2>5. call' = [call EXCEPT ![t] = c]
      BY <1>0 DEF RecordAudit, OrchestratorTypeOK
    <2>6. c.pc = "clock" /\ c.run = call[t].run /\ c.ok
      OBVIOUS
    <2> HIDE DEF c
    <2>7. call'[t] = c
      BY <1>0, <2>5 DEF OrchestratorTypeOK
    <2> QED BY <1>0, <2>4, <2>5, <2>6, <2>7 DEF OrchestratorTypeOK
  <1>4. OrchestratorTypeOK'
    BY <1>0, <1>1, <1>2, <1>3 DEF OrchestratorTypeOK
  <1>5. \A q, i : Logged("orchestration-run", q, i)' <=> Logged("orchestration-run", q, i)
    BY <1>1 DEF Logged
  <1>6. Recorded(t)'
    BY <1>0, <1>1, <1>2, <1>3, <1>5 DEF Recorded
  <1>7. audit' \subseteq DOMAIN runs /\ \A i \in DOMAIN entries' : entries'[i].op \in DOMAIN runs
    BY <1>1, <1>2 DEF OrchestratorInv
  <1>8. \A i : i # call[t].run => (i \in audit' <=> i \in audit)
    BY <1>1
  <1> QED BY <1>0, <1>1, <1>3, <1>4, <1>5, <1>6, <1>7, <1>8, RunStepKeeps DEF Running

LEMMA ReadClockKeeps ==
    ASSUME OrchestratorInv, NEW t \in Threads, ReadClock(t)
    PROVE  OrchestratorInv'
  <1>0. OrchestratorTypeOK /\ call[t].pc \in Running /\ call[t].pc = "clock"
    BY DEF OrchestratorInv, ReadClock, At, Running
  <1>1. UNCHANGED <<now, policies, highest, runs, active, last, items, audit, entries, closed>>
    BY DEF ReadClock
  <1>2. call[t].run \in DOMAIN runs /\ Recorded(t)
    BY <1>0, OwnedRun
  <1>3. /\ call' \in [Threads -> Call]
        /\ call'[t].pc = "finish" /\ call'[t].run = call[t].run /\ call'[t].ok = call[t].ok
        /\ \A u \in Threads \ {t} : call'[u] = call[u]
    <2> DEFINE c == [pc |-> "finish", run |-> call[t].run, ok |-> call[t].ok, at |-> now]
    <2>1. call[t] \in [pc: Running \union {"outcome"}, run: Ids, ok: BOOLEAN, at: Nat] /\ now \in Nat
      BY <1>0, RunningCall DEF OrchestratorTypeOK
    <2>3. c \in [pc: Running \union {"outcome"}, run: Ids, ok: BOOLEAN, at: Nat]
      BY <2>1 DEF Running
    <2>4. c \in Call
      BY <2>3 DEF Call
    <2>5. call' = [call EXCEPT ![t] = c]
      BY <1>0 DEF ReadClock, OrchestratorTypeOK
    <2>6. c.pc = "finish" /\ c.run = call[t].run /\ c.ok = call[t].ok
      OBVIOUS
    <2> HIDE DEF c
    <2>7. call'[t] = c
      BY <1>0, <2>5 DEF OrchestratorTypeOK
    <2> QED BY <1>0, <2>4, <2>5, <2>6, <2>7 DEF OrchestratorTypeOK
  <1>4. OrchestratorTypeOK'
    BY <1>0, <1>1, <1>3 DEF OrchestratorTypeOK
  <1>5. \A q, i : Logged("orchestration-run", q, i)' <=> Logged("orchestration-run", q, i)
    BY <1>1 DEF Logged
  <1>6. Recorded(t)'
    BY <1>0, <1>1, <1>2, <1>3, <1>5 DEF Recorded
  <1>7. audit' \subseteq DOMAIN runs /\ \A i \in DOMAIN entries' : entries'[i].op \in DOMAIN runs
    BY <1>1 DEF OrchestratorInv
  <1> QED BY <1>0, <1>1, <1>3, <1>4, <1>5, <1>6, <1>7, RunStepKeeps DEF Running

(* The unfinished runs of a policy are finitely many. *)
LEMMA UnfinishedFinite ==
    ASSUME OrchestratorTypeOK, NEW p
    PROVE  IsFiniteSet(Unfinished(p)) /\ Cardinality(Unfinished(p)) \in Nat
  <1>1. Len(runs) \in Nat /\ DOMAIN runs = 1..Len(runs)
    BY DEF OrchestratorTypeOK
  <1>2. IsFiniteSet(DOMAIN runs)
    BY <1>1, FS_Interval
  <1>3. Unfinished(p) \subseteq DOMAIN runs
    BY DEF Unfinished
  <1> QED BY <1>2, <1>3, FS_Subset, FS_CardinalityType

(* Runbook.Start adds a run that nobody owned before. *)
LEMMA StartKeeps ==
    ASSUME OrchestratorInv, NEW t \in Threads, Start(t)
    PROVE  OrchestratorInv'
  <1>id. PICK id : id = call[t].policy.id
    OBVIOUS
  <1> DEFINE r == Len(runs) + 1
             c == [pc |-> "journal", run |-> r, ok |-> FALSE, at |-> 0]
             run == [policy |-> id, finished |-> FALSE, at |-> 0, ok |-> FALSE]
  <1>0. OrchestratorTypeOK /\ call[t].pc = "start" /\ call[t].pc \notin Running /\ id \in Policies
    BY <1>id, PolicyCall DEF OrchestratorInv, Start, At, Running
  <1>1. UNCHANGED <<now, policies, highest, last, items, audit, entries, closed>>
    BY DEF Start
  <1>2. CASE Return(t) /\ UNCHANGED <<runs, active>>
    <2>1. /\ call' \in [Threads -> Call] /\ call'[t].pc \notin Running /\ call'[t].pc # "outcome"
          /\ \A u \in Threads \ {t} : call'[u] = call[u]
      BY <1>0, <1>2 DEF Return, OrchestratorTypeOK, Call, Idle, Running
    <2>2. OrchestratorTypeOK'
      BY <1>0, <1>1, <1>2, <2>1 DEF OrchestratorTypeOK
    <2> QED BY <1>0, <1>1, <1>2, <2>1, <2>2, AsideKeeps
  <1>3. CASE /\ Len(runs) < MaxRuns
             /\ runs' = Append(runs, run)
             /\ active' = [active EXCEPT ![id] = @ + 1]
             /\ call' = [call EXCEPT ![t] = c]
    <2>1. Len(runs) \in Nat /\ DOMAIN runs = 1..Len(runs) /\ r \in Ids /\ r \notin DOMAIN runs
      BY <1>0, <1>3, OrchestratorAssumption DEF OrchestratorTypeOK, Ids
    <2>2. run \in Run
      BY <1>0 DEF Run
    <2>3. c \in [pc: Running \union {"outcome"}, run: Ids, ok: BOOLEAN, at: Nat]
      BY <2>1 DEF Running
    <2>4. c \in Call
      BY <2>3 DEF Call
    <2>5. c.pc = "journal" /\ c.run = r /\ ~c.ok /\ run.policy = id /\ ~run.finished
      OBVIOUS
    <2> HIDE DEF c, run
    <2>6. /\ call' \in [Threads -> Call] /\ call'[t] = c
          /\ \A u \in Threads \ {t} : call'[u] = call[u]
      BY <1>0, <1>3, <2>4 DEF OrchestratorTypeOK
    <2>7. /\ runs' \in Seq(Run)
          /\ DOMAIN runs' = DOMAIN runs \union {r}
          /\ runs'[r] = run
          /\ \A i \in DOMAIN runs : runs'[i] = runs[i]
      BY <1>0, <1>3, <2>1, <2>2 DEF OrchestratorTypeOK
    <2> HIDE DEF r
    <2>8. /\ active' \in [Policies -> Nat]
          /\ active'[id] = active[id] + 1
          /\ \A p \in Policies \ {id} : active'[p] = active[p]
      BY <1>0, <1>3 DEF OrchestratorTypeOK
    <2>9. OrchestratorTypeOK'
      BY <1>0, <1>1, <2>6, <2>7, <2>8 DEF OrchestratorTypeOK
    <2>10. ActiveIsUnfinished'
      <3>1. /\ Unfinished(id)' = Unfinished(id) \union {r} /\ r \notin Unfinished(id)
            /\ \A p \in Policies \ {id} : Unfinished(p)' = Unfinished(p)
        <4>1. \A p, i : i \in Unfinished(p) <=> i \in DOMAIN runs /\ runs[i].policy = p /\ ~runs[i].finished
          BY DEF Unfinished
        <4>2. \A p, i : i \in Unfinished(p)' <=> i \in DOMAIN runs' /\ runs'[i].policy = p /\ ~runs'[i].finished
          BY DEF Unfinished
        <4>3. \A p, i : i \in Unfinished(p)' <=> i \in Unfinished(p) \/ (i = r /\ p = id)
          BY <2>1, <2>5, <2>7, <4>1, <4>2
        <4>4. r \notin Unfinished(id)
          BY <2>1, <4>1
        <4>5. Unfinished(id)' = Unfinished(id) \union {r}
          <5>1. \A i : i \in Unfinished(id)' <=> i \in Unfinished(id) \union {r}
            BY <4>3
          <5> QED BY <5>1
        <4>6. ASSUME NEW p \in Policies \ {id} PROVE Unfinished(p)' = Unfinished(p)
          <5>1. \A i : i \in Unfinished(p)' <=> i \in Unfinished(p)
            BY <4>3
          <5> QED BY <5>1
        <4> QED BY <4>4, <4>5, <4>6
      <3>2. Cardinality(Unfinished(id)') = Cardinality(Unfinished(id)) + 1
        BY <1>0, <3>1, UnfinishedFinite, FS_AddElement
      <3>3. ASSUME NEW p \in Policies
            PROVE  active'[p] = Cardinality(Unfinished(p)')
        <4>1. \A q \in Policies : active[q] = Cardinality(Unfinished(q))
          BY DEF OrchestratorInv, ActiveIsUnfinished
        <4>2. CASE p = id
          BY <1>0, <2>8, <3>2, <4>1, <4>2
        <4>3. CASE p # id
          <5>1. Unfinished(p)' = Unfinished(p)
            BY <3>1, <4>3
          <5> QED BY <2>8, <4>1, <4>3, <5>1
        <4> QED BY <4>2, <4>3
      <3>4. ASSUME NEW p \in Policies, NEW i \in Unfinished(p)'
            PROVE  \E u \in Threads : call'[u].pc \in Running /\ call'[u].run = i
        <4>1. CASE i = r
          BY <2>5, <2>6, <4>1 DEF Running
        <4>2. CASE i # r
          <5>1. i \in Unfinished(p)
            <6>1. Unfinished(p)' = Unfinished(p) \/ Unfinished(p)' = Unfinished(p) \union {r}
              BY <3>1
            <6> QED BY <3>4, <4>2, <6>1
          <5>2. PICK u \in Threads : call[u].pc \in Running /\ call[u].run = i
            BY <5>1 DEF OrchestratorInv, ActiveIsUnfinished
          <5>3. u # t
            BY <1>0, <5>2
          <5> QED BY <2>6, <5>2, <5>3
        <4> QED BY <4>1, <4>2
      <3> QED BY <3>3, <3>4 DEF ActiveIsUnfinished
    <2>11. \A q, i : Logged("orchestration-run", q, i)' <=> Logged("orchestration-run", q, i)
      BY <1>1 DEF Logged
    <2>12. SucceededIsJournaled'
      BY <1>1, <2>5, <2>7, <2>11 DEF OrchestratorInv, SucceededIsJournaled
    <2>13. \A q : ~Logged("orchestration-run", q, r)
      BY <2>1 DEF Logged, OrchestratorInv
    <2>14. r \notin audit
      BY <2>1 DEF OrchestratorInv
    <2>15. ASSUME NEW u \in Threads, call'[u].pc \in Running
           PROVE  /\ call'[u].run \in DOMAIN runs' /\ ~runs'[call'[u].run].finished
                  /\ \A v \in Threads \ {u} : call'[v].pc \in Running => call'[v].run # call'[u].run
                  /\ Recorded(u)'
      <3>1. CASE u = t
        <4>1. Recorded(t)'
          BY <1>1, <2>5, <2>6, <2>11, <2>13, <2>14 DEF Recorded
        <4>2. \A v \in Threads \ {t} : call'[v].pc \in Running => call'[v].run # r
          BY <2>1, <2>6, OwnedRun
        <4> QED BY <2>5, <2>6, <2>7, <3>1, <4>1, <4>2
      <3>2. CASE u # t
        <4>1. call'[u] = call[u] /\ call[u].pc \in Running
          BY <2>6, <2>15, <3>2
        <4>2. /\ call[u].run \in DOMAIN runs /\ ~runs[call[u].run].finished
              /\ \A v \in Threads \ {u} : call[v].pc \in Running => call[v].run # call[u].run
              /\ Recorded(u)
          BY <4>1, OwnedRun
        <4>3. Recorded(u)'
          BY <1>1, <2>7, <2>11, <4>1, <4>2 DEF Recorded
        <4>4. \A v \in Threads \ {u} : call'[v].pc \in Running => call'[v].run # call'[u].run
          BY <2>1, <2>5, <2>6, <4>1, <4>2
        <4> QED BY <2>7, <4>1, <4>2, <4>3, <4>4
      <3> QED BY <3>1, <3>2
    <2>16. RunsAreOwned'
      BY <2>15 DEF RunsAreOwned, Recorded, At
    <2>17. audit' \subseteq DOMAIN runs' /\ \A i \in DOMAIN entries' : entries'[i].op \in DOMAIN runs'
      BY <1>1, <2>7 DEF OrchestratorInv
    <2>18. \A u \in Threads : At(u, "outcome")' => call'[u].run \in DOMAIN runs'
      BY <2>5, <2>6, <2>7 DEF OrchestratorInv, At
    <2> QED BY <2>9, <2>10, <2>12, <2>16, <2>17, <2>18 DEF OrchestratorInv
  <1> QED BY <1>id, <1>2, <1>3 DEF Start

(* Runbook.Finish takes the run off the unfinished ones. *)
LEMMA FinishKeeps ==
    ASSUME OrchestratorInv, NEW t \in Threads, Finish(t)
    PROVE  OrchestratorInv'
  <1>0. OrchestratorTypeOK /\ call[t].pc \in Running /\ call[t].pc = "finish" /\ Goto(t, "outcome")
    BY DEF OrchestratorInv, Finish, At, Running
  <1>1. PICK r, ok, at : r = call[t].run /\ ok = call[t].ok /\ at = call[t].at
    OBVIOUS
  <1>2. PICK id : id = runs[r].policy
    OBVIOUS
  <1> DEFINE run == [policy |-> id, finished |-> TRUE, at |-> at, ok |-> ok]
  <1>3. /\ r \in DOMAIN runs /\ r \in Ids /\ ~runs[r].finished /\ at \in Nat /\ ok \in BOOLEAN
        /\ \A u \in Threads \ {t} : call[u].pc \in Running => call[u].run # r
        /\ Recorded(t)
    <2>1. call[t] \in [pc: Running \union {"outcome"}, run: Ids, ok: BOOLEAN, at: Nat]
      BY <1>0, RunningCall
    <2>2. call[t].ok \in BOOLEAN
      BY <2>1, Zenon
    <2> QED BY <1>0, <1>1, <2>1, <2>2, OwnedRun
  <1>4. runs[r] \in Run /\ id \in Policies
    <2>1. runs[r] \in Run
      BY <1>0, <1>3 DEF OrchestratorTypeOK
    <2> QED BY <1>2, <2>1 DEF Run
  <1>5. /\ runs' = [runs EXCEPT ![r] = run]
        /\ active' = [active EXCEPT ![id] = IF @ > 0 THEN @ - 1 ELSE 0]
        /\ last' = [last EXCEPT ![id] = r]
    BY <1>1, <1>2, <1>3 DEF Finish
  <1>6. UNCHANGED <<now, policies, highest, items, audit, entries, closed>>
    BY DEF Finish
  <1>7. run \in Run /\ run.policy = id /\ run.finished /\ run.ok = ok
    BY <1>3, <1>4 DEF Run
  <1> HIDE DEF run
  <1>8. /\ runs' \in Seq(Run) /\ DOMAIN runs' = DOMAIN runs
        /\ runs'[r] = run
        /\ \A i \in DOMAIN runs \ {r} : runs'[i] = runs[i]
    BY <1>0, <1>3, <1>5, <1>7 DEF OrchestratorTypeOK
  <1>9. /\ call' \in [Threads -> Call] /\ call'[t].pc = "outcome" /\ call'[t].run = r
        /\ \A u \in Threads \ {t} : call'[u] = call[u]
    BY <1>0, <1>1, GoesOn
  <1>10. \A p, i : i \in Unfinished(p)' <=> i \in Unfinished(p) /\ i # r
    <2>1. \A p, i : i \in Unfinished(p) <=> i \in DOMAIN runs /\ runs[i].policy = p /\ ~runs[i].finished
      BY DEF Unfinished
    <2>2. \A p, i : i \in Unfinished(p)' <=> i \in DOMAIN runs' /\ runs'[i].policy = p /\ ~runs'[i].finished
      BY DEF Unfinished
    <2> QED BY <1>7, <1>8, <2>1, <2>2
  <1>11. r \in Unfinished(id) /\ \A p : p # id => r \notin Unfinished(p)
    BY <1>2, <1>3 DEF Unfinished
  <1>12. Cardinality(Unfinished(id)') = Cardinality(Unfinished(id)) - 1
    <2>1. Unfinished(id)' = Unfinished(id) \ {r}
      BY <1>10
    <2> QED BY <1>0, <1>11, <2>1, UnfinishedFinite, FS_RemoveElement
  <1>13. ASSUME NEW p, p # id PROVE Unfinished(p)' = Unfinished(p)
    <2>1. \A i : i \in Unfinished(p)' <=> i \in Unfinished(p)
      BY <1>10, <1>11, <1>13
    <2> QED BY <2>1
  <1>14. active[id] = Cardinality(Unfinished(id)) /\ active[id] \in Nat /\ active[id] > 0
    <2>1. active[id] = Cardinality(Unfinished(id)) /\ active[id] \in Nat
      BY <1>0, <1>4 DEF OrchestratorInv, ActiveIsUnfinished, OrchestratorTypeOK
    <2>2. Cardinality(Unfinished(id)) # 0
      BY <1>0, <1>11, UnfinishedFinite, FS_EmptySet
    <2> QED BY <2>1, <2>2
  <1>15. /\ active' \in [Policies -> Nat]
         /\ active'[id] = active[id] - 1
         /\ \A p \in Policies \ {id} : active'[p] = active[p]
    BY <1>0, <1>4, <1>5, <1>14 DEF OrchestratorTypeOK
  <1>16. OrchestratorTypeOK'
    BY <1>0, <1>3, <1>4, <1>5, <1>6, <1>8, <1>9, <1>15 DEF OrchestratorTypeOK
  <1>17. ActiveIsUnfinished'
    <2>1. ASSUME NEW p \in Policies
          PROVE  active'[p] = Cardinality(Unfinished(p)')
      <3>1. CASE p = id
        BY <1>12, <1>14, <1>15, <3>1
      <3>2. CASE p # id
        <4>1. active[p] = Cardinality(Unfinished(p))
          BY DEF OrchestratorInv, ActiveIsUnfinished
        <4> QED BY <1>13, <1>15, <3>2, <4>1
      <3> QED BY <3>1, <3>2
    <2>2. ASSUME NEW p \in Policies, NEW i \in Unfinished(p)'
          PROVE  \E u \in Threads : call'[u].pc \in Running /\ call'[u].run = i
      <3>1. i \in Unfinished(p) /\ i # r
        BY <1>10, <2>2
      <3>2. PICK u \in Threads : call[u].pc \in Running /\ call[u].run = i
        BY <3>1 DEF OrchestratorInv, ActiveIsUnfinished
      <3>3. u # t
        BY <1>1, <3>1, <3>2
      <3> QED BY <1>9, <3>2, <3>3
    <2> QED BY <2>1, <2>2 DEF ActiveIsUnfinished
  <1>18. \A q, i : Logged("orchestration-run", q, i)' <=> Logged("orchestration-run", q, i)
    BY <1>6 DEF Logged
  <1>19. SucceededIsJournaled'
    <2>1. /\ ok <=> Logged("orchestration-run", id, r)
          /\ ok <=> r \in audit
      BY <1>0, <1>1, <1>2, <1>3 DEF Recorded
    <2>2. ASSUME NEW i \in DOMAIN runs', runs'[i].finished
          PROVE  /\ runs'[i].ok <=> Logged("orchestration-run", runs'[i].policy, i)
                 /\ runs'[i].ok <=> i \in audit
      <3>1. CASE i = r
        BY <1>7, <1>8, <2>1, <3>1
      <3>2. CASE i # r
        BY <1>8, <2>2, <3>2 DEF OrchestratorInv, SucceededIsJournaled
      <3> QED BY <3>1, <3>2
    <2> QED BY <1>6, <1>18, <2>2 DEF SucceededIsJournaled
  <1>20. ASSUME NEW u \in Threads, call'[u].pc \in Running
         PROVE  /\ call'[u].run \in DOMAIN runs' /\ ~runs'[call'[u].run].finished
                /\ \A v \in Threads \ {u} : call'[v].pc \in Running => call'[v].run # call'[u].run
                /\ Recorded(u)'
    <2>1. u # t
      BY <1>9, <1>20 DEF Running
    <2>2. call'[u] = call[u] /\ call[u].pc \in Running /\ call[u].run # r
      BY <1>3, <1>9, <1>20, <2>1
    <2>3. /\ call[u].run \in DOMAIN runs /\ ~runs[call[u].run].finished
          /\ \A v \in Threads \ {u} : call[v].pc \in Running => call[v].run # call[u].run
          /\ Recorded(u)
      BY <2>2, OwnedRun
    <2>4. runs'[call[u].run] = runs[call[u].run]
      BY <1>8, <2>2, <2>3
    <2>5. Recorded(u)'
      BY <1>6, <1>18, <2>2, <2>3, <2>4 DEF Recorded
    <2>6. \A v \in Threads \ {u} : call'[v].pc \in Running => call'[v].run # call'[u].run
      <3>1. call'[t].pc \notin Running
        BY <1>9 DEF Running
      <3> QED BY <1>9, <2>2, <2>3, <3>1
    <2> QED BY <1>8, <2>2, <2>3, <2>4, <2>5, <2>6
  <1>21. RunsAreOwned'
    BY <1>20 DEF RunsAreOwned, Recorded, At
  <1>22. audit' \subseteq DOMAIN runs' /\ \A i \in DOMAIN entries' : entries'[i].op \in DOMAIN runs'
    BY <1>6, <1>8 DEF OrchestratorInv
  <1>23. \A u \in Threads : At(u, "outcome")' => call'[u].run \in DOMAIN runs'
    BY <1>3, <1>8, <1>9 DEF OrchestratorInv, At
  <1> QED BY <1>16, <1>17, <1>19, <1>21, <1>22, <1>23 DEF OrchestratorInv

(* The outcome goes to the window when the run is over. *)
LEMMA AddOutcomeKeeps ==
    ASSUME OrchestratorInv, NEW t \in Threads, AddOutcome(t)
    PROVE  OrchestratorInv'
  <1> DEFINE O == [policy: Policies, ok: BOOLEAN, at: Nat]
             o == [policy |-> runs[call[t].run].policy, ok |-> call[t].ok, at |-> call[t].at]
  <1>0. OrchestratorTypeOK /\ call[t].pc = "outcome" /\ call[t].pc \notin Running
    BY DEF OrchestratorInv, AddOutcome, At, Running
  <1>1. UNCHANGED <<now, policies, highest, runs, active, last, audit, entries, closed>> /\ Return(t)
    BY DEF AddOutcome
  <1>2. o \in O
    <2>1. call[t] \in [pc: Running \union {"outcome"}, run: Ids, ok: BOOLEAN, at: Nat]
      BY <1>0, RunningCall
    <2>2. call[t].ok \in BOOLEAN /\ call[t].at \in Nat
      BY <2>1, Zenon
    <2>3. call[t].run \in DOMAIN runs
      BY <1>0 DEF OrchestratorInv, At
    <2>4. runs[call[t].run] \in Run
      BY <1>0, <2>3 DEF OrchestratorTypeOK
    <2>5. runs[call[t].run].policy \in Policies
      BY <2>4 DEF Run
    <2> QED BY <2>2, <2>5, Zenon
  <1>3. items' = Pruned(Append(items, o), now, Length)
    BY DEF AddOutcome
  <1>4. items \in Seq(O)
    BY <1>0 DEF OrchestratorTypeOK
  <1>5. items' \in Seq(O)
    <2> HIDE DEF O, o
    <2>1. Append(items, o) \in Seq(O)
      BY <1>2, <1>4
    <2> QED BY <1>3, <2>1, PrunedIsSeq
  <1>6. /\ call' \in [Threads -> Call] /\ call'[t].pc \notin Running /\ call'[t].pc # "outcome"
        /\ \A u \in Threads \ {t} : call'[u] = call[u]
    BY <1>0, <1>1 DEF Return, OrchestratorTypeOK, Call, Idle, Running
  <1>7. OrchestratorTypeOK'
    BY <1>0, <1>1, <1>5, <1>6 DEF OrchestratorTypeOK
  <1> QED BY <1>0, <1>1, <1>6, <1>7, AsideKeeps

(* The window test of a call in progress. *)
LEMMA CheckWindowKeeps ==
    ASSUME OrchestratorInv, NEW t \in Threads, CheckWindow(t)
    PROVE  OrchestratorInv'
  <1>0. OrchestratorTypeOK /\ call[t].pc = "allows" /\ call[t].pc \notin Running
    BY DEF OrchestratorInv, CheckWindow, At, Running
  <1>1. call[t] \in [pc: {"allows", "start"}, policy: Policy]
    BY <1>0, PolicyCall
  <1> DEFINE c == [pc |-> "start", policy |-> call[t].policy]
  <1>2. [call[t] EXCEPT !.pc = "start"] = c
    BY <1>1
  <1>3. c \in Call /\ Idle \in Call
    BY <1>1 DEF Call
  <1>4. c.pc \notin Running \union {"outcome"} /\ Idle.pc \notin Running \union {"outcome"}
    BY DEF Running, Idle
  <1> HIDE DEF c
  <1>5. call' = [call EXCEPT ![t] = c] \/ call' = [call EXCEPT ![t] = Idle]
    BY <1>0, <1>2 DEF CheckWindow, Goto, Return, OrchestratorTypeOK
  <1>6. /\ call' \in [Threads -> Call] /\ call'[t].pc \notin Running \union {"outcome"}
        /\ \A u \in Threads \ {t} : call'[u] = call[u]
    BY <1>0, <1>3, <1>4, <1>5 DEF OrchestratorTypeOK
  <1>7. UNCHANGED <<now, policies, highest, runs, active, last, items, audit, entries, closed>>
    BY DEF CheckWindow
  <1>8. OrchestratorTypeOK'
    BY <1>0, <1>6, <1>7 DEF OrchestratorTypeOK
  <1> QED BY <1>0, <1>6, <1>7, <1>8, AsideKeeps

(* The operations that come from outside. *)
LEMMA EnvironmentKeeps ==
    ASSUME OrchestratorInv, Environment \/ UNCHANGED orchVars
    PROVE  OrchestratorInv'
  <1>0. OrchestratorTypeOK
    BY DEF OrchestratorInv
  <1>1. ASSUME NEW policy \in Policy, RegisterPolicy(policy)
        PROVE  OrchestratorInv'
    <2>1. policy.id \in Policies /\ policy.max \in Nat
      BY OrchestratorAssumption DEF Policy
    <2>2. /\ policies' \subseteq Policy
          /\ highest' = [highest EXCEPT ![policy.id] = IF policy.max > @ THEN policy.max ELSE @]
          /\ UNCHANGED <<now, runs, active, last, items, audit, entries, closed, call>>
      BY <1>0, <1>1 DEF RegisterPolicy, OrchestratorTypeOK
    <2>3. highest' \in [Policies -> Nat]
      BY <1>0, <2>1, <2>2 DEF OrchestratorTypeOK
    <2>4. OrchestratorTypeOK'
      BY <1>0, <2>2, <2>3 DEF OrchestratorTypeOK
    <2> QED BY <1>1, <2>4, AsideKeeps DEF RegisterPolicy
  <1>2. ASSUME NEW t \in Threads, NEW policy \in policies, RunScheduledJob(t, policy)
        PROVE  OrchestratorInv'
    <2> DEFINE c == [pc |-> "allows", policy |-> policy]
    <2>1. c \in Call
      BY <1>0 DEF Call, OrchestratorTypeOK
    <2>2. c.pc \notin Running \union {"outcome"} /\ call[t].pc \notin Running
      BY <1>2 DEF Running, RunScheduledJob, At
    <2>3. call' = [call EXCEPT ![t] = c]
      BY <1>2 DEF RunScheduledJob
    <2> HIDE DEF c
    <2>4. /\ call' \in [Threads -> Call] /\ call'[t] = c
          /\ \A u \in Threads \ {t} : call'[u] = call[u]
      BY <1>0, <2>1, <2>3 DEF OrchestratorTypeOK
    <2>5. OrchestratorTypeOK'
      BY <1>0, <1>2, <2>4 DEF RunScheduledJob, OrchestratorTypeOK
    <2> QED BY <1>2, <2>2, <2>4, <2>5, AsideKeeps DEF RunScheduledJob
  <1>3. CASE ReadOutcomes
    <2>1. items' \in Seq([policy: Policies, ok: BOOLEAN, at: Nat])
      BY <1>0, <1>3, PrunedIsSeq DEF ReadOutcomes, OrchestratorTypeOK
    <2>2. OrchestratorTypeOK'
      BY <1>0, <1>3, <2>1 DEF ReadOutcomes, OrchestratorTypeOK
    <2> QED BY <1>3, <2>2, AsideKeeps DEF ReadOutcomes
  <1>4. CASE PassTime
    <2>1. OrchestratorTypeOK'
      BY <1>0, <1>4 DEF PassTime, OrchestratorTypeOK
    <2> QED BY <1>4, <2>1, AsideKeeps DEF PassTime
  <1>5. CASE /\ CloseJournal \/ OpenJournal
             /\ UNCHANGED <<now, policies, highest, runs, active, last, items, audit, call>>
    <2>1. closed' \in BOOLEAN
      BY <1>5, Zenon DEF CloseJournal, OpenJournal
    <2>2. entries' = entries
      BY <1>5 DEF CloseJournal, OpenJournal
    <2>3. OrchestratorTypeOK'
      BY <1>0, <1>5, <2>1, <2>2 DEF OrchestratorTypeOK
    <2> QED BY <1>5, <2>2, <2>3, AsideKeeps
  <1>6. CASE UNCHANGED orchVars
    <2>1. OrchestratorTypeOK'
      BY <1>0, <1>6 DEF orchVars, OrchestratorTypeOK
    <2> QED BY <1>6, <2>1, AsideKeeps DEF orchVars
  <1> QED BY <1>1, <1>2, <1>3, <1>4, <1>5, <1>6 DEF Environment

(* The counter that limits concurrency counts exactly the unfinished runs, each
   with one goroutine that will finish it, and a finished run succeeded if and
   only if it is in the journal and in the audit ledger: for any number of
   goroutines and policies, whatever closes the journal or changes a policy
   while the runs go on. *)
THEOREM OrchestratorInvariant == OrchestratorSpec => []OrchestratorInv
  <1>1. ASSUME OrchestratorInv, NEW t \in Threads, Step(t)
        PROVE  OrchestratorInv'
    BY <1>1, CheckWindowKeeps, StartKeeps, JournalRunKeeps, RecordAuditKeeps, ReadClockKeeps,
       FinishKeeps, AddOutcomeKeeps DEF Step
  <1>2. OrchestratorInv /\ [OrchestratorNext]_orchVars => OrchestratorInv'
    BY <1>1, EnvironmentKeeps DEF OrchestratorNext
  <1> QED BY <1>2, OrchestratorInvInit, PTL DEF OrchestratorSpec

(* The most runs of a policy that may be in progress: a step adds one only where
   fewer are in progress than a limit the policy had or has. *)
LEMMA LimitStep ==
    ASSUME OrchestratorInv, WithinTheLimit, LimitsAreKnown, [OrchestratorNext]_orchVars
    PROVE  WithinTheLimit' /\ LimitsAreKnown'
  <1>0. /\ OrchestratorTypeOK
        /\ \A p \in Policies : /\ active[p] \in Nat /\ highest[p] \in Nat
                               /\ active[p] = Cardinality(Unfinished(p))
        /\ \A policy \in policies : policy.id \in Policies /\ policy.max \in Nat
    BY OrchestratorAssumption
       DEF OrchestratorInv, OrchestratorTypeOK, ActiveIsUnfinished, Policy
  <1>1. OrchestratorInv'
    <2>1. ASSUME NEW t \in Threads, Step(t)
          PROVE  OrchestratorInv'
      BY <2>1, CheckWindowKeeps, StartKeeps, JournalRunKeeps, RecordAuditKeeps, ReadClockKeeps,
         FinishKeeps, AddOutcomeKeeps DEF Step
    <2> QED BY <2>1, EnvironmentKeeps DEF OrchestratorNext
  <1>2. \A p \in Policies : active'[p] \in Nat /\ active'[p] = Cardinality(Unfinished(p))'
    BY <1>1 DEF OrchestratorInv, OrchestratorTypeOK, ActiveIsUnfinished
  <1>3. ASSUME \A p \in Policies : active'[p] <= active[p] \/ active'[p] <= highest[p],
               UNCHANGED <<policies, highest>>
        PROVE  WithinTheLimit' /\ LimitsAreKnown'
    <2>1. \A p \in Policies : active[p] <= highest[p]
      BY <1>0 DEF WithinTheLimit
    <2>2. \A p \in Policies : active'[p] <= highest[p]
      BY <1>0, <1>2, <1>3, <2>1
    <2>3. WithinTheLimit'
      BY <1>2, <1>3, <2>2 DEF WithinTheLimit
    <2> QED BY <1>3, <2>3 DEF LimitsAreKnown
  <1>4. CASE UNCHANGED <<policies, highest, active>>
    BY <1>0, <1>3, <1>4
  <1>5. ASSUME NEW policy \in Policy, RegisterPolicy(policy)
        PROVE  WithinTheLimit' /\ LimitsAreKnown'
    <2>1. policy.id \in Policies /\ policy.max \in Nat
      BY OrchestratorAssumption DEF Policy
    <2>2. /\ policies' = {p \in policies : p.id # policy.id} \union {policy}
          /\ highest' = [highest EXCEPT ![policy.id] = IF policy.max > @ THEN policy.max ELSE @]
          /\ UNCHANGED <<runs, active>>
      BY <1>5 DEF RegisterPolicy
    <2>3. /\ policy.max <= highest'[policy.id]
          /\ \A p \in Policies : highest'[p] \in Nat /\ highest[p] <= highest'[p]
      BY <1>0, <2>1, <2>2 DEF OrchestratorTypeOK
    <2>4. WithinTheLimit'
      <3>1. \A p \in Policies : active[p] <= highest[p]
        BY <1>0 DEF WithinTheLimit
      <3>2. \A p \in Policies : active'[p] <= highest'[p]
        BY <1>0, <2>2, <2>3, <3>1
      <3> QED BY <1>2, <3>2 DEF WithinTheLimit
    <2>5. LimitsAreKnown'
      BY <1>0, <2>1, <2>2, <2>3 DEF LimitsAreKnown
    <2> QED BY <2>4, <2>5
  <1>6. ASSUME NEW t \in Threads, Start(t)
        PROVE  WithinTheLimit' /\ LimitsAreKnown'
    <2> DEFINE id == call[t].policy.id
    <2>1. id \in Policies /\ UNCHANGED <<policies, highest>>
      BY <1>0, <1>6, PolicyCall DEF Start, At
    <2>2. \/ active' = active
          \/ active[id] < Limit(id) /\ active' = [active EXCEPT ![id] = @ + 1]
      BY <1>6 DEF Start
    <2> HIDE DEF id
    <2>3. Limit(id) \in Nat /\ Limit(id) <= highest[id]
      BY <1>0, <2>1, OrchestratorAssumption DEF Limit, LimitsAreKnown
    <2>4. active'[id] <= active[id] \/ active'[id] <= highest[id]
      BY <1>0, <2>1, <2>2, <2>3 DEF OrchestratorTypeOK
    <2>5. \A p \in Policies \ {id} : active'[p] = active[p]
      BY <1>0, <2>2 DEF OrchestratorTypeOK
    <2> QED BY <1>0, <1>3, <2>1, <2>4, <2>5
  <1>7. ASSUME NEW t \in Threads, Finish(t)
        PROVE  WithinTheLimit' /\ LimitsAreKnown'
    <2>1. PICK id : \/ active' = active
                    \/ active' = [active EXCEPT ![id] = IF @ > 0 THEN @ - 1 ELSE 0]
      BY <1>7 DEF Finish
    <2>2. ASSUME NEW p \in Policies
          PROVE  active'[p] <= active[p]
      <3>1. active \in [Policies -> Nat] /\ active[p] \in Nat
        BY <1>0 DEF OrchestratorTypeOK
      <3>2. CASE active' = active
        BY <3>1, <3>2
      <3>3. CASE active' = [active EXCEPT ![id] = IF @ > 0 THEN @ - 1 ELSE 0]
        <4>1. active'[p] = IF p = id THEN IF active[p] > 0 THEN active[p] - 1 ELSE 0 ELSE active[p]
          BY <3>1, <3>3
        <4> QED BY <3>1, <4>1
      <3> QED BY <2>1, <3>2, <3>3
    <2>3. UNCHANGED <<policies, highest>>
      BY <1>7 DEF Finish
    <2> QED BY <1>3, <2>2, <2>3
  <1>8. ASSUME NEW t \in Threads, Step(t), ~Start(t), ~Finish(t)
        PROVE  UNCHANGED <<policies, highest, active>>
    BY <1>8 DEF Step, CheckWindow, JournalRun, RecordAudit, ReadClock, AddOutcome
  <1>9. ASSUME Environment, ~(\E policy \in Policy : RegisterPolicy(policy))
        PROVE  UNCHANGED <<policies, highest, active>>
    BY <1>9 DEF Environment, RunScheduledJob, ReadOutcomes, PassTime
  <1> QED
    BY <1>4, <1>5, <1>6, <1>7, <1>8, <1>9 DEF OrchestratorNext, orchVars

(* No more runs of a policy are in progress than the greatest limit it ever had,
   for any goroutines, policies and limits, however a policy changes while
   RunScheduledJob holds a copy of it and however runs end. *)
THEOREM LimitHolds == OrchestratorSpec => []WithinTheLimit
  <1>1. OrchestratorInit => WithinTheLimit /\ LimitsAreKnown
    <2> SUFFICES ASSUME OrchestratorInit PROVE WithinTheLimit /\ LimitsAreKnown
      OBVIOUS
    <2>1. runs = <<>> /\ policies = {} /\ \A p \in Policies : highest[p] = 1
      BY DEF OrchestratorInit
    <2>2. \A p \in Policies : Unfinished(p) = {}
      BY <2>1 DEF Unfinished
    <2> QED BY <2>1, <2>2, FS_EmptySet DEF WithinTheLimit, LimitsAreKnown
  <1>2. OrchestratorInv /\ WithinTheLimit /\ LimitsAreKnown /\ [OrchestratorNext]_orchVars
            => WithinTheLimit' /\ LimitsAreKnown'
    BY LimitStep
  <1> QED BY <1>1, <1>2, OrchestratorInvariant, PTL DEF OrchestratorSpec

------------------------------------------------------------------------------
(* Manifests and their checkpoints.                                         *)

(* The prefixes of the ladder. *)
LEMMA LadderPrefix ==
    ASSUME NEW n \in 0..4
    PROVE  /\ SubSeq(Ladder, 1, n) \in Seq(CheckpointStates)
           /\ Len(SubSeq(Ladder, 1, n)) = n
           /\ \A k \in 1..n : SubSeq(Ladder, 1, n)[k] = Ladder[k]
           /\ n < 4 => Append(SubSeq(Ladder, 1, n), Ladder[n + 1]) = SubSeq(Ladder, 1, n + 1)
  <1>1. \A k \in 1..4 : Ladder[k] \in CheckpointStates
    BY DEF Ladder, CheckpointStates
  <1>2. ASSUME NEW m \in 0..4
        PROVE  /\ SubSeq(Ladder, 1, m) \in Seq(CheckpointStates)
               /\ Len(SubSeq(Ladder, 1, m)) = m
               /\ \A k \in 1..m : SubSeq(Ladder, 1, m)[k] = Ladder[k]
    <2>1. 1 \in Int /\ m \in Int /\ \A k \in 1..m : Ladder[k] \in CheckpointStates
      BY <1>1
    <2>2. /\ SubSeq(Ladder, 1, m) \in Seq(CheckpointStates)
          /\ Len(SubSeq(Ladder, 1, m)) = IF 1 <= m THEN m - 1 + 1 ELSE 0
          /\ \A k \in 1..(m - 1 + 1) : SubSeq(Ladder, 1, m)[k] = Ladder[1 + k - 1]
      BY <2>1, SubSeqProperties
    <2> QED BY <2>2
  <1>3. ASSUME n < 4
        PROVE  Append(SubSeq(Ladder, 1, n), Ladder[n + 1]) = SubSeq(Ladder, 1, n + 1)
    <2> DEFINE p == SubSeq(Ladder, 1, n)
               q == SubSeq(Ladder, 1, n + 1)
    <2>1. /\ p \in Seq(CheckpointStates) /\ Len(p) = n /\ \A k \in 1..n : p[k] = Ladder[k]
          /\ q \in Seq(CheckpointStates) /\ Len(q) = n + 1 /\ \A k \in 1..(n + 1) : q[k] = Ladder[k]
          /\ Ladder[n + 1] \in CheckpointStates
      BY <1>1, <1>2, <1>3
    <2> HIDE DEF p, q
    <2>2. /\ Append(p, Ladder[n + 1]) \in Seq(CheckpointStates)
          /\ Len(Append(p, Ladder[n + 1])) = n + 1
          /\ \A k \in 1..(n + 1) : Append(p, Ladder[n + 1])[k] = Ladder[k]
      BY <2>1
    <2> QED BY <2>1, <2>2, SeqEqual DEF p, q
  <1> QED BY <1>2, <1>3

(* What the record of a call in progress holds. *)
LEMMA WorkInProgress ==
    ASSUME MaterializeTypeOK, NEW t \in Materializers, work[t].pc # "idle"
    PROVE  work[t] \in Work /\ work[t].image \in Images /\ work[t].copy \in ImageStates
  <1>1. work[t] # NoWork
    BY DEF NoWork
  <1>2. work[t] \in Work
    BY <1>1 DEF MaterializeTypeOK
  <1> QED BY <1>2 DEF Work

LEMMA WorkMoves ==
    ASSUME MaterializeTypeOK, NEW t \in Materializers, work[t].pc # "idle",
           NEW pc \in {"publish", "get", "start", "staged", "published", "reread", "verified", "audit"},
           WorkGoto(t, pc)
    PROVE  /\ work' \in [Materializers -> {NoWork} \union Work]
           /\ work'[t].pc = pc /\ work'[t].image = work[t].image /\ work'[t].copy = work[t].copy
           /\ \A u \in Materializers \ {t} : work'[u] = work[u]
  <1> DEFINE w == [pc |-> pc, image |-> work[t].image, copy |-> work[t].copy]
  <1>1. work[t] \in Work
    BY WorkInProgress
  <1>2. [work[t] EXCEPT !.pc = pc] = w /\ w \in Work
    BY <1>1 DEF Work
  <1>3. work' = [work EXCEPT ![t] = w]
    BY <1>2 DEF WorkGoto, MaterializeTypeOK
  <1>4. w.pc = pc /\ w.image = work[t].image /\ w.copy = work[t].copy
    OBVIOUS
  <1> HIDE DEF w
  <1>5. work'[t] = w
    BY <1>3 DEF MaterializeTypeOK
  <1> QED BY <1>2, <1>3, <1>4, <1>5 DEF MaterializeTypeOK

LEMMA WorkEnds ==
    ASSUME MaterializeTypeOK, NEW t \in Materializers, WorkReturn(t)
    PROVE  /\ work' \in [Materializers -> {NoWork} \union Work]
           /\ work'[t].pc = "idle"
           /\ \A u \in Materializers \ {t} : work'[u] = work[u]
  BY DEF WorkReturn, MaterializeTypeOK, NoWork

(* What a checkpoint record and its history say of each other. *)
LEMMA CheckpointRung ==
    ASSUME MaterializeInv, NEW i \in Images
    PROVE  \E n \in 0..4 :
              /\ history[i] = SubSeq(Ladder, 1, n)
              /\ checkpoints[i].state = IF n = 0 THEN "absent" ELSE Ladder[n]
  <1>1. Len(Ladder) = 4
    BY DEF Ladder
  <1>2. PICK n \in 0..4 : history[i] = SubSeq(Ladder, 1, n)
    BY <1>1 DEF MaterializeInv, CheckpointsClimb
  <1>3. history[i] \in Seq(CheckpointStates) /\ Len(history[i]) = n
        /\ \A k \in 1..n : history[i][k] = Ladder[k]
    BY <1>2, LadderPrefix
  <1>4. history[i] = <<>> <=> n = 0
    BY <1>3
  <1>5. n # 0 => history[i][Len(history[i])] = Ladder[n]
    BY <1>3
  <1> QED BY <1>2, <1>4, <1>5 DEF MaterializeInv, CheckpointsClimb

LEMMA RungClimbs ==
    ASSUME NEW h, NEW s, NEW n \in 0..4, h = SubSeq(Ladder, 1, n),
           s = IF n = 0 THEN "absent" ELSE Ladder[n]
    PROVE  /\ \E m \in 0..Len(Ladder) : h = SubSeq(Ladder, 1, m)
           /\ s = IF h = <<>> THEN "absent" ELSE h[Len(h)]
  <1>1. Len(Ladder) = 4
    BY DEF Ladder
  <1>2. h \in Seq(CheckpointStates) /\ Len(h) = n /\ \A k \in 1..n : h[k] = Ladder[k]
    BY LadderPrefix
  <1>3. h = <<>> <=> n = 0
    BY <1>2, EmptySeq
  <1>4. n # 0 => h[Len(h)] = Ladder[n]
    BY <1>2
  <1> QED BY <1>1, <1>3, <1>4

LEMMA MaterializeInvInit == MaterializeInit => MaterializeInv
  <1> SUFFICES ASSUME MaterializeInit PROVE MaterializeInv OBVIOUS
  <1>1. MaterializeTypeOK
    BY DEF MaterializeInit, MaterializeTypeOK, Digests256, CheckpointStates
  <1>2. CheckpointsClimb
    <2>1. SubSeq(Ladder, 1, 0) = <<>>
      BY SubSeqEmpty
    <2>2. 0 \in 0..Len(Ladder)
      BY DEF Ladder
    <2> QED BY <2>1, <2>2 DEF MaterializeInit, CheckpointsClimb
  <1>3. StarterOwns /\ \A t \in Materializers : Grounded(t)
    BY DEF MaterializeInit, StarterOwns, Grounded, WorkAt, NoWork
  <1> QED BY <1>1, <1>2, <1>3 DEF MaterializeInit, MaterializeInv

(* A step that leaves the checkpoints alone. *)
LEMMA OffTheLadder ==
    ASSUME MaterializeInv, MaterializeTypeOK', UNCHANGED <<checkpoints, history>>,
           \A i \in Images : /\ manifests[i].version > 0 => manifests'[i].version > 0
                             /\ manifests'[i].version > 0 => ManifestVerifies(i)',
           \A u \in Materializers :
              work'[u] = work[u] \/ (work'[u].pc \notin {"staged", "published"} /\ Grounded(u)'),
           \A i \in announced' : manifests'[i].version > 0 /\ checkpoints[i].state # "absent"
    PROVE  MaterializeInv'
  <1>1. CheckpointsClimb'
    BY DEF MaterializeInv, CheckpointsClimb
  <1>2. StarterOwns'
    BY DEF MaterializeInv, StarterOwns, WorkAt
  <1>3. ASSUME NEW u \in Materializers PROVE Grounded(u)'
    <2>1. CASE work'[u] = work[u]
      <3>1. Grounded(u)
        BY DEF MaterializeInv
      <3>2. CASE work[u].pc = "idle"
        BY <2>1, <3>2 DEF Grounded
      <3>3. CASE work[u].pc # "idle"
        <4>1. work[u].image \in Images
          BY <3>3, WorkInProgress DEF MaterializeInv
        <4> QED BY <2>1, <3>1, <4>1 DEF Grounded
      <3> QED BY <3>2, <3>3
    <2> QED BY <2>1
  <1> QED BY <1>1, <1>2, <1>3 DEF MaterializeInv

LEMMA AsideMaterialize ==
    ASSUME MaterializeInv,
           \/ \E i \in Images, state \in ImageStates : CatalogSets(i, state)
           \/ \E t \in Materializers : \/ GetCheckpoint(t) \/ RereadCheckpoint(t) \/ AnnounceManifest(t)
                                       \/ \E i \in Images : MaterializeManifest(t, i)
           \/ UNCHANGED matVars
    PROVE  MaterializeInv'
  <1>0. MaterializeTypeOK
    BY DEF MaterializeInv
  <1>1. UNCHANGED <<manifests, checkpoints, history>>
    BY DEF CatalogSets, GetCheckpoint, RereadCheckpoint, AnnounceManifest, MaterializeManifest, matVars
  <1>2. \A i \in Images : /\ manifests[i].version > 0 => manifests'[i].version > 0
                          /\ manifests'[i].version > 0 => ManifestVerifies(i)'
    BY <1>1 DEF MaterializeInv, ManifestVerifies
  <1>3. ASSUME NEW i \in Images, NEW state \in ImageStates, CatalogSets(i, state)
        PROVE  MaterializeInv'
    <2>1. imageState' \in [Images -> ImageStates \union {"absent"}]
      BY <1>0, <1>3 DEF CatalogSets, MaterializeTypeOK
    <2>2. MaterializeTypeOK'
      BY <1>0, <1>1, <1>3, <2>1 DEF CatalogSets, MaterializeTypeOK
    <2>3. \A k \in announced' : manifests'[k].version > 0 /\ checkpoints[k].state # "absent"
      BY <1>1, <1>3 DEF CatalogSets, MaterializeInv
    <2> QED BY <1>1, <1>2, <1>3, <2>2, <2>3, OffTheLadder DEF CatalogSets
  <1>4. ASSUME NEW t \in Materializers, GetCheckpoint(t)
        PROVE  MaterializeInv'
    <2>1. work[t].pc = "get" /\ work[t].image \in Images
      BY <1>0, <1>4, WorkInProgress DEF GetCheckpoint, WorkAt
    <2>2. PICK pc : pc = IF checkpoints[work[t].image].state = "absent" THEN "start" ELSE Onward(t)
      OBVIOUS
    <2>3. pc \in {"start", "reread", "audit"}
      BY <2>2 DEF Onward
    <2>4. /\ work' \in [Materializers -> {NoWork} \union Work]
          /\ work'[t].pc = pc /\ work'[t].image = work[t].image /\ work'[t].copy = work[t].copy
          /\ \A u \in Materializers \ {t} : work'[u] = work[u]
      BY <1>0, <1>4, <2>1, <2>2, <2>3, WorkMoves DEF GetCheckpoint
    <2>5. MaterializeTypeOK'
      BY <1>0, <1>1, <1>4, <2>4 DEF GetCheckpoint, MaterializeTypeOK
    <2>6. Grounded(t)'
      <3>1. manifests[work[t].image].version > 0
        BY <2>1 DEF MaterializeInv, Grounded
      <3>2. pc \in {"reread", "audit"} => checkpoints[work[t].image].state # "absent"
        BY <2>2
      <3>3. pc = "reread" => work[t].copy = "verified"
        BY <2>2 DEF Onward
      <3> QED BY <1>1, <2>3, <2>4, <3>1, <3>2, <3>3 DEF Grounded
    <2>7. \A k \in announced' : manifests'[k].version > 0 /\ checkpoints[k].state # "absent"
      BY <1>1, <1>4 DEF GetCheckpoint, MaterializeInv
    <2> QED BY <1>1, <1>2, <2>3, <2>4, <2>5, <2>6, <2>7, OffTheLadder
  <1>5. ASSUME NEW t \in Materializers, RereadCheckpoint(t)
        PROVE  MaterializeInv'
    <2>1. work[t].pc = "reread" /\ work[t].image \in Images
      BY <1>0, <1>5, WorkInProgress DEF RereadCheckpoint, WorkAt
    <2>2. PICK pc : pc = IF checkpoints[work[t].image].state = "published" THEN "verified" ELSE "audit"
      OBVIOUS
    <2>3. pc \in {"verified", "audit"}
      BY <2>2
    <2>4. /\ work' \in [Materializers -> {NoWork} \union Work]
          /\ work'[t].pc = pc /\ work'[t].image = work[t].image /\ work'[t].copy = work[t].copy
          /\ \A u \in Materializers \ {t} : work'[u] = work[u]
      BY <1>0, <1>5, <2>1, <2>2, <2>3, WorkMoves DEF RereadCheckpoint
    <2>5. MaterializeTypeOK'
      BY <1>0, <1>1, <1>5, <2>4 DEF RereadCheckpoint, MaterializeTypeOK
    <2>6. Grounded(t)'
      <3>1. /\ manifests[work[t].image].version > 0
            /\ checkpoints[work[t].image].state # "absent"
            /\ work[t].copy = "verified"
        BY <2>1 DEF MaterializeInv, Grounded
      <3> QED BY <1>1, <2>3, <2>4, <3>1 DEF Grounded
    <2>7. \A k \in announced' : manifests'[k].version > 0 /\ checkpoints[k].state # "absent"
      BY <1>1, <1>5 DEF RereadCheckpoint, MaterializeInv
    <2> QED BY <1>1, <1>2, <2>3, <2>4, <2>5, <2>6, <2>7, OffTheLadder
  <1>6. ASSUME NEW t \in Materializers, AnnounceManifest(t)
        PROVE  MaterializeInv'
    <2>1. work[t].pc = "audit" /\ work[t].image \in Images
      BY <1>0, <1>6, WorkInProgress DEF AnnounceManifest, WorkAt
    <2>2. /\ work' \in [Materializers -> {NoWork} \union Work]
          /\ work'[t].pc = "idle"
          /\ \A u \in Materializers \ {t} : work'[u] = work[u]
      BY <1>0, <1>6, WorkEnds DEF AnnounceManifest
    <2>3. MaterializeTypeOK'
      BY <1>0, <1>1, <1>6, <2>1, <2>2 DEF AnnounceManifest, MaterializeTypeOK
    <2>4. Grounded(t)'
      BY <2>2 DEF Grounded
    <2>5. manifests[work[t].image].version > 0 /\ checkpoints[work[t].image].state # "absent"
      BY <2>1 DEF MaterializeInv, Grounded
    <2>6. \A k \in announced' : manifests'[k].version > 0 /\ checkpoints[k].state # "absent"
      BY <1>1, <1>6, <2>5 DEF AnnounceManifest, MaterializeInv
    <2> QED BY <1>1, <1>2, <2>2, <2>3, <2>4, <2>6, OffTheLadder
  <1>7. ASSUME NEW t \in Materializers, NEW i \in Images, MaterializeManifest(t, i)
        PROVE  MaterializeInv'
    <2> DEFINE w == [pc |-> "publish", image |-> i, copy |-> imageState[i]]
    <2>1. w \in Work /\ w.pc = "publish"
      BY <1>0, <1>7 DEF MaterializeManifest, MaterializeTypeOK, Work
    <2>2. work' = [work EXCEPT ![t] = w]
      BY <1>7 DEF MaterializeManifest
    <2> HIDE DEF w
    <2>3. /\ work' \in [Materializers -> {NoWork} \union Work] /\ work'[t] = w
          /\ \A u \in Materializers \ {t} : work'[u] = work[u]
      BY <1>0, <2>1, <2>2 DEF MaterializeTypeOK
    <2>4. MaterializeTypeOK'
      BY <1>0, <1>1, <1>7, <2>3 DEF MaterializeManifest, MaterializeTypeOK
    <2>5. Grounded(t)'
      BY <2>1, <2>3 DEF Grounded
    <2>6. \A k \in announced' : manifests'[k].version > 0 /\ checkpoints[k].state # "absent"
      BY <1>1, <1>7 DEF MaterializeManifest, MaterializeInv
    <2> QED BY <1>1, <1>2, <2>1, <2>3, <2>4, <2>5, <2>6, OffTheLadder
  <1>8. CASE UNCHANGED matVars
    <2>1. MaterializeTypeOK'
      BY <1>0, <1>8 DEF matVars, MaterializeTypeOK
    <2>2. \A k \in announced' : manifests'[k].version > 0 /\ checkpoints[k].state # "absent"
      BY <1>8 DEF matVars, MaterializeInv
    <2> QED BY <1>1, <1>2, <1>8, <2>1, <2>2, OffTheLadder DEF matVars
  <1> QED BY <1>3, <1>4, <1>5, <1>6, <1>7, <1>8

LEMMA PublishManifestKeeps ==
    ASSUME MaterializeInv, NEW t \in Materializers, PublishManifest(t)
    PROVE  MaterializeInv'
  <1>0. MaterializeTypeOK
    BY DEF MaterializeInv
  <1>1. PICK i, copy : i = work[t].image /\ copy = work[t].copy
    OBVIOUS
  <1>2. work[t].pc = "publish" /\ i \in Images /\ copy \in ImageStates
    BY <1>0, <1>1, WorkInProgress DEF PublishManifest, WorkAt
  <1>3. /\ work' \in [Materializers -> {NoWork} \union Work]
        /\ work'[t].pc = "get" /\ work'[t].image = i
        /\ \A u \in Materializers \ {t} : work'[u] = work[u]
    BY <1>0, <1>1, <1>2, WorkMoves DEF PublishManifest
  <1> DEFINE m == [version |-> manifests[i].version + 1, payload |-> copy, digest |-> PayloadDigest(copy)]
  <1>4. manifests[i].version \in Nat
    BY <1>0, <1>2 DEF MaterializeTypeOK
  <1>5. /\ m \in [version: Nat, payload: ImageStates \union {"absent"}, digest: Digests256]
        /\ m.version > 0 /\ m.digest = PayloadDigest(m.payload)
    BY <1>2, <1>4 DEF Digests256
  <1>6. manifests' = [manifests EXCEPT ![i] = m] /\ UNCHANGED <<imageState, checkpoints, history, announced>>
    BY <1>1, <1>2 DEF PublishManifest
  <1> HIDE DEF m
  <1>7. /\ manifests'[i] = m
        /\ \A k \in Images \ {i} : manifests'[k] = manifests[k]
    BY <1>0, <1>2, <1>6 DEF MaterializeTypeOK
  <1>8. MaterializeTypeOK'
    BY <1>0, <1>3, <1>5, <1>6 DEF MaterializeTypeOK
  <1>9. \A k \in Images : /\ manifests[k].version > 0 => manifests'[k].version > 0
                          /\ manifests'[k].version > 0 => ManifestVerifies(k)'
    BY <1>5, <1>7 DEF MaterializeInv, ManifestVerifies
  <1>10. Grounded(t)'
    BY <1>3, <1>5, <1>7 DEF Grounded
  <1>11. \A k \in announced' : manifests'[k].version > 0 /\ checkpoints[k].state # "absent"
    <2>1. announced \subseteq Images
      BY <1>0 DEF MaterializeTypeOK
    <2> QED BY <1>6, <1>9, <2>1 DEF MaterializeInv
  <1> QED BY <1>3, <1>6, <1>8, <1>9, <1>10, <1>11, OffTheLadder

(* A call that is refused ends and changes nothing. *)
LEMMA RefusedKeeps ==
    ASSUME MaterializeInv, NEW t \in Materializers, WorkReturn(t),
           UNCHANGED <<imageState, manifests, checkpoints, history, announced>>
    PROVE  MaterializeInv'
  <1>0. MaterializeTypeOK
    BY DEF MaterializeInv
  <1>1. /\ work' \in [Materializers -> {NoWork} \union Work]
        /\ work'[t].pc = "idle"
        /\ \A u \in Materializers \ {t} : work'[u] = work[u]
    BY <1>0, WorkEnds
  <1>2. MaterializeTypeOK'
    BY <1>0, <1>1 DEF MaterializeTypeOK
  <1>3. Grounded(t)'
    BY <1>1 DEF Grounded
  <1>4. \A i \in Images : /\ manifests[i].version > 0 => manifests'[i].version > 0
                          /\ manifests'[i].version > 0 => ManifestVerifies(i)'
    BY DEF MaterializeInv, ManifestVerifies
  <1>5. \A k \in announced' : manifests'[k].version > 0 /\ checkpoints[k].state # "absent"
    BY DEF MaterializeInv
  <1> QED BY <1>1, <1>2, <1>3, <1>4, <1>5, OffTheLadder

(* The checkpoint of one snapshot climbs by one rung. *)
LEMMA ClimbKeeps ==
    ASSUME MaterializeInv, MaterializeTypeOK',
           NEW t \in Materializers, NEW i \in Images, i = work[t].image,
           work[t].pc \in {"start", "staged", "published", "verified"},
           NEW n \in 0..3, checkpoints[i].state = IF n = 0 THEN "absent" ELSE Ladder[n],
           n \in {1, 2} => work[t].pc = Ladder[n + 1],
           history'[i] = SubSeq(Ladder, 1, n + 1), checkpoints'[i].state = Ladder[n + 1],
           n = 3 => checkpoints'[i].digest = PayloadDigest("verified"),
           \A k \in Images \ {i} : checkpoints'[k] = checkpoints[k] /\ history'[k] = history[k],
           work'[t].pc \in {"staged", "published", "reread", "audit"},
           work'[t].pc = "staged" <=> n = 0, work'[t].pc = "published" <=> n = 1,
           work'[t].pc = "reread" => work'[t].copy = "verified",
           work'[t].image = i, \A u \in Materializers \ {t} : work'[u] = work[u],
           UNCHANGED <<manifests, announced>>
    PROVE  MaterializeInv'
  <1>0. MaterializeTypeOK
    BY DEF MaterializeInv
  <1>1. /\ Ladder[1] = "prepared" /\ Ladder[2] = "staged"
        /\ Ladder[3] = "published" /\ Ladder[4] = "verified" /\ Len(Ladder) = 4
    BY DEF Ladder
  <1>2. Ladder[n + 1] # "absent"
    BY <1>1
  <1>9. CheckpointsClimb'
    <2> DEFINE Climbed(k) ==
                  /\ \E m \in 0..Len(Ladder) : history'[k] = SubSeq(Ladder, 1, m)
                  /\ checkpoints'[k].state =
                        IF history'[k] = <<>> THEN "absent" ELSE history'[k][Len(history'[k])]
                  /\ checkpoints'[k].state = "verified" =>
                        checkpoints'[k].digest = PayloadDigest("verified")
    <2>1. Climbed(i)
      <3>1. n + 1 \in 0..4 /\ n + 1 # 0 /\ (n = 0 \/ n = 1 \/ n = 2 \/ n = 3)
        OBVIOUS
      <3>2. PICK h, s : h = history'[i] /\ s = checkpoints'[i].state
        OBVIOUS
      <3>3. h = SubSeq(Ladder, 1, n + 1) /\ s = IF n + 1 = 0 THEN "absent" ELSE Ladder[n + 1]
        BY <3>1, <3>2
      <3>4. /\ \E m \in 0..Len(Ladder) : h = SubSeq(Ladder, 1, m)
            /\ s = IF h = <<>> THEN "absent" ELSE h[Len(h)]
        <4>1. PICK r \in 0..4 : r = n + 1
          BY <3>1
        <4>2. h = SubSeq(Ladder, 1, r) /\ s = IF r = 0 THEN "absent" ELSE Ladder[r]
          BY <3>3, <4>1
        <4> QED BY <4>2, RungClimbs, ZenonT(60)
      <3>5. Ladder[n + 1] = "verified" => n = 3
        BY <1>1, <3>1
      <3>6. checkpoints'[i].state = "verified" => checkpoints'[i].digest = PayloadDigest("verified")
        BY <3>5
      <3> QED BY <3>2, <3>4, <3>6
    <2>2. ASSUME NEW k \in Images \ {i} PROVE Climbed(k)
      BY <2>2, SMTT(30) DEF MaterializeInv, CheckpointsClimb
    <2> HIDE DEF Climbed
    <2>3. \A k \in Images : Climbed(k)
      BY <2>1, <2>2, Zenon
    <2> QED BY <2>3, Zenon DEF CheckpointsClimb, Climbed
  <1>10. StarterOwns'
    <2>1. ASSUME NEW u \in Materializers \ {t}, work[u].pc \in {"staged", "published"}
          PROVE  work[u].image # i
      <3>1. CASE n = 0
        BY <1>1, <2>1, <3>1 DEF MaterializeInv, StarterOwns, WorkAt
      <3>2. CASE n \in {1, 2}
        BY <1>1, <2>1, <3>2 DEF MaterializeInv, StarterOwns, WorkAt
      <3>3. CASE n = 3
        BY <1>1, <2>1, <3>3 DEF MaterializeInv, StarterOwns, WorkAt
      <3> QED BY <3>1, <3>2, <3>3
    <2>2. ASSUME NEW u \in Materializers
          PROVE  /\ work'[u].pc = "staged" => checkpoints'[work'[u].image].state = "prepared"
                 /\ work'[u].pc = "published" => checkpoints'[work'[u].image].state = "staged"
      <3>1. CASE u = t
        BY <1>1, <3>1
      <3>2. CASE u # t
        <4>1. work'[u] = work[u]
          BY <3>2
        <4>2. CASE work[u].pc \in {"staged", "published"}
          <5>1. work[u].image \in Images \ {i}
            BY <1>0, <2>1, <3>2, <4>2, WorkInProgress
          <5> QED BY <4>1, <5>1 DEF MaterializeInv, StarterOwns, WorkAt
        <4> QED BY <4>1, <4>2
      <3> QED BY <3>1, <3>2
    <2>3. ASSUME NEW u \in Materializers, NEW v \in Materializers \ {u},
                 work'[u].pc \in {"staged", "published"}, work'[v].pc \in {"staged", "published"}
          PROVE  work'[v].image # work'[u].image
      <3>1. CASE u = t
        <4>1. work'[v] = work[v] /\ v # t
          BY <3>1
        <4> QED BY <2>1, <2>3, <3>1, <4>1
      <3>2. CASE v = t
        <4>1. work'[u] = work[u] /\ u # t
          BY <3>2
        <4> QED BY <2>1, <2>3, <3>2, <4>1
      <3>3. CASE u # t /\ v # t
        <4>1. work'[u] = work[u] /\ work'[v] = work[v]
          BY <3>3
        <4> QED BY <2>3, <4>1 DEF MaterializeInv, StarterOwns, WorkAt
      <3> QED BY <3>1, <3>2, <3>3
    <2> QED BY <2>2, <2>3 DEF StarterOwns, WorkAt
  <1>11. \A k \in Images : checkpoints[k].state # "absent" => checkpoints'[k].state # "absent"
    BY <1>2
  <1>12. ASSUME NEW u \in Materializers PROVE Grounded(u)'
    <2>1. Grounded(u)
      BY DEF MaterializeInv
    <2>2. CASE u = t
      <3>1. manifests[i].version > 0
        BY <2>1, <2>2 DEF Grounded
      <3> QED BY <1>2, <2>2, <3>1 DEF Grounded
    <2>3. CASE u # t
      <3>1. work'[u] = work[u]
        BY <2>3
      <3>2. CASE work[u].pc = "idle"
        BY <3>1, <3>2 DEF Grounded
      <3>3. CASE work[u].pc # "idle"
        <4>1. work[u].image \in Images
          BY <1>0, <3>3, WorkInProgress
        <4> QED BY <1>11, <2>1, <3>1, <4>1 DEF Grounded
      <3> QED BY <3>2, <3>3
    <2> QED BY <2>2, <2>3
  <1>13. \A k \in Images : manifests'[k].version > 0 => ManifestVerifies(k)'
    BY DEF MaterializeInv, ManifestVerifies
  <1>14. \A k \in announced' : manifests'[k].version > 0 /\ checkpoints'[k].state # "absent"
    <2>1. announced \subseteq Images
      BY <1>0 DEF MaterializeTypeOK
    <2> QED BY <1>11, <2>1 DEF MaterializeInv
  <1> QED BY <1>9, <1>10, <1>12, <1>13, <1>14 DEF MaterializeInv

LEMMA StartCheckpointKeeps ==
    ASSUME MaterializeInv, NEW t \in Materializers, StartCheckpoint(t)
    PROVE  MaterializeInv'
  <1>0. MaterializeTypeOK
    BY DEF MaterializeInv
  <1>1. PICK i : i = work[t].image
    OBVIOUS
  <1>2. work[t].pc = "start" /\ i \in Images
    BY <1>0, <1>1, WorkInProgress DEF StartCheckpoint, WorkAt
  <1>3. UNCHANGED <<imageState, manifests, announced>>
    BY DEF StartCheckpoint
  <1>4. CASE WorkReturn(t) /\ UNCHANGED <<checkpoints, history>>
    BY <1>3, <1>4, RefusedKeeps
  <1>5. CASE /\ checkpoints[i].state = "absent"
             /\ checkpoints' = [checkpoints EXCEPT ![i] = [state |-> "prepared", digest |-> NoDigest]]
             /\ history' = [history EXCEPT ![i] = <<"prepared">>]
             /\ WorkGoto(t, "staged")
    <2>1. /\ Ladder[1] = "prepared" /\ Ladder[2] = "staged"
          /\ Ladder[3] = "published" /\ Ladder[4] = "verified"
      BY DEF Ladder
    <2>2. PICK n \in 0..4 : /\ history[i] = SubSeq(Ladder, 1, n)
                            /\ checkpoints[i].state = IF n = 0 THEN "absent" ELSE Ladder[n]
      BY <1>2, CheckpointRung
    <2>3. n = 0
      <3>1. n = 0 \/ n = 1 \/ n = 2 \/ n = 3 \/ n = 4
        OBVIOUS
      <3> QED BY <1>5, <2>1, <2>2, <3>1
    <2>4. <<"prepared">> = SubSeq(Ladder, 1, 1) /\ <<"prepared">> \in Seq(CheckpointStates)
      <3>1. SubSeq(Ladder, 1, 0) = <<>>
        BY SubSeqEmpty
      <3>2. Append(SubSeq(Ladder, 1, 0), Ladder[0 + 1]) = SubSeq(Ladder, 1, 0 + 1)
        BY LadderPrefix
      <3> QED BY <2>1, <3>1, <3>2 DEF CheckpointStates
    <2>5. /\ history' \in [Images -> Seq(CheckpointStates)] /\ history'[i] = SubSeq(Ladder, 1, 1)
          /\ \A k \in Images \ {i} : history'[k] = history[k]
      BY <1>0, <1>2, <1>5, <2>4 DEF MaterializeTypeOK
    <2>6. /\ checkpoints' \in [Images -> [state: CheckpointStates, digest: Digests256]]
          /\ checkpoints'[i].state = "prepared"
          /\ \A k \in Images \ {i} : checkpoints'[k] = checkpoints[k]
      BY <1>0, <1>2, <1>5 DEF MaterializeTypeOK, Digests256, CheckpointStates
    <2>7. /\ work' \in [Materializers -> {NoWork} \union Work]
          /\ work'[t].pc = "staged" /\ work'[t].image = i
          /\ \A u \in Materializers \ {t} : work'[u] = work[u]
      BY <1>0, <1>1, <1>2, <1>5, WorkMoves
    <2>8. MaterializeTypeOK'
      BY <1>0, <1>3, <2>5, <2>6, <2>7 DEF MaterializeTypeOK
    <2> QED BY <1>1, <1>2, <1>3, <1>5, <2>1, <2>5, <2>6, <2>7, <2>8, ClimbKeeps
  <1> QED BY <1>1, <1>4, <1>5 DEF StartCheckpoint

LEMMA AdvanceKeeps ==
    ASSUME MaterializeInv, NEW t \in Materializers,
           NEW next \in {"staged", "published", "verified"},
           NEW onward \in {"published", "reread", "audit"}, Advance(t, next, onward),
           onward = "published" <=> next = "staged",
           onward = "reread" => work[t].copy = "verified"
    PROVE  MaterializeInv'
  <1>0. MaterializeTypeOK
    BY DEF MaterializeInv
  <1>1. PICK i, copy : i = work[t].image /\ copy = work[t].copy
    OBVIOUS
  <1>2. work[t].pc = next /\ i \in Images /\ copy \in ImageStates
    BY <1>0, <1>1, WorkInProgress DEF Advance, WorkAt
  <1>3. UNCHANGED <<imageState, manifests, announced>>
    BY DEF Advance
  <1>4. CASE WorkReturn(t) /\ UNCHANGED <<checkpoints, history>>
    BY <1>3, <1>4, RefusedKeeps
  <1>5. CASE /\ Allowed(checkpoints[i].state, next)
             /\ checkpoints' = [checkpoints EXCEPT ![i] = [state |-> next, digest |-> PayloadDigest(copy)]]
             /\ history' = [history EXCEPT ![i] = Append(@, next)]
             /\ WorkGoto(t, onward)
    <2>1. /\ Ladder[1] = "prepared" /\ Ladder[2] = "staged"
          /\ Ladder[3] = "published" /\ Ladder[4] = "verified"
      BY DEF Ladder
    <2>2. PICK n \in 0..4 : /\ history[i] = SubSeq(Ladder, 1, n)
                            /\ checkpoints[i].state = IF n = 0 THEN "absent" ELSE Ladder[n]
      BY <1>2, CheckpointRung
    <2>3. /\ n \in 1..3 /\ next = Ladder[n + 1]
          /\ next = "staged" <=> n = 1
          /\ n = 3 => next = "verified"
      <3>1. n = 0 \/ n = 1 \/ n = 2 \/ n = 3 \/ n = 4
        OBVIOUS
      <3> QED BY <1>5, <2>1, <2>2, <3>1 DEF Allowed
    <2>4. n = 3 => PayloadDigest(copy) = PayloadDigest("verified")
      BY <1>1, <1>2, <2>3 DEF MaterializeInv, Grounded
    <2>5. PayloadDigest(copy) \in Digests256
      BY <1>2 DEF Digests256
    <2>6. /\ Append(history[i], next) = SubSeq(Ladder, 1, n + 1)
          /\ SubSeq(Ladder, 1, n + 1) \in Seq(CheckpointStates)
      <3>1. n < 4 /\ n + 1 \in 0..4
        BY <2>3
      <3>2. Append(SubSeq(Ladder, 1, n), Ladder[n + 1]) = SubSeq(Ladder, 1, n + 1)
        BY <3>1, LadderPrefix
      <3>3. SubSeq(Ladder, 1, n + 1) \in Seq(CheckpointStates)
        BY <3>1, LadderPrefix
      <3> QED BY <2>2, <2>3, <3>2, <3>3
    <2>7. /\ history' \in [Images -> Seq(CheckpointStates)] /\ history'[i] = SubSeq(Ladder, 1, n + 1)
          /\ \A k \in Images \ {i} : history'[k] = history[k]
      BY <1>0, <1>2, <1>5, <2>6 DEF MaterializeTypeOK
    <2> DEFINE c == [state |-> next, digest |-> PayloadDigest(copy)]
    <2>8. /\ c \in [state: CheckpointStates, digest: Digests256]
          /\ c.state = next /\ c.digest = PayloadDigest(copy)
      BY <2>5 DEF CheckpointStates
    <2>9. checkpoints' = [checkpoints EXCEPT ![i] = c]
      BY <1>5
    <2> HIDE DEF c
    <2>10. /\ checkpoints' \in [Images -> [state: CheckpointStates, digest: Digests256]]
           /\ checkpoints'[i] = c
           /\ \A k \in Images \ {i} : checkpoints'[k] = checkpoints[k]
      BY <1>0, <1>2, <2>8, <2>9 DEF MaterializeTypeOK
    <2>11. /\ work' \in [Materializers -> {NoWork} \union Work]
           /\ work'[t].pc = onward /\ work'[t].image = i /\ work'[t].copy = work[t].copy
           /\ \A u \in Materializers \ {t} : work'[u] = work[u]
      BY <1>0, <1>1, <1>2, <1>5, WorkMoves
    <2>12. MaterializeTypeOK'
      BY <1>0, <1>3, <2>7, <2>10, <2>11 DEF MaterializeTypeOK
    <2>13. /\ n \in 0..3 /\ n # 0 /\ (work'[t].pc = "published" <=> n = 1)
           /\ checkpoints'[i].state = Ladder[n + 1]
           /\ n = 3 => checkpoints'[i].digest = PayloadDigest("verified")
      BY <2>3, <2>4, <2>8, <2>10, <2>11
    <2>14. work'[t].pc = "reread" => work'[t].copy = "verified"
      BY <2>11
    <2>15. /\ work[t].pc \in {"start", "staged", "published", "verified"}
           /\ n \in {1, 2} => work[t].pc = Ladder[n + 1]
           /\ work'[t].pc \in {"staged", "published", "reread", "audit"}
           /\ work'[t].pc = "staged" <=> n = 0
      BY <1>2, <2>3, <2>11
    <2>16. \A k \in Images \ {i} : checkpoints'[k] = checkpoints[k] /\ history'[k] = history[k]
      BY <2>7, <2>10
    <2> QED BY <1>1, <1>2, <1>3, <2>2, <2>7, <2>11, <2>12, <2>13, <2>14, <2>15, <2>16, ClimbKeeps
  <1> QED BY <1>1, <1>4, <1>5 DEF Advance

(* However calls for one snapshot race, its checkpoint climbs the four states in
   order, the goroutine that started it takes it to published unrefused, it is
   verified only over the manifest of the verified snapshot, stored payloads
   match their digests, and an announced snapshot has both records. *)
THEOREM MaterializeInvariant == MaterializeSpec => []MaterializeInv
  <1>1. ASSUME MaterializeInv, NEW t \in Materializers, AdvancePublished(t)
        PROVE  MaterializeInv'
    <2>1. PICK onward : onward = Onward(t)
      OBVIOUS
    <2>2. onward \in {"reread", "audit"} /\ (onward = "reread" => work[t].copy = "verified")
      BY <2>1 DEF Onward
    <2>3. Advance(t, "published", onward)
      BY <1>1, <2>1 DEF AdvancePublished
    <2> QED BY <1>1, <2>2, <2>3, AdvanceKeeps
  <1>2. ASSUME MaterializeInv, NEW t \in Materializers, AdvanceStaged(t) \/ AdvanceVerified(t)
        PROVE  MaterializeInv'
    BY <1>2, AdvanceKeeps DEF AdvanceStaged, AdvanceVerified
  <1>3. MaterializeInv /\ [MaterializeNext]_matVars => MaterializeInv'
    BY <1>1, <1>2, AsideMaterialize, PublishManifestKeeps, StartCheckpointKeeps
       DEF MaterializeNext, MaterializeStep
  <1> QED BY <1>3, MaterializeInvInit, PTL DEF MaterializeSpec
=============================================================================
