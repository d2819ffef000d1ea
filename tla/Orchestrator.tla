----------------------------- MODULE Orchestrator -----------------------------
(***************************************************************************)
(* Scheduled runs: internal/orchestrator under RunScheduledJob and         *)
(* RegisterOrchestrationPolicy of the service.                             *)
(*                                                                         *)
(* RunScheduledJob works on a copy of the policy; Runbook.Start asks for   *)
(* the limit again, of the policy as it is then.  The journal, the audit   *)
(* ledger, the runbook and the window lock for one method each.  The time  *)
(* of day is the clock modulo Day.  Interval and the scheduler that uses   *)
(* it answer a query and change nothing; they are left out.                *)
(***************************************************************************)
EXTENDS Journal, Window, FiniteSets

CONSTANTS Threads,
          Policies,
          Limits,     \* values of MaxConcurrent
          Day,        \* length of a day
          Windows,    \* pairs of AllowedStart and AllowedEnd
          Length,     \* Window.length
          MaxRuns,    \* BOUND on the runs started
          MaxTime     \* BOUND on the clock

ASSUME OrchestratorAssumption ==
    /\ Limits \subseteq Nat \ {0}
    /\ Windows \subseteq (0..Day) \X (0..Day)
    /\ Day \in Nat \ {0} /\ Length \in Nat /\ MaxRuns \in Nat /\ MaxTime \in Nat

VARIABLES now,        \* what the clock shows
          policies,   \* the policies registered, one per id at most
          highest,    \* history: policy -> the greatest limit it ever had
          runs,       \* Runbook.runs: the runs by number, their order of start
          active,     \* Runbook.active
          last,       \* Runbook.last: number of the run that finished last, 0 if none
          items,      \* Window.items
          audit,      \* runs the audit ledger has an event of
          call        \* goroutine -> the call it is in

orchVars == <<now, policies, highest, runs, active, last, items, audit, entries, closed, call>>

Ids == 1..MaxRuns

Policy == [id: Policies, enabled: BOOLEAN, max: Limits, window: Windows]

Run == [policy: Policies, finished: BOOLEAN, at: Nat, ok: BOOLEAN]

RunEntry == [kind: {"orchestration-run"}, snap: Policies, op: Ids]

Idle == [pc |-> "idle"]

Running == {"journal", "audit", "clock", "finish"}

Call ==
    {Idle}
    \union [pc: {"allows", "start"}, policy: Policy]
    \union [pc: Running \union {"outcome"}, run: Ids, ok: BOOLEAN, at: Nat]

OrchestratorTypeOK ==
    /\ now \in Nat
    /\ policies \subseteq Policy
    /\ highest \in [Policies -> Nat]
    /\ runs \in Seq(Run)
    /\ active \in [Policies -> Nat]
    /\ last \in [Policies -> Ids \union {0}]
    /\ items \in Seq([policy: Policies, ok: BOOLEAN, at: Nat])
    /\ audit \subseteq Ids
    /\ entries \in Seq(RunEntry)
    /\ closed \in BOOLEAN
    /\ call \in [Threads -> Call]

OrchestratorInit ==
    /\ now = 0
    /\ policies = {}
    /\ highest = [p \in Policies |-> 1]
    /\ runs = <<>>
    /\ active = [p \in Policies |-> 0]
    /\ last = [p \in Policies |-> 0]
    /\ items = <<>>
    /\ audit = {}
    /\ JournalInit
    /\ call = [t \in Threads |-> Idle]

At(t, pc) == call[t].pc = pc

Goto(t, pc) == call' = [call EXCEPT ![t].pc = pc]

Return(t) == call' = [call EXCEPT ![t] = Idle]

------------------------------------------------------------------------------
(* RegisterOrchestrationPolicy; Validate refuses a policy with no window. *)
RegisterPolicy(policy) ==
    /\ policy.window[1] < policy.window[2]
    /\ policies' = {p \in policies : p.id # policy.id} \union {policy}
    /\ highest' = [highest EXCEPT ![policy.id] = IF policy.max > @ THEN policy.max ELSE @]
    /\ UNCHANGED <<now, runs, active, last, items, audit, entries, closed, call>>

(* The limit function that New gives the runbook. *)
Limit(id) ==
    IF \E p \in policies : p.id = id
    THEN (CHOOSE p \in policies : p.id = id).max ELSE 1

------------------------------------------------------------------------------
(* RunScheduledJob(policyID, snapshotID)                                    *)

RunScheduledJob(t, policy) ==
    /\ At(t, "idle")
    /\ policy.enabled
    /\ call' = [call EXCEPT ![t] = [pc |-> "allows", policy |-> policy]]
    /\ UNCHANGED <<now, policies, highest, runs, active, last, items, audit, entries, closed>>

(* Policy.Allows: the window is closed on the left and open on the right. *)
Allows(policy) == now % Day \in policy.window[1]..(policy.window[2] - 1)

CheckWindow(t) ==
    /\ At(t, "allows")
    /\ IF Allows(call[t].policy) THEN Goto(t, "start") ELSE Return(t)
    /\ UNCHANGED <<now, policies, highest, runs, active, last, items, audit, entries, closed>>

(* Mutant of Start: the limit is reached only once it is passed. *)
StartOneMore(t) ==
    /\ At(t, "start")
    /\ LET id == call[t].policy.id IN
       \/ /\ active[id] > Limit(id)
          /\ Return(t)
          /\ UNCHANGED <<runs, active>>
       \/ /\ active[id] <= Limit(id)
          /\ Len(runs) < MaxRuns
          /\ runs' = Append(runs, [policy |-> id, finished |-> FALSE, at |-> 0, ok |-> FALSE])
          /\ active' = [active EXCEPT ![id] = @ + 1]
          /\ call' = [call EXCEPT ![t] =
                [pc |-> "journal", run |-> Len(runs) + 1, ok |-> FALSE, at |-> 0]]
    /\ UNCHANGED <<now, policies, highest, last, items, audit, entries, closed>>

(* Runbook.Start *)
Start(t) ==
    /\ At(t, "start")
    /\ LET id == call[t].policy.id IN
       \/ /\ active[id] >= Limit(id)
          /\ Return(t)
          /\ UNCHANGED <<runs, active>>
       \/ /\ active[id] < Limit(id)
          /\ Len(runs) < MaxRuns
          /\ runs' = Append(runs, [policy |-> id, finished |-> FALSE, at |-> 0, ok |-> FALSE])
          /\ active' = [active EXCEPT ![id] = @ + 1]
          /\ call' = [call EXCEPT ![t] =
                [pc |-> "journal", run |-> Len(runs) + 1, ok |-> FALSE, at |-> 0]]
    /\ UNCHANGED <<now, policies, highest, last, items, audit, entries, closed>>

(* Mutant of JournalRun: its early return skips the deferred function. *)
JournalRunNoDefer(t) ==
    /\ At(t, "journal")
    /\ LET c == call[t] IN
       \/ /\ AppendEntry([kind |-> "orchestration-run", snap |-> runs[c.run].policy, op |-> c.run])
          /\ Goto(t, "audit")
       \/ /\ closed
          /\ Return(t)
          /\ UNCHANGED <<entries, closed>>
    /\ UNCHANGED <<now, policies, highest, runs, active, last, items, audit>>

JournalRun(t) ==
    /\ At(t, "journal")
    /\ LET c == call[t] IN
       \/ /\ AppendEntry([kind |-> "orchestration-run", snap |-> runs[c.run].policy, op |-> c.run])
          /\ Goto(t, "audit")
       \/ /\ closed
          /\ Goto(t, "clock")
          /\ UNCHANGED <<entries, closed>>
    /\ UNCHANGED <<now, policies, highest, runs, active, last, items, audit>>

RecordAudit(t) ==
    /\ At(t, "audit")
    /\ audit' = audit \union {call[t].run}
    /\ call' = [call EXCEPT ![t] = [pc |-> "clock", run |-> @.run, ok |-> TRUE, at |-> @.at]]
    /\ UNCHANGED <<now, policies, highest, runs, active, last, items, entries, closed>>

(* The deferred function reads the clock, finishes the run, adds the outcome. *)
ReadClock(t) ==
    /\ At(t, "clock")
    /\ call' = [call EXCEPT ![t] = [pc |-> "finish", run |-> @.run, ok |-> @.ok, at |-> now]]
    /\ UNCHANGED <<now, policies, highest, runs, active, last, items, audit, entries, closed>>

(* Mutant of Finish: a failed run is not taken off the active ones. *)
FinishSucceeded(t) ==
    /\ At(t, "finish")
    /\ LET c == call[t]
           id == runs[c.run].policy
       IN  /\ runs' = [runs EXCEPT ![c.run] =
                 [policy |-> id, finished |-> TRUE, at |-> c.at, ok |-> c.ok]]
           /\ active' = [active EXCEPT ![id] = IF c.ok THEN @ - 1 ELSE @]
           /\ last' = [last EXCEPT ![id] = c.run]
    /\ Goto(t, "outcome")
    /\ UNCHANGED <<now, policies, highest, items, audit, entries, closed>>

(* Runbook.Finish; an error, which is ignored, would leave the runbook alone. *)
Finish(t) ==
    /\ At(t, "finish")
    /\ LET c == call[t]
           id == runs[c.run].policy
       IN  IF runs[c.run].finished THEN UNCHANGED <<runs, active, last>>
           ELSE /\ runs' = [runs EXCEPT ![c.run] =
                      [policy |-> id, finished |-> TRUE, at |-> c.at, ok |-> c.ok]]
                /\ active' = [active EXCEPT ![id] = IF @ > 0 THEN @ - 1 ELSE 0]
                /\ last' = [last EXCEPT ![id] = c.run]
    /\ Goto(t, "outcome")
    /\ UNCHANGED <<now, policies, highest, items, audit, entries, closed>>

AddOutcome(t) ==
    /\ At(t, "outcome")
    /\ LET c == call[t] IN
       items' = Pruned(Append(items, [policy |-> runs[c.run].policy, ok |-> c.ok, at |-> c.at]),
                       now, Length)
    /\ Return(t)
    /\ UNCHANGED <<now, policies, highest, runs, active, last, audit, entries, closed>>

(* Outcomes() and FailureRate() prune as well. *)
ReadOutcomes ==
    /\ items' = Pruned(items, now, Length)
    /\ UNCHANGED <<now, policies, highest, runs, active, last, audit, entries, closed, call>>

------------------------------------------------------------------------------
PassTime ==
    /\ now < MaxTime
    /\ now' = now + 1
    /\ UNCHANGED <<policies, highest, runs, active, last, items, audit, entries, closed, call>>

Step(t) ==
    \/ CheckWindow(t) \/ Start(t) \/ JournalRun(t) \/ RecordAudit(t)
    \/ ReadClock(t) \/ Finish(t) \/ AddOutcome(t)

Environment ==
    \/ \E policy \in Policy : RegisterPolicy(policy)
    \/ \E t \in Threads, policy \in policies : RunScheduledJob(t, policy)
    \/ ReadOutcomes
    \/ PassTime
    \/ /\ CloseJournal \/ OpenJournal
       /\ UNCHANGED <<now, policies, highest, runs, active, last, items, audit, call>>

OrchestratorNext == Environment \/ \E t \in Threads : Step(t)

OrchestratorSpec == OrchestratorInit /\ [][OrchestratorNext]_orchVars

(* A goroutine inside RunScheduledJob is scheduled again. *)
OrchestratorFairness == \A t \in Threads : WF_orchVars(Step(t))

FairOrchestratorSpec == OrchestratorSpec /\ OrchestratorFairness

------------------------------------------------------------------------------
(* Properties.                                                              *)

(* The runs of a policy that have started and not finished. *)
Unfinished(p) == {i \in DOMAIN runs : runs[i].policy = p /\ ~runs[i].finished}

(* The counter that limits concurrency counts exactly the unfinished runs, and
   each of those belongs to a goroutine that will finish it: failed runs and
   changes of the policy never use up a policy's slots. *)
ActiveIsUnfinished ==
    \A p \in Policies :
        /\ active[p] = Cardinality(Unfinished(p))
        /\ \A i \in Unfinished(p) : \E t \in Threads : call[t].pc \in Running /\ call[t].run = i

(* No more runs of a policy are in progress than the greatest limit it ever had,
   however its policy is changed between the reads of RunScheduledJob and of
   Start, and however runs fail: a smaller limit stops no run, so the limit in
   force may be exceeded for a while, but the greatest one never is.          *)
WithinTheLimit ==
    \A p \in Policies : Cardinality(Unfinished(p)) <= highest[p]

(* What it rests on: Start compares with a limit of the past or the present. *)
LimitsAreKnown ==
    /\ \A p \in Policies : highest[p] >= 1
    /\ \A policy \in policies : policy.max <= highest[policy.id]

(* A finished run succeeded if and only if it is in the journal: a run that
   met a closed journal is a failed one, also in the audit ledger. *)
SucceededIsJournaled ==
    \A i \in DOMAIN runs : runs[i].finished =>
        /\ runs[i].ok <=> Logged("orchestration-run", runs[i].policy, i)
        /\ runs[i].ok <=> i \in audit

(* Every run that starts finishes, whatever happens to the journal. *)
StartedFinishes ==
    \A i \in Ids : (i \in DOMAIN runs) ~> (i \in DOMAIN runs /\ runs[i].finished)

(* One goroutine per run, and what the journal and the audit ledger hold of the
   run at each of its steps. *)
RunsAreOwned ==
    \A t \in Threads : call[t].pc \in Running =>
        LET c == call[t]
            logged == Logged("orchestration-run", runs[c.run].policy, c.run)
        IN  /\ c.run \in DOMAIN runs /\ ~runs[c.run].finished
            /\ \A u \in Threads \ {t} : call[u].pc \in Running => call[u].run # c.run
            /\ At(t, "journal") => ~logged /\ ~c.ok /\ c.run \notin audit
            /\ At(t, "audit") => logged /\ ~c.ok /\ c.run \notin audit
            /\ call[t].pc \in {"clock", "finish"} =>
                  (c.ok <=> logged) /\ (c.ok <=> c.run \in audit)

(* The inductive invariant: types, the two promises, the owners of the runs, and
   that the journal, the audit ledger and the outcomes are of runs that started. *)
OrchestratorInv ==
    /\ OrchestratorTypeOK
    /\ ActiveIsUnfinished
    /\ SucceededIsJournaled
    /\ RunsAreOwned
    /\ audit \subseteq DOMAIN runs
    /\ \A t \in Threads : At(t, "outcome") => call[t].run \in DOMAIN runs
    /\ \A i \in DOMAIN entries : entries[i].op \in DOMAIN runs
=============================================================================
