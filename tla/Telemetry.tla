------------------------------ MODULE Telemetry ------------------------------
(***************************************************************************)
(* internal/telemetry: the counters, the bounded event list and the event  *)
(* window that observations go to, and the two readers that put an answer  *)
(* together from several locked reads, HealthSnapshot and FailureRate.     *)
(* Observations arrive between any two of those reads; readers change      *)
(* nothing that another reads, so one at a time is enough.  Window.mu is   *)
(* only taken under Registry.mu, so an observation is one step.            *)
(***************************************************************************)
EXTENDS Window, FiniteSets

CONSTANTS Names,          \* operations observed
          Limit,          \* Registry.limit: 64 in the service, never below 8
          WindowLength,
          ObserveTimes,   \* clock readings of callers
          MaxObserved     \* BOUND: observations

ASSUME TelemetryAssumption ==
    /\ Limit \in Nat \ {0} /\ WindowLength \in Nat /\ MaxObserved \in Nat
    /\ ObserveTimes \subseteq Nat /\ 0 \in ObserveTimes

VARIABLES counters,      \* name -> observations
          latency,       \* name -> their durations, added up
          events,        \* the latest observations
          recent,        \* Window.events
          wallClock,     \* the window's own clock
          observed,      \* every observation, in order (history)
          query          \* the HealthSnapshot or FailureRate call in progress or its answer

teleVars == <<counters, latency, events, recent, wallClock, observed, query>>

Observation == [name: Names, at: ObserveTimes, took: Nat, ok: BOOLEAN]

NoQuery == [pc |-> "idle"]

TelemetryTypeOK ==
    /\ counters \in [Names -> 0..MaxObserved]
    /\ latency \in [Names -> Nat]
    /\ events \in Seq(Observation)
    /\ recent \in Seq(Observation)
    /\ observed \in Seq(Observation)
    /\ wallClock \in ObserveTimes

TelemetryInit ==
    /\ counters = [n \in Names |-> 0]
    /\ latency = [n \in Names |-> 0]
    /\ events = <<>>
    /\ recent = <<>>
    /\ wallClock = 0
    /\ observed = <<>>
    /\ query = NoQuery

LastOf(seq, n) == IF Len(seq) > n THEN SubSeq(seq, Len(seq) - n + 1, Len(seq)) ELSE seq

(* A mutant of Trimmed: the list is cut down to its oldest entries. *)
TrimmedFront(seq) == IF Len(seq) > Limit THEN SubSeq(seq, 1, Limit) ELSE seq

(* A mutant of Trimmed: a full list starts over with the new entry. *)
TrimmedRestart(seq) == IF Len(seq) > Limit THEN LastOf(seq, 1) ELSE seq

Trimmed(seq) == LastOf(seq, Limit)

(* Observe; a call that ends before it began took no time. *)
Observe(name, started, at, ok) ==
    LET took == IF at < started THEN 0 ELSE at - started
        e == [name |-> name, at |-> at, took |-> took, ok |-> ok]
    IN  /\ Len(observed) < MaxObserved
        /\ counters' = [counters EXCEPT ![name] = @ + 1]
        /\ latency' = [latency EXCEPT ![name] = @ + took]
        /\ events' = Trimmed(Append(events, e))
        /\ recent' = Pruned(Append(recent, e), wallClock, WindowLength)
        /\ observed' = Append(observed, e)
        /\ UNCHANGED <<wallClock, query>>

(* Snapshot of the window, on which Counts and FailureRate rest: it prunes. *)
ReadWindow ==
    /\ recent' = Pruned(recent, wallClock, WindowLength)
    /\ UNCHANGED <<counters, latency, events, wallClock, observed, query>>

AdvanceWallClock ==
    /\ wallClock' \in {t \in ObserveTimes : t > wallClock}
    /\ UNCHANGED <<counters, latency, events, recent, observed, query>>

Failures(seq) == {i \in DOMAIN seq : ~seq[i].ok}

FailuresOf(name, seq) == {i \in Failures(seq) : seq[i].name = name}

QueryGoto(q) ==
    /\ query' = q
    /\ UNCHANGED <<counters, latency, events, recent, wallClock, observed>>

NoQueryRuns == query.pc \in {"idle", "health", "rate"}

(* HealthSnapshot: Names(). *)
HealthNames ==
    /\ NoQueryRuns
    /\ QueryGoto([pc |-> "counters", todo |-> {n \in Names : counters[n] > 0},
                   counters |-> [n \in Names |-> 0], average |-> [n \in Names |-> 0]])

(* Count(name), then AverageLatency(name), under a lock each. *)
HealthCount(name) ==
    /\ query.pc = "counters"
    /\ name \in query.todo
    /\ query.counters[name] = 0
    /\ QueryGoto([query EXCEPT !.counters[name] = counters[name]])

HealthAverage(name) ==
    /\ query.pc = "counters"
    /\ name \in query.todo
    /\ query.counters[name] > 0
    /\ QueryGoto([query EXCEPT !.average[name] = latency[name] \div counters[name],
                                 !.todo = @ \ {name}])

(* Events(), for the failures. *)
HealthFailures ==
    /\ query.pc = "counters"
    /\ query.todo = {}
    /\ QueryGoto([pc |-> "events", counters |-> query.counters, average |-> query.average,
                   failures |-> Cardinality(Failures(events))])

(* Events() again, for their number. *)
HealthEvents ==
    /\ query.pc = "events"
    /\ QueryGoto([pc |-> "health", counters |-> query.counters, average |-> query.average,
                   failures |-> query.failures, inWindow |-> Len(events)])

(* FailureRate(name): Count(name) is zero, or goes on to Events(). *)
FailureRate(name) ==
    /\ NoQueryRuns
    /\ QueryGoto(IF counters[name] = 0 THEN [pc |-> "rate", failures |-> 0, of |-> 1]
                ELSE [pc |-> "rateEvents", name |-> name])

RateFailures ==
    /\ query.pc = "rateEvents"
    /\ QueryGoto([pc |-> "rateCount", name |-> query.name,
                 failures |-> Cardinality(FailuresOf(query.name, events))])

(* The denominator is Count(name), read again. *)
RateCount ==
    /\ query.pc = "rateCount"
    /\ QueryGoto([pc |-> "rate", failures |-> query.failures, of |-> counters[query.name]])

TelemetryNext ==
    \/ \E name \in Names, started, at \in ObserveTimes, ok \in BOOLEAN :
          Observe(name, started, at, ok)
    \/ ReadWindow \/ AdvanceWallClock
    \/ HealthNames \/ HealthFailures \/ HealthEvents
    \/ RateFailures \/ RateCount
    \/ \E name \in Names : HealthCount(name) \/ HealthAverage(name) \/ FailureRate(name)

TelemetrySpec == TelemetryInit /\ [][TelemetryNext]_teleVars

-----------------------------------------------------------------------------
Of(name, seq) == {i \in DOMAIN seq : seq[i].name = name}

(* What the calls of name took, added up. *)
TotalOf(name, seq) ==
    LET Total[i \in 0..Len(seq)] ==
            IF i = 0 THEN 0
            ELSE Total[i - 1] + (IF seq[i].name = name THEN seq[i].took ELSE 0)
    IN  Total[Len(seq)]

(* The sum of the counts: what each name counts is laid out side by side. *)
AllCounted(counts) ==
    Cardinality({c \in Names \X (1..MaxObserved) : c[2] <= counts[c[1]]})

(* Types; the event list is the latest Limit observations in the order they were made,
   counters and latencies are those of all observations, and the window has
   lost no observation that is still within its length.                      *)
TelemetryInv ==
    /\ TelemetryTypeOK
    /\ events = LastOf(observed, Limit)
    /\ recent = LastOf(observed, Len(recent))
    /\ \A i \in 1..(Len(observed) - Len(recent)) : observed[i].at < wallClock - WindowLength
    /\ \A n \in Names :
          counters[n] = Cardinality(Of(n, observed)) /\ latency[n] = TotalOf(n, observed)

(* An answer put together from reads of different moments still adds up: the
   failures are among the events counted, no fewer events are counted than the
   counters or the limit account for, no average exceeds the longest call, and
   a failure rate is a fraction of at most one with a denominator.           *)
AnswersAddUp ==
    /\ query.pc = "health" =>
          /\ query.failures <= query.inWindow
          /\ query.inWindow <= Limit
          /\ LET total == AllCounted(query.counters)
             IN  query.inWindow >= IF total < Limit THEN total ELSE Limit
          /\ \A n \in Names : query.average[n] > 0 =>
                \E i \in DOMAIN observed : observed[i].took >= query.average[n]
    /\ query.pc = "rate" => query.of > 0 /\ query.failures <= query.of
=============================================================================
