--------------------------- MODULE RetryQueueProofs ---------------------------
(***************************************************************************)
(* Proofs about RetryQueue for any number of workers, snapshots and tasks. *)
(***************************************************************************)
EXTENDS RetryQueue, TLAPS

(* What a worker is sending is a task. *)
LEMMA SendingTask ==
    ASSUME RetryInv, NEW w \in Workers, running[w].busy
    PROVE  /\ running[w].task \in Task
           /\ running[w].since \in Nat
           /\ running[w].task.id \in Ids
           /\ running[w].task.id <= nextTask
           /\ running[w].task.attempt <= failures[running[w].task.id]
  <1>1. running[w] \in {NotSending} \union Sending
    BY DEF RetryInv, RetryTypeOK
  <1>2. running[w] \in Sending
    BY <1>1 DEF NotSending
  <1> QED BY <1>2 DEF Sending, Task, RetryInv

(* An empty queue satisfies the invariant. *)
LEMMA RetryInvInit == RetryInit => RetryInv
  <1> SUFFICES ASSUME RetryInit PROVE RetryInv OBVIOUS
  <1>1. RetryTypeOK
    BY RetryAssumption DEF RetryInit, RetryTypeOK
  <1> QED
    BY <1>1 DEF RetryInit, RetryInv, CancelledIsGone, QueueIsAMap, UnsharedIsExact, SendersAreExact,
       TasksAreAccepted, NotSending

(* The types are kept by every step. *)
LEMMA RetryTypeStep ==
    ASSUME RetryInv, [RetryNext]_retryVars
    PROVE  RetryTypeOK'
  <1>0. RetryTypeOK
    BY DEF RetryInv
  <1>1. ASSUME NEW s \in TaskSnapshots, NEW gen \in 0..MaxGen, NEW due \in 0..MaxTime,
               ScheduleRetry(s, gen, due)
        PROVE  RetryTypeOK'
    <2>1. nextTask + 1 \in Ids /\ nextTask + 1 \in 0..MaxTasks
      BY <1>0, <1>1, RetryAssumption DEF ScheduleRetry, RetryTypeOK, Ids
    <2>2. [id |-> nextTask + 1, snap |-> s, gen |-> gen, attempt |-> 0, due |-> due] \in Task
      BY <2>1, RetryAssumption DEF Task
    <2>3. [id |-> nextTask + 1, snap |-> s, gen |-> gen] \in Accepted
      BY <2>1, RetryAssumption DEF Accepted
    <2> QED BY <1>0, <1>1, <2>1, <2>2, <2>3 DEF ScheduleRetry, RetryTypeOK, Without
  <1>2. ASSUME NEW s \in TaskSnapshots, NEW gen \in 0..MaxGen, CancelRetries(s, gen)
        PROVE  RetryTypeOK'
    BY <1>0, <1>2, RetryAssumption DEF CancelRetries, RetryTypeOK
  <1>3. ASSUME NEW w \in Workers, RunRetry(w)
        PROVE  RetryTypeOK'
    <2>1. PICK task \in FirstDue :
            /\ running' = [running EXCEPT ![w] = [busy |-> TRUE, task |-> task, since |-> now]]
            /\ shared' = shared \union {task.id} \/ shared' = shared
      BY <1>3, Zenon DEF RunRetry
    <2>2. task \in Task
      BY <1>0, <2>1 DEF FirstDue, Due, RetryTypeOK
    <2>3. [busy |-> TRUE, task |-> task, since |-> now] \in Sending
      BY <1>0, <2>2 DEF Sending, RetryTypeOK
    <2>4. running' \in [Workers -> {NotSending} \union Sending]
      BY <1>0, <2>1, <2>3 DEF RetryTypeOK
    <2>5. shared' \subseteq Ids
      BY <1>0, <2>1, <2>2 DEF RetryTypeOK, Task
    <2> QED BY <1>0, <1>3, <2>4, <2>5 DEF RunRetry, RetryTypeOK
  <1>4. ASSUME NEW w \in Workers, Complete(w)
        PROVE  RetryTypeOK'
    <2>1. running[w].task.id \in Ids
      BY <1>4, SendingTask DEF Complete
    <2> QED BY <1>0, <1>4, <2>1 DEF Complete, RetryTypeOK, Without
  <1>5. ASSUME NEW w \in Workers, NEW delay \in Delays, NEW at \in 0..MaxTime,
               RescheduleAfterFailure(w, at, delay)
        PROVE  RetryTypeOK'
    <2> DEFINE task == running[w].task
    <2>1. task \in Task /\ task.id \in Ids
      BY <1>5, SendingTask DEF RescheduleAfterFailure
    <2>2. [task EXCEPT !.attempt = @ + 1, !.due = at + delay] \in Task
      <3>1. at + delay \in Nat /\ task.attempt + 1 \in Nat
        BY <2>1, RetryAssumption DEF Task
      <3> HIDE DEF task
      <3>2. \A d \in Nat, n \in Nat : [task EXCEPT !.attempt = n, !.due = d] \in Task
        BY <2>1 DEF Task
      <3> QED BY <3>1, <3>2
    <2>3. tasks' \subseteq Task
      BY <1>0, <1>5, <2>2 DEF RescheduleAfterFailure, RetryTypeOK, Without
    <2>4. failures' \in [Ids -> Nat]
      BY <1>0, <1>5, <2>1 DEF RescheduleAfterFailure, RetryTypeOK
    <2> QED BY <1>0, <1>5, <2>3, <2>4 DEF RescheduleAfterFailure, RetryTypeOK
  <1>6. CASE PassTime \/ UNCHANGED retryVars
    BY <1>0, <1>6 DEF PassTime, retryVars, RetryTypeOK
  <1> QED BY <1>1, <1>2, <1>3, <1>4, <1>5, <1>6 DEF RetryNext

(* The bounds of the invariant, action by action. *)
LEMMA RetryBoundsStep ==
    ASSUME RetryInv, [RetryNext]_retryVars
    PROVE  /\ CancelledIsGone' /\ QueueIsAMap'
           /\ \A w \in Workers : running'[w].busy =>
                  /\ running'[w].task.id <= nextTask'
                  /\ running'[w].task.attempt <= failures'[running'[w].task.id]
  <1> DEFINE Held == \A w \in Workers : running[w].busy =>
                  /\ running[w].task.id <= nextTask
                  /\ running[w].task.attempt <= failures[running[w].task.id]
  <1>0. RetryTypeOK /\ RetryTypeOK' /\ CancelledIsGone /\ QueueIsAMap /\ Held
    BY RetryTypeStep DEF RetryInv
  <1> SUFFICES CancelledIsGone' /\ QueueIsAMap' /\ Held'
    OBVIOUS
  <1>t. \A x \in tasks : x.id \in Ids /\ x.gen \in Nat /\ x.attempt \in Nat /\ x.snap \in TaskSnapshots
    BY <1>0 DEF RetryTypeOK, Task
  <1>w. \A w \in Workers : running[w].busy =>
            running[w].task \in Task /\ running[w].task.id \in Ids
    BY SendingTask
  <1>1. ASSUME NEW s \in TaskSnapshots, NEW gen \in 0..MaxGen, NEW due \in 0..MaxTime,
               ScheduleRetry(s, gen, due)
        PROVE  CancelledIsGone' /\ QueueIsAMap' /\ Held'
    <2> DEFINE new == [id |-> nextTask + 1, snap |-> s, gen |-> gen, attempt |-> 0, due |-> due]
    <2>0. nextTask \in Int /\ nextTask + 1 \in Ids /\ failures[nextTask + 1] \in Nat
      BY <1>0, <1>1, RetryAssumption DEF ScheduleRetry, RetryTypeOK, Ids
    <2>1. tasks' = Without(nextTask + 1) \union {new} /\ cancelled[s] < gen
          /\ cancelled' = cancelled /\ nextTask' = nextTask + 1
          /\ failures' = failures /\ running' = running
      BY <1>1 DEF ScheduleRetry
    <2>2. CancelledIsGone'
      BY <1>0, <2>1 DEF CancelledIsGone, Without
    <2>3. QueueIsAMap'
      BY <1>0, <1>t, <2>0, <2>1 DEF QueueIsAMap, Without, Ids
    <2>4. Held'
      BY <1>0, <1>w, <2>0, <2>1 DEF Ids
    <2> QED BY <2>2, <2>3, <2>4
  <1>2. ASSUME NEW s \in TaskSnapshots, NEW gen \in 0..MaxGen, CancelRetries(s, gen)
        PROVE  CancelledIsGone' /\ QueueIsAMap' /\ Held'
    <2>1. CancelledIsGone'
      BY <1>0, <1>2, <1>t DEF CancelRetries, CancelledIsGone, RetryTypeOK
    <2>2. QueueIsAMap' /\ Held'
      BY <1>0, <1>2 DEF CancelRetries, QueueIsAMap
    <2> QED BY <2>1, <2>2
  <1>3. ASSUME NEW w \in Workers, RunRetry(w)
        PROVE  CancelledIsGone' /\ QueueIsAMap' /\ Held'
    <2>1. CancelledIsGone' /\ QueueIsAMap'
      BY <1>0, <1>3 DEF RunRetry, CancelledIsGone, QueueIsAMap
    <2>2. PICK task \in tasks :
            running' = [running EXCEPT ![w] = [busy |-> TRUE, task |-> task, since |-> now]]
      BY <1>3 DEF RunRetry, FirstDue, Due
    <2>3. task.id <= nextTask /\ task.attempt <= failures[task.id]
      BY <1>0, <2>2 DEF QueueIsAMap
    <2>4. Held'
      BY <1>0, <1>3, <2>2, <2>3 DEF RunRetry, RetryTypeOK
    <2> QED BY <2>1, <2>4
  <1>4. ASSUME NEW w \in Workers, Complete(w)
        PROVE  CancelledIsGone' /\ QueueIsAMap' /\ Held'
    BY <1>0, <1>4 DEF Complete, Without, CancelledIsGone, QueueIsAMap, RetryTypeOK, NotSending
  <1>5. ASSUME NEW w \in Workers, NEW delay \in Delays, NEW at \in 0..MaxTime,
               RescheduleAfterFailure(w, at, delay)
        PROVE  CancelledIsGone' /\ QueueIsAMap' /\ Held'
    <2> DEFINE task == running[w].task
               again == [task EXCEPT !.attempt = @ + 1, !.due = at + delay]
    <2>1. /\ task \in Task /\ task.id \in Ids /\ task.id <= nextTask
          /\ task.attempt <= failures[task.id] /\ task.snap \in TaskSnapshots
          /\ task.attempt \in Nat /\ task.gen \in Nat
      BY <1>5, SendingTask DEF RescheduleAfterFailure, Task
    <2>2. /\ again.id = task.id /\ again.snap = task.snap /\ again.gen = task.gen
          /\ again.attempt = task.attempt + 1
      BY <2>1 DEF Task
    <2>3. \/ tasks' = Without(task.id)
          \/ cancelled[task.snap] < task.gen /\ tasks' = Without(task.id) \union {again}
      BY <1>5 DEF RescheduleAfterFailure
    <2>4. /\ cancelled' = cancelled /\ nextTask' = nextTask
          /\ failures' = [failures EXCEPT ![task.id] = @ + 1]
          /\ running' = [running EXCEPT ![w] = NotSending]
      BY <1>5 DEF RescheduleAfterFailure
    <2>5. \A id \in Ids : failures[id] \in Nat /\ failures'[id] >= failures[id]
      BY <1>0, <2>1, <2>4 DEF RetryTypeOK
    <2>6. failures'[task.id] = failures[task.id] + 1
      BY <1>0, <2>1, <2>4 DEF RetryTypeOK
    <2> HIDE DEF task, again
    <2>7. CancelledIsGone'
      BY <1>0, <2>2, <2>3, <2>4 DEF CancelledIsGone, Without
    <2>8. QueueIsAMap'
      <3>1. \A x \in Without(task.id) :
                x \in tasks /\ x.id # task.id /\ x.id <= nextTask'
                  /\ x.attempt <= failures'[x.id]
        BY <1>0, <1>t, <2>4, <2>5 DEF QueueIsAMap, Without, RetryTypeOK
      <3>2. again.id <= nextTask' /\ again.attempt <= failures'[again.id]
        BY <2>1, <2>2, <2>4, <2>5, <2>6
      <3> QED BY <1>0, <2>2, <2>3, <3>1, <3>2 DEF QueueIsAMap
    <2>9. Held'
      <3>1. ASSUME NEW v \in Workers, running'[v].busy
            PROVE  /\ running'[v].task.id <= nextTask'
                   /\ running'[v].task.attempt <= failures'[running'[v].task.id]
        <4>1. v # w /\ running'[v] = running[v]
          BY <1>0, <2>4, <3>1 DEF RetryTypeOK, NotSending
        <4>2. running[v].task.id \in Ids /\ running[v].task.attempt \in Nat
          BY <1>w, <3>1, <4>1 DEF Task
        <4> QED BY <1>0, <2>4, <2>5, <3>1, <4>1, <4>2
      <3> QED BY <3>1
    <2> QED BY <2>7, <2>8, <2>9
  <1>6. CASE PassTime \/ UNCHANGED retryVars
    BY <1>0, <1>6 DEF PassTime, retryVars, CancelledIsGone, QueueIsAMap
  <1> QED BY <1>1, <1>2, <1>3, <1>4, <1>5, <1>6 DEF RetryNext

(* Exactness, action by action: a step on a task disturbs only what is known
   of that task, and every other worker that holds it shares it. *)
LEMMA RetryExactStep ==
    ASSUME RetryInv, [RetryNext]_retryVars
    PROVE  UnsharedIsExact' /\ SendersAreExact'
  <1>0. RetryTypeOK /\ QueueIsAMap /\ UnsharedIsExact /\ SendersAreExact
    BY DEF RetryInv
  <1>t. \A x \in tasks : x.id \in Ids /\ x.attempt \in Nat /\ x.id <= nextTask
    BY <1>0 DEF RetryTypeOK, Task, QueueIsAMap
  <1>w. \A w \in Workers : running[w].busy =>
            /\ running[w].task.id \in Ids /\ running[w].task.id <= nextTask
            /\ running[w].task \in Task
    BY SendingTask
  <1>n. nextTask \in Nat /\ \A id \in Ids : id \in Nat /\ failures[id] \in Nat
    BY <1>0, RetryAssumption DEF RetryTypeOK, Ids
  <1>1. ASSUME NEW s \in TaskSnapshots, NEW gen \in 0..MaxGen, NEW due \in 0..MaxTime,
               ScheduleRetry(s, gen, due)
        PROVE  UnsharedIsExact' /\ SendersAreExact'
    <2> DEFINE new == [id |-> nextTask + 1, snap |-> s, gen |-> gen, attempt |-> 0, due |-> due]
    <2>1. /\ tasks' = Without(nextTask + 1) \union {new} /\ nextTask' = nextTask + 1
          /\ UNCHANGED <<failures, running, done, shared>>
      BY <1>1 DEF ScheduleRetry
    <2>2. nextTask + 1 \in Ids
      BY <1>0, <1>1, RetryAssumption DEF ScheduleRetry, RetryTypeOK, Ids
    <2>3. nextTask + 1 \notin done /\ failures[nextTask + 1] = 0
      BY <1>0, <1>n, <2>2 DEF SendersAreExact
    <2>4. UnsharedIsExact'
      BY <1>0, <2>1, <2>3 DEF UnsharedIsExact, Without
    <2>5. SendersAreExact'
      BY <1>0, <1>n, <2>1 DEF SendersAreExact
    <2> QED BY <2>4, <2>5
  <1>2. ASSUME NEW s \in TaskSnapshots, NEW gen \in 0..MaxGen, CancelRetries(s, gen)
        PROVE  UnsharedIsExact' /\ SendersAreExact'
    BY <1>0, <1>2 DEF CancelRetries, UnsharedIsExact, SendersAreExact
  <1>3. ASSUME NEW w \in Workers, RunRetry(w)
        PROVE  UnsharedIsExact' /\ SendersAreExact'
    <2>1. PICK task \in tasks :
            /\ running' = [running EXCEPT ![w] = [busy |-> TRUE, task |-> task, since |-> now]]
            /\ shared' = IF \E v \in Workers : running[v].busy /\ running[v].task.id = task.id
                         THEN shared \union {task.id} ELSE shared
      BY <1>3 DEF RunRetry, FirstDue, Due
    <2>2. UNCHANGED <<nextTask, tasks, failures, done>>
      BY <1>3 DEF RunRetry
    <2>3. /\ running'[w].busy /\ running'[w].task = task
          /\ \A v \in Workers : v # w => running'[v] = running[v]
      BY <1>0, <2>1 DEF RetryTypeOK
    <2>4. /\ \A id : id \in shared => id \in shared'
          /\ \A v \in Workers : running[v].busy /\ running[v].task.id = task.id => task.id \in shared'
      BY <2>1
    <2>5. UnsharedIsExact'
      BY <1>0, <2>2, <2>4 DEF UnsharedIsExact
    <2>6. task.id \notin shared' => task.id \notin done /\ task.attempt = failures[task.id]
      BY <1>0, <2>4 DEF UnsharedIsExact
    <2>7. SendersAreExact'
      BY <1>0, <2>2, <2>3, <2>4, <2>6 DEF SendersAreExact
    <2> QED BY <2>5, <2>7
  <1>4. ASSUME NEW w \in Workers, running[w].busy, running' = [running EXCEPT ![w] = NotSending]
        PROVE  /\ \A v \in Workers : running'[v].busy => v # w /\ running'[v] = running[v]
               /\ \A v \in Workers : running'[v].busy /\ running'[v].task.id \notin shared
                     => running'[v].task.id # running[w].task.id
    <2>1. \A v \in Workers : running'[v].busy => v # w /\ running'[v] = running[v]
      BY <1>0, <1>4 DEF RetryTypeOK, NotSending
    <2> QED BY <1>0, <1>4, <2>1 DEF SendersAreExact
  <1>5. ASSUME NEW w \in Workers, Complete(w)
        PROVE  UnsharedIsExact' /\ SendersAreExact'
    <2> DEFINE i == running[w].task.id
    <2>1. /\ running[w].busy /\ tasks' = Without(i) /\ done' = done \union {i}
          /\ running' = [running EXCEPT ![w] = NotSending]
          /\ UNCHANGED <<nextTask, failures, shared>>
      BY <1>5 DEF Complete
    <2>2. i \in Ids /\ i <= nextTask
      BY <1>w, <2>1
    <2>3. UnsharedIsExact'
      BY <1>0, <2>1 DEF UnsharedIsExact, Without
    <2>4. SendersAreExact'
      <3>1. \A v \in Workers : running'[v].busy => v # w /\ running'[v] = running[v]
        BY <1>4, <2>1
      <3>2. \A v \in Workers : running'[v].busy /\ running'[v].task.id \notin shared => running'[v].task.id # i
        BY <1>4, <2>1
      <3>3. \A id \in Ids : id > nextTask => id # i
        BY <1>n, <2>2
      <3> HIDE DEF i
      <3> QED BY <1>0, <2>1, <3>1, <3>2, <3>3 DEF SendersAreExact
    <2> QED BY <2>3, <2>4
  <1>6. ASSUME NEW w \in Workers, NEW delay \in Delays, NEW at \in 0..MaxTime,
               RescheduleAfterFailure(w, at, delay)
        PROVE  UnsharedIsExact' /\ SendersAreExact'
    <2> DEFINE task == running[w].task
               i == task.id
               again == [task EXCEPT !.attempt = @ + 1, !.due = at + delay]
    <2>1. /\ running[w].busy /\ running' = [running EXCEPT ![w] = NotSending]
          /\ failures' = [failures EXCEPT ![i] = @ + 1]
          /\ tasks' = Without(i) \/ tasks' = Without(i) \union {again}
          /\ UNCHANGED <<nextTask, done, shared>>
      BY <1>6 DEF RescheduleAfterFailure
    <2>2. i \in Ids /\ i <= nextTask /\ task \in Task
      BY <1>w, <2>1
    <2>3. again.id = i /\ again.attempt = task.attempt + 1
      BY <2>2 DEF Task
    <2>4. failures'[i] = failures[i] + 1 /\ \A id \in Ids : id # i => failures'[id] = failures[id]
      BY <1>0, <2>1, <2>2 DEF RetryTypeOK
    <2>5. i \notin shared => i \notin done /\ task.attempt = failures[i]
      BY <1>0, <2>1 DEF SendersAreExact
    <2>6. UnsharedIsExact'
      <3>1. \A x \in tasks' : (x \in tasks /\ x.id # i) \/ x = again
        <4> HIDE DEF i, again
        <4> QED BY <2>1 DEF Without
      <3>2. i \notin shared => again.id \notin done /\ again.attempt = failures'[again.id]
        <4> HIDE DEF again
        <4> QED BY <2>3, <2>4, <2>5
      <3> HIDE DEF i, again, task
      <3>3. \A x \in tasks : x.id # i => failures'[x.id] = failures[x.id]
        BY <1>t, <2>4
      <3> QED BY <1>0, <2>1, <2>3, <3>1, <3>2, <3>3 DEF UnsharedIsExact
    <2>7. SendersAreExact'
      <3>1. \A v \in Workers : running'[v].busy => v # w /\ running'[v] = running[v]
        BY <1>4, <2>1
      <3>2. \A v \in Workers : running'[v].busy /\ running'[v].task.id \notin shared => running'[v].task.id # i
        BY <1>4, <2>1
      <3>3. \A id \in Ids : id > nextTask => id # i
        BY <1>n, <2>2
      <3> HIDE DEF i, again, task
      <3> QED BY <1>0, <1>w, <2>1, <2>4, <3>1, <3>2, <3>3 DEF SendersAreExact
    <2> QED BY <2>6, <2>7
  <1>7. CASE PassTime \/ UNCHANGED retryVars
    BY <1>0, <1>7 DEF PassTime, retryVars, UnsharedIsExact, SendersAreExact
  <1> QED BY <1>1, <1>2, <1>3, <1>5, <1>6, <1>7 DEF RetryNext

(* What is queued or sent was accepted: ids are new, and rescheduling keeps what
   of a task never changes. *)
LEMMA RetryOriginStep ==
    ASSUME RetryInv, [RetryNext]_retryVars
    PROVE  TasksAreAccepted'
  <1>0. RetryTypeOK /\ TasksAreAccepted
    BY DEF RetryInv
  <1>n. nextTask \in Nat /\ \A a \in accepted : a.id \in Nat
    BY <1>0, RetryAssumption DEF RetryTypeOK, Accepted, Ids
  <1>1. ASSUME NEW s \in TaskSnapshots, NEW gen \in 0..MaxGen, NEW due \in 0..MaxTime,
               ScheduleRetry(s, gen, due)
        PROVE  TasksAreAccepted'
    <2> DEFINE new == [id |-> nextTask + 1, snap |-> s, gen |-> gen, attempt |-> 0, due |-> due]
               a == [id |-> nextTask + 1, snap |-> s, gen |-> gen]
    <2>1. /\ tasks' = Without(nextTask + 1) \union {new}
          /\ accepted' = accepted \union {a}
          /\ nextTask' = nextTask + 1 /\ running' = running
      BY <1>1 DEF ScheduleRetry
    <2>2. Origin(new) = a /\ a.id = nextTask + 1
      BY DEF Origin
    <2> HIDE DEF new, a
    <2>3. \A task \in tasks' : Origin(task) \in accepted'
      BY <1>0, <2>1, <2>2 DEF TasksAreAccepted, Without
    <2>4. \A b \in accepted : b.id <= nextTask
      BY <1>0 DEF TasksAreAccepted
    <2>5. \A b \in accepted : b.id # a.id /\ b.id <= nextTask'
      BY <1>n, <2>1, <2>2, <2>4
    <2>6. \A b, c \in accepted' : b.id = c.id => b = c
      BY <1>0, <2>1, <2>5 DEF TasksAreAccepted
    <2>7. a.id <= nextTask'
      BY <1>n, <2>1, <2>2
    <2>8. \A w \in Workers : running'[w].busy => Origin(running'[w].task) \in accepted'
      BY <1>0, <2>1 DEF TasksAreAccepted
    <2> QED BY <2>1, <2>3, <2>5, <2>6, <2>7, <2>8 DEF TasksAreAccepted
  <1>2. ASSUME NEW s \in TaskSnapshots, NEW gen \in 0..MaxGen, CancelRetries(s, gen)
        PROVE  TasksAreAccepted'
    BY <1>0, <1>2 DEF CancelRetries, TasksAreAccepted
  <1>3. ASSUME NEW w \in Workers, RunRetry(w)
        PROVE  TasksAreAccepted'
    <2>1. PICK task \in tasks :
            running' = [running EXCEPT ![w] = [busy |-> TRUE, task |-> task, since |-> now]]
      BY <1>3 DEF RunRetry, FirstDue, Due
    <2>2. UNCHANGED <<nextTask, accepted, tasks>>
      BY <1>3 DEF RunRetry
    <2>3. \A v \in Workers : running'[v] = running[v] \/ running'[v].task = task
      BY <1>0, <2>1 DEF RetryTypeOK
    <2> QED BY <1>0, <2>1, <2>2, <2>3 DEF TasksAreAccepted, RetryTypeOK
  <1>4. ASSUME NEW w \in Workers, Complete(w)
        PROVE  TasksAreAccepted'
    <2>1. \A v \in Workers : running'[v].busy => running'[v] = running[v]
      BY <1>0, <1>4 DEF Complete, RetryTypeOK, NotSending
    <2> QED BY <1>0, <1>4, <2>1 DEF Complete, Without, TasksAreAccepted
  <1>5. ASSUME NEW w \in Workers, NEW delay \in Delays, NEW at \in 0..MaxTime,
               RescheduleAfterFailure(w, at, delay)
        PROVE  TasksAreAccepted'
    <2> DEFINE task == running[w].task
               again == [task EXCEPT !.attempt = @ + 1, !.due = at + delay]
    <2>1. /\ running[w].busy /\ running' = [running EXCEPT ![w] = NotSending]
          /\ tasks' = Without(task.id) \/ tasks' = Without(task.id) \union {again}
          /\ UNCHANGED <<nextTask, accepted>>
      BY <1>5 DEF RescheduleAfterFailure
    <2>2. task \in Task
      BY <2>1, SendingTask
    <2>3. Origin(again) = Origin(task)
      BY <2>2 DEF Task, Origin
    <2>4. Origin(task) \in accepted
      BY <1>0, <2>1 DEF TasksAreAccepted
    <2>5. \A v \in Workers : running'[v].busy => running'[v] = running[v]
      BY <1>0, <2>1 DEF RetryTypeOK, NotSending
    <2> HIDE DEF task, again
    <2> QED BY <1>0, <2>1, <2>3, <2>4, <2>5 DEF Without, TasksAreAccepted
  <1>6. CASE PassTime \/ UNCHANGED retryVars
    BY <1>0, <1>6 DEF PassTime, retryVars, TasksAreAccepted
  <1> QED BY <1>1, <1>2, <1>3, <1>4, <1>5, <1>6 DEF RetryNext

LEMMA RetryInvStep == RetryInv /\ [RetryNext]_retryVars => RetryInv'
  BY RetryTypeStep, RetryBoundsStep, RetryExactStep, RetryOriginStep DEF RetryInv

(* The inductive invariant of the retry queue, for any number of workers, tasks,
   generations and delays. *)
THEOREM RetryInvariant == RetrySpec => []RetryInv
  <1> QED BY RetryInvInit, RetryInvStep, PTL DEF RetrySpec

(* A task that only one worker at a time was sending is not queued once it was
   sent, and its attempt number counts its failed sends, whatever was cancelled
   or scheduled while the sender ran. *)
THEOREM UnsharedSendsAreExact == RetrySpec => []UnsharedIsExact
  <1>1. RetryInv => UnsharedIsExact
    BY DEF RetryInv
  <1> QED BY <1>1, RetryInvariant, PTL

(* No step loses an accepted task: what it takes off the queue it has sent, or
   finds cancelled. *)
LEMMA KeptStep ==
    ASSUME RetryInv, AcceptedIsKept, [RetryNext]_retryVars
    PROVE  AcceptedIsKept'
  <1>0. RetryTypeOK /\ TasksAreAccepted
    BY DEF RetryInv
  <1>t. /\ \A a \in accepted : a.snap \in TaskSnapshots /\ a.gen \in Nat
        /\ \A task \in tasks : task.snap \in TaskSnapshots /\ task.gen \in Nat
        /\ \A s \in TaskSnapshots : cancelled[s] \in Nat
    BY <1>0 DEF RetryTypeOK, Accepted, Task
  <1>o. \A task \in tasks : \A a \in accepted :
            task.id = a.id => task.snap = a.snap /\ task.gen = a.gen
    <2>1. ASSUME NEW task \in tasks, NEW a \in accepted, task.id = a.id
          PROVE  Origin(task) = a
      <3>1. Origin(task) \in accepted /\ Origin(task).id = task.id
        BY <1>0 DEF TasksAreAccepted, Origin
      <3> QED BY <1>0, <2>1, <3>1 DEF TasksAreAccepted
    <2> QED BY <2>1 DEF Origin
  <1>1. ASSUME NEW s \in TaskSnapshots, NEW gen \in 0..MaxGen, NEW due \in 0..MaxTime,
               ScheduleRetry(s, gen, due)
        PROVE  AcceptedIsKept'
    <2> DEFINE id == nextTask + 1
               new == [id |-> id, snap |-> s, gen |-> gen, attempt |-> 0, due |-> due]
    <2>1. /\ tasks' = Without(id) \union {new} /\ new.id = id
          /\ \A a \in accepted' : a \in accepted \/ a.id = id
          /\ UNCHANGED <<cancelled, done>>
      BY <1>1 DEF ScheduleRetry
    <2> HIDE DEF id, new
    <2>2. \A a \in accepted' : a.id = id => \E task \in tasks' : task.id = a.id
      BY <2>1
    <2>3. \A a \in accepted' : a.id # id /\ (\E task \in tasks : task.id = a.id)
                                 => \E task \in tasks' : task.id = a.id
      BY <2>1 DEF Without
    <2> QED BY <2>1, <2>2, <2>3 DEF AcceptedIsKept
  <1>2. ASSUME NEW s \in TaskSnapshots, NEW gen \in 0..MaxGen, CancelRetries(s, gen)
        PROVE  AcceptedIsKept'
    <2>1. gen \in Nat
      BY RetryAssumption
    <2>2. /\ UNCHANGED <<accepted, done>>
          /\ tasks' = {task \in tasks : ~(task.snap = s /\ task.gen <= gen)}
          /\ cancelled' = [cancelled EXCEPT ![s] = IF gen > @ THEN gen ELSE @]
      BY <1>2 DEF CancelRetries
    <2>3. /\ gen <= cancelled'[s]
          /\ \A r \in TaskSnapshots : cancelled'[r] \in Nat /\ cancelled[r] <= cancelled'[r]
      BY <1>0, <1>t, <2>1, <2>2 DEF RetryTypeOK
    <2>4. ASSUME NEW a \in accepted
          PROVE  \/ \E task \in tasks' : task.id = a.id
                 \/ a.id \in done'
                 \/ a.gen <= cancelled'[a.snap]
      <3>1. CASE a.id \in done
        BY <2>2, <3>1
      <3>2. CASE a.gen <= cancelled[a.snap]
        BY <1>t, <2>3, <3>2
      <3>3. ASSUME NEW task \in tasks, task.id = a.id, task \notin tasks'
            PROVE  a.gen <= cancelled'[a.snap]
        <4>1. a.snap = s /\ a.gen <= gen
          BY <1>o, <2>2, <3>3
        <4> QED BY <1>t, <2>1, <2>3, <4>1
      <3> QED BY <3>1, <3>2, <3>3 DEF AcceptedIsKept
    <2> QED BY <2>2, <2>4 DEF AcceptedIsKept
  <1>3. CASE \E w \in Workers : RunRetry(w)
    BY <1>3 DEF RunRetry, AcceptedIsKept
  <1>4. ASSUME NEW w \in Workers, Complete(w)
        PROVE  AcceptedIsKept'
    BY <1>4 DEF Complete, Without, AcceptedIsKept
  <1>5. ASSUME NEW w \in Workers, NEW delay \in Delays, NEW at \in 0..MaxTime,
               RescheduleAfterFailure(w, at, delay)
        PROVE  AcceptedIsKept'
    <2> DEFINE task == running[w].task
               again == [task EXCEPT !.attempt = @ + 1, !.due = at + delay]
    <2>1. /\ running[w].busy /\ UNCHANGED <<accepted, cancelled, done>>
          /\ \/ tasks' = Without(task.id) /\ cancelled[task.snap] >= task.gen
             \/ tasks' = Without(task.id) \union {again}
      BY <1>5 DEF RescheduleAfterFailure
    <2>2. task \in Task /\ again.id = task.id
      BY <2>1, SendingTask DEF Task
    <2>3. task.snap \in TaskSnapshots /\ task.gen \in Nat
      BY <2>2 DEF Task
    <2>4. \A a \in accepted : a.id = task.id => a.snap = task.snap /\ a.gen = task.gen
      <3>1. Origin(task) \in accepted /\ Origin(task).id = task.id
        BY <1>0, <2>1 DEF TasksAreAccepted, Origin
      <3>2. \A a \in accepted : a.id = task.id => a = Origin(task)
        BY <1>0, <3>1 DEF TasksAreAccepted
      <3> QED BY <3>2 DEF Origin
    <2> HIDE DEF task, again
    <2>5. ASSUME NEW a \in accepted
          PROVE  \/ \E x \in tasks' : x.id = a.id
                 \/ a.id \in done
                 \/ a.gen <= cancelled[a.snap]
      <3>1. CASE a.id = task.id
        BY <1>t, <2>1, <2>2, <2>3, <2>4, <3>1
      <3>2. CASE a.id # task.id
        BY <2>1, <3>2 DEF AcceptedIsKept, Without
      <3> QED BY <3>1, <3>2
    <2> QED BY <2>1, <2>5 DEF AcceptedIsKept
  <1>6. CASE PassTime \/ UNCHANGED retryVars
    BY <1>6 DEF PassTime, retryVars, AcceptedIsKept
  <1> QED BY <1>1, <1>2, <1>3, <1>4, <1>5, <1>6 DEF RetryNext

(* However many workers send copies of a task, fail, complete and reschedule,
   and whatever is cancelled in between, an accepted retry stays in the queue
   until it was sent or a cancellation covers it for good. *)
THEOREM AcceptedStaysKept == RetrySpec => []AcceptedIsKept
  <1>1. RetryInit => AcceptedIsKept
    BY DEF RetryInit, AcceptedIsKept
  <1>2. RetryInv /\ AcceptedIsKept /\ [RetryNext]_retryVars => AcceptedIsKept'
    BY KeptStep
  <1> QED BY <1>1, <1>2, RetryInvariant, PTL DEF RetrySpec
=============================================================================
