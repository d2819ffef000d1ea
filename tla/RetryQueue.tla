------------------------------ MODULE RetryQueue ------------------------------
(***************************************************************************)
(* internal/retry/queue.go and the worker of internal/service/worker.go.   *)
(*                                                                         *)
(* Queue.mu makes every queue method one step.  RunRetry takes a copy of   *)
(* the first due task, calls the sender with the queue unlocked, and only  *)
(* then completes or reschedules that copy: everything else may happen in  *)
(* between, cancellation and other workers included.                       *)
(***************************************************************************)
EXTENDS Integers, FiniteSets

CONSTANTS Workers,        \* goroutines that call RunRetry
          TaskSnapshots,  \* snapshots that tasks are about
          Delays,         \* delays RunRetry may be called with
          MaxGen,         \* BOUND on generations
          MaxTasks,       \* BOUND on tasks scheduled
          MaxFailures,    \* BOUND on failures of one task
          MaxTime         \* BOUND on the clock

ASSUME RetryAssumption ==
    /\ Delays \subseteq Nat
    /\ MaxGen \in Nat /\ MaxTasks \in Nat /\ MaxFailures \in Nat /\ MaxTime \in Nat

VARIABLES now,        \* what clock.Now() returns
          nextTask,   \* model.NewID
          accepted,   \* history: the tasks ScheduleRetry returned
          tasks,      \* Queue.tasks: at most one per id
          cancelled,  \* snapshot -> newest cancelled generation
          running,    \* worker -> the task it is sending
          failures,   \* history: id -> sends that failed
          done,       \* history: ids of the tasks that were sent
          shared      \* history: ids of the tasks two workers were sending at once

retryVars == <<now, nextTask, accepted, tasks, cancelled, running, failures, done, shared>>

Ids == 1..MaxTasks

(* due may lie in the past and the first attempt is number 0. *)
Task == [id: Ids, snap: TaskSnapshots, gen: Nat, attempt: Nat, due: Nat]

(* What of a task never changes. *)
Accepted == [id: Ids, snap: TaskSnapshots, gen: Nat]

Origin(task) == [id |-> task.id, snap |-> task.snap, gen |-> task.gen]

NotSending == [busy |-> FALSE]

Sending == [busy: {TRUE}, task: Task, since: Nat]

RetryTypeOK ==
    /\ now \in Nat
    /\ nextTask \in 0..MaxTasks
    /\ accepted \subseteq Accepted
    /\ tasks \subseteq Task
    /\ cancelled \in [TaskSnapshots -> Nat]
    /\ running \in [Workers -> {NotSending} \union Sending]
    /\ failures \in [Ids -> Nat]
    /\ done \subseteq Ids
    /\ shared \subseteq Ids

RetryInit ==
    /\ now = 0
    /\ nextTask = 0
    /\ accepted = {}
    /\ tasks = {}
    /\ cancelled = [s \in TaskSnapshots |-> 0]
    /\ running = [w \in Workers |-> NotSending]
    /\ failures = [id \in Ids |-> 0]
    /\ done = {}
    /\ shared = {}

(* tasks without the task id. *)
Without(id) == {task \in tasks : task.id # id}

(* ScheduleRetry; a cancelled generation is refused, and so is generation 0. *)
ScheduleRetry(s, gen, due) ==
    /\ nextTask < MaxTasks
    /\ cancelled[s] < gen
    /\ nextTask' = nextTask + 1
    /\ tasks' = Without(nextTask + 1) \union
          {[id |-> nextTask + 1, snap |-> s, gen |-> gen, attempt |-> 0, due |-> due]}
    /\ accepted' = accepted \union {[id |-> nextTask + 1, snap |-> s, gen |-> gen]}
    /\ UNCHANGED <<now, cancelled, running, failures, done, shared>>

(* A mutant of CancelRetries: an older cancellation takes back a newer one. *)
CancelRetriesBack(s, gen) ==
    /\ cancelled' = [cancelled EXCEPT ![s] = gen]
    /\ tasks' = {task \in tasks : ~(task.snap = s /\ task.gen <= gen)}
    /\ UNCHANGED <<now, nextTask, accepted, running, failures, done, shared>>

CancelRetries(s, gen) ==
    /\ cancelled' = [cancelled EXCEPT ![s] = IF gen > @ THEN gen ELSE @]
    /\ tasks' = {task \in tasks : ~(task.snap = s /\ task.gen <= gen)}
    /\ UNCHANGED <<now, nextTask, accepted, running, failures, done, shared>>

(* Due(now), and the first of it: by due time, then by id. *)
Due == {task \in tasks : task.due <= now /\ cancelled[task.snap] < task.gen}

FirstDue ==
    {task \in Due : \A other \in Due :
        task.due < other.due \/ (task.due = other.due /\ task.id <= other.id)}

RunRetry(w) ==
    /\ running[w] = NotSending
    /\ \E task \in FirstDue :
          /\ running' = [running EXCEPT ![w] = [busy |-> TRUE, task |-> task, since |-> now]]
          /\ shared' = IF \E v \in Workers : running[v].busy /\ running[v].task.id = task.id
                       THEN shared \union {task.id} ELSE shared
    /\ UNCHANGED <<now, nextTask, accepted, tasks, cancelled, failures, done>>

(* A mutant of Complete: the task stays in the queue. *)
CompleteKeepsTask(w) ==
    /\ running[w].busy
    /\ done' = done \union {running[w].task.id}
    /\ running' = [running EXCEPT ![w] = NotSending]
    /\ UNCHANGED <<now, nextTask, accepted, tasks, cancelled, failures, shared>>

(* The sender succeeded. *)
Complete(w) ==
    /\ running[w].busy
    /\ tasks' = Without(running[w].task.id)
    /\ done' = done \union {running[w].task.id}
    /\ running' = [running EXCEPT ![w] = NotSending]
    /\ UNCHANGED <<now, nextTask, accepted, cancelled, failures, shared>>

(* Mutant of RescheduleAfterFailure: cancellation while the sender ran is not
   noticed. *)
RescheduleCancelled(w, at, delay) ==
    /\ running[w].busy
    /\ LET task == running[w].task IN
       /\ failures[task.id] < MaxFailures
       /\ failures' = [failures EXCEPT ![task.id] = @ + 1]
       /\ tasks' = Without(task.id) \union
                   {[task EXCEPT !.attempt = @ + 1, !.due = at + delay]}
    /\ running' = [running EXCEPT ![w] = NotSending]
    /\ UNCHANGED <<now, nextTask, accepted, cancelled, done, shared>>

(* The sender failed; at is the time the worker read since then. *)
RescheduleAfterFailure(w, at, delay) ==
    /\ running[w].busy
    /\ LET task == running[w].task IN
       /\ failures[task.id] < MaxFailures
       /\ failures' = [failures EXCEPT ![task.id] = @ + 1]
       /\ \/ /\ cancelled[task.snap] >= task.gen
             /\ tasks' = Without(task.id)
          \/ /\ cancelled[task.snap] < task.gen
             /\ tasks' = Without(task.id) \union
                   {[task EXCEPT !.attempt = @ + 1, !.due = at + delay]}
    /\ running' = [running EXCEPT ![w] = NotSending]
    /\ UNCHANGED <<now, nextTask, accepted, cancelled, done, shared>>

PassTime ==
    /\ now < MaxTime
    /\ now' = now + 1
    /\ UNCHANGED <<nextTask, accepted, tasks, cancelled, running, failures, done, shared>>

RetryNext ==
    \/ \E s \in TaskSnapshots, gen \in 0..MaxGen, due \in 0..MaxTime : ScheduleRetry(s, gen, due)
    \/ \E s \in TaskSnapshots, gen \in 0..MaxGen : CancelRetries(s, gen)
    \/ \E w \in Workers : RunRetry(w) \/ Complete(w)
    \/ \E w \in Workers, delay \in Delays, at \in 0..MaxTime :
          running[w].busy /\ at \in running[w].since..now /\ RescheduleAfterFailure(w, at, delay)
    \/ PassTime

RetrySpec == RetryInit /\ [][RetryNext]_retryVars

------------------------------------------------------------------------------
(* Properties.                                                              *)

(* A cancelled generation never stays in, or comes back to, the queue: not by
   a schedule that raced with the cancellation, nor by a worker that was
   sending the task while it was cancelled and reschedules it afterwards. *)
CancelledIsGone ==
    \A task \in tasks : cancelled[task.snap] < task.gen

(* A retry that was accepted is not lost: it is in the queue until it was sent,
   or a cancellation that covers it is in force, however many workers complete
   and reschedule copies of it at the same time and whatever other snapshots
   and generations are cancelled before and after. *)
AcceptedIsKept ==
    \A a \in accepted :
        \/ \E task \in tasks : task.id = a.id
        \/ a.id \in done
        \/ a.gen <= cancelled[a.snap]

(* Unless two workers were sending it at the same time, a task that was sent is
   gone for good, no reschedule or schedule brings it back, and the attempt
   number of a queued one, which back-off and maximum are computed from, is the
   number of its failed sends. *)
UnsharedIsExact ==
    \A task \in tasks : task.id \notin shared =>
        task.id \notin done /\ task.attempt = failures[task.id]

(* Several workers may send one task at the same time.  They may undo each
   other's completion, but never queue a task twice nor count an attempt that
   did not happen. *)
QueueIsAMap ==
    /\ \A x, y \in tasks : x.id = y.id => x = y
    /\ \A task \in tasks : task.id <= nextTask /\ task.attempt <= failures[task.id]

(* What UnsharedIsExact rests on: a worker that sends a task alone holds its
   present state, and an id that was not issued has no history. *)
SendersAreExact ==
    /\ \A v, w \in Workers :
          v # w /\ running[v].busy /\ running[w].busy /\ running[v].task.id = running[w].task.id
              => running[w].task.id \in shared
    /\ \A w \in Workers : running[w].busy /\ running[w].task.id \notin shared =>
          /\ running[w].task.id \notin done
          /\ running[w].task.attempt = failures[running[w].task.id]
    /\ \A id \in Ids : id > nextTask => id \notin done /\ failures[id] = 0

(* What is queued or being sent was accepted, under an id of its own. *)
TasksAreAccepted ==
    /\ \A task \in tasks : Origin(task) \in accepted
    /\ \A w \in Workers : running[w].busy => Origin(running[w].task) \in accepted
    /\ \A a, b \in accepted : a.id = b.id => a = b
    /\ \A a \in accepted : a.id <= nextTask

(* The inductive invariant: what a worker holds is an earlier state of a task
   that was scheduled, and the present one if no other worker has it. *)
RetryInv ==
    /\ RetryTypeOK
    /\ CancelledIsGone
    /\ QueueIsAMap
    /\ \A w \in Workers : running[w].busy =>
          /\ running[w].task.id <= nextTask
          /\ running[w].task.attempt <= failures[running[w].task.id]
    /\ UnsharedIsExact
    /\ SendersAreExact
    /\ TasksAreAccepted
=============================================================================
