# BackupMesh in TLA+

BackupMesh (`src/`) is an in-process backup service written in Go. Its `Service`
(`internal/service`) is called from many goroutines and coordinates about a dozen stores, each
of which locks a mutex of its own for the length of one method. No lock spans two stores.
A service call is therefore a *sequence* of atomic store steps, and almost everything that can
go wrong happens between two of them: another goroutine runs, a lease expires, the operator
closes the journal. That is what these modules model.

Nothing is written to disk. "Durable" means *in the journal*, which may be closed and opened
again at run time, and after which `Replay` may be called.

## Inventory

| component (source under `src/internal`) | state | operations | hard because |
|---|---|---|---|
| capture (`service/capture.go`, `catalog`, `lease`, `journal`) | leases with epochs, staged chunks, digest reservations, snapshots | BeginCapture, StageChunk, CommitCapture, AbortCapture | lease expires mid-call, take-over, shared handles, journal closes |
| verification, rollback, replay (`service/verify.go`, `service/restore.go`, `verify`) | snapshot states, receipts, replayed generations | VerifySnapshot, Rollback, Replay, ApplyRetention | decisions on stale copies, entries replayed twice |
| restore (`service/restore.go`, `restore`) | restore leases, references, cursors | BeginRestore, AdvanceRestore, FinishRestore | retention races, FinishRestore uses the lease it finds |
| retry (`retry`, `service/worker.go`) | task map, cancelled generations | ScheduleRetry, CancelRetries, RunRetry | a task is not taken off the queue while it is sent |
| watermark (`watermark`) | offset and generation per subscriber | AdvanceWatermark | a fast path without the lock |
| replication (`replication`) | destinations, byte budget, completed plans, outcome window | PlanReplication, CompleteReplication, Register, MarkHealth | check-then-reserve, journal closes after Closed(), double completion |
| orchestrator (`orchestrator`) | policies, runs, active counts, outcome window | RegisterOrchestrationPolicy, RunScheduledJob | limit changes while runs are active, deferred finish |
| mirror (`mirror`) | sites, records | RegisterMirrorSite, ApplyMirrorUpdate | compare and write under different locks |
| garbage collection (`gc`, `service/service_new.go`) | reference counts, pins | GcAddRef, GcReleaseRef, GcPin, GcUnpin, GcCollect | the scan runs over state that moves |
| manifest and checkpoint (`manifest`, `checkpoint`, `service/service.go`) | envelopes, checkpoint states and their history | MaterializeManifest, VerifyMaterializedManifest | works on a copy; the checkpoint is asked for and started in two steps |
| migration (`migration`) | schema versions, migrated snapshots | MigrateManifest | version read and written under two locks, context looked at once, journal last |
| quarantine (`quarantine`) | quarantined and cleared digests | QuarantineChunk, ReverifyChunk, QuarantineClear | journal before Admit refuses; admitted again after clearing |
| audit (`audit`) | hash chain of events | Record, Verify, EventsFor, Latest | must notice any change; fields are joined by a separator callers may use |
| telemetry (`telemetry`) | counters, latencies, bounded event list, event window | Observe, HealthSnapshot, FailureRate | answers from several reads under locks of their own |
| `src/replsnap` | snapshots by id, with base, manifest and chunks | Capture, Promote, Prune, PlanRestore | Prune and PlanRestore are lists followed by single deletes and reads |
| policy, scheduler, demo | none | functions of their arguments; a straight-line program | not modelled |

The components meet in the journal (every workflow appends to it and fails when it is closed),
in the catalog (captures write it; verification, restore, retention, mirror, replication,
materialization and collection read copies of it), in the audit ledger (most calls end with an
event) and in the lease store (captures and restores). There are no
callbacks but two: the sender that `RunRetry` calls, and the limit function the runbook calls.

## Modules

| module | what it is | models |
|---|---|---|
| `LeaseStore` | `now`, `leases`; Acquire, Validate, Release as operators and actions | `lease/store.go` |
| `Journal` | `entries`, `closed`; Append, Close, Open | `journal/log.go` |
| `Catalog` | `catalog`, `restoreRefs`; publication, states, references, retention | `catalog/store.go` |
| `Window` | the prune of an outcome window | `replication/window.go`, `orchestrator/window.go`, `telemetry/window.go` |
| `Publication` | abstract: drafts, journal intents, published snapshots | what a capture promises |
| `Capture` | composes `LeaseStore` and `Journal` with the staging area; refines `Publication` | `service/capture.go` |
| `Verification` | composes `Catalog` and `Journal` with receipts and replay | `service/verify.go`, `service/restore.go` |
| `Restore` | composes `LeaseStore`, `Catalog` and `Journal` | `service/restore.go` |
| `RestoreCursor` | the cursor walk against a reference definition | `restore/cursor.go` |
| `RetryQueue` | the queue and its workers | `retry/queue.go`, `service/worker.go` |
| `Watermark` | the ledger with and without its lock | `watermark/ledger.go` |
| `Replication` | composes `Journal` and `Window` with budget and registry | `replication/*.go` |
| `Orchestrator` | composes `Journal` and `Window` with the runbook | `orchestrator/*.go` |
| `Mirror` | `Apply` lock by lock | `mirror/*.go` |
| `RefCounts` | slice, index and live list | `gc/store.go` |
| `Collection` | GcCollect step by step | `gc/store.go`, `service/service_new.go` |
| `Materialize` | the manifest and checkpoint stores under racing calls | `manifest/store.go`, `checkpoint/store.go`, `service/service.go` |
| `Migration` | composes `Journal` with versions and contexts | `migration/*.go`, `service/service_new.go` |
| `Quarantine` | composes `Journal` with the quarantine store | `quarantine/store.go`, `service/service_new.go` |
| `Audit` | the chain, its verification, and look-ups | `audit/ledger.go` |
| `Telemetry` | registry and window, and the two readers read by read | `telemetry/*.go` |
| `ReplicaSnapshot` | what `replsnap` stores: Prune and PlanRestore step by step | `replsnap/{store,retention,restore,planner,availability}.go` |
| `ReplicaManifest` | what a stored snapshot contains: frames, Merkle root, quorum | `replsnap/{stream,manifest,merkle,verifier,quorum}.go` |
| `CaptureProofs`, `VerificationProofs`, `RestoreProofs`, `RetryQueueProofs`, `ReplicationProofs` | theorems about the module of that name and their proofs | |
| `OrchestratorProofs` | the same for `Orchestrator` and `Materialize` | |
| `LedgerProofs` | the same for `Collection`, `Watermark`, `Quarantine`, `Migration`, `Audit`, `RefCounts`, `RestoreCursor` and `Telemetry` | |
| `ReplicaProofs` | the same for `Mirror`, `ReplicaSnapshot` and `ReplicaManifest` | |
| `MC*` | instances for TLC: symmetry sets and constants | |

How state and actions correspond to the code:

* One VARIABLE per map or field of a store, under the source's name where it can be. `call[t]`
  is the program counter and the local variables of the service call that goroutine `t` is in;
  `[pc |-> "idle"]` is no call. Each action is what happens between two lock operations, with
  all it does on the way.
* A call that returns an error *before it has changed anything* is not an action: it would be a
  stuttering step. A call that fails later is modelled to its last clean-up.
* Chunks and payloads are known by their digest; a digest, owner, site or snapshot is a model
  value. Numbers that code only draws fresh and compares for equality (an operation id and its
  generation, for instance) are one number.
* Times are small naturals. `now` moves on its own, between any two steps.
* The definitions whose names carry a suffix and whose comment says "mutant" are plausible bugs
  of the definition that follows them. No specification uses them; each is kept to see that a
  property notices it.

## Runs

| run | shows |
|---|---|
| `capture` | one snapshot, two goroutines, shared handles, expiring leases, closing journal: fencing (`SingleValidHandle`), `PublishedIsJournaled`, `AckedIsDurable`, the inductive `CaptureInv`, and the refinement of `Publication` |
| `capture_exclusive` | two snapshots sharing contents, calls on one handle not overlapping: a capture that is over leaves no staged chunk or reservation (`OverLeavesNothing`), and a commit past Validate ends with its staging cleared (`CommitResolves`, liveness) |
| `verification` | verified states and receipts are journaled and of one generation (`VerificationInv`); a rollback leads to an older, full, verified snapshot (`RollbackGoesBack`); a second replay changes nothing (`ReplayIsOnce`) |
| `restore` | references are dropped only after completion is journaled (`RestoreInv`); the snapshot of a restore that is not over is not expired, unless it was before the restore added its reference (`UnfinishedIsNotExpired`); the completed restore of an owner who has no other, and whose lease was not taken over, leaves no reference (`CompleteHoldsNoReference`) |
| `replication` | the budget is exact and reserved bytes are journaled (`ReplicationInv`), racing completions agree (`OutcomesAgree`) and leave no bytes reserved for a snapshot planned once (`CompletedHoldsNothing`) |
| `orchestrator` | the active count is exact, and succeeded is the same as journaled and audited (`OrchestratorInv`); no policy has more runs in progress than the greatest limit it ever had (`WithinTheLimit`); every started run finishes (`StartedFinishes`, liveness). Racing MaterializeManifest calls: a checkpoint climbs its states in order, only its starter publishes it, and what is stored verifies (`MaterializeInv`); a started checkpoint is published (`CheckpointCompletes`, liveness) |
| `ledgers` | reports that do not overlap never regress a watermark (`WatermarkNeverRegresses`, `WatermarkInv`); with one worker per site a recorded generation never falls back (`RecordNeverRegresses`, `MirrorInv`); a schema version is never behind a migration that was written, journaled or reported (`MigrationInv`); a quarantine entry says verified only if it was compared since its admission, and entries, intents and events are in step (`QuarantineInv`); a ledger in which an event before the last was edited, removed or exchanged does not verify, nor one whose last event was edited under its old hash (`TamperEvident`; a last event that is removed, or edited and hashed again, and a `|` moved between fields go unnoticed); a retry that was scheduled and neither completed nor cancelled is in the queue, whatever copies of it are sent meanwhile (`RetryInv`, `AcceptedIsKept`), and a task that one worker had to itself is gone once sent and its attempts are exact (`UnsharedIsExact`); the event list is the newest observations and the window loses no recent one (`TelemetryInv`); answers read in pieces add up (`AnswersAddUp`); Prune keeps the chains of what it keeps, and a restore plan is the whole chain (`ReplicaInv`); a manifest accepts only its own chunks (`ManifestIsExact`); promotions share a replica (`QuorumsIntersect`) |
| `stores` | what was protected throughout a GcCollect is not collected (`CollectionInv`); reference counts are the balance of the calls over every sequence (`RefCountsInv`); the cursor walk is the contiguous end of every batch (`WalkIsContiguousEnd`), and of the chunks from 1 on a cursor passes none that did not arrive (`GapPreserving`) |
| `watermark_race` (violation) | a report on the unlocked fast path overlaps another report, and the newer offset is lost |
| `mirror_race` (violation) | overlapping updates of one site regress its record |
| `migration_cancelled` (violation) | a migration commits although its context was cancelled |
| `cursor_skips_zero` (violation) | a cursor passes chunk 0, which never arrived |

`MCLedgers`, `MCStores` and `MCOrchestrator` put components into one run that share no state, or
only a journal they append to. Interleaving such components adds no behaviour of either, so one
of them moves and the others stay as they were created. The `...Inv` of a module is the
conjunction of its type invariant, its named promises and what they rest on.

Findings. `Ledger.Set` of the watermark works on the maps without the lock, although the comment
at `watermark/ledger.go:20-22` says that concurrent workers cannot regress a watermark.
`Ledger.Apply` of the mirror compares under read locks and writes under another, although its
comment (`mirror/sync.go:9-12`) says that it commits only what is not older than the newest
record. `Runner.Migrate` looks at its context once, although its comment
(`migration/runner.go:8-10`) says that the context gates every commit step. The cursor of a
restore starts at 0 and skips every index that is not beyond it, so a chunk numbered 0 counts as
received before it arrives: `src/README.md:3` promises gap-preserving cursors, and the demo
(`cmd/replica-snapshot-demo/main.go:33`) numbers its chunks from 0, the service test from 1.

Things the models reach that no document rules out, and that a maintainer may want to know:

* two calls on one capture handle may leave staged chunks behind (`OverLeavesNothing` needs
  callers that do not overlap);
* restores that share an owner name may leave a restore reference behind for good;
* a task that two workers sent may be back in the queue after it was completed;
* the bytes of a snapshot that is planned again after its completion stay reserved, since the
  second plan has the id of the first and its completion is taken for a repetition;
* BeginRestore reads the snapshot before it adds its reference, so retention may expire it in
  between (the history variable `late` of `Restore` marks these plans);
* `Promote` takes the number of replicas and their names from its caller and checks neither, so
  promotions of different replica sets, or of different counts, need not share a replica;
* a last audit event that is removed goes unnoticed;
* an outcome window may keep an outcome older than its length behind a younger one;
* a MaterializeManifest that loses the race to start the checkpoint returns an error although its
  manifest is published; a call with an older copy may publish over the manifest of the verified
  snapshot; a call may succeed while the checkpoint is only prepared; and a checkpoint may stay
  published after a verified snapshot was materialized;
* a schema version moves although the journal is closed and the call fails; the journal may show
  racing migrations in the opposite order; all migrations have one Operation, so
  `LatestByOperation` keeps one of them for all snapshots, and all admissions to quarantine too;
* a re-verification that does not match leaves an earlier Verified as it is; a digest that is
  quarantined again still counts as cleared; a refused admission leaves its journal entry;
* an audit event in which a `|` moves from one field to the next has the hash it had before, and
  the last event can be replaced; `VerifyThrough` only looks for empty hashes;
* a name may have recent failures in a health answer that has no counter for it;
* a `replsnap` capture whose base a Prune under way has already given up has a chain with a hole,
  and a capture under an id that exists replaces the snapshot others are based on.

### Bounds, and why they are enough

Every bound is a CONSTANT named `Max...`, marked BOUND where it is declared and used in a
guard. Two goroutines (or workers) are the least that race; each property's mutant is found
with them. One or two snapshots suffice because stores key everything by snapshot, and the
shared resources (digests, budget, journal) are there with two contents or sizes. Clocks run to
1 or 2 with durations of 1, so that each lease expires at least once; two or three epochs,
generations and journal entries let an old one meet a newer one. The retry queue has two tasks, two
generations and a clock to 1, which makes a delayed task due.  The orchestrator's one window covers the
first of the day's moments, so that a run may be refused outside it. The event list of the telemetry
holds 2 (the code: at least 8) of 3 observations, so that it overflows; 3 ids and 3 captures in
`replsnap` give chains of three, cycles and saves over an id; 4 chunks give two odd levels of a
Merkle tree; 3 acknowledging replicas and promotions counted for 2 and for 3 of them give an even and
an odd majority and callers who counted differently. Numbers of the model are not
given a width: the counters of the code are 64 bits wide and grow by one per call.

Constants with a meaning for callers: `SharedHandles`, `SharedOwners`, `SerialCallers`,
`OneWorkerPerSite`. Where a property needs callers to behave (one call at a time on a handle, an
owner name per restore, one worker per site), the constant says so and the property's comment
says so. `capture` and the two race runs have the constants the other way round; `restore` has an
owner of each kind. Where callers need not behave but only some tasks or snapshots are spoken of
(tasks one worker held, snapshots planned once), history says which, and the others are in the
same run.

### Fairness

Two runs check liveness (`capture_exclusive`, `orchestrator`). `FairCaptureSpec`,
`OrchestratorFairness` and `MaterializeFairness` assume weak fairness of
the steps *inside* a call, per goroutine: a goroutine that is in a call is runnable, no store
method blocks on anything but its mutex, and mutexes are held for one method. Nothing is assumed
of callers: no call need ever be made, the clock may stop and the journal may stay closed.

## Proofs

All proofs are checked by TLAPS, for every value of the constants (any number of goroutines,
snapshots, owners, chunk contents, tasks, generations, destinations, versions), from the
`ASSUME`s of the modules. These say that times, durations, sizes, generations, limits and bounds are
natural numbers (lease durations, sizes, capacities, run limits and the ids of plans and of `replsnap`
snapshots positive), that chunk indexes, initial reference counts and counts of replicas are integers, that run windows
lie in a day, that the observations of the telemetry may start at 0, that the texts of audit events are sequences of
strings, that what stands for no owner, digest, holder of a lock or name of a replica is none of them,
that the resources with leases are the snapshots (`Restore`), and that the sets that are counted or summed over
are finite, as they are in a running program: the snapshots of the budget (`Snapshots` of
`Replication`), the goroutines in QuarantineChunk (`Keepers`) and the snapshot ids of `replsnap`
(`SnapIds`). How many replicas there are, and whether it is the count a promotion is made with, is not
assumed: `QuorumsIntersect` itself speaks only of promotions that no more replicas acknowledged, together, than each was
counted for. Callers who must behave are hypotheses of the theorem:
`~SharedHandles` of `OverIsClean`, `SerialCallers` of `WatermarkMonotonic`, one worker per site in
`MirrorMonotonic`.

Every safety proof has the same shape. The invariant is written in the component's module and
checked by TLC first; a lemma per action shows that the action keeps it, and rests on a frame
lemma that says which pointwise facts about the state are enough to carry the invariant over for
the goroutines, snapshots and tasks the action does not touch. The temporal step is the last.

`CaptureProofs`. The invariant is `CaptureInv`. `SingleValidHandle` is not inductive: a lease
that is re-acquired by the same owner must not revive an old handle, which holds because epochs
only grow and each belongs to one handle or to the one goroutine about to issue it
(`EpochsAreUnique`). `PublishedIsJournaled` and `AckedIsDurable` need to know what a call in
progress may rely on: the handle was issued, the entry is in the journal, the snapshot is its
own (`CallsKnow`). Theorems: `CaptureTypeCorrect`, `LeasesFence`, `CaptureInvariant`,
`JournalIsAhead`, `AcknowledgedIsKept`, and `CaptureImplementsPublication` (initial states map
to initial states and every step to an abstract step or a stutter). `OverIsClean` is
`OverLeavesNothing` for callers who do not overlap calls on a handle. It needs `ExclusiveInv`: a
call that may still stage is on a capture that has not ended, a call about to give its lease back
has cleaned up, a published capture can be validated only until the call that published it gives
the lease back, and operations that were not begun have nothing staged or reserved.

`VerificationProofs`. `LatestIsExact` is about `LatestByOperation` alone, for any log: one entry
per operation, none of the same operation with a greater generation. It is proved by ranks (a
finite set of numbers has a member of every rank), since the definition is by ranks and not
recursive. `VerificationInvariant`: each step is *well made*, that is, types hold after it, it
takes nothing back that others rely on (journal entries, generations, receipts), and each state,
receipt or entry it adds is justified by the journal; and any well-made step keeps
`VerificationInv`. `RollbackIsBackwards` needs the position of the verification in the journal, and
`ReplayOnce`, the action property, that replayed generations are only added to.

`RestoreProofs`. FinishRestore works with the lease it finds, so what one plan may rely on depends
on who else uses its owner name. `RestoreInv`: plan ids are unique and references belong to issued
plans (`PlansAreKnown`); an owner name outside `SharedOwners` is used by one restore
(`OwnersAreSole`); epochs only move on (`LeasesAreThePlans`); and a plan that alone decides about its
lease has, once completed, a call that will release the lease, and once that is released, a call
that will drop the reference (`CompletionGoesOn`). Theorems: `RestoreInvariant`,
`RestoreLeavesNoReference` (for an owner name that is not shared and a lease that was not taken over: a
fenced FinishRestore leaves the reference), and `UnfinishedNeverExpires`, which needs that the references
of an unfinished plan are still there and that those that came in time keep retention off
(`ProtectedIsNotExpired`).

`RetryQueueProofs`. `RetryInv` adds to the promises that what a worker holds is an earlier
state of a task that was scheduled: it may be stale, but its reschedule is checked against the
cancellations as they are then. `UnsharedIsExact` needs to know in addition what a lone sender holds
while it sends (`SendersAreExact`). `AcceptedIsKept` rests on `TasksAreAccepted`: whatever
is queued or held by a worker has the snapshot and the generation it was accepted with, so that what a
cancellation or a completion takes away is accounted for. Theorems: `RetryInvariant`,
`UnsharedSendsAreExact`, `AcceptedStaysKept`.

`ReplicationProofs`. `ReplicationInv` says who the bytes of a snapshot belong to (`OwnedBytes`): to
one call between Reserve and the journal, then to the plan in the journal, then to the one call
that completes it; a second plan of the snapshot is the only way to have bytes after that, and the
journal shows it. With it go the outcomes: they agree with the result of the one completion of their
plan. That the budget is exact (`BudgetIsExact`) is proved on its own: a sum is the last of the
running sums in some order of the snapshots (`IsSum`), and `SumMoves` shows that moving one summand
moves it by as much; the case of `Release` in which less is in use than is given back is never
reached. Theorems: `ReplicationInvariant`, `OutcomesAlwaysAgree`, `CompletionHoldsNothing`.

`OrchestratorProofs`. `OrchestratorInv`: each unfinished run has exactly one goroutine in it, so the
active count of a policy is the number of them; counting is by `Cardinality`, and each step adds
or removes one member. `MaterializeInv`: until a checkpoint is published only the
goroutine that started it moves it, and knows the state it will find (`StarterOwns`). `WithinTheLimit` adds that no registered
limit is greater than the greatest one the policy ever had (`LimitsAreKnown`). Theorems: `OrchestratorInvariant`, `LimitHolds`,
`MaterializeInvariant`.

`LedgerProofs`. `CollectionInv`: what is mirrored when a GcCollect begins is pinned, or still to be
pinned by its first loop, and when the scan begins all that must be kept is. `WatermarkInv` holds with or without overlapping
reports; `WatermarkMonotonic` needs `SerialCallers`, and `watermark_race` shows that it cannot be
had without. `QuarantineInv` counts per digest: a call that has journaled and not
yet admitted has an entry to itself, and one that has admitted has an event to come. `MigrationInv`: a call past SetVersion
relies on a version at least its own (`CallKeeps`), the journal on the same (`JournalKeeps`), and both
survive other calls because versions only rise and notes and entries are only added
(`NothingIsLost`). Theorems: `CollectionInvariant`, `WatermarkInvariant`, `WatermarkMonotonic`,
`QuarantineInvariant`, `MigrationInvariant`, and `VersionMonotonic`, which needs the comparison inside
SetVersion and not the check of Migrate.
`AuditInv` is that the events are what Record makes and that Verify accepts them; `TamperEvident`
follows from it, case by case, because a hash determines the text it was made of and so the hash
before it. That Latest and EventsFor agree is a fact about the loop of EventsFor, proved by taking
the first place at which it would fail. `RefCountsInv`: index and slice are inverse (`Agree`), so
the live list has each entry's digest once; a lemma each for a count that changes, an entry that is
appended and one that is cut out, after which those behind it are found one place earlier.
Theorems: `AuditInvariant`, `AuditIsTamperEvident`, `RefCountsInvariant`.

`GapPreserving` of the restore cursors speaks of the chunks from 1 on, since chunk 0 is passed unseen
(`cursor_skips_zero`). It rests on what AdvanceContiguous computes. An ascending order
of a batch exists (`OrderExists`: one value more finds its place in an order of the others). Along
the sorted batch the walk keeps `WalkInv`: all indexes between the old cursor and the new are in the
batch, and the walk has either passed everything it has seen or stands before a gap that nothing
later in the batch can close. So it ends at the end of the run (`AdvanceStopsAtGap`, `EndOfRun`),
which is `ContiguousEnd`. Theorems: `GapsArePreserved`, `CursorsNeverGoBack`, an action property,
and `WalkIsAlwaysExact`, all for integer indexes and batches of any length.

`TelemetryInv`: the event list and the window are ends of the history (`IsEndOf`), and neither an
observation, cutting to the limit nor pruning makes them anything else; counts and latencies move with
the one observation that is added. `AnswersAddUp` is about a call that reads at several moments; the
inductive invariant `AnswersIInv` says what it may still rely on: a count it has read is no
greater than the count is now, the counts of all names laid side by side are as many as the observations, an
average is within one of the calls observed (`MeanPart`: the latency of a name is at most its count
times one of the calls observed), and the failures of a name are among its count. All of these survive
the observations in between because the history only grows. The names need not be finitely many.
Theorems: `TelemetryInvariant`, `AnswersAlwaysAddUp`.

`ReplicaProofs`. `MirrorInv` holds whether or not workers share a site; its last conjunct, that
what a call is about to write is not older than what is there, needs one worker per site, and so
does `MirrorMonotonic`. The run `mirror_race` shows that it cannot be had without.
`ReplicaInv`: a snapshot has one chain at most (`ChainIsUnique`), and RetainedIDs, the least set
that has the newest snapshots and the bases of its members, has the whole of it
(`ClosedHoldsChain`), so nothing on it is ever a victim. This is about the snapshots that are kept when Prune decides: a capture that
comes in later may choose a victim as its base. For PlanRestore, when no capture comes in during the walk, the promise is about the
end of the walk; what carries it there is `WalkLeadsToTheLine`, that any chain still stored that
leads to where the walk stands completes what was walked to the chain of the snapshot. Deletes
only make fewer chains. `ManifestInv`: what is saved was verified, and chunks that agree with the
digests of a manifest are its chunks, whatever the Merkle root loses by repeating the end of an
odd level. Two strict majorities of the same replicas do not fit beside each other
(`MajoritiesMeet`); that they are of the same replicas is the hypothesis in `QuorumsIntersect`. Theorems: `MirrorInvariant`, `MirrorMonotonic`, `ReplicaInvariant`,
`ManifestInvariant`, `ManifestAlwaysExact`, `PromotionsAlwaysMeet`.

Facts about data that would be proved by induction are proved by least counterexample instead
(`LeastNumber`): two chains that agree from the end, the members of a closed set, the events a loop
has gone through. A loop is a recursive function in the model (`EventsFor`, `LiveDigests`,
`AdvanceContiguous`, `TotalOf`), and the proofs show first that a function satisfies its equation
at all. The provers know nothing of the library's operators that sort, fold or filter, so the
modules with proofs define a sorted batch by its order and count sets of places instead.

Only model-checked: liveness under fairness (`CommitResolves`, `StartedFinishes`,
`CheckpointCompletes`), which is out of the prover's reach. Every invariant and every action
property of the passing runs is also proved.

## Not modelled

Read accessors (they change nothing, except that the windows prune, which is modelled); the words
of errors, journal details and audit events; JSON health output; the vendored `go-cmp`, which
words a journal detail; the demo command, a straight line of calls.

The scheduler (`orchestrator/scheduler.go`) and the policy engine (`policy/engine.go`) are
functions of their arguments that no workflow of the service depends on: what they promise is
what their last lines compute. `checkpoint.Store.Abort` and the states `restored` and `aborted`
are not reached from the service.

## Plan

Done in this order: capture with its stores and its abstract specification; verification,
restore and retry; watermark and cursors; replication and orchestrator; mirror and collection;
materialization, migration and quarantine; audit and telemetry; `replsnap`.

Proved, in the order of weight: capture with its refinement, retry, mirror and migration; then
verification, restore, replication, orchestrator, materialization, collection, watermark and
quarantine; then `replsnap`, the audit ledger and the chunk references; then the restore cursors
and telemetry.

Next: composition of `Restore` with `Collection`, and an abstract specification of protection
that both retention and collection implement.
