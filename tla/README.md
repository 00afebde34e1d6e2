# Verification of metric

`metric` is a self-hosted, Sentry-compatible error tracker: one Rust process that
takes events over HTTP, stores them in MongoDB or PostgreSQL, and processes them in
the background into issues, counts, releases and notifications. This directory holds
TLA+ models of its core: the event pipeline from durable acceptance to finalization, the
authorization cache in front of it, and the protocols that live beside it (project
deletion, issues and their notifications, monitors). With them come the TLC
configurations that check the models on small instances, and TLAPS proofs that the safety
properties of eight of them hold for instances of every size.

Paths such as `writer.rs` without a directory are under `src/crates/application/src/`;
`mongo/` and `postgres/` stand for `src/crates/mongo/src/` and
`src/crates/postgres/src/`.

## 1. Inventory

### The event pipeline

```
HTTP ─► BacklogGuardedEventSink ─► ProjectFencedEventSink ─► EventWriter ─► event store
              ▲ flag                                             │ offer        │ load_due
              │ observe                                          ▼              ▼
              └────────────────────────────────────────────── Dispatcher ◄── refill
                                                                 │ spawn_work
                                                                 ▼
                                     Processor ─► FinalizerBatcher ─► finalization store
```

Before any of this, ingest resolves the DSN key of a request through the project cache.

| component | state it keeps | operations | what is hard | what makes it correct |
|---|---|---|---|---|
| **EventWriter** (`writer.rs`) | bounded channel, batch at hand, carried command, `accepting` flag | `persist`, collect, flush, drain, close | callers are cancelled at any await; a store reply is lost or late; a drain deadline drops a flush; a command arrives while the receiver goes away | acknowledged means stored; one acceptance per key; no command lost; every call answered; the shutdown ends |
| **Event stores** (`mongo/event.rs`, `postgres/events.rs`) | pending, processed and failed events with attempts and next-attempt times | `insert_batch`, `load_due`, `observe`, `record_processing_failure` | writes applied after their caller gave up; a bounded scan before a filter | unique keys; conditional updates that ignore stale copies |
| **Dispatcher** (`dispatcher.rs`) | dedup set of keys, bounded queue, `JoinSet` of workers | offer, refill, spawn, join, drain, start | two locks per offer; a snapshot that is out of date when used; a biased select; crash | no key left behind; no event worked on twice at a time; every due event found |
| **BacklogGuard** (`dispatcher.rs`) | one atomic flag | observe, admit | two queries at different times; hysteresis | a full backlog closes admission, a drained one opens it |
| **Processor, FinalizerBatcher** (`processor.rs`, `finalizer.rs`) | one handler per event, channel of requests, batch | stages under deadlines, failure records, batching, replies, drain | a worker gives up but its request or its write goes on; one result for a whole batch | attempts bounded and monotone; terminal is final; every event settles |
| **Finalization stores** (`mongo/finalizer.rs`, `postgres/finalization.rs`) | issues, hour buckets, catalogs and their usage | issue update, hour update, catalog admission, terminal update | four separate writes on MongoDB; a lost commit acknowledgement on PostgreSQL | processed events are counted; catalog ceilings |
| **DSN cache** of the project service (`projects.rs`) | entries with expiry, LRU records, loads under way, a generation | lookup, coalesced load, insert, evict, expire, invalidate | an invalidation during a load; a load taken over from a cancelled lookup; evictions through outdated records | bounded; one load per key; no access after its revocation |

### Beside the pipeline

| component | state it keeps | operations | what is hard | what makes it correct |
|---|---|---|---|---|
| **Project deletion** (`deletion.rs`, `mongo/deletion.rs`, `postgres/deletion.rs`) | in-process fence and count of active calls; durable job with phase, dataset, cursor and pass; tombstone | request, cancel, purge one batch, release the slug | commands and purge beside each other as sequences of writes on MongoDB; calls that outlive their guard; resumption after a crash | nothing under a tombstone; a cancellation restores everything; every deletion ends |
| **Issue lifecycle** (`mongo/issue.rs`, `postgres/issues.rs`) | status, time of the resolution, regressions, outbox transitions | occurrence batch, resolve, ignore, reopen | batches applied again on MongoDB; commands against occurrences | a regression is counted once; the transition is written with the change |
| **Notification outbox** (`notifications.rs`, `mongo/notifications.rs`, `postgres/notifications.rs`) | transitions, deliveries with attempts and leases, a bounded queue of claims | `expand_once`, `claim_once`, `deliver_claim` | an expansion cut off half way; a lease that ends while its claim is queued; a destination that goes away | no change forgotten; at most `max_attempts` requests; every notification ends |
| **Monitors and uptime** (`monitor_writer.rs`, `uptime.rs`, `mongo/monitors.rs`, `postgres/monitors.rs`) | definition with next slot, lease and last run; runs | check-ins in micro-batches, uptime checks, timeouts, missed runs, edits | four writers of one document; whole-document writes of what was read earlier; crash between run and projection | the first outcome of a run stays; runs end; the monitor moves on |

### The rest of the system

| component | state and operations | what is hard | status |
|---|---|---|---|
| Cold archive (`archive.rs`) | segments, manifests, hot rows | crash between upload, manifest and hot delete; orphan cleanup | not modelled yet |
| Artifact bundles, debug files, chunk upload, retention (`artifacts.rs`, `artifact_retention.rs`, `debug_files.rs`) | chunks, bundles, bindings | collection against publication and lookup | not modelled yet; Deletion has one bundle that is collected |
| Blob store and cleanup (`blob_cleanup.rs`) | blobs and references | an orphan that gets its reference while it is deleted | not modelled yet |
| Signal writers (`log_writer.rs`, `span_writer.rs`, `metric_writer.rs`, `session_writer.rs`, `replay_writer.rs`) | channel and batch each | as EventWriter, with weaker acknowledgements | not modelled a second time |
| Ingest admission (`ingest.rs`) | in-flight budget, rate limits, quotas | reservations released on every path | the normalization of check-ins only |
| Scheduler (`scheduler.rs`) | a local lease per task, retry times | a pass cut off by its timeout | its two monitor tasks, in Monitors |
| Authentication (`auth.rs`), migrations | sessions and tokens; schema generation | revocation; a crash between two steps | not modelled yet |
| Normalizer, grouping, symbolication, query, search, explore, dashboards, capsules, HTTP | pure transformations, read-only queries, I/O | little that is a matter of state | not modelled |

`PROJECT.json` lists every component with its sources, and under `hazards` what is hard
to test, each at the line where it bites, with the properties that would catch it.

## 2. Modules and the code

Every definition that models code is listed in `PROJECT.json` with the lines it stands
for. Payloads, names and encodings are reduced to keys; durations are not modelled: a
timer is an action that may happen whenever the code waits under it. Definitions whose
comment starts with "Mutant" are deliberately wrong variants; the specification never
uses them, and putting one in the place of the definition that follows it makes TLC
report the property it is listed with.

### EventWriter

| variable | code |
|---|---|
| `call[r]` | where the future of one `persist` call is, or its answer; `cancelled` when it was dropped |
| `doc[r]` | what became of its document in the store; `sent` means handed over, outcome open |
| `channel`, `batch`, `bytes`, `carry` | the mpsc channel, `Batch` with `encoded_bytes`, the command that did not fit |
| `pc`, `stopping` | where `run_writer` / `drain_writer` is, and whether it has seen the shutdown |
| `accepting`, `shutdown` | the shared flag, the `ShutdownSignal` |
| `handed` | the events the handoff took |

`Persist`, `Send`, `SendClosed` and `CancelCall` are the caller; `Receive` to `Close` are
`run_writer` and `drain_writer`, with the bias of their selects as guards; `FlushReply`,
`FlushUnavailable`, `FlushAmbiguous` and `DrainDeadline` are the four ways in which
`flush_batch` ends. The store applies a sent document at any later moment
(`StoreApply`), also after a timeout. `validate_config` is `ValidConfig`; its range for
`max_documents` (100..500) is scaled down.

### Dispatcher

Durable: `due` (in due order), `later`, `gone`, `fenced`. In memory: `keys` (the dedup
set), `queue`, `working`, `returned` (finished, not joined), `owed` (events the writer has
yet to offer), the offers between their two locks (`freshOffer`, `refillOffer`), and the
refill (`startup`, `wanted`, `excluded`, `loaded`). `FreshOffer`/`FreshSend` and
`RefillOffer`/`RefillSend` are the two halves of `offer_pending_with_source`; `RefillTick`
to `RefillDone` are `refill_once`; `Spawn`, `Join`, `SeeShutdown` and the `Drain…` actions
are `run_dispatcher` and `drain_dispatcher`; `Start`, `Exit` and `Crash` are the process.
`load_due` is modelled for both backends: MongoDB scans a bounded prefix of the due order
and then drops rows of fenced projects, PostgreSQL filters in the query. A refill may be
answered by either, so what is shown holds for both. The handler is what it does to the
event (`HandlerFinishes`, `HandlerPutsOff`, `HandlerRecordsNothing`). One that gave up at a
deadline, or was aborted, may leave writes behind: a finalization that is still with the
batcher (`lateFinish`) or a failure record that timed out (`lateRecord`). `LateFinish` and
`LateRecord` apply them at any later moment, and `overtaken` is history: the events that such
a write has changed since the last `load_due` answered. A fence is not taken back here:
cancelling a deletion is the subject of Deletion.

### Processing

One handler per event, which the Dispatcher's `NoDoubleWork` justifies. `Schedule` takes
the writer's copy (no attempts, perhaps out of date) or a pending event; `StageFails`,
`Submit` and `StageDeadline` are `Processor::process` and `run_stage`; `WriteFailure`,
`AbandonFailure` and `LateFailure` are `persist_failure` and the conditional update of
`record_processing_failure`, which may be applied after the worker gave up. `Collect`,
`RefuseBatch`, `StartStore`, `SendReplies` and `RejectRest` are `run_finalizer_batches`
and `finalize_one_batch`. `PendingEvents`, `UpdateIssues`, `UpdateHourly`,
`FinalizeEvents` and `MongoFails` are the steps of MongoDB, any of which may stop half
way; `Commit` and `Rollback` are the transaction of PostgreSQL. `counted` and `hourly` are
history: how often an event was added to its issue and to its hour. The batcher's drain
deadline is looked at between batches, as in the code.

Left out: the stages before the finalizer beyond success or failure, the concurrency
permits and the coalesced project lookup (they change nothing durable), the purge of a
deleted project's rows, and panics of a handler, which leave the event as a handler that
records nothing does in Dispatcher. A project that is disabled, or not active any more, fails
its events for good (`processor.rs:586`): here those of the constant `Invalid` do.

The backend, `transactional`, is chosen initially among `Backends`.

### BacklogGuard

The clock, the pending events with their times of receipt and next attempt, the
observation as two queries (`ObserveCount`, `ObserveOldest`), and the flag. Both limits are
taken to be set.

### Catalog

`update_catalogs` (MongoDB: reserve in `catalog_usage`, then upsert) and
`materialize_releases` / `materialize_environments` (PostgreSQL: one transaction), for one
project; the backend, `transactional`, is chosen initially. `heldRelease` and
`heldEnvironment` are the place between reservation and upsert; `LoseReservation` is a
failed upsert or a crash between the two. `regressed` is history: an earlier receipt day was
admitted after a later one.

### ProjectCache

`entries`, `order` and `inflight` are the fields of `CacheState`, `generation` is
`cache_generation`, `value[o]` is what a `OnceCell` was set to; `pc`, `key`, `seen`, `cell`
and `loaded` are the locals of `cached`, one lookup per caller at a time. `Hit` and `Miss`
are `get`; `Coalesce`, `Enter` and `RejectCapacity` the block under the second lock; `Load`
and `Loaded` the future inside `get_or_init`, its read of the store and its arrival;
`Finish` the block under the third lock. `CancelLookup` drops the future at its await: the
cell stays in the map, and another waiter may load in its stead. The commands
(`set_key_state`, `set_project_key_state`, `set_project_acceptance`,
`update_project_policy`, `invalidate_keys`) have one shape: `Change` the store,
`RaiseGeneration`, `Invalidate` under the lock; one whose store call fails after it took
effect stops after the first. A command for several keys is one for each of them. Snapshots
are reduced to whether they grant access; `revoked` and `shared` are history.
Records carry no generation in the model: the one that counts is the last of its key
(`LastAmong`).

Left out: the creation of organizations, projects and keys (straight inserts with collision
retries), and the mapping cache of imported DSNs, an instance of the same code. `Miss` is the
look into the cache and the read of the generation that follows it in one step: a command in
between raises the generation before it is read, as one before both does.

### Deletion

One project with its key, its events and one artifact bundle. `jobs[o]` is the durable job
of operation `o`; `fenced` and `call[c]` are `ProjectWorkRegistry` and the ingest calls
inside it; `request[o]`, `cancel[o]` and `purger` are the locals of the commands and of the
worker, that is, how far each is and what it has read. On PostgreSQL a command
(`RequestTransaction`, `CancelTransaction`) and a step of the purge (`PurgeTransaction`) are
one transaction. On MongoDB they are the writes of the code in their order: `ReadProject`,
`LookForJob`, `InsertJob`, `FenceProject`, `FenceKeys`; `ReadJob`, `RestoreProject`,
`ResumeKeys`, `CancelJob`; `FindJob`, `MarkProject`, `MarkJob`, `PurgeBatch`,
`PersistCursor`, `Advance`, `CompleteJob`. The 29 datasets of MongoDB and the 39 of
PostgreSQL are reduced to events, keys and bundle bindings in the order in which each
backend has them. `DropCall` is a caller that goes away, so that its event is inserted
although the drain no longer counts it. `graceOver` and `purged` are history.

One assumption about time: the first pass of MongoDB, a poll of the worker for each of 29
datasets, outlasts the ingest calls that were under way at the fence (`CallsEnded`).
Without it an event could be written behind the second pass as well; no code excludes that,
only the difference between seconds and minutes.

Left out: a write of the purge that `operation_timeout` abandons (`deletion.rs:314`) and that
lands after the next step has begun; `AbandonPurge` stops between two writes.

### Issue, Outbox, Notifications

`Issue` has no state of its own: its operators take an issue and give the issue after a
batch of occurrences or a command, with the transitions that go into the outbox in the same
write. `Notifications` keeps one issue, its outbox, the deliveries and the
`NotificationDispatcher`: the poller (`Poll`, then `ExpandTransaction` or `BeginExpansion`,
`UpsertDelivery`, `RemoveTransition`, then `Claim` for as long as the queue has room), the
queue, and workers (`Take`, `Deliver`, `Mark`). `Apply` may take events again that MongoDB
has not yet marked as processed. A `Command` carries the time at which it read the clock
(`native_api.rs:2151`), any time before its write; `backdated` is history: a resolution was
stored with a time before that of an event that had regressed the issue. The times of leases
and retries are reduced to whether they have come (`due`); a lease may end while its claim
is queued or worked on (`LeaseRunsOut`).

`Outbox` states what all this is for: a change makes everything it is to notify pending at
once, each notification is sent at most `MaxAttempts` times, and it ends once, delivered or
dead. `ImplementsOutbox` maps an item to the status of its delivery where there is one, and
otherwise to "pending" from the moment its transition has happened: the expansion, complete
or cut off, is invisible, and so are claims, leases and retries. A send after the delivery
was recorded is allowed: the outbox promises at least once.

Left out: assignment and activities of issues, monitor and aggregate alerts, test
deliveries, the adapters, and changes of rules, among them the removal of a destination from
its rules with which `delete_destination` begins (`notifications.rs:247-266`). A round of the
poller takes any part of the outbox, whatever `transition_batch_size` and the order by id.

### Monitors

One monitor (`monitor`: next slot, last run, lease) and its `runs`, with four actors:
persist calls (`call`) of the MonitorWriter or the UptimeScheduler, the two monitor tasks of
the Scheduler (`pass`), which run one after the other, an administrator (`edit`), and time.
PostgreSQL has one transaction for each; on MongoDB `LoadMonitor`, `WriteMonitor`,
`ReadRuns`, `WriteRun` and `ApplyProjection`, `StartTimeouts`, `TimeoutRun` and
`ProjectTimeout`, `StartMissed`, `InsertMissed` and `AdvanceMissed` are its updates in
order. `MergeOne` is what a check-in does to its run, `Project` and `Projected` are the
projection of a run onto the monitor, `Define` the definition a check-in carries. Whether it
carries one depends on its status in an instance (`given.defining`), as SDKs send it with
every check-in, with the first, or not at all. Of what `MonitorDefinition::validate` asks, the
model keeps that a monitor is not updated before it was created (`created`, `invalid`,
`Valid`): PostgreSQL validates what it writes, MongoDB the definitions it writes and all it
reads, but not a projection.

Left out: the rest of `validate`, which is about names, limits and headers; disabling and
deleting monitors, the expiry of runs, crontab arithmetic (the schedule is an interval), the
evaluation of alerts, and what a check does on the network. A run that is reported ended has
its receipt as its start, not its receipt less the duration: only the start of a run in
progress is ever used.

## 3. Runs

| run | what it shows | bounds |
|---|---|---|
| `writer` | an acknowledgement is durable, one acceptance per key, no command lost, "unavailable" definite while serving; every call is answered or cancelled; a shutdown ends the task | 3 calls, 2 for one key, 1 document over `max_bytes`; channel 1, batch 2 |
| `dispatcher` | dedup set = offered + queued + running; no double work; refills schedule finished events only when a late write overtook them; every due event is worked on; a shutdown ends | 2 events, queue 1, 1 worker, scan of 1 row, 1 event fenced, 2 stops, 1 handler that leaves writes behind |
| `processing_safety` | on both backends: attempts within the limit; "ok" means done; processed means counted, on PostgreSQL exactly once; terminal is final | 2 events, 2 attempts, 1 of the events colliding and deletable |
| `processing_liveness` | on PostgreSQL, with stale copies: every event settles; attempts grow by one at a time | 2 events, 3 attempts, 1 of the events invalid, 1 handed over |
| `processing_retry` | **violated**: only exhausted or refused events fail (finding 1) | 2 events, 3 attempts |
| `guard_liveness` | the guard engages and recovers | 3 events, limit 2, 4 moments |
| `catalog_ceilings` | ceilings of environments and, in order of days, releases, on both backends | 4 releases, 3 environments, 3 days, limits 2 |
| `cache` | the cache is bounded; misses share one load; a lookup caches nothing stale of its own; revoked access ends | 2 keys, 2 callers, 1 entry, 1 load, 1 command |
| `deletion` | nothing is left under a tombstone; every deletion ends, and in the tombstone once project and job are marked; on PostgreSQL a cancellation restores everything and the slug is released | 2 operations (1 on MongoDB), 1 call, 1 stored event, batches of 1, 1 fault, project and key active or disabled before |
| `deletion_cancel` | **violated**: a cancelled deletion has removed nothing (finding 2) | the same, MongoDB |
| `notifications` | no change forgotten; regressions counted once; the implementation of `Outbox`; every notification ends | a new issue with 2 destinations and 1 fault, and resolve, regress, resolve with 1 destination, commands older than their writes and no fault; 1 worker, queue 1, 2 attempts |
| `monitors` | first outcomes stay; on PostgreSQL the monitor shows the run received last; runs end; the monitor moves on | PostgreSQL with 2 check-ins, MongoDB with 1, their definitions in the first, in all or (PostgreSQL) in none of the messages, and uptime on both; check-ins older than the monitor; 2 messages, batches of 2, 4 moments, 1 fault or edit |

Why the bounds are enough to be interesting. The invariants of all runs, the action
properties and `ImplementsOutbox` are proved without them (section 5); they matter for
liveness, and for finding out what to prove. In the writer three calls put one command in
the batch, carry one and leave one in the channel, and two calls for one key race with an
abandoned write of the first. In the dispatcher two events are one more than the queue
holds, so that a full queue, a rejected offer and a refill that meets a fresh offer occur; a
fenced row hides the event behind it, two stops are a shutdown and a crash, and one handler
that leaves its writes behind is enough for them to land between the answer of `load_due`
and the offer of the row. In processing two events are the smallest batch with a duplicate,
with a victim that did nothing wrong, and with a step done for one of its events only; two
attempts give a retry and a last attempt, and a third lets a late record fall behind by more
than one. In the catalogs there is one entry more than every limit admits and a day before
and after the current one. In the cache two keys compete for one entry and one place for a
load, and two callers are one that loads and one that joins; a single command is enough for
both sides of its race with a load. In the deletion two operations are one that is cancelled
or repeated and its successor, the event of the call sorts before the stored one, so that it
may be written behind the cursor, and a batch of one gives full batches and the empty one
that ends a dataset. In notifications two attempts are a retry and a last one, one place in
the queue lets a claim wait behind another, and one fault cuts off an expansion, loses a
claim or ends a lease early. Among the monitors two messages are a start and its end, or the
end twice, and four moments hold a slot, its grace, a timeout and a slot that is missed
again.

Named bounds: `MaxStops` (crashes and shutdowns, Dispatcher), `MaxLapses` (handler runs that
record nothing or leave a write behind, Dispatcher), `MaxFaults` (what fails: crashes,
shutdowns and abandoned failure records in Processing; crashes, abandoned commands and
failed batches in Deletion; crashes, failed calls and edits in Monitors), `MongoOperations`
(Deletion), `Instances` (Notifications, where `given.faults` bounds crashes, failed calls,
early ends of leases and changes of destinations, and Monitors), `MaxClock`, `LastReceipt`
and `MaxMessages` (Monitors), `MaxChanges` (commands, ProjectCache), `Horizon` (the clock,
BacklogGuard). `ScanFactor` is the constant 8 of `mongo/event.rs`, scaled. At the end of
BacklogGuard's bounded clock every retry is taken to be due.

### Fairness

- *Tasks* (`WF` on `Task`, `Batcher`, `Worker`, on some `Handler`, on `Lookup`): the runtime
  polls a task that can go on, and every await in them is under a timer
  (`operation_timeout`, `max_wait`, stage and event deadlines, `state_timeout`, drain
  deadline; the driver's for a lookup).
- *`Send`* (`SF`): tokio's channel semaphore serves waiting senders in order.
- *`RefillLoaded`, `ObserveOldest`* (`SF`): the store answers now and then; with a store that
  never answers nothing could be promised.
- *`Start`, `Exit`* (`WF`): a supervisor restarts the process, as the deployment documents.
- *`Purge`* (`WF`): deleted projects are purged. *`Expire`* (`WF`): time passes.
- *Deletion*: ingest calls that were authorized end, the grace period passes, the worker and
  the artifact retention are polled (`WF`). Nothing is assumed of commands: one that was
  interrupted need not be repeated.
- *Notifications*: the poller's ticker and the workers go on, a retry time comes and a lease
  ends (`WF`). `Claim` of each delivery is strongly fair: due deliveries are taken in the
  order of their due time, which a claim moves, and `choose_fair_candidate` turns among
  destinations, so that each has its turn though the queue fills and empties.
- *Monitors*: time passes, leases end, persist calls and checks end by their timeouts, and
  the two tasks of the Scheduler come round (`WF`).
- Nothing is assumed of callers, of the order of events, or of the success of any store
  operation other than those. `GuardRecovers` names its own assumption, that the pending
  events get processed.

Deadlock is checked in every run but those of Deletion, Notifications and Monitors, where the
modelled system comes to rest when everything is done or the bounded time is over. Where
another one may come to rest there is an explicit stuttering disjunct with its condition
(`Finished` in EventWriter, the last disjunct of `Next` in Processing).

## 4. Where code and documents disagree

Two disagreements have runs of their own:

1. *A late retry fails a whole batch for good* (`processor.rs:433`). A worker that times out
   leaves its request with the batcher. If its retry is collected into the same batch, the
   finalizer refuses the batch for its duplicate, and this counts as a permanent failure of
   every event of the batch.
2. *A cancelled deletion can lose data on MongoDB* (`mongo/deletion.rs:513`). When the grace
   period ends, the worker reads the job, then marks project and job and purges the first
   batch, without looking at whether its update of the job matched. A cancellation that has
   read the job in the meantime restores project, keys and job, and reports success; the
   batch is purged all the same. If the worker marks the project in between, the project
   stays `purging` with a cancelled job, and nothing takes it further. PostgreSQL locks the
   project: `CancelledChangesNothing`.

The following were met while modelling and are left out of the properties by name:

- *The oldest event can hide* (`mongo/event.rs:386`, `postgres/events.rs:298`). The
  observation of the backlog reports the event that is due first, and a retry puts an old
  event behind younger ones; `docs/configuration.md:374` speaks of the "oldest pending
  event". `GuardEngages` is about the count.
- *Days that alternate reset the release ceiling* (`mongo/finalizer.rs:394`). The usage
  remembers one day; admitting any other day starts its count at one, while
  `module-contracts/0009-finalizer-phase-9.md:59-60` says that usage "never exceeds its
  configured creation ceiling". Hence the premise of `ReleaseCeilingInOrder`.
- *A revoked key can be cached again* (`projects.rs:638`). An invalidation removes the entry
  but not the load under way. A lookup that starts after the generation was raised joins
  that load, which has read the store before the command, and caches its answer because its
  own generation is current. `OwnLoadNotStale` shows that lookups which load for themselves
  are safe, `RevocationTakesEffect` that the time to live limits the damage.
- *A refill can schedule an event that is done* (`dispatcher.rs:412`). A finalization or a
  failure record that an earlier handler left behind may land between the answer of `load_due`
  and the offer of the row. The next attempt works on a copy that is out of date and records
  nothing (`TerminalIsFinal`, `AttemptsMonotone`); on MongoDB it may add the event to its issue
  and hour again. `RefillIsFresh` says that nothing else leads to it.
- *A drain deadline during a flush* (`writer.rs:296`) drops the oneshots of the batch, whose
  callers then see `Unavailable` for events that may be stored;
  `module-contracts/0003-event-writer-phase-3.md:32-34` calls such a result ambiguous.
  `UnavailableIsDefiniteWhileServing` excludes the shutdown for this reason.
- *An uptime monitor can stay on its slot on MongoDB* (`mongo/monitors.rs:187`). A crash
  between the run of a check and its projection leaves slot and lease; the next check of the
  slot has the same run id, is a duplicate, and is not projected. Contract
  `0036:36-38` calls the recovery idempotent. `MonitorAdvances` has uptime monitors on
  PostgreSQL only; without that condition TLC finds this behaviour.
- *A completion that lost to a timeout is reported as accepted on MongoDB*
  (`mongo/monitors.rs:185`) and projected, while contract `0035:72-73` says that "the
  completion is a duplicate". The run keeps the timeout (`FirstOutcomeWins`), the monitor
  shows the completion: `ProjectionIsLatest` is about PostgreSQL.
- *A slot can be missed twice* (`postgres/monitors.rs:347`). A check-in with a definition that
  was received earlier and is stored late sets the next slot from its own receipt, which may
  be one that was recorded as missed already. The slot is missed again: its run keeps its
  first time, the monitor is advanced and shows the second. Contract `0035:51-53` has one
  missed run per overdue observation. `ProjectionIsLatest` therefore compares the times of
  missed runs only from above; the attempt to prove it without that exemption led to this
  behaviour, which takes four moments.
- *A check-in older than its monitor makes it unreadable on MongoDB* (`mongo/monitors.rs:240`).
  A check-in that was received before the web created the monitor and is stored after it sets
  `updated_at` before `created_at`, which `decode_monitor` refuses (`mongo/monitors.rs:939`,
  `domain/monitors.rs:576`). From then on every pass over missed runs ends at this document,
  also for the monitors behind it, and so does every call for it; an edit by the web, which
  takes an unreadable monitor for none, heals it. PostgreSQL refuses the check-in instead
  (`StoredValid`). `MonitorAdvances` exempts a MongoDB monitor for as long as it is unreadable;
  without that condition TLC finds this behaviour, with one edit and one message.
- *A regression can be counted twice on MongoDB* (`native_api.rs:2151`, `mongo/issue.rs:462`).
  A resolution carries the time at which it was asked for. If its write takes so long that an
  event received later regresses the issue before it, the issue is resolved with a time before
  that event; when the finalizer applies the event again, which it may until the event is
  marked processed, the issue regresses and counts a second time, with the transition of the
  first. `RegressionsCountedOnce` exempts MongoDB from then on (`backdated`); without the
  exemption TLC finds this behaviour.
- *An interrupted deletion request can leave its project unfenced on MongoDB*
  (`mongo/deletion.rs:363`). The job is inserted before the project is fenced. If the request
  is cut off in between and not repeated, the grace period ends over a project that is still
  active: marking it matches nothing (`mongo/deletion.rs:508`), its data is purged and the job
  completed all the same. `DeletionEnds` says that the job ends, `PurgeReachesTombstone` what
  becomes of a project that was marked.
- *A delivery to a deleted destination never becomes dead* (`mongo/notifications.rs:249`): its
  claim counts an attempt and then fails, each time it is due. `EveryNotificationEnds` exempts
  it and shows that the others are not held up.
- *The slug of a deleted project* is released on MongoDB from the job, which a TTL index may
  have removed before (`mongo/deletion.rs:1080`): `SlugIsReleased` is about PostgreSQL.

## 5. Proofs

Eight of the nine models have proofs, in a module `…Proofs` of their own, that hold for
every value of the constants that meets the named assumptions: any number of calls, events,
keys or operations, any capacity, batch size, attempt limit and number of faults. In each,
the properties are not inductive by themselves; the invariant that is (`WriterInv`,
`CatalogInv`, `DispatcherInv`, `ProcessingInv`, `NotificationsInv`, `DeletionInv`,
`ProjectCacheInv`, `MonitorsInv`) stands in the component's module next to the properties it
strengthens, as a conjunction of named parts. TLC checked those of the last six on the
instances of their runs before they were proved. A proof has one case per action, and lemmas
for what several actions share. Theorems are named for the component and the property they
state.

| module | theorems beside the inductive invariant and type correctness |
|---|---|
| `EventWriterProofs` | `AckDurable`, `NoCommandLost`, `OneAcceptedPerKey`, `UnavailableIsDefiniteWhileServing` |
| `CatalogProofs` | `EnvironmentCeiling`, `ReleaseCeilingInOrder` |
| `DispatcherProofs` | `NoKeyLeaked`, `NoDoubleWork`, `RefillIsFresh` |
| `ProcessingProofs` | `AttemptsWithinLimit`, `OkMeansDone`, `CountedAtLeastOnce`, `CountedExactlyOnce`; the action properties `TerminalIsFinal`, `AttemptsMonotone` |
| `NotificationsProofs` | `NoTransitionLost`, `RegressionsCountedOnce`; the refinement `ImplementsOutbox` |
| `DeletionProofs` | `TombstoneIsLast`, `CancelledChangesNothing` |
| `ProjectCacheProofs` | `CacheBounded`, `OneLoadPerKey`, `OwnLoadNotStale` |
| `MonitorsProofs` | `ProjectionIsLatest`; the action property `FirstOutcomeWins` |

Two groups of lemmas come back in several of these modules: the facts about `ToSet` and
`IsInjective` of appended, headed and tailed sequences, and induction over numbers in set form
(`LeastNat`, `UpTo`). The induction theorems of the library have an operator as a parameter
and cannot be instantiated here; well-foundedness of the numbers, which is a fact about
sets, can be cited, and what is claimed of a number is put into a set. In this form
`Without` (Dispatcher), the greatest number of a bounded set (`GreatestNat`, Deletion), the
least number of evictions that suffices (`EvictionsExist`, ProjectCache) and what a batch of
any length makes of runs and definitions (`MergeFacts`, `DefinedFacts`, Monitors) are shown to
be what they should.

**EventWriter** (`RequestsAssumption`: finitely many calls with keys and sizes;
`ConfigAssumption`: what `validate_config` ensures). `NoCommandLost`, `AckDurable` and the
others are not inductive alone: from an arbitrary state satisfying them, a document could
be sent twice or an answer be given for a batch whose documents were never sent. `WriterInv`
adds `PhasesConsistent` (which of batch and carry may be occupied at each control point, and
that draining implies the shutdown), `SentOnce` (a document is untouched until its command is
in a batch being flushed, and queued commands are unanswered) and `UniqueInStore` (the key is
unique and a duplicate has an original). Answering a batch is factored into lemmas about
`Answer` and `FinishFlush`.

**Catalog** (`CatalogAssumption`: finite catalogs, days are naturals, positive limits). A
ceiling alone is not inductive, because a place is taken before its entry exists: `CatalogInv`
adds `EnvironmentsPaid` (entries plus held places do not exceed the usage) and `ReleasesPaid`
(the same for the current day; while days move forward, nothing exists for a later day and
every earlier one is within its limit; a transaction leaves nothing held). The second ceiling
needs its premise, as section 4 says.

**Dispatcher** (`EventsAssumption`: finitely many events; `ConfigAssumption`: the
configuration is valid; `BoundsAssumption`). Two parts are added. `MemoryConsistent` says
what is in memory at each control point; without it a restart could find a key of the
process before. `LoadedTracked` is the reason why a refill may trust an old snapshot: a
loaded event stops being due only through its purge, through a handler that has not been
joined yet, and its key is in the set until then, or through a late write, which `overtaken`
remembers. `due` is a sequence, because MongoDB scans a prefix of it; the proof needs of
`Without` only that it keeps what it does not drop.

**Processing** (`EventsAssumption`, `ConfigAssumption`, `BoundsAssumption`).
`RecordsWithinLimit` says that a failure record which is still under way, after its worker
gave up, would leave its event pending only below the limit. `BatchConsistent` is what each
step of MongoDB's `finalize_inner` has established for the next: what is not in `pending` is
settled, what is in it has been added to the issue before the hour and to the hour before it
is marked. It is what makes "processed means counted" hold although any of the steps may be
the last. The two action properties follow from one lemma on what any step does to an event
in the store, `DurableStep`, which comes down to the conditions of the updates.

**Notifications** (`NotificationsAssumption`: event ids are numbers with a bound, since
batches are applied in their order; the rest are types). For `NoTransitionLost`,
`ExpansionConsistent`: what an expansion does not have before it is stored, so the
transition may go when nothing is left. For `RegressionsCountedOnce`, `RegressionsBefore`:
an issue is resolved at a time not before the receipts of the events of all its regressions,
so an event that MongoDB applies again cannot regress it a second time. A resolution that
was under way for longer than that ends this on MongoDB (`backdated`); PostgreSQL does not
need it, because an event that regressed the issue is processed in the same transaction. For
the refinement, that a destination gets at most `max_attempts` requests: `Unsent` are the
attempts that are claimed and not made, and `SendsCounted` bounds requests made plus
`Unsent` by the attempts that are stored. `AttemptsDistinct` is needed, since a lease may
run out while its claim still waits in the queue: the next claim of the delivery is another
attempt. The proof of `ImplementsOutbox` takes each action to a step of `Outbox` or to a
stutter under the mapping `Intended`.

**Deletion** (`DeletionAssumption`: calls and stored events are finite sets of positive
numbers, batches are not empty; `NoneAssumption`: the absent key is no state of a key). On
PostgreSQL `TransactionalInv` says that one deletion is active at most, that in the grace
period the fence is all it has done (`OnlyFencedInGrace`), and that the datasets before the
one the purge is at are empty (`PurgedSoFar`). On MongoDB nothing like it holds: calls write
behind the cursor of the first pass, and a deletion that was cancelled meanwhile may be
purging still. `TombstoneIsLast` rests on the second pass, and `SequentialInv` says why.
While a job is in its second pass over a marked project, no call is left and nothing is
before its cursor (`SecondPassBehind`), nor before the batch that the cursor does not stand
behind yet (`SecondPassBatch`). A worker acts on what it has read, so it has to be shown that
this is the job that is stored (`WorkerHoldsJob`): the updates of cursor and dataset name the
project and not the operation, and the worker of a cancelled deletion may move the cursor of
its successor. It can do so once only, which is not enough to bring the successor into its
second pass before its own purge began (`NoPassInGrace`). The proof uses the assumption
about time of section 2 (`CallsEnded`) where the first pass ends, and nowhere else.

**ProjectCache** (`CacheAssumption`: finitely many keys and callers, positive limits; there
are as many cells as lookups and loads can hold at a time). `CacheBounded` is inductive up to
the existence of what it evicts: `insert` and `trim_order` pop records until the limits are
met, and the proof shows that some number of pops meets them, because every entry has a
record. For `OneLoadPerKey`, `CellsConsistent`: a cell belongs to one key and stays in the map
until it is set, so a lookup that misses finds it. A new cell exists by counting. For
`OwnLoadNotStale`, `OwnLoadsFresh`: by the time a command invalidates, the generation has been
raised past every lookup that loaded before the change; `LookupsConsistent` gives that a
lookup has not seen a generation that is still to come.

**Monitors** (`MonitorsAssumption`: check-ins are numbers, schedule and limits are positive,
a run received last can still time out; `NoneAssumption`: an absent run or monitor is no
record). `MergeInv` is the invariant of the loop over a batch: a run that it changed had not
ended and got no older, and has the time of one of the accepted updates (`Traced`); an
accepted update that its run does not show is followed by a later one of the same run that
is not older (`Shown`). Hence the latest update is shown by its run, and everything changed
is no newer. If the monitor keeps a run received after the whole batch, that run is none of
the changed ones: were it in progress, its start would be its receipt, and an end before the
start is refused. The same argument, with the deadline in place of the start
(`RunsConsistent`), covers the timeouts. `LastStored` and `MonitorKnown` say that there is a
run to show, and that a new monitor has none yet; `Undivided` that the steps between are
MongoDB's. `StoredValid` says that PostgreSQL never stores a monitor that it would not read
again: each of its three transactions validates what it writes. For `FirstOutcomeWins`,
`NextMovesRuns`: on either store a step begins a run, ends one in progress or stores a
missed one. MongoDB's writes need for it that only an outcome is ever written over a run
(`Writes`), which is decided when the batch is merged, and that the update asks again
whether the run is in progress.

### What is only model-checked

- Liveness: `EveryCallAnswered`, `ShutdownCompletes` (twice), `EveryDueWorked`,
  `EveryEventSettled`, `GuardEngages`, `GuardRecovers`, `RevocationTakesEffect`,
  `DeletionEnds`, `PurgeReachesTombstone`, `SlugIsReleased`, `EveryNotificationEnds`,
  `EveryRunEnds`, `MonitorAdvances`. The prover has no rules for fairness.
- The violations of section 4: TLC shows the behaviour.
- That the models of one code agree with each other. Processing takes one handler per event
  from the Dispatcher's `NoDoubleWork`, Dispatcher reduces the handler to its effect; both
  sides are proved or checked, their composition is an argument in words.

## 6. Not modelled, and the plan

Not modelled, and not meant to be: normalizer, grouping and symbolication (pure
transformations of payloads), queries, search and dashboards (reads), HTTP, configuration
and codecs (I/O and formats). They are the larger part of the code, and what could be said of
them is not a matter of state and order.

Next, in this order:

1. An abstract durable work queue (accept once, attempt, settle once, nothing lost) and
   refinement mappings from EventWriter, Dispatcher and Processing to it.
2. Cold archive; artifact bundles and retention with blob cleanup.
3. Aggregate and monitor alerts, which claim rules as deliveries are claimed; sessions;
   migrations.
