# A TLA+ verification of the file crawler

The repository is a Python service that crawls web sites, downloads the files
it finds, learns (embeds) their text and reports progress. Almost everything
that is hard to get right happens inside one asyncio event loop: coroutines
interleave at every `await`, share dictionaries and bounded queues, hold locks
across awaits, are cancelled by `wait_for`, and talk to Redis, a database, a
browser and a batch scheduler that may fail or call back in any order. These
modules describe those parts as state machines, check them with TLC on small
instances, and prove with TLAPS every invariant that the passing runs check.

Paths below are relative to `src/`.

## 1. Inventory

| Component | State it keeps | Operations | Talks to |
|---|---|---|---|
| Embedding batches (`backend/shared/batch_embedding_scheduler.py`, `backend/filecrawler_batch_endpoints.py`) | contexts, done and cancelled flags in memory and in Redis; pending callbacks per job; batch to job | submit, callback, cancel, pending count | external scheduler (HTTP), Redis, vector store, workflow cleanup |
| Workflow cleanup and drain (`backend/shared/workflow_runner.py`) | `_workflow_objects`, running jobs, resources | wait for pending callbacks, drain queues, dispose | embedding batches, job queues, pool |
| SSE publish queue (`backend/shared/sse_publish_queue.py`) | slot per job, priority queue with stale entries, publish tasks, waiting payloads, log updaters | enqueue, worker, publish task, idle wait | Redis, crawling log in the database |
| Priority scan queue (`core/crawler/queues.py`) | two lanes, streak, unfinished count | put, get, task_done, join, drain | scan workers |
| Batch queue and multiplexing (`core/crawler/batch_queue.py`, `core/crawler/global_pool.py`) | buffer, bounded queue and lock per job | put, get, flush, task_done, join, dispose | save and study workers, flush task, drain |
| Global worker pool (`core/crawler/global_pool.py`) | registered jobs, started, ready, browser, permit, tasks, grace task | register, unregister, ensure_started, stop | `file_content_workflow.py`, `BROWSER_LAUNCH_SEMAPHORE`, local `WorkerManager`s |
| Browser leases (`core/crawler/global_pool.py`, `core/crawler/workers/download.py`) | current browser, use counts, retired browsers, relaunch lock; permit and attempts of a download | acquire, release, relaunch, close; Playwright fallback | browser, download workers |
| Redis state batch (`backend/shared/redis_sse_service.py`) | pending state per key, one flush task; per job last message, rate limit, delayed and smoothed messages | publish, update, merge, smooth, flush, requeue | Redis |
| DB write queue (`backend/shared/db_write_queue.py`, `db/crawl_db_manager.py`) | two bounded queues, futures, workers | run a write with a timeout, execute, replace a worker | database |
| Cross-job claims (`core/crawler/dedup.py`) | owner per URL in Redis, with expiry | claim, release | scan and collection workers |
| Workflow run (`backend/shared/workflow_runner.py`, `crawler_state.py`, `stop_service.py`, `heartbeat_registry.py`) | duplicate lock in Redis, running tasks, slots | lock, inspect a stale owner, run, release | Redis, dispatcher |
| Dispatch and start (`crawl_dispatcher.py`, `crawl_start.py`) | task of a job, waiting list | check, assemble, create the task | workflow run |
| Stage counters (`backend/board/board_content_workflow.py`) | ledgers of counted keys, counts, outcomes | select, save, study, upgrade, clear | board workers |
| Stage workers (`core/crawler/workers/`) | what they hold of a queue | scan, collect, download, save, study | queues, browser, database |
| Extraction and learning (`backend/board/`, `backend/file/`, `edu/`, `embedding/`) | one crawl's results | page and document conversion | browser, database |
| Persistence, utilities, scripts, dashboards (`db/`, `utils/`, `scripts/`, `tools/`) | - | single statements and pure functions | - |

What makes the modelled ones correct, and what is hard about them:

- **Embedding batches.** The count that keeps a finished workflow alive must
  stand for batches that can still call back; a batch is "done" only when its
  upsert has returned; a cancelled batch writes no vectors. Hard: the scheduler may
  answer before the submission has stored its context, may repeat a callback,
  or answer two at once; the context lives in memory and in Redis, either of
  which may be lost; the upsert passes over rows that fail; the endpoint's exception
  path decrements a second time.
- **Workflow cleanup and drain.** It ends, and not before the work is done.
  Hard: unreliable callbacks, flushes and joins with timeouts.
- **SSE publish queue.** The last state of a job is published, in order, and a
  terminal state is not overwritten. Hard: two coalescing places, stale queue
  entries, a limit on tasks, an update that must precede a send but may time out.
- **Scan queue.** `join` returns only when all is done; no item is lost or
  worked on twice; the low lane is not starved. Hard: `get` races two lane tasks
  and is itself cancelled by the worker's `wait_for`.
- **Batch queue.** Items arrive once, in order, in bounded batches, and do
  arrive. Hard: `put` and `flush` wait for room with the lock held, and a worker
  that serves many jobs may be caught in the `get` of one.
- **Worker pool.** A served crawl has workers; permits balance; an idle pool
  stops. Hard: an idle shutdown races new registrations, which cancel it at any
  await; starts wait for a permit with the start lock held, and may be cancelled there.

- **Browser leases.** Use counts are right, no browser is closed under a
  lease, none is forgotten. Hard: several downloads find the browser broken at
  once, and a relaunch replaces it while others still use it.
- **Redis state batch.** The hash of a job goes back only where its memory does, and
  ends at the last state; no throttled message is left behind. Hard: four tasks per job
  (request, delayed publish, smoothing frame, flush) with their own copies.
- **DB write queue.** A write is executed once and its caller is told how that
  ended; a row never goes back. Hard: callers that give up and writes that go on,
  statements that are repeated or whose commit fails, workers that die.
- **Claims, locks and slots.** One owner at a time, and nothing that stays taken
  for nobody. Hard: keys that expire, a release of two calls, cancellation between
  any two lines, failing Redis calls after which the run goes on.
- **Stage counters.** Counts match the ledgers. Hard: several paths report one
  key, some twice and with another outcome, also after the ledgers were emptied.

`PROJECT.json` lists every hazard with its line and the properties that cover it.

## 2. Modules

| Module | Models | MC module | Proofs |
|---|---|---|---|
| `EmbeddingBatch` | submission, callback, cancellation, cleanup wait, restart | `MCEmbeddingBatch` | `EmbeddingBatch_proofs` |
| `SsePublish` | the SSE publish queue, its worker, log updaters and publish tasks | `MCSsePublish` | `SsePublish_proofs` |
| `ScanQueue` | `PriorityScanQueue` with its workers and the drain | `MCScanQueue` | `CrawlServices_proofs` |
| `BatchQueue` | the batch queues of all jobs, the workers and flush task of the pool, drain and disposal | `MCBatchQueue` | `BatchQueue_proofs` |
| `GlobalPool` | the life of the worker pool and of the crawls that use it | `MCGlobalPool` | `GlobalPool_proofs` |
| `BrowserUse` | leases, retirement and relaunch of the pool's browser; the Playwright fallback of downloads | `MCBrowserUse` | `BrowserUse_proofs` |
| `StateBatch`, `RedisState` | the batch of state writes; the messages of a job on their way to it | - | `CrawlServices_proofs` |
| `DbWrites` | the DB write queue and the crawling-log row | - | `DbWrites_proofs` |
| `WriteOnce` | what `run_db_write` promises, without queues: the abstract specification that `DbWrites` implements | - | - |
| `WorkflowRun` | dispatch, duplicate lock, slot, run and release | `MCWorkflowRun` | `WorkflowRun_proofs` |
| `UrlClaim` | the claim of a URL and the workers that meet at it | - | `CrawlServices_proofs` |
| `StageCounters` | the counters of a board crawl and their ledgers | - | `CrawlServices_proofs` |
| `CrawlServices` | the composite of `ScanQueue`, `RedisState`, `DbWrites`, `WorkflowRun`, `UrlClaim`, `BrowserUse` and `StageCounters` | `MCCrawlServices` | `CrawlServices_proofs` |

Conventions. One action is the code between two awaits that matter: what runs
without giving up the event loop is one step. Every coroutine has a program
counter (`spc`, `cpc`, `kpc`, `cleanup`; `pc`; `drain`, `dispose`; `grace`).
Redis, the scheduler and the browser are nondeterministic in what they answer.
Variables that only record history (`applied`, `gone`, `late`, `sent`, `logged`,
`missed`, `entered`, `taken`, `done`, `lost`, `passed`, `effects`, `robbed`, `stray`,
`overtaken`, `behind`, `disturbed`, `twice`, `outcome` of the counters, ...) are never
read by a guard.
Operators introduced by *Faulty variant* are plausible bugs of the definition
below them, kept to show that the properties notice them; no specification uses
them.

### EmbeddingBatch

`memCtx`, `memDone`, `memCancelled` and `redCtx`, `redDone`, `redCancelled` are
the two copies of what the code stores per batch; `pending` is
`_PENDING_EMBEDDING_CALLBACKS_BY_JOB` and `batchJob` the batch-to-job map.
`Submit` is `submit_crawled_url_embedding_batch`: the POST with its retries, of
which an attempt may be accepted with the answer lost (`SubmitError`: an orphan
batch), then the context in memory and in Redis, then the count. `CallbackReceive`
to `CallbackDropContext` follow `process_embedding_callback`, with the
endpoint's exception path as `CallbackRaise`. `Upsert` is `fallback_individual_upsert`
(`edu/url_edu.py`): it writes the vectors, or logs rows that failed and returns
without them (`missed`), which the callback does not tell from a success.
`CancelRequest` to `CancelDropDone`
follow `cancel_embedding_batch`. `Cleanup` is the loop that sleeps while
callbacks are pending, and `Restart` loses the memory and every coroutine.
The scheduler is external and owes nothing: `Orderly` says of a behaviour that so
far it has called back once per batch, after its registration, and only the two
properties that need this mention it.

### SsePublish

`slot`, `enqueued` and `queue` are `_sse_latest_by_job`, `_sse_job_enqueued` and
the priority queue with its stale entries; `held` is the payload the worker has
taken while it waits for the crawling log; `logNext`, `logBusy` are the updater
of a job; `sending` and `redisNext` the publish tasks and the payload that waits
behind one. A payload is its status, revision, counter, priority and number.

### ScanQueue

`lane`, `streak`, `unfinished` are the fields of `PriorityScanQueue`; `getter`
and `got` are the two lane tasks of a waiting `get` and what they fetched;
`orphans` counts the lane tasks a cancelled `get` leaves behind.

### BatchQueue

`buffer`, `queue`, `unfinished`, and `holder`/`held` for a put or flush that
waits for room with `_lock` held and its batch already cut off the buffer.
`visiting` is the job the pool's flush task is at, `wpc`/`at`/`batch` the workers
of a stage, `drain` and `dispose` the end of a job. The stages modelled are
those whose workers await `get()` itself (save and study).

### GlobalPool

`jobs`, `started`, `ready`, `browser`, `playwright`, `acquired`, `workers`,
`flush` are fields of `GlobalWorkerPool`; `lock` is `_start_lock`; `permits` and
`others` the semaphore and the permits of local pipelines; `grace` the idle task
with `stop()` inlined, and `cancelled` a cancellation it has not yet received.
`CancelStart` is the cancellation of a crawl inside `ensure_started` or the wait after
it: at the permit (`:678`, before the `try`) it leaves `_started` set without anything
behind it; during the launch the `finally` takes `_started` and the permit back, but
not Playwright. A crawl that falls back to a local pipeline (`FinishLocal`) stays registered.

### BrowserUse

`browser`, `useCount`, `retired` are `_browser`, `_browser_use_count` and
`_retired_browsers`; browsers are numbered in the order of their launches.
`relauncher` is the holder of `_relaunch_lock`, which only looks at the
browser again once it has the lock. A fallback's `lease`, `tries` and
`replaces` are locals of `download_item`. The permit is
`playwright_fallback_sem`. `Crash` closes a browser under everybody.

### StateBatch and RedisState

`pending`, `flushing`, `writing` are `_state_write_pending`, the flush task and
the items that flushes have cut off; `hash` is the value in Redis. In
`RedisState`, `lastMeta`, `window`, `throttled`, `delayed`, `smooth` are the
per-job dictionaries of `publish_sse_event`. Who sends is a request or the
smoothing task of a job; a delayed task sends in the name of the request it took.
A message is a counter, whether its status is terminal, and what of it may go back
(`back`). These are the exemptions of `_merge_monotonic`: an `exploring` event,
`allow_scan_count_decrease` and `allow_counter_decrease` let counters decrease ("count"),
`partial_sequence_running` lets a running status follow a terminal one ("status"). One
counter stands for all of them. The first two exempt only `scan_count` and `total_count`,
which are not smoothed either; the model smooths the counter in every case.

A state in the memory or in the hash also has two history fields, `recount` and `round`:
how often the memory of the job let its counter and its status go back before. The memory
is read before the publish and written after it, and sends of a job overlap freely;
`behind` are the senders whose merge read a memory that another send has replaced since.
The task that `_schedule_state_write` creates does nothing but take the lock that nobody
holds across an await and enqueue: it is one step with the publish.

### DbWrites and WriteOnce

`queue` are the two queues with their lanes, `running` what a worker has in hand
or that it is dead, `outcome` the future of a write, `caller` the call of
`run_db_write`. `Updated` is the UPDATE of `update_crawling_log_counters` with its
guards. `repeats` counts how often `_run_mysql_operation_with_retry`
(`db/mysql_pool.py`) has tried the statement again (`TryAgain`). Each try may have taken
effect or not, other writes run between tries, and a write whose last try times
out ends with that (`TriesRunOut`). A commit that fails is passed over (`:557`), so
`Executed` may have had no effect; a worker may die after the effect. `WriteOnce` has
three variables: stage, effects and answer of a write.

### WorkflowRun

A run goes from the dispatcher's check through `run_workflow_task`: the lock on
the fingerprint (`Main`) or on the job, the look at its owner, the slot, the work
(one step), and the `finally`. `lock` is Redis, `tasks` the dispatcher's registry,
`admitted` the slots of the process. An owner may be found stale whenever it has
neither task nor slot here: heartbeats and ages are not modelled.

### UrlClaim, StageCounters

`claim` is the key in Redis, `recent` that it stands for "processed lately", `pc`
the workers between acquire and the second call of the release. `StageCounters`
has a variable per ledger and counter; `outcome` is the true result of a key.

### CrawlServices

The seven services are used together by the workers of a crawl, in one event
loop, and share no variable of the model: a call of one is a step of its caller.
So the composite lets every behaviour exercise one of them (`focus`) through all its
states, instead of the product of states in which nothing new can happen. What
they do have in common, the loop that gives each step of each as one unit, is
in the modules themselves.

## 3. Runs

Passing runs. Invariants and action properties are checked over all reachable
states; a run with leads-to properties uses `FairSpec`:

| Run | Instance | What it shows |
|---|---|---|
| `EmbeddingBatch_races` | 2 items, 2 batches, 2 callbacks, 1 cancel, 2 attempts | the count is always backed (`PendingBacked`), and exact while the scheduler is orderly (`PendingExact`); a finished cancellation is final (`CancelSticks`); a workflow is not dropped under an outstanding batch (`CleanupWaitsForCallbacks`) |
| `EmbeddingBatch_faults` | 1 batch, 2 callbacks, 1 cancel, 1 Redis failure, 1 restart | done implies that an upsert returned, one fault alone keeps the context until then, and the end of a workflow comes whatever the scheduler does (`CleanupEnds`) |
| `SsePublish_order` | 2 jobs, 3 payloads of every kind, faults, 2 tasks | no stranded payload, order of sends, log before send, a quiet job has sent its last payload, the slot never goes back to running or to an older revision, every payload leaves every stage (`Settles`) |
| `BatchQueue_order` | 1 job, 3 items, 2 workers, capacity 1 | order and no duplicates, also with cut-off flushes and disposal; a slice of the drain that returned has seen its items finished (`DrainSound`); every item is finished, also the one that fills no batch (`AnyJobServed`) |
| `GlobalPool_lifecycle` | 3 crawls, 2 permits, deadlock checked | permits, served crawls, ready event; a start settles, also when others are cancelled; an idle pool stops unless it is stranded |
| `CrawlServices_safety` | the services one at a time, see below | the 15 properties of the table that follows |

| Service | Property of `CrawlServices_safety` | What it says |
|---|---|---|
| scan queue | `JoinSound`, `OneWorkerPerItem`, `LowNotStarved` | `join` is sound, an item has one owner, and how often a low item is passed over |
| Redis state | `NoStrandedState` | a pending state has a flush that will write it |
| | `QuietIsLatest`, `HashMovesOn` | once a job is quiet its hash is its last state; the hash goes back only where a marked or an overtaken message took the memory back, and never to a state from before that |
| | `ThrottledIsSent` | a throttled message has a delayed publish that takes it along |
| DB writes | `RowMovesOn`, `ExecutedOnce` | the row never goes back; the queue implements `WriteOnce` |
| runs | `LocksMatchRuns`, `SlotsBacked` | keys, slots and the runs that hold them agree |
| claims | `OverlapsPaidFor` | workers overlap on a URL only as often as a claim ran out or a call failed |
| browser | `BrowsersAccounted` | counts of leases, closed and forgotten browsers |
| counters | `StudyExact` | the learning counters are what the outcomes add up to |

Runs that must find a violation. Each states what the repository says of itself
and shows a behaviour of the code that contradicts it:

| Run | Statement | What the code does |
|---|---|---|
| `SsePublish_terminal` | `docs/codebase_optimization_structure.md:428`: a terminal message is protected against a later running one | not in the place behind a publish in flight (`sse_publish_queue.py:312`) |
| `ScanQueue_lost` | `queues.py:129`: task_done/join as in asyncio.Queue | if both lane tasks finish, one item is dropped and `join` waits for ever (`:219`) |
| `BatchQueue_cross_job` | `global_pool.py:187`: one asyncio.Queue-like interface over all jobs | the same property as in `BatchQueue_order`, with two live jobs and one worker: the worker waits for the buffer of one job to be flushed, the flush task for room in the queue of the other (`:276`) |
| `GlobalPool_stop` | `global_pool.py:1007`: the finally always marks the pool stopped | a cancelled `stop()` leaves it started without workers (`:996`) |
| `WorkflowRun_once` | `docs/codebase_optimization_structure.md:208`: the same job is not run twice | two dispatches pass the check (`crawl_dispatcher.py:778`) before either registers its task; one gets the key of the job, the other that of the fingerprint, and both run |
| `BrowserUse_ends` | `download.py:4448`: retries are limited so that nothing waits without end | a fallback whose file cannot be synced returns with its permit (`:4508`), and the next one waits for ever |

Properties of the passing runs are stated around other exceptions that the code
makes, met while modelling:

- `CancelSticks` assumes that Redis answers. If the cancelled flag could not be
  written, the memory flag that the log line of `batch_embedding_scheduler.py:775`
  speaks of is deleted at `:804`, and a late callback does write vectors.
- `SlotKeepsProgress` speaks of known revisions: a payload without one, or with
  the same one, may lower the counters (`sse_publish_queue.py:84`).
- `QuietMeansSent` needs `Quiet`, not just `IdleReported`: between taking a payload
  and starting its publish the worker holds it where `await_sse_publish_idle`
  does not look (`:475`).
- `InOrder` and `AnyJobServed` leave out what `lost` holds: a flush that
  `wait_for` cancels while it waits for room loses its batch (`batch_queue.py:63`).
- Nothing is promised about a disposal: a put that waits for room with the lock
  held keeps `dispose_job_queues` waiting once the job is unregistered and no
  worker takes from its queue (`queues.py:417`).

- `ThrottledIsSent` leaves out a message that is throttled while the delayed task of
  its job is already publishing the one before it: nobody sends it later
  (`docs/codebase_optimization_structure.md:444` speaks of a last delayed publish).
- `DoneImpliesUpserted` and `ContextKept` speak of an upsert that returned, not of
  vectors that are written: `fallback_individual_upsert` logs rows that fail
  (`url_edu.py:2271`) and returns, and the callback marks the batch done and deletes its
  context (`missed`). What is shown is that nothing else has that effect.
- `IdlePoolStops` leaves out a pool that is `Stranded`: after a start cancelled at its
  permit, or a `stop()` cut short, the idle task runs `stop()`, which cancels its own task
  where it closes the browser or halts Playwright, and `_started` stays set. It is about
  a pool without registered crawls; one that keeps the registration of a crawl with a
  local pipeline never is.
- `HashMovesOn` lets the hash go back with the memory, for a message whose caller asked
  for it (`back`) and for one that was merged with a memory that another send replaced
  before it was remembered (`behind`): both do go back in the code. `recount` and `round`
  make the property say that nothing older than such a message comes back after it.
- `HashMovesOn` and `QuietIsLatest` leave out a job for which a write of the hash failed
  (its effect is unknown, and the batch is queued again, perhaps behind newer ones) or
  two were under way at one time: flushes that overlap, and an `update_state_only` beside
  a pending item, a flush of one or another direct write (`disturbed`). Overlapping publishes,
  throttled messages, smoothing frames and publishes that fail do not disturb a job.
- A smoothing frame never chains to a second one, and a terminal message that a
  smoothing task merges cancels that task itself; both are in the model as they are.
- `RowMovesOn` is about the counters and statuses that the UPDATE guards. It
  overwrites the counts of scans and pages, and statuses "ok" and "crawled" are
  outside its terminal set. `ExecutedOnce` does not say that an answered write changed the
  row: a failed commit is answered as a success. A caller takes its timeout for success, also
  that of a statement whose tries ran out (`crawl_db_manager.py:1178`), and the
  "terminal DB update retry" of `workflow_runner.py:3330` never runs for that reason.
- `LocksMatchRuns` and `SlotsBacked` leave out what expired, failed or was cancelled
  (`robbed`, `leftKeys`, `leftSlots`): a run that is cancelled between its slot and
  its main `try` gives back neither slot nor lock; the key of a crashed run
  blocks its job until the TTL; the callback of a finished task removes whatever
  task is registered for the job by then (`crawl_dispatcher.py:1652`); and an owner
  that ends between `SET NX` and `GET` makes the run a duplicate of nobody.
- `OverlapsPaidFor` counts what `dedup.py` accepts: it fails open.
- `StudyExact` holds until a key is counted again after the end of a run has
  emptied the ledgers (`twice`).

### Bounds, and why they are enough

Two items with a batch each let one batch take the count of another; two
callbacks give duplicates and concurrent delivery; one cancel races both. One
Redis failure can hit any single call, and one restart any await; both together
already cover a failed write followed by a lost memory. `MaxWait`, `MaxAttempts`
and `MaxRestarts` cut loops whose further rounds repeat the same states. Three payloads of
two jobs put one in the slot, one with the worker and one in a publish task or the
place behind it, in every mixture of statuses and revisions. In the queues a capacity of 1
(2 for a lane) and batches of 2 make every put able to block; three items then leave one
that fills no batch. Two
workers are the least that can own the same item. `MaxOrphans` bounds the lane
tasks that cancelled gets leave behind. `Ending` names the jobs of a run that end,
so that a run about live jobs has none. Three crawls let one stop, one
start and one wait in the pool. 
`CrawlServices_safety` gives each service the least instance with its hard cases:
four high items and one low item with lanes of two, a promotion ratio of one and one
orphaned get; two jobs with three messages, batches of one, one retry and one
failed call, and counters up to 2, so that one is smoothed and one may go back, with one
message whose counter and one whose status may; three writes on two default
workers and one log worker with room for one each, one failure and two tries of a
statement (the default of three adds another of the same kind);
three runs, two of them of one job, with one slot and one each of a
cancellation, a failure and an expiry, and with both settings of
`CRAWL_DUPLICATE_LOCK_BLOCK_DIFFERENT_JOB_IDS`; four workers of two jobs at one
URL; two downloads with three browsers, two permits, two attempts and one
crash; one URL with two keys and one end of a run. One fault of a kind can fall
between any two steps; what more of them can do is covered by the proofs, which
hold for any number. `WorkflowRun_once` needs no fault at all.

Symmetry is used only in runs without leads-to
properties, over sets whose members the specification never tells apart.
Deadlock is checked for the pool; the other models are driven by finitely many
items, payloads, batches, writes, runs or workers, and really stop when these are used up.

### Fairness

Only what asyncio gives. Every ready coroutine runs: weak fairness of its next
step. `asyncio.Lock`, `Semaphore` and `Queue` wake waiters in order: strong
fairness of the step that takes the lock or slot. Sleeps, HTTP calls with
timeouts and batches of work end. Never assumed: that the scheduler calls back,
that Redis or a send succeeds, that a job ends or another permit holder appears.
`OtherReleases` is fair: a local `WorkerManager` gives its permit back. In
`BrowserUse` the next step of each fallback is fair: launches and downloads have
timeouts; crashes are not. That a start is cancelled (`CancelStart`) is not assumed either.

## 4. Proofs

All hold for every value of the constants, from the named assumption of the
module alone: the shapes of the sets; batches, crawls, workers and what else is
counted are finite; and `None` is not a member of the sets it is added to. Every
invariant of every passing run is a theorem, and so are all their action
properties and the refinement; liveness is not. A module states its inductive invariant as a
conjunction of named parts, has one lemma for what a step does to it with one
case per action, and lemmas on the operators that several cases need.

**EmbeddingBatch_proofs.** `References` (theorem `ReferencesHold`) is the
first layer: types, and that what a submission, a callback or a cancellation in
flight refers to exists. `TypeCorrect` follows. The others rest on it:

- `DoneUpserted`: a callback past its upsert names a batch of which an upsert has
  returned. `DoneImpliesUpserted` alone is not inductive, since marking comes some
  awaits after that, and a restart or a Redis failure falls in between.
- `PendingIsBacked`: whoever is counted is registered, and a count
  and the set behind it shrink together.
- `PendingStaysExact` (`ExactInv`): the count is not only a bound. While the
  scheduler is orderly, a callback found its batch registered
  (`FoundRegistered`) and a registered batch is counted until its callback ends
  (`RegisteredAreCounted`); a restart forgets all batches with the count (`Forgotten`).
  `OrderlyBefore` says why one may reason step by step: a scheduler that is orderly
  now was orderly before. `CleanupsWait` follows: a count of zero means an empty set.
- `ContextStaysKept` (`Kept`): the property speaks of registered batches; inductive is
  that a batch has its context from the moment a submission stored it.
- `CancelsStick` (`CancelInv`): a cancellation that returned has left its flag in
  Redis (`Flagged`), where a late callback finds it before it writes (`LateStops`).

**SsePublish_proofs.** `NoLostWakeup` is inductive given the types; that a
stale entry may be taken without harm is `WithoutKeeps`. The types need `NatMin`,
the least element of a set of naturals: `BestEntry` chooses among entries, and
there is one to choose (`BestEntryExists`). `Ordered` is the chain of the stages: from the slot
over the worker, the place behind a task and the task itself to what was sent, the
numbers of a job's payloads decrease, and a job has one task (`OneTask`). `SentInOrder`
is what this says of a step. With `Newest`, that the newest payload is in one of
these stages unless something of the job was lost, it gives `QuietJobsAreSent`.
`LogComesFirst` has the same chain on the side of the crawling log (`LogOrderedAt`,
`LogFirstAt`): the updater has written, or has still to write, what the worker holds,
and has written what the worker handed on. `SlotsKeepProgress` is a property of `Coalesce`
with the numbers and counters of its two arguments.

**BatchQueue_proofs.** The items of a job stand in one line: taken, queued batch
by batch, held for room, buffered. `InLine` says that the line is in the order of the
puts, and the lemmas `PutLine`, `CutLine`, `QueueLine`, `FlushLine` and `TakeLine` how a put, a cut of
the buffer, a batch that is queued, a flush and a get change one. They are stated about
positions in sequences, which is why `InOrder` is too: what a recursive flattening
computes could not be proved. `LineInv` adds that what was put is recorded once
and what is missing from the line was lost or thrown away; `OrderKept` follows.
`TypeCorrect` rests on `Accounted`, that the batches in a queue and, while the job
lives, those in the hands of workers are within the unfinished count: otherwise a
`task_done` could take it below zero. The same part lets a join conclude something from
a count of zero (`JoinSeesAll`): with `FlushedOf`, that no item put before the slice
waits in the buffer any more, and `WorkedOf`, that a taken item is finished or in a
worker's hands, this is `DrainHolds`.

**GlobalPool_proofs.** `PoolInv` is the inductive invariant: who holds the start
lock (`LockHeld`), who is registered, what is up in which phase of a start or a
stop (`WhatIsUp`), and the permit balance. Each part is needed. Without
`LockHeld` a second crawl could start while a stop is at an await. Without
"`halting` means no browser" a cancelled stop could be followed by a start that
takes a second permit. `PermitsStayBalanced`, `ServedKeepsWorkers`, `ReadyIsUp` and
`PoolTypeCorrect` follow from it. `GraceFindsItIdle` adds that an idle task nobody
has cancelled finds the pool started and without jobs, so the early returns in
front of its `stop()` never apply; the model has no action for them.

**DbWrites_proofs.** `DbInv` says that a write is in one place until its execution
has ended: waiting in its queue once, or with one worker, and open in both
cases (`WriteStates`, `QueuedAreOpen`, `RunningAreOpen`, `QueuedOnce`, `RunningOnce`,
`QueuedNotRunning`); and that its statement has taken effect no more often than it was
tried (`QueuedUntried`, `RunningTried`). `RowsMoveOn` follows from the guards of the UPDATE and the
types. `QueueExecutesOnce` is the refinement: the queue steps `Take` and
`Put` map to stutters, what a worker does to `Execute`, and a call or an answer to `Ask` and
`Answer`; without `RunningOnce` two workers could execute one write, and without
`RunningTried` the bound on its effects could not be shown.

**WorkflowRun_proofs.** `LockInv`: an acquired key carries its run's job unless it
was taken away (`KeyByPlace`), nobody else owns it (`OwnerAlone`), a key that is set has
an owner (`KeyOwned`), and a run about to delete a key deletes its own or is noted
as `stray` (`DeletesOwn`). `LocksAndRunsAgree` follows; `SlotsAreBacked` has its own,
smaller invariant. `RunTypeCorrect` joins both with the registry of tasks.

**BrowserUse_proofs.** `BrowserInv`: browsers are numbered in order (`Numbered`), the
relaunch lock has the one holder (`LockHeld`), a fallback in a relaunch has no
lease (`NoLease`), and the books: leases are counted (`LeasesCounted`), what is
closing is unused (`ClosingUnused`), what runs is known (`RunningKnown`). `PoolTypeCorrect`
adds `PermitInv`: free permits and fallbacks that hold one are no more than the semaphore
started with, so that no early return gives one back twice, and a fallback that will try
again has attempts left (`TriesLeft`).

**CrawlServices_proofs.** A behaviour of the composite is a behaviour of each service
(`DbBehaves`, `RunBehaves`, `BrowserBehaves`, ...), so that the theorems of these modules hold of the
composite, whose properties the run checks. The other four services are proved
here, on the composite itself:

- *Claims.* `ClaimInv` is the types and `OverlapsPaidFor`, which is inductive: each step
  changes the number of busy workers by at most one, and the bound by no less.
- *Counters.* `StudyInv` adds to `StudyExact` that a key in the ledger has an outcome
  (`LedgerHasOutcome`): only then does the first report of a key add one and an
  upgrade move one.
- *Scan queue.* `ScanInv`: control states and lane tasks fit together (`ScanControl`); an
  item is in one place of lanes, tasks, workers and ledgers (`Apart`), of which
  `OneWorkerPerItem` is a part; `unfinished` is what was put and is not done
  (`ScanCounted`), so that a join that returns leaves nothing anywhere; and `Passing`,
  for `LowNotStarved`: each time a low item is passed over, the streak grows or a
  get that was waiting ends, and once one is passed over no new get waits.
- *Redis state.* `ThrottledIsSent` needs `LateIsOvertaken`, that a message waiting behind a
  delayed task which already publishes came too late. `StateInv` is for the rest: a
  job has at most one pending item and one in each batch being written (`BatchOne`), and
  while it is undisturbed its states are in order, from the hash over the batch and
  the pending item to the memory (`Fresh`); a message that is being sent is not behind the
  memory, except in what it may take back, unless that was replaced since its merge
  (`AllAhead`, from `MergedIsAhead` and `SmoothBetween`). `NoStateIsStranded`,
  `QuietHashIsLatest` and `HashKeepsMoving` follow. `StateBatch` states by positions what
  a requeue keeps (`Revived`), for the reason given for `InOrder`.
- `ServicesKeepTypes` joins the types of all seven.

Only model-checked: everything temporal under fairness (`CleanupEnds`,
`Settles`, `AnyJobServed`, `StartSettles`, `IdlePoolStops`); liveness and ENABLED are
outside the proof system. The six violations are TLC's as well: each is one behaviour
of a small instance, and needs no proof. Induction over data is out of reach, since the
library's induction theorems take an operator as a parameter; where the
proofs need it, they use its one form without such a parameter, that a nonempty set has a
minimal element in a well-founded relation (`WFMin`, for `NatMin`).

## 5. Not modelled, and the plan

Abstracted away in the modelled parts: Redis TTLs as times (keys expire at any
moment), contents of pages, documents and vectors, logging and timing traces,
the restart of the SSE worker on another event loop, queues with `batch_size` 1,
the collection stage (its `get` runs in a `wait_for`, `global_pool.py:302`), the fair
cursor over jobs, pause and resume of the scan stage; heartbeats and ages of lock
owners; the burst dedupe of `crawl_start.py` (one entry point, 20 seconds;
`board_endpoints.py` calls the dispatcher without it); the Celery branch of the
dispatcher; `SSE_REDIS_PUBLISH_ASYNC` and the state update on throttle (off by
default); the status counters and the change of event loop of the DB write queue;
`stop()` and cancelled downloads while browsers are leased, and the scan workers, which
use the browser without a lease. `_bump_study_success_after_learning` has no callers.

Not modelled at all: most of the repository. Of its lines, the great majority is
sequential extraction of pages, documents and texts for one crawl
(`board_content_workflow.py`, `file_content_workflow.py`, `url_edu.py`, ...), SQL
statements (`mariadb_save_update.py`), settings and start URLs (`crawl_start.py`,
`pre_explored_url.py`), and scripts. They have no state that two actors share
beyond what the modules above model; what they compute from a page or a row is a
matter for tests with real pages.

What could follow, in this order:

1. The collection stage in `BatchQueue`: `task_done` after a `get` in a `wait_for`, and
   the completion of a pipeline over its stages.
2. Abstract specifications: a ledger of batches (registered, then finished,
   cancelled or forgotten) for `EmbeddingBatch`, and a FIFO for `BatchQueue`; `InOrder`
   and `Lines` already hold what the refinement of the FIFO needs.
3. `stop()` of the pool while browsers are leased: `GlobalPool` with `BrowserUse`.
