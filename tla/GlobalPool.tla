---------------------------- MODULE GlobalPool ----------------------------
(***************************************************************************)
(* The life of GlobalWorkerPool (core/crawler/global_pool.py): crawls      *)
(* register and start the shared browser and workers, and the pool stops a *)
(* grace period after the last of them has left.  An action is the code    *)
(* between two awaits that suspend.  Callers are _ensure_file_pipeline of  *)
(* backend/board/file_content_workflow.py and the cleanups that unregister.*)
(***************************************************************************)
EXTENDS Integers, FiniteSets

CONSTANTS
  Jobs,      \* crawls that use the pool
  Grace,     \* the grace task, as a holder of _start_lock
  None,
  Permits    \* CRAWLER_MAX_CONCURRENT_BROWSERS

ASSUME ConstantsAssumption ==
  /\ IsFiniteSet(Jobs)
  /\ Grace \notin Jobs /\ None \notin Jobs /\ Grace # None
  /\ Permits \in Nat \ {0}

VARIABLES
  jobs,        \* _jobs
  pc,          \* where each crawl is
  lock,        \* who holds _start_lock
  started,     \* _started
  ready,       \* _ready_event
  playwright,  \* _playwright is not None
  browser,     \* _browser is not None
  workers,     \* the worker tasks in _tasks run
  flush,       \* _flush_task: "off" (none or done), "on" or "ending" (cancelled)
  permits,     \* free permits of BROWSER_LAUNCH_SEMAPHORE
  acquired,    \* _semaphore_acquired
  others,      \* permits that WorkerManagers hold
  grace,       \* where the task of _maybe_schedule_idle_shutdown is
  cancelled    \* that task has a cancellation to receive

jobVars == <<jobs, pc>>
browserVars == <<playwright, browser, acquired, permits>>
graceVars == <<grace, cancelled>>
vars == <<jobs, pc, lock, started, ready, playwright, browser, workers, flush,
          permits, acquired, others, grace, cancelled>>

\* A crawl: "out" before it registers, then waiting for _start_lock, for a
\* browser permit, for the browser, and for _ready_event; then "served" by the
\* pool's workers, or by "local" ones; "gone" is the end of a local crawl, and
\* "quit" one that was cancelled while it started.
JobPCs == {"out", "lock", "permit", "launch", "wait", "served", "local", "gone", "quit"}

\* The grace task: asleep, waiting for _start_lock, or inside stop(): joining the
\* flush task, closing the browser, halting Playwright.
StopPCs == {"joining", "closing", "halting"}
GracePCs == {"none", "sleeping", "locking"} \cup StopPCs

TypeOK ==
  /\ jobs \subseteq Jobs
  /\ pc \in [Jobs -> JobPCs]
  /\ lock \in Jobs \cup {Grace, None}
  /\ started \in BOOLEAN /\ ready \in BOOLEAN
  /\ playwright \in BOOLEAN /\ browser \in BOOLEAN /\ workers \in BOOLEAN
  /\ acquired \in BOOLEAN /\ cancelled \in BOOLEAN
  /\ flush \in {"off", "on", "ending"}
  /\ permits \in 0..Permits
  /\ others \in 0..Permits
  /\ grace \in GracePCs

Init ==
  /\ jobs = {}
  /\ pc = [j \in Jobs |-> "out"]
  /\ lock = None
  /\ started = FALSE /\ ready = FALSE
  /\ playwright = FALSE /\ browser = FALSE /\ workers = FALSE
  /\ flush = "off"
  /\ permits = Permits /\ acquired = FALSE /\ others = 0
  /\ grace = "none" /\ cancelled = FALSE

-----------------------------------------------------------------------------
(* Crawls *)

\* _cancel_idle_grace_sync.  A task that awaits the flush task hands the
\* cancellation on to it, and the flush task swallows it while it is ending.
CancelGrace ==
  cancelled' = (cancelled \/ (grace # "none" /\ ~(grace = "joining" /\ flush = "ending")))

\* register_job.
Register(j) ==
  /\ pc[j] = "out"
  /\ jobs' = jobs \cup {j}
  /\ pc' = [pc EXCEPT ![j] = "lock"]
  /\ CancelGrace
  /\ UNCHANGED <<lock, started, ready, browserVars, workers, flush, others, grace>>

\* ensure_started, once it has _start_lock, of a pool that is started.
FindStarted(j) ==
  /\ pc[j] = "lock"
  /\ lock = None
  /\ started
  /\ pc' = [pc EXCEPT ![j] = "wait"]
  /\ UNCHANGED <<jobs, lock, started, ready, browserVars, workers, flush, others, graceVars>>

\* ensure_started, once it has _start_lock, of a pool that is not.
BeginStart(j) ==
  /\ pc[j] = "lock"
  /\ lock = None
  /\ ~started
  /\ lock' = j
  /\ started' = TRUE
  /\ ready' = FALSE
  /\ pc' = [pc EXCEPT ![j] = "permit"]
  /\ UNCHANGED <<jobs, browserVars, workers, flush, others, graceVars>>

\* Faulty variant: the acquisition does not wait for a free permit.
TakePermitAnyway(j) ==
  /\ pc[j] = "permit"
  /\ permits' = permits - 1
  /\ acquired' = TRUE
  /\ pc' = [pc EXCEPT ![j] = "launch"]
  /\ UNCHANGED <<jobs, lock, started, ready, playwright, browser, workers, flush, others, graceVars>>

\* BROWSER_LAUNCH_SEMAPHORE.acquire(), which waits holding _start_lock.
TakePermit(j) ==
  /\ pc[j] = "permit"
  /\ permits > 0
  /\ permits' = permits - 1
  /\ acquired' = TRUE
  /\ pc' = [pc EXCEPT ![j] = "launch"]
  /\ UNCHANGED <<jobs, lock, started, ready, playwright, browser, workers, flush, others, graceVars>>

\* Playwright and the browser are up: workers and the flush task are created.
Launched(j) ==
  /\ pc[j] = "launch"
  /\ playwright' = TRUE /\ browser' = TRUE /\ workers' = TRUE
  /\ flush' = "on"
  /\ ready' = TRUE
  /\ lock' = None
  /\ pc' = [pc EXCEPT ![j] = "wait"]
  /\ UNCHANGED <<jobs, started, permits, acquired, others, graceVars>>

\* Faulty variant: the rollback forgets the permit.
LaunchFailedKeepsPermit(j) ==
  /\ pc[j] = "launch"
  /\ playwright' \in {playwright, TRUE}
  /\ acquired' = FALSE
  /\ started' = FALSE
  /\ lock' = None
  /\ pc' = [pc EXCEPT ![j] = "local"]
  /\ UNCHANGED <<jobs, ready, browser, permits, workers, flush, others, graceVars>>

\* Playwright or the browser failed to start: ensure_started rolls back and
\* raises, and the crawl falls back to a local WorkerManager.
LaunchFailed(j) ==
  /\ pc[j] = "launch"
  /\ playwright' \in {playwright, TRUE}
  /\ permits' = permits + 1
  /\ acquired' = FALSE
  /\ started' = FALSE
  /\ lock' = None
  /\ pc' = [pc EXCEPT ![j] = "local"]
  /\ UNCHANGED <<jobs, ready, browser, workers, flush, others, graceVars>>

\* Faulty variant: a pool that is marked as started is trusted to have workers.
EndReadyWaitTrusting(j) ==
  /\ pc[j] = "wait"
  /\ ~cancelled
  /\ pc' = [pc EXCEPT ![j] = IF started THEN "served" ELSE "local"]
  /\ UNCHANGED <<jobs, lock, started, ready, browserVars, workers, flush, others, graceVars>>

\* The wait for _ready_event ends, by the event or after 120 s.  It goes through
\* the event loop, so a cancellation requested before it was delivered meanwhile.
\* The caller then looks at worker_health_snapshot.
EndReadyWait(j) ==
  /\ pc[j] = "wait"
  /\ ~cancelled
  /\ pc' = [pc EXCEPT ![j] = IF workers THEN "served" ELSE "local"]
  /\ UNCHANGED <<jobs, lock, started, ready, browserVars, workers, flush, others, graceVars>>

\* The task of a crawl is cancelled inside ensure_started or the wait that follows.
\* CancelledError passes its "except Exception": at the permit, which is waited for
\* outside the try, nothing takes back _started; during the launch the finally
\* block does, and gives back the permit, but not Playwright.  As in EndReadyWait, a
\* cancellation that the registration requested was delivered meanwhile.
CancelStart(j) ==
  /\ pc[j] \in {"lock", "permit", "launch", "wait"}
  /\ ~cancelled
  /\ pc' = [pc EXCEPT ![j] = "quit"]
  /\ lock' = IF lock = j THEN None ELSE lock
  /\ IF pc[j] = "launch"
     THEN /\ playwright' \in {playwright, TRUE}
          /\ permits' = permits + 1
          /\ acquired' = FALSE
          /\ started' = FALSE
     ELSE UNCHANGED <<playwright, permits, acquired, started>>
  /\ UNCHANGED <<jobs, ready, browser, workers, flush, others, graceVars>>

\* _maybe_schedule_idle_shutdown, with the set of jobs it sees.
ScheduleIdleShutdown(registered) ==
  grace' = IF registered = {} /\ started /\ grace = "none" THEN "sleeping" ELSE grace

\* Faulty variant: the idle shutdown is considered before the job is taken out.
UnregisterLate(j) ==
  /\ pc[j] \in {"served", "quit"}
  /\ ScheduleIdleShutdown(jobs)
  /\ jobs' = jobs \ {j}
  /\ pc' = [pc EXCEPT ![j] = "out"]
  /\ UNCHANGED <<lock, started, ready, browserVars, workers, flush, others, cancelled>>

\* The end of a crawl, also of a cancelled one: unregister_job and
\* close_resources_if_no_jobs.
Unregister(j) ==
  /\ pc[j] \in {"served", "quit"}
  /\ jobs' = jobs \ {j}
  /\ pc' = [pc EXCEPT ![j] = "out"]
  /\ ScheduleIdleShutdown(jobs')
  /\ UNCHANGED <<lock, started, ready, browserVars, workers, flush, others, cancelled>>

\* A crawl that fell back has use_global_pool = False: its cleanup leaves its
\* registration in place and only calls close_resources_if_no_jobs.
FinishLocal(j) ==
  /\ pc[j] = "local"
  /\ pc' = [pc EXCEPT ![j] = "gone"]
  /\ ScheduleIdleShutdown(jobs)
  /\ UNCHANGED <<jobs, lock, started, ready, browserVars, workers, flush, others, cancelled>>

\* A WorkerManager of another crawl opens or closes a browser.
OtherTakes ==
  /\ permits > 0
  /\ permits' = permits - 1 /\ others' = others + 1
  /\ UNCHANGED <<jobVars, lock, started, ready, playwright, browser, acquired, workers, flush, graceVars>>

OtherReleases ==
  /\ others > 0
  /\ permits' = permits + 1 /\ others' = others - 1
  /\ UNCHANGED <<jobVars, lock, started, ready, playwright, browser, acquired, workers, flush, graceVars>>

-----------------------------------------------------------------------------
(* The grace task and stop() *)

GraceWakes ==
  /\ grace = "sleeping" /\ ~cancelled
  /\ grace' = "locking"
  /\ UNCHANGED <<jobVars, lock, started, ready, browserVars, workers, flush, others, cancelled>>

\* Faulty variant: _ready_event stays set.
BeginStopKeepsReady ==
  /\ grace = "locking" /\ ~cancelled
  /\ lock = None
  /\ jobs = {} /\ started
  /\ lock' = Grace
  /\ workers' = FALSE
  /\ flush' = IF flush = "on" THEN "ending" ELSE flush
  /\ grace' = IF flush = "on" THEN "joining" ELSE "closing"
  /\ cancelled' = (flush # "on")
  /\ UNCHANGED <<jobVars, started, ready, browserVars, others>>

\* stop() begins.  Its _cancel_idle_grace_sync cancels the task it runs in: that is
\* absorbed by joining a live flush task, and hits the next await if there is none.
\* The early returns before stop() are never taken: whoever registers, and so gives
\* the pool jobs or starts it again, has cancelled the task.
BeginStop ==
  /\ grace = "locking" /\ ~cancelled
  /\ lock = None
  /\ jobs = {} /\ started
  /\ lock' = Grace
  /\ ready' = FALSE
  /\ workers' = FALSE
  /\ flush' = IF flush = "on" THEN "ending" ELSE flush
  /\ grace' = IF flush = "on" THEN "joining" ELSE "closing"
  /\ cancelled' = (flush # "on")
  /\ UNCHANGED <<jobVars, started, browserVars, others>>

FlushEnds ==
  /\ flush = "ending"
  /\ flush' = "off"
  /\ UNCHANGED <<jobVars, lock, started, ready, browserVars, workers, others, graceVars>>

FlushJoined ==
  /\ grace = "joining" /\ ~cancelled
  /\ flush = "off"
  /\ grace' = "closing"
  /\ UNCHANGED <<jobVars, lock, started, ready, browserVars, workers, flush, others, cancelled>>

\* The browser is closed, or there is none: then nothing is awaited, and a
\* cancellation is not received here.
BrowserClosed ==
  /\ grace = "closing"
  /\ browser => ~cancelled
  /\ grace' = "halting"
  /\ browser' = FALSE
  /\ acquired' = (acquired /\ ~browser)
  /\ permits' = IF browser /\ acquired THEN permits + 1 ELSE permits
  /\ UNCHANGED <<jobVars, lock, started, ready, playwright, workers, flush, others, cancelled>>

\* Playwright is stopped, or there is none, and stop() returns.
Stopped ==
  /\ grace = "halting"
  /\ playwright => ~cancelled
  /\ playwright' = FALSE
  /\ started' = FALSE
  /\ lock' = None
  /\ grace' = "none" /\ cancelled' = FALSE
  /\ UNCHANGED <<jobVars, ready, browser, acquired, permits, workers, flush, others>>

\* Faulty variant: the lock is not released.
GraceCancelledKeepsLock ==
  /\ cancelled
  /\ \/ grace \in {"sleeping", "locking"}
     \/ grace = "joining" /\ flush = "off"
     \/ grace = "closing" /\ browser
     \/ grace = "halting" /\ playwright
  /\ grace' = "none" /\ cancelled' = FALSE
  /\ UNCHANGED <<jobVars, lock, started, ready, browserVars, workers, flush, others>>

\* The task receives its cancellation.  CancelledError passes every
\* "except Exception" of stop(), and the lock is released on the way out.
GraceCancelled ==
  /\ cancelled
  /\ \/ grace \in {"sleeping", "locking"}
     \/ grace = "joining" /\ flush = "off"
     \/ grace = "closing" /\ browser
     \/ grace = "halting" /\ playwright
  /\ lock' = IF lock = Grace THEN None ELSE lock
  /\ grace' = "none" /\ cancelled' = FALSE
  /\ UNCHANGED <<jobVars, started, ready, browserVars, workers, flush, others>>

-----------------------------------------------------------------------------

Start(j) == TakePermit(j) \/ Launched(j) \/ LaunchFailed(j)
EnterStart(j) == FindStarted(j) \/ BeginStart(j)
GraceStep ==
  GraceWakes \/ BeginStop \/ FlushJoined \/ BrowserClosed
    \/ Stopped \/ GraceCancelled

Next ==
  \/ \E j \in Jobs :
       \/ Register(j) \/ EnterStart(j) \/ Start(j) \/ EndReadyWait(j)
       \/ CancelStart(j) \/ Unregister(j) \/ FinishLocal(j)
  \/ OtherTakes \/ OtherReleases
  \/ GraceStep \/ FlushEnds

Spec == Init /\ [][Next]_vars

\* asyncio.Lock and asyncio.Semaphore wake their waiters in order, so one that is
\* enabled again and again is served; every task that can run does.
FairSpec ==
  /\ Spec
  /\ \A j \in Jobs :
       /\ SF_vars(EnterStart(j)) /\ SF_vars(Start(j)) /\ SF_vars(EndReadyWait(j))
  /\ SF_vars(GraceStep)
  /\ WF_vars(FlushEnds)
  /\ WF_vars(OtherReleases)

-----------------------------------------------------------------------------
(* Properties *)

Launching == \E j \in Jobs : pc[j] = "launch"

\* No permit of BROWSER_LAUNCH_SEMAPHORE is lost or released twice: the pool holds
\* one exactly while it has a browser or is launching one, also after failed
\* launches and after a stop that a new registration cut short.
PermitsBalanced ==
  /\ permits + others + (IF acquired THEN 1 ELSE 0) = Permits
  /\ acquired <=> (browser \/ Launching)

\* A crawl that was told it has pool workers keeps them, the browser and the flush
\* task until it unregisters, whatever a pending idle shutdown does.
ServedHasWorkers ==
  \A j \in Jobs : pc[j] = "served" => j \in jobs /\ workers /\ browser /\ flush = "on"

\* _ready_event is set only for a pool that is up.
ReadyMeansUp == ready => started /\ workers /\ browser /\ flush = "on"

\* Nobody waits for ever for _start_lock or, holding it, for a browser permit,
\* whoever else is cancelled meanwhile.
StartSettles ==
  \A j \in Jobs :
    pc[j] \in {"lock", "permit", "launch"} ~> pc[j] \in {"wait", "local", "quit"}

\* A start cancelled at its permit, or a stop() cut short by a registration, left a
\* pool marked as started without workers.  Its own cancellation meets stop() where
\* it closes the browser or halts Playwright, if there is one.
Stranded == started /\ ~workers /\ (browser \/ playwright) /\ grace \notin StopPCs

\* A pool left without jobs stops, unless a crawl registers before that or the
\* pool is stranded.
IdlePoolStops == (jobs = {}) ~> (jobs # {} \/ ~started \/ Stranded)

\* The last comment of stop(): its finally block always marks the pool stopped.
StopMarksStopped == [][lock = Grace /\ lock' # Grace => ~started']_vars

=============================================================================
