--------------------------- MODULE EmbeddingBatch ---------------------------
(***************************************************************************)
(* The life of an embedding batch in                                       *)
(* backend/shared/batch_embedding_scheduler.py: a crawl task submits the   *)
(* chunks of one item to an external batch scheduler, records a context    *)
(* (in memory and in Redis) and a pending count of its job; the scheduler  *)
(* answers through an HTTP callback that loads the context, writes the     *)
(* vectors and gives the pending count back; a batch may be cancelled; and *)
(* the end of a workflow waits, for a bounded time, for the pending count  *)
(* to fall to zero before the workflow object is dropped.                  *)
(*                                                                         *)
(* Everything runs on one asyncio event loop: an action is the code between*)
(* two awaits.  Every Redis call is such a point and may fail.             *)
(***************************************************************************)
EXTENDS Naturals, FiniteSets

CONSTANTS
  Items,            \* crawled items, each submitted by one task
  Jobs,             \* workflow_job_id values
  JobOf,            \* the job of an item
  Batches,          \* batch ids the scheduler may allot
  Callbacks,        \* HTTP callback requests, one activation each
  Cancels,          \* cancel_embedding_batch activations
  None,
  MaxAttempts,      \* retry_attempts of the submission
  MaxWait,          \* pending_max_wait_sec in units of pending_retry_sec
  MaxRedisFail,     \* bound: Redis calls that fail
  MaxRestarts       \* bound: process restarts

ASSUME ConstantsAssumption ==
  /\ JobOf \in [Items -> Jobs]
  /\ None \notin Items \cup Jobs \cup Batches
  /\ IsFiniteSet(Batches)
  /\ MaxAttempts \in Nat \ {0}
  /\ {MaxWait, MaxRedisFail, MaxRestarts} \subseteq Nat

VARIABLES
  spc, attempt, sbid,                   \* the submission of each item
  owner,                                \* scheduler side: the item of a batch
  memCtx, memDone, memCancelled,        \* _MEMORY_BATCH_* dictionaries
  redCtx, redDone, redCancelled,        \* embedding_batch_* keys of Redis
  pending,                              \* _PENDING_EMBEDDING_CALLBACKS_BY_JOB
  batchJob,                             \* _PENDING_EMBEDDING_BATCH_TO_JOB
  cpc, cbid, usable,                    \* the callback requests
  late, early,                          \* history: when a callback arrived
  kpc, kbid, khit,                      \* the cancel requests
  gone,                                 \* scheduler side: the deleted batches
  cancelled,                            \* batches whose cancel returned "deleted"
  applied,                              \* upserts that wrote every vector of a batch
  missed,                               \* history: batches an upsert returned from without
  workflows, cleanup, waited,           \* crawler_state.workflows and its cleanup
  redisFails, restarts

subVars == <<spc, attempt, sbid, owner>>
memVars == <<memCtx, memDone, memCancelled>>
redVars == <<redCtx, redDone, redCancelled>>
pendVars == <<pending, batchJob>>
reqVars == <<cbid, usable, late, early>>
cbVars == <<cpc, reqVars>>
cancelVars == <<kpc, kbid, khit, gone, cancelled>>
wfVars == <<workflows, cleanup, waited>>
vars == <<subVars, memVars, redVars, pendVars, cbVars, cancelVars, applied, missed,
          wfVars, redisFails, restarts>>

SubmitPCs == {"post", "resolve", "storeRedis", "done", "failed"}
CallbackPCs == {"idle", "doneRedis", "cancelRedis", "load", "upsert",
                "finalize", "markRedis", "dropCtx", "end"}
CancelPCs == {"idle", "load", "doneRedis", "http", "flagRedis", "dropCtx",
              "dropDone", "end"}

TypeOK ==
  /\ spc \in [Items -> SubmitPCs]
  /\ attempt \in [Items -> 1..MaxAttempts]
  /\ sbid \in [Items -> Batches \cup {None}]
  /\ owner \in [Batches -> Items \cup {None}]
  /\ memCtx \subseteq Batches /\ memDone \subseteq Batches /\ memCancelled \subseteq Batches
  /\ redCtx \subseteq Batches /\ redDone \subseteq Batches /\ redCancelled \subseteq Batches
  /\ pending \in [Jobs -> Nat]
  /\ batchJob \in [Batches -> Jobs \cup {None}]
  /\ cpc \in [Callbacks -> CallbackPCs]
  /\ cbid \in [Callbacks -> Batches \cup {None}]
  /\ usable \in [Callbacks -> BOOLEAN]
  /\ late \in [Callbacks -> BOOLEAN] /\ early \in [Callbacks -> BOOLEAN]
  /\ kpc \in [Cancels -> CancelPCs]
  /\ kbid \in [Cancels -> Batches \cup {None}]
  /\ khit \in [Cancels -> BOOLEAN]
  /\ gone \subseteq Batches
  /\ cancelled \subseteq gone
  /\ applied \in [Batches -> Nat]
  /\ missed \subseteq Batches
  /\ workflows \subseteq Jobs
  /\ cleanup \in [Jobs -> {"off", "waiting", "done"}]
  /\ waited \in [Jobs -> 0..MaxWait]
  /\ redisFails \in 0..MaxRedisFail
  /\ restarts \in 0..MaxRestarts

Init ==
  /\ spc = [i \in Items |-> "post"]
  /\ attempt = [i \in Items |-> 1]
  /\ sbid = [i \in Items |-> None]
  /\ owner = [b \in Batches |-> None]
  /\ memCtx = {} /\ memDone = {} /\ memCancelled = {}
  /\ redCtx = {} /\ redDone = {} /\ redCancelled = {}
  /\ pending = [j \in Jobs |-> 0]
  /\ batchJob = [b \in Batches |-> None]
  /\ cpc = [c \in Callbacks |-> "idle"]
  /\ cbid = [c \in Callbacks |-> None]
  /\ usable = [c \in Callbacks |-> FALSE]
  /\ late = [c \in Callbacks |-> FALSE] /\ early = [c \in Callbacks |-> FALSE]
  /\ kpc = [k \in Cancels |-> "idle"]
  /\ kbid = [k \in Cancels |-> None]
  /\ khit = [k \in Cancels |-> FALSE]
  /\ gone = {} /\ cancelled = {}
  /\ applied = [b \in Batches |-> 0]
  /\ missed = {}
  /\ workflows = Jobs
  /\ cleanup = [j \in Jobs |-> "off"]
  /\ waited = [j \in Jobs |-> 0]
  /\ redisFails = 0
  /\ restarts = 0

-----------------------------------------------------------------------------
(* Helpers of the module *)

\* A Redis round trip that succeeds or fails.
RedisCall(ok) ==
  /\ ok \/ redisFails < MaxRedisFail
  /\ redisFails' = IF ok THEN redisFails ELSE redisFails + 1

\* The batches a job is still waiting for, by the reverse mapping.
Waiting(j) == {b \in Batches : batchJob[b] = j}

\* _increment_pending_embedding_callback
IncrementPending(j, b) ==
  /\ batchJob' = [batchJob EXCEPT ![b] = j]
  /\ pending' = [pending EXCEPT ![j] = @ + 1]

\* Faulty variant: the count of a job never returns to zero.
DecrementPendingToOne(job, b) ==
  LET jid == IF job # None THEN job ELSE batchJob[b] IN
  IF jid = None
  THEN UNCHANGED pendVars
  ELSE /\ pending' = [pending EXCEPT ![jid] = IF @ > 1 THEN @ - 1 ELSE @]
       /\ batchJob' = [batchJob EXCEPT ![b] = None]

\* _decrement_pending_embedding_callback; job = None when it is not given.
DecrementPending(job, b) ==
  LET jid == IF job # None THEN job ELSE batchJob[b] IN
  IF jid = None
  THEN UNCHANGED pendVars
  ELSE /\ pending' = [pending EXCEPT ![jid] = IF @ > 0 THEN @ - 1 ELSE 0]
       /\ batchJob' = [batchJob EXCEPT ![b] = None]

\* _load_batch_context: Redis first, the memory copy when that has nothing.
ContextFound(b, ok) == (ok /\ b \in redCtx) \/ b \in memCtx

-----------------------------------------------------------------------------
(* submit_crawled_url_embedding_batch *)

\* POST /batches answered with a batch id.
SubmitAccepted(i, b) ==
  /\ spc[i] = "post"
  /\ owner[b] = None
  /\ owner' = [owner EXCEPT ![b] = i]
  /\ sbid' = [sbid EXCEPT ![i] = b]
  /\ spc' = [spc EXCEPT ![i] = "resolve"]
  /\ UNCHANGED <<attempt, memVars, redVars, pendVars, cbVars, cancelVars,
                 applied, missed, wfVars, redisFails, restarts>>

\* A retryable status or a ClientError: another attempt, or the error is raised.
\* The scheduler may have created a batch whose id never reached us.
SubmitError(i) ==
  /\ spc[i] = "post"
  /\ \/ UNCHANGED owner
     \/ \E b \in Batches : owner[b] = None /\ owner' = [owner EXCEPT ![b] = i]
  /\ IF attempt[i] < MaxAttempts
     THEN attempt' = [attempt EXCEPT ![i] = @ + 1] /\ UNCHANGED spc
     ELSE spc' = [spc EXCEPT ![i] = "failed"] /\ UNCHANGED attempt
  /\ UNCHANGED <<sbid, memVars, redVars, pendVars, cbVars, cancelVars,
                 applied, missed, wfVars, redisFails, restarts>>

\* The learn_list row is resolved and marked; then the context goes to memory.
SubmitStoreMemory(i) ==
  /\ spc[i] = "resolve"
  /\ memCtx' = memCtx \cup {sbid[i]}
  /\ spc' = [spc EXCEPT ![i] = "storeRedis"]
  /\ UNCHANGED <<attempt, sbid, owner, memDone, memCancelled, redVars, pendVars,
                 cbVars, cancelVars, applied, missed, wfVars, redisFails, restarts>>

\* The context reaches Redis (or the failure is logged); the batch is counted.
SubmitRegister(i) ==
  /\ spc[i] = "storeRedis"
  /\ \E ok \in BOOLEAN :
       /\ RedisCall(ok)
       /\ redCtx' = IF ok THEN redCtx \cup {sbid[i]} ELSE redCtx
  /\ IncrementPending(JobOf[i], sbid[i])
  /\ spc' = [spc EXCEPT ![i] = "done"]
  /\ UNCHANGED <<attempt, sbid, owner, memVars, redDone, redCancelled, cbVars,
                 cancelVars, applied, missed, wfVars, restarts>>

-----------------------------------------------------------------------------
(* process_embedding_callback and the endpoint that calls it *)

\* The scheduler, outside the program, may call back about any batch it created, at
\* once, repeatedly, and also if the answer to its POST was lost.
Deliverable(b) == owner[b] # None

\* Submission of the batch is over and has counted it.
Registered(b) == \E i \in Items : spc[i] = "done" /\ sbid[i] = b

CallbackStop(c, b) ==
  /\ DecrementPending(None, b)
  /\ cpc' = [cpc EXCEPT ![c] = "end"]

\* A callback arrives: a non-completed status and a batch that memory knows as
\* done end it at once; otherwise the Redis checks begin.
CallbackReceive(c, b, status) ==
  /\ cpc[c] = "idle"
  /\ Deliverable(b)
  /\ cbid' = [cbid EXCEPT ![c] = b]
  /\ usable' = [usable EXCEPT ![c] = (status = "completed")]
  /\ late' = [late EXCEPT ![c] = b \in cancelled]
  /\ early' = [early EXCEPT ![c] = ~Registered(b)]
  /\ IF status = "failed" \/ b \in memDone
     THEN CallbackStop(c, b)
     ELSE cpc' = [cpc EXCEPT ![c] = "doneRedis"] /\ UNCHANGED pendVars
  /\ UNCHANGED <<subVars, memVars, redVars, cancelVars, applied, missed, wfVars,
                 redisFails, restarts>>

\* _is_batch_done in Redis, then the memory flag of _is_batch_cancelled.
CallbackCheckDone(c) ==
  LET b == cbid[c] IN
  /\ cpc[c] = "doneRedis"
  /\ \E ok \in BOOLEAN :
       /\ RedisCall(ok)
       /\ IF (ok /\ b \in redDone) \/ b \in memCancelled
          THEN CallbackStop(c, b)
          ELSE cpc' = [cpc EXCEPT ![c] = "cancelRedis"] /\ UNCHANGED pendVars
  /\ UNCHANGED <<subVars, memVars, redVars, reqVars, cancelVars,
                 applied, missed, wfVars, restarts>>

\* Faulty variant: the flag in Redis is not looked at.
CallbackSkipCancelled(c) ==
  /\ cpc[c] = "cancelRedis"
  /\ cpc' = [cpc EXCEPT ![c] = "load"]
  /\ UNCHANGED <<subVars, memVars, redVars, pendVars, reqVars, cancelVars,
                 applied, missed, wfVars, redisFails, restarts>>

\* _is_batch_cancelled in Redis.
CallbackCheckCancelled(c) ==
  LET b == cbid[c] IN
  /\ cpc[c] = "cancelRedis"
  /\ \E ok \in BOOLEAN :
       /\ RedisCall(ok)
       /\ IF ok /\ b \in redCancelled
          THEN CallbackStop(c, b)
          ELSE cpc' = [cpc EXCEPT ![c] = "load"] /\ UNCHANGED pendVars
  /\ UNCHANGED <<subVars, memVars, redVars, reqVars, cancelVars,
                 applied, missed, wfVars, restarts>>

\* Faulty variant: a result without usable vectors is finalized as a success.
CallbackLoadLenient(c) ==
  LET b == cbid[c] IN
  /\ cpc[c] = "load"
  /\ \E ok \in BOOLEAN :
       /\ RedisCall(ok)
       /\ IF ContextFound(b, ok)
          THEN /\ cpc' = [cpc EXCEPT ![c] = IF usable[c] THEN "upsert" ELSE "finalize"]
               /\ UNCHANGED pendVars
          ELSE CallbackStop(c, b)
  /\ UNCHANGED <<subVars, memVars, redVars, reqVars, cancelVars,
                 applied, missed, wfVars, restarts>>

\* _load_batch_context and the checks of the payload against it.
CallbackLoad(c) ==
  LET b == cbid[c] IN
  /\ cpc[c] = "load"
  /\ \E ok \in BOOLEAN :
       /\ RedisCall(ok)
       /\ IF ContextFound(b, ok) /\ usable[c]
          THEN cpc' = [cpc EXCEPT ![c] = "upsert"] /\ UNCHANGED pendVars
          ELSE CallbackStop(c, b)
  /\ UNCHANGED <<subVars, memVars, redVars, reqVars, cancelVars,
                 applied, missed, wfVars, restarts>>

\* fallback_individual_upsert writes the vectors.  It logs the rows that fail and
\* returns the others, perhaps none.
Upsert(b) ==
  \/ applied' = [applied EXCEPT ![b] = @ + 1] /\ UNCHANGED missed
  \/ missed' = missed \cup {b} /\ UNCHANGED applied

\* The callback does not look at what the upsert returned and goes on as after a
\* success.
CallbackUpsert(c) ==
  /\ cpc[c] = "upsert"
  /\ Upsert(cbid[c])
  /\ cpc' = [cpc EXCEPT ![c] = "finalize"]
  /\ UNCHANGED <<subVars, memVars, redVars, pendVars, reqVars,
                 cancelVars, wfVars, redisFails, restarts>>

\* Faulty variant: the failing callback drops the context a redelivery needs.
CallbackRaiseDropsContext(c) ==
  /\ cpc[c] \in {"upsert", "finalize"}
  /\ CallbackStop(c, cbid[c])
  /\ memCtx' = memCtx \ {cbid[c]}
  /\ UNCHANGED <<subVars, memDone, memCancelled, redVars, reqVars, cancelVars,
                 applied, missed, wfVars, redisFails, restarts>>

\* The upsert or the finalization raises: the endpoint answers 500 and gives
\* the pending count back.
CallbackRaise(c) ==
  /\ cpc[c] \in {"upsert", "finalize"}
  /\ CallbackStop(c, cbid[c])
  /\ UNCHANGED <<subVars, memVars, redVars, reqVars, cancelVars,
                 applied, missed, wfVars, redisFails, restarts>>

\* Finalization and progress sync are over; _mark_batch_done sets its memory flag.
CallbackFinalize(c) ==
  /\ cpc[c] = "finalize"
  /\ memDone' = memDone \cup {cbid[c]}
  /\ cpc' = [cpc EXCEPT ![c] = "markRedis"]
  /\ UNCHANGED <<subVars, memCtx, memCancelled, redVars, pendVars, reqVars,
                 cancelVars, applied, missed, wfVars, redisFails, restarts>>

\* Faulty variant: the count is given back here and again by CallbackDropContext.
CallbackMarkDoneGivesBack(c) ==
  LET b == cbid[c] IN
  /\ cpc[c] = "markRedis"
  /\ \E ok \in BOOLEAN :
       /\ RedisCall(ok)
       /\ redDone' = IF ok THEN redDone \cup {b} ELSE redDone
  /\ memCtx' = memCtx \ {b}
  /\ DecrementPending(None, b)
  /\ cpc' = [cpc EXCEPT ![c] = "dropCtx"]
  /\ UNCHANGED <<subVars, memDone, memCancelled, redCtx, redCancelled,
                 reqVars, cancelVars, applied, missed, wfVars, restarts>>

\* The done flag in Redis, then the memory part of _delete_batch_context.
CallbackMarkDone(c) ==
  LET b == cbid[c] IN
  /\ cpc[c] = "markRedis"
  /\ \E ok \in BOOLEAN :
       /\ RedisCall(ok)
       /\ redDone' = IF ok THEN redDone \cup {b} ELSE redDone
  /\ memCtx' = memCtx \ {b}
  /\ cpc' = [cpc EXCEPT ![c] = "dropCtx"]
  /\ UNCHANGED <<subVars, memDone, memCancelled, redCtx, redCancelled, pendVars,
                 reqVars, cancelVars, applied, missed, wfVars, restarts>>

\* The Redis part of _delete_batch_context, then the pending count of the
\* context's own job.
CallbackDropContext(c) ==
  LET b == cbid[c] IN
  /\ cpc[c] = "dropCtx"
  /\ \E ok \in BOOLEAN :
       /\ RedisCall(ok)
       /\ redCtx' = IF ok THEN redCtx \ {b} ELSE redCtx
  /\ DecrementPending(JobOf[owner[b]], b)
  /\ cpc' = [cpc EXCEPT ![c] = "end"]
  /\ UNCHANGED <<subVars, memVars, redDone, redCancelled, reqVars,
                 cancelVars, applied, missed, wfVars, restarts>>

-----------------------------------------------------------------------------
(* cancel_embedding_batch *)

CancelRequest(k, b) ==
  /\ kpc[k] = "idle"
  /\ owner[b] # None
  /\ kbid' = [kbid EXCEPT ![k] = b]
  /\ kpc' = [kpc EXCEPT ![k] = "load"]
  /\ UNCHANGED <<subVars, memVars, redVars, pendVars, cbVars, khit, gone,
                 cancelled, applied, missed, wfVars, redisFails, restarts>>

\* The context is looked up; a batch that memory knows as done is left alone.
CancelLoad(k) ==
  LET b == kbid[k] IN
  /\ kpc[k] = "load"
  /\ \E ok \in BOOLEAN :
       /\ RedisCall(ok)
       /\ khit' = [khit EXCEPT ![k] = ContextFound(b, ok)]
  /\ kpc' = [kpc EXCEPT ![k] = IF b \in memDone THEN "end" ELSE "doneRedis"]
  /\ UNCHANGED <<subVars, memVars, redVars, pendVars, cbVars, kbid, gone,
                 cancelled, applied, missed, wfVars, restarts>>

\* already_completed and not_found return here.
CancelCheckDone(k) ==
  LET b == kbid[k] IN
  /\ kpc[k] = "doneRedis"
  /\ \E ok \in BOOLEAN :
       /\ RedisCall(ok)
       /\ kpc' = [kpc EXCEPT ![k] =
                    IF (ok /\ b \in redDone) \/ ~khit[k] THEN "end" ELSE "http"]
  /\ UNCHANGED <<subVars, memVars, redVars, pendVars, cbVars, kbid, khit,
                 gone, cancelled, applied, missed, wfVars, restarts>>

\* DELETE /batches/{id}: an error status other than 404 raises; otherwise
\* _mark_batch_cancelled sets its memory flag.
CancelHttp(k) ==
  /\ kpc[k] = "http"
  /\ \/ /\ kpc' = [kpc EXCEPT ![k] = "end"]
        /\ UNCHANGED <<memCancelled, gone>>
     \/ /\ kpc' = [kpc EXCEPT ![k] = "flagRedis"]
        /\ memCancelled' = memCancelled \cup {kbid[k]}
        /\ gone' = gone \cup {kbid[k]}
  /\ UNCHANGED <<subVars, memCtx, memDone, redVars, pendVars, cbVars, kbid, khit,
                 cancelled, applied, missed, wfVars, redisFails, restarts>>

\* The cancelled flag in Redis, then the memory part of _delete_batch_tracking.
CancelFlag(k) ==
  LET b == kbid[k] IN
  /\ kpc[k] = "flagRedis"
  /\ \E ok \in BOOLEAN :
       /\ RedisCall(ok)
       /\ redCancelled' = IF ok THEN redCancelled \cup {b} ELSE redCancelled
  /\ memCtx' = memCtx \ {b}
  /\ memDone' = memDone \ {b}
  /\ memCancelled' = memCancelled \ {b}
  /\ kpc' = [kpc EXCEPT ![k] = "dropCtx"]
  /\ UNCHANGED <<subVars, redCtx, redDone, pendVars, cbVars, kbid, khit,
                 gone, cancelled, applied, missed, wfVars, restarts>>

\* A failing delete skips the second one and ends the request.
CancelDropContext(k) ==
  LET b == kbid[k] IN
  /\ kpc[k] = "dropCtx"
  /\ \E ok \in BOOLEAN :
       /\ RedisCall(ok)
       /\ IF ok
          THEN /\ redCtx' = redCtx \ {b}
               /\ kpc' = [kpc EXCEPT ![k] = "dropDone"]
               /\ UNCHANGED cancelled
          ELSE /\ kpc' = [kpc EXCEPT ![k] = "end"]
               /\ cancelled' = cancelled \cup {b}
               /\ UNCHANGED redCtx
  /\ UNCHANGED <<subVars, memVars, redDone, redCancelled, pendVars, cbVars, kbid,
                 khit, gone, applied, missed, wfVars, restarts>>

CancelDropDone(k) ==
  LET b == kbid[k] IN
  /\ kpc[k] = "dropDone"
  /\ \E ok \in BOOLEAN :
       /\ RedisCall(ok)
       /\ redDone' = IF ok THEN redDone \ {b} ELSE redDone
  /\ kpc' = [kpc EXCEPT ![k] = "end"]
  /\ cancelled' = cancelled \cup {b}
  /\ UNCHANGED <<subVars, memVars, redCtx, redCancelled, pendVars, cbVars, kbid,
                 khit, gone, applied, missed, wfVars, restarts>>

-----------------------------------------------------------------------------
(* _cleanup_workflow_state_after_finish *)

CleanupStart(j) ==
  /\ cleanup[j] = "off"
  /\ j \in workflows
  /\ cleanup' = [cleanup EXCEPT ![j] = "waiting"]
  /\ UNCHANGED <<subVars, memVars, redVars, pendVars, cbVars, cancelVars, applied, missed,
                 workflows, waited, redisFails, restarts>>

\* Faulty variants: one sleep too many, and a wait that is not counted.
CleanupSleepOneMore(j) ==
  /\ cleanup[j] = "waiting"
  /\ pending[j] > 0
  /\ waited[j] <= MaxWait
  /\ waited' = [waited EXCEPT ![j] = @ + 1]
  /\ UNCHANGED <<subVars, memVars, redVars, pendVars, cbVars, cancelVars, applied, missed,
                 workflows, cleanup, redisFails, restarts>>

CleanupSleepUncounted(j) ==
  /\ cleanup[j] = "waiting"
  /\ pending[j] > 0
  /\ UNCHANGED vars

\* Callbacks are pending and the wait is not used up: sleep once more.
CleanupSleep(j) ==
  /\ cleanup[j] = "waiting"
  /\ pending[j] > 0
  /\ waited[j] < MaxWait
  /\ waited' = [waited EXCEPT ![j] = @ + 1]
  /\ UNCHANGED <<subVars, memVars, redVars, pendVars, cbVars, cancelVars, applied, missed,
                 workflows, cleanup, redisFails, restarts>>

\* Faulty variant: the last pending callback is not waited for.
CleanupDropEarly(j) ==
  /\ cleanup[j] = "waiting"
  /\ pending[j] <= 1 \/ waited[j] >= MaxWait
  /\ workflows' = workflows \ {j}
  /\ cleanup' = [cleanup EXCEPT ![j] = "done"]
  /\ UNCHANGED <<subVars, memVars, redVars, pendVars, cbVars, cancelVars, applied, missed,
                 waited, redisFails, restarts>>

\* Nothing is pending, or the wait is over: the workflow object is dropped.
CleanupDrop(j) ==
  /\ cleanup[j] = "waiting"
  /\ pending[j] = 0 \/ waited[j] >= MaxWait
  /\ workflows' = workflows \ {j}
  /\ cleanup' = [cleanup EXCEPT ![j] = "done"]
  /\ UNCHANGED <<subVars, memVars, redVars, pendVars, cbVars, cancelVars, applied, missed,
                 waited, redisFails, restarts>>

-----------------------------------------------------------------------------
(* The process dies: module globals and coroutines are gone, Redis remains *)

Restart ==
  /\ restarts < MaxRestarts
  /\ restarts' = restarts + 1
  /\ memCtx' = {} /\ memDone' = {} /\ memCancelled' = {}
  /\ pending' = [j \in Jobs |-> 0]
  /\ batchJob' = [b \in Batches |-> None]
  /\ spc' = [i \in Items |-> IF spc[i] = "done" THEN "done" ELSE "failed"]
  /\ cpc' = [c \in Callbacks |-> IF cpc[c] = "idle" THEN "idle" ELSE "end"]
  /\ kpc' = [k \in Cancels |-> IF kpc[k] = "idle" THEN "idle" ELSE "end"]
  /\ workflows' = {}
  /\ cleanup' = [j \in Jobs |-> "done"]
  /\ UNCHANGED <<attempt, sbid, owner, redVars, reqVars, kbid, khit,
                 gone, cancelled, applied, missed, waited, redisFails>>

Submit(i) ==
  \/ \E b \in Batches : SubmitAccepted(i, b)
  \/ SubmitError(i)
  \/ SubmitStoreMemory(i)
  \/ SubmitRegister(i)

CallbackStep(c) ==
  \/ CallbackCheckDone(c)
  \/ CallbackCheckCancelled(c)
  \/ CallbackLoad(c)
  \/ CallbackUpsert(c)
  \/ CallbackRaise(c)
  \/ CallbackFinalize(c)
  \/ CallbackMarkDone(c)
  \/ CallbackDropContext(c)

CancelStep(k) ==
  \/ CancelLoad(k)
  \/ CancelCheckDone(k)
  \/ CancelHttp(k)
  \/ CancelFlag(k)
  \/ CancelDropContext(k)
  \/ CancelDropDone(k)

Cleanup(j) == CleanupSleep(j) \/ CleanupDrop(j)

Next ==
  \/ \E i \in Items : Submit(i)
  \/ \E c \in Callbacks, b \in Batches, status \in {"completed", "unusable", "failed"} :
       CallbackReceive(c, b, status)
  \/ \E c \in Callbacks : CallbackStep(c)
  \/ \E k \in Cancels, b \in Batches : CancelRequest(k, b)
  \/ \E k \in Cancels : CancelStep(k)
  \/ \E j \in Jobs : CleanupStart(j) \/ Cleanup(j)
  \/ Restart

Spec == Init /\ [][Next]_vars

\* asyncio runs every ready coroutine and every sleep ends; the scheduler owes
\* nothing.
FairSpec ==
  /\ Spec
  /\ \A i \in Items : WF_vars(Submit(i))
  /\ \A c \in Callbacks : WF_vars(CallbackStep(c))
  /\ \A k \in Cancels : WF_vars(CancelStep(k))
  /\ \A j \in Jobs : WF_vars(Cleanup(j))

-----------------------------------------------------------------------------
(* Properties *)

\* Whatever the callbacks, their duplicates and their order, a job never counts
\* more pending callbacks than there are registered batches of it: the end of a
\* workflow never waits for a callback that no batch can still deliver.
PendingBacked == \A j \in Jobs : pending[j] <= Cardinality(Waiting(j))

\* So far the scheduler called back once per batch, after its registration.
Orderly ==
  \A c, d \in Callbacks :
    cbid[c] # None => ~early[c] /\ (c # d => cbid[c] # cbid[d])

\* As long as it does, the count is the number of registered batches that have not
\* called back: no batch gives back another one's count.
PendingExact == Orderly => \A j \in Jobs : pending[j] = Cardinality(Waiting(j))

\* An upsert of the batch has returned: it wrote the vectors, or passed over rows
\* that failed.
Upserted(b) == applied[b] > 0 \/ b \in missed

\* A batch is flagged done only after an upsert of it has returned, across failing
\* Redis calls and restarts.  Vectors of a done batch are missing only where that
\* upsert itself has passed over their failure: a redelivered result is never
\* rejected for any other reason with nothing written.
DoneImpliesUpserted == \A b \in memDone \cup redDone : Upserted(b)

\* A registered batch of which no upsert has returned and that the scheduler was
\* not told to delete keeps its context: a Redis failure, a restart or an upsert
\* that raises does not lose it.  (One that passes over failed rows does.)
ContextKept ==
  \A b \in Batches :
    Registered(b) /\ ~Upserted(b) /\ b \notin gone =>
      /\ restarts = 0 => b \in memCtx
      /\ redisFails = 0 => b \in redCtx

\* As long as Redis answers, a callback that arrives after the cancellation
\* returned never writes vectors, also when the cancellation raced a callback
\* whose done flag it erased.
CancelSticks ==
  \A c \in Callbacks :
    redisFails = 0 /\ late[c] => cpc[c] \notin {"upsert", "finalize", "markRedis", "dropCtx"}

\* With an orderly scheduler the end of a workflow drops its object only when
\* no registered batch is still to call back, when the wait is used up, or with
\* the whole process.
CleanupWaitsForCallbacks ==
  [][\A j \in workflows \ workflows' :
        Orderly =>
          Waiting(j) = {} \/ waited[j] >= MaxWait \/ restarts' # restarts]_vars

\* A cleanup that began ends, even when the scheduler never calls back.
CleanupEnds == \A j \in Jobs : cleanup[j] = "waiting" ~> cleanup[j] = "done"

=============================================================================
