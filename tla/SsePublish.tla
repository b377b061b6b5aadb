----------------------------- MODULE SsePublish -----------------------------
(***************************************************************************)
(* The SSE publish queue, backend/shared/sse_publish_queue.py.             *)
(* Progress payloads of a job are coalesced into one slot per job and a    *)
(* priority queue of job ids; one worker takes the slot of the best entry, *)
(* hands the payload to the job's crawling-log updater, waits (bounded)    *)
(* for that updater, and hands the payload to the job's Redis publish      *)
(* task, which coalesces again while a publish of the job is in flight.    *)
(*                                                                         *)
(* A payload is its sequence number (order of enqueueing, a history), its  *)
(* status, its stats_revision and one counter standing for all monotonic   *)
(* counters.  SSE_DB_UPDATE_INTERVAL_SECONDS has its default 0, so every   *)
(* payload goes to the crawling log.                                       *)
(***************************************************************************)
EXTENDS Integers, Sequences, FiniteSets

CONSTANTS
  Jobs,
  None,
  MaxSeq,       \* bound: payloads enqueued altogether
  MaxRev,       \* bound: stats_revision
  Inputs,       \* what the callers enqueue: status, revision, counter, priority
  TaskLimit,    \* SSE_REDIS_PUBLISH_TASK_LIMIT
  Faults        \* sends fail or time out, updater waits time out

NoRev == -1
Statuses == {"running", "stop_requested", "terminal"}
Payloads == [seq : 1..MaxSeq, status : Statuses, rev : NoRev..MaxRev, count : 0..MaxRev]

ASSUME ConstantsAssumption ==
  /\ None \notin Payloads \cup [job : Jobs, payload : Payloads]
  /\ Inputs \subseteq [status : Statuses, rev : NoRev..MaxRev, count : 0..MaxRev, pri : {-1, 0}]
  /\ MaxSeq \in Nat \ {0}
  /\ MaxRev \in Nat
  /\ TaskLimit \in Nat \ {0}
  /\ Faults \in BOOLEAN

VARIABLES
  slot,        \* _sse_latest_by_job
  slotPri,     \* _sse_latest_priority_by_job (0 when absent)
  enqueued,    \* _sse_job_enqueued
  queue,       \* _sse_publish_queue, in order of insertion
  held,        \* the worker's local job_id and payload while it waits
  logNext,     \* _crawling_log_latest_update_by_job
  logTasks,    \* _crawling_log_update_tasks, the jobs with an updater
  logWriting,  \* the payload a job's updater is writing
  sending,     \* _redis_publish_tasks, by job and payload
  redisNext,   \* _redis_publish_latest_by_job
  seq,         \* payloads enqueued so far
  last,        \* history: the last payload number enqueued for a job
  logged,      \* history: the last payload number written to the crawling log
  sent,        \* history: the last payload sent for a job
  lost,        \* history: jobs with a failed send or a dropped payload
  skipped      \* history: jobs with an unfinished wait or a failed log update

vars == <<slot, slotPri, enqueued, queue, held, logNext, logTasks,
          logWriting, sending, redisNext, seq, last, logged, sent, lost, skipped>>
queueVars == <<slot, slotPri, enqueued, queue>>
logVars == <<logNext, logTasks, logWriting>>
redisVars == <<sending, redisNext>>

TypeOK ==
  /\ slot \in [Jobs -> Payloads \cup {None}]
  /\ slotPri \in [Jobs -> {-1, 0}]
  /\ enqueued \subseteq Jobs
  /\ queue \in Seq([pri : {-1, 0}, job : Jobs])
  /\ held \in [job : Jobs, payload : Payloads] \cup {None}
  /\ logNext \in [Jobs -> Payloads \cup {None}]
  /\ logTasks \subseteq Jobs
  /\ logWriting \in [Jobs -> Payloads \cup {None}]
  /\ sending \subseteq [job : Jobs, payload : Payloads]
  /\ redisNext \in [Jobs -> Payloads \cup {None}]
  /\ seq \in 0..MaxSeq
  /\ last \in [Jobs -> 0..MaxSeq]
  /\ logged \in [Jobs -> 0..MaxSeq]
  /\ sent \in [Jobs -> 0..MaxSeq]
  /\ lost \subseteq Jobs
  /\ skipped \subseteq Jobs

Init ==
  /\ slot = [j \in Jobs |-> None]
  /\ slotPri = [j \in Jobs |-> 0]
  /\ enqueued = {}
  /\ queue = <<>>
  /\ held = None
  /\ logNext = [j \in Jobs |-> None]
  /\ logTasks = {}
  /\ logWriting = [j \in Jobs |-> None]
  /\ sending = {}
  /\ redisNext = [j \in Jobs |-> None]
  /\ seq = 0
  /\ last = [j \in Jobs |-> 0]
  /\ logged = [j \in Jobs |-> 0]
  /\ sent = [j \in Jobs |-> 0]
  /\ lost = {}
  /\ skipped = {}

-----------------------------------------------------------------------------
(* enqueue_sse_message *)

Terminalish(p) == p.status # "running"

\* _merge_counter_snapshot: only a payload of an older known revision gives way.
MergeCounters(old, new) ==
  IF old.rev >= 0 /\ new.rev >= 0 /\ new.rev < old.rev
  THEN [new EXCEPT !.rev = old.rev, !.count = old.count]
  ELSE new

\* Faulty variant: a running payload replaces a pending terminal status.
CoalesceUnprotected(old, new) == IF old = None THEN new ELSE MergeCounters(old, new)

\* The slot after new arrives: a pending terminal status outlives a running one.
Coalesce(old, new) ==
  IF old = None THEN new
  ELSE LET merged == MergeCounters(old, new) IN
       IF Terminalish(old) /\ ~Terminalish(merged)
       THEN [merged EXCEPT !.status = old.status]
       ELSE merged

\* A pending job gets another queue entry only for a better priority.
Enqueue(j, in) ==
  LET new == [seq |-> seq + 1, status |-> in.status, rev |-> in.rev, count |-> in.count]
      pri == in.pri
      entry == [pri |-> pri, job |-> j]
  IN
  /\ seq < MaxSeq
  /\ seq' = seq + 1
  /\ last' = [last EXCEPT ![j] = seq + 1]
  /\ slot' = [slot EXCEPT ![j] = Coalesce(@, new)]
  /\ slotPri' = [slotPri EXCEPT ![j] = IF slot[j] # None /\ @ < pri THEN @ ELSE pri]
  /\ enqueued' = enqueued \cup {j}
  /\ queue' = IF j \in enqueued /\ pri >= slotPri[j] THEN queue ELSE Append(queue, entry)
  /\ UNCHANGED <<held, logVars, redisVars, logged, sent, lost, skipped>>

-----------------------------------------------------------------------------
(* _sse_publish_worker *)

\* PriorityQueue.get: the oldest of the entries with the smallest priority.
BestEntry ==
  CHOOSE i \in DOMAIN queue :
    \A k \in DOMAIN queue :
      queue[i].pri < queue[k].pri \/ (queue[i].pri = queue[k].pri /\ i <= k)

Without(s, i) == SubSeq(s, 1, i - 1) \o SubSeq(s, i + 1, Len(s))

\* _schedule_crawling_log_update
ScheduleLog(j, p) ==
  /\ logNext' = [logNext EXCEPT ![j] = p]
  /\ logTasks' = logTasks \cup {j}
  /\ UNCHANGED logWriting

\* Faulty variants: the job stays marked as enqueued, and a stale queue entry is
\* taken for a payload.
WorkerTakeKeepsMark ==
  LET j == queue[BestEntry].job IN
  /\ held = None
  /\ queue # <<>>
  /\ queue' = Without(queue, BestEntry)
  /\ slot' = [slot EXCEPT ![j] = None]
  /\ slotPri' = [slotPri EXCEPT ![j] = 0]
  /\ IF slot[j] = None
     THEN UNCHANGED <<held, logVars>>
     ELSE /\ held' = [job |-> j, payload |-> slot[j]]
          /\ ScheduleLog(j, slot[j])
  /\ UNCHANGED <<enqueued, redisVars, seq, last, logged, sent, lost, skipped>>

WorkerTakeUnchecked ==
  LET j == queue[BestEntry].job IN
  /\ held = None
  /\ queue # <<>>
  /\ queue' = Without(queue, BestEntry)
  /\ slot' = [slot EXCEPT ![j] = None]
  /\ slotPri' = [slotPri EXCEPT ![j] = 0]
  /\ enqueued' = enqueued \ {j}
  /\ held' = [job |-> j, payload |-> slot[j]]
  /\ ScheduleLog(j, slot[j])
  /\ UNCHANGED <<redisVars, seq, last, logged, sent, lost, skipped>>

\* The slot of the best entry moves to the worker, or was taken already.
WorkerTake ==
  LET j == queue[BestEntry].job IN
  /\ held = None
  /\ queue # <<>>
  /\ queue' = Without(queue, BestEntry)
  /\ slot' = [slot EXCEPT ![j] = None]
  /\ slotPri' = [slotPri EXCEPT ![j] = 0]
  /\ enqueued' = enqueued \ {j}
  /\ IF slot[j] = None
     THEN UNCHANGED <<held, logVars>>
     ELSE /\ held' = [job |-> j, payload |-> slot[j]]
          /\ ScheduleLog(j, slot[j])
  /\ UNCHANGED <<redisVars, seq, last, logged, sent, lost, skipped>>

\* Faulty variant: a second task of the job is started beside the first one.
ScheduleRedisBeside(j, p, active, tasks) ==
  /\ redisNext' = [redisNext EXCEPT ![j] = None]
  /\ IF Cardinality(active) >= TaskLimit
     THEN sending' = tasks /\ lost' = lost \cup {j}
     ELSE sending' = tasks \cup {[job |-> j, payload |-> p]} /\ UNCHANGED lost

\* _schedule_redis_publish while the tasks in active are not done: coalesce
\* behind the job's task, drop at the limit, or start a task.
ScheduleRedis(j, p, active, tasks) ==
  IF \E t \in tasks : t.job = j
  THEN /\ redisNext' = [redisNext EXCEPT ![j] = p]
       /\ sending' = tasks
       /\ UNCHANGED lost
  ELSE /\ redisNext' = [redisNext EXCEPT ![j] = None]
       /\ IF Cardinality(active) >= TaskLimit
          THEN sending' = tasks /\ lost' = lost \cup {j}
          ELSE sending' = tasks \cup {[job |-> j, payload |-> p]} /\ UNCHANGED lost

\* Faulty variant: the updater is not waited for.
WorkerPublishAtOnce ==
  /\ held # None
  /\ ScheduleRedis(held.job, held.payload, sending, sending)
  /\ held' = None
  /\ UNCHANGED <<queueVars, logVars, seq, last, logged, sent, skipped>>

\* The wait for the updater is over, or timed out; the payload goes to Redis.
WorkerPublish ==
  /\ held # None
  /\ \/ held.job \notin logTasks /\ UNCHANGED skipped
     \/ Faults /\ held.job \in logTasks /\ skipped' = skipped \cup {held.job}
  /\ ScheduleRedis(held.job, held.payload, sending, sending)
  /\ held' = None
  /\ UNCHANGED <<queueVars, logVars, seq, last, logged, sent>>

-----------------------------------------------------------------------------
(* _run_crawling_log_update_worker *)

\* Faulty variant: the task never ends.
LogNextForEver(j) ==
  /\ logWriting' = [logWriting EXCEPT ![j] = logNext[j]]
  /\ logNext' = [logNext EXCEPT ![j] = None]
  /\ UNCHANGED logTasks

\* The task takes the latest payload, or ends when there is none.
LogNext(j) ==
  /\ logWriting' = [logWriting EXCEPT ![j] = logNext[j]]
  /\ logNext' = [logNext EXCEPT ![j] = None]
  /\ logTasks' = IF logNext[j] = None THEN logTasks \ {j} ELSE logTasks

LogStart(j) ==
  /\ j \in logTasks /\ logWriting[j] = None
  /\ LogNext(j)
  /\ UNCHANGED <<queueVars, held, redisVars, seq, last, logged, sent, lost, skipped>>

\* The write succeeded, or failed and was logged.
LogWrite(j, ok) ==
  /\ logWriting[j] # None
  /\ ok \/ Faults
  /\ logged' = IF ok THEN [logged EXCEPT ![j] = logWriting[j].seq] ELSE logged
  /\ skipped' = IF ok THEN skipped ELSE skipped \cup {j}
  /\ LogNext(j)
  /\ UNCHANGED <<queueVars, held, redisVars, seq, last, sent, lost>>

-----------------------------------------------------------------------------
(* _run_redis_publish_task *)

\* Faulty variant: the coalesced payload is forgotten with the task.
SendEndForgets(t, ok) ==
  /\ t \in sending
  /\ ok \/ Faults
  /\ sent' = IF ok THEN [sent EXCEPT ![t.job] = t.payload.seq] ELSE sent
  /\ sending' = sending \ {t}
  /\ redisNext' = [redisNext EXCEPT ![t.job] = None]
  /\ lost' = IF ok THEN lost ELSE lost \cup {t.job}
  /\ UNCHANGED <<queueVars, held, logVars, seq, last, logged, skipped>>

\* The send returned, raised or timed out.  The task that ends still counts
\* among the active ones when it starts its successor.
SendEnd(t, ok) ==
  LET rest == sending \ {t} IN
  /\ t \in sending
  /\ ok \/ Faults
  /\ sent' = IF ok THEN [sent EXCEPT ![t.job] = t.payload.seq] ELSE sent
  /\ IF redisNext[t.job] = None
     THEN /\ sending' = rest
          /\ lost' = IF ok THEN lost ELSE lost \cup {t.job}
          /\ UNCHANGED redisNext
     ELSE ScheduleRedis(t.job, redisNext[t.job], sending, rest)
  /\ UNCHANGED <<queueVars, held, logVars, seq, last, logged, skipped>>

\* await_sse_publish_idle would return True now.
IdleReported(j) ==
  /\ j \notin enqueued /\ slot[j] = None
  /\ redisNext[j] = None /\ \A t \in sending : t.job # j
  /\ j \notin logTasks /\ logNext[j] = None

-----------------------------------------------------------------------------

Next ==
  \/ \E j \in Jobs, in \in Inputs : Enqueue(j, in)
  \/ WorkerTake
  \/ WorkerPublish
  \/ \E j \in Jobs : LogStart(j) \/ \E ok \in BOOLEAN : LogWrite(j, ok)
  \/ \E t \in sending, ok \in BOOLEAN : SendEnd(t, ok)

Spec == Init /\ [][Next]_vars

\* The event loop runs the worker and the tasks; writes and sends end, if only
\* by their timeouts.
FairSpec ==
  /\ Spec
  /\ WF_vars(WorkerTake) /\ WF_vars(WorkerPublish)
  /\ \A j \in Jobs : WF_vars(LogStart(j) \/ \E ok \in BOOLEAN : LogWrite(j, ok))
  /\ \A j \in Jobs : WF_vars(\E t \in sending, ok \in BOOLEAN : t.job = j /\ SendEnd(t, ok))

-----------------------------------------------------------------------------
(* Properties *)

\* A waiting payload always has a queue entry that leads the worker to it, for
\* every order of coalescing, re-queueing with a better priority and taking.
NoLostWakeup ==
  \A j \in Jobs :
    /\ slot[j] # None <=> j \in enqueued
    /\ j \in enqueued => \E i \in DOMAIN queue : queue[i].job = j

\* While a payload waits in its slot, a newer one never lowers a known revision or
\* shows a known revision with counters that no caller sent with it, and never turns
\* a terminal or stop status into a running one.
SlotKeepsProgress ==
  [][\A j \in Jobs :
       LET old == slot[j]  new == slot'[j] IN
       old # None /\ new # None =>
         /\ old.rev >= 0 /\ new.rev >= 0 => old.rev <= new.rev
         /\ \E in \in Inputs : in.rev = new.rev /\ in.count = new.count
         /\ Terminalish(old) => Terminalish(new)]_vars

\* The sends of a job keep the order of enqueueing although payloads pass
\* through a slot, the worker, a task and a second coalescing place.
SentInOrder == [][\A j \in Jobs : sent[j] <= sent'[j]]_vars

\* When nothing of a job is queued, held, in flight or coalesced, the last
\* enqueued payload (or what it was merged into) was sent, unless a send failed
\* or the task limit dropped one.
Quiet(j) == IdleReported(j) /\ (held # None => held.job # j)
QuietMeansSent == \A j \in Jobs : Quiet(j) /\ j \notin lost => sent[j] = last[j]

\* A payload is handed to Redis only after the crawling log has it or a newer
\* one, unless the bounded wait ran out or the update failed.
LogBeforeSend ==
  \A t \in sending : t.job \notin skipped => logged[t.job] >= t.payload.seq

\* A payload that waits in its slot leaves every stage in the end, even when
\* every send fails and every wait times out.
Settles == \A j \in Jobs : slot[j] # None ~> Quiet(j)

\* docs/codebase_optimization_structure.md: a terminal message is protected
\* against being overwritten by a later running message.
TerminalProtected ==
  [][\A j \in Jobs :
       redisNext[j] # None /\ redisNext'[j] # None /\ Terminalish(redisNext[j])
         => Terminalish(redisNext'[j])]_vars

=============================================================================
