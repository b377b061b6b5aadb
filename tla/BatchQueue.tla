---------------------------- MODULE BatchQueue ----------------------------
(***************************************************************************)
(* One batched stage of the worker pool whose workers await get() itself   *)
(* (save and study): the BatchQueue of every job                           *)
(* (core/crawler/batch_queue.py), served by workers that see them all as   *)
(* one MultiplexBatchQueue (core/crawler/global_pool.py), flushed by the   *)
(* pool's one flush task and by the drain of a job that ends, and disposed *)
(* of by the job's cleanup (backend/shared/workflow_runner.py).  A put or  *)
(* a flush that finds the bounded queue full waits with the lock held.     *)
(***************************************************************************)
EXTENDS Integers, Sequences, FiniteSets, SequencesExt

CONSTANTS
  Jobs, Items, Workers, None,
  JobOf,         \* the job of an item
  BatchSize,     \* batch_size; with 1 nothing is buffered
  Capacity,      \* queue_maxsize
  Ending         \* bound: the jobs that drain or end in a run

ASSUME ConstantsAssumption ==
  /\ JobOf \in [Items -> Jobs]
  /\ None \notin Jobs \cup {"put", "flush", "drain"} /\ Ending \subseteq Jobs
  /\ IsFiniteSet(Workers)
  /\ BatchSize \in Nat \ {0, 1} /\ Capacity \in Nat \ {0}

VARIABLES
  registered,  \* _jobs of the pool
  buffer,      \* buffer of each BatchQueue
  queue,       \* its asyncio queue of batches
  unfinished,  \* batches without a task_done
  holder,      \* who waits for room with _lock held: "put", "flush" or "drain"
  held,        \* the batch that one holds
  put,         \* an item: "todo", "called", "in" or "dropped"
  visiting,    \* the job _periodic_flush is at
  wpc,         \* a worker: "idle", "parked" in a job's get, or "working"
  at,          \* the job it is parked at or working for
  batch,       \* the batch it works on
  drain,       \* a job's _join_file_job_queues_slice
  dispose,     \* a job's dispose_job_queues: "no", "waiting" or "ended"
  entered, taken,            \* history: items put, items handed to workers
  done, lost, drained,       \* history: items finished, lost, thrown away
  before                     \* history: items put when the drain began

queueVars == <<buffer, queue, unfinished, holder, held>>
workerVars == <<wpc, at, batch>>
endVars == <<registered, drain, dispose, before>>
histVars == <<entered, taken, done, lost, drained>>
vars == <<queueVars, put, visiting, workerVars, endVars, histVars>>

DrainPCs == {"off", "flush", "unflushed", "join", "joined"}

TypeOK ==
  /\ registered \subseteq Jobs
  /\ buffer \in [Jobs -> Seq(Items)]
  /\ queue \in [Jobs -> Seq(Seq(Items))] /\ \A j \in Jobs : Len(queue[j]) <= Capacity
  /\ unfinished \in [Jobs -> Nat]
  /\ holder \in [Jobs -> {"put", "flush", "drain", None}]
  /\ held \in [Jobs -> Seq(Items)]
  /\ put \in [Items -> {"todo", "called", "in", "dropped"}]
  /\ visiting \in Jobs \cup {None}
  /\ wpc \in [Workers -> {"idle", "parked", "working"}]
  /\ at \in [Workers -> Jobs \cup {None}]
  /\ batch \in [Workers -> Seq(Items)]
  /\ drain \in [Jobs -> DrainPCs]
  /\ dispose \in [Jobs -> {"no", "waiting", "ended"}]
  /\ entered \in [Jobs -> Seq(Items)] /\ taken \in [Jobs -> Seq(Items)]
  /\ done \cup lost \cup drained \subseteq Items
  /\ before \in [Jobs -> SUBSET Items]

Init ==
  /\ registered = Jobs
  /\ buffer = [j \in Jobs |-> <<>>] /\ queue = [j \in Jobs |-> <<>>]
  /\ unfinished = [j \in Jobs |-> 0]
  /\ holder = [j \in Jobs |-> None] /\ held = [j \in Jobs |-> <<>>]
  /\ put = [i \in Items |-> "todo"]
  /\ visiting = None
  /\ wpc = [w \in Workers |-> "idle"] /\ at = [w \in Workers |-> None]
  /\ batch = [w \in Workers |-> <<>>]
  /\ drain = [j \in Jobs |-> "off"] /\ dispose = [j \in Jobs |-> "no"]
  /\ entered = [j \in Jobs |-> <<>>] /\ taken = [j \in Jobs |-> <<>>]
  /\ done = {} /\ lost = {} /\ drained = {}
  /\ before = [j \in Jobs |-> {}]

-----------------------------------------------------------------------------
(* Putting and flushing *)

Locked(j) == holder[j] # None

\* Faulty variant: a batch is queued without room for it.
EmitUnbounded(j, b, rest, who) ==
  /\ buffer' = [buffer EXCEPT ![j] = rest]
  /\ queue' = [queue EXCEPT ![j] = Append(@, b)]
  /\ unfinished' = [unfinished EXCEPT ![j] = @ + 1]
  /\ UNCHANGED <<holder, held>>

\* Cut a batch b off, leaving rest in the buffer, and queue it: at once if there is
\* room, else by waiting as who, with the lock held.
Emit(j, b, rest, who) ==
  /\ buffer' = [buffer EXCEPT ![j] = rest]
  /\ IF Len(queue[j]) < Capacity
     THEN /\ queue' = [queue EXCEPT ![j] = Append(@, b)]
          /\ unfinished' = [unfinished EXCEPT ![j] = @ + 1]
          /\ UNCHANGED <<holder, held>>
     ELSE /\ holder' = [holder EXCEPT ![j] = who]
          /\ held' = [held EXCEPT ![j] = b]
          /\ UNCHANGED <<queue, unfinished>>

\* MultiplexQueue.put looks the job up, and drops the item if it is gone.
CallPut(i) ==
  /\ put[i] = "todo"
  /\ put' = [put EXCEPT ![i] = IF JobOf[i] \in registered THEN "called" ELSE "dropped"]
  /\ UNCHANGED <<queueVars, visiting, workerVars, endVars, histVars>>

\* Faulty variant: the last item of a full batch stays in the buffer.
PutKeepsLast(i) ==
  LET j == JobOf[i]  s == Append(buffer[j], i) IN
  /\ put[i] = "called"
  /\ ~Locked(j)
  /\ put' = [put EXCEPT ![i] = "in"]
  /\ entered' = [entered EXCEPT ![j] = Append(@, i)]
  /\ IF Len(s) >= BatchSize
     THEN Emit(j, SubSeq(s, 1, BatchSize), SubSeq(s, BatchSize, Len(s)), "put")
     ELSE /\ buffer' = [buffer EXCEPT ![j] = s]
          /\ UNCHANGED <<queue, unfinished, holder, held>>
  /\ UNCHANGED <<visiting, workerVars, endVars, taken, done, lost, drained>>

\* BatchQueue.put, once it has the lock.
Put(i) ==
  LET j == JobOf[i]  s == Append(buffer[j], i) IN
  /\ put[i] = "called"
  /\ ~Locked(j)
  /\ put' = [put EXCEPT ![i] = "in"]
  /\ entered' = [entered EXCEPT ![j] = Append(@, i)]
  /\ IF Len(s) >= BatchSize
     THEN Emit(j, SubSeq(s, 1, BatchSize), SubSeq(s, BatchSize + 1, Len(s)), "put")
     ELSE /\ buffer' = [buffer EXCEPT ![j] = s]
          /\ UNCHANGED <<queue, unfinished, holder, held>>
  /\ UNCHANGED <<visiting, workerVars, endVars, taken, done, lost, drained>>

\* BatchQueue.flush, once it has the lock: put leaves less than a batch behind, so
\* the loop of flush cuts one.
FlushBuffer(j, who) ==
  IF buffer[j] = <<>> THEN UNCHANGED queueVars ELSE Emit(j, buffer[j], <<>>, who)

\* There is room for the batch a holder waits with.
HolderProceeds(j) ==
  /\ Locked(j)
  /\ Len(queue[j]) < Capacity
  /\ queue' = [queue EXCEPT ![j] = Append(@, held[j])]
  /\ unfinished' = [unfinished EXCEPT ![j] = @ + 1]
  /\ holder' = [holder EXCEPT ![j] = None]
  /\ held' = [held EXCEPT ![j] = <<>>]
  /\ visiting' = IF holder[j] = "flush" THEN None ELSE visiting
  /\ drain' = IF holder[j] = "drain" THEN [drain EXCEPT ![j] = "join"] ELSE drain
  /\ UNCHANGED <<buffer, put, workerVars, registered, dispose, before, histVars>>

\* Faulty variant: only a full batch is worth a visit.
VisitFullJob(j) ==
  /\ visiting = None
  /\ j \in registered
  /\ Len(buffer[j]) >= BatchSize
  /\ visiting' = j
  /\ UNCHANGED <<queueVars, put, workerVars, endVars, histVars>>

\* _periodic_flush of the pool goes from job to job.
VisitJob(j) ==
  /\ visiting = None
  /\ j \in registered
  /\ buffer[j] # <<>>
  /\ visiting' = j
  /\ UNCHANGED <<queueVars, put, workerVars, endVars, histVars>>

PeriodicFlush(j) ==
  /\ visiting = j /\ ~Locked(j)
  /\ FlushBuffer(j, "flush")
  /\ visiting' = IF holder'[j] = "flush" THEN j ELSE None
  /\ UNCHANGED <<put, workerVars, endVars, histVars>>

-----------------------------------------------------------------------------
(* Workers *)

\* A worker takes the first batch of a job.
Take(w, j) ==
  /\ queue[j] # <<>>
  /\ queue' = [queue EXCEPT ![j] = Tail(@)]
  /\ taken' = [taken EXCEPT ![j] = @ \o Head(queue[j])]
  /\ wpc' = [wpc EXCEPT ![w] = "working"]
  /\ at' = [at EXCEPT ![w] = j]
  /\ batch' = [batch EXCEPT ![w] = Head(queue[j])]
  /\ UNCHANGED <<buffer, unfinished, holder, held, put, visiting, endVars, entered,
                 done, lost, drained>>

\* MultiplexQueue.get finds a job with a batch.
Get(w, j) ==
  /\ wpc[w] = "idle" /\ j \in registered
  /\ Take(w, j)

\* It finds a job whose queue is not empty() only because of its buffer, and waits
\* in that job's get.
Park(w, j) ==
  /\ wpc[w] = "idle" /\ j \in registered
  /\ queue[j] = <<>> /\ buffer[j] # <<>>
  /\ wpc' = [wpc EXCEPT ![w] = "parked"]
  /\ at' = [at EXCEPT ![w] = j]
  /\ UNCHANGED <<queueVars, put, visiting, batch, endVars, histVars>>

ParkedGets(w) ==
  /\ wpc[w] = "parked"
  /\ \E j \in Jobs : at[w] = j /\ Take(w, j)

\* The batch is finished; task_done is passed on if the job is still registered.
TaskDone(w) ==
  /\ wpc[w] = "working"
  /\ LET j == at[w] IN
     unfinished' = [unfinished EXCEPT ![j] = IF j \in registered THEN @ - 1 ELSE @]
  /\ done' = done \cup ToSet(batch[w])
  /\ wpc' = [wpc EXCEPT ![w] = "idle"]
  /\ at' = [at EXCEPT ![w] = None]
  /\ batch' = [batch EXCEPT ![w] = <<>>]
  /\ UNCHANGED <<buffer, queue, holder, held, put, visiting, endVars, entered, taken,
                 lost, drained>>

-----------------------------------------------------------------------------
(* The end of a job *)

\* A slice of the drain begins; the drain repeats it while there is work.
BeginDrain(j) ==
  /\ j \in Ending \cap registered /\ drain[j] \in {"off", "joined"}
  /\ drain' = [drain EXCEPT ![j] = "flush"]
  /\ before' = [before EXCEPT ![j] = ToSet(entered[j])]
  /\ UNCHANGED <<queueVars, put, visiting, workerVars, registered, dispose, histVars>>

\* Faulty variant: an empty buffer is taken for a flushed one, although a put
\* still waits with the lock held.
DrainFlushUnlocked(j) ==
  /\ drain[j] = "flush"
  /\ buffer[j] = <<>> \/ ~Locked(j)
  /\ FlushBuffer(j, "drain")
  /\ drain' = [drain EXCEPT ![j] = IF holder'[j] = "drain" THEN "flush" ELSE "join"]
  /\ UNCHANGED <<put, visiting, workerVars, registered, dispose, before, histVars>>

DrainFlush(j) ==
  /\ drain[j] = "flush" /\ ~Locked(j)
  /\ FlushBuffer(j, "drain")
  /\ drain' = [drain EXCEPT ![j] = IF holder'[j] = "drain" THEN "flush" ELSE "join"]
  /\ UNCHANGED <<put, visiting, workerVars, registered, dispose, before, histVars>>

\* wait_for cancels a flush that waits for the lock, or for room: then the batch it
\* holds is lost.  The drain goes on to the join.
DrainFlushTimeout(j) ==
  /\ drain[j] = "flush" /\ Locked(j)
  /\ IF holder[j] = "drain"
     THEN /\ lost' = lost \cup ToSet(held[j])
          /\ holder' = [holder EXCEPT ![j] = None]
          /\ held' = [held EXCEPT ![j] = <<>>]
     ELSE UNCHANGED <<lost, holder, held>>
  /\ drain' = [drain EXCEPT ![j] = "unflushed"]
  /\ UNCHANGED <<buffer, queue, unfinished, put, visiting, workerVars, registered,
                 dispose, before, entered, taken, done, drained>>

\* The join returns, or its wait_for ends it: then there is another slice, or the
\* budget of the drain is used up.  Only a slice whose flush returned counts as joined.
DrainJoined(j) ==
  /\ drain[j] = "join"
  /\ unfinished[j] = 0
  /\ drain' = [drain EXCEPT ![j] = "joined"]
  /\ UNCHANGED <<queueVars, put, visiting, workerVars, registered, dispose, before, histVars>>

DrainJoinTimeout(j) ==
  /\ drain[j] \in {"unflushed", "join"}
  /\ drain' = [drain EXCEPT ![j] = "off"]
  /\ UNCHANGED <<queueVars, put, visiting, workerVars, registered, dispose, before, histVars>>

\* The job's cleanup, after its drain or because the job was stopped.
Unregister(j) ==
  /\ j \in Ending \cap registered /\ drain[j] \in {"off", "joined"}
  /\ registered' = registered \ {j}
  /\ dispose' = [dispose EXCEPT ![j] = "waiting"]
  /\ UNCHANGED <<queueVars, put, visiting, workerVars, drain, before, histVars>>

\* The items of a sequence of batches.
ItemsOf(batches) == UNION {ToSet(b) : b \in ToSet(batches)}

\* _clear_batch_queue_nowait, once it has the lock.
Dispose(j) ==
  /\ dispose[j] = "waiting" /\ ~Locked(j)
  /\ drained' = drained \cup ToSet(buffer[j]) \cup ItemsOf(queue[j])
  /\ buffer' = [buffer EXCEPT ![j] = <<>>]
  /\ unfinished' = [unfinished EXCEPT ![j] = @ - Len(queue[j])]
  /\ queue' = [queue EXCEPT ![j] = <<>>]
  /\ dispose' = [dispose EXCEPT ![j] = "ended"]
  /\ UNCHANGED <<holder, held, put, visiting, workerVars, registered, drain, before,
                 entered, taken, done, lost>>

-----------------------------------------------------------------------------

Next ==
  \/ \E i \in Items : CallPut(i) \/ Put(i)
  \/ \E j \in Jobs :
       \/ HolderProceeds(j) \/ VisitJob(j) \/ PeriodicFlush(j)
       \/ BeginDrain(j) \/ DrainFlush(j) \/ DrainFlushTimeout(j) \/ DrainJoined(j)
       \/ DrainJoinTimeout(j)
       \/ Unregister(j) \/ Dispose(j)
       \/ \E w \in Workers : Get(w, j) \/ Park(w, j)
  \/ \E w \in Workers : ParkedGets(w) \/ TaskDone(w)

Spec == Init /\ [][Next]_vars

\* asyncio hands locks and queue slots to waiters in order, the flush task and the
\* workers loop for ever, and a worker finishes its batch (it has timeouts).
FairSpec ==
  /\ Spec
  /\ SF_vars(\E i \in Items : Put(i))
  /\ \A j \in Jobs :
       /\ WF_vars(HolderProceeds(j)) /\ SF_vars(VisitJob(j)) /\ SF_vars(PeriodicFlush(j))
       /\ SF_vars(Dispose(j))
  /\ \A w \in Workers :
       /\ WF_vars(\E j \in Jobs : Get(w, j) \/ Park(w, j))
       /\ SF_vars(ParkedGets(w)) /\ WF_vars(TaskDone(w))

-----------------------------------------------------------------------------
(* Properties *)

\* The items that a job has passed on or holds, piece by piece: what its workers took,
\* the batches that wait, the batch that waits for room, the buffer.
Pieces(j) == <<taken[j]>> \o queue[j] \o <<held[j], buffer[j]>>

PutBefore(j, x, y) ==
  \E m, n \in DOMAIN entered[j] : m < n /\ entered[j][m] = x /\ entered[j][n] = y

\* Through every mix of puts, flushes and waits for room, a job's items reach the
\* workers once each and in the order they were put; only what a disposal threw
\* away, or a flush that was cut off, is missing.
InOrder ==
  \A j \in Jobs :
    /\ ItemsOf(Pieces(j)) = ToSet(entered[j]) \ (lost \cup drained)
    /\ \A p, q \in DOMAIN Pieces(j) :
         \A m \in DOMAIN Pieces(j)[p], n \in DOMAIN Pieces(j)[q] :
           p < q \/ (p = q /\ m < n) => PutBefore(j, Pieces(j)[p][m], Pieces(j)[q][n])

\* When the flush and the join of a slice have both returned, every item put before
\* the slice began was finished by a worker, or lost with an earlier flush.
DrainSound ==
  \A j \in Jobs : drain[j] = "joined" => before[j] \subseteq done \cup lost

\* The docstring of MultiplexQueue: the queues of all jobs behave as one asyncio
\* queue, so while its job lives an item that was put is got by a worker and
\* finished, unless a flush that was cut off has lost it.
AnyJobServed ==
  \A i \in Items :
    put[i] = "in" ~> i \in done \cup lost \/ JobOf[i] \notin registered

=============================================================================
