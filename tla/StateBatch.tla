------------------------------ MODULE StateBatch ------------------------------
(***************************************************************************)
(* The write-behind batch of backend/shared/redis_sse_service.py: the      *)
(* state hash of a job is not written when a message is published but      *)
(* queued, at most one item per job, and a flush task writes a few items   *)
(* with one pipeline.  A flush gives up its place when it cuts its batch,  *)
(* so several may be writing; a failed batch is queued again, a bounded    *)
(* number of times, unless a newer item of the job is waiting.             *)
(*                                                                         *)
(* Every section under _state_write_lock runs without an await and is one  *)
(* step.  That a full batch replaces a sleeping flush by one without delay *)
(* changes when it runs, not whether, and has no state here.               *)
(***************************************************************************)
EXTENDS Integers, Sequences, FiniteSets

CONSTANTS
  Jobs,
  None,
  MaxCount,     \* bound: the counter that stands for all monotonic counters
  BatchSize,    \* SSE_REDIS_STATE_BATCH_SIZE
  RetryLimit,   \* SSE_REDIS_STATE_WRITE_RETRY_LIMIT
  MaxFails      \* bound: Redis calls that fail or time out

\* A state of a job.  recount and round are history: how often, before it, the memory
\* of the job let its counter and its status go back (see RedisState).
States == [count : 0..MaxCount, terminal : BOOLEAN, recount : Nat, round : Nat]
Items == [job : Jobs, msg : States, retry : 0..RetryLimit]

BatchAssumption ==
  /\ None \notin States
  /\ MaxCount \in Nat
  /\ BatchSize \in Nat \ {0}
  /\ {RetryLimit, MaxFails} \subseteq Nat

VARIABLES
  pending,      \* _state_write_pending: the items in order of insertion
  flushing,     \* _state_write_flush_task is set
  writing,      \* flushes past their cut: their batch, and whether more was left
  hash,         \* the state hashes in Redis
  fails,        \* Redis calls that failed
  disturbed     \* history: jobs whose hash had a failed write or two at one time

batchVars == <<pending, flushing, writing>>

BatchTypeOK ==
  /\ pending \in Seq(Items)
  /\ flushing \in BOOLEAN
  /\ writing \in Seq([batch : Seq(Items), more : BOOLEAN])
  /\ hash \in [Jobs -> States \cup {None}]
  /\ fails \in 0..MaxFails
  /\ disturbed \subseteq Jobs

BatchInit ==
  /\ pending = <<>>
  /\ flushing = FALSE
  /\ writing = <<>>
  /\ hash = [j \in Jobs |-> None]
  /\ fails = 0
  /\ disturbed = {}

JobsOf(items) == {items[i].job : i \in DOMAIN items}
BeingWritten == UNION {JobsOf(writing[i].batch) : i \in DOMAIN writing}

\* A Redis call that returns, or raises or runs into its timeout.
RedisCall(ok) ==
  /\ ok \/ fails < MaxFails
  /\ fails' = IF ok THEN fails ELSE fails + 1

\* _enqueue_state_write: the item of a waiting job is replaced in its place.
EnqueueStateWrite(j, m) ==
  LET item == [job |-> j, msg |-> m, retry |-> 0] IN
  /\ pending' = IF j \in JobsOf(pending)
                THEN [i \in DOMAIN pending |-> IF pending[i].job = j THEN item ELSE pending[i]]
                ELSE Append(pending, item)
  /\ flushing' = TRUE
  /\ UNCHANGED writing

-----------------------------------------------------------------------------
(* _flush_state_write_batch *)

\* The delay is over: the flush takes its batch and is the flush task no more.
FlushCut ==
  LET n == IF Len(pending) < BatchSize THEN Len(pending) ELSE BatchSize
      batch == SubSeq(pending, 1, n)
  IN
  /\ flushing
  /\ flushing' = FALSE
  /\ pending' = SubSeq(pending, n + 1, Len(pending))
  /\ writing' = Append(writing, [batch |-> batch, more |-> n < Len(pending)])
  /\ disturbed' = disturbed \cup (JobsOf(batch) \cap BeingWritten)
  /\ UNCHANGED <<hash, fails>>

\* What the hashes are once the pipeline of a batch took effect.
Stored(batch) ==
  [j \in Jobs |-> IF j \in JobsOf(batch)
                  THEN batch[CHOOSE i \in DOMAIN batch : batch[i].job = j].msg
                  ELSE hash[j]]

\* The items of a failed batch that may be tried again, in their order.
Revived(batch) ==
  LET again == {i \in DOMAIN batch : /\ batch[i].retry < RetryLimit
                                     /\ batch[i].job \notin JobsOf(pending)}
      Rank(i) == Cardinality({k \in again : k <= i})
  IN [n \in 1..Cardinality(again) |->
        [batch[CHOOSE i \in again : Rank(i) = n] EXCEPT !.retry = @ + 1]]

Others(i) == SubSeq(writing, 1, i - 1) \o SubSeq(writing, i + 1, Len(writing))

\* Faulty variant: what the cut left behind is not looked after.
FlushWrittenForgets(i) ==
  /\ i \in DOMAIN writing
  /\ hash' = Stored(writing[i].batch)
  /\ writing' = Others(i)
  /\ UNCHANGED <<pending, flushing, fails, disturbed>>

\* The pipeline succeeded; what the cut left behind gets a flush.
FlushWritten(i) ==
  /\ i \in DOMAIN writing
  /\ hash' = Stored(writing[i].batch)
  /\ writing' = Others(i)
  /\ flushing' = (flushing \/ (writing[i].more /\ pending # <<>>))
  /\ UNCHANGED <<pending, fails, disturbed>>

\* It raised or timed out, having taken effect or not: the items are queued
\* again, behind what waits, or dropped.
FlushFailed(i, applied) ==
  LET batch == writing[i].batch IN
  /\ i \in DOMAIN writing
  /\ RedisCall(FALSE)
  /\ hash' = IF applied THEN Stored(batch) ELSE hash
  /\ writing' = Others(i)
  /\ pending' = pending \o Revived(batch)
  /\ flushing' = (flushing \/ Revived(batch) # <<>> \/ (writing[i].more /\ pending' # <<>>))
  /\ disturbed' = disturbed \cup JobsOf(batch)

-----------------------------------------------------------------------------
(* Properties *)

\* A state that waits in the batch is never stranded: a flush is scheduled, or
\* one that is writing will look again, after every order of enqueueing, cuts,
\* failures and re-queueing.
NoStrandedState ==
  pending # <<>> => flushing \/ \E i \in DOMAIN writing : writing[i].more

=============================================================================
