------------------------------ MODULE DbWrites ------------------------------
(***************************************************************************)
(* The DB write queue (backend/shared/db_write_queue.py) and the updates   *)
(* of a job's crawling-log row that go through it (update_crawling_log_-   *)
(* counters of db/crawl_db_manager.py).                                    *)
(*                                                                         *)
(* Callers put their write in one of two bounded queues and wait a limited *)
(* time; a few workers per queue execute the writes.  A caller that gives  *)
(* up does not take its write back, and takes it for written.  Writes of   *)
(* one job therefore run beside and after each other in any order, and the *)
(* guards in the UPDATE statement keep the row from going back.            *)
(*                                                                         *)
(* A write runs inside its worker to the end: the nested run_db_write of   *)
(* mysql_execute_query finds the ContextVar set and does not queue again.  *)
(* Its statement may run more than once there: the pool repeats it after a *)
(* timeout or a lost connection, whose statement may or may not have taken *)
(* effect, and other writes run in between.  A commit that fails is passed *)
(* over, so a success may have had no effect either.                       *)
(***************************************************************************)
EXTENDS Integers, Sequences

CONSTANTS
  Writes,       \* calls of update_crawling_log_counters for one row
  Inputs,       \* what each of them may write
  Workers,
  Lane,         \* the queue a worker serves: default or log
  Capacity,     \* DB_WRITE_QUEUE_MAXSIZE
  MaxCount,     \* bound: the counter that stands for collection, save and study
  StatementTries,  \* DB_MAX_RETRY_ATTEMPTS: how often a statement is tried
  MaxFails,     \* bound: tries that are repeated, executions that raise, workers that die
  None

Lanes == {"default", "log"}
\* "none": a counter update without a status.
Requests == [lane : Lanes, count : 0..MaxCount, status : {"none", "running", "terminal"}]

DbWritesAssumption ==
  /\ Inputs \in [Writes -> SUBSET Requests]
  /\ Lane \in [Workers -> Lanes]
  /\ {Capacity, StatementTries} \subseteq Nat \ {0}
  /\ {MaxCount, MaxFails} \subseteq Nat
  /\ None \notin Writes \cup Requests
  /\ "dead" \notin Writes /\ "dead" # None

VARIABLES
  request,      \* what a call writes
  caller,       \* where the call is: new, putting, waiting, or its answer
  queue,        \* _queue and _log_queue
  running,      \* the write a worker executes; a worker may be dead
  repeats,      \* how often the pool has tried the statement of a worker again
  outcome,      \* the future of a write: open, done, or how its execution failed
  effects,      \* history: how often the statement took effect
  row,          \* the crawling-log row
  fails

vars == <<request, caller, queue, running, repeats, outcome, effects, row, fails>>

TypeOK ==
  /\ request \in [Writes -> Requests \cup {None}]
  /\ caller \in [Writes -> {"new", "putting", "waiting", "ok", "error", "late"}]
  /\ queue \in [Lanes -> Seq(Writes)]
  /\ running \in [Workers -> Writes \cup {None, "dead"}]
  /\ repeats \in [Workers -> 0..StatementTries - 1]
  /\ outcome \in [Writes -> {"open", "done", "failed", "timedOut"}]
  /\ effects \in [Writes -> 0..StatementTries]
  /\ row \in [count : 0..MaxCount, terminal : BOOLEAN]
  /\ fails \in 0..MaxFails

Init ==
  /\ request = [w \in Writes |-> None]
  /\ caller = [w \in Writes |-> "new"]
  /\ queue = [l \in Lanes |-> <<>>]
  /\ running = [k \in Workers |-> None]
  /\ repeats = [k \in Workers |-> 0]
  /\ outcome = [w \in Writes |-> "open"]
  /\ effects = [w \in Writes |-> 0]
  /\ row = [count |-> 0, terminal |-> FALSE]
  /\ fails = 0

\* _ensure_queue: dead workers of the lane are replaced.
Call(w, in) ==
  /\ caller[w] = "new"
  /\ request' = [request EXCEPT ![w] = in]
  /\ caller' = [caller EXCEPT ![w] = "putting"]
  /\ running' = [k \in Workers |->
                   IF Lane[k] = in.lane /\ running[k] = "dead" THEN None ELSE running[k]]
  /\ UNCHANGED <<queue, repeats, outcome, effects, row, fails>>

\* There is room in the queue.
Put(w) ==
  LET l == request[w].lane IN
  /\ caller[w] = "putting"
  /\ Len(queue[l]) < Capacity
  /\ queue' = [queue EXCEPT ![l] = Append(@, w)]
  /\ caller' = [caller EXCEPT ![w] = "waiting"]
  /\ UNCHANGED <<request, running, repeats, outcome, effects, row, fails>>

Take(k) ==
  /\ running[k] = None
  /\ queue[Lane[k]] # <<>>
  /\ running' = [running EXCEPT ![k] = Head(queue[Lane[k]])]
  /\ queue' = [queue EXCEPT ![Lane[k]] = Tail(@)]
  /\ UNCHANGED <<request, caller, repeats, outcome, effects, row, fails>>

\* Faulty variant: a running status is written whatever the row says.
UpdatedUnguarded(in) ==
  [count |-> IF row.count < in.count THEN in.count ELSE row.count,
   terminal |-> IF in.status = "none" THEN row.terminal ELSE in.status = "terminal"]

\* The UPDATE: GREATEST for the counters; a running status, and the counters that
\* come with it, only where the row is not terminal.
Updated(in) ==
  IF in.status = "running" /\ row.terminal THEN row
  ELSE [count |-> IF row.count < in.count THEN in.count ELSE row.count,
        terminal |-> row.terminal \/ in.status = "terminal"]

\* What one run of the statement does: it is committed, or it is not (it never ran,
\* was rolled back, or its commit failed).
Effect(k, applied) ==
  IF applied
  THEN /\ row' = Updated(request[running[k]])
       /\ effects' = [effects EXCEPT ![running[k]] = @ + 1]
  ELSE UNCHANGED <<row, effects>>

\* No connection, a timeout or a lost connection: the pool tries again, and does
\* not know whether the statement took effect.
TryAgain(k, applied) ==
  /\ running[k] \in Writes
  /\ repeats[k] + 1 < StatementTries
  /\ repeats' = [repeats EXCEPT ![k] = @ + 1]
  /\ fails < MaxFails
  /\ fails' = fails + 1
  /\ Effect(k, applied)
  /\ UNCHANGED <<request, caller, queue, running, outcome>>

\* The execution of the worker's write has ended; the worker is free again or dead.
Ends(k, to) ==
  /\ running[k] \in Writes
  /\ running' = [running EXCEPT ![k] = to]
  /\ repeats' = [repeats EXCEPT ![k] = 0]
  /\ UNCHANGED <<request, caller, queue>>

\* It succeeds, also when the commit has failed.
Executed(k, applied) ==
  /\ Ends(k, None)
  /\ Effect(k, applied)
  /\ outcome' = [outcome EXCEPT ![running[k]] = "done"]
  /\ UNCHANGED fails

\* It raises, before or after it took effect.
ExecuteFails(k, applied) ==
  /\ Ends(k, None)
  /\ fails < MaxFails
  /\ fails' = fails + 1
  /\ Effect(k, applied)
  /\ outcome' = [outcome EXCEPT ![running[k]] = "failed"]

\* The last try times out too.
TriesRunOut(k, applied) ==
  /\ Ends(k, None)
  /\ repeats[k] + 1 = StatementTries
  /\ Effect(k, applied)
  /\ outcome' = [outcome EXCEPT ![running[k]] = "timedOut"]
  /\ UNCHANGED fails

\* A CancelledError out of the statement is no Exception: the worker ends, and the
\* future of the write stays open, whether the statement took effect or not.
WorkerDies(k, applied) ==
  /\ Ends(k, "dead")
  /\ fails < MaxFails
  /\ fails' = fails + 1
  /\ Effect(k, applied)
  /\ UNCHANGED outcome

\* The future is resolved, and update_crawling_log_counters returns.  The
\* TimeoutError of a statement is taken for the one of the wait.
Return(w) ==
  /\ caller[w] = "waiting"
  /\ outcome[w] # "open"
  /\ caller' = [caller EXCEPT ![w] = CASE outcome[w] = "done" -> "ok"
                                      [] outcome[w] = "failed" -> "error"
                                      [] outcome[w] = "timedOut" -> "late"]
  /\ UNCHANGED <<request, queue, running, repeats, outcome, effects, row, fails>>

\* Faulty variant: the write is put into the queue again.
GiveUpAndRepeat(w) ==
  /\ caller[w] = "waiting"
  /\ outcome[w] = "open"
  /\ caller' = [caller EXCEPT ![w] = "late"]
  /\ queue' = [queue EXCEPT ![request[w].lane] = Append(@, w)]
  /\ UNCHANGED <<request, running, repeats, outcome, effects, row, fails>>

\* wait_for gives up on the shielded future: "timeout_deferred".
GiveUp(w) ==
  /\ caller[w] = "waiting"
  /\ outcome[w] = "open"
  /\ caller' = [caller EXCEPT ![w] = "late"]
  /\ UNCHANGED <<request, queue, running, repeats, outcome, effects, row, fails>>

Next ==
  \/ \E w \in Writes : \E in \in Inputs[w] : Call(w, in)
  \/ \E w \in Writes : Put(w) \/ Return(w) \/ GiveUp(w)
  \/ \E k \in Workers : Take(k)
  \/ \E k \in Workers, applied \in BOOLEAN :
       \/ TryAgain(k, applied) \/ TriesRunOut(k, applied)
       \/ Executed(k, applied) \/ ExecuteFails(k, applied) \/ WorkerDies(k, applied)

Spec == Init /\ [][Next]_vars

-----------------------------------------------------------------------------
(* Properties *)

\* In whatever order late, repeated and concurrent statements reach the database,
\* the row never goes back: no counter decreases, and a terminal status stays.
RowMovesOn ==
  [][row'.count >= row.count /\ (row.terminal => row'.terminal)]_vars

\* The queue implements WriteOnce: with timeouts, repeated statements, failures and
\* workers that die, a write has one execution, its statement takes effect at most
\* StatementTries times and never after the execution has ended, and an answer
\* tells how the execution ended.
Once ==
  INSTANCE WriteOnce WITH
    Tries <- StatementTries,
    stage <- [w \in Writes |->
                IF caller[w] = "new" THEN "new"
                ELSE IF outcome[w] = "open" THEN "asked" ELSE outcome[w]],
    answer <- [w \in Writes |->
                 IF caller[w] \in {"ok", "error", "late"} THEN caller[w] ELSE "none"]

ExecutedOnce == Once!Spec

=============================================================================
