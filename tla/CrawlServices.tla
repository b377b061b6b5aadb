---------------------------- MODULE CrawlServices ----------------------------
(***************************************************************************)
(* The services that the stages of a crawl call: the scan queue, the state *)
(* batch of Redis, the DB write queue, the start and end of a run, claims  *)
(* on URLs, the browser of the pool and the stage counters.  They run in   *)
(* one process and one event loop but read and write no variable of each   *)
(* other, so what one of them can do does not depend on the steps of the   *)
(* others in between: a behaviour of this module exercises one of them,    *)
(* the focus, and every behaviour of each is among them.                   *)
(***************************************************************************)
EXTENDS Integers

CONSTANTS
  None,
  \* scan queue
  ScanItems, HighItems, ScanWorkers, LaneSize, HighRatio, MaxOrphans,
  \* state batch
  StateJobs, Publishes, Target, StateInputs, BatchSize, RetryLimit,
  \* DB write queue
  Writes, DbInputs, DbWorkers, Lane, DbCapacity, StatementTries,
  \* runs
  Jobs, Runs, JobOfRun, Main, BlockModes, SlotLimit, MaxCancels,
  \* claims
  Claimers, JobOfClaimer,
  \* browser
  Fallbacks, MaxBrowsers, Permits, Attempts, SyncAfterDownload, MaxCrashes,
  \* stage counters
  Urls, CounterKeys, MaxClears,
  \* bounds that the services share
  MaxCount, MaxFails, MaxExpired

VARIABLES
  focus,        \* the service that a behaviour exercises
  lane, streak, unfinished, put, scanPc, item, getter, got, orphans, dropped, done, passed,
  pending, flushing, writing, hash, stateFails, disturbed, sendPc, kind, msg,
  wantsMore, lastMeta, window, throttled, delayed, smooth, overtaken, behind,
  request, caller, queue, running, repeats, dbOutcome, effects, row, dbFails,
  blockDifferent, runPc, key, acquired, existing, lock, tasks, admitted, faults, robbed,
  stray, leftKeys, leftSlots,
  claimPc, keep, claim, recent, expired, claimFails,
  browser, launched, connected, useCount, retired, closing, relauncher, fallbackPc, purpose,
  replaces, lease, tries, permits, crashes,
  seen, selectedKeys, selected, savedKeys, saved, studiedKeys, outcome, studied, clears,
  twice

Scan == INSTANCE ScanQueue WITH
  Items <- ScanItems, Workers <- ScanWorkers, Capacity <- LaneSize, pc <- scanPc
State == INSTANCE RedisState WITH
  Jobs <- StateJobs, Requests <- Publishes, Inputs <- StateInputs, fails <- stateFails, pc <- sendPc
Db == INSTANCE DbWrites WITH
  Inputs <- DbInputs, Workers <- DbWorkers, Capacity <- DbCapacity, outcome <- dbOutcome,
  fails <- dbFails
Run == INSTANCE WorkflowRun WITH JobOf <- JobOfRun, pc <- runPc
Claim == INSTANCE UrlClaim WITH
  Workers <- Claimers, JobOf <- JobOfClaimer, pc <- claimPc, fails <- claimFails
Browser == INSTANCE BrowserUse WITH pc <- fallbackPc
Count == INSTANCE StageCounters WITH Keys <- CounterKeys

ASSUME ServicesAssumption ==
  /\ Scan!ConstantsAssumption /\ State!BatchAssumption /\ State!RedisStateAssumption
  /\ Db!DbWritesAssumption /\ Run!WorkflowRunAssumption /\ Claim!UrlClaimAssumption
  /\ Browser!BrowserUseAssumption /\ Count!StageCountersAssumption

scanVars ==
  <<lane, streak, unfinished, put, scanPc, item, getter, got, orphans, dropped, done, passed>>
stateVars ==
  <<pending, flushing, writing, hash, stateFails, disturbed, sendPc, kind, msg,
    wantsMore, lastMeta, window, throttled, delayed, smooth, overtaken, behind>>
dbVars == <<request, caller, queue, running, repeats, dbOutcome, effects, row, dbFails>>
runVars ==
  <<blockDifferent, runPc, key, acquired, existing, lock, tasks, admitted, faults, robbed,
    stray, leftKeys, leftSlots>>
claimVars == <<claimPc, keep, claim, recent, expired, claimFails>>
browserVars ==
  <<browser, launched, connected, useCount, retired, closing, relauncher, fallbackPc, purpose,
    replaces, lease, tries, permits, crashes>>
countVars ==
  <<seen, selectedKeys, selected, savedKeys, saved, studiedKeys, outcome, studied, clears,
    twice>>
vars == <<focus, scanVars, stateVars, dbVars, runVars, claimVars, browserVars, countVars>>

Init ==
  /\ focus \in {"scan", "state", "db", "run", "claim", "browser", "count"}
  /\ Scan!Init /\ State!Init /\ Db!Init /\ Run!Init /\ Claim!Init /\ Browser!Init /\ Count!Init
  /\ focus = "run" \/ blockDifferent = (CHOOSE b \in BlockModes : TRUE)

Next ==
  /\ UNCHANGED focus
  /\ \/ focus = "scan" /\ Scan!Next
     \/ focus # "scan" /\ UNCHANGED scanVars
  /\ \/ focus = "state" /\ State!Next
     \/ focus # "state" /\ UNCHANGED stateVars
  /\ \/ focus = "db" /\ Db!Next
     \/ focus # "db" /\ UNCHANGED dbVars
  /\ \/ focus = "run" /\ Run!Next
     \/ focus # "run" /\ UNCHANGED runVars
  /\ \/ focus = "claim" /\ Claim!Next
     \/ focus # "claim" /\ UNCHANGED claimVars
  /\ \/ focus = "browser" /\ Browser!Next
     \/ focus # "browser" /\ UNCHANGED browserVars
  /\ \/ focus = "count" /\ Count!Next
     \/ focus # "count" /\ UNCHANGED countVars

Spec == Init /\ [][Next]_vars

-----------------------------------------------------------------------------
(* Properties: those of the services, under their names. *)

\* Every service keeps its types.
TypeOK ==
  /\ focus = "scan" => Scan!TypeOK
  /\ focus = "state" => State!TypeOK
  /\ focus = "db" => Db!TypeOK
  /\ focus = "run" => Run!TypeOK
  /\ focus = "claim" => Claim!TypeOK
  /\ focus = "browser" => Browser!TypeOK
  /\ focus = "count" => Count!TypeOK

\* join returns only when nothing is queued or worked on.
JoinSound == Scan!JoinSound
\* No item of the scan queue is worked on twice.
OneWorkerPerItem == Scan!OneWorkerPerItem
\* A waiting item of the low lane is passed over a bounded number of times.
LowNotStarved == Scan!LowNotStarved
\* A state that waits in the batch has a flush that will write it.
NoStrandedState == State!NoStrandedState
\* A quiet job's hash is the last message of the job.
QuietIsLatest == State!QuietIsLatest
\* The hash goes back only where a message took the memory back, and no further.
HashMovesOn == State!HashMovesOn
\* A throttled request has a delayed publish that will send it.
ThrottledIsSent == State!ThrottledIsSent
\* The crawling-log row never goes back.
RowMovesOn == Db!RowMovesOn
\* A write is executed at most once, within its tries, and answers tell how.
ExecutedOnce == Db!ExecutedOnce
\* Keys in Redis and the runs that hold them agree.
LocksMatchRuns == Run!LocksMatchRuns
\* A slot that is taken belongs to a run that gives it back.
SlotsBacked == Run!SlotsBacked
\* Two workers are on one URL only as often as a claim ran out or a call failed.
OverlapsPaidFor == Claim!OverlapsPaidFor
\* Leases count right, and no browser is closed under one or forgotten.
BrowsersAccounted == Browser!BrowsersAccounted
\* The counters of the learning stage are what the outcomes add up to.
StudyExact == Count!StudyExact

=============================================================================
