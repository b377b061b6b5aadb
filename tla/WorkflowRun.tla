----------------------------- MODULE WorkflowRun -----------------------------
(***************************************************************************)
(* How a crawl is started once: the dispatcher's check                     *)
(* (backend/shared/crawl_dispatcher.py), the duplicate lock in Redis at    *)
(* the head of run_workflow_task (backend/shared/workflow_runner.py), the  *)
(* slot of the process (backend/shared/crawler_state.py), and the release  *)
(* of both at the end, after a cancellation or a restart.                  *)
(*                                                                         *)
(* The runs of the model have one fingerprint, so they compete for one     *)
(* main key.  A run of another job than the holder's takes a key of its    *)
(* job instead, unless CRAWL_DUPLICATE_LOCK_BLOCK_DIFFERENT_JOB_IDS is     *)
(* set; only then may the owner of the main key be found stale.  Every     *)
(* Redis call is a step of its own.                                        *)
(***************************************************************************)
EXTENDS Integers, FiniteSets

CONSTANTS
  Runs,            \* dispatches of a job
  Jobs,
  JobOf,
  Main,            \* the key of the fingerprint; a job names its own key
  BlockModes,      \* values of CRAWL_DUPLICATE_LOCK_BLOCK_DIFFERENT_JOB_IDS
  SlotLimit,       \* get_workflow_slot_limit
  MaxExpired,      \* bound: keys whose TTL runs out
  MaxFails,        \* bound: Redis calls that fail
  MaxCancels,      \* bound: tasks that are cancelled
  None

WorkflowRunAssumption ==
  /\ JobOf \in [Runs -> Jobs]
  /\ Main \notin Jobs /\ None \notin Jobs \cup Runs \cup {Main}
  /\ BlockModes \subseteq BOOLEAN
  /\ SlotLimit \in Nat \ {0}
  /\ {MaxExpired, MaxFails, MaxCancels} \subseteq Nat

Keys == Jobs \cup {Main}

VARIABLES
  blockDifferent,  \* the setting, read at the start
  pc,         \* where a run is
  key,        \* its distributed_lock_key
  acquired,   \* its distributed_lock_acquired
  existing,   \* the owner it read
  lock,       \* the keys in Redis: the job that holds it
  tasks,      \* crawler_state.workflow_tasks: the run registered for a job
  admitted,   \* admitted_workflow_jobs
  faults,     \* TTLs that ran out, calls that failed, tasks cancelled
  robbed,     \* history: runs whose key was removed while they relied on it
  stray,      \* history: those that had already looked at it in order to delete it
  leftKeys,   \* history: keys nobody will give back
  leftSlots   \* history: slots nobody will give back

runVars == <<blockDifferent, pc, key, acquired, existing>>
history == <<robbed, stray, leftKeys, leftSlots>>
vars == <<runVars, lock, tasks, admitted, faults, history>>

Locking == {"set", "get", "setjob", "inspect", "recheck", "clear", "reset"}
Admitted == {"starting", "running", "finally"}
Releasing == {"unlockget", "unlockdel"}

TypeOK ==
  /\ blockDifferent \in BlockModes
  /\ pc \in [Runs -> {"idle", "assembling", "slot", "done"} \cup Locking \cup Admitted
                     \cup Releasing]
  /\ key \in [Runs -> Keys]
  /\ acquired \in [Runs -> BOOLEAN]
  /\ existing \in [Runs -> Jobs \cup {None}]
  /\ lock \in [Keys -> Jobs \cup {None}]
  /\ tasks \in [Jobs -> Runs \cup {None}]
  /\ admitted \subseteq Jobs
  /\ faults \in [expired : 0..MaxExpired, failed : 0..MaxFails, cancelled : 0..MaxCancels]
  /\ {robbed, stray} \subseteq SUBSET Runs
  /\ leftKeys \subseteq Keys /\ leftSlots \subseteq Jobs

Init ==
  /\ blockDifferent \in BlockModes
  /\ pc = [r \in Runs |-> "idle"]
  /\ key = [r \in Runs |-> Main]
  /\ acquired = [r \in Runs |-> FALSE]
  /\ existing = [r \in Runs |-> None]
  /\ lock = [k \in Keys |-> None]
  /\ tasks = [j \in Jobs |-> None]
  /\ admitted = {}
  /\ faults = [expired |-> 0, failed |-> 0, cancelled |-> 0]
  /\ robbed = {} /\ stray = {}
  /\ leftKeys = {} /\ leftSlots = {}

Go(r, to) == pc' = [pc EXCEPT ![r] = to]

\* Runs that rely on having acquired k.
Holders(k) == {r \in Runs : acquired[r] /\ key[r] = k /\ pc[r] # "done"}
AtDelete(k) == {r \in Holders(k) : pc[r] = "unlockdel"}

\* The key k is gone, and not by the hand of its holders.
Rob(k, but) ==
  /\ robbed' = robbed \cup (Holders(k) \ but)
  /\ stray' = stray \cup (AtDelete(k) \ but)

\* The task of a run ends; its callback drops whatever is registered for the job.
End(r) ==
  /\ Go(r, "done")
  /\ tasks' = [tasks EXCEPT ![JobOf[r]] = None]

-----------------------------------------------------------------------------
(* dispatch_and_schedule_workflow *)

\* No task of the job is active: the dispatcher goes on to assemble the workflow.
Dispatch(r) ==
  /\ pc[r] = "idle"
  /\ tasks[JobOf[r]] = None
  /\ Go(r, "assembling")
  /\ UNCHANGED <<blockDifferent, key, acquired, existing, lock, tasks, admitted, faults, history>>

\* Some awaits later it creates the task.
Schedule(r) ==
  /\ pc[r] = "assembling"
  /\ Go(r, "set")
  /\ tasks' = [tasks EXCEPT ![JobOf[r]] = r]
  /\ UNCHANGED <<blockDifferent, key, acquired, existing, lock, admitted, faults, history>>

-----------------------------------------------------------------------------
(* run_workflow_task: the duplicate lock *)

\* SET NX of k by r: to the slot if it was free, else on to `held`.
SetNX(r, k, held) ==
  IF lock[k] = None
  THEN /\ lock' = [lock EXCEPT ![k] = JobOf[r]]
       /\ key' = [key EXCEPT ![r] = k]
       /\ acquired' = [acquired EXCEPT ![r] = TRUE]
       /\ leftKeys' = leftKeys \ {k}
       /\ Go(r, "slot")
       /\ UNCHANGED tasks
  ELSE /\ key' = [key EXCEPT ![r] = k]
       /\ IF held = "done" THEN End(r) ELSE Go(r, held) /\ UNCHANGED tasks
       /\ UNCHANGED <<lock, acquired, leftKeys>>

SetMain(r) ==
  /\ pc[r] = "set"
  /\ SetNX(r, Main, "get")
  /\ UNCHANGED <<blockDifferent, existing, admitted, faults, robbed, stray, leftSlots>>

GetOwner(r) ==
  LET owner == lock[Main] IN
  /\ pc[r] = "get"
  /\ existing' = [existing EXCEPT ![r] = owner]
  /\ Go(r, IF owner \notin {None, JobOf[r]} /\ ~blockDifferent THEN "setjob" ELSE "inspect")
  /\ UNCHANGED <<blockDifferent, key, acquired, lock, tasks, admitted, faults, history>>

\* Another job crawls the same: only a second run of this job is a duplicate.
SetJob(r) ==
  /\ pc[r] = "setjob"
  /\ SetNX(r, JobOf[r], "done")
  /\ UNCHANGED <<blockDifferent, existing, admitted, faults, robbed, stray, leftSlots>>

\* _local_workflow_owner_snapshot
LocallyActive(j) == tasks[j] # None \/ j \in admitted

\* _inspect_duplicate_lock_owner: by its state, heartbeat and age an owner without
\* a task here may be taken for stale; else r is a duplicate.
Inspect(r, stale) ==
  /\ pc[r] = "inspect"
  /\ stale => existing[r] # None /\ ~LocallyActive(existing[r])
  /\ IF stale THEN Go(r, "recheck") /\ UNCHANGED tasks ELSE End(r)
  /\ UNCHANGED <<blockDifferent, key, acquired, existing, lock, admitted, faults, history>>

Recheck(r) ==
  /\ pc[r] = "recheck"
  /\ IF lock[Main] = existing[r] THEN Go(r, "clear") /\ UNCHANGED tasks ELSE End(r)
  /\ UNCHANGED <<blockDifferent, key, acquired, existing, lock, admitted, faults, history>>

Clear(r) ==
  /\ pc[r] = "clear"
  /\ lock' = [lock EXCEPT ![Main] = None]
  /\ Rob(Main, {})
  /\ Go(r, "reset")
  /\ UNCHANGED <<blockDifferent, key, acquired, existing, tasks, admitted, faults, leftKeys, leftSlots>>

Reset(r) ==
  /\ pc[r] = "reset"
  /\ SetNX(r, Main, "done")
  /\ UNCHANGED <<blockDifferent, existing, admitted, faults, robbed, stray, leftSlots>>

Fail == faults.failed < MaxFails /\ faults' = [faults EXCEPT !.failed = @ + 1]

\* A Redis call of the lock check raises, having taken effect or not: the run goes on
\* without a lock, or, once it was about to replace a stale one, ends as a duplicate.
LockFails(r, applied) ==
  LET k == IF pc[r] = "setjob" THEN JobOf[r] ELSE Main IN
  /\ pc[r] \in Locking \ {"inspect"}
  /\ Fail
  /\ IF pc[r] \in {"recheck", "clear", "reset"} THEN End(r) ELSE Go(r, "slot") /\ UNCHANGED tasks
  /\ \/ ~applied /\ UNCHANGED <<lock, robbed, stray, leftKeys>>
     \/ /\ applied /\ pc[r] \in {"set", "setjob", "reset"} /\ lock[k] = None
        /\ lock' = [lock EXCEPT ![k] = JobOf[r]]
        /\ leftKeys' = leftKeys \cup {k}
        /\ UNCHANGED <<robbed, stray>>
     \/ /\ applied /\ pc[r] = "clear"
        /\ lock' = [lock EXCEPT ![Main] = None]
        /\ Rob(Main, {})
        /\ UNCHANGED leftKeys
  /\ UNCHANGED <<blockDifferent, key, acquired, existing, admitted, leftSlots>>

-----------------------------------------------------------------------------
(* The slot, the run and its end *)

\* acquire_workflow_slot: granted to a job that has one, or if one is free.
AcquireSlot(r) ==
  /\ pc[r] = "slot"
  /\ JobOf[r] \in admitted \/ Cardinality(admitted) < SlotLimit
  /\ admitted' = admitted \cup {JobOf[r]}
  /\ Go(r, "starting")
  /\ UNCHANGED <<blockDifferent, key, acquired, existing, lock, tasks, faults, history>>

\* The stop of the workflow was requested: no slot, and the lock is given back.
SlotRefused(r) ==
  /\ pc[r] = "slot"
  /\ IF acquired[r] THEN Go(r, "unlockget") /\ UNCHANGED tasks ELSE End(r)
  /\ UNCHANGED <<blockDifferent, key, acquired, existing, lock, admitted, faults, history>>

Start(r) ==
  /\ pc[r] = "starting"
  /\ Go(r, "running")
  /\ UNCHANGED <<blockDifferent, key, acquired, existing, lock, tasks, admitted, faults, history>>

Finish(r) ==
  /\ pc[r] = "running"
  /\ Go(r, "finally")
  /\ UNCHANGED <<blockDifferent, key, acquired, existing, lock, tasks, admitted, faults, history>>

\* Faulty variant: only a run with a lock gives its slot back.
ReleaseSlotOfLocked(r) ==
  /\ pc[r] = "finally"
  /\ IF acquired[r] THEN Go(r, "unlockget") /\ UNCHANGED tasks ELSE End(r)
  /\ admitted' = IF acquired[r] THEN admitted \ {JobOf[r]} ELSE admitted
  /\ UNCHANGED <<blockDifferent, key, acquired, existing, lock, faults, history>>

ReleaseSlot(r) ==
  /\ pc[r] = "finally"
  /\ admitted' = admitted \ {JobOf[r]}
  /\ IF acquired[r] THEN Go(r, "unlockget") /\ UNCHANGED tasks ELSE End(r)
  /\ UNCHANGED <<blockDifferent, key, acquired, existing, lock, faults, history>>

\* Faulty variant: the lock is given back, whoever it belongs to by now.
UnlockGetUnchecked(r) ==
  /\ pc[r] = "unlockget"
  /\ Go(r, "unlockdel")
  /\ UNCHANGED <<blockDifferent, key, acquired, existing, lock, tasks, admitted, faults, history>>

\* The lock is given back if it still carries the job.
UnlockGet(r) ==
  /\ pc[r] = "unlockget"
  /\ IF lock[key[r]] = JobOf[r] THEN Go(r, "unlockdel") /\ UNCHANGED tasks ELSE End(r)
  /\ UNCHANGED <<blockDifferent, key, acquired, existing, lock, admitted, faults, history>>

UnlockDelete(r) ==
  /\ pc[r] = "unlockdel"
  /\ lock' = [lock EXCEPT ![key[r]] = None]
  /\ Rob(key[r], {r} \cup IF r \in stray THEN {} ELSE {x \in Runs : JobOf[x] # JobOf[r]})
  /\ End(r)
  /\ UNCHANGED <<blockDifferent, key, acquired, existing, admitted, faults, leftKeys, leftSlots>>

UnlockFails(r) ==
  /\ pc[r] \in Releasing
  /\ Fail
  /\ End(r)
  /\ leftKeys' = leftKeys \cup {key[r]}
  /\ UNCHANGED <<blockDifferent, key, acquired, existing, lock, admitted, robbed, stray, leftSlots>>

-----------------------------------------------------------------------------
(* Cancellation and time *)

\* The task is cancelled.  Inside the main try its finally runs; before it, the lock
\* and the slot that the run has are never given back, nor what is left of a finally.
Cancel(r) ==
  /\ pc[r] \in Locking \cup Releasing \cup Admitted \cup {"slot"}
  /\ faults.cancelled < MaxCancels
  /\ faults' = [faults EXCEPT !.cancelled = @ + 1]
  /\ IF pc[r] = "running"
     THEN Go(r, "finally") /\ UNCHANGED <<tasks, leftKeys, leftSlots>>
     ELSE /\ End(r)
          /\ leftKeys' = IF acquired[r] THEN leftKeys \cup {key[r]} ELSE leftKeys
          /\ leftSlots' = IF pc[r] \in Admitted THEN leftSlots \cup {JobOf[r]} ELSE leftSlots
  /\ UNCHANGED <<blockDifferent, key, acquired, existing, lock, admitted, robbed, stray>>

Expire(k) ==
  /\ lock[k] # None
  /\ faults.expired < MaxExpired
  /\ faults' = [faults EXCEPT !.expired = @ + 1]
  /\ lock' = [lock EXCEPT ![k] = None]
  /\ Rob(k, {})
  /\ UNCHANGED <<runVars, tasks, admitted, leftKeys, leftSlots>>

-----------------------------------------------------------------------------

Lock(r) ==
  \/ SetMain(r) \/ GetOwner(r) \/ SetJob(r)
  \/ \E stale \in BOOLEAN : Inspect(r, stale)
  \/ Recheck(r) \/ Clear(r) \/ Reset(r)
  \/ \E applied \in BOOLEAN : LockFails(r, applied)

Run(r) == AcquireSlot(r) \/ SlotRefused(r) \/ Start(r) \/ Finish(r) \/ ReleaseSlot(r)
Unlock(r) == UnlockGet(r) \/ UnlockDelete(r) \/ UnlockFails(r)

Next ==
  \/ \E r \in Runs : Dispatch(r) \/ Schedule(r) \/ Lock(r) \/ Run(r) \/ Unlock(r) \/ Cancel(r)
  \/ \E k \in Keys : Expire(k)

Spec == Init /\ [][Next]_vars

-----------------------------------------------------------------------------
(* Properties *)

\* The keys in Redis and the runs agree: a key has one holder and carries its job,
\* unless it was removed under a holder; and a key that is set has a holder that
\* will give it back, unless that one was cancelled or a call failed.
LocksMatchRuns ==
  \A k \in Keys :
    /\ \A r \in Holders(k) \ robbed :
         lock[k] = JobOf[r] /\ Holders(k) \ robbed = {r}
    /\ lock[k] # None /\ k \notin leftKeys => Holders(k) # {}

\* A slot that is taken belongs to a run that will give it back, unless that one
\* was cancelled before or in the middle of its finally.
SlotsBacked ==
  \A j \in admitted \ leftSlots : \E r \in Runs : JobOf[r] = j /\ pc[r] \in Admitted

\* docs/codebase_optimization_structure.md on the dispatcher: the same job does not
\* run twice at a time.
SameJobOnce ==
  \A r, x \in Runs :
    r # x /\ JobOf[r] = JobOf[x] => ~(pc[r] = "running" /\ pc[x] = "running")

=============================================================================
