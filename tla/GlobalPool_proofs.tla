------------------------- MODULE GlobalPool_proofs -------------------------
(***************************************************************************)
(* Proofs about GlobalPool, for any number of crawls and browser permits.  *)
(* PoolInv is the inductive invariant: who holds _start_lock, what is up   *)
(* in each phase of a start and of a stop, and whose permit is whose.      *)
(***************************************************************************)
EXTENDS GlobalPool, TLAPS

\* _start_lock is held by the one crawl that starts the pool, or by the grace task
\* inside stop().
LockHeld ==
  /\ \A j \in Jobs : lock = j <=> pc[j] \in {"permit", "launch"}
  /\ lock = Grace <=> grace \in StopPCs

\* A crawl is registered from register_job until it unregisters, if it ever does.
RegisteredCrawls == \A j \in Jobs : j \in jobs <=> pc[j] # "out"

\* What is up: a pool that is not started has no browser and no workers, nor has
\* one that a crawl is starting; workers live with the browser and the flush task.
WhatIsUp ==
  /\ ~started => ~browser /\ ~workers
  /\ \A j \in Jobs :
       pc[j] \in {"permit", "launch"} => started /\ ~browser /\ ~workers
  /\ workers => browser /\ flush = "on"
  /\ ready => workers
  /\ grace \in StopPCs => started /\ ~workers /\ flush # "on"
  /\ grace = "halting" => ~browser
  /\ \A j \in Jobs : pc[j] = "served" => workers

PoolInv ==
  TypeOK /\ LockHeld /\ RegisteredCrawls /\ WhatIsUp /\ PermitsBalanced

-----------------------------------------------------------------------------

\* A pool nobody uses satisfies the invariant.
LEMMA PoolInit == Init => PoolInv
  <1> SUFFICES ASSUME Init PROVE PoolInv
    OBVIOUS
  <1> USE ConstantsAssumption DEF Init
  <1>1. TypeOK
    <2>1. pc \in [Jobs -> JobPCs] /\ jobs \subseteq Jobs
      BY DEF JobPCs
    <2>2. permits \in 0..Permits /\ others \in 0..Permits
      BY SMT
    <2>3. grace \in GracePCs
      BY DEF GracePCs
    <2> QED
      BY <2>1, <2>2, <2>3 DEF TypeOK
  <1>2. LockHeld /\ RegisteredCrawls
    BY DEF LockHeld, RegisteredCrawls, StopPCs
  <1>3. WhatIsUp
    BY DEF WhatIsUp, StopPCs
  <1>4. PermitsBalanced
    BY DEF PermitsBalanced, Launching
  <1> QED
    BY <1>1, <1>2, <1>3, <1>4 DEF PoolInv

\* The steps of a crawl keep the invariant.
LEMMA CrawlStep ==
  ASSUME PoolInv, NEW j \in Jobs,
         \/ Register(j) \/ EnterStart(j) \/ Start(j) \/ EndReadyWait(j)
         \/ CancelStart(j) \/ Unregister(j) \/ FinishLocal(j)
  PROVE  PoolInv'
  <1> USE ConstantsAssumption DEF PoolInv, TypeOK, LockHeld, RegisteredCrawls, WhatIsUp,
        PermitsBalanced, Launching, JobPCs, GracePCs, StopPCs, browserVars, graceVars
  <1>1. CASE Register(j)
    BY <1>1 DEF Register, CancelGrace
  <1>2. CASE FindStarted(j)
    BY <1>2 DEF FindStarted
  <1>3. CASE BeginStart(j)
    BY <1>3 DEF BeginStart
  <1>4. CASE TakePermit(j)
    BY <1>4 DEF TakePermit
  <1>5. CASE Launched(j)
    BY <1>5 DEF Launched
  <1>6. CASE LaunchFailed(j)
    <2>0. permits' \in 0..Permits
      <3>1. acquired
        BY <1>6 DEF LaunchFailed
      <3> QED
        BY <1>6, <3>1 DEF LaunchFailed
    <2>1. TypeOK' /\ LockHeld' /\ RegisteredCrawls'
      BY <1>6, <2>0 DEF LaunchFailed
    <2>2. WhatIsUp'
      BY <1>6 DEF LaunchFailed
    <2>3. PermitsBalanced'
      <3>1. ~browser /\ acquired /\ \A i \in Jobs : i # j => pc[i] # "launch"
        BY <1>6 DEF LaunchFailed
      <3>2. permits' + others = Permits /\ acquired' = FALSE
        BY <1>6, <3>1 DEF LaunchFailed
      <3>3. ~browser' /\ ~Launching'
        BY <1>6, <3>1 DEF LaunchFailed
      <3> QED
        BY <1>6, <3>2, <3>3 DEF LaunchFailed
    <2> QED
      BY <2>1, <2>2, <2>3
  <1>7. CASE EndReadyWait(j)
    BY <1>7 DEF EndReadyWait
  <1>8. CASE Unregister(j)
    BY <1>8 DEF Unregister, ScheduleIdleShutdown
  <1>9. CASE FinishLocal(j)
    BY <1>9 DEF FinishLocal, ScheduleIdleShutdown
  <1>10. CASE CancelStart(j)
    <2>1. CASE pc[j] = "launch"
      <3>1. /\ acquired /\ ~browser /\ \A i \in Jobs : i # j => pc[i] # "launch"
            /\ playwright' \in BOOLEAN
            /\ permits' = permits + 1 /\ acquired' = FALSE /\ started' = FALSE
        BY <1>10, <2>1 DEF CancelStart
      <3>2. permits' \in 0..Permits /\ permits' + others = Permits
        BY <3>1
      <3>3. TypeOK' /\ LockHeld' /\ RegisteredCrawls'
        BY <1>10, <2>1, <3>1, <3>2 DEF CancelStart
      <3>4. WhatIsUp'
        BY <1>10, <2>1, <3>1 DEF CancelStart
      <3>5. ~browser' /\ ~Launching'
        BY <1>10, <2>1, <3>1 DEF CancelStart
      <3>6. PermitsBalanced'
        BY <1>10, <3>1, <3>2, <3>5 DEF CancelStart
      <3> QED
        BY <3>3, <3>4, <3>6
    <2>2. CASE pc[j] # "launch"
      <3>1. UNCHANGED <<playwright, permits, acquired, started>>
        BY <1>10, <2>2 DEF CancelStart
      <3>2. Launching' <=> Launching
        BY <1>10, <2>2 DEF CancelStart
      <3>3. TypeOK' /\ LockHeld' /\ RegisteredCrawls'
        BY <1>10, <2>2, <3>1 DEF CancelStart
      <3>4. WhatIsUp'
        BY <1>10, <2>2, <3>1 DEF CancelStart
      <3>5. PermitsBalanced'
        BY <1>10, <3>1, <3>2 DEF CancelStart
      <3> QED
        BY <3>3, <3>4, <3>5
    <2> QED
      BY <2>1, <2>2
  <1> QED
    BY <1>1, <1>2, <1>3, <1>4, <1>5, <1>6, <1>7, <1>8, <1>9, <1>10 DEF EnterStart, Start

\* So do those of the grace task, of the flush task and of other WorkerManagers.
LEMMA PoolStep ==
  ASSUME PoolInv, GraceStep \/ FlushEnds \/ OtherTakes \/ OtherReleases
  PROVE  PoolInv'
  <1> USE ConstantsAssumption DEF PoolInv, TypeOK, LockHeld, RegisteredCrawls, WhatIsUp,
        PermitsBalanced, Launching, JobPCs, GracePCs, StopPCs, jobVars, browserVars, graceVars
  <1>1. CASE GraceWakes
    BY <1>1 DEF GraceWakes
  <1>2. CASE BeginStop
    BY <1>2 DEF BeginStop
  <1>3. CASE FlushJoined
    BY <1>3 DEF FlushJoined
  <1>4. CASE BrowserClosed
    <2>0. permits' \in 0..Permits
      <3>1. CASE browser /\ acquired
        BY <1>4, <3>1 DEF BrowserClosed
      <3>2. CASE ~(browser /\ acquired)
        BY <1>4, <3>2 DEF BrowserClosed
      <3> QED
        BY <3>1, <3>2
    <2>1. TypeOK' /\ LockHeld' /\ RegisteredCrawls'
      <3>1. permits \in 0..Permits /\ (acquired' \in BOOLEAN)
        BY <1>4 DEF BrowserClosed
      <3>2. TypeOK'
        BY <1>4, <2>0, <3>1 DEF BrowserClosed
      <3> QED
        BY <1>4, <3>2 DEF BrowserClosed
    <2>2. WhatIsUp'
      BY <1>4 DEF BrowserClosed
    <2>3. PermitsBalanced'
      <3>1. ~Launching
        BY <1>4 DEF BrowserClosed
      <3>2. ~Launching'
        BY <1>4, <3>1 DEF BrowserClosed
      <3>3. CASE browser
        BY <1>4, <3>1, <3>2, <3>3 DEF BrowserClosed
      <3>4. CASE ~browser
        BY <1>4, <3>1, <3>2, <3>4 DEF BrowserClosed
      <3> QED
        BY <3>3, <3>4
    <2> QED
      BY <2>1, <2>2, <2>3
  <1>5. CASE Stopped
    <2>1. TypeOK' /\ LockHeld' /\ RegisteredCrawls'
      BY <1>5 DEF Stopped
    <2>2. WhatIsUp'
      BY <1>5 DEF Stopped
    <2>3. PermitsBalanced'
      BY <1>5 DEF Stopped
    <2> QED
      BY <2>1, <2>2, <2>3
  <1>6. CASE GraceCancelled
    BY <1>6 DEF GraceCancelled
  <1>7. CASE FlushEnds
    BY <1>7 DEF FlushEnds
  <1>8. CASE OtherTakes \/ OtherReleases
    BY <1>8 DEF OtherTakes, OtherReleases
  <1> QED
    BY <1>1, <1>2, <1>3, <1>4, <1>5, <1>6, <1>7, <1>8 DEF GraceStep

\* Every step of the pool, of a crawl or of their environment keeps the invariant.
LEMMA PoolInvStep == PoolInv /\ [Next]_vars => PoolInv'
  <1> SUFFICES ASSUME PoolInv, [Next]_vars PROVE PoolInv'
    OBVIOUS
  <1>1. CASE Next
    BY <1>1, CrawlStep, PoolStep DEF Next
  <1>2. CASE UNCHANGED vars
    BY <1>2 DEF PoolInv, TypeOK, LockHeld, RegisteredCrawls, WhatIsUp, PermitsBalanced,
      Launching, vars
  <1> QED
    BY <1>1, <1>2

\* The invariant holds in every reachable state of the pool.
THEOREM PoolInvHolds == Spec => []PoolInv
  BY PoolInit, PoolInvStep, PTL DEF Spec

-----------------------------------------------------------------------------
(* What follows from it *)

\* Every variable keeps its type; in particular BROWSER_LAUNCH_SEMAPHORE never
\* holds more permits than it was created with.
THEOREM PoolTypeCorrect == Spec => []TypeOK
  BY PoolInvHolds, PTL DEF PoolInv

\* The pool holds one launch permit exactly while it has or launches a browser,
\* after any sequence of failed launches, stops and interrupted stops.
THEOREM PermitsStayBalanced == Spec => []PermitsBalanced
  BY PoolInvHolds, PTL DEF PoolInv

\* A pending or running idle shutdown never takes the workers, the browser or the
\* flush task from a crawl that was told the pool serves it.
THEOREM ServedKeepsWorkers == Spec => []ServedHasWorkers
  <1>1. PoolInv => ServedHasWorkers
    BY DEF PoolInv, RegisteredCrawls, WhatIsUp, ServedHasWorkers
  <1> QED
    BY <1>1, PoolInvHolds, PTL

\* _ready_event is never set for a pool that is not fully up.
THEOREM ReadyIsUp == Spec => []ReadyMeansUp
  <1>1. PoolInv => ReadyMeansUp
    BY DEF PoolInv, WhatIsUp, ReadyMeansUp
  <1> QED
    BY <1>1, PoolInvHolds, PTL

\* As long as the grace task has not begun to stop the pool and has no cancellation
\* to receive, the pool has no jobs and is started: the checks _grace makes before
\* it calls stop() always pass, which is why BeginStop has no alternative.
GraceUndisturbed ==
  grace \in {"sleeping", "locking"} /\ ~cancelled => jobs = {} /\ started

THEOREM GraceFindsItIdle == Spec => []GraceUndisturbed
  <1>1. Init => GraceUndisturbed
    BY DEF Init, GraceUndisturbed
  <1>2. ASSUME PoolInv, GraceUndisturbed, [Next]_vars
        PROVE  GraceUndisturbed'
    <2> USE <1>2 DEF GraceUndisturbed
    <2>1. ASSUME NEW j \in Jobs, Register(j) PROVE GraceUndisturbed'
      BY <2>1 DEF Register, CancelGrace
    <2>2. ASSUME NEW j \in Jobs, EnterStart(j) \/ TakePermit(j) \/ Launched(j) \/ EndReadyWait(j)
          PROVE  GraceUndisturbed'
      BY <2>2 DEF EnterStart, FindStarted, BeginStart, TakePermit, Launched, EndReadyWait,
        graceVars
    <2>3. ASSUME NEW j \in Jobs, LaunchFailed(j) \/ CancelStart(j) PROVE GraceUndisturbed'
      BY <2>3 DEF LaunchFailed, CancelStart, graceVars, PoolInv, RegisteredCrawls
    <2>4. ASSUME NEW j \in Jobs, Unregister(j) \/ FinishLocal(j) PROVE GraceUndisturbed'
      BY <2>4 DEF Unregister, FinishLocal, ScheduleIdleShutdown
    <2>5. CASE OtherTakes \/ OtherReleases \/ FlushEnds
      BY <2>5 DEF OtherTakes, OtherReleases, FlushEnds, jobVars, graceVars
    <2>6. CASE GraceStep
      BY <2>6 DEF GraceStep, GraceWakes, BeginStop, FlushJoined, BrowserClosed, Stopped,
        GraceCancelled, jobVars
    <2>7. CASE UNCHANGED vars
      BY <2>7 DEF vars
    <2> QED
      BY <2>1, <2>2, <2>3, <2>4, <2>5, <2>6, <2>7 DEF Next, Start
  <1> QED
    BY <1>1, <1>2, PoolInvHolds, PTL DEF Spec

=============================================================================
