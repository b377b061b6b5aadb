------------------------- MODULE CrawlServices_proofs -------------------------
(***************************************************************************)
(* The composite of the services keeps what is proved of each of them.  A  *)
(* service of CrawlServices (Claim, Db, ...) has the definitions of its    *)
(* proof module's instance (ClaimP, DbP, ...); a behaviour of the          *)
(* composite is therefore one of each service, and has its theorems.       *)
(* Claims, the stage counters, the scan queue and the state batch have no  *)
(* proof module of their own: what holds of them is proved here.           *)
(***************************************************************************)
EXTENDS CrawlServices, FunctionTheorems, SequenceTheorems, FiniteSetTheorems, TLAPS

DbP == INSTANCE DbWrites_proofs WITH
  Inputs <- DbInputs, Workers <- DbWorkers, Capacity <- DbCapacity, outcome <- dbOutcome,
  fails <- dbFails

RunP == INSTANCE WorkflowRun_proofs WITH
  JobOf <- JobOfRun, pc <- runPc

BrowserP == INSTANCE BrowserUse_proofs WITH
  pc <- fallbackPc

-----------------------------------------------------------------------------
(* Claims on URLs (core/crawler/dedup.py) *)

LEMMA ClaimFiniteSets ==
  \A S : Claim!Cardinality(S) = Cardinality(S) /\ (Claim!IsFiniteSet(S) <=> IsFiniteSet(S))
BY DEF Claim!Cardinality, Cardinality, Claim!IsFiniteSet, IsFiniteSet

ClaimInv == Claim!TypeOK /\ Claim!OverlapsPaidFor

\* The bound: one for a claim that stands, the others for what went wrong.
ClaimHeld == claim # None /\ ~recent
Paid == (IF ClaimHeld THEN 1 ELSE 0) + expired + claimFails

\* A worker that starts or stops to be busy changes the number of busy ones by one.
LEMMA BusyCount ==
  ASSUME Claim!UrlClaimAssumption, Claim!TypeOK, NEW w \in Claimers, NEW to \in {"idle", "end"} \cup Claim!Working,
         claimPc' = [claimPc EXCEPT ![w] = to]
  PROVE  /\ Cardinality(Claim!Busy) \in Nat /\ Cardinality(Claim!Busy') \in Nat
         /\ w \in Claim!Busy /\ to \in Claim!Working => Cardinality(Claim!Busy') = Cardinality(Claim!Busy)
         /\ w \notin Claim!Busy /\ to \in Claim!Working => Cardinality(Claim!Busy') = Cardinality(Claim!Busy) + 1
         /\ w \in Claim!Busy /\ to \notin Claim!Working => Cardinality(Claim!Busy') = Cardinality(Claim!Busy) - 1
         /\ w \notin Claim!Busy /\ to \notin Claim!Working => Cardinality(Claim!Busy') = Cardinality(Claim!Busy)
<1>1. IsFiniteSet(Claim!Busy)
  BY ClaimFiniteSets, FS_Subset DEF Claim!Busy, Claim!UrlClaimAssumption
<1>2. Claim!Busy' = IF to \in Claim!Working THEN Claim!Busy \cup {w} ELSE Claim!Busy \ {w}
  BY DEF Claim!Busy, Claim!TypeOK
<1>3. w \in Claim!Busy => Claim!Busy \cup {w} = Claim!Busy
  OBVIOUS
<1>4. w \notin Claim!Busy => Claim!Busy \ {w} = Claim!Busy
  OBVIOUS
<1>5. IsFiniteSet(Claim!Busy')
  BY <1>1, <1>2, FS_AddElement, FS_RemoveElement
<1> QED
  BY <1>1, <1>2, <1>3, <1>4, <1>5, FS_AddElement, FS_RemoveElement, FS_CardinalityType

\* The three ways a step changes how many are busy, as the cases below need them.
LEMMA BusyMore ==
  ASSUME Claim!UrlClaimAssumption, Claim!TypeOK, NEW w \in Claimers, w \notin Claim!Busy,
         claimPc' = [claimPc EXCEPT ![w] = "working"]
  PROVE  Cardinality(Claim!Busy) \in Nat /\ Cardinality(Claim!Busy') = Cardinality(Claim!Busy) + 1
BY BusyCount DEF Claim!Working

LEMMA BusyLess ==
  ASSUME Claim!UrlClaimAssumption, Claim!TypeOK, NEW w \in Claimers, w \in Claim!Busy,
         claimPc' = [claimPc EXCEPT ![w] = "end"]
  PROVE  Cardinality(Claim!Busy) \in Nat /\ Cardinality(Claim!Busy') = Cardinality(Claim!Busy) - 1
<1>1. "end" \notin Claim!Working /\ "end" \in {"idle", "end"} \cup Claim!Working
  BY DEF Claim!Working
<1> QED
  BY <1>1, BusyCount

LEMMA BusySame ==
  ASSUME Claim!UrlClaimAssumption, Claim!TypeOK, NEW w \in Claimers, NEW to \in {"idle", "end"} \cup Claim!Working,
         w \in Claim!Busy <=> to \in Claim!Working, claimPc' = [claimPc EXCEPT ![w] = to]
  PROVE  Cardinality(Claim!Busy) \in Nat /\ Cardinality(Claim!Busy') = Cardinality(Claim!Busy)
<1>1. CASE to \in Claim!Working
  BY <1>1, BusyCount
<1>2. CASE to \notin Claim!Working
  BY <1>2, BusyCount
<1> QED
  BY <1>1, <1>2

LEMMA ClaimTypeStep ==
  ASSUME Claim!UrlClaimAssumption, Claim!TypeOK, [Claim!Next]_Claim!vars
  PROVE  Claim!TypeOK'
<1> USE DEF Claim!TypeOK, Claim!Working
<1>1. CASE UNCHANGED Claim!vars
  BY <1>1 DEF Claim!vars
<1>2. CASE Claim!Next
  <2>1. ASSUME NEW w \in Claimers, Claim!Acquire(w)  PROVE Claim!TypeOK'
    BY <2>1 DEF Claim!Acquire, Claim!SetClaim, Claim!Go, Claim!UrlClaimAssumption
  <2>2. ASSUME NEW w \in Claimers, Claim!Abandon(w) \/ Claim!GetOwner(w)  PROVE Claim!TypeOK'
    BY <2>2 DEF Claim!Abandon, Claim!GetOwner, Claim!Go
  <2>3. ASSUME NEW w \in Claimers, Claim!Drop(w)  PROVE Claim!TypeOK'
    BY <2>3 DEF Claim!Drop, Claim!Removed, Claim!Go
  <2>4. ASSUME NEW w \in Claimers, NEW b \in BOOLEAN, Claim!AcquireFails(w, b)  PROVE Claim!TypeOK'
    <3>1. claimFails' \in 0..MaxFails
      BY <2>4 DEF Claim!AcquireFails, Claim!Fail, Claim!UrlClaimAssumption
    <3>2. claim' \in Jobs \cup {None} /\ recent' \in BOOLEAN
      BY <2>4 DEF Claim!AcquireFails, Claim!SetClaim, Claim!UrlClaimAssumption
    <3>3. claimPc' \in [Claimers -> {"idle", "end"} \cup Claim!Working] /\ keep' = keep /\ expired' = expired
      BY <2>4 DEF Claim!AcquireFails, Claim!Go
    <3> QED
      BY <3>1, <3>2, <3>3
  <2>5. ASSUME NEW w \in Claimers, NEW b \in BOOLEAN, Claim!Processed(w, b)  PROVE Claim!TypeOK'
    BY <2>5 DEF Claim!Processed, Claim!Go
  <2>6. ASSUME NEW w \in Claimers, NEW b \in BOOLEAN, Claim!ReleaseFails(w, b)  PROVE Claim!TypeOK'
    <3>1. claimFails' \in 0..MaxFails
      BY <2>6 DEF Claim!ReleaseFails, Claim!Fail, Claim!UrlClaimAssumption
    <3>2. claim' \in Jobs \cup {None} /\ recent' \in BOOLEAN
      BY <2>6 DEF Claim!ReleaseFails, Claim!Removed
    <3>3. claimPc' \in [Claimers -> {"idle", "end"} \cup Claim!Working] /\ keep' = keep /\ expired' = expired
      BY <2>6 DEF Claim!ReleaseFails, Claim!Go
    <3> QED
      BY <3>1, <3>2, <3>3
  <2>7. CASE Claim!Expire
    <3>1. expired' \in 0..MaxExpired
      BY <2>7 DEF Claim!Expire, Claim!UrlClaimAssumption
    <3> QED
      BY <2>7, <3>1 DEF Claim!Expire
  <2> QED
    BY <1>2, <2>1, <2>2, <2>3, <2>4, <2>5, <2>6, <2>7 DEF Claim!Next
<1> QED
  BY <1>1, <1>2

LEMMA OverlapStep ==
  ASSUME Claim!UrlClaimAssumption, ClaimInv, [Claim!Next]_Claim!vars
  PROVE  Claim!OverlapsPaidFor'
<1> Claim!TypeOK /\ Claim!OverlapsPaidFor
  BY DEF ClaimInv
<1> Claim!TypeOK'
  BY ClaimTypeStep
<1>n. /\ expired \in Nat /\ claimFails \in Nat /\ recent \in BOOLEAN
      /\ expired' \in Nat /\ claimFails' \in Nat /\ recent' \in BOOLEAN
  BY DEF Claim!TypeOK, Claim!UrlClaimAssumption
<1> Paid \in Nat
  BY <1>n DEF Paid, ClaimHeld
<1>0. Cardinality(Claim!Busy) <= Paid
  BY ClaimFiniteSets DEF Claim!OverlapsPaidFor, Paid, ClaimHeld
<1> SUFFICES Cardinality(Claim!Busy') <= Paid'
  BY ClaimFiniteSets DEF Claim!OverlapsPaidFor, Paid, ClaimHeld
<1>1. CASE UNCHANGED Claim!vars
  <2>1. Claim!Busy' = Claim!Busy /\ Paid' = Paid
    BY <1>1 DEF Claim!vars, Claim!Busy, Paid, ClaimHeld
  <2> QED
    BY <1>0, <2>1
<1>2. CASE Claim!Next
  <2>1. ASSUME NEW w \in Claimers, Claim!Acquire(w)  PROVE Cardinality(Claim!Busy') <= Paid'
    <3>1. w \notin Claim!Busy
      BY <2>1 DEF Claim!Acquire, Claim!Busy, Claim!Working
    <3>2. CASE claim = None
      <4>1. claimPc' = [claimPc EXCEPT ![w] = "working"] /\ Paid' = Paid + 1
        BY <1>n, <2>1, <3>2 DEF Paid, ClaimHeld, Claim!Acquire, Claim!SetClaim, Claim!Go, Claim!UrlClaimAssumption, Claim!TypeOK
      <4>2. Cardinality(Claim!Busy) \in Nat /\ Cardinality(Claim!Busy') = Cardinality(Claim!Busy) + 1
        BY <3>1, <4>1, BusyMore
      <4> QED
        BY <1>0, <4>1, <4>2
    <3>3. CASE claim # None
      <4>1. claimPc' = [claimPc EXCEPT ![w] = "end"] /\ Paid' = Paid
        BY <1>n, <2>1, <3>3 DEF Paid, ClaimHeld, Claim!Acquire, Claim!Go
      <4>2. Cardinality(Claim!Busy) \in Nat /\ Cardinality(Claim!Busy') = Cardinality(Claim!Busy)
        BY <3>1, <4>1, BusySame DEF Claim!Working
      <4> QED
        BY <1>0, <4>1, <4>2
    <3> QED
      BY <3>2, <3>3
  <2>2. ASSUME NEW w \in Claimers, Claim!Abandon(w)  PROVE Cardinality(Claim!Busy') <= Paid'
    <3>1. w \in Claim!Busy /\ claimPc' = [claimPc EXCEPT ![w] = "end"] /\ Paid' = Paid
      BY <1>n, <2>2 DEF Paid, ClaimHeld, Claim!Abandon, Claim!Go, Claim!Busy, Claim!Working
    <3>3. Cardinality(Claim!Busy) \in Nat /\ Cardinality(Claim!Busy') = Cardinality(Claim!Busy) - 1
      BY <3>1, BusyLess
    <3> QED
      BY <1>0, <3>3, <3>1
  <2>3. ASSUME NEW w \in Claimers, Claim!GetOwner(w)  PROVE Cardinality(Claim!Busy') <= Paid'
    <3>1. w \in Claim!Busy /\ Paid' = Paid
      BY <1>n, <2>3 DEF Paid, ClaimHeld, Claim!GetOwner, Claim!Busy, Claim!Working
    <3>2. PICK to \in {"drop", "end"} : claimPc' = [claimPc EXCEPT ![w] = to]
      BY <2>3 DEF Claim!GetOwner, Claim!Go
    <3>3. CASE to = "drop"
      <4>1. Cardinality(Claim!Busy) \in Nat /\ Cardinality(Claim!Busy') = Cardinality(Claim!Busy)
        BY <3>1, <3>2, <3>3, BusySame DEF Claim!Working
      <4> QED
        BY <1>0, <3>1, <4>1
    <3>4. CASE to = "end"
      <4>1. Cardinality(Claim!Busy) \in Nat /\ Cardinality(Claim!Busy') = Cardinality(Claim!Busy) - 1
        BY <3>1, <3>2, <3>4, BusyLess
      <4> QED
        BY <1>0, <3>1, <4>1
    <3> QED
      BY <3>3, <3>4
  <2>4. ASSUME NEW w \in Claimers, Claim!Drop(w)  PROVE Cardinality(Claim!Busy') <= Paid'
    <3>1. w \in Claim!Busy /\ claimPc' = [claimPc EXCEPT ![w] = "end"]
      BY <2>4 DEF Claim!Drop, Claim!Go, Claim!Busy, Claim!Working
    <3>2. Paid' = Paid - 1 \/ Paid' = Paid
      BY <1>n, <2>4 DEF Paid, ClaimHeld, Claim!Drop, Claim!Removed, Claim!TypeOK, Claim!UrlClaimAssumption
    <3>3. Cardinality(Claim!Busy) \in Nat /\ Cardinality(Claim!Busy') = Cardinality(Claim!Busy) - 1
      BY <3>1, BusyLess
    <3> QED
      BY <1>0, <3>3, <3>2
  <2>5. ASSUME NEW w \in Claimers, NEW b \in BOOLEAN, Claim!AcquireFails(w, b)
        PROVE  Cardinality(Claim!Busy') <= Paid'
    <3>1. w \notin Claim!Busy /\ claimPc' = [claimPc EXCEPT ![w] = "working"]
      BY <2>5 DEF Claim!AcquireFails, Claim!Go, Claim!Busy, Claim!Working
    <3>2. Paid' = Paid + 1 \/ Paid' = Paid + 2
      BY <1>n, <2>5 DEF Paid, ClaimHeld, Claim!AcquireFails, Claim!Fail, Claim!SetClaim, Claim!TypeOK, Claim!UrlClaimAssumption
    <3>3. Cardinality(Claim!Busy) \in Nat /\ Cardinality(Claim!Busy') = Cardinality(Claim!Busy) + 1
      BY <3>1, BusyMore
    <3> QED
      BY <1>0, <3>3, <3>2
  <2>6. ASSUME NEW w \in Claimers, NEW b \in BOOLEAN, Claim!Processed(w, b)
        PROVE  Cardinality(Claim!Busy') <= Paid'
    <3>1. w \in Claim!Busy /\ claimPc' = [claimPc EXCEPT ![w] = "get"] /\ Paid' = Paid
      BY <1>n, <2>6 DEF Paid, ClaimHeld, Claim!Processed, Claim!Go, Claim!Busy, Claim!Working
    <3>3. Cardinality(Claim!Busy) \in Nat /\ Cardinality(Claim!Busy') = Cardinality(Claim!Busy)
      BY <3>1, BusySame DEF Claim!Working
    <3> QED
      BY <1>0, <3>3, <3>1
  <2>7. ASSUME NEW w \in Claimers, NEW b \in BOOLEAN, Claim!ReleaseFails(w, b)
        PROVE  Cardinality(Claim!Busy') <= Paid'
    <3>1. w \in Claim!Busy /\ claimPc' = [claimPc EXCEPT ![w] = "end"]
      BY <2>7 DEF Claim!ReleaseFails, Claim!Go, Claim!Busy, Claim!Working
    <3>2. Paid' = Paid + 1 \/ Paid' = Paid
      BY <1>n, <2>7 DEF Paid, ClaimHeld, Claim!ReleaseFails, Claim!Fail, Claim!Removed, Claim!TypeOK, Claim!UrlClaimAssumption
    <3>3. Cardinality(Claim!Busy) \in Nat /\ Cardinality(Claim!Busy') = Cardinality(Claim!Busy) - 1
      BY <3>1, BusyLess
    <3> QED
      BY <1>0, <3>3, <3>2
  <2>8. CASE Claim!Expire
    <3>1. Claim!Busy' = Claim!Busy
      BY <2>8 DEF Claim!Expire, Claim!Busy
    <3>2. Paid' = Paid
      BY <1>n, <2>8 DEF Paid, ClaimHeld, Claim!Expire, Claim!TypeOK, Claim!UrlClaimAssumption
    <3> QED
      BY <1>0, <3>1, <3>2
  <2> QED
    BY <1>2, <2>1, <2>2, <2>3, <2>4, <2>5, <2>6, <2>7, <2>8 DEF Claim!Next
<1> QED
  BY <1>1, <1>2

LEMMA ClaimInit ==
  ASSUME Claim!UrlClaimAssumption
  PROVE  Claim!Init => ClaimInv
<1> SUFFICES ASSUME Claim!Init PROVE ClaimInv
  OBVIOUS
<1>1. Claim!TypeOK
  <2>1. claimPc \in [Claimers -> {"idle", "end"} \cup Claim!Working] /\ keep \in [Claimers -> BOOLEAN]
    BY DEF Claim!Init
  <2>2. recent \in BOOLEAN
    BY DEF Claim!Init
  <2>3. claim \in Jobs \cup {None} /\ expired \in 0..MaxExpired /\ claimFails \in 0..MaxFails
    BY DEF Claim!Init, Claim!UrlClaimAssumption
  <2> QED
    BY <2>1, <2>2, <2>3 DEF Claim!TypeOK
<1>2. Claim!Busy = {}
  BY DEF Claim!Init, Claim!Busy, Claim!Working
<1>3. Cardinality(Claim!Busy) = 0
  BY <1>2, FS_EmptySet
<1>4. Claim!OverlapsPaidFor
  BY ClaimFiniteSets, <1>3 DEF Claim!Init, Claim!OverlapsPaidFor
<1> QED
  BY <1>1, <1>4 DEF ClaimInv

LEMMA ClaimAssumed == Claim!UrlClaimAssumption
BY ServicesAssumption DEF ServicesAssumption

\* Both the types and the bound on overlapping workers hold in every state.
THEOREM ClaimsHold == Spec => []ClaimInv
<1>1. Init => ClaimInv
  BY ClaimAssumed, ClaimInit DEF Init
<1>2. [Next]_vars => [Claim!Next]_Claim!vars
  BY DEF Next, vars, claimVars, Claim!vars
<1>3. ClaimInv /\ [Next]_vars => ClaimInv'
  BY <1>2, ClaimAssumed, ClaimTypeStep, OverlapStep DEF ClaimInv
<1> QED
  BY <1>1, <1>3, PTL DEF Spec

\* Two workers are on one URL at a time only as often as a claim ran out or a call
\* of Redis failed: the get-and-delete release of dedup.py lets in nobody else.
THEOREM OverlapsStayPaidFor == Spec => []OverlapsPaidFor
<1>1. ClaimInv => OverlapsPaidFor
  BY DEF ClaimInv, OverlapsPaidFor
<1> QED
  BY <1>1, ClaimsHold, PTL

-----------------------------------------------------------------------------
(* The DB write queue *)

LEMMA DbAssumed == DbP!DbWritesAssumption
BY ServicesAssumption DEF ServicesAssumption, Db!DbWritesAssumption, DbP!DbWritesAssumption,
       Db!Lanes, DbP!Lanes, Db!Requests, DbP!Requests

LEMMA DbBehaves == Spec => DbP!Spec
<1>1. Init => DbP!Init
  BY DEF Init, Db!Init, DbP!Init, Db!Lanes, DbP!Lanes
<1>2. Db!Next => DbP!Next
  BY DEF Db!Call, DbP!Call, Db!Effect, DbP!Effect, Db!ExecuteFails, DbP!ExecuteFails,
         Db!Executed, DbP!Executed, Db!Ends, DbP!Ends, Db!TryAgain, DbP!TryAgain,
         Db!TriesRunOut, DbP!TriesRunOut, Db!GiveUp, DbP!GiveUp, Db!Next, DbP!Next, Db!Put,
         DbP!Put, Db!Return, DbP!Return, Db!Take, DbP!Take, Db!Updated, DbP!Updated,
         Db!WorkerDies, DbP!WorkerDies
<1>3. [Next]_vars => [DbP!Next]_(DbP!vars)
  BY <1>2 DEF Next, vars, dbVars, DbP!vars
<1> QED
  BY <1>1, <1>3, PTL DEF Spec, DbP!Spec

\* Late, repeated and concurrent updates of one row (update_crawling_log_counters)
\* neither lower its counter nor turn a terminal status back.
THEOREM RowStaysAhead == Spec => RowMovesOn
<1>1. DbP!Spec => DbP!RowMovesOn
  BY DbAssumed, DbP!RowsMoveOn
<1>2. DbP!RowMovesOn => RowMovesOn
  BY DEF RowMovesOn, Db!RowMovesOn, DbP!RowMovesOn, Db!vars, DbP!vars
<1> QED
  BY <1>1, <1>2, DbBehaves, PTL

\* run_db_write keeps the promise of WriteOnce: whatever times out, is repeated, fails
\* or dies, a write has one execution, its statement takes effect no more often than
\* the pool tries it and never after the execution has ended, and no caller is told
\* of an end that did not come.
THEOREM WritesExecuteOnce == Spec => ExecutedOnce
<1>1. DbP!Spec => DbP!ExecutedOnce
  BY DbAssumed, DbP!QueueExecutesOnce
<1>2. DbP!ExecutedOnce => ExecutedOnce
  BY DEF ExecutedOnce, Db!ExecutedOnce, DbP!ExecutedOnce, Db!Once!Spec, DbP!Once!Spec,
         Db!Once!Init, DbP!Once!Init, Db!Once!Next, DbP!Once!Next, Db!Once!vars,
         DbP!Once!vars, Db!Once!Ask, DbP!Once!Ask, Db!Once!Answer, DbP!Once!Answer,
         Db!Once!Execute, DbP!Once!Execute
<1> QED
  BY <1>1, <1>2, DbBehaves, PTL

-----------------------------------------------------------------------------
(* Runs: duplicate lock and slots *)

LEMMA RunAssumed == RunP!WorkflowRunAssumption
BY ServicesAssumption DEF ServicesAssumption, Run!WorkflowRunAssumption,
       RunP!WorkflowRunAssumption

LEMMA RunBehaves == Spec => RunP!Spec
<1>1. Init => RunP!Init
  BY DEF Init, Run!Init, RunP!Init, Run!Keys, RunP!Keys
<1>2. Run!Next => RunP!Next
  BY DEF Run!AcquireSlot, RunP!AcquireSlot, Run!Admitted, RunP!Admitted, Run!AtDelete,
         RunP!AtDelete, Run!Cancel, RunP!Cancel, Run!Clear, RunP!Clear, Run!Dispatch,
         RunP!Dispatch, Run!End, RunP!End, Run!Expire, RunP!Expire, Run!Fail, RunP!Fail,
         Run!Finish, RunP!Finish, Run!GetOwner, RunP!GetOwner, Run!Go, RunP!Go, Run!Holders,
         RunP!Holders, Run!Inspect, RunP!Inspect, Run!Keys, RunP!Keys, Run!LocallyActive,
         RunP!LocallyActive, Run!Lock, RunP!Lock, Run!LockFails, RunP!LockFails,
         Run!Locking, RunP!Locking, Run!Next, RunP!Next, Run!Recheck, RunP!Recheck,
         Run!ReleaseSlot, RunP!ReleaseSlot, Run!Releasing, RunP!Releasing, Run!Reset,
         RunP!Reset, Run!Rob, RunP!Rob, Run!Run, RunP!Run, Run!Schedule, RunP!Schedule,
         Run!SetJob, RunP!SetJob, Run!SetMain, RunP!SetMain, Run!SetNX, RunP!SetNX,
         Run!SlotRefused, RunP!SlotRefused, Run!Start, RunP!Start, Run!Unlock, RunP!Unlock,
         Run!UnlockDelete, RunP!UnlockDelete, Run!UnlockFails, RunP!UnlockFails,
         Run!UnlockGet, RunP!UnlockGet, Run!history, RunP!history, Run!runVars,
         RunP!runVars, Run!Cardinality, RunP!Cardinality
<1>3. [Next]_vars => [RunP!Next]_(RunP!vars)
  BY <1>2 DEF Next, vars, runVars, RunP!history, RunP!runVars, RunP!vars
<1> QED
  BY <1>1, <1>3, PTL DEF Spec, RunP!Spec

\* The duplicate lock of run_workflow_task: a key carries the job of the one run that
\* has it, and none stays behind that nobody gives back, but for what expired,
\* failed or was cancelled.
THEOREM LocksAndRunsStayMatched == Spec => []LocksMatchRuns
<1>1. RunP!Spec => []RunP!LocksMatchRuns
  BY RunAssumed, RunP!LocksAndRunsAgree
<1>2. RunP!LocksMatchRuns => LocksMatchRuns
  BY DEF LocksMatchRuns, Run!Holders, RunP!Holders, Run!Keys, RunP!Keys, Run!LocksMatchRuns,
         RunP!LocksMatchRuns
<1> QED
  BY <1>1, <1>2, RunBehaves, PTL

\* A slot of the process that is taken has a run that will give it back, unless that
\* run was cancelled before or in the middle of its finally.
THEOREM SlotsStayBacked == Spec => []SlotsBacked
<1>1. RunP!Spec => []RunP!SlotsBacked
  BY RunAssumed, RunP!SlotsAreBacked
<1>2. RunP!SlotsBacked => SlotsBacked
  BY DEF SlotsBacked, Run!Admitted, RunP!Admitted, Run!SlotsBacked, RunP!SlotsBacked
<1> QED
  BY <1>1, <1>2, RunBehaves, PTL

-----------------------------------------------------------------------------
(* The browser of the pool *)

LEMMA BrowserAssumed == BrowserP!BrowserUseAssumption
BY ServicesAssumption DEF ServicesAssumption, Browser!BrowserUseAssumption,
       BrowserP!BrowserUseAssumption, Browser!IsFiniteSet, BrowserP!IsFiniteSet

LEMMA BrowserBehaves == Spec => BrowserP!Spec
<1>1. Init => BrowserP!Init
  BY DEF Init, Browser!Browsers, BrowserP!Browsers, Browser!Init, BrowserP!Init
<1>2. Browser!Next => BrowserP!Next
  BY DEF Browser!Acquire, BrowserP!Acquire, Browser!AfterFailure, BrowserP!AfterFailure,
         Browser!Again, BrowserP!Again, Browser!Attempt, BrowserP!Attempt,
         Browser!BeginRelaunch, BrowserP!BeginRelaunch, Browser!Browsers, BrowserP!Browsers,
         Browser!Close, BrowserP!Close, Browser!Crash, BrowserP!Crash,
         Browser!DownloadFails, BrowserP!DownloadFails, Browser!Downloaded,
         BrowserP!Downloaded, Browser!Enter, BrowserP!Enter, Browser!Fallback,
         BrowserP!Fallback, Browser!Go, BrowserP!Go, Browser!LaunchFails,
         BrowserP!LaunchFails, Browser!Next, BrowserP!Next, Browser!Relaunched,
         BrowserP!Relaunched, Browser!Release, BrowserP!Release, Browser!Retire,
         BrowserP!Retire, Browser!SyncFails, BrowserP!SyncFails, Browser!TargetClosed,
         BrowserP!TargetClosed, Browser!poolVars, BrowserP!poolVars
<1>3. [Next]_vars => [BrowserP!Next]_(BrowserP!vars)
  BY <1>2 DEF Next, vars, browserVars, BrowserP!poolVars, BrowserP!vars
<1> QED
  BY <1>1, <1>3, PTL DEF Spec, BrowserP!Spec

\* The pool's leases: use counts are right, no browser is closed under a lease and none
\* is forgotten, however relaunches, crashes and failing downloads overlap.
THEOREM BrowsersKeepAccounted == Spec => []BrowsersAccounted
<1>1. BrowserP!Spec => []BrowserP!BrowsersAccounted
  BY BrowserAssumed, BrowserP!BrowsersStayAccounted
<1>2. BrowserP!BrowsersAccounted => BrowsersAccounted
  BY DEF BrowsersAccounted, Browser!Browsers, BrowserP!Browsers, Browser!BrowsersAccounted,
         BrowserP!BrowsersAccounted, Browser!Cardinality, BrowserP!Cardinality
<1> QED
  BY <1>1, <1>2, BrowserBehaves, PTL

-----------------------------------------------------------------------------
(* The stage counters *)

LEMMA CountFiniteSets ==
  \A S : Count!Cardinality(S) = Cardinality(S) /\ (Count!IsFiniteSet(S) <=> IsFiniteSet(S))
BY DEF Count!Cardinality, Cardinality, Count!IsFiniteSet, IsFiniteSet

\* The keys that are counted, and those with outcome o.
Counted == {k \in CounterKeys : outcome[k] # None}
CountedWith(o) == {k \in CounterKeys : outcome[k] = o}

StudyTypes ==
  /\ studiedKeys \subseteq CounterKeys
  /\ outcome \in [CounterKeys -> Count!Outcomes \cup {None}]
  /\ studied \in [{"done"} \cup Count!Outcomes -> Nat]
  /\ twice \in BOOLEAN

\* A key of the ledger has an outcome.
LedgerHasOutcome == \A k \in studiedKeys : outcome[k] # None

StudyInv == StudyTypes /\ LedgerHasOutcome /\ Count!StudyExact

LEMMA KeysFinite ==
  ASSUME Count!StageCountersAssumption
  PROVE  /\ IsFiniteSet(Counted) /\ Cardinality(Counted) \in Nat
         /\ \A o \in Count!Outcomes : IsFiniteSet(CountedWith(o)) /\ Cardinality(CountedWith(o)) \in Nat
<1>1. IsFiniteSet({"url", "row"})
  <2>1. {"url", "row"} = {"url"} \cup {"row"}
    OBVIOUS
  <2>2. IsFiniteSet({"url"})
    BY FS_Singleton
  <2>3. IsFiniteSet({"url"} \cup {"row"})
    BY <2>2, FS_AddElement
  <2> QED
    BY <2>1, <2>3
<1>2. IsFiniteSet(Urls \X {"url", "row"})
  BY CountFiniteSets, <1>1, FS_Product DEF Count!StageCountersAssumption
<1>3. IsFiniteSet(CounterKeys)
  BY <1>2, FS_Subset DEF Count!StageCountersAssumption
<1>4. Counted \subseteq CounterKeys /\ \A o \in Count!Outcomes : CountedWith(o) \subseteq CounterKeys
  BY DEF Counted, CountedWith
<1> QED
  BY <1>3, <1>4, FS_Subset, FS_CardinalityType

\* A key that had no outcome gets one.
LEMMA FirstOutcome ==
  ASSUME Count!StageCountersAssumption, StudyTypes, NEW k \in CounterKeys, NEW o \in Count!Outcomes,
         outcome[k] = None, outcome' = [outcome EXCEPT ![k] = o]
  PROVE  /\ Cardinality(Counted') = Cardinality(Counted) + 1
         /\ Cardinality(CountedWith(o)') = Cardinality(CountedWith(o)) + 1
         /\ \A p \in Count!Outcomes \ {o} : CountedWith(p)' = CountedWith(p)
<1>1. None \notin Count!Outcomes
  BY DEF Count!StageCountersAssumption
<1>2. Counted' = Counted \cup {k} /\ k \notin Counted
  BY <1>1 DEF Counted, StudyTypes
<1>3. CountedWith(o)' = CountedWith(o) \cup {k} /\ k \notin CountedWith(o)
  BY <1>1 DEF CountedWith, StudyTypes
<1>4. \A p \in Count!Outcomes \ {o} : CountedWith(p)' = CountedWith(p)
  BY <1>1 DEF CountedWith, StudyTypes
<1> QED
  BY <1>2, <1>3, <1>4, KeysFinite, FS_AddElement

\* An outcome takes the place of another.
LEMMA OtherOutcome ==
  ASSUME Count!StageCountersAssumption, StudyTypes, NEW k \in CounterKeys, NEW o \in Count!Outcomes,
         outcome[k] # None, outcome[k] # o, outcome' = [outcome EXCEPT ![k] = o]
  PROVE  /\ Counted' = Counted
         /\ Cardinality(CountedWith(o)') = Cardinality(CountedWith(o)) + 1
         /\ Cardinality(CountedWith(outcome[k])) > 0
         /\ Cardinality({x \in CounterKeys : outcome'[x] = outcome[k]}) = Cardinality(CountedWith(outcome[k])) - 1
         /\ \A p \in Count!Outcomes \ {o, outcome[k]} : CountedWith(p)' = CountedWith(p)
<1> DEFINE old == outcome[k]
<1>1. None \notin Count!Outcomes /\ old \in Count!Outcomes
  BY DEF Count!StageCountersAssumption, StudyTypes
<1>2. Counted' = Counted
  BY <1>1 DEF Counted, StudyTypes
<1>3. CountedWith(o)' = CountedWith(o) \cup {k} /\ k \notin CountedWith(o)
  BY <1>1 DEF CountedWith, StudyTypes
<1>4. {x \in CounterKeys : outcome'[x] = old} = CountedWith(old) \ {k} /\ k \in CountedWith(old)
  BY <1>1 DEF CountedWith, StudyTypes
<1>5. \A p \in Count!Outcomes \ {o, old} : CountedWith(p)' = CountedWith(p)
  BY <1>1 DEF CountedWith, StudyTypes
<1>6. Cardinality(CountedWith(o)') = Cardinality(CountedWith(o)) + 1
  BY <1>3, KeysFinite, FS_AddElement
<1>7. Cardinality(CountedWith(old) \ {k}) = Cardinality(CountedWith(old)) - 1
  BY <1>1, <1>4, KeysFinite, FS_RemoveElement
<1>8. Cardinality(CountedWith(old)) > 0
  <2>1. IsFiniteSet(CountedWith(old)) /\ Cardinality(CountedWith(old)) \in Nat
    BY <1>1, KeysFinite
  <2>2. Cardinality(CountedWith(old)) # 0
    BY <1>4, <2>1, FS_EmptySet
  <2> QED
    BY <2>1, <2>2
<1> QED
  BY <1>2, <1>4, <1>5, <1>6, <1>7, <1>8

\* What StudyExact says, by the names above.
LEMMA StudyExactMeans ==
  Count!StudyExact <=> (~twice => /\ studied["done"] = Cardinality(Counted)
                            /\ \A o \in Count!Outcomes : studied[o] = Cardinality(CountedWith(o)))
BY CountFiniteSets DEF Count!StudyExact, Counted, CountedWith

LEMMA StudyStep ==
  ASSUME Count!StageCountersAssumption, StudyInv, [Count!Next]_Count!vars
  PROVE  StudyInv'
<1> USE DEF StudyInv
<1>u. CASE UNCHANGED Count!studyVars
  BY <1>u DEF Count!studyVars, StudyTypes, LedgerHasOutcome, Count!StudyExact
<1>1. CASE UNCHANGED Count!vars
  BY <1>1, <1>u DEF Count!vars, Count!studyVars
<1>2. ASSUME NEW k \in CounterKeys, Count!MarkSelected(k) \/ Count!MarkSave(k)  PROVE StudyInv'
  BY <1>2, <1>u DEF Count!MarkSelected, Count!MarkSave
<1>3. ASSUME NEW u \in Urls, Count!UnmarkSelected(u)  PROVE StudyInv'
  BY <1>3, <1>u DEF Count!UnmarkSelected
<1>4. CASE Count!ClearLedgers
  BY <1>4 DEF Count!ClearLedgers, StudyTypes, LedgerHasOutcome, Count!StudyExact
<1>5. ASSUME NEW k \in CounterKeys, NEW o \in Count!Outcomes, Count!MarkStudy(k, o)  PROVE StudyInv'
  <2> None \notin Count!Outcomes /\ "done" \notin Count!Outcomes /\ "success" \in Count!Outcomes
    BY DEF Count!StageCountersAssumption, Count!Outcomes
  <2>1. outcome' = [outcome EXCEPT ![k] = o] /\ studiedKeys' = studiedKeys \cup {k}
    BY <1>5 DEF Count!MarkStudy
  <2>2. LedgerHasOutcome'
    BY <2>1 DEF LedgerHasOutcome, StudyTypes
  <2>3. CASE k \notin studiedKeys
    <3>1. /\ studied' = [studied EXCEPT !["done"] = @ + 1, ![o] = @ + 1]
          /\ twice' = (twice \/ outcome[k] # None)
      BY <1>5, <2>3 DEF Count!MarkStudy
    <3>2. /\ studied'["done"] = studied["done"] + 1 /\ studied'[o] = studied[o] + 1
          /\ \A p \in Count!Outcomes \ {o} : studied'[p] = studied[p]
      BY <3>1 DEF StudyTypes
    <3>3. studied' \in [{"done"} \cup Count!Outcomes -> Nat]
      <4>1. studied["done"] + 1 \in Nat /\ studied[o] + 1 \in Nat
        BY DEF StudyTypes
      <4> QED
        BY <3>1, <4>1 DEF StudyTypes
    <3>4. twice' \in BOOLEAN
      BY <3>1
    <3>5. StudyTypes'
      BY <2>1, <3>3, <3>4 DEF StudyTypes
    <3>6. ASSUME ~twice'
          PROVE  /\ studied'["done"] = Cardinality(Counted')
                 /\ \A p \in Count!Outcomes : studied'[p] = Cardinality(CountedWith(p)')
      <4>1. ~twice /\ outcome[k] = None
        BY <3>1, <3>6
      <4>2. /\ studied["done"] = Cardinality(Counted)
            /\ \A p \in Count!Outcomes : studied[p] = Cardinality(CountedWith(p))
        BY <4>1, StudyExactMeans
      <4>3. /\ Cardinality(Counted') = Cardinality(Counted) + 1
            /\ Cardinality(CountedWith(o)') = Cardinality(CountedWith(o)) + 1
            /\ \A p \in Count!Outcomes \ {o} : CountedWith(p)' = CountedWith(p)
        BY <2>1, <4>1, FirstOutcome
      <4> QED
        BY <3>2, <4>2, <4>3
    <3>7. Count!StudyExact'
      BY CountFiniteSets, <3>6 DEF Count!StudyExact, Counted, CountedWith
    <3> QED
      BY <2>2, <3>5, <3>7
  <2>4. CASE k \in studiedKeys
    <3> DEFINE old == outcome[k]
    <3>1. /\ o = "success" /\ old # "success" /\ old \in Count!Outcomes /\ UNCHANGED twice
          /\ studied' = [studied EXCEPT ![old] = IF @ > 0 THEN @ - 1 ELSE 0,
                                       !["success"] = @ + 1]
      BY <1>5, <2>4 DEF Count!MarkStudy, Count!Upgrade, LedgerHasOutcome, StudyTypes
    <3>2. /\ studied'["done"] = studied["done"] /\ studied'[o] = studied[o] + 1
          /\ studied'[old] = IF studied[old] > 0 THEN studied[old] - 1 ELSE 0
          /\ \A p \in Count!Outcomes \ {o, old} : studied'[p] = studied[p]
      BY <3>1 DEF StudyTypes
    <3>3. studied' \in [{"done"} \cup Count!Outcomes -> Nat]
      BY <3>1 DEF StudyTypes
    <3>4. StudyTypes'
      BY <2>1, <3>1, <3>3 DEF StudyTypes
    <3>5. ASSUME ~twice'
          PROVE  /\ studied'["done"] = Cardinality(Counted')
                 /\ \A p \in Count!Outcomes : studied'[p] = Cardinality({x \in CounterKeys : outcome'[x] = p})
      <4>1. /\ studied["done"] = Cardinality(Counted)
            /\ \A p \in Count!Outcomes : studied[p] = Cardinality(CountedWith(p))
        BY <3>1, <3>5, StudyExactMeans
      <4>2. /\ Counted' = Counted
            /\ Cardinality(CountedWith(o)') = Cardinality(CountedWith(o)) + 1
            /\ Cardinality(CountedWith(old)) > 0
            /\ Cardinality({x \in CounterKeys : outcome'[x] = old}) = Cardinality(CountedWith(old)) - 1
            /\ \A p \in Count!Outcomes \ {o, old} : CountedWith(p)' = CountedWith(p)
        BY <2>1, <3>1, OtherOutcome
      <4>3. studied'[old] = Cardinality({x \in CounterKeys : outcome'[x] = old})
        BY <3>1, <3>2, <4>1, <4>2
      <4>4. studied'[o] = Cardinality({x \in CounterKeys : outcome'[x] = o})
        BY <3>1, <3>2, <4>1, <4>2 DEF CountedWith
      <4>5. \A p \in Count!Outcomes \ {o, old} : studied'[p] = Cardinality({x \in CounterKeys : outcome'[x] = p})
        BY <3>2, <4>1, <4>2 DEF CountedWith
      <4> QED
        BY <3>2, <4>1, <4>2, <4>3, <4>4, <4>5
    <3>6. Count!StudyExact'
      BY CountFiniteSets, <3>5 DEF Count!StudyExact, Counted
    <3> QED
      BY <2>2, <3>4, <3>6
  <2> QED
    BY <2>3, <2>4
<1> QED
  BY <1>1, <1>2, <1>3, <1>4, <1>5 DEF Count!Next

LEMMA StudyInit ==
  ASSUME Count!StageCountersAssumption
  PROVE  Count!Init => StudyInv
<1> SUFFICES ASSUME Count!Init PROVE StudyInv
  OBVIOUS
<1>1. StudyTypes
  <2>1. twice \in BOOLEAN
    BY DEF Count!Init
  <2> QED
    BY <2>1 DEF Count!Init, StudyTypes
<1>2. LedgerHasOutcome
  BY DEF Count!Init, LedgerHasOutcome
<1>3. Counted = {} /\ \A o \in Count!Outcomes : CountedWith(o) = {}
  BY DEF Count!Init, Counted, CountedWith, Count!StageCountersAssumption
<1>4. Cardinality(Counted) = 0 /\ \A o \in Count!Outcomes : Cardinality(CountedWith(o)) = 0
  BY <1>3, FS_EmptySet
<1>5. studied["done"] = 0 /\ \A o \in Count!Outcomes : studied[o] = 0
  BY DEF Count!Init
<1>6. Count!StudyExact
  BY <1>4, <1>5, StudyExactMeans
<1> QED
  BY <1>1, <1>2, <1>6 DEF StudyInv

LEMMA CountAssumed == Count!StageCountersAssumption
BY ServicesAssumption DEF ServicesAssumption

THEOREM CountersHold == Spec => []StudyInv
<1>1. Init => StudyInv
  BY CountAssumed, StudyInit DEF Init
<1>2. [Next]_vars => [Count!Next]_Count!vars
  BY DEF Next, vars, countVars, Count!selectVars, Count!saveVars, Count!studyVars, Count!vars
<1>3. StudyInv /\ [Next]_vars => StudyInv'
  BY <1>2, CountAssumed, StudyStep
<1> QED
  BY <1>1, <1>3, PTL DEF Spec

\* The learning counters of a board crawl add up to the outcomes of its keys, in any
\* order of first reports, repeats and upgrades, until a key is counted again after
\* the end of the run emptied the ledger.
THEOREM StudyStaysExact == Spec => []StudyExact
<1>1. StudyInv => StudyExact
  BY DEF StudyInv, StudyExact
<1> QED
  BY <1>1, CountersHold, PTL

-----------------------------------------------------------------------------
(* The state batch: the delayed publish of throttled messages *)

\* The part of the state that the throttle keeps.
ThrottleTypes ==
  /\ throttled \in [StateJobs -> Publishes \cup {None}]
  /\ delayed \in [StateJobs -> {"none", "sleep", "due"} \cup Publishes]
  /\ overtaken \subseteq StateJobs

\* A request that waits while the delayed task publishes another one came too late.
LateIsOvertaken ==
  \A j \in StateJobs : delayed[j] \in Publishes /\ throttled[j] # None => j \in overtaken

ThrottleInv == ThrottleTypes /\ LateIsOvertaken /\ State!ThrottledIsSent

\* The end of a request ends the delayed task that published it, and no other.
LEMMA DelayedEnds ==
  ASSUME State!RedisStateAssumption, ThrottleInv, NEW s \in State!Senders,
         delayed' = State!DelayedAfter(s), UNCHANGED <<throttled, overtaken>>
  PROVE  ThrottleInv'
<1> USE DEF ThrottleInv, State!RedisStateAssumption
<1>1. ThrottleTypes'
  BY DEF ThrottleTypes, State!DelayedAfter
<1>0. "none" \notin Publishes /\ "sleep" \notin Publishes /\ "due" \notin Publishes
  BY DEF State!Senders
<1>2. \A j \in StateJobs : delayed'[j] = IF delayed[j] = s THEN "none" ELSE delayed[j]
  BY DEF State!DelayedAfter
<1>3. LateIsOvertaken'
  BY <1>0, <1>2 DEF LateIsOvertaken
<1>4. State!ThrottledIsSent'
  <2> SUFFICES ASSUME NEW j \in StateJobs, throttled[j] # None
               PROVE  delayed'[j] # "none" \/ j \in overtaken
    BY DEF State!ThrottledIsSent
  <2>1. CASE delayed[j] = s
    <3>1. delayed[j] # "none" \/ j \in overtaken
      BY DEF State!ThrottledIsSent
    <3>2. s \in StateJobs \/ s \in Publishes
      BY DEF State!Senders
    <3> QED
      BY <2>1, <3>1, <3>2 DEF LateIsOvertaken, ThrottleTypes, State!Senders
  <2>2. CASE delayed[j] # s
    BY <1>2, <2>2 DEF State!ThrottledIsSent
  <2> QED
    BY <2>1, <2>2
<1> QED
  BY <1>1, <1>3, <1>4

LEMMA ThrottleStep ==
  ASSUME State!RedisStateAssumption, ThrottleInv, [State!Next]_State!vars
  PROVE  ThrottleInv'
<1>u. CASE UNCHANGED State!throttleVars
  BY <1>u DEF ThrottleInv, ThrottleTypes, LateIsOvertaken, State!ThrottledIsSent, State!throttleVars
<1>1. CASE UNCHANGED State!vars
  BY <1>1, <1>u DEF State!vars, State!throttleVars
<1>2. ASSUME NEW r \in Publishes, NEW in \in StateInputs, State!Arrive(r, in)  PROVE ThrottleInv'
  <2> DEFINE j == Target[r]
  <2>0. j \in StateJobs
    BY DEF State!RedisStateAssumption
  <2>1. CASE State!PassTerminal(r, j)
    BY <2>0, <2>1 DEF State!PassTerminal, ThrottleInv, ThrottleTypes, LateIsOvertaken, State!ThrottledIsSent
  <2>2. CASE State!Throttle(r, j)
    <3>1. ThrottleTypes'
      BY <2>0, <2>2 DEF State!Throttle, ThrottleInv, ThrottleTypes
    <3>2. LateIsOvertaken'
      BY <2>0, <2>2 DEF State!Throttle, ThrottleInv, ThrottleTypes, LateIsOvertaken, State!RedisStateAssumption, State!Senders
    <3>3. State!ThrottledIsSent'
      BY <2>0, <2>2 DEF State!Throttle, ThrottleInv, ThrottleTypes, State!ThrottledIsSent
    <3> QED
      BY <3>1, <3>2, <3>3 DEF ThrottleInv
  <2>3. CASE State!Reserve(r, j)
    BY <2>3 DEF State!Reserve, ThrottleInv, ThrottleTypes, LateIsOvertaken, State!ThrottledIsSent
  <2> QED
    BY <1>2, <1>u, <2>1, <2>2, <2>3 DEF State!Arrive
<1>3. ASSUME NEW j \in StateJobs, State!Tick(j)  PROVE ThrottleInv'
  BY <1>3 DEF State!Tick, ThrottleInv, ThrottleTypes, LateIsOvertaken, State!ThrottledIsSent,
              State!RedisStateAssumption, State!Senders
<1>4. ASSUME NEW j \in StateJobs, State!DelayedPublish(j)  PROVE ThrottleInv'
  BY <1>4 DEF State!DelayedPublish, ThrottleInv, ThrottleTypes, LateIsOvertaken, State!ThrottledIsSent,
              State!RedisStateAssumption, State!Senders
<1>5. ASSUME NEW j \in StateJobs, State!SmoothWakes(j)  PROVE ThrottleInv'
  BY <1>5, <1>u DEF State!SmoothWakes
<1>6. ASSUME NEW s \in State!Senders, State!Send(s)  PROVE ThrottleInv'
  <2>1. CASE State!Merge(s)
    BY <2>1, <1>u DEF State!Merge
  <2>2. CASE State!SendFails(s)
    BY <2>2, DelayedEnds DEF State!SendFails
  <2>3. ASSUME NEW skip \in BOOLEAN, State!Published(s, skip)  PROVE ThrottleInv'
    BY <2>3, DelayedEnds DEF State!Published
  <2>4. CASE State!StateWritten(s)
    BY <2>4, <1>u DEF State!StateWritten
  <2>5. ASSUME NEW applied \in BOOLEAN, State!StateWriteFails(s, applied)  PROVE ThrottleInv'
    BY <2>5, <1>u DEF State!StateWriteFails
  <2> QED
    BY <1>6, <2>1, <2>2, <2>3, <2>4, <2>5 DEF State!Send
<1>7. CASE State!Flush
  BY <1>7, <1>u DEF State!Flush
<1> QED
  BY <1>1, <1>2, <1>3, <1>4, <1>5, <1>6, <1>7 DEF State!Next

LEMMA ThrottleInit ==
  ASSUME State!RedisStateAssumption
  PROVE  State!Init => ThrottleInv
BY DEF State!Init, State!RedisStateAssumption, ThrottleInv, ThrottleTypes, LateIsOvertaken, State!ThrottledIsSent

\* A request that was throttled is sent by the delayed publish of its job, whatever
\* requests, terminal messages and failures come between, unless it came while
\* _publish_pending_after was already publishing the one before it.
THEOREM ThrottledRequestsAreSent == Spec => []ThrottledIsSent
<1>1. State!RedisStateAssumption
  BY ServicesAssumption DEF ServicesAssumption
<1>2. Init => ThrottleInv
  BY <1>1, ThrottleInit DEF Init
<1>3. ThrottleInv /\ [Next]_vars => ThrottleInv'
  <2>1. [Next]_vars => [State!Next]_(State!vars)
    BY DEF Next, vars, stateVars, State!senderVars, State!throttleVars, State!vars, State!batchVars
  <2> QED
    BY <1>1, <2>1, ThrottleStep
<1>4. ThrottleInv => ThrottledIsSent
  BY DEF ThrottleInv, ThrottledIsSent
<1> QED
  BY <1>2, <1>3, <1>4, PTL DEF Spec

-----------------------------------------------------------------------------
(* The scan queue: sequences *)

LEMMA ScanFiniteSets ==
  \A S : Scan!Cardinality(S) = Cardinality(S) /\ (Scan!IsFiniteSet(S) <=> IsFiniteSet(S))
BY DEF Scan!Cardinality, Cardinality, Scan!IsFiniteSet, IsFiniteSet

NoRepeats(s) == \A i, k \in DOMAIN s : s[i] = s[k] => i = k

LEMMA TakeHead ==
  ASSUME NEW S, NEW s \in Seq(S), s # <<>>
  PROVE  /\ Head(s) \in S /\ Tail(s) \in Seq(S) /\ Len(Tail(s)) = Len(s) - 1
         /\ Len(s) \in Nat \ {0}
         /\ Scan!ToSet(s) = {Head(s)} \cup Scan!ToSet(Tail(s))
         /\ NoRepeats(s) => NoRepeats(Tail(s)) /\ Head(s) \notin Scan!ToSet(Tail(s))
  <1> DEFINE t == Tail(s)
             n == Len(s)
  <1>1. /\ n \in Nat \ {0} /\ Head(s) = s[1] /\ s[1] \in S /\ DOMAIN s = 1..n
        /\ t \in Seq(S) /\ Len(t) = n - 1 /\ DOMAIN t = 1..(n - 1)
        /\ \A i \in 1..(n - 1) : t[i] = s[i + 1]
    BY EmptySeq
  <1> HIDE DEF t, n
  <1>2. \A i \in 1..n : i = 1 \/ (i - 1 \in 1..(n - 1) /\ (i - 1) + 1 = i)
    BY <1>1
  <1>3. \A i \in 1..(n - 1) : i + 1 \in 1..n /\ i + 1 # 1 /\ t[i] = s[i + 1]
    BY <1>1
  <1>6. \A i \in 1..n : i # 1 => i - 1 \in 1..(n - 1) /\ s[i] = t[i - 1]
    BY <1>1, <1>2
  <1>4. Scan!ToSet(s) = {s[1]} \cup Scan!ToSet(t)
    <2>1. Scan!ToSet(s) = {s[i] : i \in 1..n} /\ Scan!ToSet(t) = {t[i] : i \in 1..(n - 1)}
      BY <1>1 DEF Scan!ToSet
    <2>2. \A x \in Scan!ToSet(s) : x = s[1] \/ x \in Scan!ToSet(t)
      BY <1>6, <2>1
    <2>3. s[1] \in Scan!ToSet(s) /\ \A x \in Scan!ToSet(t) : x \in Scan!ToSet(s)
      BY <1>1, <1>3, <2>1
    <2> QED
      BY <2>2, <2>3
  <1>5. NoRepeats(s) => NoRepeats(t) /\ s[1] \notin Scan!ToSet(t)
    <2> SUFFICES ASSUME NoRepeats(s)  PROVE NoRepeats(t) /\ s[1] \notin Scan!ToSet(t)
      OBVIOUS
    <2>0. \A i, k \in 1..n : s[i] = s[k] => i = k
      BY <1>1 DEF NoRepeats
    <2>1. ASSUME NEW i \in 1..(n - 1), NEW k \in 1..(n - 1), t[i] = t[k]
          PROVE  i = k
      <3>1. i + 1 \in 1..n /\ k + 1 \in 1..n /\ s[i + 1] = s[k + 1]
        BY <1>3, <2>1
      <3>2. i + 1 = k + 1
        BY <2>0, <3>1
      <3> QED
        BY <1>1, <3>2
    <2>2. NoRepeats(t)
      BY <1>1, <2>1 DEF NoRepeats
    <2>3. ASSUME NEW i \in 1..(n - 1)  PROVE t[i] # s[1]
      <3>1. i + 1 \in 1..n /\ i + 1 # 1 /\ t[i] = s[i + 1] /\ 1 \in 1..n
        BY <1>1, <1>3
      <3> QED
        BY <2>0, <3>1
    <2> QED
      BY <1>1, <2>2, <2>3 DEF Scan!ToSet
  <1> QED
    BY <1>1, <1>4, <1>5 DEF t, n

LEMMA PutSeq ==
  ASSUME NEW S, NEW s \in Seq(S), NEW x \in S, NEW next,
         next = Append(s, x) \/ next = Scan!Promoted(Append(s, x))
  PROVE  /\ next \in Seq(S) /\ Len(next) = Len(s) + 1
         /\ Scan!ToSet(next) = Scan!ToSet(s) \cup {x}
         /\ NoRepeats(s) /\ x \notin Scan!ToSet(s) => NoRepeats(next)
  <1> DEFINE n == Len(s)
  <1>1. n \in Nat /\ DOMAIN s = 1..n
    OBVIOUS
  <1>2. CASE next = Append(s, x)
    <2>1. /\ next \in Seq(S) /\ Len(next) = n + 1 /\ DOMAIN next = 1..(n + 1)
          /\ \A i \in 1..n : next[i] = s[i]
          /\ next[n + 1] = x
      BY <1>2, AppendProperties
    <2> HIDE DEF n
    <2>2. \A i \in 1..(n + 1) : i \in 1..n \/ i = n + 1
      BY <1>1
    <2>3. \A i \in 1..n : i \in 1..(n + 1)
      BY <1>1
    <2>4. n + 1 \in 1..(n + 1)
      BY <1>1
    <2>5. Scan!ToSet(next) = Scan!ToSet(s) \cup {x}
      <3>1. Scan!ToSet(next) = {next[i] : i \in 1..(n + 1)} /\ Scan!ToSet(s) = {s[i] : i \in 1..n}
        BY <1>1, <2>1 DEF Scan!ToSet
      <3>2. \A y \in Scan!ToSet(next) : y \in Scan!ToSet(s) \cup {x}
        BY <2>1, <2>2, <3>1
      <3>3. \A y \in Scan!ToSet(s) \cup {x} : y \in Scan!ToSet(next)
        BY <2>1, <2>3, <2>4, <3>1
      <3> QED
        BY <3>2, <3>3
    <2>6. NoRepeats(s) /\ x \notin Scan!ToSet(s) => NoRepeats(next)
      BY <1>1, <2>1, <2>2 DEF NoRepeats, Scan!ToSet
    <2> QED
      BY <2>1, <2>5, <2>6 DEF n
  <1>3. CASE next = Scan!Promoted(Append(s, x))
    <2>1. Scan!Last(Append(s, x)) = x
      BY AppendProperties DEF Scan!Last
    <2>2. Scan!Front(Append(s, x)) = s
      <3> DEFINE a == Append(s, x)
      <3>1. a \in Seq(S) /\ Len(a) = n + 1 /\ \A i \in 1..n : a[i] = s[i]
        BY AppendProperties
      <3>2. SubSeq(a, 1, n) \in Seq(S) /\ Len(SubSeq(a, 1, n)) = n
            /\ \A i \in 1..n : SubSeq(a, 1, n)[i] = a[i]
        BY <1>1, <3>1
      <3>3. SubSeq(a, 1, n) = s
        BY <1>1, <3>1, <3>2, SeqEqual
      <3>4. Len(a) - 1 = n
        BY <1>1, <3>1
      <3> QED
        BY <3>3, <3>4 DEF Scan!Front
    <2>3. next = <<x>> \o s
      BY <1>3, <2>1, <2>2 DEF Scan!Promoted
    <2>4. /\ next \in Seq(S) /\ Len(next) = n + 1 /\ DOMAIN next = 1..(n + 1)
          /\ next[1] = x
          /\ \A i \in 1..n : next[i + 1] = s[i]
      BY <1>1, <2>3
    <2> HIDE DEF n
    <2>5. \A i \in 1..(n + 1) : i = 1 \/ (i - 1 \in 1..n /\ (i - 1) + 1 = i)
      BY <1>1
    <2>6. \A i \in 1..n : i + 1 \in 1..(n + 1)
      BY <1>1
    <2>7. 1 \in 1..(n + 1)
      BY <1>1
    <2>8. Scan!ToSet(next) = Scan!ToSet(s) \cup {x}
      <3>1. Scan!ToSet(next) = {next[i] : i \in 1..(n + 1)} /\ Scan!ToSet(s) = {s[i] : i \in 1..n}
        BY <1>1, <2>4 DEF Scan!ToSet
      <3>2. \A y \in Scan!ToSet(next) : y \in Scan!ToSet(s) \cup {x}
        BY <2>4, <2>5, <3>1
      <3>3. \A y \in Scan!ToSet(s) \cup {x} : y \in Scan!ToSet(next)
        BY <2>4, <2>6, <2>7, <3>1
      <3> QED
        BY <3>2, <3>3
    <2>9. NoRepeats(s) /\ x \notin Scan!ToSet(s) => NoRepeats(next)
      <3> SUFFICES ASSUME NoRepeats(s), x \notin Scan!ToSet(s),
                          NEW i \in 1..(n + 1), NEW k \in 1..(n + 1), next[i] = next[k]
                   PROVE  i = k
        BY <2>4 DEF NoRepeats
      <3>1. \A m \in 1..n : s[m] # x
        BY <1>1 DEF Scan!ToSet
      <3>2. \A m \in 1..(n + 1) : m # 1 => next[m] = s[m - 1] /\ m - 1 \in 1..n
        BY <2>4, <2>5
      <3>3. CASE i = 1 \/ k = 1
        BY <2>4, <3>1, <3>2, <3>3
      <3>4. CASE i # 1 /\ k # 1
        <4>1. i - 1 = k - 1
          BY <1>1, <3>2, <3>4 DEF NoRepeats
        <4> QED
          BY <1>1, <4>1
      <3> QED
        BY <3>3, <3>4
    <2> QED
      BY <2>4, <2>8, <2>9 DEF n
  <1> QED
    BY <1>2, <1>3

LEMMA SetOfSeq ==
  ASSUME NEW S, NEW s \in Seq(S)
  PROVE  Scan!ToSet(s) \subseteq S /\ (Scan!ToSet(s) = {} <=> s = <<>>)
  <1>1. Len(s) \in Nat /\ DOMAIN s = 1..Len(s) /\ \A i \in 1..Len(s) : s[i] \in S
    BY ElementOfSeq
  <1>2. s = <<>> <=> Len(s) = 0
    BY EmptySeq
  <1>3. Len(s) # 0 => 1 \in DOMAIN s
    BY <1>1
  <1>4. Len(s) = 0 => DOMAIN s = {}
    BY <1>1
  <1> QED
    BY <1>1, <1>2, <1>3, <1>4 DEF Scan!ToSet

-----------------------------------------------------------------------------
(* Types and control *)

\* TypeOK, but for the bound of the count, which follows from what it counts.
ScanTypes ==
  /\ lane \in [Scan!Lanes -> Seq(ScanItems)]
  /\ \A l \in Scan!Lanes : Len(lane[l]) <= LaneSize
  /\ streak \in 0..HighRatio
  /\ put \subseteq ScanItems
  /\ scanPc \in [ScanWorkers -> {"idle", "waiting", "working"}]
  /\ item \in [ScanWorkers -> ScanItems \cup {None}]
  /\ getter \in [ScanWorkers -> [Scan!Lanes -> {"off", "getting", "got"}]]
  /\ got \in [ScanWorkers -> [Scan!Lanes -> ScanItems \cup {None}]]
  /\ orphans \in [Scan!Lanes -> 0..MaxOrphans]
  /\ dropped \subseteq ScanItems
  /\ done \subseteq ScanItems
  /\ passed \in Nat

\* A worker that works holds an item, one that waits has its lane tasks.
ScanControl ==
  \A w \in ScanWorkers :
    /\ scanPc[w] = "working" <=> item[w] # None
    /\ \A l \in Scan!Lanes : /\ getter[w][l] = "got" <=> got[w][l] # None
                             /\ scanPc[w] = "waiting" <=> getter[w][l] # "off"

\* What taking the head of a lane leaves.
LEMMA LaneTaken ==
  ASSUME Scan!ConstantsAssumption, ScanTypes, NEW l \in Scan!Lanes, lane[l] # <<>>,
         lane' = [lane EXCEPT ![l] = Tail(@)]
  PROVE  /\ lane' \in [Scan!Lanes -> Seq(ScanItems)]
         /\ \A k \in Scan!Lanes : Len(lane'[k]) <= LaneSize
         /\ Head(lane[l]) \in ScanItems /\ Head(lane[l]) \in Scan!ToSet(lane[l])
         /\ \A k \in Scan!Lanes : Scan!ToSet(lane'[k]) \subseteq Scan!ToSet(lane[k])
         /\ NoRepeats(lane[l]) => NoRepeats(lane'[l]) /\ Head(lane[l]) \notin Scan!ToSet(lane'[l])
         /\ lane'[l] = Tail(lane[l]) /\ Len(lane'[l]) = Len(lane[l]) - 1
         /\ \A k \in Scan!Lanes : k # l => lane'[k] = lane[k]
  <1>1. /\ lane[l] \in Seq(ScanItems) /\ lane'[l] = Tail(lane[l])
        /\ \A k \in Scan!Lanes : k # l => lane'[k] = lane[k]
    BY DEF ScanTypes
  <1> DEFINE s == lane[l]
  <1>s. s \in Seq(ScanItems) /\ s # <<>>
    BY <1>1
  <1> HIDE DEF s
  <1>t. /\ Head(s) \in ScanItems /\ Tail(s) \in Seq(ScanItems) /\ Len(Tail(s)) = Len(s) - 1
        /\ Len(s) \in Nat \ {0}
        /\ Scan!ToSet(s) = {Head(s)} \cup Scan!ToSet(Tail(s))
        /\ NoRepeats(s) => NoRepeats(Tail(s)) /\ Head(s) \notin Scan!ToSet(Tail(s))
    BY <1>s, TakeHead
  <1>2. /\ Head(lane[l]) \in ScanItems /\ lane'[l] \in Seq(ScanItems)
        /\ Len(lane'[l]) = Len(lane[l]) - 1 /\ Len(lane[l]) \in Nat \ {0}
        /\ Scan!ToSet(lane[l]) = {Head(lane[l])} \cup Scan!ToSet(lane'[l])
        /\ NoRepeats(lane[l]) => NoRepeats(lane'[l]) /\ Head(lane[l]) \notin Scan!ToSet(lane'[l])
    BY <1>1, <1>t DEF s
  <1>3. LaneSize \in Nat /\ Len(lane[l]) <= LaneSize
    BY DEF Scan!ConstantsAssumption, ScanTypes
  <1>4. Len(lane'[l]) <= LaneSize
    BY <1>2, <1>3
  <1>5. lane' \in [Scan!Lanes -> Seq(ScanItems)]
    BY <1>1, <1>2 DEF ScanTypes
  <1>6. \A k \in Scan!Lanes : Len(lane'[k]) <= LaneSize /\ Scan!ToSet(lane'[k]) \subseteq Scan!ToSet(lane[k])
    BY <1>1, <1>2, <1>4 DEF ScanTypes
  <1> QED
    BY <1>1, <1>2, <1>5, <1>6

LEMMA LanePut ==
  ASSUME Scan!ConstantsAssumption, ScanTypes, NEW i \in ScanItems, Scan!Put(i)
  PROVE  /\ lane' \in [Scan!Lanes -> Seq(ScanItems)]
         /\ \A k \in Scan!Lanes : Len(lane'[k]) <= LaneSize
         /\ Scan!LaneOf(i) \in Scan!Lanes
         /\ Scan!ToSet(lane'[Scan!LaneOf(i)]) = Scan!ToSet(lane[Scan!LaneOf(i)]) \cup {i}
         /\ Len(lane'[Scan!LaneOf(i)]) = Len(lane[Scan!LaneOf(i)]) + 1
         /\ NoRepeats(lane[Scan!LaneOf(i)]) /\ i \notin Scan!ToSet(lane[Scan!LaneOf(i)]) => NoRepeats(lane'[Scan!LaneOf(i)])
         /\ \A k \in Scan!Lanes : k # Scan!LaneOf(i) => lane'[k] = lane[k]
  <1> DEFINE l == Scan!LaneOf(i)
  <1>1. l \in Scan!Lanes
    BY DEF Scan!LaneOf, Scan!Lanes
  <1>2. PICK next \in {Append(lane[l], i), Scan!Promoted(Append(lane[l], i))} :
          lane' = [lane EXCEPT ![l] = next]
    BY DEF Scan!Put
  <1> HIDE DEF l
  <1>3. lane[l] \in Seq(ScanItems) /\ Len(lane[l]) < LaneSize /\ Len(lane[l]) \in Nat /\ LaneSize \in Nat
    BY <1>1 DEF ScanTypes, Scan!Put, l, Scan!ConstantsAssumption
  <1>4. /\ next \in Seq(ScanItems) /\ Len(next) = Len(lane[l]) + 1
        /\ Scan!ToSet(next) = Scan!ToSet(lane[l]) \cup {i}
        /\ NoRepeats(lane[l]) /\ i \notin Scan!ToSet(lane[l]) => NoRepeats(next)
    <2> DEFINE s == lane[l]
    <2>1. s \in Seq(ScanItems) /\ (next = Append(s, i) \/ next = Scan!Promoted(Append(s, i)))
      BY <1>3
    <2> HIDE DEF s
    <2>2. /\ next \in Seq(ScanItems) /\ Len(next) = Len(s) + 1
          /\ Scan!ToSet(next) = Scan!ToSet(s) \cup {i}
          /\ NoRepeats(s) /\ i \notin Scan!ToSet(s) => NoRepeats(next)
      BY <2>1, PutSeq
    <2> QED
      BY <2>2 DEF s
  <1>5. lane'[l] = next /\ \A k \in Scan!Lanes : k # l => lane'[k] = lane[k]
    BY <1>1, <1>2 DEF ScanTypes
  <1>6. lane' \in [Scan!Lanes -> Seq(ScanItems)]
    BY <1>1, <1>2, <1>4 DEF ScanTypes
  <1>7. \A k \in Scan!Lanes : Len(lane'[k]) <= LaneSize
    <2>1. Len(next) <= LaneSize
      BY <1>3, <1>4
    <2> QED
      BY <2>1, <1>5 DEF ScanTypes
  <1> QED
    BY <1>1, <1>4, <1>5, <1>6, <1>7 DEF l

LEMMA PassedTyped ==
  ASSUME ScanTypes, NEW b \in BOOLEAN, NEW fetchers, Scan!NotePassed(b, fetchers)
  PROVE  passed' \in Nat
BY DEF Scan!NotePassed, ScanTypes

LEMMA ScanTypesStep ==
  ASSUME Scan!ConstantsAssumption, ScanTypes, ScanControl, [Scan!Next]_Scan!vars
  PROVE  ScanTypes' /\ ScanControl'
  <1>0. /\ HighRatio \in Nat \ {0} /\ MaxOrphans \in Nat /\ None \notin ScanItems
        /\ "high" \in Scan!Lanes /\ "low" \in Scan!Lanes /\ \A l \in Scan!Lanes : l \in {"high", "low"}
    BY DEF Scan!ConstantsAssumption, Scan!Lanes
  <1>n. \A b \in BOOLEAN : Scan!NextStreak(b) \in 0..HighRatio
    BY <1>0 DEF Scan!NextStreak, ScanTypes
  <1>1. CASE UNCHANGED Scan!vars
    BY <1>1 DEF Scan!vars, ScanTypes, ScanControl
  <1>2. ASSUME NEW i \in ScanItems, Scan!Put(i)  PROVE ScanTypes' /\ ScanControl'
    <2>1. lane' \in [Scan!Lanes -> Seq(ScanItems)] /\ \A k \in Scan!Lanes : Len(lane'[k]) <= LaneSize
      BY <1>2, LanePut
    <2>2. put' = put \cup {i} /\ UNCHANGED <<streak, scanPc, item, getter, got, orphans, dropped, done, passed>>
      BY <1>2 DEF Scan!Put
    <2> QED
      BY <2>1, <2>2 DEF ScanTypes, ScanControl
  <1>3. ASSUME NEW w \in ScanWorkers, Scan!GetNow(w)  PROVE ScanTypes' /\ ScanControl'
    <2> DEFINE l == Scan!Preferred
               h == Head(lane[l])
    <2>1. l \in Scan!Lanes
      BY DEF Scan!Preferred, Scan!Lanes
    <2>2. lane' \in [Scan!Lanes -> Seq(ScanItems)] /\ (\A k \in Scan!Lanes : Len(lane'[k]) <= LaneSize) /\ h \in ScanItems
      BY <1>3, <2>1, LaneTaken DEF Scan!GetNow
    <2>3. /\ streak' \in 0..HighRatio
          /\ passed' \in Nat
      BY <1>3, <1>n, PassedTyped DEF Scan!GetNow
    <2>4. /\ scanPc' = [scanPc EXCEPT ![w] = "working"] /\ item' = [item EXCEPT ![w] = h] /\ scanPc[w] = "idle"
          /\ UNCHANGED <<put, getter, got, orphans, dropped, done>>
      BY <1>3 DEF Scan!GetNow
    <2> HIDE DEF l, h
    <2>5. ScanTypes'
      BY <2>2, <2>3, <2>4 DEF ScanTypes
    <2>6. ScanControl'
      BY <1>0, <2>2, <2>4 DEF ScanControl, ScanTypes
    <2> QED
      BY <2>5, <2>6
  <1>4. ASSUME NEW w \in ScanWorkers, Scan!GetWait(w)  PROVE ScanTypes' /\ ScanControl'
    <2>1. /\ scanPc' = [scanPc EXCEPT ![w] = "waiting"] /\ scanPc[w] = "idle"
          /\ getter' = [getter EXCEPT ![w] = [l \in Scan!Lanes |-> "getting"]]
          /\ UNCHANGED <<lane, streak, put, item, got, orphans, dropped, done, passed>>
      BY <1>4 DEF Scan!GetWait
    <2>2. ScanTypes'
      BY <2>1 DEF ScanTypes
    <2>3. ScanControl'
      BY <2>1 DEF ScanControl, ScanTypes
    <2> QED
      BY <2>2, <2>3
  <1>5. ASSUME NEW w \in ScanWorkers, NEW l \in Scan!Lanes, Scan!LaneTaskGets(w, l)  PROVE ScanTypes' /\ ScanControl'
    <2> DEFINE h == Head(lane[l])
    <2>1. lane' \in [Scan!Lanes -> Seq(ScanItems)] /\ (\A k \in Scan!Lanes : Len(lane'[k]) <= LaneSize) /\ h \in ScanItems
      BY <1>5, LaneTaken DEF Scan!LaneTaskGets
    <2>2. /\ getter[w][l] = "getting"
          /\ getter' = [getter EXCEPT ![w][l] = "got"]
          /\ got' = [got EXCEPT ![w][l] = h]
          /\ UNCHANGED <<streak, put, scanPc, item, orphans, dropped, done, passed>>
      BY <1>5 DEF Scan!LaneTaskGets
    <2> HIDE DEF h
    <2>3. ScanTypes'
      BY <2>1, <2>2 DEF ScanTypes
    <2>4. \A v \in ScanWorkers, k \in Scan!Lanes :
            /\ getter'[v][k] = IF v = w /\ k = l THEN "got" ELSE getter[v][k]
            /\ got'[v][k] = IF v = w /\ k = l THEN h ELSE got[v][k]
      BY <2>2 DEF ScanTypes
    <2>5. ScanControl'
      BY <1>0, <2>1, <2>2, <2>4 DEF ScanControl
    <2> QED
      BY <2>3, <2>5
  <1>6. ASSUME NEW w \in ScanWorkers, Scan!GetResume(w)  PROVE ScanTypes' /\ ScanControl'
    <2> DEFINE finished == {l \in Scan!Lanes : getter[w][l] = "got"}
    <2>1. PICK l \in finished :
            /\ item' = [item EXCEPT ![w] = got[w][l]]
            /\ dropped' = dropped \cup {got[w][k] : k \in finished \ {l}}
            /\ Scan!NotePassed(l = "high", [getter EXCEPT ![w] = Scan!NoGetter])
      BY <1>6 DEF Scan!GetResume
    <2>2. got[w][l] \in ScanItems /\ \A k \in finished : got[w][k] \in ScanItems
      BY DEF ScanControl, ScanTypes
    <2>3. passed' \in Nat
      BY <2>1, PassedTyped
    <2>4. /\ scanPc' = [scanPc EXCEPT ![w] = "working"]
          /\ getter' = [getter EXCEPT ![w] = Scan!NoGetter]
          /\ got' = [got EXCEPT ![w] = Scan!NoResult]
          /\ UNCHANGED <<lane, put, orphans, done>>
      BY <1>6 DEF Scan!GetResume
    <2>8. streak' \in 0..HighRatio
      <3>1. streak' = Scan!NextStreak("high" \in finished)
        BY <1>6 DEF Scan!GetResume
      <3>2. ("high" \in finished) \in BOOLEAN
        OBVIOUS
      <3> QED
        BY <1>n, <3>1, <3>2
    <2>5. dropped' \subseteq ScanItems
      BY <2>1, <2>2 DEF ScanTypes
    <2> HIDE DEF finished
    <2>6. ScanTypes'
      BY <2>1, <2>2, <2>3, <2>4, <2>5, <2>8 DEF ScanTypes, Scan!NoGetter, Scan!NoResult
    <2>7. ScanControl'
      BY <1>0, <2>1, <2>2, <2>4 DEF ScanControl, ScanTypes, Scan!NoGetter, Scan!NoResult
    <2> QED
      BY <2>6, <2>7
  <1>7. ASSUME NEW w \in ScanWorkers, Scan!GetTimeout(w)  PROVE ScanTypes' /\ ScanControl'
    <2> DEFINE finished == {k \in Scan!Lanes : getter[w][k] = "got"}
    <2>1. /\ scanPc' = [scanPc EXCEPT ![w] = "idle"] /\ scanPc[w] = "waiting"
          /\ orphans' = [l \in Scan!Lanes |-> orphans[l] + IF getter[w][l] = "getting" THEN 1 ELSE 0]
          /\ dropped' = dropped \cup {got[w][l] : l \in finished}
          /\ getter' = [getter EXCEPT ![w] = Scan!NoGetter]
          /\ got' = [got EXCEPT ![w] = Scan!NoResult]
          /\ UNCHANGED <<lane, streak, put, item, done, passed>>
          /\ \A l \in Scan!Lanes : orphans[l] < MaxOrphans
      BY <1>7 DEF Scan!GetTimeout
    <2>2. \A k \in finished : got[w][k] \in ScanItems
      BY DEF ScanControl, ScanTypes
    <2>3. dropped' \subseteq ScanItems
      BY <2>1, <2>2 DEF ScanTypes
    <2> HIDE DEF finished
    <2>4. orphans' \in [Scan!Lanes -> 0..MaxOrphans]
      BY <1>0, <2>1 DEF ScanTypes
    <2>5. ScanTypes'
      BY <2>1, <2>3, <2>4 DEF ScanTypes, Scan!NoGetter, Scan!NoResult
    <2>6. ScanControl'
      BY <1>0, <2>1 DEF ScanControl, ScanTypes, Scan!NoGetter, Scan!NoResult
    <2> QED
      BY <2>5, <2>6
  <1>8. ASSUME NEW l \in Scan!Lanes, Scan!OrphanGets(l)  PROVE ScanTypes' /\ ScanControl'
    <2>1. lane' \in [Scan!Lanes -> Seq(ScanItems)] /\ (\A k \in Scan!Lanes : Len(lane'[k]) <= LaneSize)
          /\ Head(lane[l]) \in ScanItems
      BY <1>8, LaneTaken DEF Scan!OrphanGets
    <2>2. orphans' \in [Scan!Lanes -> 0..MaxOrphans]
      BY <1>0, <1>8 DEF Scan!OrphanGets, ScanTypes
    <2> QED
      BY <1>8, <2>1, <2>2 DEF Scan!OrphanGets, ScanTypes, ScanControl
  <1>9. ASSUME NEW w \in ScanWorkers, Scan!TaskDone(w)  PROVE ScanTypes' /\ ScanControl'
    <2>1. item[w] \in ScanItems
      BY <1>9 DEF Scan!TaskDone, ScanControl, ScanTypes
    <2> QED
      BY <1>9, <2>1 DEF Scan!TaskDone, ScanTypes, ScanControl
  <1>10. CASE Scan!Drain
    <2> DEFINE queued == UNION {Scan!ToSet(lane[l]) : l \in Scan!Lanes}
    <2>1. /\ lane' = [l \in Scan!Lanes |-> <<>>] /\ done' = done \cup queued
          /\ streak' \in 0..HighRatio /\ passed' = 0
          /\ UNCHANGED <<put, scanPc, item, getter, got, orphans, dropped>>
      BY <1>10 DEF Scan!Drain
    <2>2. queued \subseteq ScanItems
      BY SetOfSeq DEF ScanTypes
    <2>3. lane' \in [Scan!Lanes -> Seq(ScanItems)] /\ \A k \in Scan!Lanes : Len(lane'[k]) <= LaneSize
      BY <2>1 DEF Scan!ConstantsAssumption
    <2> HIDE DEF queued
    <2> QED
      BY <2>1, <2>2, <2>3 DEF ScanTypes, ScanControl
  <1> QED
    BY <1>1, <1>2, <1>3, <1>4, <1>5, <1>6, <1>7, <1>8, <1>9, <1>10 DEF Scan!Next

-----------------------------------------------------------------------------
(* An item is in one place *)

Held(i) == i \in put /\ i \notin done /\ i \notin dropped
Free(i) ==
  /\ Held(i)
  /\ \A w \in ScanWorkers : item[w] # i /\ \A l \in Scan!Lanes : got[w][l] # i

QueuedApart ==
  \A l \in Scan!Lanes :
    /\ NoRepeats(lane[l])
    /\ \A i \in Scan!ToSet(lane[l]) : Scan!LaneOf(i) = l /\ Free(i)
TasksApart ==
  \A w \in ScanWorkers, l \in Scan!Lanes : got[w][l] # None =>
    /\ Scan!LaneOf(got[w][l]) = l /\ Held(got[w][l])
    /\ \A v \in ScanWorkers : item[v] # got[w][l] /\ (v # w => got[v][l] # got[w][l])
WorkApart ==
  \A w \in ScanWorkers : item[w] # None =>
    /\ Held(item[w])
    /\ \A v \in ScanWorkers : v # w => item[v] # item[w]
LedgersApart == done \subseteq put /\ dropped \subseteq put /\ dropped \cap done = {}

Apart == QueuedApart /\ TasksApart /\ WorkApart /\ LedgersApart

\* The head of a lane is in no other place, and in none of the lanes once it is taken.
LEMMA HeadApart ==
  ASSUME Scan!ConstantsAssumption, ScanTypes, Apart, NEW l \in Scan!Lanes, lane[l] # <<>>,
         lane' = [lane EXCEPT ![l] = Tail(@)]
  PROVE  /\ Head(lane[l]) \in ScanItems /\ Scan!LaneOf(Head(lane[l])) = l /\ Free(Head(lane[l]))
         /\ Head(lane[l]) # None
         /\ \A k \in Scan!Lanes : /\ NoRepeats(lane'[k])
                                  /\ \A i \in Scan!ToSet(lane'[k]) : i # Head(lane[l]) /\ Scan!LaneOf(i) = k /\ Free(i)
  <1>1. /\ Head(lane[l]) \in ScanItems /\ Head(lane[l]) \in Scan!ToSet(lane[l])
        /\ \A k \in Scan!Lanes : Scan!ToSet(lane'[k]) \subseteq Scan!ToSet(lane[k])
        /\ NoRepeats(lane[l]) => NoRepeats(lane'[l]) /\ Head(lane[l]) \notin Scan!ToSet(lane'[l])
        /\ \A k \in Scan!Lanes : k # l => lane'[k] = lane[k]
    BY LaneTaken
  <1>2. \A k \in Scan!Lanes : NoRepeats(lane[k]) /\ \A i \in Scan!ToSet(lane[k]) : Scan!LaneOf(i) = k /\ Free(i)
    BY DEF Apart, QueuedApart
  <1>3. Scan!LaneOf(Head(lane[l])) = l /\ Free(Head(lane[l]))
    BY <1>1, <1>2
  <1>4. Head(lane[l]) # None
    BY <1>1 DEF Scan!ConstantsAssumption
  <1>5. ASSUME NEW k \in Scan!Lanes
        PROVE  /\ NoRepeats(lane'[k])
               /\ \A i \in Scan!ToSet(lane'[k]) : i # Head(lane[l]) /\ Scan!LaneOf(i) = k /\ Free(i)
    <2>1. NoRepeats(lane'[k])
      BY <1>1, <1>2
    <2>2. \A i \in Scan!ToSet(lane'[k]) : Scan!LaneOf(i) = k /\ Free(i)
      BY <1>1, <1>2
    <2>3. \A i \in Scan!ToSet(lane'[k]) : i # Head(lane[l])
      BY <1>1, <1>2, <1>3
    <2> QED
      BY <2>1, <2>2, <2>3
  <1> QED
    BY <1>1, <1>3, <1>4, <1>5

LEMMA ApartStep ==
  ASSUME Scan!ConstantsAssumption, ScanTypes, ScanControl, Apart, [Scan!Next]_Scan!vars
  PROVE  Apart'
  <1>t. ScanTypes' /\ ScanControl'
    BY ScanTypesStep
  <1>0. None \notin ScanItems /\ \A l \in Scan!Lanes : Scan!NoResult[l] = None
    BY DEF Scan!ConstantsAssumption, Scan!NoResult
  <1>1. CASE UNCHANGED Scan!vars
    BY <1>1 DEF Scan!vars, Apart, QueuedApart, TasksApart, WorkApart, LedgersApart, Free, Held
  <1>2. ASSUME NEW i \in ScanItems, Scan!Put(i)  PROVE Apart'
    <2>1. /\ put' = put \cup {i} /\ i \notin put
          /\ UNCHANGED <<item, got, dropped, done>>
      BY <1>2 DEF Scan!Put
    <2>2. /\ Scan!LaneOf(i) \in Scan!Lanes
          /\ Scan!ToSet(lane'[Scan!LaneOf(i)]) = Scan!ToSet(lane[Scan!LaneOf(i)]) \cup {i}
          /\ NoRepeats(lane[Scan!LaneOf(i)]) /\ i \notin Scan!ToSet(lane[Scan!LaneOf(i)]) => NoRepeats(lane'[Scan!LaneOf(i)])
          /\ \A k \in Scan!Lanes : k # Scan!LaneOf(i) => lane'[k] = lane[k]
      BY <1>2, LanePut
    <2>3. (Free(i))'
      <3>1. \A w \in ScanWorkers : item[w] # i /\ \A l \in Scan!Lanes : got[w][l] # i
        BY <1>0, <2>1 DEF Apart, TasksApart, WorkApart, Held
      <3> QED
        BY <2>1, <3>1 DEF Free, Held, Apart, LedgersApart
    <2>4. \A x : Free(x) => (Free(x))'
      BY <2>1 DEF Free, Held
    <2>5. QueuedApart'
      <3>1. \A k \in Scan!Lanes : NoRepeats(lane[k]) /\ \A x \in Scan!ToSet(lane[k]) : Scan!LaneOf(x) = k /\ Free(x)
        BY DEF Apart, QueuedApart
      <3>2. i \notin Scan!ToSet(lane[Scan!LaneOf(i)])
        BY <2>1, <2>2, <3>1 DEF Free, Held
      <3> QED
        BY <2>2, <2>3, <2>4, <3>1, <3>2 DEF QueuedApart
    <2>6. TasksApart' /\ WorkApart' /\ LedgersApart'
      BY <2>1 DEF Apart, TasksApart, WorkApart, LedgersApart, Held
    <2> QED
      BY <2>5, <2>6 DEF Apart
  <1>3. ASSUME NEW w \in ScanWorkers, Scan!GetNow(w)  PROVE Apart'
    <2>1. PICK l \in Scan!Lanes : /\ lane[l] # <<>> /\ lane' = [lane EXCEPT ![l] = Tail(@)]
                                  /\ item' = [item EXCEPT ![w] = Head(lane[l])]
                                  /\ scanPc[w] = "idle" /\ UNCHANGED <<put, got, dropped, done>>
      BY <1>3 DEF Scan!GetNow, Scan!Preferred, Scan!Lanes
    <2>2. PICK h \in ScanItems : h = Head(lane[l])
      BY <2>1, HeadApart
    <2>3. /\ Free(h) /\ h # None
          /\ \A k \in Scan!Lanes : /\ NoRepeats(lane'[k])
                                   /\ \A i \in Scan!ToSet(lane'[k]) : i # h /\ Scan!LaneOf(i) = k /\ Free(i)
      BY <2>1, <2>2, HeadApart
    <2>4. \A v \in ScanWorkers : item'[v] = IF v = w THEN h ELSE item[v]
      BY <2>1, <2>2 DEF ScanTypes
    <2>5. QueuedApart'
      <3>1. \A i : i # h /\ Free(i) => (Free(i))'
        BY <2>1, <2>4 DEF Free, Held
      <3> QED
        BY <2>3, <3>1 DEF QueuedApart
    <2>6. TasksApart' /\ WorkApart' /\ LedgersApart'
      BY <2>1, <2>3, <2>4 DEF Apart, TasksApart, WorkApart, LedgersApart, Free, Held
    <2> QED
      BY <2>5, <2>6 DEF Apart
  <1>4. ASSUME NEW w \in ScanWorkers, Scan!GetWait(w)  PROVE Apart'
    BY <1>4 DEF Scan!GetWait, Apart, QueuedApart, TasksApart, WorkApart, LedgersApart, Free, Held
  <1>5. ASSUME NEW w \in ScanWorkers, NEW l \in Scan!Lanes, Scan!LaneTaskGets(w, l)  PROVE Apart'
    <2>1. /\ lane[l] # <<>> /\ lane' = [lane EXCEPT ![l] = Tail(@)]
          /\ got' = [got EXCEPT ![w][l] = Head(lane[l])]
          /\ UNCHANGED <<put, item, dropped, done>>
      BY <1>5 DEF Scan!LaneTaskGets
    <2>2. PICK h \in ScanItems : h = Head(lane[l])
      BY <2>1, HeadApart
    <2>3. /\ Free(h) /\ h # None /\ Scan!LaneOf(h) = l
          /\ \A k \in Scan!Lanes : /\ NoRepeats(lane'[k])
                                   /\ \A i \in Scan!ToSet(lane'[k]) : i # h /\ Scan!LaneOf(i) = k /\ Free(i)
      BY <2>1, <2>2, HeadApart
    <2>4. \A v \in ScanWorkers, k \in Scan!Lanes : got'[v][k] = IF v = w /\ k = l THEN h ELSE got[v][k]
      BY <2>1, <2>2 DEF ScanTypes
    <2>5. QueuedApart'
      <3>1. \A i : i # h /\ Free(i) => (Free(i))'
        BY <2>1, <2>4 DEF Free, Held
      <3> QED
        BY <2>3, <3>1 DEF QueuedApart
    <2>6. TasksApart'
      BY <2>1, <2>3, <2>4 DEF Apart, TasksApart, Free, Held
    <2>7. WorkApart' /\ LedgersApart'
      BY <2>1 DEF Apart, WorkApart, LedgersApart, Held
    <2> QED
      BY <2>5, <2>6, <2>7 DEF Apart
  <1>6. ASSUME NEW w \in ScanWorkers, Scan!GetResume(w) \/ Scan!GetTimeout(w)  PROVE Apart'
    <2> DEFINE finished == {k \in Scan!Lanes : getter[w][k] = "got"}
    <2>1. /\ got' = [got EXCEPT ![w] = Scan!NoResult]
          /\ UNCHANGED <<lane, put, done>>
          /\ scanPc[w] = "waiting"
      BY <1>6 DEF Scan!GetResume, Scan!GetTimeout
    <2>2. \/ \E l \in finished : /\ item' = [item EXCEPT ![w] = got[w][l]]
                                 /\ dropped' = dropped \cup {got[w][k] : k \in finished \ {l}}
          \/ item' = item /\ dropped' = dropped \cup {got[w][k] : k \in finished}
      BY <1>6 DEF Scan!GetResume, Scan!GetTimeout
    <2>3. \A k \in finished : k \in Scan!Lanes /\ got[w][k] # None
      BY DEF ScanControl
    <2>4. item[w] = None
      BY <2>1 DEF ScanControl
    <2>5. \A v \in ScanWorkers, k \in Scan!Lanes : got'[v][k] = IF v = w THEN None ELSE got[v][k]
      BY <1>0, <2>1 DEF ScanTypes
    <2> HIDE DEF finished
    <2>6. \/ \E l \in finished : /\ \A v \in ScanWorkers : item'[v] = IF v = w THEN got[w][l] ELSE item[v]
                                 /\ \A x : x \in dropped' <=>
                                      x \in dropped \/ \E k \in finished \ {l} : x = got[w][k]
          \/ item' = item /\ \A x : x \in dropped' <=> x \in dropped \/ \E k \in finished : x = got[w][k]
      <3>1. CASE item' = item /\ dropped' = dropped \cup {got[w][k] : k \in finished}
        BY <3>1
      <3>2. ASSUME NEW l \in finished, item' = [item EXCEPT ![w] = got[w][l]],
                   dropped' = dropped \cup {got[w][k] : k \in finished \ {l}}
            PROVE  /\ \A v \in ScanWorkers : item'[v] = IF v = w THEN got[w][l] ELSE item[v]
                   /\ \A x : x \in dropped' <=> x \in dropped \/ \E k \in finished \ {l} : x = got[w][k]
        BY <3>2 DEF ScanTypes
      <3> QED
        BY <2>2, <3>1, <3>2
    <2>7. \A x \in dropped' : x \in dropped \/ \E k \in finished : x = got[w][k]
      BY <2>6
    <2>8. \A v \in ScanWorkers : item'[v] = item[v] \/ (v = w /\ \E k \in finished : item'[v] = got[w][k])
      BY <2>6
    <2>9. QueuedApart'
      <3>1. ASSUME NEW i, Free(i)  PROVE (Free(i))'
        <4>1. i \notin dropped'
          BY <2>3, <2>7, <3>1 DEF Free, Held
        <4>2. \A v \in ScanWorkers : item'[v] # i
          BY <2>3, <2>8, <3>1 DEF Free
        <4>3. \A v \in ScanWorkers, k \in Scan!Lanes : got'[v][k] # i
          <5>1. \A v \in ScanWorkers, k \in Scan!Lanes : got'[v][k] = None \/ got'[v][k] = got[v][k]
            BY <2>5
          <5>2. i # None
            BY <1>0, <3>1 DEF Free, Held, ScanTypes
          <5> QED
            BY <3>1, <5>1, <5>2 DEF Free
        <4> QED
          BY <2>1, <3>1, <4>1, <4>2, <4>3 DEF Free, Held
      <3> QED
        BY <2>1, <3>1 DEF Apart, QueuedApart
    <2>10. ASSUME NEW v \in ScanWorkers, v # w, NEW k \in Scan!Lanes, got[v][k] # None
           PROVE  \A m \in finished : got[w][m] # got[v][k]
      BY <2>3, <2>10 DEF Apart, TasksApart
    <2>11. TasksApart'
      BY <2>1, <2>5, <2>7, <2>8, <2>10 DEF Apart, TasksApart, Held
    <2>12. ASSUME NEW v \in ScanWorkers, item[v] # None
           PROVE  \A m \in finished : got[w][m] # item[v]
      BY <2>3, <2>12 DEF Apart, TasksApart
    <2>13. \A m, k \in finished : m # k => got[w][m] # got[w][k]
      BY <2>3 DEF Apart, TasksApart
    <2>14. WorkApart'
      <3>1. ASSUME NEW v \in ScanWorkers, v # w, item'[v] # None
            PROVE  (Held(item[v]))' /\ item'[v] = item[v] /\ item'[v] # item'[w]
        <4>1. item'[v] = item[v]
          BY <2>8, <3>1
        <4> QED
          BY <2>1, <2>4, <2>7, <2>8, <2>12, <3>1, <4>1 DEF Apart, WorkApart, Held
      <3>2. item'[w] # None => (Held(item[w]))'
        <4>1. CASE item' = item
          BY <2>4, <4>1
        <4>2. ASSUME NEW l \in finished, item'[w] = got[w][l],
                     \A x : x \in dropped' <=> x \in dropped \/ \E k \in finished \ {l} : x = got[w][k]
              PROVE  (Held(item[w]))'
          BY <2>1, <2>3, <2>13, <4>2 DEF Apart, TasksApart, Held
        <4> QED
          BY <2>6, <4>1, <4>2
      <3>3. ASSUME NEW v \in ScanWorkers, NEW u \in ScanWorkers, v # u, item'[v] # None
            PROVE  item'[u] # item'[v]
        <4>1. CASE v # w /\ u # w
          BY <3>1, <3>3, <4>1 DEF Apart, WorkApart
        <4>2. CASE v = w \/ u = w
          BY <3>1, <3>3, <4>2
        <4> QED
          BY <4>1, <4>2
      <3>4. \A v \in ScanWorkers : item'[v] # None => (Held(item[v]))'
        BY <3>1, <3>2
      <3> QED
        BY <3>3, <3>4 DEF WorkApart
    <2>15. LedgersApart'
      BY <2>1, <2>3, <2>7 DEF Apart, TasksApart, LedgersApart, Held
    <2> QED
      BY <2>9, <2>11, <2>14, <2>15 DEF Apart
  <1>7. ASSUME NEW l \in Scan!Lanes, Scan!OrphanGets(l)  PROVE Apart'
    <2>1. /\ lane[l] # <<>> /\ lane' = [lane EXCEPT ![l] = Tail(@)]
          /\ dropped' = dropped \cup {Head(lane[l])}
          /\ UNCHANGED <<put, item, got, done>>
      BY <1>7 DEF Scan!OrphanGets
    <2>2. PICK h \in ScanItems : h = Head(lane[l])
      BY <2>1, HeadApart
    <2>3. /\ Free(h) /\ h # None
          /\ \A k \in Scan!Lanes : /\ NoRepeats(lane'[k])
                                   /\ \A i \in Scan!ToSet(lane'[k]) : i # h /\ Scan!LaneOf(i) = k /\ Free(i)
      BY <2>1, <2>2, HeadApart
    <2>4. \A i : i # h /\ Free(i) => (Free(i))'
      BY <2>1, <2>2 DEF Free, Held
    <2>5. QueuedApart'
      BY <2>3, <2>4 DEF QueuedApart
    <2>6. TasksApart' /\ WorkApart' /\ LedgersApart'
      BY <2>1, <2>2, <2>3 DEF Apart, TasksApart, WorkApart, LedgersApart, Free, Held
    <2> QED
      BY <2>5, <2>6 DEF Apart
  <1>8. ASSUME NEW w \in ScanWorkers, Scan!TaskDone(w)  PROVE Apart'
    <2>1. /\ done' = done \cup {item[w]} /\ item[w] # None
          /\ UNCHANGED <<lane, put, got, dropped>>
          /\ \A v \in ScanWorkers : item'[v] = IF v = w THEN None ELSE item[v]
      BY <1>8 DEF Scan!TaskDone, ScanControl, ScanTypes
    <2>2. ASSUME NEW i, Free(i)  PROVE (Free(i))'
      <3>1. i # None
        BY <1>0, <2>2 DEF Free, Held, ScanTypes
      <3> QED
        BY <2>1, <2>2, <3>1 DEF Free, Held
    <2>3. QueuedApart'
      BY <2>1, <2>2 DEF Apart, QueuedApart
    <2>4. TasksApart'
      BY <2>1 DEF Apart, TasksApart, Held
    <2>5. WorkApart' /\ LedgersApart'
      BY <2>1 DEF Apart, WorkApart, LedgersApart, Held
    <2> QED
      BY <2>3, <2>4, <2>5 DEF Apart
  <1>9. CASE Scan!Drain
    <2> DEFINE queued == UNION {Scan!ToSet(lane[l]) : l \in Scan!Lanes}
    <2>1. /\ lane' = [l \in Scan!Lanes |-> <<>>] /\ done' = done \cup queued
          /\ UNCHANGED <<put, item, got, dropped>>
      BY <1>9 DEF Scan!Drain
    <2>2. \A i \in queued : Free(i)
      BY DEF Apart, QueuedApart
    <2> HIDE DEF queued
    <2>3. QueuedApart'
      BY <2>1 DEF QueuedApart, NoRepeats, Scan!ToSet
    <2>4. TasksApart' /\ WorkApart' /\ LedgersApart'
      BY <2>1, <2>2 DEF Apart, TasksApart, WorkApart, LedgersApart, Free, Held
    <2> QED
      BY <2>3, <2>4 DEF Apart
  <1> QED
    BY <1>1, <1>2, <1>3, <1>4, <1>5, <1>6, <1>7, <1>8, <1>9 DEF Scan!Next

-----------------------------------------------------------------------------
(* The count of unfinished items *)

ScanCounted == unfinished = Cardinality(put \ done)

LEMMA CountStep ==
  ASSUME Scan!ConstantsAssumption, ScanTypes, ScanControl, Apart, ScanCounted, [Scan!Next]_Scan!vars
  PROVE  ScanCounted'
  <1> DEFINE open == put \ done
  <1>1. IsFiniteSet(open) /\ Cardinality(open) \in Nat
    <2>1. IsFiniteSet(ScanItems) /\ open \subseteq ScanItems
      BY ScanFiniteSets DEF Scan!ConstantsAssumption, ScanTypes
    <2> QED
      BY <2>1, FS_Subset, FS_CardinalityType
  <1>2. CASE UNCHANGED <<unfinished, put, done>>
    BY <1>2 DEF ScanCounted
  <1>3. ASSUME NEW i \in ScanItems, Scan!Put(i)  PROVE ScanCounted'
    <2>1. put' = put \cup {i} /\ i \notin put /\ done' = done /\ unfinished' = unfinished + 1
      BY <1>3 DEF Scan!Put
    <2>2. open' = open \cup {i} /\ i \notin open
      BY <2>1 DEF Apart, LedgersApart
    <2>3. Cardinality(open \cup {i}) = Cardinality(open) + 1
      BY <1>1, <2>2, FS_AddElement
    <2> QED
      BY <2>1, <2>2, <2>3 DEF ScanCounted
  <1>4. ASSUME NEW w \in ScanWorkers, Scan!TaskDone(w)  PROVE ScanCounted'
    <2>1. put' = put /\ done' = done \cup {item[w]} /\ unfinished' = unfinished - 1
      BY <1>4 DEF Scan!TaskDone
    <2>2. open' = open \ {item[w]} /\ item[w] \in open
      BY <1>4, <2>1 DEF Scan!TaskDone, ScanControl, Apart, WorkApart, Held
    <2>3. Cardinality(open \ {item[w]}) = Cardinality(open) - 1
      BY <1>1, <2>2, FS_RemoveElement
    <2> QED
      BY <2>1, <2>2, <2>3 DEF ScanCounted
  <1>5. CASE Scan!Drain
    <2> DEFINE queued == UNION {Scan!ToSet(lane[l]) : l \in Scan!Lanes}
    <2>1. put' = put /\ done' = done \cup queued /\ unfinished' = unfinished - Cardinality(queued)
      BY ScanFiniteSets, <1>5 DEF Scan!Drain
    <2>2. \A i \in queued : i \in open
      BY DEF Apart, QueuedApart, Free, Held
    <2> HIDE DEF queued
    <2>3. open' = open \ queued /\ open \cap queued = queued
      BY <2>1, <2>2
    <2>4. Cardinality(open \ queued) = Cardinality(open) - Cardinality(queued)
      BY <1>1, <2>3, FS_Difference
    <2> QED
      BY <2>1, <2>3, <2>4 DEF ScanCounted
  <1> QED
    BY <1>2, <1>3, <1>4, <1>5
      DEF Scan!Next, Scan!vars, Scan!GetNow, Scan!GetWait, Scan!GetResume, Scan!GetTimeout, Scan!LaneTaskGets, Scan!OrphanGets

-----------------------------------------------------------------------------
(* How often a low item is passed over *)

Fetching == {v \in ScanWorkers : getter[v]["low"] = "getting"}
Waiting == {v \in ScanWorkers : scanPc[v] = "waiting"}

\* Each time a low item is passed over, the streak grows or a get that waits ends;
\* no new get waits while a low item is left for nobody's lane task.
Passing ==
  /\ passed + Cardinality(Waiting) <= streak + Cardinality(ScanWorkers)
  /\ passed > 0 => Len(lane["low"]) > orphans["low"] + Cardinality(Fetching)

LEMMA WorkerSets ==
  ASSUME Scan!ConstantsAssumption
  PROVE  /\ IsFiniteSet(Waiting) /\ Cardinality(Waiting) \in Nat
         /\ IsFiniteSet(Fetching) /\ Cardinality(Fetching) \in Nat
         /\ Cardinality(ScanWorkers) \in Nat /\ Cardinality(Waiting) <= Cardinality(ScanWorkers)
BY ScanFiniteSets, FS_Subset, FS_CardinalityType DEF Scan!ConstantsAssumption, Waiting, Fetching

LEMMA WaitingEnds ==
  ASSUME Scan!ConstantsAssumption, ScanTypes, NEW w \in ScanWorkers, NEW to \in {"idle", "working"},
         scanPc' = [scanPc EXCEPT ![w] = to]
  PROVE  /\ scanPc[w] = "waiting" => Cardinality(Waiting') = Cardinality(Waiting) - 1
         /\ scanPc[w] # "waiting" => Cardinality(Waiting') = Cardinality(Waiting)
  <1>1. Waiting' = Waiting \ {w}
    BY DEF Waiting, ScanTypes
  <1>2. scanPc[w] = "waiting" => w \in Waiting
    BY DEF Waiting
  <1>3. scanPc[w] # "waiting" => Waiting' = Waiting
    BY <1>1 DEF Waiting
  <1> QED
    BY <1>1, <1>2, <1>3, WorkerSets, FS_RemoveElement

LEMMA FetchingEnds ==
  ASSUME Scan!ConstantsAssumption, ScanTypes, NEW w \in ScanWorkers, NEW to \in {"off", "got"},
         \A v \in ScanWorkers : getter'[v]["low"] = IF v = w THEN to ELSE getter[v]["low"]
  PROVE  /\ getter[w]["low"] = "getting" => Cardinality(Fetching') = Cardinality(Fetching) - 1
         /\ getter[w]["low"] # "getting" => Cardinality(Fetching') = Cardinality(Fetching)
  <1>1. Fetching' = Fetching \ {w}
    BY DEF Fetching
  <1>2. getter[w]["low"] = "getting" => w \in Fetching
    BY DEF Fetching
  <1>3. getter[w]["low"] # "getting" => Fetching' = Fetching
    BY <1>1 DEF Fetching
  <1> QED
    BY <1>1, <1>2, <1>3, WorkerSets, FS_RemoveElement

\* The two sums of the step in which a worker comes back with a high item, on numbers.
LEMMA OneLessWaits ==
  \A p, q, v, w, r, s, n \in Nat :
    p + v <= r + n /\ q <= p + 1 /\ w = v - 1 /\ s >= r => q + w <= s + n
OBVIOUS

LEMMA FewerFetch ==
  \A p, q, f, g, o, n \in Nat :
    (p > 0 => n > o + f) /\ g <= f /\ q = (IF n > o + g THEN p + 1 ELSE p) => (q > 0 => n > o + g)
OBVIOUS

LEMMA PassStep ==
  ASSUME Scan!ConstantsAssumption, ScanTypes, ScanControl, Passing, [Scan!Next]_Scan!vars
  PROVE  Passing'
  <1>t. ScanTypes'
    BY ScanTypesStep
  <1>w. /\ Cardinality(Waiting) \in Nat /\ Cardinality(ScanWorkers) \in Nat
        /\ Cardinality(Waiting) <= Cardinality(ScanWorkers)
        /\ Cardinality(Fetching) \in Nat
    BY WorkerSets
  <1>v. /\ Cardinality(Waiting') \in Nat /\ Cardinality(Waiting') <= Cardinality(ScanWorkers)
        /\ Cardinality(Fetching') \in Nat
    <2>1. IsFiniteSet(ScanWorkers) /\ Waiting' \subseteq ScanWorkers /\ Fetching' \subseteq ScanWorkers
      BY ScanFiniteSets DEF Scan!ConstantsAssumption, Waiting, Fetching
    <2> QED
      BY <2>1, FS_Subset, FS_CardinalityType
  <1>n. /\ passed \in Nat /\ passed' \in Nat /\ streak \in Nat /\ streak' \in Nat
        /\ orphans["low"] \in Nat /\ orphans'["low"] \in Nat
        /\ Len(lane["low"]) \in Nat /\ Len(lane'["low"]) \in Nat
        /\ lane["low"] = <<>> <=> Len(lane["low"]) = 0
    <2>1. HighRatio \in Nat /\ "low" \in Scan!Lanes /\ MaxOrphans \in Nat
      BY DEF Scan!ConstantsAssumption, Scan!Lanes
    <2>2. lane["low"] \in Seq(ScanItems) /\ lane'["low"] \in Seq(ScanItems)
      BY <1>t, <2>1 DEF ScanTypes
    <2> QED
      BY <1>t, <2>1, <2>2, EmptySeq DEF ScanTypes
  <1>0. ASSUME passed' = 0  PROVE Passing'
    BY <1>0, <1>v, <1>w, <1>n DEF Passing
  <1>s. ASSUME UNCHANGED <<lane, streak, orphans, passed, getter>>, Cardinality(Waiting') <= Cardinality(Waiting)
        PROVE  Passing'
    BY <1>s, <1>v, <1>w, <1>n DEF Passing, Fetching
  <1>1. CASE UNCHANGED Scan!vars
    BY <1>1 DEF Scan!vars, Passing, Waiting, Fetching
  <1>2. ASSUME NEW i \in ScanItems, Scan!Put(i)  PROVE Passing'
    <2>1. Len(lane'["low"]) >= Len(lane["low"])
      BY <1>2, <1>n, LanePut DEF Scan!Lanes
    <2>2. UNCHANGED <<streak, scanPc, getter, orphans, passed>>
      BY <1>2 DEF Scan!Put
    <2>3. Waiting' = Waiting /\ Fetching' = Fetching
      BY <2>2 DEF Waiting, Fetching
    <2> QED
      BY <1>n, <1>w, <2>1, <2>2, <2>3 DEF Passing
  <1>3. ASSUME NEW w \in ScanWorkers, Scan!GetNow(w)  PROVE Passing'
    <2> DEFINE l == Scan!Preferred
    <2>1. /\ Scan!NotePassed(l = "high", getter) /\ streak' = Scan!NextStreak(l = "high")
          /\ scanPc[w] = "idle" /\ scanPc' = [scanPc EXCEPT ![w] = "working"]
          /\ lane' = [lane EXCEPT ![l] = Tail(@)]
          /\ UNCHANGED <<getter, orphans>>
      BY <1>3 DEF Scan!GetNow
    <2>2. CASE l # "high" \/ lane["low"] = <<>>
      BY <1>0, <2>1, <2>2 DEF Scan!NotePassed
    <2>3. CASE l = "high" /\ lane["low"] # <<>>
      <3>1. streak' = streak + 1 /\ lane'["low"] = lane["low"]
        <4>1. streak < HighRatio
          BY <2>3 DEF Scan!Preferred
        <4>2. "low" \in Scan!Lanes /\ "low" # l
          BY <2>3 DEF Scan!Lanes
        <4> HIDE DEF l
        <4> QED
          BY <2>1, <2>3, <4>1, <4>2 DEF Scan!NextStreak, ScanTypes
      <3>2. Cardinality(Waiting') = Cardinality(Waiting)
        BY <2>1, WaitingEnds
      <3>3. Fetching' = Fetching
        BY <2>1 DEF Fetching
      <3>4. passed' = IF Len(lane["low"]) > orphans["low"] + Cardinality(Fetching) THEN passed + 1 ELSE passed
        BY ScanFiniteSets, <2>1, <2>3 DEF Scan!NotePassed, Fetching
      <3>5. orphans' = orphans
        BY <2>1
      <3> HIDE DEF l
      <3>6. passed' + Cardinality(Waiting') <= streak' + Cardinality(ScanWorkers)
        BY <1>n, <1>w, <3>1, <3>2, <3>4 DEF Passing
      <3>7. passed' > 0 => Len(lane'["low"]) > orphans'["low"] + Cardinality(Fetching')
        BY <1>n, <1>w, <3>1, <3>3, <3>4, <3>5 DEF Passing
      <3> QED
        BY <3>6, <3>7 DEF Passing
    <2> QED
      BY <2>2, <2>3
  <1>4. ASSUME NEW w \in ScanWorkers, Scan!GetWait(w)  PROVE Passing'
    <2>1. lane["low"] = <<>> /\ passed' = passed
      BY <1>4 DEF Scan!GetWait, Scan!Lanes
    <2>2. passed = 0
      BY <1>n, <1>w, <2>1 DEF Passing
    <2> QED
      BY <1>0, <2>1, <2>2
  <1>5. ASSUME NEW w \in ScanWorkers, NEW l \in Scan!Lanes, Scan!LaneTaskGets(w, l)  PROVE Passing'
    <2>1. /\ getter[w][l] = "getting" /\ getter' = [getter EXCEPT ![w][l] = "got"]
          /\ lane[l] # <<>> /\ lane' = [lane EXCEPT ![l] = Tail(@)]
          /\ UNCHANGED <<streak, scanPc, orphans, passed>>
      BY <1>5 DEF Scan!LaneTaskGets
    <2>2. Waiting' = Waiting
      BY <2>1 DEF Waiting
    <2>3. CASE l = "low"
      <3>1. Len(lane'["low"]) = Len(lane["low"]) - 1
        BY <2>1, <2>3, LaneTaken
      <3>2. \A v \in ScanWorkers : getter'[v]["low"] = IF v = w THEN "got" ELSE getter[v]["low"]
        BY <2>1, <2>3 DEF ScanTypes, Scan!Lanes
      <3>3. Cardinality(Fetching') = Cardinality(Fetching) - 1
        BY <2>1, <2>3, <3>2, FetchingEnds
      <3> QED
        BY <1>n, <1>w, <2>1, <2>2, <3>1, <3>3 DEF Passing
    <2>4. CASE l # "low"
      <3>1. lane'["low"] = lane["low"] /\ \A v \in ScanWorkers : getter'[v]["low"] = getter[v]["low"]
        BY <2>1, <2>4 DEF ScanTypes, Scan!Lanes
      <3>2. Fetching' = Fetching
        BY <3>1 DEF Fetching
      <3> HIDE DEF Waiting, Fetching
      <3> QED
        BY <1>n, <1>w, <2>1, <2>2, <3>1, <3>2 DEF Passing
    <2> QED
      BY <2>3, <2>4
  <1>6. ASSUME NEW w \in ScanWorkers, Scan!GetResume(w)  PROVE Passing'
    <2> DEFINE finished == {l \in Scan!Lanes : getter[w][l] = "got"}
    <2>1. PICK l \in finished : Scan!NotePassed(l = "high", [getter EXCEPT ![w] = Scan!NoGetter])
      BY <1>6 DEF Scan!GetResume
    <2>2. /\ scanPc[w] = "waiting" /\ scanPc' = [scanPc EXCEPT ![w] = "working"]
          /\ getter' = [getter EXCEPT ![w] = Scan!NoGetter]
          /\ streak' = Scan!NextStreak("high" \in finished)
          /\ UNCHANGED <<lane, orphans>>
      BY <1>6 DEF Scan!GetResume
    <2>3. Cardinality(Waiting') = Cardinality(Waiting) - 1
      BY <2>2, WaitingEnds
    <2>4. CASE l # "high" \/ lane["low"] = <<>>
      BY <1>0, <2>1, <2>4 DEF Scan!NotePassed
    <2>5. CASE l = "high" /\ lane["low"] # <<>>
      <3>1. streak' >= streak
        BY <1>n, <2>2, <2>5 DEF Scan!NextStreak
      <3>2. \A v \in ScanWorkers : getter'[v]["low"] = IF v = w THEN "off" ELSE getter[v]["low"]
        BY <2>2 DEF ScanTypes, Scan!NoGetter, Scan!Lanes
      <3>3. Cardinality(Fetching') <= Cardinality(Fetching)
        BY <1>w, <3>2, FetchingEnds
      <3>4. passed' = IF Len(lane["low"]) > orphans["low"] + Cardinality(Fetching') THEN passed + 1 ELSE passed
        BY ScanFiniteSets, <2>1, <2>2, <2>5 DEF Scan!NotePassed, Fetching
      <3>5. lane' = lane /\ orphans' = orphans
        BY <2>2
      <3> HIDE DEF finished
      <3>6. passed' + Cardinality(Waiting') <= streak' + Cardinality(ScanWorkers)
        <4>1. passed' <= passed + 1
          BY <1>n, <3>4
        <4>2. passed + Cardinality(Waiting) <= streak + Cardinality(ScanWorkers)
          BY DEF Passing
        <4> QED
          BY <1>n, <1>w, <1>v, <2>3, <3>1, <4>1, <4>2, OneLessWaits
      <3>7. passed' > 0 => Len(lane'["low"]) > orphans'["low"] + Cardinality(Fetching')
        <4>1. passed > 0 => Len(lane["low"]) > orphans["low"] + Cardinality(Fetching)
          BY DEF Passing
        <4>2. lane'["low"] = lane["low"] /\ orphans'["low"] = orphans["low"]
          BY <3>5
        <4> QED
          BY <1>n, <1>w, <1>v, <3>3, <3>4, <4>1, <4>2, FewerFetch
      <3> QED
        BY <3>6, <3>7 DEF Passing
    <2> QED
      BY <2>4, <2>5
  <1>7. ASSUME NEW w \in ScanWorkers, Scan!GetTimeout(w)  PROVE Passing'
    <2>1. /\ scanPc' = [scanPc EXCEPT ![w] = "idle"] /\ scanPc[w] = "waiting"
          /\ orphans'["low"] = orphans["low"] + IF getter[w]["low"] = "getting" THEN 1 ELSE 0
          /\ getter' = [getter EXCEPT ![w] = Scan!NoGetter]
          /\ UNCHANGED <<lane, streak, passed>>
      BY <1>7 DEF Scan!GetTimeout, Scan!Lanes
    <2>2. Cardinality(Waiting') = Cardinality(Waiting) - 1
      BY <2>1, WaitingEnds
    <2>3. \A v \in ScanWorkers : getter'[v]["low"] = IF v = w THEN "off" ELSE getter[v]["low"]
      BY <2>1 DEF ScanTypes, Scan!NoGetter, Scan!Lanes
    <2>4. orphans'["low"] + Cardinality(Fetching') = orphans["low"] + Cardinality(Fetching)
      BY <1>n, <1>w, <2>1, <2>3, FetchingEnds
    <2> QED
      BY <1>n, <1>w, <1>v, <2>1, <2>2, <2>4 DEF Passing
  <1>8. ASSUME NEW l \in Scan!Lanes, Scan!OrphanGets(l)  PROVE Passing'
    <2>1. /\ orphans[l] > 0 /\ orphans' = [orphans EXCEPT ![l] = @ - 1]
          /\ lane[l] # <<>> /\ lane' = [lane EXCEPT ![l] = Tail(@)]
          /\ UNCHANGED <<streak, scanPc, getter, passed>>
      BY <1>8 DEF Scan!OrphanGets
    <2>2. Waiting' = Waiting /\ Fetching' = Fetching
      BY <2>1 DEF Waiting, Fetching
    <2>3. CASE l = "low"
      <3>1. Len(lane'["low"]) = Len(lane["low"]) - 1
        BY <2>1, <2>3, LaneTaken
      <3>2. orphans'["low"] = orphans["low"] - 1
        BY <2>1, <2>3 DEF ScanTypes
      <3> QED
        BY <1>n, <1>w, <2>1, <2>2, <3>1, <3>2 DEF Passing
    <2>4. CASE l # "low"
      <3>1. lane'["low"] = lane["low"] /\ orphans'["low"] = orphans["low"]
        BY <2>1, <2>4 DEF ScanTypes, Scan!Lanes
      <3> QED
        BY <2>1, <2>2, <3>1 DEF Passing
    <2> QED
      BY <2>3, <2>4
  <1>9. ASSUME NEW w \in ScanWorkers, Scan!TaskDone(w)  PROVE Passing'
    <2>1. /\ scanPc[w] = "working" /\ scanPc' = [scanPc EXCEPT ![w] = "idle"]
          /\ UNCHANGED <<lane, streak, orphans, passed, getter>>
      BY <1>9 DEF Scan!TaskDone
    <2>2. Cardinality(Waiting') = Cardinality(Waiting)
      BY <2>1, WaitingEnds
    <2> QED
      BY <1>s, <1>w, <2>1, <2>2
  <1>10. CASE Scan!Drain
    BY <1>0, <1>10 DEF Scan!Drain
  <1> QED
    BY <1>1, <1>2, <1>3, <1>4, <1>5, <1>6, <1>7, <1>8, <1>9, <1>10 DEF Scan!Next

-----------------------------------------------------------------------------
(* Theorems *)

ScanInv == ScanTypes /\ ScanControl /\ Apart /\ ScanCounted /\ Passing

LEMMA ScanInit == ASSUME Scan!ConstantsAssumption PROVE Scan!Init => ScanInv
  <1> SUFFICES ASSUME Scan!Init  PROVE ScanInv
    OBVIOUS
  <1> USE DEF Scan!Init, Scan!NoGetter, Scan!NoResult
  <1>1. ScanTypes
    BY DEF ScanTypes, Scan!ConstantsAssumption
  <1>2. ScanControl
    BY DEF ScanControl
  <1>3. Apart
    BY DEF Apart, QueuedApart, TasksApart, WorkApart, LedgersApart, NoRepeats, Scan!ToSet
  <1>4. ScanCounted
    <2>1. put \ done = {}
      OBVIOUS
    <2> QED
      BY <2>1, FS_EmptySet DEF ScanCounted
  <1>5. Passing
    BY WorkerSets DEF Passing
  <1> QED
    BY <1>1, <1>2, <1>3, <1>4, <1>5 DEF ScanInv

LEMMA ScanStep == ASSUME Scan!ConstantsAssumption, ScanInv, [Scan!Next]_Scan!vars PROVE ScanInv'
BY ScanTypesStep, ApartStep, CountStep, PassStep DEF ScanInv

LEMMA ScanMeans ==
  ASSUME Scan!ConstantsAssumption, ScanInv
  PROVE  Scan!TypeOK /\ Scan!JoinSound /\ Scan!OneWorkerPerItem /\ Scan!LowNotStarved
  <1> USE DEF ScanInv
  <1>1. IsFiniteSet(put \ done) /\ put \ done \subseteq ScanItems /\ IsFiniteSet(ScanItems)
    BY ScanFiniteSets, FS_Subset DEF ScanTypes, Scan!ConstantsAssumption
  <1>2. Scan!TypeOK
    <2>1. /\ Cardinality(put \ done) \in Nat /\ Cardinality(ScanItems) \in Nat
          /\ Cardinality(put \ done) <= Cardinality(ScanItems)
      BY <1>1, FS_Subset, FS_CardinalityType
    <2> QED
      BY ScanFiniteSets, <2>1 DEF Scan!TypeOK, ScanTypes, ScanCounted
  <1>3. ASSUME NEW i, i \in Scan!InLanes \cup Scan!InTasks \cup Scan!InWork  PROVE Held(i)
    <2>1. CASE i \in Scan!InLanes
      BY <2>1 DEF Scan!InLanes, Apart, QueuedApart, Free
    <2>2. CASE i \in Scan!InTasks
      BY <2>2 DEF Scan!InTasks, Apart, TasksApart
    <2>3. CASE i \in Scan!InWork
      BY <2>3 DEF Scan!InWork, Apart, WorkApart
    <2> QED
      BY <1>3, <2>1, <2>2, <2>3
  <1>4. Scan!JoinSound
    <2>1. unfinished = 0 => put \ done = {}
      BY <1>1, FS_EmptySet DEF ScanCounted
    <2> QED
      BY <1>3, <2>1 DEF Scan!JoinSound, Held
  <1>5. Scan!OneWorkerPerItem
    <2>1. \A v, w \in ScanWorkers : v # w /\ item[v] # None => item[v] # item[w]
      BY DEF Apart, WorkApart
    <2>2. ASSUME NEW i \in Scan!InWork  PROVE i \notin Scan!InLanes \cup Scan!InTasks
      BY DEF Scan!InWork, Scan!InLanes, Scan!InTasks, Apart, QueuedApart, TasksApart, Free
    <2> QED
      BY <1>3, <2>1, <2>2 DEF Scan!OneWorkerPerItem, Held
  <1>6. Scan!LowNotStarved
    <2>1. /\ passed \in Nat /\ streak \in Nat /\ streak <= HighRatio /\ HighRatio \in Nat
          /\ Cardinality(Waiting) \in Nat /\ Cardinality(ScanWorkers) \in Nat
      BY WorkerSets DEF ScanTypes, Scan!ConstantsAssumption
    <2> QED
      BY ScanFiniteSets, <2>1 DEF Scan!LowNotStarved, Passing
  <1> QED
    BY <1>2, <1>4, <1>5, <1>6

LEMMA ScanAssumed == Scan!ConstantsAssumption
BY ServicesAssumption DEF ServicesAssumption

\* The inductive invariant of the scan queue holds in every state.
THEOREM ScanHolds == Spec => []ScanInv
<1>1. Init => ScanInv
  BY ScanAssumed, ScanInit DEF Init
<1>2. [Next]_vars => [Scan!Next]_Scan!vars
  BY DEF Next, vars, scanVars, Scan!vars
<1>3. ScanInv /\ [Next]_vars => ScanInv'
  BY <1>2, ScanAssumed, ScanStep
<1> QED
  BY <1>1, <1>3, PTL DEF Spec

\* join of the scan queue returns only when no item is queued, fetched by a lane task
\* or being worked on, in whatever order puts, gets, timeouts and drains happen.
THEOREM JoinStaysSound == Spec => []JoinSound
<1>1. ScanInv => JoinSound
  BY ScanAssumed, ScanMeans DEF JoinSound
<1> QED
  BY <1>1, ScanHolds, PTL

\* No item of the scan queue reaches two workers, is finished twice, or is worked on
\* again after a drain.
THEOREM ItemsStayApart == Spec => []OneWorkerPerItem
<1>1. ScanInv => OneWorkerPerItem
  BY ScanAssumed, ScanMeans DEF OneWorkerPerItem
<1> QED
  BY <1>1, ScanHolds, PTL

\* While a low item waits, at most the high ratio and one item per worker are handed
\* out before it, for every ratio, lane size and number of workers.
THEOREM LowStaysServed == Spec => []LowNotStarved
<1>1. ScanInv => LowNotStarved
  BY ScanAssumed, ScanMeans DEF LowNotStarved
<1> QED
  BY <1>1, ScanHolds, PTL

-----------------------------------------------------------------------------
(* The state batch: sequences *)

LEMMA StateFiniteSets ==
  \A S : State!Cardinality(S) = Cardinality(S) /\ (State!IsFiniteSet(S) <=> IsFiniteSet(S))
BY DEF State!Cardinality, Cardinality, State!IsFiniteSet, IsFiniteSet

LEMMA PartOfSeq ==
  ASSUME NEW S, NEW s \in Seq(S), NEW a \in Nat \ {0}, NEW b \in Nat, a <= b + 1, b <= Len(s)
  PROVE  /\ SubSeq(s, a, b) \in Seq(S) /\ Len(SubSeq(s, a, b)) = b - a + 1
         /\ \A k \in 1..(b - a + 1) : SubSeq(s, a, b)[k] = s[a + k - 1]
  <1>1. Len(s) \in Nat /\ a \in Int /\ b \in Int
    OBVIOUS
  <1>2. \A k \in a..b : s[k] \in S
    BY <1>1, ElementOfSeq
  <1>3. /\ SubSeq(s, a, b) \in Seq(S)
        /\ Len(SubSeq(s, a, b)) = IF a <= b THEN b - a + 1 ELSE 0
        /\ \A k \in 1..(b - a + 1) : SubSeq(s, a, b)[k] = s[a + k - 1]
    BY <1>1, <1>2, SubSeqProperties
  <1>4. a <= b \/ b - a + 1 = 0
    BY <1>1
  <1> QED
    BY <1>3, <1>4

\* v holds the elements of w but the i-th.
AllBut(v, w, i) ==
  \E f \in [DOMAIN v -> DOMAIN w] :
    /\ \A k \in DOMAIN v : v[k] = w[f[k]] /\ f[k] # i
    /\ \A a, b \in DOMAIN v : f[a] = f[b] => a = b
    /\ \A m \in DOMAIN w : m # i => \E k \in DOMAIN v : f[k] = m

\* A sequence without its i-th element, and where its elements come from.
LEMMA OthersAre ==
  ASSUME NEW S, NEW w \in Seq(S), NEW i \in DOMAIN w, NEW v,
         v = SubSeq(w, 1, i - 1) \o SubSeq(w, i + 1, Len(w))
  PROVE  v \in Seq(S) /\ AllBut(v, w, i)
  <1> DEFINE n == Len(w)
             x == SubSeq(w, 1, i - 1)
             y == SubSeq(w, i + 1, n)
             f == [k \in DOMAIN v |-> IF k < i THEN k ELSE k + 1]
  <1>1. n \in Nat /\ DOMAIN w = 1..n /\ i \in 1..n
    OBVIOUS
  <1>2. /\ x \in Seq(S) /\ Len(x) = i - 1 /\ \A k \in 1..(i - 1) : x[k] = w[k]
        /\ y \in Seq(S) /\ Len(y) = n - i /\ \A k \in 1..(n - i) : y[k] = w[i + k]
    <2> HIDE DEF n
    <2>1. i - 1 \in Nat /\ i - 1 <= n /\ i + 1 \in Nat \ {0} /\ i + 1 <= n + 1 /\ 1 <= (i - 1) + 1
      BY <1>1
    <2>2. /\ x \in Seq(S) /\ Len(x) = (i - 1) - 1 + 1
          /\ \A k \in 1..((i - 1) - 1 + 1) : x[k] = w[1 + k - 1]
      BY <2>1, PartOfSeq DEF n
    <2>3. /\ y \in Seq(S) /\ Len(y) = n - (i + 1) + 1
          /\ \A k \in 1..(n - (i + 1) + 1) : y[k] = w[(i + 1) + k - 1]
      BY <1>1, <2>1, PartOfSeq DEF n
    <2>4. (i - 1) - 1 + 1 = i - 1 /\ n - (i + 1) + 1 = n - i
      BY <1>1
    <2>5. (\A k \in 1..(i - 1) : 1 + k - 1 = k) /\ (\A k \in 1..(n - i) : (i + 1) + k - 1 = i + k)
      BY <1>1
    <2> HIDE DEF x, y
    <2> QED
      BY <2>2, <2>3, <2>4, <2>5
  <1>3. /\ v \in Seq(S) /\ Len(v) = n - 1 /\ DOMAIN v = 1..(n - 1)
        /\ \A k \in 1..(n - 1) : v[k] = IF k < i THEN w[k] ELSE w[k + 1]
    <2> HIDE DEF x, y, n
    <2>1. v = x \o y
      BY DEF x, y, n
    <2>2. v \in Seq(S) /\ Len(v) = Len(x) + Len(y) /\ DOMAIN v = 1..Len(v)
      BY <1>2, <2>1, ConcatProperties
    <2>3. Len(v) = n - 1
      BY <1>1, <1>2, <2>2
    <2>5. \A k \in 1..(n - 1) : v[k] = IF k <= Len(x) THEN x[k] ELSE y[k - Len(x)]
      <3>1. \A k \in 1..(Len(x) + Len(y)) : v[k] = IF k <= Len(x) THEN x[k] ELSE y[k - Len(x)]
        <4>1. x \in Seq(S) /\ y \in Seq(S)
          BY <1>2
        <4>2. \A k \in 1..(Len(x) + Len(y)) :
                (x \o y)[k] = IF k <= Len(x) THEN x[k] ELSE y[k - Len(x)]
          BY <4>1, ConcatProperties
        <4> QED
          BY <2>1, <4>2
      <3> QED
        BY <2>2, <2>3, <3>1
    <2>4. ASSUME NEW k \in 1..(n - 1)  PROVE v[k] = IF k < i THEN w[k] ELSE w[k + 1]
      <3>1. CASE k < i
        <4>1. k \in 1..(i - 1) /\ k <= Len(x)
          BY <1>1, <1>2, <3>1
        <4>2. v[k] = x[k]
          BY <2>5, <4>1
        <4> QED
          BY <1>2, <3>1, <4>1, <4>2
      <3>2. CASE ~(k < i)
        <4>0. Len(x) = i - 1 /\ k \in Int /\ i \in Int /\ n \in Int /\ 1 <= k /\ k <= n - 1 /\ i <= k
          BY <1>1, <1>2, <3>2
        <4>1. k - Len(x) \in 1..(n - i) /\ i + (k - Len(x)) = k + 1 /\ ~(k <= Len(x))
          BY <4>0
        <4>2. v[k] = y[k - Len(x)]
          BY <2>5, <4>1
        <4>3. y[k - Len(x)] = w[i + (k - Len(x))]
          BY <1>2, <4>1
        <4> QED
          BY <3>2, <4>1, <4>2, <4>3
      <3> QED
        BY <3>1, <3>2
    <2> QED
      BY <2>2, <2>3, <2>4
  <1> HIDE DEF x, y, n
  <1>4. f \in [DOMAIN v -> DOMAIN w]
    BY <1>1, <1>3
  <1>5. ASSUME NEW k \in DOMAIN v  PROVE v[k] = w[f[k]] /\ f[k] # i
    <2>0. f[k] = IF k < i THEN k ELSE k + 1
      OBVIOUS
    <2> HIDE DEF f
    <2>9. k \in 1..(n - 1)
      BY <1>3
    <2>4. k \in Int /\ i \in Int
      BY <1>1, <2>9
    <2>5. v[k] = IF k < i THEN w[k] ELSE w[k + 1]
      BY <1>3, <2>9
    <2>1. k \in Int /\ i \in Int /\ v[k] = IF k < i THEN w[k] ELSE w[k + 1]
      BY <2>4, <2>5
    <2> HIDE DEF f
    <2>2. CASE k < i
      <3>1. f[k] = k /\ v[k] = w[k]
        BY <2>0, <2>1, <2>2
      <3>2. k # i
        BY <2>4, <2>2
      <3> QED
        BY <3>1, <3>2
    <2>3. CASE ~(k < i)
      <3>1. f[k] = k + 1 /\ v[k] = w[k + 1]
        BY <2>0, <2>1, <2>3
      <3>2. k + 1 # i
        BY <2>4, <2>3
      <3> QED
        BY <3>1, <3>2
    <2> QED
      BY <2>2, <2>3
  <1>6. \A a, b \in DOMAIN v : f[a] = f[b] => a = b
    BY <1>1, <1>3
  <1>7. ASSUME NEW m \in DOMAIN w, m # i  PROVE \E k \in DOMAIN v : f[k] = m
    <2>1. CASE m < i
      <3>1. m \in DOMAIN v /\ f[m] = m
        BY <1>1, <1>3, <2>1
      <3> QED
        BY <3>1
    <2>2. CASE ~(m < i)
      <3>1. m - 1 \in DOMAIN v /\ f[m - 1] = m
        BY <1>1, <1>3, <1>7, <2>2
      <3> QED
        BY <3>1
    <2> QED
      BY <2>1, <2>2
  <1> HIDE DEF f
  <1> QED
    BY <1>3, <1>4, <1>5, <1>6, <1>7 DEF AllBut

\* The elements of a finite set of numbers have the ranks from one on.
LEMMA RanksCover ==
  ASSUME NEW T, T \subseteq Nat, IsFiniteSet(T),
         NEW n \in 1..Cardinality(T)
  PROVE  \E i \in T : Cardinality({k \in T : k <= i}) = n
  <1> DEFINE Below(i) == {k \in T : k <= i}
             N == Cardinality(T)
             f == [i \in T |-> Cardinality(Below(i))]
  <1>1. N \in Nat
    BY FS_CardinalityType
  <1>2. ASSUME NEW i \in T
        PROVE  IsFiniteSet(Below(i)) /\ Cardinality(Below(i)) \in 1..N
    <2>1. Below(i) \subseteq T /\ i \in Below(i)
      OBVIOUS
    <2>2. IsFiniteSet(Below(i)) /\ Cardinality(Below(i)) \in Nat /\ Cardinality(Below(i)) <= N
      BY <2>1, FS_Subset, FS_CardinalityType
    <2>3. Cardinality(Below(i)) # 0
      BY <2>1, <2>2, FS_EmptySet
    <2> QED
      BY <1>1, <2>2, <2>3
  <1>3. ASSUME NEW i \in T, NEW k \in T, i < k
        PROVE  Cardinality(Below(i)) < Cardinality(Below(k))
    <2>0. \A x \in T : x \in Nat
      OBVIOUS
    <2>1. Below(i) \subseteq Below(k) /\ k \in Below(k) /\ k \notin Below(i)
      <3>1. i \in Nat /\ k \in Nat
        BY <2>0
      <3>2. k <= k /\ ~(k <= i) /\ \A x \in T : x <= i => x <= k
        BY <1>3, <2>0, <3>1
      <3> QED
        BY <3>2
    <2>2. IsFiniteSet(Below(k))
      BY <1>2
    <2> HIDE DEF Below
    <2> QED
      BY <1>2, <2>1, <2>2, FS_Subset
  <1>4. f \in Injection(T, 1..N)
    <2>1. f \in [T -> 1..N]
      BY <1>2
    <2>2. ASSUME NEW i \in T, NEW k \in T, f[i] = f[k]  PROVE i = k
      <3>1. f[i] \in Nat /\ f[k] \in Nat
        BY <1>1, <2>1
      <3>2. i < k => f[i] < f[k]
        BY <1>3
      <3>3. k < i => f[k] < f[i]
        BY <1>3
      <3> HIDE DEF f
      <3> QED
        BY <2>2, <3>1, <3>2, <3>3
    <2> HIDE DEF f
    <2> QED
      BY <2>1, <2>2, Fun_IsInj
  <1>5. IsFiniteSet(1..N) /\ Cardinality(1..N) = N
    BY <1>1, FS_Interval
  <1>6. f \in Surjection(T, 1..N)
    <2> HIDE DEF f, N
    <2> QED
      BY <1>4, <1>5, FS_Injection DEF N
  <1>7. PICK i \in T : f[i] = n
    <2>1. n \in 1..N
      OBVIOUS
    <2> HIDE DEF f, N
    <2>2. \A t \in 1..N : \E x \in T : f[x] = t
      BY <1>6, Fun_SurjectionProperties
    <2> QED
      BY <2>1, <2>2
  <1> QED
    BY <1>7
-----------------------------------------------------------------------------
(* The items of a batch *)

\* items has an item of job j with message m; no job has two items.
With(items, j, m) == \E i \in DOMAIN items : items[i].job = j /\ items[i].msg = m
OneEach(items) == \A i, k \in DOMAIN items : items[i].job = items[k].job => i = k

Before(a, b) == a = None \/ (b # None /\ State!MovesOn(a, b))

LEMMA WithJob ==
  ASSUME NEW items \in Seq(State!Items), NEW j
  PROVE  j \in State!JobsOf(items) <=> \E m \in State!States : With(items, j, m)
  <1>1. \A i \in DOMAIN items : items[i].msg \in State!States
    <2>1. \A i \in DOMAIN items : items[i] \in State!Items
      OBVIOUS
    <2> QED
      BY <2>1 DEF State!Items
  <1> QED
    BY <1>1 DEF State!JobsOf, With

LEMMA OneMessage ==
  ASSUME NEW items, OneEach(items), NEW j, NEW m, NEW n, With(items, j, m), With(items, j, n)
  PROVE  m = n
BY DEF OneEach, With

\* What an enqueueing does to the items that wait.
LEMMA Enqueued ==
  ASSUME pending \in Seq(State!Items), OneEach(pending), NEW j \in StateJobs, NEW m \in State!States,
         RetryLimit \in Nat, State!EnqueueStateWrite(j, m)
  PROVE  /\ pending' \in Seq(State!Items) /\ OneEach(pending') /\ flushing' = TRUE /\ writing' = writing
         /\ \A k, x : With(pending', k, x) <=> IF k = j THEN x = m ELSE With(pending, k, x)
  <1> DEFINE one == [job |-> j, msg |-> m, retry |-> 0]
             n == Len(pending)
  <1>1. one \in State!Items /\ one.job = j /\ one.msg = m
    BY DEF State!Items
  <1>2. /\ flushing' = TRUE /\ writing' = writing
        /\ pending' = IF j \in State!JobsOf(pending)
                      THEN [i \in DOMAIN pending |-> IF pending[i].job = j THEN one ELSE pending[i]]
                      ELSE Append(pending, one)
    BY DEF State!EnqueueStateWrite
  <1>3. n \in Nat /\ DOMAIN pending = 1..n /\ \A i \in 1..n : pending[i] \in State!Items
    OBVIOUS
  <1> HIDE DEF one
  <1>4. CASE j \in State!JobsOf(pending)
    <2>1. pending' = [i \in 1..n |-> IF pending[i].job = j THEN one ELSE pending[i]]
      BY <1>2, <1>3, <1>4
    <2>2. DOMAIN pending' = 1..n /\ \A i \in 1..n : pending'[i].job = pending[i].job
      BY <1>1, <2>1
    <2>3. pending' \in Seq(State!Items)
      <3>1. pending' \in [1..n -> State!Items]
        BY <1>1, <1>3, <2>1
      <3> QED
        BY <1>3, <3>1, SeqDef
    <2>4. OneEach(pending')
      BY <1>3, <2>2 DEF OneEach
    <2>5. \A k, x : With(pending', k, x) <=> IF k = j THEN x = m ELSE With(pending, k, x)
      <3>1. PICK i \in 1..n : pending[i].job = j
        BY <1>3, <1>4 DEF State!JobsOf
      <3>2. \A k \in 1..n : pending'[k] = IF pending[k].job = j THEN one ELSE pending[k]
        BY <2>1
      <3>3. ASSUME NEW k, NEW x, k = j  PROVE With(pending', k, x) <=> x = m
        BY <1>1, <2>2, <3>1, <3>2, <3>3 DEF With
      <3>4. ASSUME NEW k, NEW x, k # j  PROVE With(pending', k, x) <=> With(pending, k, x)
        BY <1>3, <2>2, <3>2, <3>4 DEF With
      <3> QED
        BY <3>3, <3>4
    <2> QED
      BY <1>2, <2>3, <2>4, <2>5
  <1>5. CASE j \notin State!JobsOf(pending)
    <2>1. /\ pending' \in Seq(State!Items) /\ DOMAIN pending' = 1..(n + 1)
          /\ \A i \in 1..n : pending'[i] = pending[i]
          /\ pending'[n + 1] = one
      BY <1>1, <1>2, <1>5, AppendProperties
    <2>2. \A i \in 1..n : pending[i].job # j
      BY <1>3, <1>5 DEF State!JobsOf
    <2>3. (\A i \in 1..(n + 1) : i \in 1..n \/ i = n + 1) /\ (\A i \in 1..n : i \in 1..(n + 1)) /\ n + 1 \in 1..(n + 1)
      BY <1>3
    <2>4. OneEach(pending')
      BY <1>1, <1>3, <2>1, <2>2, <2>3 DEF OneEach
    <2>5. ASSUME NEW k, NEW x, k = j  PROVE With(pending', k, x) <=> x = m
      BY <1>1, <2>1, <2>2, <2>3, <2>5 DEF With
    <2>6. ASSUME NEW k, NEW x, k # j  PROVE With(pending', k, x) <=> With(pending, k, x)
      BY <1>1, <1>3, <2>1, <2>3, <2>6 DEF With
    <2> QED
      BY <1>2, <2>1, <2>4, <2>5, <2>6
  <1> QED
    BY <1>4, <1>5

\* A cut splits the items that wait into a batch and the rest.
LEMMA CutInTwo ==
  ASSUME NEW items \in Seq(State!Items), OneEach(items), NEW n \in Nat, n <= Len(items)
  PROVE  LET batch == SubSeq(items, 1, n)
             rest == SubSeq(items, n + 1, Len(items))
         IN  /\ batch \in Seq(State!Items) /\ rest \in Seq(State!Items) /\ OneEach(batch) /\ OneEach(rest)
             /\ Len(rest) = Len(items) - n
             /\ \A k, x : With(items, k, x) <=> With(batch, k, x) \/ With(rest, k, x)
             /\ \A k, x, y : With(batch, k, x) => ~With(rest, k, y)
  <1> DEFINE batch == SubSeq(items, 1, n)
             rest == SubSeq(items, n + 1, Len(items))
             N == Len(items)
  <1>1. N \in Nat /\ DOMAIN items = 1..N /\ n <= N
    OBVIOUS
  <1>2. /\ batch \in Seq(State!Items) /\ Len(batch) = n - 1 + 1
        /\ \A k \in 1..(n - 1 + 1) : batch[k] = items[1 + k - 1]
    BY <1>1, PartOfSeq
  <1>3. /\ rest \in Seq(State!Items) /\ Len(rest) = N - (n + 1) + 1
        /\ \A k \in 1..(N - (n + 1) + 1) : rest[k] = items[(n + 1) + k - 1]
    <2>1. n + 1 \in Nat \ {0} /\ n + 1 <= N + 1 /\ N <= Len(items) /\ N \in Nat
      BY <1>1
    <2> HIDE DEF N
    <2> QED
      BY <2>1, PartOfSeq DEF N
  <1> HIDE DEF batch, rest, N
  <1>4. n - 1 + 1 = n /\ N - (n + 1) + 1 = N - n
    BY <1>1
  <1>5. /\ DOMAIN batch = 1..n /\ \A k \in 1..n : k \in 1..N /\ batch[k] = items[k]
    <2>1. \A k \in 1..n : 1 + k - 1 = k /\ k \in 1..N
      BY <1>1
    <2> QED
      BY <1>2, <1>4, <2>1
  <1>6. /\ DOMAIN rest = 1..(N - n)
        /\ \A k \in 1..(N - n) : n + k \in 1..N /\ n + k \notin 1..n /\ rest[k] = items[n + k]
    <2>1. \A k \in 1..(N - n) : (n + 1) + k - 1 = n + k /\ n + k \in 1..N /\ n + k \notin 1..n
      BY <1>1
    <2> QED
      BY <1>3, <1>4, <2>1
  <1>7. \A i \in 1..N : i \in 1..n \/ (i - n \in 1..(N - n) /\ n + (i - n) = i)
    BY <1>1
  <1>8. OneEach(batch)
    BY <1>1, <1>5 DEF OneEach
  <1>9. OneEach(rest)
    <2> SUFFICES ASSUME NEW i \in 1..(N - n), NEW k \in 1..(N - n), rest[i].job = rest[k].job
                 PROVE  i = k
      BY <1>6 DEF OneEach
    <2>0. n + i \in 1..N /\ n + k \in 1..N /\ rest[i] = items[n + i] /\ rest[k] = items[n + k]
      BY <1>6
    <2>1. n + i = n + k
      <3>1. items[n + i].job = items[n + k].job
        BY <2>0
      <3>2. \A a, b \in 1..N : items[a].job = items[b].job => a = b
        BY <1>1 DEF OneEach
      <3> HIDE DEF N
      <3> QED
        BY <2>0, <3>1, <3>2
    <2> QED
      BY <1>1, <2>1
  <1>10. ASSUME NEW k, NEW x  PROVE With(items, k, x) <=> With(batch, k, x) \/ With(rest, k, x)
    <2>1. With(items, k, x) => With(batch, k, x) \/ With(rest, k, x)
      <3> SUFFICES ASSUME NEW i \in 1..N, items[i].job = k, items[i].msg = x
                   PROVE  With(batch, k, x) \/ With(rest, k, x)
        BY <1>1 DEF With
      <3>1. CASE i \in 1..n
        BY <1>5, <3>1 DEF With
      <3>2. CASE i - n \in 1..(N - n) /\ n + (i - n) = i
        <4>1. rest[i - n] = items[i]
          BY <1>6, <3>2
        <4> QED
          BY <1>6, <3>2, <4>1 DEF With
      <3> QED
        BY <1>7, <3>1, <3>2
    <2>2. With(batch, k, x) => With(items, k, x)
      BY <1>1, <1>5 DEF With
    <2>3. With(rest, k, x) => With(items, k, x)
      BY <1>1, <1>6 DEF With
    <2> QED
      BY <2>1, <2>2, <2>3
  <1>11. ASSUME NEW k, NEW x, NEW y, With(batch, k, x)  PROVE ~With(rest, k, y)
    <2> SUFFICES ASSUME NEW a \in 1..n, batch[a].job = k, NEW b \in 1..(N - n), rest[b].job = k
                 PROVE  FALSE
      BY <1>5, <1>6, <1>11 DEF With
    <2>1. a = n + b
      BY <1>1, <1>5, <1>6 DEF OneEach
    <2> QED
      BY <1>6, <2>1
  <1>12. Len(rest) = N - n
    BY <1>3, <1>4
  <1> QED
    BY <1>2, <1>3, <1>8, <1>9, <1>10, <1>11, <1>12 DEF batch, rest, N

\* The items of a failed batch that are queued again.
LEMMA RevivedFrom ==
  ASSUME State!BatchAssumption, NEW batch \in Seq(State!Items), OneEach(batch)
  PROVE  /\ State!Revived(batch) \in Seq(State!Items) /\ OneEach(State!Revived(batch))
         /\ \A k, x : With(State!Revived(batch), k, x) => With(batch, k, x) /\ k \notin State!JobsOf(pending)
  <1> DEFINE again == {i \in DOMAIN batch : /\ batch[i].retry < RetryLimit
                                            /\ batch[i].job \notin State!JobsOf(pending)}
             Rank(i) == State!Cardinality({k \in again : k <= i})
             N == State!Cardinality(again)
             from(n) == CHOOSE i \in again : Rank(i) = n
             r == State!Revived(batch)
  <1>1. IsFiniteSet(again) /\ again \subseteq Nat /\ again \subseteq DOMAIN batch /\ N \in Nat
    <2>1. DOMAIN batch = 1..Len(batch) /\ Len(batch) \in Nat
      OBVIOUS
    <2>2. IsFiniteSet(1..Len(batch)) /\ again \subseteq 1..Len(batch) /\ 1..Len(batch) \subseteq Nat
      BY <2>1, FS_Interval
    <2> QED
      BY <2>1, <2>2, FS_Subset, FS_CardinalityType, StateFiniteSets
  <1>2. ASSUME NEW n \in 1..N  PROVE from(n) \in again /\ Rank(from(n)) = n
    <2>1. \E i \in again : Rank(i) = n
      BY <1>1, RanksCover, StateFiniteSets
    <2> QED
      BY <2>1
  <1>3. r = [n \in 1..N |-> [batch[from(n)] EXCEPT !.retry = @ + 1]]
    BY DEF State!Revived
  <1>4. \A n \in 1..N : batch[from(n)] \in State!Items /\ batch[from(n)].retry < RetryLimit /\ batch[from(n)].job \notin State!JobsOf(pending)
    <2>1. \A i \in again : batch[i] \in State!Items
      BY <1>1
    <2>2. \A i \in again : batch[i].retry < RetryLimit /\ batch[i].job \notin State!JobsOf(pending)
      OBVIOUS
    <2> HIDE DEF again, from
    <2> QED
      BY <1>2, <2>1, <2>2
  <1> HIDE DEF again, from, Rank, N, r
  <1>5. ASSUME NEW n \in 1..N
        PROVE  /\ r[n] \in State!Items /\ r[n].job = batch[from(n)].job
               /\ r[n].msg = batch[from(n)].msg
    <2> DEFINE b == batch[from(n)]
    <2>1. r[n] = [b EXCEPT !.retry = @ + 1] /\ b \in State!Items /\ b.retry < RetryLimit
      BY <1>3, <1>4
    <2> HIDE DEF b
    <2>2. b.retry \in 0..RetryLimit /\ RetryLimit \in Nat /\ b.job \in StateJobs /\ b.msg \in State!States
          /\ b = [job |-> b.job, msg |-> b.msg, retry |-> b.retry]
      BY <2>1 DEF State!Items, State!BatchAssumption
    <2>3. r[n] = [job |-> b.job, msg |-> b.msg, retry |-> b.retry + 1]
      BY <2>1, <2>2
    <2>4. b.retry + 1 \in 0..RetryLimit
      BY <2>1, <2>2
    <2> QED
      BY <2>2, <2>3, <2>4 DEF State!Items, b
  <1>6. DOMAIN r = 1..N /\ r \in Seq(State!Items)
    <2>1. r \in [1..N -> State!Items]
      BY <1>3, <1>5
    <2> QED
      BY <1>1, <2>1, SeqDef
  <1>7. OneEach(r)
    <2> SUFFICES ASSUME NEW a \in 1..N, NEW b \in 1..N, r[a].job = r[b].job  PROVE a = b
      BY <1>6 DEF OneEach
    <2>1. from(a) = from(b)
      BY <1>1, <1>2, <1>5 DEF OneEach
    <2> QED
      BY <1>2, <2>1
  <1>8. ASSUME NEW k, NEW x, With(r, k, x)  PROVE With(batch, k, x) /\ k \notin State!JobsOf(pending)
    <2>1. PICK n \in 1..N : r[n].job = k /\ r[n].msg = x
      BY <1>6, <1>8 DEF With
    <2> QED
      BY <1>1, <1>2, <1>4, <1>5, <2>1 DEF With
  <1> QED
    BY <1>6, <1>7, <1>8 DEF r

\* Items behind others.
LEMMA JoinedItems ==
  ASSUME NEW s \in Seq(State!Items), NEW t \in Seq(State!Items), OneEach(s), OneEach(t),
         \A k, x : With(t, k, x) => k \notin State!JobsOf(s)
  PROVE  /\ s \o t \in Seq(State!Items) /\ OneEach(s \o t)
         /\ \A k, x : With(s \o t, k, x) <=> With(s, k, x) \/ With(t, k, x)
         /\ s \o t = <<>> <=> s = <<>> /\ t = <<>>
  <1> DEFINE u == s \o t
             a == Len(s)
             b == Len(t)
  <1>1. a \in Nat /\ b \in Nat /\ DOMAIN s = 1..a /\ DOMAIN t = 1..b
    OBVIOUS
  <1>2. /\ u \in Seq(State!Items) /\ Len(u) = a + b
        /\ \A i \in 1..(a + b) : u[i] = IF i <= a THEN s[i] ELSE t[i - a]
    BY ConcatProperties
  <1>3. u = <<>> <=> s = <<>> /\ t = <<>>
    BY ConcatEqualIffEmpty
  <1> HIDE DEF u, a, b
  <1>4. DOMAIN u = 1..(a + b)
    BY <1>2
  <1>5. ASSUME NEW i \in 1..a  PROVE i \in 1..(a + b) /\ u[i] = s[i]
    BY <1>1, <1>2
  <1>6. ASSUME NEW i \in 1..b  PROVE a + i \in 1..(a + b) /\ u[a + i] = t[i]
    <2>1. a + i \in 1..(a + b) /\ ~(a + i <= a) /\ (a + i) - a = i
      BY <1>1
    <2>2. u[a + i] = t[(a + i) - a]
      BY <1>2, <2>1
    <2> QED
      BY <2>1, <2>2
  <1>7. \A i \in 1..(a + b) : i \in 1..a \/ (i - a \in 1..b /\ a + (i - a) = i)
    BY <1>1
  <1>8. ASSUME NEW k, NEW x  PROVE With(u, k, x) <=> With(s, k, x) \/ With(t, k, x)
    <2>1. With(u, k, x) => With(s, k, x) \/ With(t, k, x)
      <3> SUFFICES ASSUME NEW i \in 1..(a + b), u[i].job = k, u[i].msg = x
                   PROVE  With(s, k, x) \/ With(t, k, x)
        BY <1>4 DEF With
      <3>1. CASE i \in 1..a
        BY <1>1, <1>5, <3>1 DEF With
      <3>2. CASE i - a \in 1..b /\ a + (i - a) = i
        <4>1. u[i] = t[i - a]
          BY <1>6, <3>2
        <4> QED
          BY <1>1, <3>2, <4>1 DEF With
      <3> QED
        BY <1>7, <3>1, <3>2
    <2>2. With(s, k, x) => With(u, k, x)
      BY <1>1, <1>4, <1>5 DEF With
    <2>3. With(t, k, x) => With(u, k, x)
      BY <1>1, <1>4, <1>6 DEF With
    <2> QED
      BY <2>1, <2>2, <2>3
  <1>9. OneEach(u)
    <2>1. \A i \in 1..a, k \in 1..b : s[i].job # t[k].job
      <3> SUFFICES ASSUME NEW i \in 1..a, NEW k \in 1..b, s[i].job = t[k].job  PROVE FALSE
        OBVIOUS
      <3>1. With(t, t[k].job, t[k].msg)
        BY <1>1 DEF With
      <3>2. s[i].job \in State!JobsOf(s)
        BY <1>1 DEF State!JobsOf
      <3> QED
        BY <3>1, <3>2
    <2>2. \A i, k \in 1..b : t[i].job = t[k].job => i = k
      BY <1>1 DEF OneEach
    <2>3. \A i, k \in 1..a : s[i].job = s[k].job => i = k
      BY <1>1 DEF OneEach
    <2>4. ASSUME NEW i \in 1..(a + b)
          PROVE  \/ i \in 1..a /\ u[i] = s[i]
                 \/ i - a \in 1..b /\ a + (i - a) = i /\ u[i] = t[i - a]
      BY <1>5, <1>6, <1>7
    <2> SUFFICES ASSUME NEW i \in 1..(a + b), NEW k \in 1..(a + b), u[i].job = u[k].job
                 PROVE  i = k
      BY <1>4 DEF OneEach
    <2> QED
      BY <2>1, <2>2, <2>3, <2>4
  <1> QED
    BY <1>2, <1>3, <1>8, <1>9 DEF u

-----------------------------------------------------------------------------
(* The batches on their way *)

BatchOne == OneEach(pending) /\ \A n \in DOMAIN writing : OneEach(writing[n].batch)
WritesOf(j, m) == \E n \in DOMAIN writing : With(writing[n].batch, j, m)
\* At most one batch on its way has an item of job j.
Single(j) ==
  \A a, b \in DOMAIN writing : \A x, y :
    With(writing[a].batch, j, x) /\ With(writing[b].batch, j, y) => a = b

Flushes == [batch : Seq(State!Items), more : BOOLEAN]
BatchTypes == pending \in Seq(State!Items) /\ flushing \in BOOLEAN /\ writing \in Seq(Flushes) /\ BatchOne

LEMMA FlushCutEffect ==
  ASSUME State!BatchAssumption, BatchTypes, State!FlushCut
  PROVE  /\ BatchTypes'
         /\ pending' # <<>> => \E n \in DOMAIN writing' : writing'[n].more
         /\ \E batch \in Seq(State!Items) :
              /\ \A k, x : With(pending, k, x) <=> With(batch, k, x) \/ With(pending', k, x)
              /\ \A k, x, y : With(batch, k, x) => ~With(pending', k, y)
              /\ \A k, x : WritesOf(k, x)' <=> WritesOf(k, x) \/ With(batch, k, x)
              /\ \A k, x : With(batch, k, x) /\ (\E y : WritesOf(k, y)) => k \in disturbed'
              /\ \A k : Single(k) /\ (\A x : ~With(batch, k, x) \/ \A y : ~WritesOf(k, y)) => Single(k)'
  <1> DEFINE n == IF Len(pending) < BatchSize THEN Len(pending) ELSE BatchSize
             batch == SubSeq(pending, 1, n)
             rest == SubSeq(pending, n + 1, Len(pending))
             entry == [batch |-> batch, more |-> n < Len(pending)]
             N == Len(writing)
  <1>0. /\ pending \in Seq(State!Items) /\ OneEach(pending) /\ writing \in Seq(Flushes)
        /\ \A k \in DOMAIN writing : OneEach(writing[k].batch)
    BY DEF BatchTypes, BatchOne
  <1>1. Len(pending) \in Nat /\ n \in Nat /\ n <= Len(pending)
    BY <1>0 DEF State!BatchAssumption
  <1>2. /\ flushing' = FALSE /\ pending' = rest
        /\ writing' = Append(writing, entry)
        /\ disturbed' = disturbed \cup (State!JobsOf(batch) \cap State!BeingWritten)
    BY DEF State!FlushCut
  <1> HIDE DEF n
  <1>3. /\ batch \in Seq(State!Items) /\ rest \in Seq(State!Items) /\ OneEach(batch) /\ OneEach(rest)
        /\ Len(rest) = Len(pending) - n
        /\ \A k, x : With(pending, k, x) <=> With(batch, k, x) \/ With(rest, k, x)
        /\ \A k, x, y : With(batch, k, x) => ~With(rest, k, y)
    BY <1>0, <1>1, CutInTwo
  <1> HIDE DEF batch, rest
  <1>4. entry \in Flushes /\ entry.batch = batch /\ entry.more = (n < Len(pending))
    BY <1>1, <1>3 DEF Flushes
  <1> HIDE DEF entry
  <1>5. /\ writing' \in Seq(Flushes) /\ N \in Nat /\ DOMAIN writing = 1..N /\ DOMAIN writing' = 1..(N + 1)
        /\ \A k \in 1..N : writing'[k] = writing[k]
        /\ writing'[N + 1] = entry
    BY <1>0, <1>2, <1>4, AppendProperties
  <1> HIDE DEF N
  <1>6. (\A k \in 1..(N + 1) : k \in 1..N \/ k = N + 1) /\ (\A k \in 1..N : k \in 1..(N + 1)) /\ N + 1 \in 1..(N + 1)
    BY <1>5
  <1>7. BatchTypes'
    BY <1>0, <1>2, <1>3, <1>4, <1>5, <1>6 DEF BatchTypes, BatchOne
  <1>8. ASSUME pending' # <<>>  PROVE \E k \in DOMAIN writing' : writing'[k].more
    <2>1. Len(rest) # 0
      BY <1>2, <1>3, <1>8, EmptySeq
    <2>3. n < Len(pending)
      BY <1>1, <1>3, <2>1
    <2>2. entry.more
      BY <1>4, <2>3
    <2> QED
      BY <1>5, <1>6, <2>2
  <1>9. ASSUME NEW k, NEW x  PROVE WritesOf(k, x)' <=> WritesOf(k, x) \/ With(batch, k, x)
    BY <1>4, <1>5, <1>6 DEF WritesOf
  <1>10. ASSUME NEW k, NEW x, With(batch, k, x), \E y : WritesOf(k, y)  PROVE k \in disturbed'
    <2>1. k \in State!JobsOf(batch)
      BY <1>10 DEF With, State!JobsOf
    <2>2. k \in State!BeingWritten
      BY <1>10 DEF WritesOf, With, State!BeingWritten, State!JobsOf
    <2> QED
      BY <1>2, <2>1, <2>2
  <1>11. ASSUME NEW k, Single(k), \A x : ~With(batch, k, x) \/ \A y : ~WritesOf(k, y)  PROVE Single(k)'
    <2> SUFFICES ASSUME NEW a \in 1..(N + 1), NEW b \in 1..(N + 1), NEW x, NEW y,
                        With(writing'[a].batch, k, x), With(writing'[b].batch, k, y)
                 PROVE  a = b
      BY <1>5 DEF Single
    <2>1. CASE a \in 1..N /\ b \in 1..N
      BY <1>5, <1>11, <2>1 DEF Single
    <2>2. CASE a = N + 1 /\ b \in 1..N
      BY <1>4, <1>5, <1>11, <2>2 DEF WritesOf
    <2>3. CASE b = N + 1 /\ a \in 1..N
      BY <1>4, <1>5, <1>11, <2>3 DEF WritesOf
    <2> QED
      BY <1>6, <2>1, <2>2, <2>3
  <1>12. /\ \A k, x : With(pending, k, x) <=> With(batch, k, x) \/ With(pending', k, x)
         /\ \A k, x, y : With(batch, k, x) => ~With(pending', k, y)
    BY <1>2, <1>3
  <1> QED
    BY <1>3, <1>7, <1>8, <1>9, <1>10, <1>11, <1>12

\* What is on its way once batch i has arrived.
LEMMA ArrivedEffect ==
  ASSUME BatchTypes, NEW i \in DOMAIN writing, writing' = State!Others(i)
  PROVE  /\ writing' \in Seq(Flushes) /\ \A n \in DOMAIN writing' : OneEach(writing'[n].batch)
         /\ writing[i].batch \in Seq(State!Items) /\ OneEach(writing[i].batch) /\ writing[i].more \in BOOLEAN
         /\ \A n \in DOMAIN writing : n # i /\ writing[n].more => \E k \in DOMAIN writing' : writing'[k].more
         /\ \A k, x : WritesOf(k, x) <=> With(writing[i].batch, k, x) \/ WritesOf(k, x)'
         /\ \A k : Single(k) => Single(k)'
         /\ \A k, x : Single(k) /\ With(writing[i].batch, k, x) => \A y : ~WritesOf(k, y)'
  <1>0. writing \in Seq(Flushes) /\ \A n \in DOMAIN writing : OneEach(writing[n].batch)
    BY DEF BatchTypes, BatchOne
  <1>1. writing' = SubSeq(writing, 1, i - 1) \o SubSeq(writing, i + 1, Len(writing))
    BY DEF State!Others
  <1>a. writing' \in Seq(Flushes) /\ AllBut(writing', writing, i)
    <2> DEFINE w == writing
               v == writing'
    <2>1. w \in Seq(Flushes) /\ i \in DOMAIN w /\ v = SubSeq(w, 1, i - 1) \o SubSeq(w, i + 1, Len(w))
      BY <1>0, <1>1
    <2> HIDE DEF w, v
    <2>2. v \in Seq(Flushes) /\ AllBut(v, w, i)
      BY <2>1, OthersAre
    <2> QED
      BY <2>2 DEF w, v
  <1>2. PICK f \in [DOMAIN writing' -> DOMAIN writing] :
          /\ \A k \in DOMAIN writing' : writing'[k] = writing[f[k]] /\ f[k] # i
          /\ \A a, b \in DOMAIN writing' : f[a] = f[b] => a = b
          /\ \A m \in DOMAIN writing : m # i => \E k \in DOMAIN writing' : f[k] = m
    BY <1>a DEF AllBut
  <1>3. writing[i] \in Flushes
    BY <1>0
  <1>4. writing[i].batch \in Seq(State!Items) /\ OneEach(writing[i].batch) /\ writing[i].more \in BOOLEAN
    BY <1>0, <1>3 DEF Flushes
  <1>5. \A n \in DOMAIN writing' : OneEach(writing'[n].batch)
    BY <1>0, <1>2
  <1>6. \A n \in DOMAIN writing : n # i /\ writing[n].more => \E k \in DOMAIN writing' : writing'[k].more
    BY <1>2
  <1>7. ASSUME NEW k, NEW x  PROVE WritesOf(k, x) <=> With(writing[i].batch, k, x) \/ WritesOf(k, x)'
    <2>1. WritesOf(k, x)' => WritesOf(k, x)
      BY <1>2 DEF WritesOf
    <2>2. WritesOf(k, x) => With(writing[i].batch, k, x) \/ WritesOf(k, x)'
      BY <1>2 DEF WritesOf
    <2>3. With(writing[i].batch, k, x) => WritesOf(k, x)
      BY DEF WritesOf
    <2> QED
      BY <2>1, <2>2, <2>3
  <1>8. ASSUME NEW k, Single(k)  PROVE Single(k)'
    BY <1>2, <1>8 DEF Single
  <1>9. ASSUME NEW k, NEW x, Single(k), With(writing[i].batch, k, x), NEW y  PROVE ~WritesOf(k, y)'
    BY <1>2, <1>9 DEF Single, WritesOf
  <1> QED
    BY <1>a, <1>4, <1>5, <1>6, <1>7, <1>8, <1>9

\* What the hashes are once a batch took effect.
LEMMA StoredIs ==
  ASSUME NEW batch \in Seq(State!Items), OneEach(batch), hash \in [StateJobs -> State!States \cup {None}]
  PROVE  /\ State!Stored(batch) \in [StateJobs -> State!States \cup {None}]
         /\ \A j \in StateJobs : \A m : With(batch, j, m) => State!Stored(batch)[j] = m
         /\ \A j \in StateJobs : (\A m : ~With(batch, j, m)) => State!Stored(batch)[j] = hash[j]
  <1> DEFINE at(j) == CHOOSE i \in DOMAIN batch : batch[i].job = j
  <1>1. \A i \in DOMAIN batch : batch[i].msg \in State!States
    <2>1. \A i \in DOMAIN batch : batch[i] \in State!Items
      OBVIOUS
    <2> QED
      BY <2>1 DEF State!Items
  <1>2. \A j \in StateJobs : State!Stored(batch)[j] = IF j \in State!JobsOf(batch) THEN batch[at(j)].msg ELSE hash[j]
    BY DEF State!Stored
  <1>3. ASSUME NEW j \in StateJobs, j \in State!JobsOf(batch)
        PROVE  at(j) \in DOMAIN batch /\ batch[at(j)].job = j
    BY <1>3 DEF State!JobsOf
  <1>d. State!Stored(batch) = [j \in StateJobs |-> IF j \in State!JobsOf(batch) THEN batch[at(j)].msg ELSE hash[j]]
    BY DEF State!Stored
  <1> HIDE DEF at
  <1>4. State!Stored(batch) \in [StateJobs -> State!States \cup {None}]
    BY <1>1, <1>3, <1>d
  <1>5. ASSUME NEW j \in StateJobs, NEW m, With(batch, j, m)  PROVE State!Stored(batch)[j] = m
    <2>1. j \in State!JobsOf(batch)
      BY <1>5 DEF With, State!JobsOf
    <2>2. With(batch, j, batch[at(j)].msg)
      BY <1>3, <2>1 DEF With
    <2>3. m = batch[at(j)].msg
      BY <1>5, <2>2, OneMessage
    <2> QED
      BY <1>2, <2>1, <2>3
  <1>6. ASSUME NEW j \in StateJobs, \A m : ~With(batch, j, m)  PROVE State!Stored(batch)[j] = hash[j]
    <2>1. j \notin State!JobsOf(batch)
      BY <1>6 DEF With, State!JobsOf
    <2> QED
      BY <1>2, <2>1
  <1> QED
    BY <1>4, <1>5, <1>6

-----------------------------------------------------------------------------
(* Merging and smoothing *)

LEMMA StateFields ==
  ASSUME NEW m \in State!States
  PROVE  m.count \in Int /\ m.terminal \in BOOLEAN /\ m.recount \in Int /\ m.round \in Int
BY DEF State!States

LEMMA BeforeItself == \A m \in State!States \cup {None} : Before(m, m)
BY StateFields DEF Before, State!MovesOn

LEMMA BeforeGoesOn ==
  ASSUME NEW a \in State!States \cup {None}, NEW b \in State!States \cup {None}, NEW c \in State!States \cup {None},
         Before(a, b), Before(b, c)
  PROVE  Before(a, c)
  <1>1. CASE a = None
    BY <1>1 DEF Before
  <1>2. CASE a # None
    <2>1. a \in State!States /\ b \in State!States /\ c \in State!States /\ c # None
      BY <1>2 DEF Before
    <2>2. State!MovesOn(a, b) /\ State!MovesOn(b, c)
      BY <1>2 DEF Before
    <2>3. State!MovesOn(a, c)
      BY <2>1, <2>2, StateFields DEF State!MovesOn
    <2> QED
      BY <2>1, <2>3 DEF Before
  <1> QED
    BY <1>1, <1>2

\* A message takes a state back only where it is marked to.
Ahead(last, m) ==
  last # None => /\ "count" \notin m.back => last.count <= m.count
                 /\ "status" \notin m.back => (last.terminal => m.terminal)

LEMMA MessageFields ==
  ASSUME NEW m \in State!Messages
  PROVE  /\ m.count \in 0..MaxCount /\ m.terminal \in BOOLEAN /\ m.back \in SUBSET {"count", "status"}
         /\ m = [count |-> m.count, terminal |-> m.terminal, back |-> m.back]
BY DEF State!Messages

\* A merged message is not behind what it was merged with.
LEMMA MergedIsAhead ==
  ASSUME State!BatchAssumption, NEW prev \in State!States \cup {None}, NEW cur \in State!Messages
  PROVE  State!MergeMonotonic(prev, cur) \in State!Messages /\ Ahead(prev, State!MergeMonotonic(prev, cur))
  <1>1. CASE prev = None
    BY <1>1 DEF State!MergeMonotonic, Ahead
  <1>2. CASE prev # None
    <2> DEFINE c == State!MergedCount(prev, cur)
               t == cur.terminal \/ (prev.terminal /\ "status" \notin cur.back)
    <2>1. prev.count \in 0..MaxCount /\ prev.terminal \in BOOLEAN
      BY <1>2 DEF State!States
    <2>2. State!MergeMonotonic(prev, cur) = [count |-> c, terminal |-> t, back |-> cur.back]
      BY <1>2 DEF State!MergeMonotonic
    <2>3. c \in 0..MaxCount /\ ("count" \notin cur.back => prev.count <= c)
      BY <2>1, MessageFields DEF State!MergedCount, State!BatchAssumption
    <2>4. t \in BOOLEAN /\ ("status" \notin cur.back => (prev.terminal => t))
      BY <2>1, MessageFields
    <2> HIDE DEF c, t
    <2>5. State!MergeMonotonic(prev, cur) \in State!Messages
      BY <2>2, <2>3, <2>4, MessageFields DEF State!Messages
    <2> QED
      BY <2>2, <2>3, <2>4, <2>5 DEF Ahead
  <1> QED
    BY <1>1, <1>2

\* A smoothed counter stays between the last one and its goal.
LEMMA SmoothBetween ==
  ASSUME NEW prev \in Nat, NEW goal \in Nat
  PROVE  State!SmoothNext(prev, goal) \in (IF goal <= prev THEN {goal} ELSE prev..goal)
  <1> DEFINE third == ((goal - prev) * 35) \div 100
  <1>1. CASE goal <= prev
    BY <1>1 DEF State!SmoothNext
  <1>2. CASE prev < goal
    <2>1. goal - prev \in Nat /\ third \in Int /\ third <= goal - prev
      BY <1>2
    <2>2. State!SmoothNext(prev, goal) = prev + (IF third < 1 THEN 1 ELSE IF third > 25 THEN 25 ELSE third)
      BY <1>2 DEF State!SmoothNext
    <2> HIDE DEF third
    <2> QED
      BY <1>2, <2>1, <2>2
  <1> QED
    BY <1>1, <1>2

LEMMA FrameIsAhead ==
  ASSUME State!BatchAssumption, NEW s, NEW m \in State!Messages, lastMeta[State!JobOf(s)] \in State!States \cup {None},
         Ahead(lastMeta[State!JobOf(s)], m)
  PROVE  State!Smoothed(s, m) \in State!Messages /\ Ahead(lastMeta[State!JobOf(s)], State!Smoothed(s, m))
  <1> DEFINE last == lastMeta[State!JobOf(s)]
  <1>1. CASE State!Unsmoothed(s, m) \/ last = None
    BY <1>1 DEF State!Smoothed
  <1>2. CASE ~(State!Unsmoothed(s, m) \/ last = None)
    <2> DEFINE n == State!SmoothNext(last.count, m.count)
    <2>1. State!Smoothed(s, m) = [m EXCEPT !.count = n]
      BY <1>2 DEF State!Smoothed
    <2>2. last.count \in Nat /\ last.count <= MaxCount /\ MaxCount \in Nat
      BY <1>2 DEF State!BatchAssumption, State!States
    <2>3. m.count \in Nat /\ m.count <= MaxCount
      BY <2>2, MessageFields
    <2>4. n \in (IF m.count <= last.count THEN {m.count} ELSE last.count..m.count)
      BY <2>2, <2>3, SmoothBetween
    <2>5. "count" \notin m.back => last.count <= m.count
      BY <1>2 DEF Ahead
    <2>6. "status" \notin m.back => (last.terminal => m.terminal)
      BY <1>2 DEF Ahead
    <2> HIDE DEF last, n
    <2>7. n \in 0..MaxCount /\ ("count" \notin m.back => last.count <= n)
      BY <2>2, <2>3, <2>4, <2>5
    <2>8. State!Smoothed(s, m) = [count |-> n, terminal |-> m.terminal, back |-> m.back]
      BY <2>1, MessageFields
    <2>9. State!Smoothed(s, m) \in State!Messages
      BY <2>7, <2>8, MessageFields DEF State!Messages
    <2>10. Ahead(last, State!Smoothed(s, m))
      BY <2>6, <2>7, <2>8 DEF Ahead
    <2> QED
      BY <2>9, <2>10 DEF last
  <1> QED
    BY <1>1, <1>2

\* The state that a message leaves in the memory moves on from the last one.
LEMMA RememberedMovesOn ==
  ASSUME State!BatchAssumption, NEW s, msg[s] \in State!Messages, lastMeta[State!JobOf(s)] \in State!States \cup {None},
         s \notin behind => Ahead(lastMeta[State!JobOf(s)], msg[s])
  PROVE  /\ State!Remembered(s) \in State!States
         /\ Before(lastMeta[State!JobOf(s)], State!Remembered(s))
  <1> DEFINE last == lastMeta[State!JobOf(s)]
             m == msg[s]
             new == State!Remembered(s)
             rc == IF last = None THEN 0
                   ELSE IF State!MayGoBack(s, "count") /\ m.count < last.count THEN last.recount + 1
                   ELSE last.recount
             rd == IF last = None THEN 0
                   ELSE IF State!MayGoBack(s, "status") /\ last.terminal /\ ~m.terminal THEN last.round + 1
                   ELSE last.round
  <1>1. new = [count |-> m.count, terminal |-> m.terminal, recount |-> rc, round |-> rd]
    BY DEF State!Remembered
  <1>2. m.count \in 0..MaxCount /\ m.terminal \in BOOLEAN
    BY MessageFields
  <1>3. last # None => last \in State!States
    OBVIOUS
  <1>4. last # None => /\ last.recount \in Nat /\ last.round \in Nat /\ last.count \in 0..MaxCount
                       /\ last.terminal \in BOOLEAN
    BY <1>3 DEF State!States
  <1>5. State!MayGoBack(s, "count") \/ last = None \/ last.count <= m.count
    BY DEF State!MayGoBack, Ahead
  <1>6. State!MayGoBack(s, "status") \/ last = None \/ (last.terminal => m.terminal)
    BY DEF State!MayGoBack, Ahead
  <1>7. rc \in Nat /\ rd \in Nat
    BY <1>4
  <1>8. last # None => rc > last.recount \/ (rc = last.recount /\ m.count >= last.count)
    BY <1>2, <1>4, <1>5
  <1>9. last # None => rd > last.round \/ (rd = last.round /\ (last.terminal => m.terminal))
    BY <1>2, <1>4, <1>6
  <1> HIDE DEF rc, rd, last, m, new
  <1>10. new \in State!States /\ new # None
    BY <1>1, <1>2, <1>7 DEF State!States, State!BatchAssumption
  <1>11. Before(last, new)
    BY <1>1, <1>8, <1>9, <1>10 DEF Before, State!MovesOn
  <1> QED
    BY <1>10, <1>11 DEF last, new

-----------------------------------------------------------------------------
(* Types *)

\* A message that is being sent, or waits to be, is there.
Sent ==
  /\ \A s \in State!Senders : sendPc[s] \in {"get", "publish", "write"} => msg[s] \in State!Messages
  /\ \A j \in StateJobs : throttled[j] # None => msg[throttled[j]] \in State!Messages

SenderTypes ==
  /\ sendPc \in [State!Senders -> {"idle", "waiting", "asleep", "get", "publish", "write", "end"}]
  /\ kind \in [State!Senders -> State!Kinds]
  /\ msg \in [State!Senders -> State!Messages \cup {None}]
  /\ wantsMore \in [State!Senders -> BOOLEAN]
  /\ Sent

SlotTypes ==
  /\ window \in [StateJobs -> BOOLEAN]
  /\ throttled \in [StateJobs -> Publishes \cup {None}]
  /\ delayed \in [StateJobs -> {"none", "sleep", "due"} \cup Publishes]
  /\ overtaken \subseteq StateJobs

MemoryTypes ==
  /\ hash \in [StateJobs -> State!States \cup {None}]
  /\ lastMeta \in [StateJobs -> State!States \cup {None}]
  /\ smooth \in [StateJobs -> State!Messages \cup {None}]
  /\ stateFails \in 0..MaxFails
  /\ disturbed \subseteq StateJobs
  /\ behind \subseteq State!Senders

StateTypes == BatchTypes /\ SenderTypes /\ SlotTypes /\ MemoryTypes

LEMMA CallCounted ==
  ASSUME State!BatchAssumption, stateFails \in 0..MaxFails, NEW ok \in BOOLEAN, State!RedisCall(ok)
  PROVE  stateFails' \in 0..MaxFails
BY DEF State!RedisCall, State!BatchAssumption

LEMMA JobOfTyped ==
  ASSUME State!RedisStateAssumption, NEW s \in State!Senders
  PROVE  State!JobOf(s) \in StateJobs
BY DEF State!RedisStateAssumption, State!Senders, State!JobOf

LEMMA DelayedAfterTyped ==
  ASSUME SlotTypes, NEW s
  PROVE  State!DelayedAfter(s) \in [StateJobs -> {"none", "sleep", "due"} \cup Publishes]
BY DEF SlotTypes, State!DelayedAfter

LEMMA StateTypesStep ==
  ASSUME State!BatchAssumption, State!RedisStateAssumption, StateTypes, [State!Next]_State!vars
  PROVE  StateTypes'
  <1> USE DEF StateTypes
  <1>0. /\ StateJobs \cap Publishes = {} /\ Target \in [Publishes -> StateJobs] /\ None \notin State!Messages \cup State!States
        /\ None \notin State!Senders /\ StateInputs \subseteq [kind : State!Kinds, msg : State!Messages]
        /\ \A r \in Publishes : r \in State!Senders /\ r \notin StateJobs
        /\ \A j \in StateJobs : j \in State!Senders
    BY DEF State!RedisStateAssumption, State!BatchAssumption, State!Senders
  <1>b. ASSUME UNCHANGED <<State!batchVars>>  PROVE BatchTypes'
    BY <1>b DEF State!batchVars, BatchTypes, BatchOne
  <1>t. ASSUME UNCHANGED State!throttleVars  PROVE SlotTypes'
    BY <1>t DEF State!throttleVars, SlotTypes
  <1>s. ASSUME UNCHANGED <<State!senderVars, throttled>>  PROVE SenderTypes'
    BY <1>s DEF State!senderVars, SenderTypes, Sent
  <1>1. CASE UNCHANGED State!vars
    <2>1. UNCHANGED <<hash, stateFails, disturbed, lastMeta, smooth, behind>> /\ UNCHANGED State!throttleVars
          /\ UNCHANGED State!batchVars /\ UNCHANGED <<State!senderVars, throttled>>
      BY <1>1 DEF State!vars, State!throttleVars
    <2> QED
      BY <2>1, <1>b, <1>t, <1>s DEF MemoryTypes
  <1>2. ASSUME NEW r \in Publishes, NEW in \in StateInputs, State!Arrive(r, in)  PROVE StateTypes'
    <2> DEFINE j == Target[r]
    <2>1. /\ sendPc[r] = "idle" /\ kind' = [kind EXCEPT ![r] = in.kind] /\ msg' = [msg EXCEPT ![r] = in.msg]
          /\ UNCHANGED <<State!batchVars, hash, stateFails, disturbed, wantsMore, lastMeta, smooth, behind>>
      BY <1>2 DEF State!Arrive
    <2>2. j \in StateJobs /\ in.kind \in State!Kinds /\ in.msg \in State!Messages /\ r \in State!Senders
      BY <1>0
    <2>3. BatchTypes' /\ MemoryTypes'
      BY <1>b, <2>1 DEF MemoryTypes
    <2>4. /\ kind' \in [State!Senders -> State!Kinds] /\ msg' \in [State!Senders -> State!Messages \cup {None}]
          /\ wantsMore' \in [State!Senders -> BOOLEAN]
          /\ msg'[r] \in State!Messages /\ \A s \in State!Senders : s # r => msg'[s] = msg[s]
      BY <2>1, <2>2 DEF SenderTypes
    <2>5. /\ sendPc' \in [State!Senders -> {"idle", "waiting", "asleep", "get", "publish", "write", "end"}]
          /\ \A s \in State!Senders : s # r => sendPc'[s] = sendPc[s] \/ sendPc'[s] = "end"
          /\ SlotTypes'
          /\ \A k \in StateJobs : throttled'[k] = throttled[k] \/ throttled'[k] = r \/ throttled'[k] = None
      <3>1. CASE State!PassTerminal(r, j)
        BY <2>2, <3>1 DEF State!PassTerminal, State!Supersede, SenderTypes, SlotTypes
      <3>2. CASE State!Throttle(r, j)
        <4>1. \A k \in StateJobs : throttled'[k] = throttled[k] \/ throttled'[k] = r
          BY <2>2, <3>2 DEF State!Throttle, SlotTypes
        <4>2. SlotTypes'
          BY <2>2, <3>2 DEF State!Throttle, SlotTypes
        <4> QED
          BY <2>2, <3>2, <4>1, <4>2 DEF State!Throttle, State!Supersede, SenderTypes
      <3>3. CASE State!Reserve(r, j)
        BY <2>2, <3>3 DEF State!Reserve, SenderTypes, SlotTypes
      <3>4. CASE sendPc' = [sendPc EXCEPT ![r] = "get"] /\ UNCHANGED State!throttleVars
        BY <1>t, <2>2, <3>4 DEF SenderTypes, State!throttleVars
      <3> QED
        BY <1>2, <3>1, <3>2, <3>3, <3>4 DEF State!Arrive
    <2>6. Sent'
      <3>1. ASSUME NEW s \in State!Senders, sendPc'[s] \in {"get", "publish", "write"}  PROVE msg'[s] \in State!Messages
        BY <2>4, <2>5, <3>1 DEF SenderTypes, Sent
      <3>2. ASSUME NEW k \in StateJobs, throttled'[k] # None  PROVE msg'[throttled'[k]] \in State!Messages
        <4>1. throttled[k] # None => throttled[k] \in State!Senders /\ msg[throttled[k]] \in State!Messages
          BY <1>0 DEF SenderTypes, Sent, SlotTypes
        <4> QED
          BY <2>4, <2>5, <3>2, <4>1
      <3> QED
        BY <3>1, <3>2 DEF Sent
    <2> QED
      BY <2>3, <2>4, <2>5, <2>6 DEF SenderTypes
  <1>3. ASSUME NEW j \in StateJobs, State!Tick(j)  PROVE StateTypes'
    <2>1. UNCHANGED <<State!batchVars, hash, stateFails, disturbed, State!senderVars, lastMeta, throttled, smooth, overtaken, behind>>
      BY <1>3 DEF State!Tick
    <2>2. SlotTypes'
      BY <1>3 DEF State!Tick, SlotTypes
    <2> QED
      BY <1>b, <1>s, <2>1, <2>2 DEF MemoryTypes
  <1>4. ASSUME NEW j \in StateJobs, State!DelayedPublish(j)  PROVE StateTypes'
    <2>1. UNCHANGED <<State!batchVars, hash, stateFails, disturbed, kind, msg, wantsMore, lastMeta, window, smooth, overtaken, behind>>
      BY <1>4 DEF State!DelayedPublish
    <2>2. SlotTypes'
      BY <1>4 DEF State!DelayedPublish, SlotTypes
    <2>3. SenderTypes'
      <3>1. /\ throttled' = [throttled EXCEPT ![j] = None]
            /\ sendPc' = [s \in State!Senders |-> IF s = throttled[j] THEN "get" ELSE sendPc[s]]
        BY <1>4 DEF State!DelayedPublish
      <3>2. \A s \in State!Senders : s = throttled[j] => msg[s] \in State!Messages
        BY <1>0 DEF SenderTypes, Sent
      <3> QED
        BY <2>1, <3>1, <3>2 DEF SenderTypes, Sent, SlotTypes
    <2> QED
      BY <1>b, <2>1, <2>2, <2>3 DEF MemoryTypes
  <1>5. ASSUME NEW j \in StateJobs, State!SmoothWakes(j)  PROVE StateTypes'
    <2>1. /\ UNCHANGED <<State!batchVars, hash, stateFails, disturbed, kind, wantsMore, lastMeta, State!throttleVars, smooth, behind>>
          /\ sendPc' = [sendPc EXCEPT ![j] = IF smooth[j] = None THEN "idle" ELSE "get"]
          /\ msg' = [msg EXCEPT ![j] = smooth[j]]
      BY <1>5 DEF State!SmoothWakes
    <2>2. smooth[j] \in State!Messages \cup {None}
      BY DEF MemoryTypes
    <2>3. SenderTypes'
      <3>1. \A k \in StateJobs : throttled'[k] = throttled[k] /\ (throttled[k] # None => throttled[k] \in Publishes)
        BY <2>1 DEF State!throttleVars, SlotTypes
      <3>2. \A r \in Publishes : msg'[r] = msg[r]
        BY <1>0, <2>1 DEF SenderTypes
      <3> QED
        BY <2>1, <2>2, <3>1, <3>2 DEF SenderTypes, Sent
    <2> QED
      BY <1>b, <1>t, <2>1, <2>3 DEF MemoryTypes
  <1>6. ASSUME NEW s \in State!Senders, State!Merge(s)  PROVE StateTypes'
    <2> DEFINE j == State!JobOf(s)
               merged == State!MergeMonotonic(lastMeta[j], msg[s])
               frame == State!Smoothed(s, merged)
               next == IF kind[s] = "state" THEN "write" ELSE "publish"
    <2>1. /\ sendPc[s] = "get" /\ msg' = [msg EXCEPT ![s] = frame]
          /\ wantsMore' = [wantsMore EXCEPT ![s] = frame # merged]
          /\ smooth' = smooth \/ smooth' = [smooth EXCEPT ![j] = IF frame # merged THEN merged ELSE None]
          /\ sendPc' = [x \in State!Senders |->
                      IF State!Unsmoothed(s, merged) /\ x = j THEN "idle" ELSE IF x = s THEN next ELSE sendPc[x]]
          /\ disturbed' = disturbed \/ disturbed' = disturbed \cup {j}
          /\ behind' \subseteq behind
          /\ UNCHANGED <<State!batchVars, hash, stateFails, kind, lastMeta, State!throttleVars>>
      BY <1>6 DEF State!Merge
    <2>2. j \in StateJobs /\ msg[s] \in State!Messages /\ lastMeta[j] \in State!States \cup {None} /\ disturbed \subseteq StateJobs
      BY <2>1, JobOfTyped DEF SenderTypes, Sent, MemoryTypes
    <2>3. merged \in State!Messages /\ Ahead(lastMeta[j], merged)
      BY <2>2, MergedIsAhead
    <2>4. frame \in State!Messages
      BY <2>2, <2>3, FrameIsAhead
    <2> HIDE DEF j, merged, frame
    <2>5. MemoryTypes'
      BY <2>1, <2>2, <2>3, <2>4 DEF MemoryTypes
    <2>6. SenderTypes'
      <3>1. /\ msg' \in [State!Senders -> State!Messages \cup {None}] /\ msg'[s] \in State!Messages
            /\ \A x \in State!Senders : x # s => msg'[x] = msg[x]
        BY <2>1, <2>4 DEF SenderTypes
      <3>2. /\ sendPc' \in [State!Senders -> {"idle", "waiting", "asleep", "get", "publish", "write", "end"}]
            /\ \A x \in State!Senders : x # s => sendPc'[x] = sendPc[x] \/ sendPc'[x] = "idle"
        BY <2>1 DEF SenderTypes
      <3>3. Sent'
        <4>1. ASSUME NEW x \in State!Senders, sendPc'[x] \in {"get", "publish", "write"}  PROVE msg'[x] \in State!Messages
          BY <3>1, <3>2, <4>1 DEF SenderTypes, Sent
        <4>2. ASSUME NEW k \in StateJobs, throttled'[k] # None  PROVE msg'[throttled'[k]] \in State!Messages
          <5>1. throttled' = throttled /\ throttled[k] \in State!Senders /\ msg[throttled[k]] \in State!Messages
            BY <1>0, <2>1, <4>2 DEF SenderTypes, Sent, SlotTypes, State!throttleVars
          <5> QED
            BY <3>1, <5>1
        <4> QED
          BY <4>1, <4>2 DEF Sent
      <3> QED
        BY <2>1, <3>1, <3>2, <3>3 DEF SenderTypes
    <2> QED
      BY <1>b, <1>t, <2>1, <2>5, <2>6
  <1>x. ASSUME NEW s \in State!Senders, UNCHANGED <<kind, msg, wantsMore, throttled>>,
               sendPc' \in [State!Senders -> {"idle", "waiting", "asleep", "get", "publish", "write", "end"}],
               \A x \in State!Senders : sendPc'[x] = sendPc[x] \/ sendPc'[x] \in {"idle", "end", "asleep"}
        PROVE  SenderTypes'
    BY <1>x DEF SenderTypes, Sent
  <1>n. ASSUME NEW s \in State!Senders, sendPc[s] \in {"publish", "write"}
        PROVE  State!Remembered(s) \in State!States
    <2>1. msg[s] \in State!Messages /\ lastMeta[State!JobOf(s)] \in State!States \cup {None}
      BY <1>n, JobOfTyped DEF SenderTypes, Sent, MemoryTypes
    <2> QED
      BY <2>1, MessageFields DEF State!Remembered, State!States
  <1>o. ASSUME NEW s \in State!Senders, State!Overtakes(s)  PROVE behind' \subseteq State!Senders
    BY <1>o DEF State!Overtakes, State!InFlight, MemoryTypes
  <1>7. ASSUME NEW s \in State!Senders, State!SendFails(s)  PROVE StateTypes'
    <2>1. /\ State!RedisCall(FALSE) /\ sendPc' = [sendPc EXCEPT ![s] = State!EndSend(s)] /\ delayed' = State!DelayedAfter(s)
          /\ behind' = behind \ {s}
          /\ UNCHANGED <<State!batchVars, hash, disturbed, kind, msg, wantsMore, lastMeta, window, throttled, smooth, overtaken>>
      BY <1>7 DEF State!SendFails
    <2>2. State!EndSend(s) = "idle" \/ State!EndSend(s) = "end"
      BY DEF State!EndSend
    <2>3. SenderTypes'
      BY <1>x, <2>1, <2>2 DEF SenderTypes
    <2>4. SlotTypes'
      BY <2>1, DelayedAfterTyped DEF SlotTypes
    <2>5. MemoryTypes'
      BY <2>1, CallCounted DEF MemoryTypes
    <2> QED
      BY <1>b, <2>1, <2>3, <2>4, <2>5
  <1>8. ASSUME NEW s \in State!Senders, NEW skip \in BOOLEAN, State!Published(s, skip)  PROVE StateTypes'
    <2> DEFINE j == State!JobOf(s)
               new == State!Remembered(s)
    <2>1. /\ sendPc[s] = "publish"
          /\ IF skip THEN UNCHANGED State!batchVars ELSE State!EnqueueStateWrite(j, new)
          /\ disturbed' = disturbed \/ disturbed' = disturbed \cup {j}
          /\ lastMeta' = [lastMeta EXCEPT ![j] = new]
          /\ sendPc' = State!AfterPublish(s, j) /\ delayed' = State!DelayedAfter(s)
          /\ behind' \subseteq State!Senders
          /\ UNCHANGED <<hash, stateFails, kind, msg, wantsMore, window, throttled, smooth, overtaken>>
      BY <1>8, <1>o DEF State!Published, State!ScheduleStateWrite
    <2>2. j \in StateJobs /\ new \in State!States
      BY <2>1, <1>n, JobOfTyped
    <2> HIDE DEF new
    <2>3. SenderTypes'
      <3>1. State!EndSend(s) = "idle" \/ State!EndSend(s) = "end"
        BY DEF State!EndSend
      <3>2. /\ sendPc' \in [State!Senders -> {"idle", "waiting", "asleep", "get", "publish", "write", "end"}]
            /\ \A x \in State!Senders : sendPc'[x] = sendPc[x] \/ sendPc'[x] \in {"idle", "end", "asleep"}
        BY <2>1, <3>1 DEF State!AfterPublish, SenderTypes
      <3> QED
        BY <1>x, <2>1, <3>2
    <2>4. SlotTypes'
      BY <2>1, DelayedAfterTyped DEF SlotTypes
    <2>5. MemoryTypes'
      BY <2>1, <2>2 DEF MemoryTypes
    <2>6. BatchTypes'
      <3>1. CASE skip
        BY <1>b, <2>1, <3>1
      <3>2. CASE ~skip
        <4>1. State!EnqueueStateWrite(j, new) /\ RetryLimit \in Nat /\ pending \in Seq(State!Items) /\ OneEach(pending)
          BY <2>1, <3>2 DEF State!BatchAssumption, BatchTypes, BatchOne
        <4>2. pending' \in Seq(State!Items) /\ OneEach(pending') /\ flushing' = TRUE /\ writing' = writing
          BY <2>2, <4>1, Enqueued
        <4> QED
          BY <4>2 DEF BatchTypes, BatchOne
      <3> QED
        BY <3>1, <3>2
    <2> QED
      BY <2>3, <2>4, <2>5, <2>6
  <1>9. ASSUME NEW s \in State!Senders, State!StateWritten(s)  PROVE StateTypes'
    <2>1. /\ sendPc[s] = "write" /\ hash' = [hash EXCEPT ![State!JobOf(s)] = State!Remembered(s)]
          /\ lastMeta' = [lastMeta EXCEPT ![State!JobOf(s)] = State!Remembered(s)]
          /\ sendPc' = [sendPc EXCEPT ![s] = "end"] /\ behind' \subseteq State!Senders
          /\ UNCHANGED <<State!batchVars, stateFails, disturbed, kind, msg, wantsMore, State!throttleVars, smooth>>
      BY <1>9, <1>o DEF State!StateWritten
    <2>2. State!JobOf(s) \in StateJobs /\ State!Remembered(s) \in State!States
      BY <2>1, <1>n, JobOfTyped
    <2>3. SenderTypes'
      BY <1>x, <2>1 DEF SenderTypes, State!throttleVars
    <2>4. MemoryTypes'
      BY <2>1, <2>2 DEF MemoryTypes
    <2> QED
      BY <1>b, <1>t, <2>1, <2>3, <2>4
  <1>10. ASSUME NEW s \in State!Senders, NEW applied \in BOOLEAN, State!StateWriteFails(s, applied)  PROVE StateTypes'
    <2>1. /\ sendPc[s] = "write" /\ State!RedisCall(FALSE)
          /\ hash' = IF applied THEN [hash EXCEPT ![State!JobOf(s)] = State!Remembered(s)] ELSE hash
          /\ behind' = behind \ {s}
          /\ sendPc' = [sendPc EXCEPT ![s] = "end"] /\ disturbed' = disturbed \cup {State!JobOf(s)}
          /\ UNCHANGED <<State!batchVars, kind, msg, wantsMore, lastMeta, State!throttleVars, smooth>>
      BY <1>10 DEF State!StateWriteFails
    <2>2. State!JobOf(s) \in StateJobs /\ State!Remembered(s) \in State!States
      BY <2>1, <1>n, JobOfTyped
    <2>3. SenderTypes'
      BY <1>x, <2>1 DEF SenderTypes, State!throttleVars
    <2>4. MemoryTypes'
      BY <2>1, <2>2, CallCounted DEF MemoryTypes
    <2> QED
      BY <1>b, <1>t, <2>1, <2>3, <2>4
  <1>11. CASE State!Flush
    <2>1. UNCHANGED <<State!senderVars, lastMeta, State!throttleVars, smooth, behind>>
      BY <1>11 DEF State!Flush
    <2>2. SenderTypes' /\ SlotTypes'
      BY <1>s, <1>t, <2>1 DEF State!throttleVars
    <2>3. CASE State!FlushCut
      <3>1. hash' = hash /\ stateFails' = stateFails /\ disturbed' \subseteq StateJobs
        <4>1. \A batch : (disturbed' = disturbed \cup (State!JobsOf(batch) \cap State!BeingWritten))
                  => disturbed' \subseteq StateJobs
          <5>1. State!BeingWritten \subseteq StateJobs
            <6>1. \A n \in DOMAIN writing : writing[n].batch \in Seq(State!Items)
              <7>1. \A n \in DOMAIN writing : writing[n] \in Flushes
                BY DEF BatchTypes
              <7> QED
                BY <7>1 DEF Flushes
            <6>2. ASSUME NEW n \in DOMAIN writing, NEW i \in DOMAIN writing[n].batch
                  PROVE  writing[n].batch[i].job \in StateJobs
              <7>1. writing[n].batch[i] \in State!Items
                BY <6>1
              <7> QED
                BY <7>1 DEF State!Items
            <6> QED
              BY <6>2 DEF State!BeingWritten, State!JobsOf
          <5> QED
            BY <5>1 DEF MemoryTypes
        <4> QED
          BY <2>3, <4>1 DEF State!FlushCut
      <3>2. BatchTypes'
        BY <2>3, FlushCutEffect
      <3> QED
        BY <2>1, <2>2, <3>1, <3>2 DEF MemoryTypes
    <2>4. ASSUME NEW i \in DOMAIN writing, State!FlushWritten(i)  PROVE StateTypes'
      <3>1. /\ hash' = State!Stored(writing[i].batch) /\ writing' = State!Others(i)
            /\ flushing' = (flushing \/ (writing[i].more /\ pending # <<>>))
            /\ UNCHANGED <<pending, stateFails, disturbed>>
        BY <2>4 DEF State!FlushWritten
      <3>2. /\ writing' \in Seq(Flushes) /\ \A n \in DOMAIN writing' : OneEach(writing'[n].batch)
            /\ writing[i].batch \in Seq(State!Items) /\ OneEach(writing[i].batch) /\ writing[i].more \in BOOLEAN
        BY <3>1, ArrivedEffect
      <3>3. BatchTypes'
        BY <3>1, <3>2 DEF BatchTypes, BatchOne
      <3>4. MemoryTypes'
        BY <2>1, <3>1, <3>2, StoredIs DEF MemoryTypes
      <3> QED
        BY <2>2, <3>3, <3>4
    <2>5. ASSUME NEW i \in DOMAIN writing, NEW applied \in BOOLEAN, State!FlushFailed(i, applied)  PROVE StateTypes'
      <3> DEFINE batch == writing[i].batch
      <3>1. /\ State!RedisCall(FALSE) /\ writing' = State!Others(i) /\ pending' = pending \o State!Revived(batch)
            /\ hash' = State!Stored(batch) \/ hash' = hash
            /\ flushing' = (flushing \/ State!Revived(batch) # <<>> \/ (writing[i].more /\ pending' # <<>>))
            /\ disturbed' = disturbed \cup State!JobsOf(batch)
        BY <2>5 DEF State!FlushFailed
      <3>2. /\ writing' \in Seq(Flushes) /\ \A n \in DOMAIN writing' : OneEach(writing'[n].batch)
            /\ batch \in Seq(State!Items) /\ OneEach(batch) /\ writing[i].more \in BOOLEAN
        BY <3>1, ArrivedEffect
      <3> HIDE DEF batch
      <3>3. pending' \in Seq(State!Items) /\ OneEach(pending')
        <4>1. pending \in Seq(State!Items) /\ OneEach(pending)
          BY DEF BatchTypes, BatchOne
        <4>2. /\ State!Revived(batch) \in Seq(State!Items) /\ OneEach(State!Revived(batch))
              /\ \A k, x : With(State!Revived(batch), k, x) => k \notin State!JobsOf(pending)
          BY <3>2, RevivedFrom
        <4> QED
          BY <3>1, <4>1, <4>2, JoinedItems
      <3>4. BatchTypes'
        BY <3>1, <3>2, <3>3 DEF BatchTypes, BatchOne
      <3>5. State!JobsOf(batch) \subseteq StateJobs
        <4>1. \A k \in DOMAIN batch : batch[k] \in State!Items
          BY <3>2
        <4> QED
          BY <4>1 DEF State!JobsOf, State!Items
      <3>6. MemoryTypes'
        BY <2>1, <3>1, <3>2, <3>5, StoredIs, CallCounted DEF MemoryTypes
      <3> QED
        BY <2>2, <3>4, <3>6
    <2> QED
      BY <1>11, <2>3, <2>4, <2>5 DEF State!Flush
  <1> QED
    BY <1>1, <1>2, <1>3, <1>4, <1>5, <1>6, <1>7, <1>8, <1>9, <1>10, <1>11 DEF State!Next, State!Send

-----------------------------------------------------------------------------
(* No state is stranded *)

LEMMA StrandedStep ==
  ASSUME State!BatchAssumption, State!RedisStateAssumption, StateTypes, State!NoStrandedState, [State!Next]_State!vars
  PROVE  State!NoStrandedState'
  <1> USE DEF StateTypes
  <1>u. CASE UNCHANGED State!batchVars
    BY <1>u DEF State!NoStrandedState, State!batchVars
  <1>1. ASSUME NEW s \in State!Senders, NEW skip \in BOOLEAN, State!Published(s, skip)  PROVE State!NoStrandedState'
    BY <1>1, <1>u DEF State!Published, State!ScheduleStateWrite, State!EnqueueStateWrite, State!NoStrandedState
  <1>2. CASE State!FlushCut
    BY <1>2, FlushCutEffect DEF State!NoStrandedState
  <1>3. ASSUME NEW i \in DOMAIN writing, writing' = State!Others(i), pending # <<>>,
               NEW left, left => pending' # <<>>, flushing => flushing',
               writing[i].more => flushing'
        PROVE  flushing' \/ \E n \in DOMAIN writing' : writing'[n].more
    <2>1. flushing \/ \E n \in DOMAIN writing : writing[n].more
      BY <1>3 DEF State!NoStrandedState
    <2>2. \A n \in DOMAIN writing : n # i /\ writing[n].more => \E k \in DOMAIN writing' : writing'[k].more
      BY <1>3, ArrivedEffect
    <2> QED
      BY <1>3, <2>1, <2>2
  <1>4. ASSUME NEW i \in DOMAIN writing, State!FlushWritten(i)  PROVE State!NoStrandedState'
    <2>1. /\ writing' = State!Others(i) /\ pending' = pending
          /\ flushing' = (flushing \/ (writing[i].more /\ pending # <<>>))
      BY <1>4 DEF State!FlushWritten
    <2>2. CASE pending # <<>>
      BY <1>3, <2>1, <2>2 DEF State!NoStrandedState
    <2> QED
      BY <2>1, <2>2 DEF State!NoStrandedState
  <1>5. ASSUME NEW i \in DOMAIN writing, NEW applied \in BOOLEAN, State!FlushFailed(i, applied)  PROVE State!NoStrandedState'
    <2> DEFINE again == State!Revived(writing[i].batch)
    <2>1. /\ writing' = State!Others(i) /\ pending' = pending \o again
          /\ flushing' = (flushing \/ again # <<>> \/ (writing[i].more /\ pending' # <<>>))
      BY <1>5 DEF State!FlushFailed
    <2>2. pending \in Seq(State!Items) /\ again \in Seq(State!Items)
      <3>1. writing[i].batch \in Seq(State!Items) /\ OneEach(writing[i].batch)
        BY <2>1, ArrivedEffect
      <3> QED
        BY <3>1, RevivedFrom DEF BatchTypes
    <2> HIDE DEF again
    <2>3. pending' = <<>> <=> pending = <<>> /\ again = <<>>
      BY <2>1, <2>2, ConcatEqualIffEmpty
    <2>4. CASE pending # <<>>
      BY <1>3, <2>1, <2>3, <2>4 DEF State!NoStrandedState
    <2> QED
      BY <2>1, <2>3, <2>4 DEF State!NoStrandedState
  <1> QED
    BY <1>u, <1>1, <1>2, <1>4, <1>5
      DEF State!Next, State!vars, State!Arrive, State!Tick, State!DelayedPublish, State!SmoothWakes, State!Send, State!Merge, State!SendFails, State!StateWritten,
          State!StateWriteFails, State!Flush

-----------------------------------------------------------------------------
(* The message of a job from its merge to its hash *)

\* While no write of the hash of job j failed or was under way beside another, the
\* states on their way are in order: hash, batch, pending item, memory.
Fresh(j) ==
  /\ Single(j)
  /\ \A s \in State!InFlight(j) : sendPc[s] = "write" => \A m : ~With(pending, j, m) /\ ~WritesOf(j, m)
  /\ Before(hash[j], lastMeta[j])
  /\ \A m : With(pending, j, m) => m = lastMeta[j]
  /\ \A m : WritesOf(j, m) => /\ Before(hash[j], m) /\ Before(m, lastMeta[j])
                              /\ m = lastMeta[j] \/ \E x : With(pending, j, x)
  /\ (\A m : ~With(pending, j, m) /\ ~WritesOf(j, m)) => hash[j] = lastMeta[j]

\* A message being sent takes the memory back only where it is marked to, or where
\* the memory it was merged with has been replaced.
AllAhead ==
  \A s \in State!Senders : sendPc[s] \in {"publish", "write"} /\ s \notin behind => Ahead(lastMeta[State!JobOf(s)], msg[s])

AllFresh == \A j \in StateJobs : j \notin disturbed => Fresh(j)

LEMMA Untouched ==
  ASSUME NEW j, Fresh(j), hash'[j] = hash[j], lastMeta'[j] = lastMeta[j],
         Single(j)',
         \A m : With(pending', j, m) <=> With(pending, j, m),
         \A m : WritesOf(j, m)' <=> WritesOf(j, m),
         \A s \in State!InFlight(j)' : s \in State!InFlight(j) /\ sendPc'[s] = sendPc[s] /\ msg'[s] = msg[s]
  PROVE  Fresh(j)'
BY DEF Fresh

\* Steps that leave the batches, the hashes and the memory alone.
LEMMA UntouchedSend ==
  ASSUME NEW j, Fresh(j), UNCHANGED <<State!batchVars, hash, lastMeta>>,
         \A s \in State!InFlight(j)' : s \in State!InFlight(j) /\ sendPc'[s] = sendPc[s] /\ msg'[s] = msg[s]
  PROVE  Fresh(j)'
  <1>1. /\ hash'[j] = hash[j] /\ lastMeta'[j] = lastMeta[j]
        /\ pending' = pending /\ writing' = writing
    BY DEF State!batchVars
  <1>2. /\ Single(j)'
        /\ \A m : With(pending', j, m) <=> With(pending, j, m)
        /\ \A m : WritesOf(j, m)' <=> WritesOf(j, m)
    BY <1>1 DEF Fresh, Single, WritesOf
  <1> QED
    BY <1>1, <1>2, Untouched

LEMMA FlushKeepsFresh ==
  ASSUME State!BatchAssumption, State!RedisStateAssumption, StateTypes, AllFresh, State!Flush
  PROVE  /\ AllFresh'
         /\ \A j \in StateJobs : j \notin disturbed' => Before(hash[j], hash'[j])
  <1> USE DEF StateTypes
  <1>0. BatchTypes /\ hash \in [StateJobs -> State!States \cup {None}] /\ lastMeta \in [StateJobs -> State!States \cup {None}]
    BY DEF MemoryTypes
  <1>1. UNCHANGED <<State!senderVars, lastMeta>>
    BY DEF State!Flush
  <1>2. \A j : State!InFlight(j)' = State!InFlight(j)
    BY <1>1 DEF State!InFlight, State!senderVars
  <1>3. sendPc' = sendPc /\ msg' = msg /\ lastMeta' = lastMeta
    BY <1>1 DEF State!senderVars
  <1>4. ASSUME State!FlushCut, NEW j \in StateJobs, j \notin disturbed'
        PROVE  Fresh(j)' /\ Before(hash[j], hash'[j])
    <2>1. hash' = hash /\ Fresh(j)
      BY <1>4 DEF State!FlushCut, AllFresh
    <2>2. Before(hash[j], hash'[j])
      BY <1>0, <2>1, BeforeItself
    <2>3. PICK batch \in Seq(State!Items) :
            /\ \A k, x : With(pending, k, x) <=> With(batch, k, x) \/ With(pending', k, x)
            /\ \A k, x, y : With(batch, k, x) => ~With(pending', k, y)
            /\ \A k, x : WritesOf(k, x)' <=> WritesOf(k, x) \/ With(batch, k, x)
            /\ \A k, x : With(batch, k, x) /\ (\E y : WritesOf(k, y)) => k \in disturbed'
            /\ \A k : Single(k) /\ (\A x : ~With(batch, k, x) \/ \A y : ~WritesOf(k, y)) => Single(k)'
      BY <1>0, <1>4, FlushCutEffect
    <2>4. CASE \A x : ~With(batch, j, x)
      <3>1. Single(j)'
        BY <2>1, <2>3, <2>4 DEF Fresh
      <3>2. \A m : With(pending', j, m) <=> With(pending, j, m)
        BY <2>3, <2>4
      <3>3. \A m : WritesOf(j, m)' <=> WritesOf(j, m)
        BY <2>3, <2>4
      <3> QED
        BY <1>2, <1>3, <2>1, <2>2, <3>1, <3>2, <3>3, Untouched
    <2>5. ASSUME NEW x, With(batch, j, x)  PROVE Fresh(j)'
      <3>1. \A y : ~WritesOf(j, y)
        BY <1>4, <2>3, <2>5
      <3>2. Single(j)'
        BY <2>1, <2>3, <3>1 DEF Fresh
      <3>3. \A m : ~With(pending', j, m)
        BY <2>3, <2>5
      <3>4. \A m : With(batch, j, m) => m = lastMeta[j]
        BY <2>1, <2>3 DEF Fresh
      <3>5. \A m : WritesOf(j, m)' => m = lastMeta[j]
        BY <2>3, <3>1, <3>4
      <3>6. WritesOf(j, x)'
        BY <2>3, <2>5
      <3>7. \A s \in State!InFlight(j) : sendPc[s] # "write"
        BY <2>1, <2>3, <2>5 DEF Fresh
      <3>8. Before(lastMeta[j], lastMeta[j])
        BY <1>0, BeforeItself
      <3> QED
        BY <1>2, <1>3, <2>1, <3>2, <3>3, <3>5, <3>6, <3>7, <3>8 DEF Fresh
    <2> QED
      BY <2>2, <2>4, <2>5
  <1>5. ASSUME NEW i \in DOMAIN writing, writing' = State!Others(i), NEW j \in StateJobs, Fresh(j),
               \A x : ~With(writing[i].batch, j, x), hash'[j] = hash[j],
               \A m : With(pending', j, m) <=> With(pending, j, m)
        PROVE  Fresh(j)' /\ Before(hash[j], hash'[j])
    <2>1. /\ \A x : WritesOf(j, x)' <=> WritesOf(j, x)
          /\ Single(j)'
      BY <1>0, <1>5, ArrivedEffect DEF Fresh
    <2>2. Fresh(j)'
      BY <1>2, <1>3, <1>5, <2>1, Untouched
    <2> QED
      BY <1>0, <1>5, <2>2, BeforeItself
  <1>6. ASSUME NEW i \in DOMAIN writing, State!FlushWritten(i), NEW j \in StateJobs, j \notin disturbed'
        PROVE  Fresh(j)' /\ Before(hash[j], hash'[j])
    <2> DEFINE batch == writing[i].batch
    <2>1. writing' = State!Others(i) /\ pending' = pending /\ hash' = State!Stored(batch) /\ Fresh(j)
      BY <1>6 DEF State!FlushWritten, AllFresh
    <2>2. /\ batch \in Seq(State!Items) /\ OneEach(batch)
          /\ \A k, x : WritesOf(k, x) <=> With(batch, k, x) \/ WritesOf(k, x)'
          /\ \A k : Single(k) => Single(k)'
          /\ \A k, x : Single(k) /\ With(batch, k, x) => \A y : ~WritesOf(k, y)'
      BY <1>0, <2>1, ArrivedEffect
    <2> HIDE DEF batch
    <2>3. CASE \A x : ~With(batch, j, x)
      <3>1. hash'[j] = hash[j]
        BY <1>0, <2>1, <2>2, <2>3, StoredIs
      <3> QED
        BY <1>5, <2>1, <2>3, <3>1 DEF batch
    <2>4. ASSUME NEW x, With(batch, j, x)  PROVE Fresh(j)' /\ Before(hash[j], hash'[j])
      <3>1. hash'[j] = x
        BY <1>0, <2>1, <2>2, <2>4, StoredIs
      <3>2. WritesOf(j, x) /\ Single(j)' /\ \A y : ~WritesOf(j, y)'
        BY <2>1, <2>2, <2>4 DEF Fresh
      <3>3. /\ Before(hash[j], x) /\ Before(x, lastMeta[j])
            /\ x = lastMeta[j] \/ \E y : With(pending, j, y)
        BY <2>1, <3>2 DEF Fresh
      <3>4. \A s \in State!InFlight(j) : sendPc[s] # "write"
        BY <2>1, <3>2 DEF Fresh
      <3>5. Fresh(j)'
        BY <1>2, <1>3, <2>1, <3>1, <3>2, <3>3, <3>4 DEF Fresh
      <3> QED
        BY <3>1, <3>3, <3>5
    <2> QED
      BY <2>3, <2>4
  <1>7. ASSUME NEW i \in DOMAIN writing, NEW applied \in BOOLEAN, State!FlushFailed(i, applied),
               NEW j \in StateJobs, j \notin disturbed'
        PROVE  Fresh(j)' /\ Before(hash[j], hash'[j])
    <2> DEFINE batch == writing[i].batch
    <2>1. /\ writing' = State!Others(i) /\ pending' = pending \o State!Revived(batch)
          /\ hash' = State!Stored(batch) \/ hash' = hash
          /\ Fresh(j) /\ j \notin State!JobsOf(batch)
      BY <1>7 DEF State!FlushFailed, AllFresh
    <2>2. batch \in Seq(State!Items) /\ OneEach(batch)
      BY <1>0, <2>1, ArrivedEffect
    <2> HIDE DEF batch
    <2>3. \A x : ~With(batch, j, x)
      BY <2>1 DEF With, State!JobsOf
    <2>4. hash'[j] = hash[j]
      BY <1>0, <2>1, <2>2, <2>3, StoredIs
    <2>5. \A m : With(pending', j, m) <=> With(pending, j, m)
      <3>1. pending \in Seq(State!Items) /\ OneEach(pending)
        BY DEF BatchTypes, BatchOne
      <3>2. /\ State!Revived(batch) \in Seq(State!Items) /\ OneEach(State!Revived(batch))
            /\ \A k, x : With(State!Revived(batch), k, x) => With(batch, k, x) /\ k \notin State!JobsOf(pending)
        BY <2>2, RevivedFrom
      <3>3. \A k, x : With(pending', k, x) <=> With(pending, k, x) \/ With(State!Revived(batch), k, x)
        BY <2>1, <3>1, <3>2, JoinedItems
      <3> QED
        BY <2>3, <3>2, <3>3
    <2> QED
      BY <1>5, <2>1, <2>3, <2>4, <2>5 DEF batch
  <1> QED
    BY <1>4, <1>6, <1>7 DEF State!Flush, AllFresh

\* Steps in which no sender starts to send and the memory stays.
LEMMA AheadKept ==
  ASSUME AllAhead, lastMeta' = lastMeta,
         \A x \in State!Senders : sendPc'[x] \in {"publish", "write"} /\ x \notin behind' =>
           sendPc[x] \in {"publish", "write"} /\ x \notin behind /\ msg'[x] = msg[x]
  PROVE  AllAhead'
BY DEF AllAhead, State!JobOf

LEMMA AheadStep ==
  ASSUME State!BatchAssumption, State!RedisStateAssumption, StateTypes, AllAhead, [State!Next]_State!vars
  PROVE  AllAhead'
  <1> USE DEF StateTypes
  <1>0. /\ \A r \in Publishes : r \in State!Senders /\ r \notin StateJobs
        /\ \A j \in StateJobs : j \in State!Senders
        /\ \A j \in StateJobs : State!JobOf(j) = j
    BY DEF State!RedisStateAssumption, State!Senders, State!JobOf
  <1>1. CASE UNCHANGED State!vars
    BY <1>1, AheadKept DEF State!vars, State!senderVars
  <1>2. ASSUME NEW r \in Publishes, NEW in \in StateInputs, State!Arrive(r, in)  PROVE AllAhead'
    <2> DEFINE j == Target[r]
    <2>1. /\ sendPc[r] = "idle" /\ msg' = [msg EXCEPT ![r] = in.msg] /\ UNCHANGED <<lastMeta, behind>>
      BY <1>2 DEF State!Arrive
    <2>2. /\ \A x \in State!Senders : x # r => sendPc'[x] = sendPc[x] \/ sendPc'[x] = "end"
          /\ sendPc'[r] = "get" \/ sendPc'[r] = "waiting"
      <3>1. CASE State!PassTerminal(r, j)
        BY <1>0, <3>1 DEF State!PassTerminal, State!Supersede, SenderTypes
      <3>2. CASE State!Throttle(r, j)
        BY <1>0, <3>2 DEF State!Throttle, State!Supersede, SenderTypes
      <3>3. CASE State!Reserve(r, j)
        BY <1>0, <3>3 DEF State!Reserve, SenderTypes
      <3>4. CASE sendPc' = [sendPc EXCEPT ![r] = "get"]
        BY <1>0, <3>4 DEF SenderTypes
      <3> QED
        BY <1>2, <3>1, <3>2, <3>3, <3>4 DEF State!Arrive
    <2>3. \A x \in State!Senders : x # r => msg'[x] = msg[x]
      BY <2>1 DEF SenderTypes
    <2> QED
      BY <2>1, <2>2, <2>3, AheadKept
  <1>3. ASSUME NEW j \in StateJobs, State!Tick(j)  PROVE AllAhead'
    BY <1>3, AheadKept DEF State!Tick, State!senderVars
  <1>4. ASSUME NEW j \in StateJobs, State!DelayedPublish(j)  PROVE AllAhead'
    <2>1. /\ \A x \in State!Senders : sendPc'[x] = sendPc[x] \/ sendPc'[x] = "get"
          /\ UNCHANGED <<msg, lastMeta, behind>>
      BY <1>4 DEF State!DelayedPublish
    <2> QED
      BY <2>1, AheadKept
  <1>5. ASSUME NEW j \in StateJobs, State!SmoothWakes(j)  PROVE AllAhead'
    <2>1. /\ \A x \in State!Senders : x # j => sendPc'[x] = sendPc[x] /\ msg'[x] = msg[x]
          /\ sendPc'[j] = "idle" \/ sendPc'[j] = "get"
          /\ UNCHANGED <<lastMeta, behind>>
      BY <1>0, <1>5 DEF State!SmoothWakes, SenderTypes
    <2> QED
      BY <2>1, AheadKept
  <1>6. ASSUME NEW s \in State!Senders, State!Merge(s)  PROVE AllAhead'
    <2> DEFINE j == State!JobOf(s)
               merged == State!MergeMonotonic(lastMeta[j], msg[s])
               frame == State!Smoothed(s, merged)
    <2>1. /\ sendPc[s] = "get" /\ msg' = [msg EXCEPT ![s] = frame] /\ lastMeta' = lastMeta
          /\ behind' = IF State!Unsmoothed(s, merged) THEN behind \ {j} ELSE behind
          /\ \A x \in State!Senders : x # s => sendPc'[x] = sendPc[x] \/ sendPc'[x] = "idle"
          /\ State!Unsmoothed(s, merged) => sendPc'[j] = "idle"
      BY <1>0, <1>6, JobOfTyped DEF State!Merge
    <2>2. j \in StateJobs /\ msg[s] \in State!Messages /\ lastMeta[j] \in State!States \cup {None}
      BY <2>1, JobOfTyped DEF SenderTypes, Sent, MemoryTypes
    <2>3. merged \in State!Messages /\ Ahead(lastMeta[j], merged)
      BY <2>2, MergedIsAhead
    <2>4. Ahead(lastMeta[j], frame)
      BY <2>2, <2>3, FrameIsAhead
    <2> HIDE DEF merged, frame
    <2>5. msg'[s] = frame /\ \A x \in State!Senders : x # s => msg'[x] = msg[x]
      BY <2>1 DEF SenderTypes
    <2> SUFFICES ASSUME NEW x \in State!Senders, sendPc'[x] \in {"publish", "write"}, x \notin behind'
                 PROVE  Ahead(lastMeta'[State!JobOf(x)], msg'[x])
      BY DEF AllAhead, State!JobOf
    <2>6. CASE x = s
      BY <2>1, <2>4, <2>5, <2>6
    <2>7. CASE x # s
      <3>1. sendPc[x] \in {"publish", "write"} /\ x \notin behind
        BY <2>1, <2>7
      <3> QED
        BY <2>1, <2>5, <2>7, <3>1 DEF AllAhead
    <2> QED
      BY <2>6, <2>7
  <1>7. ASSUME NEW s \in State!Senders, State!SendFails(s)  PROVE AllAhead'
    <2>1. /\ sendPc' = [sendPc EXCEPT ![s] = State!EndSend(s)] /\ UNCHANGED <<msg, lastMeta>> /\ behind' = behind \ {s}
      BY <1>7 DEF State!SendFails
    <2>2. State!EndSend(s) = "idle" \/ State!EndSend(s) = "end"
      BY DEF State!EndSend
    <2>3. \A x \in State!Senders : sendPc'[x] = IF x = s THEN State!EndSend(s) ELSE sendPc[x]
      BY <2>1 DEF SenderTypes
    <2> QED
      BY <2>1, <2>2, <2>3, AheadKept
  <1>8. ASSUME NEW s \in State!Senders, State!Overtakes(s), sendPc[s] \in {"publish", "write"}, msg' = msg,
               lastMeta' = [lastMeta EXCEPT ![State!JobOf(s)] = State!Remembered(s)],
               \A x \in State!Senders : sendPc'[x] = sendPc[x] \/ sendPc'[x] \in {"idle", "end", "asleep"},
               sendPc'[s] \in {"idle", "end"}
        PROVE  AllAhead'
    <2> SUFFICES ASSUME NEW x \in State!Senders, sendPc'[x] \in {"publish", "write"}, x \notin behind'
                 PROVE  Ahead(lastMeta'[State!JobOf(x)], msg'[x])
      BY DEF AllAhead, State!JobOf
    <2>1. x # s /\ sendPc[x] \in {"publish", "write"}
      BY <1>8
    <2>2. State!JobOf(x) # State!JobOf(s) /\ x \notin behind
      BY <1>8, <2>1 DEF State!Overtakes, State!InFlight
    <2>3. lastMeta'[State!JobOf(x)] = lastMeta[State!JobOf(x)]
      BY <1>8, <2>2, JobOfTyped DEF MemoryTypes
    <2> QED
      BY <1>8, <2>1, <2>2, <2>3 DEF AllAhead
  <1>9. ASSUME NEW s \in State!Senders, NEW skip \in BOOLEAN, State!Published(s, skip)  PROVE AllAhead'
    <2>1. /\ State!Overtakes(s) /\ sendPc[s] = "publish" /\ msg' = msg
          /\ lastMeta' = [lastMeta EXCEPT ![State!JobOf(s)] = State!Remembered(s)]
          /\ sendPc' = State!AfterPublish(s, State!JobOf(s))
      BY <1>9 DEF State!Published
    <2>2. State!EndSend(s) = "idle" \/ State!EndSend(s) = "end"
      BY DEF State!EndSend
    <2>3. /\ \A x \in State!Senders : sendPc'[x] = sendPc[x] \/ sendPc'[x] \in {"idle", "end", "asleep"}
          /\ sendPc'[s] \in {"idle", "end"}
      BY <2>1, <2>2 DEF State!AfterPublish
    <2> QED
      BY <1>8, <2>1, <2>3
  <1>10. ASSUME NEW s \in State!Senders, State!StateWritten(s)  PROVE AllAhead'
    BY <1>8, <1>10 DEF State!StateWritten, SenderTypes
  <1>11. ASSUME NEW s \in State!Senders, NEW applied \in BOOLEAN, State!StateWriteFails(s, applied)  PROVE AllAhead'
    <2>1. /\ sendPc' = [sendPc EXCEPT ![s] = "end"] /\ UNCHANGED <<msg, lastMeta>> /\ behind' = behind \ {s}
      BY <1>11 DEF State!StateWriteFails
    <2>2. \A x \in State!Senders : sendPc'[x] = IF x = s THEN "end" ELSE sendPc[x]
      BY <2>1 DEF SenderTypes
    <2> QED
      BY <2>1, <2>2, AheadKept
  <1>12. CASE State!Flush
    BY <1>12, AheadKept DEF State!Flush, State!senderVars
  <1> QED
    BY <1>1, <1>2, <1>3, <1>4, <1>5, <1>6, <1>7, <1>9, <1>10, <1>11, <1>12 DEF State!Next, State!Send

LEMMA SendKeepsFresh ==
  ASSUME State!BatchAssumption, State!RedisStateAssumption, StateTypes, AllAhead, AllFresh, NEW s \in State!Senders, State!Send(s)
  PROVE  /\ AllFresh'
         /\ \A j \in StateJobs : j \notin disturbed' => Before(hash[j], hash'[j])
  <1> USE DEF StateTypes
  <1>0. /\ hash \in [StateJobs -> State!States \cup {None}] /\ lastMeta \in [StateJobs -> State!States \cup {None}]
        /\ pending \in Seq(State!Items) /\ OneEach(pending)
        /\ State!JobOf(s) \in StateJobs
    BY JobOfTyped DEF MemoryTypes, BatchTypes, BatchOne
  <1>b. \A k \in StateJobs : Before(hash[k], hash[k]) /\ Before(lastMeta[k], lastMeta[k])
    BY <1>0, BeforeItself
  <1>n. ASSUME sendPc[s] \in {"publish", "write"}
        PROVE  /\ State!Remembered(s) \in State!States
               /\ Before(lastMeta[State!JobOf(s)], State!Remembered(s))
    <2>1. msg[s] \in State!Messages /\ lastMeta[State!JobOf(s)] \in State!States \cup {None}
      BY <1>0, <1>n DEF SenderTypes, Sent
    <2>2. s \notin behind => Ahead(lastMeta[State!JobOf(s)], msg[s])
      BY <1>n DEF AllAhead
    <2> QED
      BY <2>1, <2>2, RememberedMovesOn
  <1>1. ASSUME State!Merge(s), NEW k \in StateJobs, k \notin disturbed'  PROVE Fresh(k)' /\ hash' = hash
    <2> DEFINE j == State!JobOf(s)
               merged == State!MergeMonotonic(lastMeta[j], msg[s])
               frame == State!Smoothed(s, merged)
               next == IF kind[s] = "state" THEN "write" ELSE "publish"
    <2>1. /\ sendPc[s] = "get" /\ msg' = [msg EXCEPT ![s] = frame]
          /\ sendPc' = [x \in State!Senders |->
                      IF State!Unsmoothed(s, merged) /\ x = j THEN "idle" ELSE IF x = s THEN next ELSE sendPc[x]]
          /\ disturbed' = IF next = "write" /\ j \in State!Direct \cup State!BeingWritten \cup State!JobsOf(pending)
                          THEN disturbed \cup {j} ELSE disturbed
          /\ UNCHANGED <<State!batchVars, hash, lastMeta>>
      BY <1>1 DEF State!Merge
    <2> HIDE DEF merged, frame, next
    <2>4. /\ \A x \in State!Senders : x # s => msg'[x] = msg[x] /\ (sendPc'[x] = sendPc[x] \/ sendPc'[x] = "idle")
          /\ sendPc'[s] = next \/ sendPc'[s] = "idle"
      BY <2>1 DEF SenderTypes
    <2>5. Fresh(k)
      BY <1>1, <2>1 DEF AllFresh
    <2>6. CASE k # j
      <3>1. \A x \in State!InFlight(k)' : x \in State!InFlight(k) /\ sendPc'[x] = sendPc[x] /\ msg'[x] = msg[x]
        BY <2>4, <2>6 DEF State!InFlight
      <3> QED
        BY <2>1, <2>5, <3>1, UntouchedSend
    <2>7. CASE k = j
      <3>1. ~(next = "write" /\ k \in State!BeingWritten \cup State!JobsOf(pending))
        BY <1>1, <2>1, <2>7
      <3>2. \A x \in State!InFlight(k)' : x = s \/ (x \in State!InFlight(k) /\ sendPc'[x] = sendPc[x])
        BY <2>4 DEF State!InFlight
      <3>3. next = "write" => \A m : ~With(pending, k, m) /\ ~WritesOf(k, m)
        BY <3>1 DEF With, WritesOf, State!JobsOf, State!BeingWritten
      <3>4. s \in State!InFlight(k)' => sendPc'[s] = next
        BY <2>4 DEF State!InFlight
      <3>5. /\ pending' = pending /\ writing' = writing /\ hash' = hash /\ lastMeta' = lastMeta
            /\ \A m : WritesOf(k, m)' <=> WritesOf(k, m)
            /\ Single(k)' <=> Single(k)
        BY <2>1 DEF State!batchVars, WritesOf, Single
      <3> QED
        BY <2>5, <3>2, <3>3, <3>4, <3>5 DEF Fresh
    <2> QED
      BY <2>1, <2>6, <2>7
  <1>2. ASSUME State!SendFails(s), NEW k \in StateJobs, k \notin disturbed'  PROVE Fresh(k)' /\ hash' = hash
    <2>1. /\ sendPc' = [sendPc EXCEPT ![s] = State!EndSend(s)] /\ msg' = msg /\ disturbed \subseteq disturbed'
          /\ UNCHANGED <<State!batchVars, hash, lastMeta>>
      BY <1>2 DEF State!SendFails
    <2>2. State!EndSend(s) = "idle" \/ State!EndSend(s) = "end"
      BY DEF State!EndSend
    <2>3. \A x \in State!InFlight(k)' : x \in State!InFlight(k) /\ sendPc'[x] = sendPc[x] /\ msg'[x] = msg[x]
      BY <2>1, <2>2 DEF State!InFlight, SenderTypes
    <2> QED
      BY <1>2, <2>1, <2>3, UntouchedSend DEF AllFresh
  <1>3. ASSUME NEW skip \in BOOLEAN, State!Published(s, skip), NEW k \in StateJobs, k \notin disturbed'
        PROVE  Fresh(k)' /\ hash' = hash
    <2> DEFINE j == State!JobOf(s)
               new == State!Remembered(s)
    <2>1. /\ sendPc[s] = "publish" /\ (skip => lastMeta[j] = new)
          /\ IF skip THEN UNCHANGED State!batchVars ELSE State!EnqueueStateWrite(j, new)
          /\ lastMeta' = [lastMeta EXCEPT ![j] = new]
          /\ sendPc' = State!AfterPublish(s, j) /\ msg' = msg /\ hash' = hash
          /\ disturbed' = IF ~skip /\ j \in State!Direct THEN disturbed \cup {j} ELSE disturbed
      BY <1>3 DEF State!Published, State!ScheduleStateWrite
    <2>2. new \in State!States /\ Before(lastMeta[j], new)
      BY <2>1, <1>n
    <2> HIDE DEF new
    <2>3. /\ writing' = writing
          /\ \A i, x : With(pending', i, x) <=> IF ~skip /\ i = j THEN x = new ELSE With(pending, i, x)
      <3>1. CASE skip
        BY <2>1, <3>1 DEF State!batchVars
      <3>2. CASE ~skip
        <4>1. State!EnqueueStateWrite(j, new) /\ RetryLimit \in Nat
          BY <2>1, <3>2 DEF State!BatchAssumption
        <4>2. /\ writing' = writing
              /\ \A i, x : With(pending', i, x) <=> IF i = j THEN x = new ELSE With(pending, i, x)
          BY <1>0, <2>2, <4>1, Enqueued
        <4> QED
          BY <3>2, <4>2
      <3> QED
        BY <3>1, <3>2
    <2>4. /\ \A i, m : WritesOf(i, m)' <=> WritesOf(i, m)
          /\ \A i : Single(i)' <=> Single(i)
      BY <2>3 DEF WritesOf, Single
    <2>5. \A x \in State!Senders : x # s => sendPc'[x] = sendPc[x] \/ sendPc'[x] = "asleep"
      BY <2>1 DEF State!AfterPublish
    <2>6. sendPc'[s] = "idle" \/ sendPc'[s] = "end"
      BY <2>1 DEF State!AfterPublish, State!EndSend
    <2>7. \A i : \A x \in State!InFlight(i)' : x \in State!InFlight(i) /\ x # s /\ sendPc'[x] = sendPc[x] /\ msg'[x] = msg[x]
      BY <2>1, <2>5, <2>6 DEF State!InFlight
    <2>8. Fresh(k)
      BY <1>3, <2>1 DEF AllFresh
    <2>9. CASE k # j
      <3>1. lastMeta'[k] = lastMeta[k] /\ hash'[k] = hash[k]
        BY <2>1, <2>9
      <3>2. \A m : With(pending', k, m) <=> With(pending, k, m)
        BY <2>3, <2>9
      <3>3. Single(k)'
        BY <2>4, <2>8 DEF Fresh
      <3> QED
        BY <2>1, <2>4, <2>7, <2>8, <3>1, <3>2, <3>3, Untouched
    <2>10. CASE k = j
      <3>2. lastMeta'[k] = new /\ Before(lastMeta[k], new)
        BY <1>0, <2>1, <2>2, <2>10
      <3>3. \A a, b, c \in State!States \cup {None} : Before(a, b) /\ Before(b, c) => Before(a, c)
        BY BeforeGoesOn
      <3>4. Before(hash[k], new)
        BY <1>0, <2>2, <2>8, <3>2, <3>3 DEF Fresh
      <3>5. CASE skip
        <4>1. lastMeta'[k] = lastMeta[k] /\ hash'[k] = hash[k]
          BY <2>1, <2>10, <3>2, <3>5
        <4>2. \A m : With(pending', k, m) <=> With(pending, k, m)
          BY <2>3, <3>5
        <4>3. Single(k)'
          BY <2>4, <2>8 DEF Fresh
        <4> QED
          BY <2>1, <2>4, <2>7, <2>8, <4>1, <4>2, <4>3, Untouched
      <3>6. CASE ~skip
        <4>1. \A x : With(pending', k, x) <=> x = new
          BY <2>3, <2>10, <3>6
        <4>2. ASSUME NEW m, WritesOf(k, m)  PROVE Before(hash[k], m) /\ Before(m, new)
          <5>1. m \in State!States
            <6>1. PICK n \in DOMAIN writing : With(writing[n].batch, k, m)
              BY <4>2 DEF WritesOf
            <6>2. writing[n] \in Flushes
              BY DEF BatchTypes
            <6>3. writing[n].batch \in Seq(State!Items)
              BY <6>2 DEF Flushes
            <6>4. PICK i \in DOMAIN writing[n].batch : writing[n].batch[i].msg = m
              BY <6>1 DEF With
            <6>5. writing[n].batch[i] \in State!Items
              BY <6>3
            <6> QED
              BY <6>4, <6>5 DEF State!Items
          <5>2. Before(hash[k], m) /\ Before(m, lastMeta[k])
            BY <2>8, <4>2 DEF Fresh
          <5> QED
            BY <1>0, <2>2, <3>2, <3>3, <5>1, <5>2
        <4>3. Single(k)
          BY <2>8 DEF Fresh
        <4>4. \A x \in State!InFlight(k)' : sendPc'[x] # "write"
          <5>1. k \notin State!Direct
            BY <1>3, <2>1, <2>10, <3>6
          <5> QED
            BY <1>3, <2>7, <5>1 DEF State!Direct
        <4> QED
          BY <2>1, <2>4, <3>2, <3>4, <4>1, <4>2, <4>3, <4>4 DEF Fresh
      <3> QED
        BY <2>1, <3>5, <3>6
    <2> QED
      BY <2>1, <2>9, <2>10
  <1>4. ASSUME State!StateWritten(s), NEW k \in StateJobs, k \notin disturbed'
        PROVE  Fresh(k)' /\ Before(hash[k], hash'[k])
    <2> DEFINE j == State!JobOf(s)
               new == State!Remembered(s)
    <2>1. /\ sendPc[s] = "write" /\ hash' = [hash EXCEPT ![j] = new]
          /\ lastMeta' = [lastMeta EXCEPT ![j] = new]
          /\ sendPc' = [sendPc EXCEPT ![s] = "end"] /\ msg' = msg /\ disturbed' = disturbed
          /\ UNCHANGED State!batchVars
      BY <1>4 DEF State!StateWritten
    <2>2. new \in State!States /\ Before(lastMeta[j], new) /\ s \in State!InFlight(j)
      BY <2>1, <1>n DEF State!InFlight
    <2> HIDE DEF new
    <2>3. Fresh(k)
      BY <1>4, <2>1 DEF AllFresh
    <2>4. \A i : \A x \in State!InFlight(i)' : x \in State!InFlight(i) /\ x # s /\ sendPc'[x] = sendPc[x] /\ msg'[x] = msg[x]
      BY <2>1 DEF State!InFlight, SenderTypes
    <2>5. /\ pending' = pending
          /\ \A i, m : WritesOf(i, m)' <=> WritesOf(i, m)
          /\ \A i : Single(i)' <=> Single(i)
      BY <2>1 DEF State!batchVars, WritesOf, Single
    <2>6. CASE k # j
      <3>1. lastMeta'[k] = lastMeta[k] /\ hash'[k] = hash[k]
        BY <1>0, <2>1, <2>6
      <3>2. Single(k)'
        BY <2>3, <2>5 DEF Fresh
      <3> QED
        BY <1>b, <2>3, <2>4, <2>5, <3>1, <3>2, Untouched
    <2>7. CASE k = j
      <3>1. /\ lastMeta'[k] = new /\ hash'[k] = new
            /\ Before(lastMeta[k], new) /\ Before(hash[k], lastMeta[k])
            /\ \A m : ~With(pending, k, m) /\ ~WritesOf(k, m)
        BY <1>0, <2>1, <2>2, <2>3, <2>7 DEF Fresh
      <3>2. Before(hash[k], new) /\ Before(new, new)
        BY <1>0, <2>2, <3>1, BeforeGoesOn, BeforeItself
      <3> QED
        BY <2>3, <2>5, <3>1, <3>2 DEF Fresh
    <2> QED
      BY <2>6, <2>7
  <1>5. ASSUME NEW applied \in BOOLEAN, State!StateWriteFails(s, applied), NEW k \in StateJobs, k \notin disturbed'
        PROVE  Fresh(k)' /\ Before(hash[k], hash'[k])
    <2> DEFINE j == State!JobOf(s)
    <2>1. /\ hash' = IF applied THEN [hash EXCEPT ![j] = State!Remembered(s)] ELSE hash
          /\ sendPc' = [sendPc EXCEPT ![s] = "end"] /\ msg' = msg /\ lastMeta' = lastMeta
          /\ disturbed' = disturbed \cup {j}
          /\ UNCHANGED State!batchVars
      BY <1>5 DEF State!StateWriteFails
    <2>2. k # j /\ Fresh(k)
      BY <1>5, <2>1 DEF AllFresh
    <2>3. \A x \in State!InFlight(k)' : x \in State!InFlight(k) /\ sendPc'[x] = sendPc[x] /\ msg'[x] = msg[x]
      BY <2>1 DEF State!InFlight, SenderTypes
    <2>4. /\ pending' = pending /\ hash'[k] = hash[k] /\ lastMeta'[k] = lastMeta[k]
          /\ \A i, m : WritesOf(i, m)' <=> WritesOf(i, m)
          /\ Single(k)'
      BY <1>0, <2>1, <2>2 DEF State!batchVars, WritesOf, Single, Fresh
    <2> QED
      BY <1>b, <2>2, <2>3, <2>4, Untouched
  <1> QED
    BY <1>b, <1>1, <1>2, <1>3, <1>4, <1>5 DEF State!Send, AllFresh

LEMMA FreshStep ==
  ASSUME State!BatchAssumption, State!RedisStateAssumption, StateTypes, AllAhead, AllFresh,
         [State!Next]_State!vars
  PROVE  /\ AllFresh'
         /\ \A j \in StateJobs : j \notin disturbed' => Before(hash[j], hash'[j])
  <1> USE DEF StateTypes
  <1>0. /\ StateJobs \cap Publishes = {} /\ Target \in [Publishes -> StateJobs]
        /\ \A r \in Publishes : r \in State!Senders /\ r \notin StateJobs
        /\ \A j \in StateJobs : j \in State!Senders
    BY DEF State!RedisStateAssumption, State!Senders
  <1>b. \A k \in StateJobs : Before(hash[k], hash[k])
    BY BeforeItself DEF MemoryTypes
  <1>s. ASSUME UNCHANGED <<State!batchVars, hash, lastMeta, disturbed>>,
               \A x \in State!Senders : sendPc'[x] \in {"publish", "write"} => sendPc'[x] = sendPc[x] /\ msg'[x] = msg[x]
        PROVE  /\ AllFresh'
               /\ \A j \in StateJobs : j \notin disturbed' => Before(hash[j], hash'[j])
    <2>1. ASSUME NEW k \in StateJobs, k \notin disturbed'  PROVE Fresh(k)'
      <3>1. \A x \in State!InFlight(k)' : x \in State!InFlight(k) /\ sendPc'[x] = sendPc[x] /\ msg'[x] = msg[x]
        BY <1>s DEF State!InFlight
      <3> QED
        BY <1>s, <2>1, <3>1, UntouchedSend DEF AllFresh
    <2> QED
      BY <1>b, <1>s, <2>1 DEF AllFresh
  <1>1. CASE UNCHANGED State!vars
    BY <1>1, <1>s DEF State!vars, State!senderVars
  <1>2. ASSUME NEW r \in Publishes, NEW in \in StateInputs, State!Arrive(r, in)
        PROVE  /\ AllFresh'
               /\ \A j \in StateJobs : j \notin disturbed' => Before(hash[j], hash'[j])
    <2> DEFINE j == Target[r]
    <2>1. /\ sendPc[r] = "idle" /\ msg' = [msg EXCEPT ![r] = in.msg]
          /\ UNCHANGED <<State!batchVars, hash, lastMeta, disturbed>>
      BY <1>2 DEF State!Arrive
    <2>2. /\ \A x \in State!Senders : x # r => sendPc'[x] = sendPc[x] \/ sendPc'[x] = "end"
          /\ sendPc'[r] = "get" \/ sendPc'[r] = "waiting"
      <3>1. CASE State!PassTerminal(r, j)
        BY <1>0, <3>1 DEF State!PassTerminal, State!Supersede, SenderTypes
      <3>2. CASE State!Throttle(r, j)
        BY <1>0, <3>2 DEF State!Throttle, State!Supersede, SenderTypes
      <3>3. CASE State!Reserve(r, j)
        BY <1>0, <3>3 DEF State!Reserve, SenderTypes
      <3>4. CASE sendPc' = [sendPc EXCEPT ![r] = "get"]
        BY <1>0, <3>4 DEF SenderTypes
      <3> QED
        BY <1>2, <3>1, <3>2, <3>3, <3>4 DEF State!Arrive
    <2>3. \A x \in State!Senders : x # r => msg'[x] = msg[x]
      BY <2>1 DEF SenderTypes
    <2> QED
      BY <1>s, <2>1, <2>2, <2>3
  <1>3. ASSUME NEW j \in StateJobs, State!Tick(j)
        PROVE  /\ AllFresh'
               /\ \A k \in StateJobs : k \notin disturbed' => Before(hash[k], hash'[k])
    BY <1>3, <1>s DEF State!Tick, State!senderVars
  <1>4. ASSUME NEW j \in StateJobs, State!DelayedPublish(j)
        PROVE  /\ AllFresh'
               /\ \A k \in StateJobs : k \notin disturbed' => Before(hash[k], hash'[k])
    <2>1. \A x \in State!Senders : sendPc'[x] = sendPc[x] \/ sendPc'[x] = "get"
      BY <1>4 DEF State!DelayedPublish
    <2> QED
      BY <1>4, <1>s, <2>1 DEF State!DelayedPublish
  <1>5. ASSUME NEW j \in StateJobs, State!SmoothWakes(j)
        PROVE  /\ AllFresh'
               /\ \A k \in StateJobs : k \notin disturbed' => Before(hash[k], hash'[k])
    <2>1. /\ \A x \in State!Senders : x # j => sendPc'[x] = sendPc[x] /\ msg'[x] = msg[x]
          /\ sendPc'[j] = "idle" \/ sendPc'[j] = "get"
      BY <1>0, <1>5 DEF State!SmoothWakes, SenderTypes
    <2> QED
      BY <1>5, <1>s, <2>1 DEF State!SmoothWakes
  <1> QED
    BY <1>1, <1>2, <1>3, <1>4, <1>5, FlushKeepsFresh, SendKeepsFresh DEF State!Next

-----------------------------------------------------------------------------
(* Theorems *)

StateInv == StateTypes /\ State!NoStrandedState /\ AllAhead /\ AllFresh

LEMMA StateInit ==
  ASSUME State!BatchAssumption, State!RedisStateAssumption
  PROVE  State!Init => StateInv
  <1> SUFFICES ASSUME State!Init  PROVE StateInv
    OBVIOUS
  <1> USE DEF State!Init, State!BatchInit
  <1>1. BatchTypes
    <2>1. pending = <<>> /\ flushing = FALSE /\ writing = <<>>
      OBVIOUS
    <2>2. <<>> \in Seq(State!Items) /\ <<>> \in Seq(Flushes) /\ DOMAIN <<>> = {}
      OBVIOUS
    <2> QED
      BY <2>1, <2>2 DEF BatchTypes, BatchOne, OneEach
  <1>2. SenderTypes
    BY DEF SenderTypes, Sent, State!Kinds, State!Senders
  <1>3. SlotTypes /\ MemoryTypes
    BY DEF SlotTypes, MemoryTypes, State!BatchAssumption
  <1>4. State!NoStrandedState
    BY DEF State!NoStrandedState
  <1>5. AllFresh
    BY DEF AllFresh, Fresh, State!InFlight, Single, With, WritesOf, Before
  <1>6. AllAhead
    BY DEF AllAhead
  <1> QED
    BY <1>1, <1>2, <1>3, <1>4, <1>5, <1>6 DEF StateInv, StateTypes

LEMMA StateStep ==
  ASSUME State!BatchAssumption, State!RedisStateAssumption, StateInv, [State!Next]_State!vars
  PROVE  StateInv'
BY StateTypesStep, StrandedStep, AheadStep, FreshStep DEF StateInv

LEMMA StateMeans ==
  ASSUME StateInv
  PROVE  State!TypeOK /\ State!NoStrandedState /\ State!QuietIsLatest
  <1> USE DEF StateInv
  <1>1. State!TypeOK
    BY DEF State!TypeOK, State!BatchTypeOK, StateTypes, BatchTypes, SenderTypes, SlotTypes, MemoryTypes, Flushes
  <1>2. State!QuietIsLatest
    <2> SUFFICES ASSUME NEW j \in StateJobs, State!Settled(j), j \notin disturbed  PROVE hash[j] = lastMeta[j]
      BY DEF State!QuietIsLatest
    <2>1. Fresh(j)
      BY DEF AllFresh
    <2>2. \A m : ~With(pending, j, m) /\ ~WritesOf(j, m)
      BY DEF State!Settled, With, WritesOf, State!JobsOf, State!BeingWritten
    <2> QED
      BY <2>1, <2>2 DEF Fresh
  <1> QED
    BY <1>1, <1>2

LEMMA HashStep ==
  ASSUME State!BatchAssumption, State!RedisStateAssumption, StateInv, [State!Next]_State!vars,
         NEW j \in StateJobs, hash[j] # None, j \notin disturbed'
  PROVE  State!MovesOn(hash[j], hash'[j])
  <1>1. Before(hash[j], hash'[j])
    BY FreshStep DEF StateInv
  <1> QED
    BY <1>1 DEF Before

LEMMA StateAssumed == State!BatchAssumption /\ State!RedisStateAssumption
BY ServicesAssumption DEF ServicesAssumption

LEMMA StateSteps == [Next]_vars => [State!Next]_State!vars
BY DEF Next, vars, stateVars, State!senderVars, State!throttleVars, State!vars, State!batchVars

\* The inductive invariant of the state batch holds in every state.
THEOREM StateHolds == Spec => []StateInv
<1>1. Init => StateInv
  BY StateAssumed, StateInit DEF Init
<1>2. StateInv /\ [Next]_vars => StateInv'
  BY StateAssumed, StateSteps, StateStep
<1> QED
  BY <1>1, <1>2, PTL DEF Spec

\* A state that waits in the batch has a flush that will write it, after every order
\* of enqueueing, cuts, failures and re-queueing, for every batch size and retry limit.
THEOREM NoStateIsStranded == Spec => []NoStrandedState
<1>1. StateInv => NoStrandedState
  BY StateMeans DEF NoStrandedState
<1> QED
  BY <1>1, StateHolds, PTL

\* Once nothing of a job is on its way its hash in Redis is the last state of the
\* job, however its sends overlapped, unless a write of the hash failed or ran beside
\* another.
THEOREM QuietHashIsLatest == Spec => []QuietIsLatest
<1>1. StateInv => QuietIsLatest
  BY StateMeans DEF QuietIsLatest
<1> QED
  BY <1>1, StateHolds, PTL

\* Through overlapping sends, merging, smoothing and the batch the hash of a job goes
\* back, in its counter or from a terminal status, only to a state from before which
\* the memory had gone back, and the memory goes back only through a message marked
\* to (_merge_monotonic) or merged before the state it replaces was remembered.
THEOREM HashKeepsMoving == Spec => HashMovesOn
<1>1. StateInv /\ [Next]_vars =>
        [\A j \in StateJobs :
           hash[j] # None /\ j \notin disturbed' => State!MovesOn(hash[j], hash'[j])]_State!vars
  BY StateAssumed, StateSteps, HashStep
<1> QED
  BY <1>1, StateHolds, PTL DEF Spec, HashMovesOn, State!HashMovesOn

-----------------------------------------------------------------------------
(* Types of the services *)

\* The rest of the stage counters: what was selected and saved.
LedgerTypes ==
  /\ seen \subseteq Urls /\ {selectedKeys, savedKeys} \subseteq SUBSET CounterKeys
  /\ selected \in Nat /\ saved \in Nat /\ clears \in 0..MaxClears

LEMMA LedgerStep ==
  ASSUME Count!StageCountersAssumption, LedgerTypes, [Count!Next]_Count!vars
  PROVE  LedgerTypes'
<1>0. CounterKeys \subseteq Urls \X {"url", "row"} /\ MaxClears \in Nat
  BY DEF Count!StageCountersAssumption
<1>u. CASE UNCHANGED <<Count!selectVars, Count!saveVars, clears>>
  BY <1>u DEF Count!selectVars, Count!saveVars, LedgerTypes
<1>1. ASSUME NEW k \in CounterKeys, Count!MarkSelected(k)  PROVE LedgerTypes'
  <2>1. k[1] \in Urls
    BY <1>0
  <2> QED
    BY <1>1, <2>1 DEF Count!MarkSelected, Count!saveVars, LedgerTypes
<1>2. ASSUME NEW u \in Urls, Count!UnmarkSelected(u)  PROVE LedgerTypes'
  BY <1>2 DEF Count!UnmarkSelected, Count!saveVars, LedgerTypes
<1>3. ASSUME NEW k \in CounterKeys, Count!MarkSave(k)  PROVE LedgerTypes'
  BY <1>3 DEF Count!MarkSave, Count!selectVars, LedgerTypes
<1>4. ASSUME NEW k \in CounterKeys, NEW o \in Count!Outcomes, Count!MarkStudy(k, o)  PROVE LedgerTypes'
  BY <1>4, <1>u DEF Count!MarkStudy
<1>5. CASE Count!ClearLedgers
  BY <1>0, <1>5 DEF Count!ClearLedgers, LedgerTypes
<1>6. CASE UNCHANGED Count!vars
  BY <1>6, <1>u DEF Count!vars
<1> QED
  BY <1>1, <1>2, <1>3, <1>4, <1>5, <1>6 DEF Count!Next

\* Every service keeps its types, and with them its bounds: the lanes of the scan queue
\* and of the DB queue do not run over, no permit of the browser fallback is given back
\* twice, no count goes below zero.
THEOREM ServicesKeepTypes == Spec => []TypeOK
<1>1. Spec => []Count!TypeOK
  <2>1. Init => LedgerTypes
    BY CountAssumed DEF Init, Count!Init, LedgerTypes, Count!StageCountersAssumption
  <2>2. [Next]_vars => [Count!Next]_Count!vars
    BY DEF Next, vars, countVars, Count!selectVars, Count!saveVars, Count!studyVars, Count!vars
  <2>3. LedgerTypes /\ [Next]_vars => LedgerTypes'
    BY <2>2, CountAssumed, LedgerStep
  <2>4. StudyInv /\ LedgerTypes => Count!TypeOK
    BY DEF StudyInv, StudyTypes, LedgerTypes, Count!TypeOK
  <2> QED
    BY <2>1, <2>3, <2>4, CountersHold, PTL DEF Spec
<1>2. Spec => []Scan!TypeOK
  <2>1. ScanInv => Scan!TypeOK
    BY ScanAssumed, ScanMeans
  <2> QED
    BY <2>1, ScanHolds, PTL
<1>3. Spec => []State!TypeOK
  <2>1. StateInv => State!TypeOK
    BY StateMeans
  <2> QED
    BY <2>1, StateHolds, PTL
<1>4. Spec => []Claim!TypeOK
  <2>1. ClaimInv => Claim!TypeOK
    BY DEF ClaimInv
  <2> QED
    BY <2>1, ClaimsHold, PTL
<1>5. Spec => []Db!TypeOK
  <2>1. DbP!Spec => []DbP!TypeOK
    BY DbAssumed, DbP!DbTypeCorrect
  <2>2. DbP!TypeOK => Db!TypeOK
    BY DEF Db!TypeOK, DbP!TypeOK, Db!Requests, DbP!Requests, Db!Lanes, DbP!Lanes
  <2> QED
    BY <2>1, <2>2, DbBehaves, PTL
<1>6. Spec => []Run!TypeOK
  <2>1. RunP!Spec => []RunP!TypeOK
    BY RunAssumed, RunP!RunTypeCorrect
  <2>2. RunP!TypeOK => Run!TypeOK
    BY DEF Run!TypeOK, RunP!TypeOK, Run!Keys, RunP!Keys, Run!Locking, RunP!Locking,
           Run!Admitted, RunP!Admitted, Run!Releasing, RunP!Releasing
  <2> QED
    BY <2>1, <2>2, RunBehaves, PTL
<1>7. Spec => []Browser!TypeOK
  <2>1. BrowserP!Spec => []BrowserP!TypeOK
    BY BrowserAssumed, BrowserP!PoolTypeCorrect
  <2>2. BrowserP!TypeOK => Browser!TypeOK
    BY DEF Browser!TypeOK, BrowserP!TypeOK, Browser!Browsers, BrowserP!Browsers, Browser!Holding,
           BrowserP!Holding, Browser!Cardinality, BrowserP!Cardinality
  <2> QED
    BY <2>1, <2>2, BrowserBehaves, PTL
<1>8. /\ Count!TypeOK /\ Scan!TypeOK /\ State!TypeOK /\ Claim!TypeOK /\ Db!TypeOK
      /\ Run!TypeOK /\ Browser!TypeOK
      => TypeOK
  BY DEF TypeOK
<1> QED
  BY <1>1, <1>2, <1>3, <1>4, <1>5, <1>6, <1>7, <1>8, PTL

=============================================================================
