----------------------- MODULE EmbeddingBatch_proofs -----------------------
(***************************************************************************)
(* Proofs about EmbeddingBatch, for every set of items, jobs, batches and  *)
(* requests and every bound.  References, the first layer, ties the        *)
(* program counters to the batches they stand for; the other invariants    *)
(* are inductive relative to it.                                           *)
(***************************************************************************)
EXTENDS EmbeddingBatch, FiniteSetTheorems, TLAPS

\* A submission past its POST holds a batch of its own.
SubmitRefs ==
  \A i \in Items :
    spc[i] \in {"resolve", "storeRedis", "done"} => sbid[i] \in Batches /\ owner[sbid[i]] = i

\* A callback request that began names a batch some item was posted as.
CallbackRefs ==
  \A c \in Callbacks :
    cpc[c] # "idle" => cbid[c] \in Batches /\ owner[cbid[c]] \in Items

\* So does a cancel request; past its HTTP call the scheduler has deleted it.
CancelRefs ==
  \A k \in Cancels :
    /\ kpc[k] # "idle" => kbid[k] \in Batches
    /\ kpc[k] \in {"flagRedis", "dropCtx", "dropDone"} => kbid[k] \in gone

References == TypeOK /\ SubmitRefs /\ CallbackRefs /\ CancelRefs

-----------------------------------------------------------------------------

\* The pending count is given back to a job, or to nobody: it stays a count.
LEMMA DecrementTyped ==
  ASSUME References, NEW job \in Jobs \cup {None}, NEW b \in Batches,
         DecrementPending(job, b)
  PROVE  /\ pending' \in [Jobs -> Nat]
         /\ batchJob' \in [Batches -> Jobs \cup {None}]
  <1> DEFINE jid == IF job # None THEN job ELSE batchJob[b]
  <1>1. jid \in Jobs \cup {None}
    BY DEF References, TypeOK
  <1>2. CASE jid = None
    BY <1>2 DEF DecrementPending, pendVars, References, TypeOK
  <1>3. CASE jid # None
    <2>1. /\ pending' = [pending EXCEPT ![jid] = IF @ > 0 THEN @ - 1 ELSE 0]
          /\ batchJob' = [batchJob EXCEPT ![b] = None]
      BY <1>3 DEF DecrementPending
    <2> QED
      BY <1>1, <1>3, <2>1 DEF References, TypeOK
  <1> QED
    BY <1>2, <1>3

\* The submission of an item keeps every reference.
LEMMA SubmitKeepsReferences ==
  ASSUME References, NEW i \in Items, Submit(i)
  PROVE  References'
  <1> USE ConstantsAssumption DEF References, TypeOK, SubmitRefs, CallbackRefs,
        CancelRefs, SubmitPCs, CallbackPCs, CancelPCs, subVars, memVars, redVars,
        pendVars, cbVars, reqVars, cancelVars, wfVars
  <1>1. CASE \E b \in Batches : SubmitAccepted(i, b)
    BY <1>1 DEF SubmitAccepted
  <1>2. CASE SubmitError(i)
    BY <1>2 DEF SubmitError
  <1>3. CASE SubmitStoreMemory(i)
    BY <1>3 DEF SubmitStoreMemory
  <1>4. CASE SubmitRegister(i)
    BY <1>4 DEF SubmitRegister, RedisCall, IncrementPending
  <1> QED
    BY <1>1, <1>2, <1>3, <1>4 DEF Submit

\* Giving the pending count back and ending the request keeps every reference.
LEMMA StopKeepsReferences ==
  ASSUME References, NEW c \in Callbacks, NEW b \in Batches, CallbackStop(c, b)
  PROVE  /\ pending' \in [Jobs -> Nat]
         /\ batchJob' \in [Batches -> Jobs \cup {None}]
         /\ cpc' = [cpc EXCEPT ![c] = "end"]
  BY DecrementTyped DEF CallbackStop

\* So does the arrival of a callback.
LEMMA ReceiveKeepsReferences ==
  ASSUME References, NEW c \in Callbacks, NEW b \in Batches,
         NEW status \in {"completed", "unusable", "failed"},
         CallbackReceive(c, b, status)
  PROVE  References'
  <1>1. /\ cpc[c] = "idle" /\ owner[b] \in Items
        /\ cbid' = [cbid EXCEPT ![c] = b]
        /\ usable' = [usable EXCEPT ![c] = (status = "completed")]
        /\ late' = [late EXCEPT ![c] = b \in cancelled]
        /\ early' = [early EXCEPT ![c] = ~Registered(b)]
        /\ UNCHANGED <<subVars, memVars, redVars, cancelVars, applied, missed, wfVars,
                       redisFails, restarts>>
    BY DEF CallbackReceive, Deliverable, References, TypeOK
  <1>2. /\ pending' \in [Jobs -> Nat]
        /\ batchJob' \in [Batches -> Jobs \cup {None}]
        /\ cpc' \in [Callbacks -> CallbackPCs]
        /\ \A d \in Callbacks \ {c} : cpc'[d] = cpc[d]
    <2>1. CASE CallbackStop(c, b)
      BY <2>1, StopKeepsReferences DEF References, TypeOK, CallbackPCs
    <2>2. CASE cpc' = [cpc EXCEPT ![c] = "doneRedis"] /\ UNCHANGED pendVars
      BY <2>2 DEF References, TypeOK, CallbackPCs, pendVars
    <2> QED
      BY <2>1, <2>2 DEF CallbackReceive
  <1>3. TypeOK'
    <2>1. /\ usable' \in [Callbacks -> BOOLEAN] /\ late' \in [Callbacks -> BOOLEAN]
          /\ early' \in [Callbacks -> BOOLEAN]
      <3>1. /\ (status = "completed") \in BOOLEAN /\ (b \in cancelled) \in BOOLEAN
            /\ (~Registered(b)) \in BOOLEAN
        BY DEF Registered
      <3> DEFINE u == (status = "completed")
                 l == (b \in cancelled)
                 e == ~Registered(b)
      <3> HIDE DEF u, l, e
      <3>2. u \in BOOLEAN /\ l \in BOOLEAN /\ e \in BOOLEAN
        BY <3>1 DEF u, l, e
      <3>3. /\ usable' = [usable EXCEPT ![c] = u] /\ late' = [late EXCEPT ![c] = l]
            /\ early' = [early EXCEPT ![c] = e]
        BY <1>1 DEF u, l, e
      <3> QED
        BY <3>2, <3>3 DEF References, TypeOK
    <2>2. cbid' \in [Callbacks -> Batches \cup {None}]
      BY <1>1 DEF References, TypeOK
    <2> QED
      BY <1>1, <1>2, <2>1, <2>2
        DEF References, TypeOK, subVars, memVars, redVars, cancelVars, wfVars
  <1>4. SubmitRefs'
    BY <1>1 DEF References, SubmitRefs, subVars
  <1>5. CallbackRefs'
    BY <1>1, <1>2 DEF References, TypeOK, CallbackRefs, subVars
  <1>6. CancelRefs'
    BY <1>1 DEF References, CancelRefs, cancelVars
  <1> QED
    BY <1>3, <1>4, <1>5, <1>6 DEF References

\* A later step of a callback that only moves on, or that ends the request.
LEMMA CheckKeepsReferences ==
  ASSUME References, NEW c \in Callbacks, cpc[c] # "idle", NEW next \in CallbackPCs,
         \/ CallbackStop(c, cbid[c])
         \/ cpc' = [cpc EXCEPT ![c] = next] /\ UNCHANGED pendVars,
         redisFails' \in 0..MaxRedisFail,
         UNCHANGED <<subVars, memVars, redVars, reqVars, cancelVars,
                     applied, missed, wfVars, restarts>>
  PROVE  References'
  <1>1. cbid[c] \in Batches
    BY DEF References, CallbackRefs
  <1>2. /\ pending' \in [Jobs -> Nat]
        /\ batchJob' \in [Batches -> Jobs \cup {None}]
        /\ cpc' \in [Callbacks -> CallbackPCs]
        /\ \A d \in Callbacks : cpc'[d] # "idle" => cpc[d] # "idle"
    <2>1. CASE CallbackStop(c, cbid[c])
      BY <1>1, <2>1, StopKeepsReferences DEF References, TypeOK, CallbackPCs
    <2>2. CASE cpc' = [cpc EXCEPT ![c] = next] /\ UNCHANGED pendVars
      BY <2>2 DEF References, TypeOK, CallbackPCs, pendVars
    <2> QED
      BY <2>1, <2>2
  <1>3. TypeOK'
    BY <1>2 DEF References, TypeOK, subVars, memVars, redVars, reqVars, cancelVars, wfVars
  <1>4. SubmitRefs' /\ CancelRefs'
    BY DEF References, SubmitRefs, CancelRefs, subVars, cancelVars
  <1>5. CallbackRefs'
    BY <1>2 DEF References, TypeOK, CallbackRefs, subVars, reqVars
  <1> QED
    BY <1>3, <1>4, <1>5 DEF References

\* Every later step of a callback keeps the references.
LEMMA CallbackKeepsReferences ==
  ASSUME References, NEW c \in Callbacks, CallbackStep(c)
  PROVE  References'
  <1> USE ConstantsAssumption
  <1>1. CASE CallbackCheckDone(c)
    BY <1>1, CheckKeepsReferences DEF CallbackCheckDone, RedisCall, References, TypeOK, CallbackPCs
  <1>2. CASE CallbackCheckCancelled(c)
    BY <1>2, CheckKeepsReferences DEF CallbackCheckCancelled, RedisCall, References, TypeOK, CallbackPCs
  <1>3. CASE CallbackLoad(c)
    BY <1>3, CheckKeepsReferences DEF CallbackLoad, RedisCall, References, TypeOK, CallbackPCs
  <1>4. CASE CallbackRaise(c)
    BY <1>4, CheckKeepsReferences DEF CallbackRaise, References, TypeOK, CallbackPCs
  <1>5. CASE CallbackUpsert(c)
    BY <1>5 DEF CallbackUpsert, Upsert, References, TypeOK, SubmitRefs, CallbackRefs, CancelRefs,
      CallbackPCs, subVars, memVars, redVars, pendVars, cancelVars, reqVars, wfVars
  <1>6. CASE CallbackFinalize(c)
    BY <1>6 DEF CallbackFinalize, References, TypeOK, SubmitRefs, CallbackRefs, CancelRefs,
      CallbackPCs, subVars, redVars, pendVars, cancelVars, reqVars, wfVars
  <1>7. CASE CallbackMarkDone(c)
    BY <1>7 DEF CallbackMarkDone, RedisCall, References, TypeOK, SubmitRefs, CallbackRefs,
      CancelRefs, CallbackPCs, subVars, pendVars, cancelVars, reqVars, wfVars
  <1>8. CASE CallbackDropContext(c)
    <2>1. /\ cbid[c] \in Batches
          /\ JobOf[owner[cbid[c]]] \in Jobs
      BY <1>8 DEF CallbackDropContext, References, CallbackRefs
    <2>2. /\ pending' \in [Jobs -> Nat]
          /\ batchJob' \in [Batches -> Jobs \cup {None}]
      BY <1>8, <2>1, DecrementTyped DEF CallbackDropContext
    <2> QED
      BY <1>8, <2>1, <2>2 DEF CallbackDropContext, RedisCall, References, TypeOK, SubmitRefs,
        CallbackRefs, CancelRefs, CallbackPCs, subVars, memVars, cancelVars, reqVars, wfVars
  <1> QED
    BY <1>1, <1>2, <1>3, <1>4, <1>5, <1>6, <1>7, <1>8 DEF CallbackStep

\* Every step of a cancellation keeps the references.
LEMMA CancelKeepsReferences ==
  ASSUME References, NEW k \in Cancels,
         CancelStep(k) \/ \E b \in Batches : CancelRequest(k, b)
  PROVE  References'
  <1> USE ConstantsAssumption DEF References, TypeOK, SubmitRefs, CallbackRefs, CancelRefs,
        CancelPCs, subVars, memVars, redVars, pendVars, cbVars, reqVars, wfVars, RedisCall
  <1>1. CASE \E b \in Batches : CancelRequest(k, b)
    BY <1>1 DEF CancelRequest
  <1>2. CASE CancelLoad(k)
    <2> DEFINE hit(ok) == ContextFound(kbid[k], ok)
    <2>1. PICK ok \in BOOLEAN : RedisCall(ok) /\ khit' = [khit EXCEPT ![k] = hit(ok)]
      BY <1>2 DEF CancelLoad
    <2>2. hit(ok) \in BOOLEAN
      BY DEF ContextFound
    <2> HIDE DEF hit
    <2>3. khit' \in [Cancels -> BOOLEAN]
      BY <2>1, <2>2
    <2> QED
      BY <1>2, <2>1, <2>3 DEF CancelLoad
  <1>3. CASE CancelCheckDone(k)
    BY <1>3 DEF CancelCheckDone
  <1>4. CASE CancelHttp(k)
    BY <1>4 DEF CancelHttp
  <1>5. CASE CancelFlag(k)
    BY <1>5 DEF CancelFlag
  <1>6. CASE CancelDropContext(k)
    BY <1>6 DEF CancelDropContext
  <1>7. CASE CancelDropDone(k)
    BY <1>7 DEF CancelDropDone
  <1> QED
    BY <1>1, <1>2, <1>3, <1>4, <1>5, <1>6, <1>7 DEF CancelStep

\* So do the cleanup of a workflow and a restart.
LEMMA RestKeepsReferences ==
  ASSUME References,
         Restart \/ \E j \in Jobs : CleanupStart(j) \/ Cleanup(j)
  PROVE  References'
  <1> USE ConstantsAssumption DEF References, TypeOK, SubmitRefs, CallbackRefs, CancelRefs,
        subVars, memVars, redVars, pendVars, cbVars, reqVars, cancelVars
  <1>1. CASE Restart
    BY <1>1 DEF Restart, SubmitPCs, CallbackPCs, CancelPCs
  <1>2. ASSUME NEW j \in Jobs, CleanupStart(j) PROVE References'
    BY <1>2 DEF CleanupStart
  <1>3. ASSUME NEW j \in Jobs, CleanupSleep(j) PROVE References'
    BY <1>3 DEF CleanupSleep
  <1>4. ASSUME NEW j \in Jobs, CleanupDrop(j) PROVE References'
    BY <1>4 DEF CleanupDrop
  <1> QED
    BY <1>1, <1>2, <1>3, <1>4 DEF Cleanup

LEMMA ReferencesStep == References /\ [Next]_vars => References'
  <1> SUFFICES ASSUME References, [Next]_vars
               PROVE  References'
    OBVIOUS
  <1>1. CASE UNCHANGED vars
    BY <1>1 DEF vars, subVars, memVars, redVars, pendVars, cbVars, reqVars, cancelVars, wfVars,
      References, TypeOK, SubmitRefs, CallbackRefs, CancelRefs
  <1>2. CASE \E i \in Items : Submit(i)
    BY <1>2, SubmitKeepsReferences
  <1>3. CASE \E c \in Callbacks, b \in Batches, status \in {"completed", "unusable", "failed"} :
               CallbackReceive(c, b, status)
    BY <1>3, ReceiveKeepsReferences
  <1>4. CASE \E c \in Callbacks : CallbackStep(c)
    BY <1>4, CallbackKeepsReferences
  <1>5. CASE \/ \E k \in Cancels, b \in Batches : CancelRequest(k, b)
             \/ \E k \in Cancels : CancelStep(k)
    BY <1>5, CancelKeepsReferences
  <1>6. CASE Restart \/ \E j \in Jobs : CleanupStart(j) \/ Cleanup(j)
    BY <1>6, RestKeepsReferences
  <1> QED
    BY <1>1, <1>2, <1>3, <1>4, <1>5, <1>6 DEF Next

LEMMA ReferencesInit == Init => References
  BY ConstantsAssumption DEF Init, References, TypeOK, SubmitRefs, CallbackRefs, CancelRefs,
    SubmitPCs, CallbackPCs, CancelPCs

\* Every program counter points at the batch it stands for.
THEOREM ReferencesHold == Spec => []References
  BY ReferencesInit, ReferencesStep, PTL DEF Spec

\* Type correctness, for every value of the constants.
THEOREM TypeCorrect == Spec => []TypeOK
  BY ReferencesHold, PTL DEF References

-----------------------------------------------------------------------------
(* A done flag means that an upsert has returned *)

\* A callback past its upsert: an upsert of its batch has returned.
UpsertReturned ==
  \A c \in Callbacks :
    cpc[c] \in {"finalize", "markRedis", "dropCtx"} => Upserted(cbid[c])

Written == DoneImpliesUpserted /\ UpsertReturned

\* Only CallbackUpsert touches what was applied or missed, only CallbackFinalize and
\* CallbackMarkDone raise a flag; all other steps leave Written as it is.
LEMMA WrittenStep == References /\ Written /\ [Next]_vars => Written'
  <1> SUFFICES ASSUME References, Written, [Next]_vars
               PROVE  Written'
    OBVIOUS
  <1> USE DEF References, TypeOK, Written, DoneImpliesUpserted, UpsertReturned, Upserted
  <1> USE DEF subVars, memVars, redVars, pendVars, cbVars, reqVars, cancelVars, wfVars
  <1>1. CASE UNCHANGED vars
    BY <1>1 DEF vars
  <1>2. ASSUME NEW i \in Items, Submit(i) PROVE Written'
    BY <1>2 DEF Submit, SubmitAccepted, SubmitError, SubmitStoreMemory, SubmitRegister
  <1>3. ASSUME NEW c \in Callbacks, NEW b \in Batches,
               NEW status \in {"completed", "unusable", "failed"},
               CallbackReceive(c, b, status)
        PROVE  Written'
    <2>1. cpc'[c] \in {"end", "doneRedis"}
      BY <1>3 DEF CallbackReceive, CallbackStop
    <2>2. \A d \in Callbacks \ {c} : cpc'[d] = cpc[d] /\ cbid'[d] = cbid[d]
      BY <1>3 DEF CallbackReceive, CallbackStop
    <2> QED
      BY <1>3, <2>1, <2>2 DEF CallbackReceive
  <1>4. ASSUME NEW c \in Callbacks,
               \/ CallbackCheckDone(c) \/ CallbackCheckCancelled(c) \/ CallbackLoad(c)
               \/ CallbackRaise(c) \/ CallbackDropContext(c)
        PROVE  Written'
    <2>1. cpc'[c] \in {"end", "cancelRedis", "load", "upsert"}
      BY <1>4 DEF CallbackCheckDone, CallbackCheckCancelled, CallbackLoad, CallbackRaise,
        CallbackDropContext, CallbackStop
    <2>2. \A d \in Callbacks \ {c} : cpc'[d] = cpc[d]
      BY <1>4 DEF CallbackCheckDone, CallbackCheckCancelled, CallbackLoad, CallbackRaise,
        CallbackDropContext, CallbackStop
    <2>3. UNCHANGED <<applied, missed, memDone, redDone, cbid>>
      BY <1>4 DEF CallbackCheckDone, CallbackCheckCancelled, CallbackLoad, CallbackRaise,
        CallbackDropContext
    <2> QED
      BY <2>1, <2>2, <2>3
  <1>5. ASSUME NEW c \in Callbacks, CallbackUpsert(c) PROVE Written'
    <2>1. cbid[c] \in Batches
      BY <1>5 DEF CallbackUpsert, Upsert, CallbackRefs
    <2>2. \A b \in Batches : Upserted(b) => Upserted(b)'
      BY <1>5, <2>1 DEF CallbackUpsert, Upsert
    <2>3. Upserted(cbid[c])'
      BY <1>5, <2>1 DEF CallbackUpsert, Upsert
    <2>4. DoneImpliesUpserted'
      BY <1>5, <2>2 DEF CallbackUpsert, Upsert
    <2>5. UpsertReturned'
      BY <1>5, <2>2, <2>3 DEF CallbackUpsert, Upsert, CallbackRefs
    <2> QED
      BY <2>4, <2>5
  <1>6. ASSUME NEW c \in Callbacks, CallbackFinalize(c) PROVE Written'
    BY <1>6 DEF CallbackFinalize
  <1>7. ASSUME NEW c \in Callbacks, CallbackMarkDone(c) PROVE Written'
    BY <1>7 DEF CallbackMarkDone
  <1>8. ASSUME NEW k \in Cancels,
               CancelStep(k) \/ \E b \in Batches : CancelRequest(k, b)
        PROVE  Written'
    BY <1>8 DEF CancelStep, CancelRequest, CancelLoad, CancelCheckDone, CancelHttp,
      CancelFlag, CancelDropContext, CancelDropDone
  <1>9. ASSUME NEW j \in Jobs, CleanupStart(j) \/ Cleanup(j) PROVE Written'
    BY <1>9 DEF CleanupStart, Cleanup, CleanupSleep, CleanupDrop
  <1>10. CASE Restart
    BY <1>10 DEF Restart
  <1> QED
    BY <1>1, <1>2, <1>3, <1>4, <1>5, <1>6, <1>7, <1>8, <1>9, <1>10 DEF Next, CallbackStep

LEMMA WrittenHolds == Spec => []Written
  <1>1. Init => Written
    BY DEF Init, Written, DoneImpliesUpserted, UpsertReturned, Upserted
  <1> QED
    BY <1>1, ReferencesHold, WrittenStep, PTL DEF Spec

\* A batch is flagged done, in memory or in Redis, only after an upsert of it has
\* returned (process_embedding_callback): over every schedule of callbacks,
\* cancellations, Redis failures and restarts.
THEOREM DoneUpserted == Spec => []DoneImpliesUpserted
  BY WrittenHolds, PTL DEF Written

-----------------------------------------------------------------------------
(* The pending count is backed by registered batches *)

\* A counted batch was registered by its own submission, under the job of its item.
CountedRegistered ==
  \A b \in Batches :
    batchJob[b] # None =>
      /\ owner[b] \in Items
      /\ spc[owner[b]] = "done" /\ sbid[owner[b]] = b
      /\ batchJob[b] = JobOf[owner[b]]

Counted == PendingBacked /\ CountedRegistered

\* Registering a batch that nobody counts yet adds it to both sides.
LEMMA IncrementBacked ==
  ASSUME References, PendingBacked, NEW j \in Jobs, NEW b \in Batches,
         batchJob[b] = None, IncrementPending(j, b)
  PROVE  PendingBacked'
  <1>1. SUFFICES ASSUME NEW k \in Jobs
                 PROVE  pending'[k] <= Cardinality(Waiting(k)')
    BY DEF PendingBacked
  <1>2. /\ IsFiniteSet(Waiting(k)) /\ Cardinality(Waiting(k)) \in Nat
        /\ pending[k] \in Nat /\ pending[k] <= Cardinality(Waiting(k))
    BY FS_Subset, FS_CardinalityType, ConstantsAssumption
      DEF Waiting, References, TypeOK, PendingBacked
  <1>3. CASE k = j
    <2>1. Waiting(k)' = Waiting(k) \cup {b} /\ b \notin Waiting(k)
      BY <1>3, ConstantsAssumption DEF IncrementPending, Waiting, References, TypeOK
    <2>2. pending'[k] = pending[k] + 1
      BY <1>3 DEF IncrementPending, References, TypeOK
    <2>3. Cardinality(Waiting(k) \cup {b}) = Cardinality(Waiting(k)) + 1
      BY <1>2, <2>1, FS_AddElement
    <2> QED
      BY <1>2, <2>1, <2>2, <2>3
  <1>4. CASE k # j
    <2>1. Waiting(k)' = Waiting(k) /\ pending'[k] = pending[k]
      BY <1>4, ConstantsAssumption DEF IncrementPending, Waiting, References, TypeOK
    <2> QED
      BY <1>2, <2>1
  <1> QED
    BY <1>3, <1>4

\* Giving a batch back, without a job or under the job it is counted for, never
\* takes it from the waiting batches of a job whose count it leaves.
LEMMA DecrementBacked ==
  ASSUME References, PendingBacked, NEW job \in Jobs \cup {None}, NEW b \in Batches,
         job = None \/ batchJob[b] \in {None, job},
         DecrementPending(job, b)
  PROVE  PendingBacked'
  <1> DEFINE jid == IF job # None THEN job ELSE batchJob[b]
  <1>1. CASE jid = None
    BY <1>1 DEF DecrementPending, pendVars, PendingBacked, Waiting
  <1>2. CASE jid # None
    <2>1. SUFFICES ASSUME NEW k \in Jobs
                   PROVE  pending'[k] <= Cardinality(Waiting(k)')
      BY DEF PendingBacked
    <2>2. /\ IsFiniteSet(Waiting(k)) /\ Cardinality(Waiting(k)) \in Nat
          /\ pending[k] \in Nat /\ pending[k] <= Cardinality(Waiting(k))
      BY FS_Subset, FS_CardinalityType, ConstantsAssumption
        DEF Waiting, References, TypeOK, PendingBacked
    <2>3. /\ jid \in Jobs
          /\ pending' = [pending EXCEPT ![jid] = IF @ > 0 THEN @ - 1 ELSE 0]
          /\ batchJob' = [batchJob EXCEPT ![b] = None]
      BY <1>2 DEF DecrementPending, References, TypeOK
    <2>4. Waiting(k)' = Waiting(k) \ {b}
      BY <2>3, ConstantsAssumption DEF Waiting, References, TypeOK
    <2>5. Cardinality(Waiting(k) \ {b})
            = IF b \in Waiting(k) THEN Cardinality(Waiting(k)) - 1 ELSE Cardinality(Waiting(k))
      BY <2>2, FS_RemoveElement
    <2>6. CASE k = jid
      <3>1. pending'[k] = IF pending[k] > 0 THEN pending[k] - 1 ELSE 0
        BY <2>3, <2>6 DEF References, TypeOK
      <3>2. Cardinality(Waiting(k) \ {b}) \in Nat
        BY <2>2, FS_RemoveElement, FS_CardinalityType
      <3> QED
        BY <2>2, <2>4, <2>5, <3>1, <3>2
    <2>7. CASE k # jid
      <3>1. b \notin Waiting(k)
        BY <1>2, <2>7, ConstantsAssumption DEF Waiting
      <3>2. pending'[k] = pending[k]
        BY <2>3, <2>7 DEF References, TypeOK
      <3> QED
        BY <2>2, <2>4, <2>5, <3>1, <3>2
    <2> QED
      BY <2>6, <2>7
  <1> QED
    BY <1>1, <1>2

\* Steps that leave both counts alone and keep the submissions that are done.
LEMMA UncountedStep ==
  ASSUME References, Counted, UNCHANGED pendVars,
         \A i \in Items : spc[i] = "done" => spc'[i] = "done" /\ sbid'[i] = sbid[i],
         \A b \in Batches : owner[b] # None => owner'[b] = owner[b]
  PROVE  Counted'
  BY ConstantsAssumption DEF Counted, CountedRegistered, PendingBacked, Waiting, pendVars, References, TypeOK

\* Steps that give the pending count of a batch back and leave submissions alone.
LEMMA GiveBackStep ==
  ASSUME References, Counted, NEW job \in Jobs \cup {None}, NEW b \in Batches,
         job = None \/ job = JobOf[owner[b]],
         DecrementPending(job, b), UNCHANGED subVars
  PROVE  Counted'
  <1>1. PendingBacked'
    BY DecrementBacked DEF Counted, CountedRegistered
  <1>2. \A d \in Batches : batchJob'[d] \in {None, batchJob[d]}
    BY DEF DecrementPending, pendVars, References, TypeOK
  <1>3. CountedRegistered'
    BY <1>2 DEF Counted, CountedRegistered, subVars
  <1> QED
    BY <1>1, <1>3 DEF Counted

LEMMA CountedStep == References /\ Counted /\ [Next]_vars => Counted'
  <1> SUFFICES ASSUME References, Counted, [Next]_vars
               PROVE  Counted'
    OBVIOUS
  <1>1. CASE UNCHANGED vars
    BY <1>1, UncountedStep DEF vars, subVars
  <1>2. ASSUME NEW i \in Items, Submit(i) PROVE Counted'
    <2>1. CASE SubmitRegister(i)
      <3>1. /\ sbid[i] \in Batches /\ owner[sbid[i]] = i /\ JobOf[i] \in Jobs
            /\ spc[i] = "storeRedis"
        BY <2>1, ConstantsAssumption DEF SubmitRegister, References, SubmitRefs
      <3>2. batchJob[sbid[i]] = None
        BY <3>1 DEF Counted, CountedRegistered
      <3>3. IncrementPending(JobOf[i], sbid[i])
        BY <2>1 DEF SubmitRegister
      <3>4. PendingBacked'
        BY <3>1, <3>2, <3>3, IncrementBacked DEF Counted
      <3>5. spc' = [spc EXCEPT ![i] = "done"] /\ UNCHANGED <<sbid, owner>>
        BY <2>1 DEF SubmitRegister
      <3>6. CountedRegistered'
        BY <3>1, <3>3, <3>5
          DEF IncrementPending, Counted, CountedRegistered, References, TypeOK
      <3> QED
        BY <3>4, <3>6 DEF Counted
    <2>2. CASE (\E b \in Batches : SubmitAccepted(i, b)) \/ SubmitError(i) \/ SubmitStoreMemory(i)
      <3>1. UNCHANGED pendVars
        BY <2>2 DEF SubmitAccepted, SubmitError, SubmitStoreMemory
      <3>2. \A k \in Items : spc[k] = "done" => spc'[k] = "done" /\ sbid'[k] = sbid[k]
        BY <2>2 DEF SubmitAccepted, SubmitError, SubmitStoreMemory, References, TypeOK
      <3>3. \A b \in Batches : owner[b] # None => owner'[b] = owner[b]
        BY <2>2 DEF SubmitAccepted, SubmitError, SubmitStoreMemory, References, TypeOK
      <3> QED
        BY <3>1, <3>2, <3>3, UncountedStep
    <2> QED
      BY <1>2, <2>1, <2>2 DEF Submit
  <1>3. ASSUME NEW c \in Callbacks, NEW b \in Batches,
               NEW status \in {"completed", "unusable", "failed"},
               CallbackReceive(c, b, status)
        PROVE  Counted'
    <2>1. UNCHANGED subVars /\ (DecrementPending(None, b) \/ UNCHANGED pendVars)
      BY <1>3 DEF CallbackReceive, CallbackStop
    <2> QED
      BY <2>1, GiveBackStep, UncountedStep DEF subVars
  <1>4. ASSUME NEW c \in Callbacks, CallbackStep(c), ~CallbackDropContext(c)
        PROVE  Counted'
    <2>1. cpc[c] # "idle"
      BY <1>4 DEF CallbackStep, CallbackCheckDone, CallbackCheckCancelled, CallbackLoad,
        CallbackUpsert, Upsert, CallbackRaise, CallbackFinalize, CallbackMarkDone
    <2>2. cbid[c] \in Batches
      BY <2>1 DEF References, CallbackRefs
    <2>3. UNCHANGED subVars /\ (DecrementPending(None, cbid[c]) \/ UNCHANGED pendVars)
      BY <1>4 DEF CallbackStep, CallbackCheckDone, CallbackCheckCancelled, CallbackLoad,
        CallbackUpsert, Upsert, CallbackRaise, CallbackFinalize, CallbackMarkDone, CallbackStop
    <2> QED
      BY <2>2, <2>3, GiveBackStep, UncountedStep DEF subVars
  <1>5. ASSUME NEW c \in Callbacks, CallbackDropContext(c) PROVE Counted'
    <2>1. cbid[c] \in Batches /\ JobOf[owner[cbid[c]]] \in Jobs
      BY <1>5, ConstantsAssumption DEF CallbackDropContext, References, CallbackRefs
    <2>2. UNCHANGED subVars /\ DecrementPending(JobOf[owner[cbid[c]]], cbid[c])
      BY <1>5 DEF CallbackDropContext
    <2> QED
      BY <2>1, <2>2, GiveBackStep
  <1>6. ASSUME NEW k \in Cancels,
               CancelStep(k) \/ \E b \in Batches : CancelRequest(k, b)
        PROVE  Counted'
    <2>1. UNCHANGED subVars /\ UNCHANGED pendVars
      BY <1>6 DEF CancelStep, CancelRequest, CancelLoad, CancelCheckDone, CancelHttp,
        CancelFlag, CancelDropContext, CancelDropDone
    <2> QED
      BY <2>1, UncountedStep DEF subVars
  <1>7. ASSUME NEW j \in Jobs, CleanupStart(j) \/ Cleanup(j) PROVE Counted'
    <2>1. UNCHANGED subVars /\ UNCHANGED pendVars
      BY <1>7 DEF CleanupStart, Cleanup, CleanupSleep, CleanupDrop
    <2> QED
      BY <2>1, UncountedStep DEF subVars
  <1>8. CASE Restart
    <2>1. \A j \in Jobs : pending'[j] = 0
      BY <1>8 DEF Restart
    <2>2. \A b \in Batches : batchJob'[b] = None
      BY <1>8 DEF Restart
    <2>3. \A j \in Jobs : Waiting(j)' = {}
      BY <2>2, ConstantsAssumption DEF Waiting
    <2>4. CountedRegistered'
      BY <2>2 DEF CountedRegistered
    <2>5. PendingBacked'
      BY <2>1, <2>3, FS_EmptySet DEF PendingBacked
    <2> QED
      BY <2>4, <2>5 DEF Counted
  <1> QED
    BY <1>1, <1>2, <1>3, <1>4, <1>5, <1>6, <1>7, <1>8 DEF Next

LEMMA CountedHolds == Spec => []Counted
  <1>1. Init => Counted
    <2> SUFFICES ASSUME Init PROVE Counted
      OBVIOUS
    <2>1. \A j \in Jobs : pending[j] = 0 /\ Waiting(j) = {}
      BY ConstantsAssumption DEF Init, Waiting
    <2>2. PendingBacked
      BY <2>1, FS_EmptySet DEF PendingBacked
    <2>3. CountedRegistered
      BY DEF Init, CountedRegistered
    <2> QED
      BY <2>2, <2>3 DEF Counted
  <1> QED
    BY <1>1, ReferencesHold, CountedStep, PTL DEF Spec

\* The count a finishing workflow waits on never exceeds the number of its
\* registered batches: whatever callbacks are duplicated, failed, reordered or
\* lost, it never waits for a callback that no batch can still deliver.
THEOREM PendingIsBacked == Spec => []PendingBacked
  BY CountedHolds, PTL DEF Counted

-----------------------------------------------------------------------------
(* A batch keeps its context *)

\* The invariant of ContextKept: from the moment the context is stored, the
\* submission's own batch has it in memory, and from its registration in Redis.
Kept ==
  \A i \in Items :
    spc[i] \in {"storeRedis", "done"} /\ ~Upserted(sbid[i]) /\ sbid[i] \notin gone =>
      /\ restarts = 0 => sbid[i] \in memCtx
      /\ redisFails = 0 /\ spc[i] = "done" => sbid[i] \in redCtx

\* Steps that forget no context, write nothing off and move no submission.
LEMMA KeptAside ==
  ASSUME Kept, memCtx \subseteq memCtx', redCtx \subseteq redCtx', gone \subseteq gone',
         \A b \in Batches : Upserted(b) => Upserted(b)',
         restarts' = 0 => restarts = 0, redisFails' = 0 => redisFails = 0,
         UNCHANGED <<spc, sbid>>, References
  PROVE  Kept'
  BY DEF Kept, References, SubmitRefs

\* Only the end of a callback that wrote the vectors and a cancellation forget a
\* context; a restart forgets the memory ones.
LEMMA KeptStep == References /\ Written /\ Kept /\ [Next]_vars => Kept'
  <1> SUFFICES ASSUME References, Written, Kept, [Next]_vars
               PROVE  Kept'
    OBVIOUS
  <1> USE DEF Upserted
  <1>0. /\ \A i \in Items : spc[i] \in {"resolve", "storeRedis", "done"}
                              => sbid[i] \in Batches /\ owner[sbid[i]] = i
        /\ spc \in [Items -> SubmitPCs] /\ sbid \in [Items -> Batches \cup {None}]
        /\ redisFails \in Nat /\ restarts \in Nat /\ applied \in [Batches -> Nat]
    BY ConstantsAssumption DEF References, SubmitRefs, TypeOK
  <1>1. CASE UNCHANGED vars
    BY <1>1, KeptAside DEF vars, subVars, memVars, redVars, cancelVars
  <1>2. ASSUME NEW i \in Items, Submit(i) PROVE Kept'
    <2>1. /\ UNCHANGED <<applied, missed, gone, restarts>> /\ memCtx \subseteq memCtx' /\ redCtx \subseteq redCtx'
          /\ redisFails' = 0 => redisFails = 0
      BY <1>0, <1>2 DEF Submit, SubmitAccepted, SubmitError, SubmitStoreMemory, SubmitRegister, RedisCall,
        memVars, redVars, cancelVars
    <2>2. \A k \in Items : k # i => spc'[k] = spc[k] /\ sbid'[k] = sbid[k]
      BY <1>0, <1>2 DEF Submit, SubmitAccepted, SubmitError, SubmitStoreMemory, SubmitRegister
    <2>3. spc'[i] \in {"storeRedis", "done"} => sbid'[i] = sbid[i]
      BY <1>0, <1>2 DEF Submit, SubmitAccepted, SubmitError, SubmitStoreMemory, SubmitRegister
    <2>4. spc'[i] = "storeRedis" => sbid[i] \in memCtx'
      BY <1>0, <1>2 DEF Submit, SubmitAccepted, SubmitError, SubmitStoreMemory, SubmitRegister
    <2>5. spc'[i] = "done" => spc[i] = "storeRedis" /\ (redisFails' = 0 => sbid[i] \in redCtx')
      BY <1>0, <1>2 DEF Submit, SubmitAccepted, SubmitError, SubmitStoreMemory, SubmitRegister, RedisCall
    <2> QED
      BY <2>1, <2>2, <2>3, <2>4, <2>5 DEF Kept
  <1>3. ASSUME NEW c \in Callbacks, NEW b \in Batches,
               NEW status \in {"completed", "unusable", "failed"},
               CallbackReceive(c, b, status)
        PROVE  Kept'
    BY <1>3, KeptAside DEF CallbackReceive, subVars, memVars, redVars, cancelVars
  <1>4. ASSUME NEW c \in Callbacks,
               \/ CallbackCheckDone(c) \/ CallbackCheckCancelled(c) \/ CallbackLoad(c)
               \/ CallbackRaise(c) \/ CallbackFinalize(c)
        PROVE  Kept'
    <2>1. /\ UNCHANGED <<spc, sbid, memCtx, redCtx, gone, applied, missed, restarts>>
          /\ redisFails' = 0 => redisFails = 0
      BY <1>0, <1>4 DEF CallbackCheckDone, CallbackCheckCancelled, CallbackLoad, CallbackRaise,
        CallbackFinalize, RedisCall, subVars, memVars, redVars, cancelVars
    <2> QED
      BY <2>1, KeptAside
  <1>5. ASSUME NEW c \in Callbacks, CallbackUpsert(c) PROVE Kept'
    <2>1. \A b \in Batches : Upserted(b) => Upserted(b)'
      BY <1>0, <1>5 DEF CallbackUpsert, Upsert, Upserted
    <2> QED
      BY <1>5, <2>1, KeptAside DEF CallbackUpsert, Upsert, subVars, memVars, redVars, cancelVars
  <1>6. ASSUME NEW c \in Callbacks, CallbackMarkDone(c) \/ CallbackDropContext(c) PROVE Kept'
    <2>1. cbid[c] \in Batches /\ Upserted(cbid[c])
      BY <1>6 DEF CallbackMarkDone, CallbackDropContext, Written, UpsertReturned, References, CallbackRefs
    <2>2. /\ UNCHANGED <<spc, sbid, gone, applied, missed, restarts>>
          /\ memCtx \ {cbid[c]} \subseteq memCtx' /\ redCtx \ {cbid[c]} \subseteq redCtx'
          /\ redisFails' = 0 => redisFails = 0
      BY <1>0, <1>6 DEF CallbackMarkDone, CallbackDropContext, RedisCall, subVars, memVars, redVars, cancelVars
    <2> QED
      BY <1>0, <2>1, <2>2 DEF Kept
  <1>7. ASSUME NEW k \in Cancels, \E b \in Batches : CancelRequest(k, b)
        PROVE  Kept'
    BY <1>7, KeptAside DEF CancelRequest, subVars, memVars, redVars
  <1>8. ASSUME NEW k \in Cancels, CancelLoad(k) \/ CancelCheckDone(k) \/ CancelHttp(k) \/ CancelDropDone(k)
        PROVE  Kept'
    <2>1. /\ UNCHANGED <<spc, sbid, memCtx, redCtx, applied, missed, restarts>> /\ gone \subseteq gone'
          /\ redisFails' = 0 => redisFails = 0
      BY <1>0, <1>8 DEF CancelLoad, CancelCheckDone, CancelHttp, CancelDropDone, RedisCall,
        subVars, memVars, redVars
    <2> QED
      BY <2>1, KeptAside
  <1>9. ASSUME NEW k \in Cancels, CancelFlag(k) \/ CancelDropContext(k) PROVE Kept'
    <2>1. kbid[k] \in gone
      BY <1>9 DEF CancelFlag, CancelDropContext, References, CancelRefs
    <2>2. /\ UNCHANGED <<spc, sbid, gone, applied, missed, restarts>>
          /\ memCtx \ {kbid[k]} \subseteq memCtx' /\ redCtx \ {kbid[k]} \subseteq redCtx'
          /\ redisFails' = 0 => redisFails = 0
      BY <1>0, <1>9 DEF CancelFlag, CancelDropContext, RedisCall, subVars, memVars, redVars
    <2> QED
      BY <1>0, <2>1, <2>2 DEF Kept
  <1>10. ASSUME NEW j \in Jobs, CleanupStart(j) \/ Cleanup(j) PROVE Kept'
    BY <1>10, KeptAside DEF CleanupStart, Cleanup, CleanupSleep, CleanupDrop, subVars, memVars, redVars, cancelVars
  <1>11. CASE Restart
    <2>1. /\ restarts' # 0 /\ UNCHANGED <<sbid, applied, missed, gone, redCtx, redisFails>>
          /\ \A i \in Items : spc'[i] \in {"storeRedis", "done"} => spc[i] = "done"
      BY <1>0, <1>11 DEF Restart, redVars
    <2> QED
      BY <2>1 DEF Kept
  <1> QED
    BY <1>1, <1>2, <1>3, <1>4, <1>5, <1>6, <1>7, <1>8, <1>9, <1>10, <1>11 DEF Next, CallbackStep, CancelStep

\* A Redis failure, a restart or an upsert that raises never loses the context of a
\* registered batch of which no upsert has returned: a redelivered callback finds it.
THEOREM ContextStaysKept == Spec => []ContextKept
  <1>1. Init => Kept
    BY DEF Init, Kept
  <1>2. Kept => ContextKept
    BY DEF Kept, ContextKept, Registered
  <1>3. Spec => []Written
    BY WrittenHolds
  <1> QED
    BY <1>1, <1>2, <1>3, ReferencesHold, KeptStep, PTL DEF Spec

-----------------------------------------------------------------------------
(* A cancellation sticks *)

\* As long as Redis answers, a cancellation that returned, or is past its flag, has
\* left the flag in Redis, which nothing removes.
Flagged ==
  redisFails = 0 =>
    /\ cancelled \subseteq redCancelled
    /\ \A k \in Cancels : kpc[k] \in {"dropCtx", "dropDone"} => kbid[k] \in redCancelled

\* A late callback does not get past that flag.
LateStops ==
  redisFails = 0 =>
    \A c \in Callbacks :
      late[c] => cbid[c] \in redCancelled /\ cpc[c] \in {"doneRedis", "cancelRedis", "end"}

CancelInv == Flagged /\ LateStops

LEMMA CancelInvStep == References /\ CancelInv /\ [Next]_vars => CancelInv'
  <1> SUFFICES ASSUME References, CancelInv, [Next]_vars, redisFails' = 0
               PROVE  CancelInv'
    BY DEF CancelInv, Flagged, LateStops
  <1>0. /\ redisFails \in Nat /\ cpc \in [Callbacks -> CallbackPCs] /\ cbid \in [Callbacks -> Batches \cup {None}]
        /\ late \in [Callbacks -> BOOLEAN] /\ kpc \in [Cancels -> CancelPCs]
        /\ kbid \in [Cancels -> Batches \cup {None}]
    BY ConstantsAssumption DEF References, TypeOK
  <1>1. CASE UNCHANGED vars
    BY <1>1 DEF CancelInv, Flagged, LateStops, vars, redVars, cbVars, reqVars, cancelVars
  <1>2. ASSUME NEW i \in Items, Submit(i) PROVE CancelInv'
    <2>1. UNCHANGED <<cancelled, redCancelled, kpc, kbid, late, cbid, cpc>> /\ redisFails = 0
      BY <1>0, <1>2 DEF Submit, SubmitAccepted, SubmitError, SubmitStoreMemory, SubmitRegister, RedisCall,
        redVars, cbVars, reqVars, cancelVars
    <2> QED
      BY <2>1 DEF CancelInv, Flagged, LateStops
  <1>3. ASSUME NEW c \in Callbacks, NEW b \in Batches,
               NEW status \in {"completed", "unusable", "failed"},
               CallbackReceive(c, b, status)
        PROVE  CancelInv'
    <2>1. /\ UNCHANGED <<cancelled, redCancelled, kpc, kbid>> /\ redisFails = 0
          /\ cbid' = [cbid EXCEPT ![c] = b] /\ late' = [late EXCEPT ![c] = b \in cancelled]
          /\ cpc'[c] \in {"doneRedis", "end"} /\ \A d \in Callbacks \ {c} : cpc'[d] = cpc[d]
      BY <1>0, <1>3 DEF CallbackReceive, CallbackStop, redVars, cancelVars
    <2>2. late'[c] => b \in cancelled
      BY <1>0, <2>1
    <2>3. \A d \in Callbacks \ {c} : late'[d] = late[d] /\ cbid'[d] = cbid[d]
      BY <1>0, <2>1
    <2>4. cbid'[c] = b
      BY <1>0, <2>1
    <2> HIDE <1>3
    <2> QED
      BY <2>1, <2>2, <2>3, <2>4 DEF CancelInv, Flagged, LateStops
  <1>4. ASSUME NEW c \in Callbacks, CallbackStep(c) PROVE CancelInv'
    <2>1. /\ UNCHANGED <<cancelled, redCancelled, kpc, kbid, late, cbid>> /\ redisFails = 0
          /\ \A d \in Callbacks \ {c} : cpc'[d] = cpc[d]
      BY <1>0, <1>4 DEF CallbackStep, CallbackCheckDone, CallbackCheckCancelled, CallbackLoad,
        CallbackUpsert, Upsert, CallbackRaise, CallbackFinalize, CallbackMarkDone, CallbackDropContext,
        CallbackStop, RedisCall, redVars, cbVars, reqVars, cancelVars
    <2>2. late[c] => cpc'[c] \in {"doneRedis", "cancelRedis", "end"}
      <3>1. SUFFICES ASSUME late[c] PROVE cpc'[c] \in {"doneRedis", "cancelRedis", "end"}
        OBVIOUS
      <3>2. cbid[c] \in redCancelled /\ cpc[c] \in {"doneRedis", "cancelRedis", "end"}
        BY <2>1, <3>1 DEF CancelInv, LateStops
      <3>3. CallbackCheckDone(c) \/ CallbackCheckCancelled(c)
        BY <1>4, <3>2 DEF CallbackStep, CallbackLoad, CallbackUpsert, Upsert, CallbackRaise, CallbackFinalize,
          CallbackMarkDone, CallbackDropContext
      <3>4. CASE CallbackCheckDone(c)
        BY <1>0, <3>4 DEF CallbackCheckDone, CallbackStop
      <3>5. CASE CallbackCheckCancelled(c)
        <4>1. PICK ok \in BOOLEAN :
                /\ RedisCall(ok)
                /\ IF ok /\ cbid[c] \in redCancelled
                   THEN CallbackStop(c, cbid[c])
                   ELSE cpc' = [cpc EXCEPT ![c] = "load"] /\ UNCHANGED pendVars
          BY <3>5 DEF CallbackCheckCancelled
        <4>2. ok
          BY <1>0, <4>1 DEF RedisCall
        <4> QED
          BY <1>0, <3>2, <4>1, <4>2 DEF CallbackStop
      <3> QED
        BY <3>3, <3>4, <3>5
    <2> QED
      BY <2>1, <2>2 DEF CancelInv, Flagged, LateStops
  <1>5. ASSUME NEW k \in Cancels, NEW b \in Batches, CancelRequest(k, b) PROVE CancelInv'
    <2>1. /\ UNCHANGED <<cancelled, redCancelled, late, cbid, cpc>> /\ redisFails = 0
          /\ kpc' = [kpc EXCEPT ![k] = "load"] /\ kbid' = [kbid EXCEPT ![k] = b]
      BY <1>5 DEF CancelRequest, redVars, cbVars, reqVars
    <2> QED
      BY <1>0, <2>1 DEF CancelInv, Flagged, LateStops
  <1>6. ASSUME NEW k \in Cancels, CancelStep(k) PROVE CancelInv'
    <2>1. UNCHANGED <<late, cbid, cpc, kbid>> /\ redisFails = 0 /\ redCancelled \subseteq redCancelled'
      BY <1>0, <1>6 DEF CancelStep, CancelLoad, CancelCheckDone, CancelHttp, CancelFlag, CancelDropContext,
        CancelDropDone, RedisCall, redVars, cbVars, reqVars
    <2>2. \A m \in Cancels \ {k} : kpc'[m] = kpc[m]
      BY <1>0, <1>6 DEF CancelStep, CancelLoad, CancelCheckDone, CancelHttp, CancelFlag, CancelDropContext,
        CancelDropDone
    <2>3. kpc'[k] \in {"dropCtx", "dropDone"} => kbid[k] \in redCancelled'
      <3>1. CASE CancelFlag(k)
        BY <1>0, <2>1, <3>1 DEF CancelFlag, RedisCall
      <3>2. CASE CancelDropContext(k)
        BY <1>0, <2>1, <3>2 DEF CancelDropContext, CancelInv, Flagged
      <3>3. CASE CancelLoad(k) \/ CancelCheckDone(k) \/ CancelHttp(k) \/ CancelDropDone(k)
        BY <1>0, <3>3 DEF CancelLoad, CancelCheckDone, CancelHttp, CancelDropDone
      <3> QED
        BY <1>6, <3>1, <3>2, <3>3 DEF CancelStep
    <2>4. cancelled' = cancelled \/ (cancelled' = cancelled \cup {kbid[k]} /\ kpc[k] \in {"dropCtx", "dropDone"})
      BY <1>6 DEF CancelStep, CancelLoad, CancelCheckDone, CancelHttp, CancelFlag, CancelDropContext,
        CancelDropDone
    <2>5. Flagged'
      BY <2>1, <2>2, <2>3, <2>4 DEF CancelInv, Flagged
    <2>6. LateStops'
      BY <2>1 DEF CancelInv, LateStops
    <2> QED
      BY <2>5, <2>6 DEF CancelInv
  <1>7. ASSUME NEW j \in Jobs, CleanupStart(j) \/ Cleanup(j) PROVE CancelInv'
    BY <1>7 DEF CancelInv, Flagged, LateStops, CleanupStart, Cleanup, CleanupSleep, CleanupDrop,
      redVars, cbVars, reqVars, cancelVars
  <1>8. CASE Restart
    <2>1. /\ UNCHANGED <<cancelled, redCancelled, late, cbid, kbid>> /\ redisFails = 0
          /\ \A c \in Callbacks : cpc'[c] = cpc[c] \/ cpc'[c] = "end"
          /\ \A k \in Cancels : kpc'[k] \in {"idle", "end"}
      BY <1>0, <1>8 DEF Restart, redVars, reqVars
    <2> QED
      BY <2>1 DEF CancelInv, Flagged, LateStops
  <1> QED
    BY <1>1, <1>2, <1>3, <1>4, <1>5, <1>6, <1>7, <1>8 DEF Next

\* As long as Redis answers, a callback that arrives after the cancellation returned
\* writes no vectors, over every race of callbacks, cancellations and restarts.
THEOREM CancelsStick == Spec => []CancelSticks
  <1>1. Init => CancelInv
    BY DEF Init, CancelInv, Flagged, LateStops
  <1>2. CancelInv => CancelSticks
    BY DEF CancelInv, LateStops, CancelSticks
  <1> QED
    BY <1>1, <1>2, ReferencesHold, CancelInvStep, PTL DEF Spec

-----------------------------------------------------------------------------
(* With an orderly scheduler the count is exact *)

\* A callback that ended may have given its batch back; no other batch is missing
\* from the count, except that a restart forgets them all and ends all submissions.
Answered(b) == \E c \in Callbacks : cbid[c] = b /\ cpc[c] = "end"

Forgotten ==
  restarts > 0 =>
    /\ \A b \in Batches : batchJob[b] = None
    /\ \A i \in Items : spc[i] \in {"done", "failed"}

RegisteredAreCounted ==
  Orderly /\ restarts = 0 =>
    \A i \in Items : spc[i] = "done" => batchJob[sbid[i]] # None \/ Answered(sbid[i])

\* The callbacks of an orderly scheduler found their batch registered.
FoundRegistered == \A c \in Callbacks : cpc[c] # "idle" => early[c] \/ Registered(cbid[c])

\* A request that did not begin names no batch yet.
IdleUnnamed == \A c \in Callbacks : cpc[c] = "idle" => cbid[c] = None

ExactInv ==
  /\ PendingExact
  /\ Forgotten /\ RegisteredAreCounted /\ FoundRegistered /\ IdleUnnamed

\* The scheduler is orderly only if it was so far: a callback is not taken back.
LEMMA OrderlyBefore ==
  ASSUME References, IdleUnnamed, [Next]_vars, Orderly'
  PROVE  Orderly
  <1> SUFFICES ASSUME NEW c \in Callbacks, NEW d \in Callbacks, cbid[c] # None
               PROVE  ~early[c] /\ (c # d => cbid[c] # cbid[d])
    BY DEF Orderly
  <1>0. cbid \in [Callbacks -> Batches \cup {None}] /\ early \in [Callbacks -> BOOLEAN]
    BY DEF References, TypeOK
  <1>1. (~early'[c] /\ (c # d => cbid'[c] # cbid'[d])) \/ cbid'[c] = None
    BY DEF Orderly
  <1>2. CASE UNCHANGED <<cbid, early>>
    BY <1>1, <1>2
  <1>3. ASSUME NEW e \in Callbacks, NEW b \in Batches, NEW status \in {"completed", "unusable", "failed"},
               CallbackReceive(e, b, status)
        PROVE  ~early[c] /\ (c # d => cbid[c] # cbid[d])
    <2>1. cbid[e] = None
      BY <1>3 DEF CallbackReceive, IdleUnnamed
    <2>2. c # e /\ cbid' = [cbid EXCEPT ![e] = b] /\ early' = [early EXCEPT ![e] = ~Registered(b)]
      BY <1>3, <2>1 DEF CallbackReceive
    <2>3. early'[c] = early[c] /\ cbid'[c] = cbid[c]
      BY <1>0, <2>2
    <2>4. CASE d = e
      BY <1>1, <2>1, <2>3, <2>4
    <2>5. CASE d # e
      <3>1. cbid'[d] = cbid[d]
        BY <1>0, <2>2, <2>5
      <3> QED
        BY <1>1, <2>3, <3>1
    <2> QED
      BY <2>4, <2>5
  <1>4. CASE UNCHANGED vars
    BY <1>2, <1>4 DEF vars, cbVars, reqVars
  <1>5. ASSUME NEW i \in Items, Submit(i) PROVE UNCHANGED <<cbid, early>>
    BY <1>5 DEF Submit, SubmitAccepted, SubmitError, SubmitStoreMemory, SubmitRegister, cbVars, reqVars
  <1>6. ASSUME NEW e \in Callbacks, CallbackStep(e) PROVE UNCHANGED <<cbid, early>>
    BY <1>6 DEF CallbackStep, CallbackCheckDone, CallbackCheckCancelled, CallbackLoad, CallbackUpsert, Upsert,
      CallbackRaise, CallbackFinalize, CallbackMarkDone, CallbackDropContext, reqVars
  <1>7. ASSUME NEW k \in Cancels, CancelStep(k) \/ \E b \in Batches : CancelRequest(k, b)
        PROVE  UNCHANGED <<cbid, early>>
    BY <1>7 DEF CancelStep, CancelRequest, CancelLoad, CancelCheckDone, CancelHttp, CancelFlag,
      CancelDropContext, CancelDropDone, cbVars, reqVars
  <1>8. ASSUME NEW j \in Jobs, CleanupStart(j) \/ Cleanup(j) PROVE UNCHANGED <<cbid, early>>
    BY <1>8 DEF CleanupStart, Cleanup, CleanupSleep, CleanupDrop, cbVars, reqVars
  <1>9. CASE Restart
    BY <1>2, <1>9 DEF Restart, reqVars
  <1> QED
    BY <1>2, <1>3, <1>4, <1>5, <1>6, <1>7, <1>8, <1>9 DEF Next

\* The count of a job is exact for one job: the number that the proofs compare.
LEMMA WaitingFinite ==
  ASSUME NEW j
  PROVE  IsFiniteSet(Waiting(j)) /\ Cardinality(Waiting(j)) \in Nat
  BY FS_Subset, FS_CardinalityType, ConstantsAssumption DEF Waiting

\* Giving back a batch that is counted, or one that is not without naming its job.
LEMMA GiveBackExact ==
  ASSUME References, NEW job \in Jobs \cup {None}, NEW b \in Batches,
         \A j \in Jobs : pending[j] = Cardinality(Waiting(j)),
         \/ job = None \/ job = batchJob[b]
         \/ (\A d \in Batches : batchJob[d] = None),
         DecrementPending(job, b)
  PROVE  /\ \A j \in Jobs : pending'[j] = Cardinality(Waiting(j)')
         /\ \A d \in Batches : batchJob'[d] = IF d = b THEN None ELSE batchJob[d]
  <1> DEFINE jid == IF job # None THEN job ELSE batchJob[b]
  <1>0. /\ pending \in [Jobs -> Nat] /\ batchJob \in [Batches -> Jobs \cup {None}] /\ None \notin Jobs
    BY ConstantsAssumption DEF References, TypeOK
  <1>1. CASE jid = None
    <2>1. UNCHANGED <<pending, batchJob>> /\ batchJob[b] = None
      BY <1>0, <1>1 DEF DecrementPending, pendVars
    <2> QED
      BY <1>0, <2>1 DEF Waiting
  <1>2. CASE jid # None
    <2>1. /\ jid \in Jobs
          /\ pending' = [pending EXCEPT ![jid] = IF @ > 0 THEN @ - 1 ELSE 0]
          /\ batchJob' = [batchJob EXCEPT ![b] = None]
      BY <1>0, <1>2 DEF DecrementPending
    <2> HIDE DEF jid
    <2>2. \A d \in Batches : batchJob'[d] = IF d = b THEN None ELSE batchJob[d]
      BY <1>0, <2>1
    <2>3. ASSUME NEW j \in Jobs PROVE pending'[j] = Cardinality(Waiting(j)')
      <3>1. Waiting(j)' = Waiting(j) \ {b}
        BY <1>0, <2>2 DEF Waiting
      <3>2. /\ IsFiniteSet(Waiting(j)) /\ Cardinality(Waiting(j)) \in Nat
            /\ pending[j] = Cardinality(Waiting(j))
            /\ Cardinality(Waiting(j) \ {b})
                 = IF b \in Waiting(j) THEN Cardinality(Waiting(j)) - 1 ELSE Cardinality(Waiting(j))
        BY WaitingFinite, FS_RemoveElement
      <3>3. pending'[j] = IF j = jid THEN (IF pending[j] > 0 THEN pending[j] - 1 ELSE 0) ELSE pending[j]
        BY <1>0, <2>1
      <3>4. CASE b \in Waiting(j)
        <4>1. j = jid
          BY <3>4, <1>0 DEF Waiting, jid
        <4>2. Cardinality(Waiting(j)) # 0
          BY <3>2, <3>4, FS_EmptySet
        <4> QED
          BY <3>1, <3>2, <3>3, <3>4, <4>1, <4>2
      <3>5. CASE b \notin Waiting(j)
        <4>1. j = jid => pending[j] = 0
          <5>1. SUFFICES ASSUME j = jid PROVE Waiting(j) = {}
            BY <3>2, FS_EmptySet
          <5>2. batchJob[b] # j
            BY <3>5 DEF Waiting
          <5>3. \A d \in Batches : batchJob[d] = None
            BY <5>1, <5>2 DEF jid
          <5> QED
            BY <1>0, <5>3 DEF Waiting
        <4> QED
          BY <3>1, <3>2, <3>3, <3>5, <4>1
      <3> QED
        BY <3>4, <3>5
    <2> QED
      BY <2>2, <2>3
  <1> QED
    BY <1>1, <1>2

\* One callback moves, or ends and gives its batch back.
LEMMA CallbackExact ==
  ASSUME References, ExactInv, Orderly' => Orderly,
         NEW c \in Callbacks, NEW b \in Batches, NEW job \in Jobs \cup {None},
         cbid'[c] = b, early'[c] \/ Registered(b), cpc[c] # "end", cpc'[c] # "idle",
         UNCHANGED <<spc, sbid, restarts>>,
         \A d \in Callbacks \ {c} : cpc'[d] = cpc[d] /\ cbid'[d] = cbid[d] /\ early'[d] = early[d],
         \/ UNCHANGED pendVars
         \/ /\ DecrementPending(job, b) /\ cpc'[c] = "end"
            /\ Orderly => \/ job = None \/ job = batchJob[b]
                          \/ (\A d \in Batches : batchJob[d] = None)
            /\ restarts > 0 => batchJob' = batchJob
  PROVE  ExactInv'
  <1>1. FoundRegistered'
    BY DEF ExactInv, FoundRegistered, Registered
  <1>2. IdleUnnamed'
    BY DEF ExactInv, IdleUnnamed
  <1>3. Forgotten'
    BY DEF ExactInv, Forgotten, pendVars
  <1>4. \A d \in Batches : Answered(d) => Answered(d)'
    BY DEF Answered
  <1>5. ASSUME Orderly'
        PROVE  /\ \A j \in Jobs : pending'[j] = Cardinality(Waiting(j)')
               /\ \A d \in Batches : batchJob'[d] = batchJob[d] \/ Answered(d)'
    <2>1. Orderly /\ \A j \in Jobs : pending[j] = Cardinality(Waiting(j))
      BY <1>5 DEF ExactInv, PendingExact
    <2>2. CASE UNCHANGED pendVars
      BY <2>1, <2>2 DEF pendVars, Waiting
    <2>3. CASE ~ UNCHANGED pendVars
      <3>1. /\ DecrementPending(job, b) /\ cpc'[c] = "end"
            /\ \/ job = None \/ job = batchJob[b]
               \/ (\A d \in Batches : batchJob[d] = None)
        BY <2>1, <2>3
      <3>2. /\ \A j \in Jobs : pending'[j] = Cardinality(Waiting(j)')
            /\ \A d \in Batches : batchJob'[d] = IF d = b THEN None ELSE batchJob[d]
        BY <2>1, <3>1, GiveBackExact
      <3>3. Answered(b)'
        BY <3>1 DEF Answered
      <3> QED
        BY <3>2, <3>3
    <2> QED
      BY <2>2, <2>3
  <1>6. PendingExact'
    BY <1>5 DEF PendingExact
  <1>7. RegisteredAreCounted'
    <2> SUFFICES ASSUME Orderly', restarts = 0, NEW i \in Items, spc[i] = "done"
                 PROVE  batchJob'[sbid[i]] # None \/ Answered(sbid[i])'
      BY DEF RegisteredAreCounted, Answered
    <2>1. sbid[i] \in Batches
      BY DEF References, SubmitRefs
    <2>2. batchJob[sbid[i]] # None \/ Answered(sbid[i])
      BY DEF ExactInv, RegisteredAreCounted
    <2> QED
      BY <1>4, <1>5, <2>1, <2>2
  <1> QED
    BY <1>1, <1>2, <1>3, <1>6, <1>7 DEF ExactInv

\* The job that the end of a callback names is the one its batch is counted for.
LEMMA DroppedIsCounted ==
  ASSUME References, Counted, ExactInv, Orderly, NEW c \in Callbacks, cpc[c] \notin {"idle", "end"}
  PROVE  \/ batchJob[cbid[c]] = JobOf[owner[cbid[c]]]
         \/ \A d \in Batches : batchJob[d] = None
  <1>1. cbid[c] \in Batches /\ restarts \in Nat
    BY DEF References, CallbackRefs, TypeOK
  <1>2. CASE restarts = 0
    <2>1. cbid[c] # None
      BY <1>1, ConstantsAssumption
    <2>2. Registered(cbid[c])
      BY <2>1 DEF ExactInv, FoundRegistered, Orderly
    <2>3. ~Answered(cbid[c])
      BY <2>1 DEF Orderly, Answered
    <2>4. batchJob[cbid[c]] # None
      BY <1>2, <2>2, <2>3 DEF ExactInv, RegisteredAreCounted, Registered
    <2> QED
      BY <1>1, <2>4 DEF Counted, CountedRegistered
  <1>3. CASE restarts # 0
    BY <1>1, <1>3 DEF ExactInv, Forgotten
  <1> QED
    BY <1>2, <1>3

\* Steps that touch no count, no callback and no submission that is done.
LEMMA ExactAside ==
  ASSUME References, ExactInv, Orderly' => Orderly, UNCHANGED <<pendVars, cbVars, restarts>>,
         \A i \in Items : spc[i] = "done" => spc'[i] = "done" /\ sbid'[i] = sbid[i],
         \A i \in Items : spc'[i] = "done" => spc[i] = "done",
         restarts > 0 => UNCHANGED spc
  PROVE  ExactInv'
  <1>1. PendingExact'
    BY DEF ExactInv, PendingExact, pendVars, Waiting
  <1>2. Forgotten' /\ IdleUnnamed'
    BY DEF ExactInv, Forgotten, IdleUnnamed, pendVars, cbVars, reqVars
  <1>3. FoundRegistered'
    BY DEF ExactInv, FoundRegistered, Registered, cbVars, reqVars
  <1>4. RegisteredAreCounted'
    BY DEF ExactInv, RegisteredAreCounted, Answered, pendVars, cbVars, reqVars
  <1> QED
    BY <1>1, <1>2, <1>3, <1>4 DEF ExactInv

\* The registration of a batch counts it.
LEMMA RegisterExact ==
  ASSUME References, Counted, ExactInv, Orderly' => Orderly, NEW i \in Items, SubmitRegister(i)
  PROVE  ExactInv'
  <1> DEFINE b == sbid[i]
             j == JobOf[i]
  <1>1. /\ b \in Batches /\ owner[b] = i /\ j \in Jobs /\ j # None /\ spc[i] = "storeRedis"
        /\ restarts \in Nat
    <2>1. spc[i] = "storeRedis"
      BY DEF SubmitRegister
    <2>2. b \in Batches /\ owner[b] = i
      BY <2>1 DEF References, SubmitRefs
    <2>3. j \in Jobs /\ j # None
      BY ConstantsAssumption
    <2>4. restarts \in Nat
      BY ConstantsAssumption DEF References, TypeOK
    <2> QED
      BY <2>1, <2>2, <2>3, <2>4
  <1>2. batchJob[b] = None
    BY <1>1 DEF Counted, CountedRegistered
  <1>3. /\ pending' = [pending EXCEPT ![j] = @ + 1] /\ batchJob' = [batchJob EXCEPT ![b] = j]
        /\ spc' = [spc EXCEPT ![i] = "done"] /\ UNCHANGED <<sbid, cpc, cbid, early, restarts>>
    BY DEF SubmitRegister, IncrementPending, cbVars, reqVars
  <1>4. restarts = 0
    BY <1>1 DEF ExactInv, Forgotten
  <1>0. /\ pending \in [Jobs -> Nat] /\ batchJob \in [Batches -> Jobs \cup {None}]
        /\ spc \in [Items -> SubmitPCs]
    BY DEF References, TypeOK
  <1> HIDE DEF b, j
  <1>5. \A d \in Batches : batchJob'[d] = IF d = b THEN j ELSE batchJob[d]
    BY <1>0, <1>1, <1>3
  <1>6. \A k \in Items : spc'[k] = IF k = i THEN "done" ELSE spc[k]
    BY <1>0, <1>3
  <1>7. PendingExact'
    <2> SUFFICES ASSUME Orderly', NEW k \in Jobs PROVE pending'[k] = Cardinality(Waiting(k)')
      BY DEF PendingExact
    <2>1. pending[k] = Cardinality(Waiting(k)) /\ IsFiniteSet(Waiting(k)) /\ Cardinality(Waiting(k)) \in Nat
      BY WaitingFinite DEF ExactInv, PendingExact
    <2>2. pending'[k] = IF k = j THEN pending[k] + 1 ELSE pending[k]
      BY <1>0, <1>1, <1>3
    <2>3. CASE k = j
      <3>1. Waiting(k)' = Waiting(k) \cup {b} /\ b \notin Waiting(k)
        BY <1>1, <1>2, <1>5, <2>3 DEF Waiting
      <3> QED
        BY <2>1, <2>2, <2>3, <3>1, FS_AddElement
    <2>4. CASE k # j
      <3>1. Waiting(k)' = Waiting(k)
        BY <1>1, <1>2, <1>5, <2>4, ConstantsAssumption DEF Waiting
      <3> QED
        BY <2>1, <2>2, <2>4, <3>1
    <2> QED
      BY <2>3, <2>4
  <1>8. Forgotten' /\ IdleUnnamed'
    BY <1>3, <1>4 DEF ExactInv, Forgotten, IdleUnnamed
  <1>9. FoundRegistered'
    BY <1>3, <1>6 DEF ExactInv, FoundRegistered, Registered
  <1>10. RegisteredAreCounted'
    <2> SUFFICES ASSUME Orderly', NEW k \in Items, spc'[k] = "done"
                 PROVE  batchJob'[sbid[k]] # None \/ Answered(sbid[k])'
      BY <1>3 DEF RegisteredAreCounted
    <2>1. CASE sbid[k] = b
      BY <1>1, <1>5, <2>1
    <2>2. CASE sbid[k] # b
      <3>1. spc[k] = "done" /\ sbid[k] \in Batches
        BY <1>6, <2>2 DEF b, References, SubmitRefs
      <3>2. batchJob[sbid[k]] # None \/ Answered(sbid[k])
        BY <1>4, <3>1 DEF ExactInv, RegisteredAreCounted
      <3> QED
        BY <1>3, <1>5, <2>2, <3>1, <3>2 DEF Answered
    <2> QED
      BY <2>1, <2>2
  <1> QED
    BY <1>7, <1>8, <1>9, <1>10 DEF ExactInv

LEMMA ExactStep == References /\ Counted /\ ExactInv /\ [Next]_vars => ExactInv'
  <1> SUFFICES ASSUME References, Counted, ExactInv, [Next]_vars
               PROVE  ExactInv'
    OBVIOUS
  <1>0. Orderly' => Orderly
    BY OrderlyBefore DEF ExactInv
  <1>t. /\ cpc \in [Callbacks -> CallbackPCs] /\ cbid \in [Callbacks -> Batches \cup {None}]
        /\ early \in [Callbacks -> BOOLEAN] /\ spc \in [Items -> SubmitPCs]
        /\ sbid \in [Items -> Batches \cup {None}] /\ None \notin Jobs
    BY ConstantsAssumption DEF References, TypeOK
  <1>1. CASE UNCHANGED vars
    BY <1>0, <1>1, ExactAside DEF vars, subVars
  <1>2. ASSUME NEW i \in Items, Submit(i) PROVE ExactInv'
    <2>1. CASE SubmitRegister(i)
      BY <1>0, <2>1, RegisterExact
    <2>2. CASE (\E b \in Batches : SubmitAccepted(i, b)) \/ SubmitError(i) \/ SubmitStoreMemory(i)
      <3>1. UNCHANGED <<pendVars, cbVars, restarts>>
        BY <2>2 DEF SubmitAccepted, SubmitError, SubmitStoreMemory
      <3>2. spc[i] \notin {"done", "failed"} /\ \A k \in Items \ {i} : spc'[k] = spc[k] /\ sbid'[k] = sbid[k]
        BY <1>t, <2>2 DEF SubmitAccepted, SubmitError, SubmitStoreMemory
      <3>3. spc'[i] # "done"
        BY <1>t, <2>2 DEF SubmitAccepted, SubmitError, SubmitStoreMemory
      <3>4. ~(restarts > 0)
        BY <3>2 DEF ExactInv, Forgotten
      <3> QED
        BY <1>0, <3>1, <3>2, <3>3, <3>4, ExactAside
    <2> QED
      BY <1>2, <2>1, <2>2 DEF Submit
  <1>3. ASSUME NEW c \in Callbacks, NEW b \in Batches,
               NEW status \in {"completed", "unusable", "failed"},
               CallbackReceive(c, b, status)
        PROVE  ExactInv'
    <2>1. /\ cpc[c] = "idle" /\ cbid' = [cbid EXCEPT ![c] = b]
          /\ early' = [early EXCEPT ![c] = ~Registered(b)]
          /\ UNCHANGED <<spc, sbid, restarts>>
          /\ \/ cpc' = [cpc EXCEPT ![c] = "doneRedis"] /\ UNCHANGED pendVars
             \/ cpc' = [cpc EXCEPT ![c] = "end"] /\ DecrementPending(None, b)
      BY <1>3 DEF CallbackReceive, CallbackStop, subVars
    <2>2. /\ cbid'[c] = b /\ cpc'[c] # "idle"
          /\ \A d \in Callbacks \ {c} : cpc'[d] = cpc[d] /\ cbid'[d] = cbid[d] /\ early'[d] = early[d]
      BY <1>t, <2>1
    <2>3. early'[c] \/ Registered(b)
      BY <1>t, <2>1
    <2>4. UNCHANGED pendVars \/ (DecrementPending(None, b) /\ cpc'[c] = "end")
      BY <1>t, <2>1
    <2>5. restarts > 0 /\ DecrementPending(None, b) => batchJob' = batchJob
      BY DEF ExactInv, Forgotten, DecrementPending, pendVars
    <2> HIDE <1>3
    <2> QED
      BY <1>0, <2>1, <2>2, <2>3, <2>4, <2>5, CallbackExact
  <1>4. ASSUME NEW c \in Callbacks, CallbackStep(c) PROVE ExactInv'
    <2>1. /\ cpc[c] \notin {"idle", "end"} /\ UNCHANGED <<spc, sbid, restarts, cbid, early>>
          /\ \A d \in Callbacks \ {c} : cpc'[d] = cpc[d]
          /\ cpc'[c] # "idle"
      BY <1>t, <1>4 DEF CallbackStep, CallbackCheckDone, CallbackCheckCancelled, CallbackLoad, CallbackUpsert, Upsert,
        CallbackRaise, CallbackFinalize, CallbackMarkDone, CallbackDropContext, CallbackStop, reqVars, subVars
    <2>2. cbid[c] \in Batches /\ (early[c] \/ Registered(cbid[c])) /\ JobOf[owner[cbid[c]]] \in Jobs
      BY <2>1, ConstantsAssumption DEF References, CallbackRefs, ExactInv, FoundRegistered
    <2>3. /\ restarts > 0 => batchJob[cbid[c]] = None /\ batchJob = [d \in Batches |-> None]
          /\ batchJob \in [Batches -> Jobs \cup {None}]
      BY <2>2 DEF ExactInv, Forgotten, References, TypeOK
    <2>4. CASE CallbackDropContext(c)
      <3>1. DecrementPending(JobOf[owner[cbid[c]]], cbid[c]) /\ cpc'[c] = "end"
        BY <1>t, <2>4 DEF CallbackDropContext
      <3>2. Orderly => \/ JobOf[owner[cbid[c]]] = batchJob[cbid[c]]
                       \/ \A d \in Batches : batchJob[d] = None
        BY <2>1, DroppedIsCounted
      <3>3. restarts > 0 => batchJob' = batchJob
        BY <1>t, <2>2, <2>3, <3>1 DEF DecrementPending
      <3> HIDE <1>4
      <3> QED
        BY <1>0, <2>1, <2>2, <3>1, <3>2, <3>3, CallbackExact
    <2>5. CASE ~CallbackDropContext(c)
      <3>1. UNCHANGED pendVars \/ (DecrementPending(None, cbid[c]) /\ cpc'[c] = "end")
        BY <1>t, <1>4, <2>5 DEF CallbackStep, CallbackCheckDone, CallbackCheckCancelled, CallbackLoad,
          CallbackUpsert, Upsert, CallbackRaise, CallbackFinalize, CallbackMarkDone, CallbackStop
      <3>2. restarts > 0 /\ DecrementPending(None, cbid[c]) => batchJob' = batchJob
        BY <2>3 DEF DecrementPending, pendVars
      <3> HIDE <1>4
      <3> QED
        BY <1>0, <2>1, <2>2, <3>1, <3>2, CallbackExact
    <2> QED
      BY <2>4, <2>5
  <1>5. ASSUME NEW k \in Cancels, CancelStep(k) \/ \E b \in Batches : CancelRequest(k, b)
        PROVE  ExactInv'
    <2>1. UNCHANGED <<pendVars, cbVars, restarts, subVars>>
      BY <1>5 DEF CancelStep, CancelRequest, CancelLoad, CancelCheckDone, CancelHttp, CancelFlag,
        CancelDropContext, CancelDropDone
    <2> QED
      BY <1>0, <2>1, ExactAside DEF subVars
  <1>6. ASSUME NEW j \in Jobs, CleanupStart(j) \/ Cleanup(j) PROVE ExactInv'
    <2>1. UNCHANGED <<pendVars, cbVars, restarts, subVars>>
      BY <1>6 DEF CleanupStart, Cleanup, CleanupSleep, CleanupDrop
    <2> QED
      BY <1>0, <2>1, ExactAside DEF subVars
  <1>7. CASE Restart
    <2>1. restarts' > 0 /\ UNCHANGED <<cbid, early, sbid>>
      BY <1>7 DEF Restart, reqVars, References, TypeOK
    <2>2. /\ \A j \in Jobs : pending'[j] = 0
          /\ \A b \in Batches : batchJob'[b] = None
          /\ \A i \in Items : spc'[i] \in {"done", "failed"} /\ (spc[i] = "done" => spc'[i] = "done")
          /\ \A c \in Callbacks : cpc'[c] = "idle" <=> cpc[c] = "idle"
      BY <1>7 DEF Restart
    <2>3. \A j \in Jobs : Waiting(j)' = {}
      BY <1>t, <2>2 DEF Waiting
    <2>4. PendingExact'
      BY <2>2, <2>3, FS_EmptySet DEF PendingExact
    <2>5. Forgotten' /\ IdleUnnamed' /\ FoundRegistered'
      BY <2>1, <2>2 DEF Forgotten, IdleUnnamed, FoundRegistered, ExactInv, Registered
    <2>6. RegisteredAreCounted'
      BY <2>1 DEF RegisteredAreCounted
    <2> QED
      BY <2>4, <2>5, <2>6 DEF ExactInv
  <1> QED
    BY <1>1, <1>2, <1>3, <1>4, <1>5, <1>6, <1>7 DEF Next

LEMMA ExactHolds == Spec => []ExactInv
  <1>1. Init => ExactInv
    <2> SUFFICES ASSUME Init PROVE ExactInv
      OBVIOUS
    <2>1. \A j \in Jobs : pending[j] = 0 /\ Waiting(j) = {}
      BY ConstantsAssumption DEF Init, Waiting
    <2>2. PendingExact
      BY <2>1, FS_EmptySet DEF PendingExact
    <2> QED
      BY <2>2 DEF Init, ExactInv, Forgotten, RegisteredAreCounted, FoundRegistered, IdleUnnamed
  <1> QED
    BY <1>1, ReferencesHold, CountedHolds, ExactStep, PTL DEF Spec

\* While the scheduler calls back once per batch and after its registration, the count
\* of a job is the number of its registered batches that have not called back, over
\* failing Redis calls, cancellations and restarts.
THEOREM PendingStaysExact == Spec => []PendingExact
  BY ExactHolds, PTL DEF ExactInv

\* The end of a workflow drops its object only when no registered batch of an orderly
\* scheduler is still to call back, when its wait is used up, or with the process.
THEOREM CleanupsWait == Spec => CleanupWaitsForCallbacks
  <1> DEFINE Waits == \A j \in workflows \ workflows' :
                        Orderly => Waiting(j) = {} \/ waited[j] >= MaxWait \/ restarts' # restarts
  <1>1. References /\ ExactInv /\ [Next]_vars => [Waits]_vars
    <2> SUFFICES ASSUME References, ExactInv, Next, NEW j \in workflows, j \notin workflows', Orderly
                 PROVE  Waiting(j) = {} \/ waited[j] >= MaxWait \/ restarts' # restarts
      OBVIOUS
    <2>1. j \in Jobs /\ restarts \in Nat
      BY DEF References, TypeOK
    <2>2. CASE Restart
      BY <2>1, <2>2 DEF Restart
    <2>3. ASSUME NEW k \in Jobs, CleanupDrop(k)
          PROVE  Waiting(j) = {} \/ waited[j] >= MaxWait
      <3>1. k = j /\ (pending[j] = 0 \/ waited[j] >= MaxWait)
        BY <2>3 DEF CleanupDrop
      <3>2. pending[j] = Cardinality(Waiting(j)) /\ IsFiniteSet(Waiting(j))
        BY <2>1, WaitingFinite DEF ExactInv, PendingExact
      <3> QED
        BY <3>1, <3>2, FS_EmptySet
    <2>4. \/ Restart \/ \E k \in Jobs : CleanupDrop(k)
      BY DEF Next, Submit, SubmitAccepted, SubmitError, SubmitStoreMemory, SubmitRegister, CallbackReceive,
        CallbackStep, CallbackCheckDone, CallbackCheckCancelled, CallbackLoad, CallbackUpsert, Upsert, CallbackRaise,
        CallbackFinalize, CallbackMarkDone, CallbackDropContext, CancelRequest, CancelStep, CancelLoad,
        CancelCheckDone, CancelHttp, CancelFlag, CancelDropContext, CancelDropDone, CleanupStart, Cleanup,
        CleanupSleep, wfVars
    <2> QED
      BY <2>2, <2>3, <2>4
  <1>2. Spec => [][Waits]_vars
    BY <1>1, ReferencesHold, ExactHolds, PTL DEF Spec
  <1> QED
    BY <1>2 DEF CleanupWaitsForCallbacks

=============================================================================
