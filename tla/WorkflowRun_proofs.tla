-------------------------- MODULE WorkflowRun_proofs --------------------------
(***************************************************************************)
(* The duplicate lock and the slots of a crawl, for any runs, jobs and     *)
(* bounds on expired keys, failed calls and cancelled tasks.               *)
(***************************************************************************)
EXTENDS WorkflowRun, TLAPS

Early == {"idle", "assembling"} \cup Locking
Places == Early \cup {"slot", "done"} \cup Admitted \cup Releasing

\* A run that has a key and whose key nobody took away.
Owns(r) == acquired[r] /\ pc[r] # "done" /\ r \notin robbed

LockTypes ==
  /\ pc \in [Runs -> Places]
  /\ key \in [Runs -> Keys]
  /\ acquired \in [Runs -> BOOLEAN]
  /\ lock \in [Keys -> Jobs \cup {None}]
  /\ {robbed, stray} \subseteq SUBSET Runs
  /\ leftKeys \subseteq Keys

\* Where a run may be with a key and without one.
KeyByPlace ==
  /\ \A r \in Runs : pc[r] \in Early => ~acquired[r]
  /\ \A r \in Runs : pc[r] \in Releasing => acquired[r]
  /\ \A r \in robbed : acquired[r]

\* A key carries the job of the one run that owns it.
OwnerAlone ==
  /\ \A r \in Runs : Owns(r) => lock[key[r]] = JobOf[r]
  /\ \A r, x \in Runs : Owns(r) /\ Owns(x) /\ key[r] = key[x] => r = x

\* A key that is set is owned, unless it was left behind.
KeyOwned ==
  \A k \in Keys : lock[k] # None /\ k \notin leftKeys => \E r \in Runs : Owns(r) /\ key[r] = k

\* A run about to delete its key deletes its own, unless it was removed meanwhile.
DeletesOwn ==
  \A r \in Runs : pc[r] = "unlockdel" /\ r \notin stray => lock[key[r]] = JobOf[r]

LockInv == LockTypes /\ KeyByPlace /\ OwnerAlone /\ KeyOwned /\ DeletesOwn

-----------------------------------------------------------------------------
(* The ways a step changes keys and who relies on them *)

\* A run without a key moves on, and may look at another key.
LEMMA Moves ==
  ASSUME LockInv, NEW r \in Runs, ~acquired[r], NEW to \in Places \ Releasing,
         pc' = [pc EXCEPT ![r] = to],
         key' = key \/ \E k \in Keys : key' = [key EXCEPT ![r] = k],
         UNCHANGED <<acquired, lock, robbed, stray, leftKeys>>
  PROVE  LockInv'
<1> USE DEF LockInv
<1>1. LockTypes'
  BY DEF LockTypes
<1>2. \A x \in Runs \ {r} : pc'[x] = pc[x] /\ key'[x] = key[x]
  BY DEF LockTypes
<1>3. \A x \in Runs : Owns(x) <=> Owns(x)'
  BY <1>2 DEF Owns
<1>4. \A x \in Runs : Owns(x) => x # r
  BY DEF Owns
<1>5. KeyByPlace'
  BY <1>2 DEF KeyByPlace, LockTypes
<1>6. OwnerAlone'
  BY <1>2, <1>3, <1>4 DEF OwnerAlone
<1>7. KeyOwned'
  BY <1>2, <1>3, <1>4 DEF KeyOwned
<1>8. pc'[r] # "unlockdel"
  BY DEF LockTypes, Releasing
<1>9. DeletesOwn'
  BY <1>2, <1>8 DEF DeletesOwn
<1> QED
  BY <1>1, <1>5, <1>6, <1>7, <1>9

\* A run with a key goes on, towards its deletion if the key carries its job.
LEMMA Keeps ==
  ASSUME LockInv, NEW r \in Runs, pc[r] \notin Early \cup {"done"},
         NEW to \in Places \ (Early \cup {"done"}),
         to \in Releasing => acquired[r],
         to = "unlockdel" => lock[key[r]] = JobOf[r],
         pc' = [pc EXCEPT ![r] = to],
         UNCHANGED <<key, acquired, lock, robbed, stray, leftKeys>>
  PROVE  LockInv'
<1> USE DEF LockInv
<1>1. LockTypes'
  BY DEF LockTypes
<1>2. \A x \in Runs \ {r} : pc'[x] = pc[x]
  BY DEF LockTypes
<1>3. pc'[r] = to
  BY DEF LockTypes
<1>4. \A x \in Runs : Owns(x) <=> Owns(x)'
  BY <1>2, <1>3 DEF Owns
<1>5. KeyByPlace'
  BY <1>2, <1>3 DEF KeyByPlace, LockTypes
<1>6. OwnerAlone' /\ KeyOwned'
  BY <1>4 DEF OwnerAlone, KeyOwned
<1>7. DeletesOwn'
  BY <1>2, <1>3 DEF DeletesOwn
<1> QED
  BY <1>1, <1>5, <1>6, <1>7

\* A run ends: without a key of its own, or its key counts as left behind.
LEMMA Ends ==
  ASSUME LockInv, NEW r \in Runs, pc' = [pc EXCEPT ![r] = "done"],
         UNCHANGED <<key, acquired, lock, robbed, stray>>,
         leftKeys \subseteq leftKeys', leftKeys' \subseteq Keys,
         Owns(r) => key[r] \in leftKeys'
  PROVE  LockInv'
<1> USE DEF LockInv
<1>1. LockTypes'
  BY DEF LockTypes, Places
<1>2. \A x \in Runs \ {r} : pc'[x] = pc[x]
  BY DEF LockTypes
<1>3. pc'[r] = "done"
  BY DEF LockTypes
<1>4. \A x \in Runs : Owns(x)' <=> x # r /\ Owns(x)
  BY <1>2, <1>3 DEF Owns
<1>5. KeyByPlace'
  BY <1>2, <1>3 DEF KeyByPlace, LockTypes, Early, Locking, Releasing
<1>6. OwnerAlone'
  BY <1>4 DEF OwnerAlone
<1>7. KeyOwned'
  BY <1>4 DEF KeyOwned
<1>8. DeletesOwn'
  BY <1>2, <1>3 DEF DeletesOwn
<1> QED
  BY <1>1, <1>5, <1>6, <1>7, <1>8

\* A run sets a free key and knows it.
LEMMA Sets ==
  ASSUME WorkflowRunAssumption, LockInv, NEW r \in Runs, pc[r] \in Early,
         NEW k \in Keys, lock[k] = None,
         lock' = [lock EXCEPT ![k] = JobOf[r]], key' = [key EXCEPT ![r] = k],
         acquired' = [acquired EXCEPT ![r] = TRUE], leftKeys' = leftKeys \ {k},
         pc' = [pc EXCEPT ![r] = "slot"], UNCHANGED <<robbed, stray>>
  PROVE  LockInv'
<1> USE DEF LockInv
<1>0. JobOf[r] \in Jobs /\ None \notin Jobs
  BY DEF WorkflowRunAssumption
<1>1. LockTypes'
  BY <1>0 DEF LockTypes, Places
<1>2. \A x \in Runs \ {r} : pc'[x] = pc[x] /\ key'[x] = key[x] /\ (acquired'[x] <=> acquired[x])
  BY DEF LockTypes
<1>3. pc'[r] = "slot" /\ key'[r] = k /\ acquired'[r] /\ r \notin robbed
  BY DEF LockTypes, KeyByPlace
<1>4. /\ \A x \in Runs \ {r} : Owns(x)' <=> Owns(x)
      /\ ~Owns(r) /\ Owns(r)'
  BY <1>2, <1>3 DEF Owns, KeyByPlace
<1>5. \A x \in Runs : JobOf[x] # None /\ key[x] \in Keys
  BY DEF WorkflowRunAssumption, LockTypes
<1>6. \A x \in Runs : Owns(x) => key[x] # k
  BY <1>5 DEF OwnerAlone
<1>7. lock'[k] = JobOf[r] /\ \A y \in Keys \ {k} : lock'[y] = lock[y]
  BY DEF LockTypes
<1>8. KeyByPlace'
  BY <1>2, <1>3 DEF KeyByPlace, LockTypes, Early, Locking, Releasing
<1>9. OwnerAlone'
  BY <1>2, <1>3, <1>4, <1>5, <1>6, <1>7 DEF OwnerAlone
<1>10. KeyOwned'
  BY <1>2, <1>3, <1>4, <1>6, <1>7 DEF KeyOwned
<1>11. DeletesOwn'
  BY <1>2, <1>3, <1>5, <1>7 DEF DeletesOwn
<1> QED
  BY <1>1, <1>8, <1>9, <1>10, <1>11

\* A call set a free key and raised: the run goes on or ends without it.
LEMMA SetsUnseen ==
  ASSUME WorkflowRunAssumption, LockInv, NEW r \in Runs, pc[r] \in Early,
         NEW k \in Keys, lock[k] = None, NEW to \in {"slot", "done"},
         lock' = [lock EXCEPT ![k] = JobOf[r]], leftKeys' = leftKeys \cup {k},
         pc' = [pc EXCEPT ![r] = to], UNCHANGED <<key, acquired, robbed, stray>>
  PROVE  LockInv'
<1> USE DEF LockInv
<1>0. JobOf[r] \in Jobs /\ None \notin Jobs
  BY DEF WorkflowRunAssumption
<1>1. LockTypes'
  BY <1>0 DEF LockTypes, Places
<1>2. \A x \in Runs \ {r} : pc'[x] = pc[x]
  BY DEF LockTypes
<1>3. pc'[r] = to /\ ~acquired[r]
  BY DEF LockTypes, KeyByPlace
<1>4. \A x \in Runs : Owns(x)' <=> Owns(x)
  BY <1>2, <1>3 DEF Owns
<1>5. \A x \in Runs : JobOf[x] # None /\ key[x] \in Keys
  BY DEF WorkflowRunAssumption, LockTypes
<1>6. \A x \in Runs : Owns(x) => key[x] # k
  BY <1>5 DEF OwnerAlone
<1>7. \A y \in Keys \ {k} : lock'[y] = lock[y]
  BY DEF LockTypes
<1>8. KeyByPlace'
  BY <1>2, <1>3 DEF KeyByPlace, LockTypes, Early, Locking, Releasing
<1>9. OwnerAlone'
  BY <1>4, <1>5, <1>6, <1>7 DEF OwnerAlone
<1>10. KeyOwned'
  BY <1>4, <1>7 DEF KeyOwned
<1>11. DeletesOwn'
  BY <1>2, <1>3, <1>5, <1>7 DEF DeletesOwn
<1> QED
  BY <1>1, <1>8, <1>9, <1>10, <1>11

\* A key is removed, and those who relied on it are robbed.
LEMMA Removes ==
  ASSUME WorkflowRunAssumption, LockInv, NEW k \in Keys, NEW but,
         lock' = [lock EXCEPT ![k] = None], Rob(k, but),
         UNCHANGED <<key, acquired>>, leftKeys' = leftKeys,
         pc' \in [Runs -> Places],
         \A x \in Runs : \/ pc'[x] = pc[x]
                         \/ /\ pc[x] # "done" /\ pc'[x] \notin Releasing
                            /\ pc'[x] \in Early => pc[x] \in Early,
         \A x \in Runs : pc'[x] = "done" => ~Owns(x) \/ key[x] = k,
         \A x \in Runs : x \in but => ~Owns(x) \/ key[x] # k \/ pc'[x] = "done",
         \A x \in Runs : x \in but => pc'[x] # "unlockdel" \/ key[x] # k \/ x \in stray
  PROVE  LockInv'
<1> USE DEF LockInv
<1>1. /\ \A x \in Runs : x \in robbed' <=> x \in robbed \/ (x \in Holders(k) /\ x \notin but)
      /\ \A x \in Runs : x \in stray' <=> x \in stray \/ (x \in AtDelete(k) /\ x \notin but)
      /\ robbed' \subseteq Runs /\ stray' \subseteq Runs
  BY DEF Rob, LockTypes, Holders, AtDelete
<1>2. LockTypes'
  BY <1>1 DEF LockTypes
<1>3. KeyByPlace'
  BY <1>1 DEF KeyByPlace, Holders
<1>4. \A x \in Runs : Owns(x)' => Owns(x) /\ key[x] # k
  BY <1>1 DEF Owns, Holders
<1>5. \A y \in Keys \ {k} : lock'[y] = lock[y]
  BY DEF LockTypes
<1>6. OwnerAlone'
  BY <1>4, <1>5 DEF OwnerAlone, LockTypes
<1>7. KeyOwned'
  <2>1. lock'[k] = None
    BY DEF LockTypes
  <2>2. \A x \in Runs : Owns(x) /\ key[x] # k /\ pc'[x] # "done" => Owns(x)'
    BY <1>1 DEF Owns, Holders
  <2> QED
    BY <1>5, <2>1, <2>2 DEF KeyOwned
<1>8. DeletesOwn'
  <2> SUFFICES ASSUME NEW x \in Runs, pc'[x] = "unlockdel", x \notin stray'
               PROVE  lock'[key[x]] = JobOf[x]
    BY DEF DeletesOwn
  <2>1. pc[x] = "unlockdel" /\ x \notin stray
    BY <1>1 DEF Releasing
  <2>2. acquired[x]
    BY <2>1 DEF KeyByPlace, Releasing
  <2>3. key[x] # k
    BY <1>1, <2>1, <2>2 DEF AtDelete, Holders
  <2> QED
    BY <1>5, <2>1, <2>3 DEF DeletesOwn, LockTypes
<1> QED
  BY <1>2, <1>3, <1>6, <1>7, <1>8

LEMMA RemovesForAll ==
  ASSUME WorkflowRunAssumption, LockInv, NEW k \in Keys,
         lock' = [lock EXCEPT ![k] = None], Rob(k, {}),
         UNCHANGED <<key, acquired, leftKeys>>,
         pc' \in [Runs -> Places],
         \A x \in Runs : \/ pc'[x] = pc[x]
                         \/ /\ pc[x] # "done" /\ pc'[x] \notin Releasing
                            /\ pc'[x] \in Early => pc[x] \in Early,
         \A x \in Runs : pc'[x] = "done" => ~Owns(x) \/ key[x] = k
  PROVE  LockInv'
<1> DEFINE but == {}
<1>1. Rob(k, but) /\ \A x \in Runs : x \notin but
  OBVIOUS
<1> HIDE DEF but
<1> QED
  BY <1>1, Removes

-----------------------------------------------------------------------------
(* The actions *)

LEMMA LockStep ==
  ASSUME WorkflowRunAssumption, LockInv, NEW r \in Runs, Lock(r)
  PROVE  LockInv'
<1> LockTypes /\ KeyByPlace
  BY DEF LockInv
<1>j. JobOf[r] \in Keys /\ Main \in Keys
  BY DEF WorkflowRunAssumption, Keys
<1>a. pc[r] \in Early => ~acquired[r]
  BY DEF KeyByPlace
<1>e. ASSUME pc[r] \in Early, End(r), UNCHANGED <<key, acquired, lock, robbed, stray, leftKeys>>
      PROVE  LockInv'
  BY <1>a, <1>e, Ends DEF End, Go, Owns, LockTypes
<1>m. ASSUME pc[r] \in Early, NEW to \in Early \cup {"slot"}, Go(r, to),
             UNCHANGED <<key, acquired, lock, robbed, stray, leftKeys>>
      PROVE  LockInv'
  <2>1. to \in Places \ Releasing
    BY DEF Places, Releasing, Early, Locking
  <2> QED
    BY <1>a, <1>m, <2>1, Moves DEF Go
<1>s. ASSUME pc[r] \in Early, NEW k \in Keys, NEW held \in {"get", "done"}, SetNX(r, k, held),
             UNCHANGED <<robbed, stray>>
      PROVE  LockInv'
  <2>1. CASE lock[k] = None
    BY <1>s, <2>1, Sets DEF SetNX, Go
  <2>2. CASE lock[k] # None
    <3>1. held \in Places \ Releasing
      BY DEF Places, Releasing, Early, Locking
    <3>2. pc' = [pc EXCEPT ![r] = held]
      BY <1>s, <2>2 DEF SetNX, End, Go
    <3> QED
      BY <1>a, <1>s, <2>2, <3>1, <3>2, Moves DEF SetNX
  <2> QED
    BY <2>1, <2>2
<1> USE DEF history
<1>1. CASE SetMain(r)
  BY <1>1, <1>j, <1>s DEF SetMain, Early, Locking
<1>2. CASE GetOwner(r)
  BY <1>2, <1>m DEF GetOwner, Early, Locking
<1>3. CASE SetJob(r)
  BY <1>3, <1>j, <1>s DEF SetJob, Early, Locking
<1>4. ASSUME NEW stale \in BOOLEAN, Inspect(r, stale)  PROVE LockInv'
  BY <1>4, <1>e, <1>m DEF Inspect, Early, Locking
<1>5. CASE Recheck(r)
  BY <1>5, <1>e, <1>m DEF Recheck, Early, Locking
<1>6. CASE Clear(r)
  <2>1. /\ pc[r] = "clear" /\ lock' = [lock EXCEPT ![Main] = None] /\ Rob(Main, {})
        /\ pc' = [pc EXCEPT ![r] = "reset"] /\ UNCHANGED <<key, acquired, leftKeys>>
    BY <1>6 DEF Clear, Go
  <2>2. pc' \in [Runs -> Places] /\ \A x \in Runs : pc'[x] = IF x = r THEN "reset" ELSE pc[x]
    BY <2>1 DEF LockTypes, Places, Early, Locking
  <2>3. "reset" \notin Releasing /\ "clear" \in Early
    BY DEF Releasing, Early, Locking
  <2>4. \A x \in Runs : pc'[x] = "done" => ~Owns(x) \/ key[x] = Main
    BY <2>2 DEF Owns
  <2>5. \A x \in Runs : pc'[x] = pc[x] \/ (/\ pc[x] # "done" /\ pc'[x] \notin Releasing
                                           /\ pc'[x] \in Early => pc[x] \in Early)
    BY <2>1, <2>2, <2>3
  <2> QED
    BY <1>j, <2>1, <2>2, <2>4, <2>5, RemovesForAll
<1>7. CASE Reset(r)
  BY <1>7, <1>j, <1>s DEF Reset, Early, Locking
<1>8. ASSUME NEW applied \in BOOLEAN, LockFails(r, applied)  PROVE LockInv'
  <2> DEFINE k == IF pc[r] = "setjob" THEN JobOf[r] ELSE Main
  <2>1. pc[r] \in Early /\ ~acquired[r] /\ k \in Keys
    BY <1>8, <1>a, <1>j DEF LockFails, Early
  <2>2. PICK to \in {"slot", "done"} : pc' = [pc EXCEPT ![r] = to]
    BY <1>8 DEF LockFails, End, Go
  <2>3. CASE UNCHANGED <<lock, robbed, stray, leftKeys>>
    <3>1. to \in Places \ Releasing
      BY DEF Places, Releasing
    <3> QED
      BY <1>8, <2>1, <2>2, <2>3, <3>1, Moves DEF LockFails
  <2>4. CASE lock[k] = None /\ lock' = [lock EXCEPT ![k] = JobOf[r]]
             /\ leftKeys' = leftKeys \cup {k} /\ UNCHANGED <<robbed, stray>>
    BY <1>8, <2>1, <2>2, <2>4, SetsUnseen DEF LockFails
  <2>5. CASE lock' = [lock EXCEPT ![Main] = None] /\ Rob(Main, {}) /\ UNCHANGED leftKeys
    <3>1. pc' \in [Runs -> Places] /\ \A x \in Runs : pc'[x] = IF x = r THEN to ELSE pc[x]
      BY <2>2 DEF LockTypes, Places
    <3>2. to \notin Releasing /\ to \notin Early /\ pc[r] # "done"
      BY <2>1 DEF Releasing, Early, Locking
    <3>3. \A x \in Runs : pc'[x] = "done" => ~Owns(x) \/ key[x] = Main
      BY <2>1, <3>1 DEF Owns
    <3>4. \A x \in Runs : pc'[x] = pc[x] \/ (/\ pc[x] # "done" /\ pc'[x] \notin Releasing
                                             /\ pc'[x] \in Early => pc[x] \in Early)
      BY <3>1, <3>2
    <3>5. UNCHANGED <<key, acquired>>
      BY <1>8 DEF LockFails
    <3> QED
      BY <1>j, <2>5, <3>1, <3>3, <3>4, <3>5, RemovesForAll
  <2> QED
    BY <1>8, <2>3, <2>4, <2>5 DEF LockFails
<1> QED
  BY <1>1, <1>2, <1>3, <1>4, <1>5, <1>6, <1>7, <1>8 DEF Lock

LEMMA RunStep ==
  ASSUME WorkflowRunAssumption, LockInv, NEW r \in Runs,
         Dispatch(r) \/ Schedule(r) \/ Run(r)
  PROVE  LockInv'
<1> LockTypes /\ KeyByPlace
  BY DEF LockInv
<1> USE DEF history
<1>e. ASSUME ~acquired[r], End(r), UNCHANGED <<key, acquired, lock, robbed, stray, leftKeys>>
      PROVE  LockInv'
  BY <1>e, Ends DEF End, Go, Owns, LockTypes
<1>k. ASSUME NEW to \in Admitted \cup {"unlockget"}, pc[r] \in Admitted \cup {"slot"}, Go(r, to),
             to = "unlockget" => acquired[r],
             UNCHANGED <<key, acquired, lock, robbed, stray, leftKeys>>
      PROVE  LockInv'
  <2>1. /\ to \in Places \ (Early \cup {"done"}) /\ pc[r] \notin Early \cup {"done"}
        /\ to \in Releasing => acquired[r]
        /\ to # "unlockdel"
    BY <1>k DEF Places, Early, Locking, Admitted, Releasing
  <2> QED
    BY <1>k, <2>1, Keeps DEF Go
<1>1. CASE Dispatch(r) \/ Schedule(r)
  <2>1. pc[r] \in Early /\ ~acquired[r]
    BY <1>1 DEF Dispatch, Schedule, Early, KeyByPlace
  <2>2. PICK to \in {"assembling", "set"} : pc' = [pc EXCEPT ![r] = to]
    BY <1>1 DEF Dispatch, Schedule, Go
  <2>3. to \in Places \ Releasing
    BY DEF Places, Releasing, Early, Locking
  <2>4. UNCHANGED <<key, acquired, lock, robbed, stray, leftKeys>>
    BY <1>1 DEF Dispatch, Schedule
  <2> QED
    BY <2>1, <2>2, <2>3, <2>4, Moves
<1>2. CASE AcquireSlot(r)
  BY <1>2, <1>k DEF AcquireSlot, Admitted
<1>3. CASE SlotRefused(r)
  BY <1>3, <1>k, <1>e DEF SlotRefused
<1>4. CASE Start(r)
  BY <1>4, <1>k DEF Start, Admitted
<1>5. CASE Finish(r)
  BY <1>5, <1>k DEF Finish, Admitted
<1>6. CASE ReleaseSlot(r)
  BY <1>6, <1>k, <1>e DEF ReleaseSlot, Admitted
<1> QED
  BY <1>1, <1>2, <1>3, <1>4, <1>5, <1>6 DEF Run

LEMMA UnlockStep ==
  ASSUME WorkflowRunAssumption, LockInv, NEW r \in Runs, Unlock(r)
  PROVE  LockInv'
<1> LockTypes /\ KeyByPlace /\ OwnerAlone /\ DeletesOwn
  BY DEF LockInv
<1> USE DEF history
<1>1. CASE UnlockGet(r)
  <2>1. pc[r] = "unlockget" /\ UNCHANGED <<key, acquired, lock, robbed, stray, leftKeys>>
    BY <1>1 DEF UnlockGet
  <2>2. CASE lock[key[r]] = JobOf[r]
    <3>1. pc' = [pc EXCEPT ![r] = "unlockdel"] /\ acquired[r]
      BY <1>1, <2>1, <2>2 DEF UnlockGet, Go, KeyByPlace, Releasing
    <3>2. "unlockdel" \in Places \ (Early \cup {"done"}) /\ pc[r] \notin Early \cup {"done"}
      BY <2>1 DEF Places, Early, Locking, Releasing
    <3> QED
      BY <2>1, <2>2, <3>1, <3>2, Keeps
  <2>3. CASE lock[key[r]] # JobOf[r]
    <3>1. ~Owns(r)
      BY <2>3 DEF OwnerAlone
    <3> QED
      BY <1>1, <2>1, <2>3, <3>1, Ends DEF UnlockGet, End, Go, LockTypes
  <2> QED
    BY <2>2, <2>3
<1>2. CASE UnlockDelete(r)
  <2> DEFINE k == key[r]
             but == {r} \cup IF r \in stray THEN {} ELSE {x \in Runs : JobOf[x] # JobOf[r]}
  <2>1. /\ pc[r] = "unlockdel" /\ k \in Keys /\ lock' = [lock EXCEPT ![k] = None]
        /\ Rob(k, but) /\ pc' = [pc EXCEPT ![r] = "done"]
        /\ UNCHANGED <<key, acquired, leftKeys>>
    BY <1>2 DEF UnlockDelete, End, Go, LockTypes
  <2>2. pc' \in [Runs -> Places] /\ \A x \in Runs : pc'[x] = IF x = r THEN "done" ELSE pc[x]
    BY <2>1 DEF LockTypes, Places
  <2>3. \A x \in Runs : pc'[x] = pc[x] \/ (/\ pc[x] # "done" /\ pc'[x] \notin Releasing
                                           /\ pc'[x] \in Early => pc[x] \in Early)
    BY <2>1, <2>2 DEF Releasing, Early, Locking
  <2>4. \A x \in Runs : pc'[x] = "done" => ~Owns(x) \/ key[x] = k
    BY <2>2 DEF Owns
  <2>5. \A x \in Runs : x \in but => ~Owns(x) \/ key[x] # k \/ pc'[x] = "done"
    BY <2>1, <2>2 DEF DeletesOwn, OwnerAlone
  <2>6. \A x \in Runs : x \in but => pc'[x] # "unlockdel" \/ key[x] # k \/ x \in stray
    BY <2>1, <2>2 DEF DeletesOwn
  <2> HIDE DEF but, k
  <2> QED
    BY <2>1, <2>2, <2>3, <2>4, <2>5, <2>6, Removes
<1>3. CASE UnlockFails(r)
  BY <1>3, Ends DEF UnlockFails, End, Go, LockTypes
<1> QED
  BY <1>1, <1>2, <1>3 DEF Unlock

LEMMA FaultStep ==
  ASSUME WorkflowRunAssumption, LockInv,
         (\E r \in Runs : Cancel(r)) \/ (\E k \in Keys : Expire(k))
  PROVE  LockInv'
<1> LockTypes /\ KeyByPlace
  BY DEF LockInv
<1>1. ASSUME NEW r \in Runs, Cancel(r)  PROVE LockInv'
  <2>1. UNCHANGED <<key, acquired, lock, robbed, stray>>
    BY <1>1 DEF Cancel
  <2>2. CASE pc[r] = "running"
    <3>1. pc' = [pc EXCEPT ![r] = "finally"] /\ UNCHANGED leftKeys
      BY <1>1, <2>2 DEF Cancel, Go
    <3>2. /\ "finally" \in Places \ (Early \cup {"done"}) /\ pc[r] \notin Early \cup {"done"}
          /\ "finally" \notin Releasing
      BY <2>2 DEF Places, Early, Locking, Admitted, Releasing
    <3> QED
      BY <2>1, <3>1, <3>2, Keeps
  <2>3. CASE pc[r] # "running"
    <3>1. pc' = [pc EXCEPT ![r] = "done"]
      BY <1>1, <2>3 DEF Cancel, End, Go
    <3>2. leftKeys' = IF acquired[r] THEN leftKeys \cup {key[r]} ELSE leftKeys
      BY <1>1, <2>3 DEF Cancel
    <3>3. /\ leftKeys \subseteq leftKeys' /\ leftKeys' \subseteq Keys
          /\ Owns(r) => key[r] \in leftKeys'
      BY <3>2 DEF Owns, LockTypes
    <3> QED
      BY <2>1, <3>1, <3>3, Ends
  <2> QED
    BY <2>2, <2>3
<1>2. ASSUME NEW k \in Keys, Expire(k)  PROVE LockInv'
  <2>1. /\ lock' = [lock EXCEPT ![k] = None] /\ Rob(k, {})
        /\ UNCHANGED <<pc, key, acquired, leftKeys>>
    BY <1>2 DEF Expire, runVars
  <2>2. \A x \in Runs : pc'[x] = "done" => ~Owns(x) \/ key[x] = k
    BY <2>1 DEF Owns
  <2>3. pc' \in [Runs -> Places] /\ \A x \in Runs : pc'[x] = pc[x]
    BY <2>1 DEF LockTypes
  <2> QED
    BY <2>1, <2>2, <2>3, RemovesForAll
<1> QED
  BY <1>1, <1>2

LEMMA LockInvStep ==
  ASSUME WorkflowRunAssumption, LockInv, [Next]_vars
  PROVE  LockInv'
<1>1. CASE UNCHANGED vars
  BY <1>1 DEF vars, runVars, history, LockInv, LockTypes, KeyByPlace, OwnerAlone, KeyOwned,
              DeletesOwn, Owns
<1> QED
  BY <1>1, LockStep, RunStep, UnlockStep, FaultStep DEF Next

LEMMA LockInvInit ==
  ASSUME WorkflowRunAssumption
  PROVE  Init => LockInv
<1> SUFFICES ASSUME Init PROVE LockInv
  OBVIOUS
<1>1. LockTypes
  BY DEF Init, LockTypes, Places, Early, Keys
<1>2. \A r \in Runs : ~acquired[r] /\ pc[r] = "idle"
  BY DEF Init
<1>3. KeyByPlace
  BY <1>2 DEF Init, KeyByPlace, Releasing
<1>4. OwnerAlone /\ KeyOwned /\ DeletesOwn
  BY <1>2 DEF Init, OwnerAlone, KeyOwned, DeletesOwn, Owns
<1> QED
  BY <1>1, <1>3, <1>4 DEF LockInv

LEMMA LockInvHolds ==
  ASSUME WorkflowRunAssumption
  PROVE  Spec => []LockInv
<1>1. Init => LockInv
  BY LockInvInit
<1>2. LockInv /\ [Next]_vars => LockInv'
  BY LockInvStep
<1> QED
  BY <1>1, <1>2, PTL DEF Spec

\* The duplicate lock of run_workflow_task: through expiry, stale owners, failing
\* calls and cancellations, a key carries the job of the one run that has it, and
\* no key stays behind that nobody gives back.
THEOREM LocksAndRunsAgree ==
  ASSUME WorkflowRunAssumption
  PROVE  Spec => []LocksMatchRuns
<1>1. ASSUME LockInv  PROVE LocksMatchRuns
  <2>1. \A k \in Keys, r \in Runs : r \in Holders(k) \ robbed <=> Owns(r) /\ key[r] = k
    BY DEF Holders, Owns
  <2>2. ASSUME NEW k \in Keys, NEW r \in Holders(k) \ robbed
        PROVE  lock[k] = JobOf[r] /\ Holders(k) \ robbed = {r}
    <3>1. r \in Runs /\ Owns(r) /\ key[r] = k /\ Holders(k) \subseteq Runs
      BY <2>1 DEF Holders
    <3> QED
      BY <1>1, <2>1, <3>1 DEF LockInv, OwnerAlone
  <2>3. ASSUME NEW k \in Keys, lock[k] # None, k \notin leftKeys
        PROVE  Holders(k) # {}
    BY <1>1, <2>1, <2>3 DEF LockInv, KeyOwned
  <2> QED
    BY <2>2, <2>3 DEF LocksMatchRuns
<1> QED
  BY <1>1, LockInvHolds, PTL

-----------------------------------------------------------------------------
(* The slots *)

SlotInv == SlotsBacked /\ pc \in [Runs -> Places] /\ admitted \subseteq Jobs

\* A step of a run that is not admitted, and one that stays admitted, keep the slots.
LEMMA SlotKept ==
  ASSUME SlotInv, NEW r \in Runs, NEW to \in Places, pc' = [pc EXCEPT ![r] = to],
         pc[r] \notin Admitted \/ to \in Admitted, UNCHANGED <<admitted, leftSlots>>
  PROVE  SlotInv'
<1>1. \A x \in Runs : pc[x] \in Admitted => pc'[x] \in Admitted
  BY DEF SlotInv
<1>2. SlotsBacked'
  BY <1>1 DEF SlotInv, SlotsBacked
<1> QED
  BY <1>2 DEF SlotInv

LEMMA SlotStep ==
  ASSUME WorkflowRunAssumption, SlotInv, [Next]_vars
  PROVE  SlotInv'
<1> USE DEF history
<1>p. \A to \in {"assembling", "set", "get", "setjob", "inspect", "recheck", "clear", "reset",
                "slot", "done", "starting", "running", "finally", "unlockget", "unlockdel"} :
        to \in Places
  BY DEF Places, Early, Locking, Admitted, Releasing
<1>0. CASE UNCHANGED vars
  BY <1>0 DEF vars, runVars, SlotInv, SlotsBacked
<1>1. ASSUME NEW r \in Runs, Dispatch(r) \/ Schedule(r)  PROVE SlotInv'
  BY <1>1, <1>p, SlotKept DEF Dispatch, Schedule, Go, Admitted
<1>2. ASSUME NEW r \in Runs, Lock(r)  PROVE SlotInv'
  <2>1. pc[r] \in Locking /\ UNCHANGED <<admitted, leftSlots>>
    BY <1>2 DEF Lock, SetMain, GetOwner, SetJob, Inspect, Recheck, Clear, Reset, LockFails, Locking
  <2>2. PICK to \in Places : pc' = [pc EXCEPT ![r] = to]
    BY <1>2, <1>p DEF Lock, SetMain, GetOwner, SetJob, Inspect, Recheck, Clear, Reset, LockFails,
                      SetNX, End, Go
  <2>3. pc[r] \notin Admitted
    BY <2>1 DEF Locking, Admitted
  <2> QED
    BY <2>1, <2>2, <2>3, SlotKept
<1>3. ASSUME NEW r \in Runs, AcquireSlot(r)  PROVE SlotInv'
  <2>1. /\ pc' = [pc EXCEPT ![r] = "starting"] /\ admitted' = admitted \cup {JobOf[r]}
        /\ pc[r] = "slot" /\ UNCHANGED leftSlots /\ JobOf[r] \in Jobs
    BY <1>3 DEF AcquireSlot, Go, WorkflowRunAssumption
  <2>2. \A x \in Runs : pc[x] \in Admitted => pc'[x] \in Admitted
    BY <2>1 DEF SlotInv, Admitted
  <2>3. pc'[r] \in Admitted
    BY <2>1 DEF SlotInv, Admitted
  <2>4. SlotsBacked'
    BY <2>1, <2>2, <2>3 DEF SlotInv, SlotsBacked
  <2> QED
    BY <1>p, <2>1, <2>4 DEF SlotInv
<1>4. ASSUME NEW r \in Runs, SlotRefused(r)  PROVE SlotInv'
  BY <1>4, <1>p, SlotKept DEF SlotRefused, End, Go, Admitted
<1>5. ASSUME NEW r \in Runs, Start(r) \/ Finish(r)  PROVE SlotInv'
  BY <1>5, <1>p, SlotKept DEF Start, Finish, Go, Admitted
<1>6. ASSUME NEW r \in Runs, ReleaseSlot(r)  PROVE SlotInv'
  <2>1. PICK to \in Places : pc' = [pc EXCEPT ![r] = to]
    BY <1>6, <1>p DEF ReleaseSlot, End, Go
  <2>2. admitted' = admitted \ {JobOf[r]} /\ UNCHANGED leftSlots
    BY <1>6 DEF ReleaseSlot
  <2>3. \A x \in Runs \ {r} : pc'[x] = pc[x]
    BY <2>1 DEF SlotInv
  <2>4. SlotsBacked'
    BY <2>2, <2>3 DEF SlotInv, SlotsBacked
  <2> QED
    BY <2>1, <2>2, <2>4 DEF SlotInv
<1>7. ASSUME NEW r \in Runs, Unlock(r)  PROVE SlotInv'
  <2>1. pc[r] \in Releasing /\ UNCHANGED <<admitted, leftSlots>>
    BY <1>7 DEF Unlock, UnlockGet, UnlockDelete, UnlockFails, Releasing
  <2>2. PICK to \in Places : pc' = [pc EXCEPT ![r] = to]
    BY <1>7, <1>p DEF Unlock, UnlockGet, UnlockDelete, UnlockFails, End, Go
  <2>3. pc[r] \notin Admitted
    BY <2>1 DEF Releasing, Admitted
  <2> QED
    BY <2>1, <2>2, <2>3, SlotKept
<1>8. ASSUME NEW r \in Runs, Cancel(r)  PROVE SlotInv'
  <2>1. PICK to \in Places : pc' = [pc EXCEPT ![r] = to]
    BY <1>8, <1>p DEF Cancel, End, Go
  <2>2. CASE pc[r] = "running"
    BY <1>8, <1>p, <2>2, SlotKept DEF Cancel, Go, Admitted
  <2>3. CASE pc[r] # "running"
    <3>1. admitted' = admitted
          /\ leftSlots' = IF pc[r] \in Admitted THEN leftSlots \cup {JobOf[r]} ELSE leftSlots
      BY <1>8, <2>3 DEF Cancel
    <3>2. \A x \in Runs \ {r} : pc'[x] = pc[x]
      BY <2>1 DEF SlotInv
    <3>3. SlotsBacked'
      BY <3>1, <3>2 DEF SlotInv, SlotsBacked
    <3> QED
      BY <2>1, <3>1, <3>3 DEF SlotInv
  <2> QED
    BY <2>2, <2>3
<1>9. ASSUME NEW k \in Keys, Expire(k)  PROVE SlotInv'
  BY <1>9 DEF Expire, runVars, SlotInv, SlotsBacked
<1> QED
  BY <1>0, <1>1, <1>2, <1>3, <1>4, <1>5, <1>6, <1>7, <1>8, <1>9 DEF Next, Run

LEMMA SlotInvHolds ==
  ASSUME WorkflowRunAssumption
  PROVE  Spec => []SlotInv
<1>1. Init => SlotInv
  BY DEF Init, SlotInv, SlotsBacked, Places, Early
<1>2. SlotInv /\ [Next]_vars => SlotInv'
  BY SlotStep
<1> QED
  BY <1>1, <1>2, PTL DEF Spec

\* Slots of the process: one that is taken has a run that will give it back, unless
\* that run was cancelled before or in the middle of its finally.
THEOREM SlotsAreBacked ==
  ASSUME WorkflowRunAssumption
  PROVE  Spec => []SlotsBacked
<1>1. SlotInv => SlotsBacked
  BY DEF SlotInv
<1> QED
  BY <1>1, SlotInvHolds, PTL

-----------------------------------------------------------------------------
(* Types *)

RestTypes ==
  /\ blockDifferent \in BlockModes
  /\ existing \in [Runs -> Jobs \cup {None}]
  /\ tasks \in [Jobs -> Runs \cup {None}]
  /\ faults \in [expired : 0..MaxExpired, failed : 0..MaxFails, cancelled : 0..MaxCancels]
  /\ leftSlots \subseteq Jobs

LEMMA RestStep ==
  ASSUME WorkflowRunAssumption, LockInv, RestTypes, [Next]_vars
  PROVE  RestTypes'
<1> USE DEF history
<1>0. /\ JobOf \in [Runs -> Jobs] /\ {MaxExpired, MaxFails, MaxCancels} \subseteq Nat
      /\ lock \in [Keys -> Jobs \cup {None}] /\ Main \in Keys
  BY DEF WorkflowRunAssumption, LockInv, LockTypes, Keys
<1>1. CASE UNCHANGED vars
  BY <1>1 DEF vars, runVars, RestTypes
<1>t. ASSUME NEW r \in Runs, tasks' \in {tasks, [tasks EXCEPT ![JobOf[r]] = r], [tasks EXCEPT ![JobOf[r]] = None]}
      PROVE  tasks' \in [Jobs -> Runs \cup {None}]
  BY <1>0, <1>t DEF RestTypes
<1>f. ASSUME Fail  PROVE faults' \in [expired : 0..MaxExpired, failed : 0..MaxFails, cancelled : 0..MaxCancels]
  BY <1>0, <1>f DEF Fail, RestTypes
<1>2. ASSUME NEW r \in Runs, Dispatch(r) \/ Schedule(r) \/ Run(r)  PROVE RestTypes'
  <2>1. /\ UNCHANGED <<blockDifferent, existing, faults, leftSlots>>
        /\ tasks' \in {tasks, [tasks EXCEPT ![JobOf[r]] = r], [tasks EXCEPT ![JobOf[r]] = None]}
    BY <1>2 DEF Dispatch, Schedule, Run, AcquireSlot, SlotRefused, Start, Finish, ReleaseSlot, End
  <2> QED
    BY <1>t, <2>1 DEF RestTypes
<1>3. ASSUME NEW r \in Runs, Lock(r)  PROVE RestTypes'
  <2>1. /\ UNCHANGED <<blockDifferent, leftSlots>> /\ (UNCHANGED faults \/ Fail)
        /\ tasks' \in {tasks, [tasks EXCEPT ![JobOf[r]] = None]}
    BY <1>3 DEF Lock, SetMain, GetOwner, SetJob, Inspect, Recheck, Clear, Reset, LockFails, SetNX, End
  <2>2. existing' = existing \/ existing' = [existing EXCEPT ![r] = lock[Main]]
    BY <1>3 DEF Lock, SetMain, GetOwner, SetJob, Inspect, Recheck, Clear, Reset, LockFails
  <2>3. existing' \in [Runs -> Jobs \cup {None}]
    BY <1>0, <2>2 DEF RestTypes
  <2> QED
    BY <1>f, <1>t, <2>1, <2>3 DEF RestTypes
<1>4. ASSUME NEW r \in Runs, Unlock(r)  PROVE RestTypes'
  <2>1. /\ UNCHANGED <<blockDifferent, existing, leftSlots>> /\ (UNCHANGED faults \/ Fail)
        /\ tasks' \in {tasks, [tasks EXCEPT ![JobOf[r]] = None]}
    BY <1>4 DEF Unlock, UnlockGet, UnlockDelete, UnlockFails, End
  <2> QED
    BY <1>f, <1>t, <2>1 DEF RestTypes
<1>5. ASSUME NEW r \in Runs, Cancel(r)  PROVE RestTypes'
  <2>1. /\ UNCHANGED <<blockDifferent, existing>> /\ leftSlots' \in {leftSlots, leftSlots \cup {JobOf[r]}}
        /\ faults.cancelled < MaxCancels /\ faults' = [faults EXCEPT !.cancelled = faults.cancelled + 1]
        /\ tasks' \in {tasks, [tasks EXCEPT ![JobOf[r]] = None]}
    BY <1>5 DEF Cancel, End
  <2>2. faults' \in [expired : 0..MaxExpired, failed : 0..MaxFails, cancelled : 0..MaxCancels]
    BY <1>0, <2>1 DEF RestTypes
  <2>3. leftSlots' \subseteq Jobs
    BY <1>0, <2>1 DEF RestTypes
  <2> QED
    BY <1>t, <2>1, <2>2, <2>3 DEF RestTypes
<1>6. ASSUME NEW k \in Keys, Expire(k)  PROVE RestTypes'
  <2>1. /\ UNCHANGED <<blockDifferent, existing, tasks, leftSlots>>
        /\ faults.expired < MaxExpired /\ faults' = [faults EXCEPT !.expired = faults.expired + 1]
    BY <1>6 DEF Expire, runVars
  <2>2. faults' \in [expired : 0..MaxExpired, failed : 0..MaxFails, cancelled : 0..MaxCancels]
    BY <1>0, <2>1 DEF RestTypes
  <2> QED
    BY <2>1, <2>2 DEF RestTypes
<1> QED
  BY <1>1, <1>2, <1>3, <1>4, <1>5, <1>6 DEF Next

\* Every run is at a place of its program, and locks, tasks and slots are of known jobs.
THEOREM RunTypeCorrect ==
  ASSUME WorkflowRunAssumption
  PROVE  Spec => []TypeOK
<1>1. Init => RestTypes
  BY DEF Init, RestTypes, WorkflowRunAssumption
<1>2. LockInv /\ RestTypes /\ [Next]_vars => RestTypes'
  BY RestStep
<1>3. LockInv /\ SlotInv /\ RestTypes => TypeOK
  BY DEF LockInv, LockTypes, SlotInv, RestTypes, TypeOK, Places, Early
<1> QED
  BY <1>1, <1>2, <1>3, LockInvHolds, SlotInvHolds, PTL DEF Spec

=============================================================================
