--------------------------- MODULE SsePublish_proofs ---------------------------
(***************************************************************************)
(* Proofs about SsePublish, for every set of jobs and inputs and every     *)
(* bound.                                                                  *)
(***************************************************************************)
EXTENDS SsePublish, SequenceTheorems, WellFoundedInduction, TLAPS

-----------------------------------------------------------------------------
(* Helpers *)

\* A set of naturals that is not empty has a smallest element.
LEMMA NatMin ==
  ASSUME NEW T \in SUBSET Nat, T # {}
  PROVE  \E m \in T : \A n \in T : m <= n
  <1> DEFINE R == OpToRel(<, Nat)
  <1>1. IsWellFoundedOn(R, Nat)
    BY NatLessThanWellFounded
  <1>2. \A x, y \in Nat : x < y => <<x, y>> \in R
    BY DEF OpToRel
  <1> HIDE DEF R
  <1>3. PICK x \in T : \A y \in T : ~ (<<y, x>> \in R)
    BY <1>1, WFMin
  <1>4. \A y \in T : x <= y
    <2> TAKE y \in T
    <2>1. x \in Nat /\ y \in Nat
      OBVIOUS
    <2>2. ~ (y < x)
      BY <1>2, <1>3, <2>1, Zenon
    <2> QED
      BY <2>1, <2>2
  <1> QED
    BY <1>4

QueueEntries == [pri : {-1, 0}, job : Jobs]

\* The priority queue has a best entry unless it is empty.
LEMMA BestEntryExists ==
  ASSUME queue \in Seq(QueueEntries), queue # <<>>
  PROVE  BestEntry \in DOMAIN queue
  <1> DEFINE Urgent == {i \in DOMAIN queue : queue[i].pri = -1}
             Best(i) == \A k \in DOMAIN queue :
                          queue[i].pri < queue[k].pri \/ (queue[i].pri = queue[k].pri /\ i <= k)
  <1>1. DOMAIN queue = 1..Len(queue) /\ Len(queue) \in Nat \ {0}
    BY EmptySeq
  <1>2. \A i \in DOMAIN queue : queue[i].pri \in {-1, 0}
    <2>1. \A i \in DOMAIN queue : queue[i] \in QueueEntries
      BY <1>1, ElementOfSeq
    <2> QED
      BY <2>1 DEF QueueEntries
  <1>3. \E i \in DOMAIN queue : Best(i)
    <2>1. CASE Urgent = {}
      BY <1>1, <1>2, <2>1
    <2>2. CASE Urgent # {}
      <3>1. PICK i \in Urgent : \A k \in Urgent : i <= k
        <4>1. Urgent \in SUBSET Nat
          BY <1>1
        <4> QED
          BY <2>2, <4>1, NatMin
      <3>2. i \in DOMAIN queue /\ queue[i].pri = -1
        OBVIOUS
      <3>3. ASSUME NEW k \in DOMAIN queue
            PROVE  queue[i].pri < queue[k].pri \/ (queue[i].pri = queue[k].pri /\ i <= k)
        <4>1. CASE queue[k].pri = -1
          BY <3>1, <3>2, <4>1
        <4>2. CASE queue[k].pri = 0
          BY <3>2, <4>2
        <4> QED
          BY <1>2, <4>1, <4>2
      <3> QED
        BY <3>2, <3>3
    <2> QED
      BY <2>1, <2>2
  <1> QED
    BY <1>3 DEF BestEntry

\* Taking an entry out leaves all others in the queue.
LEMMA WithoutKeeps ==
  ASSUME NEW S, NEW s \in Seq(S), NEW i \in DOMAIN s
  PROVE  /\ Without(s, i) \in Seq(S)
         /\ \A k \in DOMAIN s : k # i => \E m \in DOMAIN Without(s, i) : Without(s, i)[m] = s[k]
  <1> DEFINE a == SubSeq(s, 1, i - 1)
             b == SubSeq(s, i + 1, Len(s))
  <1>1. i \in 1..Len(s) /\ Len(s) \in Nat
    OBVIOUS
  <1>2. /\ a \in Seq(S) /\ Len(a) = i - 1
        /\ \A m \in 1..(i - 1) : a[m] = s[m]
    BY <1>1
  <1>3. /\ b \in Seq(S) /\ Len(b) = Len(s) - i
        /\ \A m \in 1..(Len(s) - i) : b[m] = s[i + m]
    BY <1>1
  <1> HIDE DEF a, b
  <1>4. /\ a \o b \in Seq(S)
        /\ DOMAIN (a \o b) = 1..(Len(s) - 1)
        /\ \A m \in 1..(Len(s) - 1) : (a \o b)[m] = IF m < i THEN s[m] ELSE s[m + 1]
    <2>0. a \in Seq(S) /\ b \in Seq(S)
      BY <1>2, <1>3
    <2>1. /\ a \o b \in Seq(S) /\ DOMAIN (a \o b) = 1..(Len(a) + Len(b))
          /\ \A m \in 1..(Len(a) + Len(b)) :
               (a \o b)[m] = IF m <= Len(a) THEN a[m] ELSE b[m - Len(a)]
      BY <2>0, ConcatProperties
    <2>2. Len(a) + Len(b) = Len(s) - 1
      BY <1>1, <1>2, <1>3
    <2>3. ASSUME NEW m \in 1..(Len(s) - 1)
          PROVE  (a \o b)[m] = IF m < i THEN s[m] ELSE s[m + 1]
      <3>1. CASE m < i
        <4>1. m \in 1..(i - 1)
          BY <1>1, <3>1
        <4>2. (a \o b)[m] = a[m]
          BY <1>1, <1>2, <2>1, <2>2, <4>1
        <4> QED
          BY <1>2, <3>1, <4>1, <4>2
      <3>2. CASE ~(m < i)
        <4>1. m - (i - 1) \in 1..(Len(s) - i) /\ i + (m - (i - 1)) = m + 1
          BY <1>1, <3>2
        <4>2. (a \o b)[m] = b[m - (i - 1)]
          <5>1. m \in 1..(Len(a) + Len(b)) /\ ~(m <= Len(a))
            BY <1>1, <1>2, <2>2, <3>2
          <5> QED
            BY <1>2, <2>1, <5>1
        <4> QED
          BY <1>3, <3>2, <4>1, <4>2
      <3> QED
        BY <3>1, <3>2
    <2> QED
      BY <2>1, <2>2, <2>3
  <1>5. ASSUME NEW k \in DOMAIN s, k # i
        PROVE  \E m \in DOMAIN (a \o b) : (a \o b)[m] = s[k]
    <2>1. CASE k < i
      <3>1. k \in 1..(Len(s) - 1)
        BY <1>1, <2>1
      <3> QED
        BY <1>4, <2>1, <3>1
    <2>2. CASE k > i
      <3>1. k - 1 \in 1..(Len(s) - 1) /\ ~(k - 1 < i) /\ (k - 1) + 1 = k
        BY <1>1, <2>2
      <3> QED
        BY <1>4, <3>1
    <2> QED
      BY <1>1, <1>5, <2>1, <2>2
  <1> QED
    BY <1>4, <1>5 DEF Without, a, b

\* Coalescing yields a payload, with the number of the newer one.
LEMMA CoalesceTyped ==
  ASSUME NEW old \in Payloads \cup {None}, NEW new \in Payloads
  PROVE  Coalesce(old, new) \in Payloads /\ Coalesce(old, new).seq = new.seq
BY DEF Coalesce, MergeCounters, Payloads, Terminalish

\* What the worker or a task that ends does with a payload for Redis: it waits behind
\* the task of its job, gets a task, or is dropped.
Places(j, p, tasks) ==
  \/ /\ \E t \in tasks : t.job = j
     /\ redisNext' = [redisNext EXCEPT ![j] = p]
     /\ sending' = tasks /\ lost' = lost
  \/ /\ \A t \in tasks : t.job # j
     /\ redisNext' = [redisNext EXCEPT ![j] = None]
     /\ \/ sending' = tasks \cup {[job |-> j, payload |-> p]} /\ lost' = lost
        \/ sending' = tasks /\ lost' = lost \cup {j}

LEMMA ScheduleRedisCases ==
  ASSUME NEW j, NEW p, NEW active, NEW tasks, ScheduleRedis(j, p, active, tasks)
  PROVE  Places(j, p, tasks)
BY DEF ScheduleRedis, Places

LEMMA ScheduleRedisTyped ==
  ASSUME TypeOK, NEW j \in Jobs, NEW p \in Payloads, NEW active,
         NEW tasks \in SUBSET [job : Jobs, payload : Payloads],
         ScheduleRedis(j, p, active, tasks)
  PROVE  /\ redisNext' \in [Jobs -> Payloads \cup {None}]
         /\ sending' \subseteq [job : Jobs, payload : Payloads]
         /\ lost' \subseteq Jobs
  <1> DEFINE t == [job |-> j, payload |-> p]
  <1>1. t \in [job : Jobs, payload : Payloads]
    OBVIOUS
  <1>2. /\ redisNext' = [redisNext EXCEPT ![j] = p] \/ redisNext' = [redisNext EXCEPT ![j] = None]
        /\ sending' = tasks \/ sending' = tasks \cup {t}
        /\ lost' = lost \/ lost' = lost \cup {j}
    BY ScheduleRedisCases DEF Places
  <1> HIDE DEF t
  <1>3. redisNext' \in [Jobs -> Payloads \cup {None}]
    BY <1>2 DEF TypeOK
  <1>4. sending' \subseteq [job : Jobs, payload : Payloads]
    BY <1>1, <1>2
  <1>5. lost' \subseteq Jobs
    BY <1>2 DEF TypeOK
  <1> QED
    BY <1>3, <1>4, <1>5

\* The worker takes an entry of some job, and its slot unless that is empty.
Takes(j) ==
  /\ held = None
  /\ slot' = [slot EXCEPT ![j] = None]
  /\ slotPri' = [slotPri EXCEPT ![j] = 0]
  /\ enqueued' = enqueued \ {j}
  /\ \/ slot[j] = None /\ UNCHANGED <<held, logVars>>
     \/ /\ slot[j] \in Payloads
        /\ held' = [job |-> j, payload |-> slot[j]]
        /\ logNext' = [logNext EXCEPT ![j] = slot[j]]
        /\ logTasks' = logTasks \cup {j}
        /\ UNCHANGED logWriting
  /\ UNCHANGED <<redisVars, seq, last, logged, sent, lost, skipped>>

LEMMA TakeEffect ==
  ASSUME TypeOK, WorkerTake
  PROVE  \E j \in Jobs :
           /\ Takes(j)
           /\ queue' \in Seq(QueueEntries)
           /\ \A i \in DOMAIN queue :
                queue[i].job # j => \E m \in DOMAIN queue' : queue'[m].job = queue[i].job
  <1> DEFINE j == queue[BestEntry].job
  <1>1. queue \in Seq(QueueEntries) /\ BestEntry \in DOMAIN queue
    BY BestEntryExists DEF WorkerTake, TypeOK, QueueEntries
  <1>2. queue[BestEntry] \in QueueEntries
    BY <1>1
  <1>3. j \in Jobs
    BY <1>2 DEF QueueEntries
  <1>4. /\ queue' \in Seq(QueueEntries)
        /\ \A i \in DOMAIN queue :
             queue[i].job # j => \E m \in DOMAIN queue' : queue'[m].job = queue[i].job
    BY <1>1, WithoutKeeps DEF WorkerTake
  <1> HIDE DEF j
  <1>5. slot[j] \in Payloads \cup {None}
    BY <1>3 DEF TypeOK
  <1>6. Takes(j)
    BY <1>5 DEF Takes, WorkerTake, ScheduleLog, j
  <1> QED
    BY <1>3, <1>4, <1>6

-----------------------------------------------------------------------------
(* Types *)

LEMMA TypeStep == TypeOK /\ [Next]_vars => TypeOK'
  <1> SUFFICES ASSUME TypeOK, [Next]_vars
               PROVE  TypeOK'
    OBVIOUS
  <1> USE DEF queueVars, logVars, redisVars
  <1>1. CASE UNCHANGED vars
    BY <1>1 DEF vars, TypeOK
  <1>2. ASSUME NEW j \in Jobs, NEW in \in Inputs, Enqueue(j, in)  PROVE TypeOK'
    <2> DEFINE new == [seq |-> seq + 1, status |-> in.status, rev |-> in.rev, count |-> in.count]
               entry == [pri |-> in.pri, job |-> j]
    <2>1. /\ new \in Payloads /\ in.pri \in {-1, 0} /\ entry \in QueueEntries
          /\ seq + 1 \in 0..MaxSeq
      BY <1>2, ConstantsAssumption DEF Enqueue, TypeOK, Payloads, QueueEntries
    <2>2. Coalesce(slot[j], new) \in Payloads
      BY <2>1, CoalesceTyped DEF TypeOK
    <2>3. queue' \in Seq(QueueEntries)
      BY <1>2, <2>1, AppendProperties DEF Enqueue, TypeOK, QueueEntries
    <2> HIDE DEF new, entry
    <2>4. slot' \in [Jobs -> Payloads \cup {None}]
      BY <1>2, <2>2 DEF Enqueue, TypeOK, new
    <2>5. slotPri' \in [Jobs -> {-1, 0}] /\ seq' \in 0..MaxSeq /\ last' \in [Jobs -> 0..MaxSeq]
      BY <1>2, <2>1 DEF Enqueue, TypeOK
    <2> QED
      BY <1>2, <2>3, <2>4, <2>5 DEF Enqueue, TypeOK, QueueEntries
  <1>3. CASE WorkerTake
    <2>1. PICK j \in Jobs : Takes(j) /\ queue' \in Seq(QueueEntries)
      BY <1>3, TakeEffect
    <2>2. /\ slot' \in [Jobs -> Payloads \cup {None}] /\ slotPri' \in [Jobs -> {-1, 0}]
          /\ enqueued' \subseteq Jobs
      BY <2>1 DEF Takes, TypeOK
    <2>3. /\ held' \in [job : Jobs, payload : Payloads] \cup {None}
          /\ logNext' \in [Jobs -> Payloads \cup {None}]
          /\ logTasks' \subseteq Jobs
          /\ logWriting' \in [Jobs -> Payloads \cup {None}]
      <3>1. CASE slot[j] = None
        BY <2>1, <3>1, ConstantsAssumption DEF Takes, TypeOK
      <3>2. CASE slot[j] # None
        <4>1. /\ slot[j] \in Payloads
              /\ held' = [job |-> j, payload |-> slot[j]]
              /\ logNext' = [logNext EXCEPT ![j] = slot[j]]
              /\ logTasks' = logTasks \cup {j} /\ logWriting' = logWriting
          BY <2>1, <3>2 DEF Takes
        <4> QED
          BY <4>1 DEF TypeOK
      <3> QED
        BY <3>1, <3>2
    <2> QED
      BY <2>1, <2>2, <2>3 DEF Takes, TypeOK, QueueEntries
  <1>4. CASE WorkerPublish
    <2>1. held.job \in Jobs /\ held.payload \in Payloads
      BY <1>4 DEF WorkerPublish, TypeOK
    <2>2. /\ redisNext' \in [Jobs -> Payloads \cup {None}]
          /\ sending' \subseteq [job : Jobs, payload : Payloads]
          /\ lost' \subseteq Jobs
      BY <1>4, <2>1, ScheduleRedisTyped DEF WorkerPublish, TypeOK
    <2> QED
      BY <1>4, <2>1, <2>2 DEF WorkerPublish, TypeOK
  <1>5. ASSUME NEW j \in Jobs, LogStart(j)  PROVE TypeOK'
    BY <1>5 DEF LogStart, LogNext, TypeOK
  <1>6. ASSUME NEW j \in Jobs, NEW ok \in BOOLEAN, LogWrite(j, ok)  PROVE TypeOK'
    <2>1. logWriting[j] \in Payloads /\ logWriting[j].seq \in 0..MaxSeq
      BY <1>6 DEF LogWrite, TypeOK, Payloads
    <2> QED
      BY <1>6, <2>1 DEF LogWrite, LogNext, TypeOK
  <1>7. ASSUME NEW t \in sending, NEW ok \in BOOLEAN, SendEnd(t, ok)  PROVE TypeOK'
    <2>1. t.job \in Jobs /\ t.payload \in Payloads /\ t.payload.seq \in 0..MaxSeq
      BY DEF TypeOK, Payloads
    <2>2. sent' \in [Jobs -> 0..MaxSeq]
      BY <1>7, <2>1 DEF SendEnd, TypeOK
    <2>3. /\ redisNext' \in [Jobs -> Payloads \cup {None}]
          /\ sending' \subseteq [job : Jobs, payload : Payloads]
          /\ lost' \subseteq Jobs
      <3>1. CASE redisNext[t.job] = None
        BY <1>7, <2>1, <3>1 DEF SendEnd, TypeOK
      <3>2. CASE redisNext[t.job] # None
        <4>1. redisNext[t.job] \in Payloads /\ sending \ {t} \in SUBSET [job : Jobs, payload : Payloads]
          BY <2>1, <3>2 DEF TypeOK
        <4> QED
          BY <1>7, <2>1, <3>2, <4>1, ScheduleRedisTyped DEF SendEnd
      <3> QED
        BY <3>1, <3>2
    <2> QED
      BY <1>7, <2>2, <2>3 DEF SendEnd, TypeOK
  <1> QED
    BY <1>1, <1>2, <1>3, <1>4, <1>5, <1>6, <1>7 DEF Next

\* Type correctness of the queue, for every value of the constants.
THEOREM TypeCorrect == Spec => []TypeOK
  <1>1. Init => TypeOK
    BY ConstantsAssumption DEF Init, TypeOK
  <1> QED
    BY <1>1, TypeStep, PTL DEF Spec

-----------------------------------------------------------------------------
(* A payload that waits is found *)

LEMMA WakeupStep == TypeOK /\ NoLostWakeup /\ [Next]_vars => NoLostWakeup'
  <1> SUFFICES ASSUME TypeOK, NoLostWakeup, [Next]_vars
               PROVE  NoLostWakeup'
    OBVIOUS
  <1>1. CASE UNCHANGED queueVars
    BY <1>1 DEF queueVars, NoLostWakeup
  <1>2. ASSUME NEW j \in Jobs, NEW in \in Inputs, Enqueue(j, in)  PROVE NoLostWakeup'
    <2> DEFINE new == [seq |-> seq + 1, status |-> in.status, rev |-> in.rev, count |-> in.count]
               entry == [pri |-> in.pri, job |-> j]
    <2>1. new \in Payloads /\ entry \in QueueEntries
      BY <1>2, ConstantsAssumption DEF Enqueue, TypeOK, Payloads, QueueEntries
    <2>2. Coalesce(slot[j], new) # None
      <3>1. slot[j] \in Payloads \cup {None}
        BY DEF TypeOK
      <3> QED
        BY <2>1, <3>1, CoalesceTyped, ConstantsAssumption
    <2>3. \A k \in Jobs : slot'[k] # None <=> k \in enqueued'
      BY <1>2, <2>2 DEF Enqueue, TypeOK, NoLostWakeup
    <2> HIDE DEF new
    <2>4. queue \in Seq(QueueEntries)
      BY DEF TypeOK, QueueEntries
    <2>5. /\ DOMAIN Append(queue, entry) = 1..(Len(queue) + 1)
          /\ Append(queue, entry)[Len(queue) + 1] = entry
          /\ \A i \in DOMAIN queue :
               i \in 1..(Len(queue) + 1) /\ Append(queue, entry)[i] = queue[i]
      BY <2>1, <2>4, AppendProperties
    <2>6. Len(queue) + 1 \in 1..(Len(queue) + 1)
      BY <2>4
    <2>7. ASSUME NEW k \in Jobs, k \in enqueued'
          PROVE  \E i \in DOMAIN queue' : queue'[i].job = k
      <3>1. CASE j \in enqueued /\ in.pri >= slotPri[j]
        BY <1>2, <2>7, <3>1 DEF Enqueue, NoLostWakeup
      <3>2. CASE ~(j \in enqueued /\ in.pri >= slotPri[j])
        <4>1. queue' = Append(queue, entry)
          BY <1>2, <3>2 DEF Enqueue
        <4>2. CASE k = j
          BY <2>5, <2>6, <4>1, <4>2
        <4>3. CASE k # j
          BY <1>2, <2>5, <2>7, <4>1, <4>3 DEF Enqueue, NoLostWakeup
        <4> QED
          BY <4>2, <4>3
      <3> QED
        BY <3>1, <3>2
    <2> QED
      BY <2>3, <2>7 DEF NoLostWakeup
  <1>3. CASE WorkerTake
    <2>1. PICK j \in Jobs :
            /\ Takes(j)
            /\ \A i \in DOMAIN queue :
                 queue[i].job # j => \E m \in DOMAIN queue' : queue'[m].job = queue[i].job
      BY <1>3, TakeEffect
    <2>2. \A k \in Jobs : slot'[k] = IF k = j THEN None ELSE slot[k]
      BY <2>1 DEF Takes, TypeOK
    <2>3. enqueued' = enqueued \ {j}
      BY <2>1 DEF Takes
    <2>4. ASSUME NEW k \in Jobs, k \in enqueued'
          PROVE  \E i \in DOMAIN queue' : queue'[i].job = k
      <3>1. PICK i \in DOMAIN queue : queue[i].job = k
        BY <2>3, <2>4 DEF NoLostWakeup
      <3> QED
        BY <2>1, <2>3, <2>4, <3>1
    <2> QED
      BY <2>2, <2>3, <2>4 DEF NoLostWakeup
  <1> QED
    BY <1>1, <1>2, <1>3
      DEF Next, vars, queueVars, WorkerPublish, LogStart, LogWrite, SendEnd

\* Coalescing, re-queueing with a better priority and stale entries of
\* sse_publish_queue never leave a payload in a slot that no queue entry leads to.
THEOREM NoWakeupIsLost == Spec => []NoLostWakeup
  <1>1. Init => NoLostWakeup
    BY DEF Init, NoLostWakeup
  <1> QED
    BY <1>1, TypeCorrect, WakeupStep, PTL DEF Spec

-----------------------------------------------------------------------------
(* A slot keeps what is known *)

SlotSnapshot ==
  \A j \in Jobs : slot[j] # None =>
    \E in \in Inputs : in.rev = slot[j].rev /\ in.count = slot[j].count

\* Coalescing keeps a known revision, its counters and a terminal status.
LEMMA CoalesceKeeps ==
  ASSUME NEW old \in Payloads, NEW new \in Payloads
  PROVE  LET c == Coalesce(old, new) IN
         /\ old.rev >= 0 /\ c.rev >= 0 => old.rev <= c.rev
         /\ \/ c.rev = old.rev /\ c.count = old.count
            \/ c.rev = new.rev /\ c.count = new.count
         /\ Terminalish(old) => Terminalish(c)
BY ConstantsAssumption DEF Coalesce, MergeCounters, Payloads, Terminalish, NoRev

\* What one step may do to a waiting payload.
SlotProgress ==
  \A j \in Jobs :
    LET old == slot[j]  new == slot'[j] IN
    old # None /\ new # None =>
      /\ old.rev >= 0 /\ new.rev >= 0 => old.rev <= new.rev
      /\ \E in \in Inputs : in.rev = new.rev /\ in.count = new.count
      /\ Terminalish(old) => Terminalish(new)

LEMMA SlotStep ==
  TypeOK /\ SlotSnapshot /\ [Next]_vars => SlotSnapshot' /\ SlotProgress
  <1> SUFFICES ASSUME TypeOK, SlotSnapshot, [Next]_vars
               PROVE  SlotSnapshot' /\ SlotProgress
    OBVIOUS
  <1>1. CASE UNCHANGED slot
    <2>1. \A j \in Jobs : slot[j] # None => slot[j].rev \in Int
      BY DEF TypeOK, Payloads, NoRev
    <2> QED
      BY <1>1, <2>1 DEF SlotSnapshot, SlotProgress, Terminalish
  <1>2. ASSUME NEW j \in Jobs, NEW in \in Inputs, Enqueue(j, in)
        PROVE  SlotSnapshot' /\ SlotProgress
    <2> DEFINE new == [seq |-> seq + 1, status |-> in.status, rev |-> in.rev, count |-> in.count]
    <2>1. new \in Payloads /\ new.rev = in.rev /\ new.count = in.count
      BY <1>2, ConstantsAssumption DEF Enqueue, TypeOK, Payloads
    <2> HIDE DEF new
    <2>2. slot' = [slot EXCEPT ![j] = Coalesce(slot[j], new)]
      BY <1>2 DEF Enqueue, new
    <2>3. \A k \in Jobs : slot[k] \in Payloads \cup {None}
      BY DEF TypeOK
    <2>4. \A k \in Jobs : slot[k] # None => slot[k].rev \in Int
      BY DEF TypeOK, Payloads, NoRev
    <2>5. \A k \in Jobs \ {j} : slot'[k] = slot[k]
      BY <2>2 DEF TypeOK
    <2>6. slot'[j] = Coalesce(slot[j], new)
      BY <2>2 DEF TypeOK
    <2>7. CASE slot[j] = None
      <3>1. slot'[j] = new
        BY <2>6, <2>7 DEF Coalesce
      <3> QED
        BY <2>1, <2>4, <2>5, <2>7, <3>1 DEF SlotSnapshot, SlotProgress
    <2>8. CASE slot[j] # None
      <3>1. /\ slot[j].rev >= 0 /\ slot'[j].rev >= 0 => slot[j].rev <= slot'[j].rev
            /\ \/ slot'[j].rev = slot[j].rev /\ slot'[j].count = slot[j].count
               \/ slot'[j].rev = new.rev /\ slot'[j].count = new.count
            /\ Terminalish(slot[j]) => Terminalish(slot'[j])
        BY <2>1, <2>3, <2>6, <2>8, CoalesceKeeps
      <3>2. \E i \in Inputs : i.rev = slot'[j].rev /\ i.count = slot'[j].count
        BY <2>1, <2>8, <3>1 DEF SlotSnapshot
      <3> QED
        BY <2>4, <2>5, <3>1, <3>2 DEF SlotSnapshot, SlotProgress
    <2> QED
      BY <2>7, <2>8
  <1>3. CASE WorkerTake
    <2>1. PICK j \in Jobs : slot' = [slot EXCEPT ![j] = None]
      BY <1>3, TakeEffect DEF Takes
    <2>2. \A k \in Jobs : slot'[k] # None => slot'[k] = slot[k]
      BY <2>1 DEF TypeOK
    <2>3. \A k \in Jobs : slot[k] # None => slot[k].rev \in Int
      BY DEF TypeOK, Payloads, NoRev
    <2> QED
      BY <2>2, <2>3 DEF SlotSnapshot, SlotProgress
  <1> QED
    BY <1>1, <1>2, <1>3
      DEF Next, vars, queueVars, WorkerPublish, LogStart, LogWrite, SendEnd

\* enqueue_sse_message: while a payload waits, newer ones never lower a known
\* revision, tear counters from their revision, or undo a terminal status.
THEOREM SlotsKeepProgress == Spec => SlotKeepsProgress
  <1>1. Init => SlotSnapshot
    BY DEF Init, SlotSnapshot
  <1>2. Spec => []SlotSnapshot
    BY <1>1, TypeCorrect, SlotStep, PTL DEF Spec
  <1>3. TypeOK /\ SlotSnapshot /\ [Next]_vars => [SlotProgress]_vars
    BY SlotStep
  <1>4. Spec => [][SlotProgress]_vars
    BY <1>2, <1>3, TypeCorrect, PTL DEF Spec
  <1> QED
    BY <1>4 DEF SlotKeepsProgress, SlotProgress

-----------------------------------------------------------------------------
(* The order of the sends *)

HeldOf(j) == held # None /\ held.job = j

\* Everything of job j that left the slot, the worker or both is older than n.
SentBefore(j, n) ==
  sent[j] < n /\ \A t \in sending : t.job = j => t.payload.seq < n
RedisBefore(j, n) ==
  SentBefore(j, n) /\ (redisNext[j] # None => redisNext[j].seq < n)
HeldBefore(j, n) ==
  RedisBefore(j, n) /\ (HeldOf(j) => held.payload.seq < n)

\* Along slot, worker, coalescing place, task and sent the numbers decrease.
OrderedAt(j) ==
  /\ \A t \in sending : t.job = j => sent[j] < t.payload.seq
  /\ redisNext[j] # None => SentBefore(j, redisNext[j].seq)
  /\ HeldOf(j) => RedisBefore(j, held.payload.seq)
  /\ slot[j] # None => HeldBefore(j, slot[j].seq) /\ slot[j].seq = last[j]
  /\ HeldBefore(j, last[j] + 1)
  /\ last[j] <= seq

\* A job has one publish task at a time.
OneTask == \A t, u \in sending : t.job = u.job => t = u

Ordered == OneTask /\ \A j \in Jobs : OrderedAt(j)

\* Unless something of the job was lost, its newest payload is in some stage.
NewestAt(j) ==
  \/ slot[j] # None
  \/ HeldOf(j) /\ held.payload.seq = last[j]
  \/ redisNext[j] # None /\ redisNext[j].seq = last[j]
  \/ \E t \in sending : t.job = j /\ t.payload.seq = last[j]
  \/ sent[j] = last[j]
Newest == \A j \in Jobs \ lost : NewestAt(j)

\* The step leaves everything of job k on its way to Redis where it was.
Same(k) ==
  /\ slot'[k] = slot[k] /\ redisNext'[k] = redisNext[k]
  /\ sent'[k] = sent[k] /\ last'[k] = last[k]
  /\ (HeldOf(k))' <=> HeldOf(k)
  /\ HeldOf(k) => held' = held
  /\ \A t \in sending : t.job = k => t \in sending'
  /\ \A t \in sending' : t.job = k => t \in sending
  /\ k \in lost' <=> k \in lost

LEMMA SameKeeps ==
  ASSUME NEW k \in Jobs, Same(k), OrderedAt(k), TypeOK, seq' = seq \/ seq' = seq + 1
  PROVE  OrderedAt(k)' /\ (NewestAt(k) => (NewestAt(k))') /\ sent[k] <= sent'[k]
  <1>1. seq \in Int /\ last[k] \in Int /\ sent[k] \in Int
    BY DEF TypeOK
  <1> QED
    BY <1>1 DEF Same, OrderedAt, NewestAt, HeldBefore, RedisBefore, SentBefore

LEMMA NumbersTyped ==
  ASSUME TypeOK, NEW j \in Jobs
  PROVE  /\ seq \in Int /\ last[j] \in Int /\ sent[j] \in Int
         /\ \A t \in sending : t.payload.seq \in Int
         /\ redisNext[j] # None => redisNext[j].seq \in Int
         /\ HeldOf(j) => held.payload.seq \in Int
         /\ slot[j] # None => slot[j].seq \in Int
BY DEF TypeOK, Payloads, HeldOf

LEMMA BeforeMonotone ==
  ASSUME TypeOK, NEW j \in Jobs, NEW m \in Int, NEW n \in Int, m <= n, HeldBefore(j, m)
  PROVE  HeldBefore(j, n)
  <1>1. \A x \in Int : x < m => x < n
    OBVIOUS
  <1> QED
    BY <1>1, NumbersTyped DEF HeldBefore, RedisBefore, SentBefore

LEMMA OrderStep ==
  TypeOK /\ Ordered /\ [Next]_vars
    => Ordered' /\ (Newest => Newest') /\ \A j \in Jobs : sent[j] <= sent'[j]
  <1> SUFFICES ASSUME TypeOK, Ordered, [Next]_vars
               PROVE  Ordered' /\ (Newest => Newest') /\ \A j \in Jobs : sent[j] <= sent'[j]
    OBVIOUS
  <1> DEFINE Goal(k) == OrderedAt(k)' /\ (k \notin lost' /\ Newest => (NewestAt(k))') /\ sent[k] <= sent'[k]
  <1>t. TypeOK'
    BY TypeStep
  <1>s. ASSUME NEW k \in Jobs, Same(k), seq' = seq \/ seq' = seq + 1  PROVE Goal(k)
    BY <1>s, SameKeeps DEF Ordered, Newest, Same
  <1>g. ASSUME OneTask', \A k \in Jobs : Goal(k)
        PROVE  Ordered' /\ (Newest => Newest') /\ \A j \in Jobs : sent[j] <= sent'[j]
    BY <1>g DEF Ordered, Newest
  <1> HIDE DEF Goal
  <1>1. CASE UNCHANGED <<queueVars, held, redisVars, seq, last, sent, lost>>
    <2>1. \A k \in Jobs : Same(k)
      BY <1>1 DEF Same, HeldOf, queueVars, redisVars
    <2>2. OneTask' /\ seq' = seq
      BY <1>1 DEF Ordered, OneTask, redisVars
    <2> QED
      BY <1>s, <1>g, <2>1, <2>2
  <1>2. ASSUME NEW j \in Jobs, NEW in \in Inputs, Enqueue(j, in)
        PROVE  Ordered' /\ (Newest => Newest') /\ \A k \in Jobs : sent[k] <= sent'[k]
    <2>1. /\ slot'[j] \in Payloads /\ slot'[j].seq = seq + 1 /\ slot'[j] # None
      <3> DEFINE new == [seq |-> seq + 1, status |-> in.status, rev |-> in.rev, count |-> in.count]
      <3>1. new \in Payloads /\ new.seq = seq + 1
        BY <1>2, ConstantsAssumption DEF Enqueue, TypeOK, Payloads
      <3> HIDE DEF new
      <3>2. slot' = [slot EXCEPT ![j] = Coalesce(slot[j], new)]
        BY <1>2 DEF Enqueue, new
      <3>3. slot[j] \in Payloads \cup {None} /\ slot'[j] = Coalesce(slot[j], new)
        BY <3>2 DEF TypeOK
      <3> QED
        BY <3>1, <3>3, CoalesceTyped, ConstantsAssumption
    <2>2. /\ \A k \in Jobs \ {j} : slot'[k] = slot[k] /\ last'[k] = last[k]
          /\ last'[j] = seq + 1 /\ seq' = seq + 1
          /\ UNCHANGED <<held, redisVars, sent, lost>>
      BY <1>2 DEF Enqueue, TypeOK
    <2>3. \A k \in Jobs \ {j} : Goal(k)
      <3>1. \A k \in Jobs \ {j} : Same(k)
        BY <2>2 DEF Same, HeldOf, redisVars
      <3> QED
        BY <1>s, <2>2, <3>1
    <2>4. Goal(j)
      <3>1. seq \in Int /\ last[j] \in Int /\ sent[j] \in Int
        BY DEF TypeOK
      <3>2. OrderedAt(j)
        BY DEF Ordered
      <3>3. sending' = sending /\ redisNext' = redisNext /\ held' = held /\ sent' = sent
        BY <2>2 DEF redisVars
      <3>4. /\ HeldBefore(j, seq + 1)
            /\ HeldBefore(j, seq + 2)
        <4>1. HeldBefore(j, last[j] + 1) /\ last[j] <= seq
          BY <3>2 DEF OrderedAt
        <4>2. /\ last[j] + 1 \in Int /\ seq + 1 \in Int /\ seq + 2 \in Int
              /\ last[j] + 1 <= seq + 1 /\ last[j] + 1 <= seq + 2
          BY <3>1, <4>1
        <4> QED
          BY <4>1, <4>2, BeforeMonotone
      <3>5. OrderedAt(j)'
        <4>1. (seq + 1) + 1 = seq + 2 /\ seq + 1 <= seq + 1
          BY <3>1
        <4>2. (HeldBefore(j, slot[j].seq))' /\ (HeldBefore(j, last[j] + 1))'
          BY <2>1, <2>2, <3>3, <3>4, <4>1 DEF HeldBefore, RedisBefore, SentBefore, HeldOf
        <4>3. /\ \A t \in sending' : t.job = j => sent'[j] < t.payload.seq
              /\ redisNext'[j] # None => (SentBefore(j, redisNext[j].seq))'
              /\ (HeldOf(j))' => (RedisBefore(j, held.payload.seq))'
          BY <3>2, <3>3 DEF OrderedAt, RedisBefore, SentBefore, HeldOf
        <4> QED
          BY <2>1, <2>2, <4>1, <4>2, <4>3 DEF OrderedAt
      <3>6. (NewestAt(j))' /\ sent[j] <= sent'[j]
        BY <2>1, <3>1, <3>3 DEF NewestAt
      <3> QED
        BY <3>5, <3>6 DEF Goal
    <2>5. OneTask'
      BY <2>2 DEF Ordered, OneTask, redisVars
    <2> QED
      BY <1>g, <2>3, <2>4, <2>5
  <1>3. CASE WorkerTake
    <2>1. PICK j \in Jobs : Takes(j)
      BY <1>3, TakeEffect
    <2>2. /\ slot' = [slot EXCEPT ![j] = None] /\ held = None
          /\ UNCHANGED <<redisVars, seq, last, sent, lost>>
          /\ \/ slot[j] = None /\ held' = held
             \/ slot[j] \in Payloads /\ held' = [job |-> j, payload |-> slot[j]]
      BY <2>1 DEF Takes
    <2>3. \A k \in Jobs \ {j} : Goal(k)
      <3>1. \A k \in Jobs \ {j} : Same(k)
        BY <2>2 DEF Same, HeldOf, redisVars, TypeOK
      <3> QED
        BY <1>s, <2>2, <3>1
    <2>4. Goal(j)
      <3>1. slot'[j] = None
        BY <2>2 DEF TypeOK
      <3>2. CASE slot[j] = None
        <4>1. Same(j)
          BY <2>2, <3>1, <3>2, ConstantsAssumption DEF Same, HeldOf, redisVars
        <4> QED
          BY <1>s, <2>2, <4>1
      <3>3. CASE slot[j] # None
        <4>1. OrderedAt(j) /\ sent[j] \in Int
          BY DEF Ordered, TypeOK
        <4>2. held' # None /\ held'.job = j /\ held'.payload = slot[j]
          BY <2>2, <3>3, ConstantsAssumption
        <4>3. sending' = sending /\ redisNext' = redisNext /\ sent' = sent /\ last' = last /\ seq' = seq
          BY <2>2 DEF redisVars
        <4>4. OrderedAt(j)'
          <5>1. HeldBefore(j, slot[j].seq) /\ slot[j].seq = last[j] /\ HeldBefore(j, last[j] + 1)
            BY <3>3, <4>1 DEF OrderedAt
          <5>2. (HeldOf(j))' => (RedisBefore(j, held.payload.seq))'
            BY <4>2, <4>3, <5>1 DEF HeldBefore, RedisBefore, SentBefore
          <5>3. (HeldBefore(j, last[j] + 1))'
            BY <4>2, <4>3, <5>1, NumbersTyped DEF HeldBefore, RedisBefore, SentBefore
          <5>4. /\ \A t \in sending' : t.job = j => sent'[j] < t.payload.seq
                /\ redisNext'[j] # None => (SentBefore(j, redisNext[j].seq))'
            BY <4>1, <4>3 DEF OrderedAt, SentBefore
          <5> QED
            BY <3>1, <4>1, <4>3, <5>2, <5>3, <5>4 DEF OrderedAt
        <4>5. (NewestAt(j))' /\ sent[j] <= sent'[j]
          BY <3>3, <4>1, <4>2, <4>3 DEF NewestAt, OrderedAt, HeldOf
        <4> QED
          BY <4>4, <4>5 DEF Goal
      <3> QED
        BY <3>2, <3>3
    <2>5. OneTask'
      BY <2>2 DEF Ordered, OneTask, redisVars
    <2> QED
      BY <1>g, <2>3, <2>4, <2>5
  <1>4. CASE WorkerPublish
    <2>1. PICK j \in Jobs, p \in Payloads :
            /\ j = held.job /\ p = held.payload /\ held # None /\ p # None
      BY <1>4, ConstantsAssumption DEF WorkerPublish, TypeOK
    <2>2. /\ Places(j, p, sending)
          /\ held' = None /\ UNCHANGED <<slot, seq, last, sent>>
      BY <1>4, <2>1, ScheduleRedisCases DEF WorkerPublish, queueVars
    <2>3. HeldOf(j) /\ held.payload = p
      BY <2>1 DEF HeldOf
    <2>4. \A k \in Jobs \ {j} : ~HeldOf(k)
      BY <2>1 DEF HeldOf
    <2>5. \A k \in Jobs \ {j} : Goal(k)
      <3>1. ASSUME NEW k \in Jobs \ {j}  PROVE Same(k)
        BY <2>2, <2>4, <3>1 DEF Same, HeldOf, Places, TypeOK
      <3> QED
        BY <1>s, <2>2, <3>1
    <2>6. /\ OrderedAt(j) /\ RedisBefore(j, p.seq) /\ p.seq \in Int
          /\ slot[j] # None => p.seq < slot[j].seq
          /\ p.seq < last[j] + 1
      BY <2>1, <2>3 DEF Ordered, OrderedAt, HeldBefore, Payloads
    <2>7. ASSUME \A t \in sending' : t.job = j => sent[j] < t.payload.seq,
                 redisNext'[j] # None => redisNext'[j] = p /\ (SentBefore(j, p.seq))',
                 \A t \in sending' : t.job = j => t \in sending \/ t.payload = p
          PROVE  OrderedAt(j)'
      <3>1. ASSUME NEW n, HeldBefore(j, n), p.seq < n  PROVE (HeldBefore(j, n))'
        BY <2>2, <2>7, <3>1 DEF HeldBefore, RedisBefore, SentBefore, HeldOf
      <3> QED
        BY <2>2, <2>6, <2>7, <3>1 DEF OrderedAt, HeldOf
    <2>8. \/ redisNext'[j] = p \/ redisNext'[j] = None
      BY <2>1, <2>2 DEF Places, TypeOK
    <2>9. Goal(j) /\ OneTask'
      <3>1. CASE \E t \in sending : t.job = j
        <4>1. redisNext'[j] = p /\ sending' = sending
          BY <2>1, <2>2, <3>1 DEF Places, TypeOK
        <4>2. OrderedAt(j)'
          BY <2>2, <2>6, <2>7, <4>1 DEF OrderedAt, RedisBefore, SentBefore
        <4>3. NewestAt(j) => (NewestAt(j))'
          BY <2>1, <2>2, <2>3, <2>6, <4>1, NumbersTyped DEF NewestAt, OrderedAt, RedisBefore
        <4> QED
          BY <2>2, <4>1, <4>2, <4>3, NumbersTyped DEF Goal, Newest, Ordered, OneTask, Places
      <3>2. CASE \A t \in sending : t.job # j
        <4> DEFINE u == [job |-> j, payload |-> p]
        <4>1. /\ redisNext'[j] = None
              /\ \/ sending' = sending \cup {u} /\ lost' = lost
                 \/ sending' = sending /\ lost' = lost \cup {j}
          BY <2>2, <3>2 DEF Places, TypeOK
        <4>2. u.job = j /\ u.payload = p
          OBVIOUS
        <4> HIDE DEF u
        <4>3. OrderedAt(j)'
          BY <2>2, <2>6, <2>7, <3>2, <4>1, <4>2 DEF RedisBefore, SentBefore
        <4>4. NewestAt(j) => j \in lost' \/ (NewestAt(j))'
          BY <2>2, <2>3, <2>6, <3>2, <4>1, <4>2, NumbersTyped DEF NewestAt, RedisBefore, SentBefore
        <4>5. OneTask'
          BY <3>2, <4>1, <4>2 DEF Ordered, OneTask
        <4> QED
          BY <2>2, <4>1, <4>3, <4>4, <4>5, NumbersTyped DEF Goal, Newest
      <3> QED
        BY <3>1, <3>2
    <2> QED
      BY <1>g, <2>5, <2>9
  <1>5. ASSUME NEW t \in sending, NEW ok \in BOOLEAN, SendEnd(t, ok)
        PROVE  Ordered' /\ (Newest => Newest') /\ \A k \in Jobs : sent[k] <= sent'[k]
    <2> DEFINE j == t.job
               rest == sending \ {t}
    <2>1. j \in Jobs /\ t.payload.seq \in Int
      BY NumbersTyped DEF TypeOK
    <2>2. /\ \A u \in rest : u.job # j
          /\ \A u \in sending : u.job = j => u = t
      BY DEF Ordered, OneTask
    <2>3. /\ UNCHANGED <<slot, held, seq, last>>
          /\ sent' = IF ok THEN [sent EXCEPT ![j] = t.payload.seq] ELSE sent
          /\ redisNext'[j] = None
          /\ \A k \in Jobs \ {j} : redisNext'[k] = redisNext[k]
          /\ \/ /\ redisNext[j] = None /\ sending' = rest
                /\ (ok /\ lost' = lost) \/ (~ok /\ lost' = lost \cup {j})
             \/ /\ redisNext[j] # None
                /\ \/ sending' = rest \cup {[job |-> j, payload |-> redisNext[j]]} /\ lost' = lost
                   \/ sending' = rest /\ lost' = lost \cup {j}
      <3>1. CASE redisNext[j] = None
        <4>1. /\ sending' = rest /\ redisNext' = redisNext
              /\ lost' = IF ok THEN lost ELSE lost \cup {j}
          BY <1>5, <3>1 DEF SendEnd
        <4>2. UNCHANGED <<slot, held, seq, last>> /\ sent' = IF ok THEN [sent EXCEPT ![j] = t.payload.seq] ELSE sent
          BY <1>5 DEF SendEnd, queueVars
        <4>3. (ok /\ lost' = lost) \/ (~ok /\ lost' = lost \cup {j})
          BY <4>1
        <4>4. redisNext'[j] = None /\ \A k \in Jobs \ {j} : redisNext'[k] = redisNext[k]
          BY <3>1, <4>1
        <4> QED
          BY <3>1, <4>1, <4>2, <4>3, <4>4
      <3>2. CASE redisNext[j] # None
        <4>1. Places(j, redisNext[j], rest)
          BY <1>5, <3>2, ScheduleRedisCases DEF SendEnd
        <4>2. /\ redisNext' = [redisNext EXCEPT ![j] = None]
              /\ \/ sending' = rest \cup {[job |-> j, payload |-> redisNext[j]]} /\ lost' = lost
                 \/ sending' = rest /\ lost' = lost \cup {j}
          BY <2>2, <4>1 DEF Places
        <4> QED
          BY <1>5, <2>1, <3>2, <4>2 DEF SendEnd, queueVars, TypeOK
      <3> QED
        BY <3>1, <3>2
    <2>4. OrderedAt(j) /\ sent[j] < t.payload.seq
      BY <2>1 DEF Ordered, OrderedAt
    <2>5. sent'[j] = IF ok THEN t.payload.seq ELSE sent[j]
      BY <2>1, <2>3 DEF TypeOK
    <2>6. /\ \A u \in sending : u.job # j => u \in sending'
          /\ \A u \in sending' : u.job # j => u \in sending
          /\ \A u \in sending' : u.job = j => u.payload = redisNext[j] /\ redisNext[j] # None
          /\ \A u, v \in sending' : u.job = j /\ v.job = j => u = v
      BY <2>2, <2>3
    <2>7. sent[j] \in Int /\ last[j] \in Int /\ (redisNext[j] # None => redisNext[j].seq \in Int)
      BY <2>1, NumbersTyped
    <2> HIDE DEF rest
    <2>8. \A k \in Jobs \ {j} : Goal(k)
      <3>1. ASSUME NEW k \in Jobs \ {j}  PROVE Same(k)
        <4>1. sent'[k] = sent[k] /\ redisNext'[k] = redisNext[k] /\ (k \in lost' <=> k \in lost)
          BY <2>1, <2>3 DEF TypeOK
        <4> QED
          BY <2>3, <2>6, <3>1, <4>1 DEF Same, HeldOf
      <3> QED
        BY <1>s, <2>3, <3>1
    <2>9. OneTask'
      <3>1. ASSUME NEW u \in sending', NEW v \in sending', u.job = v.job  PROVE u = v
        BY <2>6, <3>1 DEF Ordered, OneTask
      <3> QED
        BY <3>1 DEF OneTask
    <2>10. ASSUME NEW n \in Int, RedisBefore(j, n)  PROVE (RedisBefore(j, n))'
      BY <2>3, <2>5, <2>6, <2>10 DEF RedisBefore, SentBefore
    <2>11. OrderedAt(j)'
      <3>1. \A u \in sending' : u.job = j => sent'[j] < u.payload.seq
        <4>1. redisNext[j] # None => sent[j] < redisNext[j].seq /\ t.payload.seq < redisNext[j].seq
          BY <2>4 DEF OrderedAt, SentBefore
        <4> QED
          BY <2>5, <2>6, <4>1
      <3>2. (HeldOf(j))' => (RedisBefore(j, held.payload.seq))'
        <4>1. HeldOf(j) => held.payload.seq \in Int /\ RedisBefore(j, held.payload.seq)
          BY <2>1, <2>4, NumbersTyped DEF OrderedAt
        <4> QED
          BY <2>3, <2>10, <4>1 DEF HeldOf, RedisBefore, SentBefore
      <3>3. ASSUME NEW n \in Int, HeldBefore(j, n)  PROVE (HeldBefore(j, n))'
        BY <2>3, <2>10, <3>3 DEF HeldBefore, HeldOf
      <3>4. slot'[j] # None => (HeldBefore(j, slot[j].seq))' /\ slot'[j].seq = last'[j]
        <4>1. slot[j] # None => slot[j].seq \in Int /\ HeldBefore(j, slot[j].seq) /\ slot[j].seq = last[j]
          BY <2>1, <2>4, NumbersTyped DEF OrderedAt
        <4>2. slot[j] # None => (HeldBefore(j, last[j]))'
          BY <2>7, <2>3, <3>3, <4>1
        <4> QED
          BY <2>3, <4>1, <4>2
      <3>5. (HeldBefore(j, last[j] + 1))' /\ last'[j] <= seq'
        BY <2>3, <2>4, <2>7, <3>3 DEF OrderedAt
      <3> QED
        BY <2>3, <3>1, <3>2, <3>4, <3>5 DEF OrderedAt
    <2>12. ASSUME NewestAt(j), j \notin lost'
           PROVE  (NewestAt(j))'
      <3> USE <2>12
      <3>1. t.payload.seq < last[j] + 1
        BY <2>1, <2>4 DEF OrderedAt, HeldBefore, RedisBefore, SentBefore
      <3>2. CASE slot[j] # None \/ (HeldOf(j) /\ held.payload.seq = last[j])
        BY <2>3, <3>2 DEF NewestAt, HeldOf
      <3>3. CASE redisNext[j] # None
        <4>1. redisNext[j].seq < last[j] + 1 /\ t.payload.seq < redisNext[j].seq /\ sent[j] < redisNext[j].seq
          BY <2>1, <2>4, <3>3 DEF OrderedAt, HeldBefore, RedisBefore, SentBefore
        <4>2. \A u \in sending : u.job = j => u.payload.seq < last[j]
          BY <2>1, <2>2, <2>7, <3>3, <4>1
        <4>3. redisNext[j].seq = last[j] \/ slot[j] # None \/ (HeldOf(j) /\ held.payload.seq = last[j])
          BY <2>7, <3>3, <4>1, <4>2 DEF NewestAt
        <4>4. [job |-> j, payload |-> redisNext[j]] \in sending'
          BY <2>3, <2>12, <3>3
        <4>5. CASE redisNext[j].seq = last[j]
          BY <2>3, <4>4, <4>5 DEF NewestAt
        <4> QED
          BY <3>2, <4>3, <4>5
      <3>4. CASE redisNext[j] = None /\ ~(slot[j] # None \/ (HeldOf(j) /\ held.payload.seq = last[j]))
        <4>1. t.payload.seq = last[j]
          BY <2>1, <2>2, <2>4, <2>7, <3>1, <3>4 DEF NewestAt
        <4>2. ok
          BY <2>3, <2>12, <3>4
        <4> QED
          BY <2>3, <2>5, <4>1, <4>2 DEF NewestAt
      <3> QED
        BY <3>2, <3>3, <3>4
    <2>13. sent[j] <= sent'[j]
      BY <2>1, <2>4, <2>5, <2>7
    <2>14. Goal(j)
      <3>1. j \notin lost' /\ Newest => NewestAt(j)
        <4>1. j \notin lost' => j \notin lost
          BY <2>3
        <4> QED
          BY <2>1, <4>1 DEF Newest
      <3> QED
        BY <2>11, <2>12, <2>13, <3>1 DEF Goal
    <2> QED
      BY <1>g, <2>8, <2>9, <2>14
  <1> QED
    BY <1>1, <1>2, <1>3, <1>4, <1>5 DEF Next, vars, queueVars, redisVars, LogStart, LogWrite

LEMMA OrderInit == Init => Ordered /\ Newest
BY ConstantsAssumption
  DEF Init, Ordered, Newest, OneTask, OrderedAt, NewestAt, HeldBefore, RedisBefore, SentBefore, HeldOf

THEOREM OrderHolds == Spec => [](Ordered /\ Newest)
  <1>1. TypeOK /\ (Ordered /\ Newest) /\ [Next]_vars => (Ordered /\ Newest)'
    BY OrderStep
  <1> QED
    BY <1>1, OrderInit, TypeCorrect, PTL DEF Spec

\* The Redis sends of a job keep the order in which its payloads were enqueued,
\* through the slot, the worker, the publish task and the second coalescing.
THEOREM SendsKeepOrder == Spec => SentInOrder
  <1> DEFINE Keeps == \A j \in Jobs : sent[j] <= sent'[j]
  <1>1. TypeOK /\ Ordered /\ [Next]_vars => [Keeps]_vars
    BY OrderStep
  <1>2. Spec => []Ordered
    BY OrderHolds, PTL
  <1>3. Spec => [][Keeps]_vars
    BY <1>1, <1>2, TypeCorrect, PTL DEF Spec
  <1> QED
    BY <1>3 DEF SentInOrder

\* A job with nothing queued, held, in flight or coalesced has sent its newest
\* payload, unless a send of it failed or the task limit dropped it.
THEOREM QuietJobsAreSent == Spec => []QuietMeansSent
  <1>1. Newest => QuietMeansSent
    BY DEF Newest, NewestAt, QuietMeansSent, Quiet, IdleReported, HeldOf
  <1> QED
    BY <1>1, OrderHolds, PTL

-----------------------------------------------------------------------------
(* The crawling log comes first *)

\* What the crawling log has, is writing and will write next is no newer than n.
LogUpTo(j, n) ==
  /\ logged[j] <= n
  /\ logWriting[j] # None => logWriting[j].seq <= n
  /\ logNext[j] # None => logNext[j].seq <= n

LogOrderedAt(j) ==
  /\ logWriting[j] # None => logged[j] <= logWriting[j].seq
  /\ logNext[j] # None => LogUpTo(j, logNext[j].seq)
  /\ LogUpTo(j, last[j])
  /\ logWriting[j] # None \/ logNext[j] # None => j \in logTasks

LoggedOrComing(j, n) ==
  \/ logged[j] >= n
  \/ logWriting[j] # None /\ logWriting[j].seq >= n
  \/ logNext[j] # None /\ logNext[j].seq >= n

\* The updater is ahead of the worker, and of what the worker handed on.
LogFirstAt(j) ==
  j \notin skipped =>
    /\ HeldOf(j) => LoggedOrComing(j, held.payload.seq)
    /\ redisNext[j] # None => logged[j] >= redisNext[j].seq
    /\ \A t \in sending : t.job = j => logged[j] >= t.payload.seq

LogFirst == \A j \in Jobs : LogOrderedAt(j) /\ LogFirstAt(j)

\* The step leaves the log of job k, and what is handed on of it, as they were.
SameLog(k) ==
  /\ logged'[k] = logged[k] /\ logWriting'[k] = logWriting[k] /\ logNext'[k] = logNext[k]
  /\ k \in logTasks => k \in logTasks'
  /\ last'[k] = last[k]
  /\ (HeldOf(k))' => HeldOf(k) /\ held' = held
  /\ redisNext'[k] # None => redisNext'[k] = redisNext[k]
  /\ \A t \in sending' : t.job = k =>
       t \in sending \/ (redisNext[k] # None /\ t.payload = redisNext[k])
  /\ k \in skipped => k \in skipped'

LEMMA SameLogKeeps ==
  ASSUME NEW k \in Jobs, SameLog(k), LogOrderedAt(k), LogFirstAt(k)
  PROVE  (LogOrderedAt(k))' /\ (LogFirstAt(k))'
  <1>1. (LogOrderedAt(k))'
    BY DEF SameLog, LogOrderedAt, LogUpTo
  <1>2. (LogFirstAt(k))'
    BY DEF SameLog, LogFirstAt, LoggedOrComing
  <1> QED
    BY <1>1, <1>2

LEMMA LogNumbersTyped ==
  ASSUME TypeOK, NEW j \in Jobs
  PROVE  /\ logged[j] \in Int /\ last[j] \in Int /\ seq \in Int
         /\ logWriting[j] # None => logWriting[j].seq \in Int
         /\ logNext[j] # None => logNext[j].seq \in Int
BY DEF TypeOK, Payloads

LEMMA LogStep == TypeOK /\ Ordered /\ LogFirst /\ [Next]_vars => LogFirst'
  <1> SUFFICES ASSUME TypeOK, Ordered, LogFirst, [Next]_vars
               PROVE  LogFirst'
    OBVIOUS
  <1> DEFINE Goal(k) == (LogOrderedAt(k))' /\ (LogFirstAt(k))'
  <1>s. ASSUME NEW k \in Jobs, SameLog(k)  PROVE Goal(k)
    BY <1>s, SameLogKeeps DEF LogFirst
  <1>g. ASSUME \A k \in Jobs : Goal(k)  PROVE LogFirst'
    BY <1>g DEF LogFirst
  <1>f. \A k \in Jobs : LogOrderedAt(k) /\ LogFirstAt(k)
    BY DEF LogFirst
  <1> HIDE DEF Goal
  <1>1. CASE UNCHANGED vars
    <2>1. \A k \in Jobs : SameLog(k)
      BY <1>1 DEF vars, SameLog, HeldOf
    <2> QED
      BY <1>s, <1>g, <2>1
  <1>2. ASSUME NEW j \in Jobs, NEW in \in Inputs, Enqueue(j, in)  PROVE LogFirst'
    <2>1. /\ last' = [last EXCEPT ![j] = seq + 1]
          /\ UNCHANGED <<held, logVars, redisVars, logged, skipped>>
      BY <1>2 DEF Enqueue
    <2>2. ASSUME NEW k \in Jobs, k # j  PROVE Goal(k)
      <3>1. SameLog(k)
        BY <2>1, <2>2 DEF SameLog, HeldOf, logVars, redisVars, TypeOK
      <3> QED
        BY <1>s, <3>1
    <2>3. Goal(j)
      <3>1. last'[j] = seq + 1
        BY <2>1 DEF TypeOK
      <3>2. LogUpTo(j, seq + 1)
        <4>1. LogUpTo(j, last[j]) /\ last[j] <= seq
          BY <1>f DEF LogOrderedAt, Ordered, OrderedAt
        <4> QED
          BY <4>1, LogNumbersTyped DEF LogUpTo
      <3>3. (LogOrderedAt(j))'
        BY <1>f, <2>1, <3>1, <3>2 DEF LogOrderedAt, LogUpTo, logVars
      <3>4. (LogFirstAt(j))'
        BY <1>f, <2>1 DEF LogFirstAt, LoggedOrComing, HeldOf, logVars, redisVars
      <3> QED
        BY <3>3, <3>4 DEF Goal
    <2> QED
      BY <1>g, <2>2, <2>3
  <1>3. CASE WorkerTake
    <2>1. PICK j \in Jobs : Takes(j)
      BY <1>3, TakeEffect
    <2>2. UNCHANGED <<sending, redisNext, last, logged, skipped>> /\ held = None
      BY <2>1 DEF Takes, redisVars
    <2>3. CASE slot[j] = None
      <3>1. UNCHANGED <<held, logNext, logTasks, logWriting>>
        BY <2>1, <2>3, ConstantsAssumption DEF Takes, logVars
      <3>2. \A k \in Jobs : SameLog(k)
        BY <2>2, <3>1 DEF SameLog, HeldOf
      <3> QED
        BY <1>s, <1>g, <3>2
    <2>4. CASE slot[j] # None
      <3>1. /\ slot[j] \in Payloads
            /\ held' = [job |-> j, payload |-> slot[j]]
            /\ logNext' = [logNext EXCEPT ![j] = slot[j]]
            /\ logTasks' = logTasks \cup {j} /\ logWriting' = logWriting
        BY <2>1, <2>4 DEF Takes
      <3>2. slot[j].seq = last[j] /\ slot[j].seq \in Int
        BY <2>4, NumbersTyped DEF Ordered, OrderedAt
      <3>3. held'.job = j /\ held'.payload = slot[j]
        BY <3>1
      <3>4. ASSUME NEW k \in Jobs, k # j  PROVE Goal(k)
        <4>1. SameLog(k)
          BY <2>2, <3>1, <3>3, <3>4 DEF SameLog, HeldOf, TypeOK
        <4> QED
          BY <1>s, <4>1
      <3>5. logNext'[j] = slot[j]
        BY <3>1 DEF TypeOK
      <3>6. (LogOrderedAt(j))'
        <4>1. LogUpTo(j, last[j])
          BY <1>f DEF LogOrderedAt
        <4>2. logWriting[j] # None => logged[j] <= logWriting[j].seq
          BY <1>f DEF LogOrderedAt
        <4> QED
          BY <2>2, <3>1, <3>2, <3>5, <4>1, <4>2 DEF LogOrderedAt, LogUpTo
      <3>7. (LogFirstAt(j))'
        BY <1>f, <2>2, <2>4, <3>1, <3>2, <3>3, <3>5 DEF LogFirstAt, LoggedOrComing
      <3> QED
        BY <1>g, <3>4, <3>6, <3>7 DEF Goal
    <2> QED
      BY <2>3, <2>4
  <1>4. CASE WorkerPublish
    <2>1. PICK j \in Jobs, p \in Payloads :
            /\ j = held.job /\ p = held.payload /\ held # None /\ p # None
      BY <1>4, ConstantsAssumption DEF WorkerPublish, TypeOK
    <2>2. /\ Places(j, p, sending)
          /\ held' = None /\ UNCHANGED <<last, logged, logNext, logTasks, logWriting>>
          /\ (j \notin logTasks /\ skipped' = skipped) \/ skipped' = skipped \cup {j}
      BY <1>4, <2>1, ScheduleRedisCases DEF WorkerPublish, logVars
    <2>3. /\ redisNext'[j] = p \/ redisNext'[j] = None
          /\ \A k \in Jobs \ {j} : redisNext'[k] = redisNext[k]
          /\ \A t \in sending' : t \in sending \/ (t.job = j /\ t.payload = p)
      <3>1. redisNext' = [redisNext EXCEPT ![j] = p] \/ redisNext' = [redisNext EXCEPT ![j] = None]
        BY <2>2 DEF Places
      <3>2. sending' = sending \/ sending' = sending \cup {[job |-> j, payload |-> p]}
        BY <2>2 DEF Places
      <3> QED
        BY <3>1, <3>2 DEF TypeOK
    <2>4. ASSUME NEW k \in Jobs, k # j  PROVE Goal(k)
      <3>1. SameLog(k)
        BY <2>2, <2>3, <2>4 DEF SameLog, HeldOf
      <3> QED
        BY <1>s, <3>1
    <2>5. (LogOrderedAt(j))'
      BY <1>f, <2>2 DEF LogOrderedAt, LogUpTo
    <2>6. (LogFirstAt(j))'
      <3>1. CASE j \in skipped'
        BY <3>1 DEF LogFirstAt
      <3>2. CASE j \notin skipped'
        <4>1. j \notin logTasks /\ j \notin skipped
          BY <2>2, <3>2
        <4>2. logged[j] >= p.seq
          BY <1>f, <2>1, <4>1 DEF LogOrderedAt, LogFirstAt, LoggedOrComing, HeldOf
        <4> QED
          BY <1>f, <2>2, <2>3, <4>1, <4>2 DEF LogFirstAt, HeldOf
      <3> QED
        BY <3>1, <3>2
    <2> QED
      BY <1>g, <2>4, <2>5, <2>6 DEF Goal
  <1>5. ASSUME NEW j \in Jobs, NEW ok \in BOOLEAN, LogStart(j) \/ LogWrite(j, ok)
        PROVE  LogFirst'
    <2>1. /\ LogNext(j) /\ UNCHANGED <<held, sending, redisNext, last>>
          /\ \/ logWriting[j] = None /\ UNCHANGED <<logged, skipped>>
             \/ logWriting[j] # None /\ logged' = [logged EXCEPT ![j] = logWriting[j].seq] /\ skipped' = skipped
             \/ logWriting[j] # None /\ logged' = logged /\ skipped' = skipped \cup {j}
      BY <1>5 DEF LogStart, LogWrite, redisVars
    <2>2. /\ logWriting'[j] = logNext[j] /\ logNext'[j] = None
          /\ \A k \in Jobs \ {j} : logWriting'[k] = logWriting[k] /\ logNext'[k] = logNext[k]
                                   /\ (k \in logTasks => k \in logTasks')
          /\ logNext[j] # None => logTasks' = logTasks
      BY <2>1 DEF LogNext, TypeOK
    <2>3. /\ \A k \in Jobs \ {j} : logged'[k] = logged[k]
          /\ \/ logWriting[j] = None /\ logged'[j] = logged[j]
             \/ logWriting[j] # None /\ logged'[j] = logWriting[j].seq
             \/ logWriting[j] # None /\ logged'[j] = logged[j] /\ j \in skipped'
          /\ skipped \subseteq skipped'
      BY <2>1 DEF TypeOK
    <2>4. ASSUME NEW k \in Jobs, k # j  PROVE Goal(k)
      <3>1. SameLog(k)
        BY <2>1, <2>2, <2>3, <2>4 DEF SameLog, HeldOf
      <3> QED
        BY <1>s, <3>1
    <2>5. logged[j] <= logged'[j] /\ logged'[j] \in Int
      BY <1>f, <2>3, LogNumbersTyped DEF LogOrderedAt
    <2>6. (LogOrderedAt(j))'
      BY <1>f, <2>1, <2>2, <2>3 DEF LogOrderedAt, LogUpTo
    <2>7. (LogFirstAt(j))'
      <3> SUFFICES ASSUME j \notin skipped'  PROVE (LogFirstAt(j))'
        BY DEF LogFirstAt
      <3>1. LogFirstAt(j) /\ j \notin skipped
        BY <1>f, <2>3
      <3>2. \A n \in Int : logged[j] >= n => logged'[j] >= n
        BY <2>5, LogNumbersTyped
      <3>3. (HeldOf(j))' => (LoggedOrComing(j, held.payload.seq))'
        BY <2>1, <2>2, <2>3, <3>1, <3>2, NumbersTyped DEF LogFirstAt, LoggedOrComing, HeldOf
      <3>4. /\ redisNext'[j] # None => logged'[j] >= redisNext'[j].seq
            /\ \A t \in sending' : t.job = j => logged'[j] >= t.payload.seq
        BY <2>1, <3>1, <3>2, NumbersTyped DEF LogFirstAt
      <3> QED
        BY <3>3, <3>4 DEF LogFirstAt
    <2> QED
      BY <1>g, <2>4, <2>6, <2>7 DEF Goal
  <1>6. ASSUME NEW t \in sending, NEW ok \in BOOLEAN, SendEnd(t, ok)  PROVE LogFirst'
    <2>1. /\ UNCHANGED <<held, logNext, logTasks, logWriting, last, logged, skipped>>
          /\ \/ redisNext' = redisNext /\ sending' = sending \ {t}
             \/ redisNext[t.job] # None /\ Places(t.job, redisNext[t.job], sending \ {t})
      BY <1>6, ScheduleRedisCases DEF SendEnd, logVars
    <2>2. ASSUME NEW k \in Jobs  PROVE SameLog(k)
      <3>1. CASE redisNext' = redisNext /\ sending' = sending \ {t}
        BY <2>1, <3>1 DEF SameLog, HeldOf
      <3>2. CASE redisNext[t.job] # None /\ Places(t.job, redisNext[t.job], sending \ {t})
        <4> DEFINE u == [job |-> t.job, payload |-> redisNext[t.job]]
        <4>1. /\ \/ redisNext' = [redisNext EXCEPT ![t.job] = redisNext[t.job]]
                 \/ redisNext' = [redisNext EXCEPT ![t.job] = None]
              /\ sending' \subseteq sending \cup {u}
          BY <3>2 DEF Places
        <4>2. redisNext'[k] # None => redisNext'[k] = redisNext[k]
          BY <4>1 DEF TypeOK
        <4>3. \A v \in sending' : v.job = k =>
                v \in sending \/ (redisNext[k] # None /\ v.payload = redisNext[k])
          BY <3>2, <4>1
        <4> QED
          BY <2>1, <4>2, <4>3 DEF SameLog, HeldOf
      <3> QED
        BY <2>1, <3>1, <3>2
    <2> QED
      BY <1>s, <1>g, <2>2
  <1> QED
    BY <1>1, <1>2, <1>3, <1>4, <1>5, <1>6 DEF Next

\* A payload goes to Redis only after the crawling log has it or a newer one,
\* unless the bounded wait for the updater ran out or the update failed.
THEOREM LogComesFirst == Spec => []LogBeforeSend
  <1>1. Init => LogFirst
    BY ConstantsAssumption
      DEF Init, LogFirst, LogOrderedAt, LogFirstAt, LogUpTo, HeldOf
  <1>2. Spec => []Ordered
    BY OrderHolds, PTL
  <1>3. TypeOK /\ LogFirst => LogBeforeSend
    BY DEF LogFirst, LogFirstAt, LogBeforeSend, TypeOK
  <1> QED
    BY <1>1, <1>2, <1>3, TypeCorrect, LogStep, PTL DEF Spec

=============================================================================
