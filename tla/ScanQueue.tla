----------------------------- MODULE ScanQueue -----------------------------
(***************************************************************************)
(* PriorityScanQueue of core/crawler/queues.py: two bounded asyncio queues *)
(* behind one queue interface, with its own count of unfinished items.     *)
(* A get that finds both lanes empty starts one task per lane and waits    *)
(* for the first of them; scan workers call it under asyncio.wait_for, so  *)
(* that wait may be cut off at any moment.                                 *)
(***************************************************************************)
EXTENDS Integers, Sequences, FiniteSets, SequencesExt

CONSTANTS
  Items,        \* URL items, each put once
  HighItems,    \* those _is_high_priority_url accepts
  Workers,      \* scan workers
  None,
  Capacity,     \* lane_maxsize
  HighRatio,    \* SCAN_QUEUE_HIGH_RATIO
  MaxOrphans    \* bound: lane tasks left behind by timed-out gets, per lane

ConstantsAssumption ==
  /\ HighItems \subseteq Items
  /\ None \notin Items
  /\ IsFiniteSet(Items) /\ IsFiniteSet(Workers)
  /\ {Capacity, HighRatio} \subseteq Nat \ {0}
  /\ MaxOrphans \in Nat

Lanes == {"high", "low"}

VARIABLES
  lane,        \* _high and _low
  streak,      \* _high_streak, up to HighRatio: only streak < HighRatio is asked
  unfinished,  \* _unfinished_tasks; _finished is set when it is 0
  put,         \* items put so far
  pc,          \* "idle", "waiting" (both lanes were empty) or "working"
  item,        \* what a working worker holds
  getter,      \* the lane tasks of a waiting get: "off", "getting" or "got"
  got,         \* the result of a lane task that is "got"
  orphans,     \* lane tasks whose get was cancelled
  dropped,     \* history: results of lane tasks that nobody reads
  done,        \* history: items whose task_done was called, or drained
  passed       \* history: high items handed out since a waiting low one

vars == <<lane, streak, unfinished, put, pc, item, getter, got, orphans,
          dropped, done, passed>>

TypeOK ==
  /\ lane \in [Lanes -> Seq(Items)]
  /\ \A l \in Lanes : Len(lane[l]) <= Capacity
  /\ streak \in 0..HighRatio
  /\ unfinished \in 0..Cardinality(Items)
  /\ put \subseteq Items
  /\ pc \in [Workers -> {"idle", "waiting", "working"}]
  /\ item \in [Workers -> Items \cup {None}]
  /\ getter \in [Workers -> [Lanes -> {"off", "getting", "got"}]]
  /\ got \in [Workers -> [Lanes -> Items \cup {None}]]
  /\ orphans \in [Lanes -> 0..MaxOrphans]
  /\ dropped \subseteq Items
  /\ done \subseteq Items
  /\ passed \in Nat

NoGetter == [l \in Lanes |-> "off"]
NoResult == [l \in Lanes |-> None]

Init ==
  /\ lane = [l \in Lanes |-> <<>>]
  /\ streak = 0
  /\ unfinished = 0
  /\ put = {}
  /\ pc = [w \in Workers |-> "idle"]
  /\ item = [w \in Workers |-> None]
  /\ getter = [w \in Workers |-> NoGetter]
  /\ got = [w \in Workers |-> NoResult]
  /\ orphans = [l \in Lanes |-> 0]
  /\ dropped = {}
  /\ done = {}
  /\ passed = 0

-----------------------------------------------------------------------------

\* _choose_lane
LaneOf(i) == IF i \in HighItems THEN "high" ELSE "low"

\* _maybe_promote_last_to_front either acts or not.
Promoted(s) == <<Last(s)>> \o Front(s)

\* Faulty variant: a lane takes items beyond its capacity.
PutBeyondCapacity(i) ==
  LET l == LaneOf(i) IN
  /\ i \notin put
  /\ lane' = [lane EXCEPT ![l] = Append(@, i)]
  /\ put' = put \cup {i}
  /\ unfinished' = unfinished + 1
  /\ UNCHANGED <<streak, pc, item, getter, got, orphans, dropped, done, passed>>

\* put and put_nowait, when the lane has room.
Put(i) ==
  LET l == LaneOf(i)  s == Append(lane[l], i) IN
  /\ i \notin put
  /\ Len(lane[l]) < Capacity
  /\ \E next \in {s, Promoted(s)} : lane' = [lane EXCEPT ![l] = next]
  /\ put' = put \cup {i}
  /\ unfinished' = unfinished + 1
  /\ UNCHANGED <<streak, pc, item, getter, got, orphans, dropped, done, passed>>

\* The lane a get takes from when one of them is not empty.
Preferred ==
  IF lane["high"] # <<>> /\ (streak < HighRatio \/ lane["low"] = <<>>)
  THEN "high" ELSE "low"

\* Faulty variant: the streak is not counted.
NextStreakReset(isHigh) == IF isHigh THEN 0 ELSE streak

\* _high_streak += 1 or = 0
NextStreak(isHigh) ==
  IF ~isHigh THEN 0 ELSE IF streak < HighRatio THEN streak + 1 ELSE streak

\* The history of high items handed out although a low one waits that none of the
\* lane tasks is about to fetch.
NotePassed(isHigh, tasks) ==
  LET fetching == orphans["low"] + Cardinality({v \in Workers : tasks[v]["low"] = "getting"})
  IN passed' = IF ~isHigh \/ lane["low"] = <<>> THEN 0
               ELSE IF Len(lane["low"]) > fetching THEN passed + 1 ELSE passed

\* get with an item at hand: the lane's own get returns without suspending.
GetNow(w) ==
  LET l == Preferred IN
  /\ pc[w] = "idle"
  /\ lane[l] # <<>>
  /\ lane' = [lane EXCEPT ![l] = Tail(@)]
  /\ streak' = NextStreak(l = "high")
  /\ NotePassed(l = "high", getter)
  /\ pc' = [pc EXCEPT ![w] = "working"]
  /\ item' = [item EXCEPT ![w] = Head(lane[l])]
  /\ UNCHANGED <<unfinished, put, getter, got, orphans, dropped, done>>

\* get with both lanes empty: a task per lane.
GetWait(w) ==
  /\ pc[w] = "idle"
  /\ \A l \in Lanes : lane[l] = <<>>
  /\ pc' = [pc EXCEPT ![w] = "waiting"]
  /\ getter' = [getter EXCEPT ![w] = [l \in Lanes |-> "getting"]]
  /\ UNCHANGED <<lane, streak, unfinished, put, item, got, orphans, dropped, done, passed>>

\* A lane task gets its item before the waiting get runs again.
LaneTaskGets(w, l) ==
  /\ getter[w][l] = "getting"
  /\ lane[l] # <<>>
  /\ lane' = [lane EXCEPT ![l] = Tail(@)]
  /\ getter' = [getter EXCEPT ![w][l] = "got"]
  /\ got' = [got EXCEPT ![w][l] = Head(lane[l])]
  /\ UNCHANGED <<streak, unfinished, put, pc, item, orphans, dropped, done, passed>>

\* asyncio.wait returns: unfinished lane tasks are cancelled, the result of any
\* one finished task is returned.
GetResume(w) ==
  LET finished == {l \in Lanes : getter[w][l] = "got"} IN
  /\ pc[w] = "waiting"
  /\ \E l \in finished :
       /\ item' = [item EXCEPT ![w] = got[w][l]]
       /\ dropped' = dropped \cup {got[w][k] : k \in finished \ {l}}
       /\ NotePassed(l = "high", [getter EXCEPT ![w] = NoGetter])
  /\ streak' = NextStreak("high" \in finished)
  /\ pc' = [pc EXCEPT ![w] = "working"]
  /\ getter' = [getter EXCEPT ![w] = NoGetter]
  /\ got' = [got EXCEPT ![w] = NoResult]
  /\ UNCHANGED <<lane, unfinished, put, orphans, done>>

\* wait_for cancels the get: asyncio.wait leaves the lane tasks alone.
GetTimeout(w) ==
  /\ pc[w] = "waiting"
  /\ \A l \in Lanes : orphans[l] < MaxOrphans
  /\ pc' = [pc EXCEPT ![w] = "idle"]
  /\ orphans' = [l \in Lanes |-> orphans[l] + IF getter[w][l] = "getting" THEN 1 ELSE 0]
  /\ dropped' = dropped \cup {got[w][l] : l \in {k \in Lanes : getter[w][k] = "got"}}
  /\ getter' = [getter EXCEPT ![w] = NoGetter]
  /\ got' = [got EXCEPT ![w] = NoResult]
  /\ UNCHANGED <<lane, streak, unfinished, put, item, done, passed>>

\* Faulty variant: the item an orphaned task returned is still queued.
OrphanPeeks(l) ==
  /\ orphans[l] > 0
  /\ lane[l] # <<>>
  /\ orphans' = [orphans EXCEPT ![l] = @ - 1]
  /\ dropped' = dropped \cup {Head(lane[l])}
  /\ UNCHANGED <<lane, streak, unfinished, put, pc, item, getter, got, done, passed>>

OrphanGets(l) ==
  /\ orphans[l] > 0
  /\ lane[l] # <<>>
  /\ orphans' = [orphans EXCEPT ![l] = @ - 1]
  /\ dropped' = dropped \cup {Head(lane[l])}
  /\ lane' = [lane EXCEPT ![l] = Tail(@)]
  /\ UNCHANGED <<streak, unfinished, put, pc, item, getter, got, done, passed>>

\* The worker is through with its item, whatever became of it.
TaskDone(w) ==
  /\ pc[w] = "working"
  /\ unfinished > 0
  /\ unfinished' = unfinished - 1
  /\ done' = done \cup {item[w]}
  /\ pc' = [pc EXCEPT ![w] = "idle"]
  /\ item' = [item EXCEPT ![w] = None]
  /\ UNCHANGED <<lane, streak, put, getter, got, orphans, dropped, passed>>

\* Faulty variant: a drain counts the items of the workers as done, too.
DrainResetsCount ==
  LET queued == UNION {ToSet(lane[l]) : l \in Lanes} IN
  /\ queued # {}
  /\ lane' = [l \in Lanes |-> <<>>]
  /\ unfinished' = 0
  /\ done' = done \cup queued
  /\ streak' \in 0..HighRatio
  /\ passed' = 0
  /\ UNCHANGED <<put, pc, item, getter, got, orphans, dropped>>

\* _drain_asyncio_queue_nowait, from dispose_job_queues or a reset: every
\* queued item is taken and counted as done.
Drain ==
  LET queued == UNION {ToSet(lane[l]) : l \in Lanes} IN
  /\ queued # {}
  /\ lane' = [l \in Lanes |-> <<>>]
  /\ unfinished' = unfinished - Cardinality(queued)
  /\ done' = done \cup queued
  /\ streak' \in 0..HighRatio
  /\ passed' = 0
  /\ UNCHANGED <<put, pc, item, getter, got, orphans, dropped>>

-----------------------------------------------------------------------------

Next ==
  \/ \E i \in Items : Put(i)
  \/ \E w \in Workers :
       \/ GetNow(w) \/ GetWait(w) \/ GetResume(w) \/ GetTimeout(w) \/ TaskDone(w)
       \/ \E l \in Lanes : LaneTaskGets(w, l)
  \/ \E l \in Lanes : OrphanGets(l)
  \/ Drain

Spec == Init /\ [][Next]_vars

-----------------------------------------------------------------------------
(* Properties *)

InLanes == UNION {ToSet(lane[l]) : l \in Lanes}
InTasks == {got[w][l] : w \in Workers, l \in Lanes} \ {None}
InWork == {item[w] : w \in Workers} \ {None}

\* join returns only when no item is queued, fetched by a lane task or being
\* worked on, in whatever order puts, gets, timeouts and drains happen.
JoinSound == unfinished = 0 => InLanes \cup InTasks \cup InWork = {}

\* No item reaches two workers, is finished twice, or is worked on again after
\* a drain: the places an item can be in are disjoint.
OneWorkerPerItem ==
  /\ \A v, w \in Workers : v # w /\ item[v] # None => item[v] # item[w]
  /\ InWork \cap (InLanes \cup InTasks \cup done \cup dropped) = {}
  /\ (InLanes \cup InTasks) \cap (done \cup dropped) = {}

\* While a low item waits, at most HighRatio high ones are handed out first, and
\* one more per worker whose lane task already holds a high item.
LowNotStarved == passed <= HighRatio + Cardinality(Workers)

\* The class comment: task_done and join emulate asyncio.Queue, so an item that
\* was put is queued, in a worker's hands or finished.
NoItemLost == dropped = {}

=============================================================================
