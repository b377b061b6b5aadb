------------------------------ MODULE RedisState ------------------------------
(***************************************************************************)
(* publish_sse_event and update_state_only of                              *)
(* backend/shared/redis_sse_service.py, on top of the batch of StateBatch. *)
(* A message is merged into the last one of its job, smoothed, published,  *)
(* remembered as the last one and handed to the batch.  The memory is read *)
(* before an await and written after it.  A running message inside the     *)
(* rate limit waits for a delayed publish, the newest replacing the others;*)
(* a smoothed one starts a task that publishes the next frame.             *)
(*                                                                         *)
(* Senders are the callers' requests and, per job, the smoothing task.     *)
(* SSE_REDIS_PUBLISH_ASYNC and SSE_REDIS_STATE_UPDATE_ON_THROTTLE have     *)
(* their default, off; SSE_PROGRESS_SMOOTH_ENABLED its default, on.        *)
(***************************************************************************)
EXTENDS StateBatch

CONSTANTS
  Requests,     \* calls of publish_sse_event and update_state_only
  Target,       \* the job of a request
  Inputs        \* what callers send: kind and message

Senders == Requests \cup Jobs
\* back: whether the counter (an exploring event, allow_scan_count_decrease or
\* allow_counter_decrease) or the status (partial_sequence_running) may go back.
Messages == [count : 0..MaxCount, terminal : BOOLEAN, back : SUBSET {"count", "status"}]
Kinds == {"progress", "unit", "state"}   \* "unit": _is_unit_progress_message

RedisStateAssumption ==
  /\ Target \in [Requests -> Jobs]
  /\ Jobs \cap Requests = {}
  /\ {"none", "sleep", "due"} \cap Senders = {}
  /\ None \notin Requests \cup Jobs \cup Messages
  /\ Inputs \subseteq [kind : Kinds, msg : Messages]

VARIABLES
  pc,           \* where a sender is
  kind, msg,    \* what it sends
  wantsMore,    \* needs_more of its publish
  lastMeta,     \* the message of _last_publish_meta
  window,       \* less than the interval since the job's _rate_limit_timestamps
  throttled,    \* _pending_requests: the request that waits
  delayed,      \* _pending_tasks: none, asleep, due, or the request it publishes
  smooth,       \* _smooth_target_by_job
  behind,       \* history: senders whose merge read a memory that was replaced since
  overtaken     \* history: jobs whose throttled request came while the delayed
                \* task was publishing the one before it

senderVars == <<pc, kind, msg, wantsMore>>
throttleVars == <<window, throttled, delayed, overtaken>>
vars == <<batchVars, hash, fails, disturbed, senderVars, lastMeta, throttleVars, smooth, behind>>

TypeOK ==
  /\ BatchTypeOK
  /\ pc \in [Senders -> {"idle", "waiting", "asleep", "get", "publish", "write", "end"}]
  /\ kind \in [Senders -> Kinds]
  /\ msg \in [Senders -> Messages \cup {None}]
  /\ wantsMore \in [Senders -> BOOLEAN]
  /\ lastMeta \in [Jobs -> States \cup {None}]
  /\ window \in [Jobs -> BOOLEAN]
  /\ throttled \in [Jobs -> Requests \cup {None}]
  /\ delayed \in [Jobs -> {"none", "sleep", "due"} \cup Requests]
  /\ smooth \in [Jobs -> Messages \cup {None}]
  /\ overtaken \subseteq Jobs
  /\ behind \subseteq Senders

Init ==
  /\ BatchInit
  /\ pc = [s \in Senders |-> "idle"]
  /\ kind = [s \in Senders |-> "progress"]
  /\ msg = [s \in Senders |-> None]
  /\ wantsMore = [s \in Senders |-> FALSE]
  /\ lastMeta = [j \in Jobs |-> None]
  /\ window = [j \in Jobs |-> FALSE]
  /\ throttled = [j \in Jobs |-> None]
  /\ delayed = [j \in Jobs |-> "none"]
  /\ smooth = [j \in Jobs |-> None]
  /\ overtaken = {}
  /\ behind = {}

JobOf(s) == IF s \in Jobs THEN s ELSE Target[s]

\* Past the merge, before the memory is written.
InFlight(j) == {s \in Senders : JobOf(s) = j /\ pc[s] \in {"publish", "write"}}
Direct == {j \in Jobs : \E s \in InFlight(j) : pc[s] = "write"}

-----------------------------------------------------------------------------
(* A request arrives *)

\* The request that waits for the delayed publish gives way to r.
Supersede(j, r, to) ==
  pc' = [s \in Senders |->
           IF s = r THEN to
           ELSE IF s = throttled[j] THEN "end"
           ELSE pc[s]]

\* A throttled progress message waits, the newest only, for the delayed publish.
Throttle(r, j) ==
  /\ window[j]
  /\ Supersede(j, r, "waiting")
  /\ throttled' = [throttled EXCEPT ![j] = r]
  /\ delayed' = [delayed EXCEPT ![j] = IF @ = "none" THEN "sleep" ELSE @]
  /\ overtaken' = IF delayed[j] \in Requests THEN overtaken \cup {j} ELSE overtaken \ {j}
  /\ UNCHANGED window

\* _reserve_rate_slot
Reserve(r, j) ==
  /\ ~window[j]
  /\ window' = [window EXCEPT ![j] = TRUE]
  /\ pc' = [pc EXCEPT ![r] = "get"]
  /\ UNCHANGED <<throttled, delayed, overtaken>>

\* A terminal message passes the rate limit and drops the request that waits.
PassTerminal(r, j) ==
  /\ Supersede(j, r, "get")
  /\ throttled' = [throttled EXCEPT ![j] = None]
  /\ UNCHANGED <<window, delayed, overtaken>>

Arrive(r, in) == LET j == Target[r] IN
  /\ pc[r] = "idle"
  /\ kind' = [kind EXCEPT ![r] = in.kind]
  /\ msg' = [msg EXCEPT ![r] = in.msg]
  /\ \/ in.kind # "state" /\ in.msg.terminal /\ PassTerminal(r, j)
     \/ in.kind = "progress" /\ ~in.msg.terminal /\ (Throttle(r, j) \/ Reserve(r, j))
     \/ /\ in.kind = "state" \/ (in.kind = "unit" /\ ~in.msg.terminal)
        /\ pc' = [pc EXCEPT ![r] = "get"]
        /\ UNCHANGED throttleVars
  /\ UNCHANGED <<batchVars, hash, fails, disturbed, wantsMore, lastMeta, smooth, behind>>

\* The interval since the last reserved slot is over.
Tick(j) ==
  /\ window[j]
  /\ window' = [window EXCEPT ![j] = FALSE]
  /\ delayed' = [delayed EXCEPT ![j] = IF @ = "sleep" THEN "due" ELSE @]
  /\ UNCHANGED <<batchVars, hash, fails, disturbed, senderVars, lastMeta, throttled, smooth,
                 overtaken, behind>>

\* Faulty variant: the request that waits is not taken along.
DelayedPublishForgets(j) ==
  /\ delayed[j] = "due"
  /\ delayed' = [delayed EXCEPT ![j] = "none"]
  /\ UNCHANGED <<batchVars, hash, fails, disturbed, senderVars, lastMeta, window, throttled,
                 smooth, overtaken, behind>>

\* _publish_pending_after
DelayedPublish(j) ==
  LET r == throttled[j] IN
  /\ delayed[j] = "due"
  /\ throttled' = [throttled EXCEPT ![j] = None]
  /\ delayed' = [delayed EXCEPT ![j] = IF r = None THEN "none" ELSE r]
  /\ pc' = [s \in Senders |-> IF s = r THEN "get" ELSE pc[s]]
  /\ UNCHANGED <<batchVars, hash, fails, disturbed, kind, msg, wantsMore,
                 lastMeta, window, smooth, overtaken, behind>>

-----------------------------------------------------------------------------
(* Merging and smoothing *)

MergedCount(prev, cur) ==
  IF "count" \notin cur.back /\ cur.count < prev.count THEN prev.count ELSE cur.count

\* Faulty variant: the status of the new message counts.
MergeStatus(prev, cur) ==
  IF prev = None THEN cur
  ELSE [cur EXCEPT !.count = MergedCount(prev, cur)]

\* _merge_monotonic
MergeMonotonic(prev, cur) ==
  IF prev = None THEN cur
  ELSE [count |-> MergedCount(prev, cur),
        terminal |-> cur.terminal \/ (prev.terminal /\ "status" \notin cur.back),
        back |-> cur.back]

\* _smooth_next_int: a third of the way, at least one and at most 25.
SmoothNext(prev, goal) ==
  LET third == ((goal - prev) * 35) \div 100 IN
  IF goal <= prev THEN goal
  ELSE prev + (IF third < 1 THEN 1 ELSE IF third > 25 THEN 25 ELSE third)

\* _apply_progress_smoothing of the merged message m of sender s: a terminal or
\* unit message goes out as it is and ends the smoothing of the job, its task
\* included - also when that task is the sender.
Unsmoothed(s, m) == m.terminal \/ kind[s] = "unit"
Smoothed(s, m) ==
  IF Unsmoothed(s, m) \/ lastMeta[JobOf(s)] = None THEN m
  ELSE [m EXCEPT !.count = SmoothNext(lastMeta[JobOf(s)].count, @)]

EndSend(s) == IF s \in Jobs THEN "idle" ELSE "end"
\* The state that the message of s leaves in the memory.
MayGoBack(s, field) == s \in behind \/ field \in msg[s].back
Remembered(s) ==
  LET m == msg[s]
      last == lastMeta[JobOf(s)]
  IN [count |-> m.count,
      terminal |-> m.terminal,
      recount |-> IF last = None THEN 0
                  ELSE IF MayGoBack(s, "count") /\ m.count < last.count THEN last.recount + 1
                  ELSE last.recount,
      round |-> IF last = None THEN 0
                ELSE IF MayGoBack(s, "status") /\ last.terminal /\ ~m.terminal THEN last.round + 1
                ELSE last.round]
\* The others of its job that are in flight were merged with what it replaces.
Overtakes(s) == behind' = (behind \cup InFlight(JobOf(s))) \ {s}

\* The delayed task of j is done when the request it publishes is.
DelayedAfter(s) ==
  [j \in Jobs |-> IF delayed[j] = s THEN "none" ELSE delayed[j]]

-----------------------------------------------------------------------------
(* publish_sse_event, update_state_only and the smoothing task *)

\* get_redis answered: merge with the memory, smooth, and send.
Merge(s) ==
  LET j == JobOf(s)
      merged == MergeMonotonic(lastMeta[j], msg[s])
      frame == Smoothed(s, merged)
      next == IF kind[s] = "state" THEN "write" ELSE "publish"
  IN
  /\ pc[s] = "get"
  /\ msg' = [msg EXCEPT ![s] = frame]
  /\ wantsMore' = [wantsMore EXCEPT ![s] = frame # merged]
  /\ smooth' = IF ~Unsmoothed(s, merged) /\ lastMeta[j] = None THEN smooth
               ELSE [smooth EXCEPT ![j] = IF frame # merged THEN merged ELSE None]
  /\ pc' = [x \in Senders |->
              IF Unsmoothed(s, merged) /\ x = j THEN "idle"
              ELSE IF x = s THEN next
              ELSE pc[x]]
  /\ behind' = IF Unsmoothed(s, merged) THEN behind \ {j} ELSE behind
  /\ disturbed' = IF next = "write" /\ j \in Direct \cup BeingWritten \cup JobsOf(pending)
                  THEN disturbed \cup {j} ELSE disturbed
  /\ UNCHANGED <<batchVars, hash, fails, kind, lastMeta, throttleVars>>

\* get_redis or the publish failed, and the message is lost.
SendFails(s) ==
  /\ pc[s] \in {"get", "publish"}
  /\ RedisCall(FALSE)
  /\ pc' = [pc EXCEPT ![s] = EndSend(s)]
  /\ delayed' = DelayedAfter(s)
  /\ behind' = behind \ {s}
  /\ UNCHANGED <<batchVars, hash, disturbed, kind, msg, wantsMore, lastMeta, window,
                 throttled, smooth, overtaken>>

\* _schedule_smooth_frame: nothing while a smoothing task is not done, the sender
\* itself included.
AfterPublish(s, j) ==
  [x \in Senders |->
     IF x = s THEN EndSend(s)
     ELSE IF x = j /\ wantsMore[s] /\ pc[j] = "idle" THEN "asleep"
     ELSE pc[x]]

\* _schedule_state_write: the state goes to the batch, unless _should_skip_state_write
\* finds nothing new in it.
ScheduleStateWrite(s, skip) == LET j == JobOf(s) IN
  /\ skip => lastMeta[j] = Remembered(s) /\ ~msg[s].terminal
  /\ IF skip THEN UNCHANGED batchVars ELSE EnqueueStateWrite(j, Remembered(s))
  /\ disturbed' = IF ~skip /\ j \in Direct THEN disturbed \cup {j} ELSE disturbed

\* Faulty variant: the memory is not written.
PublishedUnremembered(s, skip) ==
  /\ pc[s] = "publish"
  /\ ScheduleStateWrite(s, skip)
  /\ pc' = AfterPublish(s, JobOf(s))
  /\ delayed' = DelayedAfter(s)
  /\ behind' = behind \ {s}
  /\ UNCHANGED <<hash, fails, kind, msg, wantsMore, lastMeta, window,
                 throttled, smooth, overtaken>>

\* The publish succeeded: the message becomes the last one.
Published(s, skip) ==
  /\ pc[s] = "publish"
  /\ ScheduleStateWrite(s, skip)
  /\ lastMeta' = [lastMeta EXCEPT ![JobOf(s)] = Remembered(s)]
  /\ pc' = AfterPublish(s, JobOf(s))
  /\ delayed' = DelayedAfter(s)
  /\ Overtakes(s)
  /\ UNCHANGED <<hash, fails, kind, msg, wantsMore, window, throttled, smooth, overtaken>>

\* update_state_only: the hash is written directly, then the memory.
StateWritten(s) ==
  /\ pc[s] = "write"
  /\ hash' = [hash EXCEPT ![JobOf(s)] = Remembered(s)]
  /\ lastMeta' = [lastMeta EXCEPT ![JobOf(s)] = Remembered(s)]
  /\ pc' = [pc EXCEPT ![s] = "end"]
  /\ Overtakes(s)
  /\ UNCHANGED <<batchVars, fails, disturbed, kind, msg, wantsMore, throttleVars,
                 smooth>>

StateWriteFails(s, applied) ==
  /\ pc[s] = "write"
  /\ RedisCall(FALSE)
  /\ hash' = IF applied THEN [hash EXCEPT ![JobOf(s)] = Remembered(s)] ELSE hash
  /\ pc' = [pc EXCEPT ![s] = "end"]
  /\ disturbed' = disturbed \cup {JobOf(s)}
  /\ behind' = behind \ {s}
  /\ UNCHANGED <<batchVars, kind, msg, wantsMore, lastMeta, throttleVars, smooth>>

\* The smoothing task wakes up and publishes its frame, if there still is one.
SmoothWakes(j) ==
  /\ pc[j] = "asleep"
  /\ pc' = [pc EXCEPT ![j] = IF smooth[j] = None THEN "idle" ELSE "get"]
  /\ msg' = [msg EXCEPT ![j] = smooth[j]]
  /\ UNCHANGED <<batchVars, hash, fails, disturbed, kind, wantsMore, lastMeta,
                 throttleVars, smooth, behind>>

-----------------------------------------------------------------------------

Flush ==
  /\ \/ FlushCut
     \/ \E i \in DOMAIN writing : FlushWritten(i)
     \/ \E i \in DOMAIN writing, applied \in BOOLEAN : FlushFailed(i, applied)
  /\ UNCHANGED <<senderVars, lastMeta, throttleVars, smooth, behind>>

Send(s) ==
  \/ Merge(s) \/ SendFails(s)
  \/ \E skip \in BOOLEAN : Published(s, skip)
  \/ StateWritten(s) \/ \E applied \in BOOLEAN : StateWriteFails(s, applied)

Next ==
  \/ \E r \in Requests, in \in Inputs : Arrive(r, in)
  \/ \E j \in Jobs : Tick(j) \/ DelayedPublish(j) \/ SmoothWakes(j)
  \/ \E s \in Senders : Send(s)
  \/ Flush

Spec == Init /\ [][Next]_vars

-----------------------------------------------------------------------------
(* Properties *)

\* Nothing of job j is on its way to Redis.
Settled(j) ==
  /\ InFlight(j) = {}
  /\ j \notin JobsOf(pending) \cup BeingWritten

\* The hash is the cache of the latest state: once nothing is on its way it holds
\* the last state of the job, however its sends overlapped, unless one write of the
\* hash failed or two were under way at one time (disturbed).
QuietIsLatest ==
  \A j \in Jobs : Settled(j) /\ j \notin disturbed => hash[j] = lastMeta[j]

\* A state that replaces another is in a later round, or has no running status for a
\* terminal one; and likewise for the counter.
MovesOn(old, new) ==
  /\ \/ new.recount > old.recount
     \/ new.recount = old.recount /\ new.count >= old.count
  /\ \/ new.round > old.round
     \/ new.round = old.round /\ (old.terminal => new.terminal)

\* Through overlapping sends, merging, smoothing and the batch the hash goes back
\* only where a message took the memory back, and never to a state from before that;
\* and only two messages do: one marked as such, and one that was merged before the
\* state it replaces was remembered.  Writes of the hash itself that failed or were
\* under way at one time are left out (disturbed).
HashMovesOn ==
  [][\A j \in Jobs :
       hash[j] # None /\ j \notin disturbed' => MovesOn(hash[j], hash'[j])]_vars

\* docs/codebase_optimization_structure.md: a publish inside the rate limit is
\* coalesced into the pending publish and converges when that one is sent - unless
\* it came while that one was already being sent.
ThrottledIsSent ==
  \A j \in Jobs : throttled[j] # None => delayed[j] # "none" \/ j \in overtaken

=============================================================================
