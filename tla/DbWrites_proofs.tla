--------------------------- MODULE DbWrites_proofs ---------------------------
(***************************************************************************)
(* The DB write queue executes a write once and never takes a row back,    *)
(* for any writes, workers and limits.                                     *)
(***************************************************************************)
EXTENDS DbWrites, TLAPS

\* The write is on its way: asked for, and not yet executed.
OnItsWay(w) ==
  /\ caller[w] \notin {"new", "putting"}
  /\ outcome[w] = "open"

\* What is known of a write before it is on its way and after.
WriteStates ==
  \A w \in Writes :
    /\ caller[w] \in {"new", "putting"} => outcome[w] = "open" /\ effects[w] = 0
    /\ caller[w] # "new" => request[w] \in Requests

\* Queues and workers hold only writes on their way ...
QueuedAreOpen == \A l \in Lanes : \A i \in DOMAIN queue[l] : OnItsWay(queue[l][i])
RunningAreOpen == \A k \in Workers : running[k] \in Writes => OnItsWay(running[k])

\* ... and each of them in one place.
QueuedOnce ==
  \A l, m \in Lanes : \A i \in DOMAIN queue[l], j \in DOMAIN queue[m] :
    queue[l][i] = queue[m][j] => l = m /\ i = j
RunningOnce ==
  \A k, x \in Workers : running[k] \in Writes /\ running[k] = running[x] => k = x
QueuedNotRunning ==
  \A k \in Workers, l \in Lanes : \A i \in DOMAIN queue[l] : running[k] # queue[l][i]

\* A statement takes effect only in a worker, and once per try.
QueuedUntried == \A l \in Lanes : \A i \in DOMAIN queue[l] : effects[queue[l][i]] = 0
RunningTried == \A k \in Workers : running[k] \in Writes => effects[running[k]] <= repeats[k]

PlacesInv ==
  /\ WriteStates
  /\ QueuedUntried /\ RunningTried
  /\ QueuedAreOpen /\ RunningAreOpen
  /\ QueuedOnce /\ RunningOnce /\ QueuedNotRunning

DbInv == TypeOK /\ PlacesInv

\* The row that an update leaves behind.
LEMMA UpdatedRow ==
  ASSUME DbWritesAssumption, TypeOK, NEW in \in Requests
  PROVE  /\ Updated(in) \in [count : 0..MaxCount, terminal : BOOLEAN]
         /\ Updated(in).count >= row.count
         /\ row.terminal => Updated(in).terminal
<1>1. row.count \in 0..MaxCount /\ row.terminal \in BOOLEAN
  BY DEF TypeOK
<1>2. in.count \in 0..MaxCount
  BY DEF Requests
<1>3. CASE in.status = "running" /\ row.terminal
  BY <1>1, <1>3 DEF Updated, TypeOK, DbWritesAssumption
<1>4. CASE ~(in.status = "running" /\ row.terminal)
  <2>1. Updated(in) = [count |-> IF row.count < in.count THEN in.count ELSE row.count,
                       terminal |-> row.terminal \/ in.status = "terminal"]
    BY <1>4 DEF Updated
  <2>2. (row.terminal \/ in.status = "terminal") \in BOOLEAN
    BY Zenon
  <2>3. (IF row.count < in.count THEN in.count ELSE row.count) \in 0..MaxCount
    BY <1>1, <1>2
  <2>4. (IF row.count < in.count THEN in.count ELSE row.count) >= row.count
    BY <1>1, <1>2 DEF DbWritesAssumption
  <2>5. ASSUME NEW c \in 0..MaxCount, NEW t \in BOOLEAN
        PROVE  [count |-> c, terminal |-> t] \in [count : 0..MaxCount, terminal : BOOLEAN]
    OBVIOUS
  <2>6. Updated(in) \in [count : 0..MaxCount, terminal : BOOLEAN]
    BY <2>1, <2>2, <2>3, <2>5, Zenon
  <2>7. Updated(in).count >= row.count
    BY <2>1, <2>4
  <2>8. ASSUME row.terminal  PROVE Updated(in).terminal
    <3>1. (row.terminal \/ in.status = "terminal") = TRUE
      BY <2>8, Zenon
    <3>2. Updated(in) = [count |-> IF row.count < in.count THEN in.count ELSE row.count,
                         terminal |-> TRUE]
      BY <2>1, <3>1, Zenon
    <3> QED
      BY <3>2
  <2> QED
    BY <2>6, <2>7, <2>8
<1> QED
  BY <1>3, <1>4

\* The write that a worker executes.
LEMMA RunningWrite ==
  ASSUME DbWritesAssumption, DbInv, NEW k \in Workers, running[k] \in Writes
  PROVE  /\ request[running[k]] \in Requests
         /\ caller[running[k]] \notin {"new", "putting"}
         /\ outcome[running[k]] = "open"
         /\ effects[running[k]] \in 0..StatementTries - 1
<1>1. /\ request[running[k]] \in Requests
      /\ caller[running[k]] \notin {"new", "putting"}
      /\ outcome[running[k]] = "open"
  BY DEF DbInv, PlacesInv, RunningAreOpen, WriteStates, OnItsWay
<1>2. effects[running[k]] <= repeats[k] /\ repeats[k] \in 0..StatementTries - 1
  BY DEF DbInv, PlacesInv, RunningTried, TypeOK
<1> QED
  BY <1>1, <1>2 DEF DbInv, TypeOK, DbWritesAssumption

\* What a run of the statement does to the effects, and to the row.
LEMMA EffectOfTry ==
  ASSUME DbWritesAssumption, DbInv, NEW k \in Workers, running[k] \in Writes,
         NEW applied \in BOOLEAN, Effect(k, applied)
  PROVE  /\ effects' \in [Writes -> 0..StatementTries]
         /\ \A w \in Writes : w # running[k] => effects'[w] = effects[w]
         /\ effects'[running[k]] <= effects[running[k]] + 1
         /\ \/ effects' = effects
            \/ effects' = [effects EXCEPT ![running[k]] = @ + 1]
         /\ row' \in [count : 0..MaxCount, terminal : BOOLEAN]
         /\ row'.count >= row.count /\ (row.terminal => row'.terminal)
<1> TypeOK
  BY DEF DbInv
<1>1. effects[running[k]] \in 0..StatementTries - 1 /\ request[running[k]] \in Requests
  BY RunningWrite
<1>2. CASE applied
  <2>1. row' = Updated(request[running[k]]) /\ effects' = [effects EXCEPT ![running[k]] = @ + 1]
    BY <1>2 DEF Effect
  <2>2. /\ row' \in [count : 0..MaxCount, terminal : BOOLEAN]
        /\ row'.count >= row.count /\ (row.terminal => row'.terminal)
    BY <1>1, <2>1, UpdatedRow
  <2>3. effects[running[k]] + 1 \in 0..StatementTries
    BY <1>1 DEF DbWritesAssumption
  <2> QED
    BY <2>1, <2>2, <2>3 DEF TypeOK
<1>3. CASE ~applied
  <2>1. row' = row /\ effects' = effects
    BY <1>3 DEF Effect
  <2>2. effects[running[k]] <= effects[running[k]] + 1 /\ row.count >= row.count
    BY <1>1 DEF TypeOK
  <2> QED
    BY <2>1, <2>2 DEF TypeOK
<1> QED
  BY <1>2, <1>3

LEMMA TypeStep ==
  ASSUME DbWritesAssumption, DbInv, [Next]_vars
  PROVE  TypeOK'
<1> TypeOK
  BY DEF DbInv
<1> USE DEF TypeOK
<1>1. CASE UNCHANGED vars
  BY <1>1 DEF vars
<1>2. ASSUME NEW w \in Writes, NEW in \in Inputs[w], Call(w, in)  PROVE TypeOK'
  <2>1. request' \in [Writes -> Requests \cup {None}]
    BY <1>2 DEF Call, DbWritesAssumption
  <2>2. caller' \in [Writes -> {"new", "putting", "waiting", "ok", "error", "late"}]
    BY <1>2 DEF Call
  <2>3. running' \in [Workers -> Writes \cup {None, "dead"}]
    BY <1>2 DEF Call
  <2>4. UNCHANGED <<queue, repeats, outcome, effects, row, fails>>
    BY <1>2 DEF Call
  <2> QED
    BY <2>1, <2>2, <2>3, <2>4
<1>3. ASSUME NEW w \in Writes, Put(w)  PROVE TypeOK'
  <2> DEFINE l == request[w].lane
  <2>1. l \in Lanes
    BY <1>3 DEF Put, DbInv, PlacesInv, WriteStates, Requests
  <2>2. queue[l] \in Seq(Writes) /\ Append(queue[l], w) \in Seq(Writes)
    BY <2>1
  <2>3. queue' \in [Lanes -> Seq(Writes)]
    BY <1>3, <2>1, <2>2 DEF Put
  <2> QED
    BY <1>3, <2>3 DEF Put
<1>4. ASSUME NEW w \in Writes, Return(w) \/ GiveUp(w)  PROVE TypeOK'
  BY <1>4 DEF Return, GiveUp
<1>5. ASSUME NEW k \in Workers, Take(k)  PROVE TypeOK'
  <2>1. Lane[k] \in Lanes
    BY DEF DbWritesAssumption
  <2>2. Head(queue[Lane[k]]) \in Writes /\ Tail(queue[Lane[k]]) \in Seq(Writes)
    BY <1>5, <2>1 DEF Take
  <2> QED
    BY <1>5, <2>1, <2>2 DEF Take
<1>6. ASSUME NEW k \in Workers, NEW to \in {None, "dead"}, Ends(k, to)
      PROVE  /\ running[k] \in Writes
             /\ running' \in [Workers -> Writes \cup {None, "dead"}]
             /\ repeats' \in [Workers -> 0..StatementTries - 1]
             /\ UNCHANGED <<request, caller, queue>>
  BY <1>6 DEF Ends, DbWritesAssumption
<1>7. ASSUME NEW k \in Workers, NEW applied \in BOOLEAN, running[k] \in Writes, Effect(k, applied)
      PROVE  effects' \in [Writes -> 0..StatementTries]
             /\ row' \in [count : 0..MaxCount, terminal : BOOLEAN]
  BY <1>7, EffectOfTry
<1>8. ASSUME NEW k \in Workers, NEW applied \in BOOLEAN, TryAgain(k, applied)  PROVE TypeOK'
  <2>1. repeats' \in [Workers -> 0..StatementTries - 1] /\ fails' \in 0..MaxFails
    BY <1>8 DEF TryAgain, DbWritesAssumption
  <2> QED
    BY <1>7, <1>8, <2>1 DEF TryAgain
<1>9. ASSUME NEW k \in Workers, NEW applied \in BOOLEAN, NEW o \in {"done", "failed", "timedOut"},
             NEW to \in {None, "dead"}, Ends(k, to), Effect(k, applied), fails' \in 0..MaxFails,
             outcome' = [outcome EXCEPT ![running[k]] = o] \/ outcome' = outcome
      PROVE  TypeOK'
  <2>1. /\ running[k] \in Writes /\ running' \in [Workers -> Writes \cup {None, "dead"}]
        /\ repeats' \in [Workers -> 0..StatementTries - 1]
        /\ UNCHANGED <<request, caller, queue>>
    BY <1>6, <1>9
  <2>2. /\ effects' \in [Writes -> 0..StatementTries]
        /\ row' \in [count : 0..MaxCount, terminal : BOOLEAN]
    BY <1>7, <1>9, <2>1
  <2>3. outcome' \in [Writes -> {"open", "done", "failed", "timedOut"}]
    BY <1>9
  <2> QED
    BY <1>9, <2>1, <2>2, <2>3
<1>10. ASSUME fails < MaxFails  PROVE fails + 1 \in 0..MaxFails
  BY <1>10 DEF DbWritesAssumption
<1>11. ASSUME NEW k \in Workers, NEW applied \in BOOLEAN,
              Executed(k, applied) \/ TriesRunOut(k, applied)  PROVE TypeOK'
  BY <1>9, <1>11 DEF Executed, TriesRunOut
<1>12. ASSUME NEW k \in Workers, NEW applied \in BOOLEAN,
              ExecuteFails(k, applied) \/ WorkerDies(k, applied)  PROVE TypeOK'
  BY <1>9, <1>10, <1>12 DEF ExecuteFails, WorkerDies
<1> QED
  BY <1>1, <1>2, <1>3, <1>4, <1>5, <1>8, <1>11, <1>12 DEF Next


-----------------------------------------------------------------------------
(* Every write is in one place *)

\* A step that leaves queues, workers, outcomes and effects alone.
LEMMA CallerMoves ==
  ASSUME DbInv, NEW w \in Writes, NEW to,
         caller[w] # "new", to \notin {"new", "putting"}, caller[w] # "putting",
         caller' = [caller EXCEPT ![w] = to],
         UNCHANGED <<request, queue, running, repeats, outcome, effects>>
  PROVE  PlacesInv'
<1>1. \A x \in Writes : (caller[x] \in {"new", "putting"} <=> caller'[x] \in {"new", "putting"})
                       /\ (caller[x] # "new" <=> caller'[x] # "new")
  BY DEF DbInv, TypeOK
<1>2. WriteStates'
  BY <1>1 DEF DbInv, PlacesInv, WriteStates
<1>3. \A x \in Writes : OnItsWay(x) <=> OnItsWay(x)'
  BY <1>1 DEF OnItsWay
<1>4. QueuedAreOpen' /\ RunningAreOpen'
  BY <1>3 DEF DbInv, PlacesInv, QueuedAreOpen, RunningAreOpen, TypeOK
<1>5. QueuedOnce' /\ RunningOnce' /\ QueuedNotRunning'
  BY DEF DbInv, PlacesInv, QueuedOnce, RunningOnce, QueuedNotRunning
<1>6. QueuedUntried' /\ RunningTried'
  BY DEF DbInv, PlacesInv, QueuedUntried, RunningTried
<1> QED
  BY <1>2, <1>4, <1>5, <1>6 DEF PlacesInv

\* A worker's execution has ended, and the worker is free again or dead.
LEMMA WorkerEnds ==
  ASSUME DbWritesAssumption, DbInv, NEW k \in Workers, NEW to \in {None, "dead"}, Ends(k, to),
         NEW applied \in BOOLEAN, Effect(k, applied),
         \A w \in Writes : w # running[k] => outcome'[w] = outcome[w]
  PROVE  PlacesInv'
<1> USE DEF DbInv, PlacesInv
<1>0. /\ running[k] \in Writes /\ to \notin Writes
      /\ running' = [running EXCEPT ![k] = to] /\ repeats' = [repeats EXCEPT ![k] = 0]
      /\ UNCHANGED <<request, caller, queue>>
  BY DEF Ends, DbWritesAssumption
<1> DEFINE w == running[k]
<1>1. OnItsWay(w)
  BY <1>0 DEF RunningAreOpen
<1>2. \A x \in Writes : x # w => effects'[x] = effects[x] /\ (OnItsWay(x) <=> OnItsWay(x)')
  BY <1>0, EffectOfTry DEF OnItsWay, TypeOK
<1>3. WriteStates'
  BY <1>0, <1>1, <1>2 DEF WriteStates, OnItsWay
<1>4. \A l \in Lanes : \A i \in DOMAIN queue[l] : queue[l][i] \in Writes /\ queue[l][i] # w
  BY <1>0 DEF QueuedNotRunning, TypeOK
<1>5. QueuedAreOpen' /\ QueuedUntried'
  BY <1>0, <1>2, <1>4 DEF QueuedAreOpen, QueuedUntried
<1>6. \A x \in Workers : running'[x] \in Writes =>
        /\ x # k /\ running'[x] = running[x] /\ repeats'[x] = repeats[x]
        /\ running[x] # w
  BY <1>0 DEF TypeOK, RunningOnce
<1>7. RunningAreOpen' /\ RunningOnce' /\ RunningTried'
  BY <1>2, <1>6 DEF RunningAreOpen, RunningOnce, RunningTried
<1>8. \A x \in Workers : running'[x] = running[x] \/ running'[x] \notin Writes
  BY <1>0 DEF TypeOK
<1>9. QueuedOnce' /\ QueuedNotRunning'
  BY <1>0, <1>4, <1>8 DEF QueuedOnce, QueuedNotRunning
<1> QED
  BY <1>3, <1>5, <1>7, <1>9

LEMMA PlacesStep ==
  ASSUME DbWritesAssumption, DbInv, [Next]_vars
  PROVE  PlacesInv'
<1> None \notin Writes /\ "dead" \notin Writes
  BY DEF DbWritesAssumption
<1>1. CASE UNCHANGED vars
  BY <1>1 DEF vars, DbInv, PlacesInv, WriteStates, QueuedAreOpen, RunningAreOpen, QueuedOnce,
              RunningOnce, QueuedNotRunning, OnItsWay, QueuedUntried, RunningTried
<1>2. ASSUME NEW w \in Writes, NEW in \in Inputs[w], Call(w, in)  PROVE PlacesInv'
  <2> USE DEF DbInv, PlacesInv
  <2>1. ~OnItsWay(w) /\ outcome[w] = "open"
    BY <1>2 DEF Call, OnItsWay, WriteStates
  <2>2. \A x \in Writes : OnItsWay(x) => OnItsWay(x)'
    BY <1>2, <2>1 DEF Call, OnItsWay, TypeOK
  <2>3. WriteStates'
    BY <1>2 DEF Call, WriteStates, TypeOK, DbWritesAssumption
  <2>4. QueuedAreOpen'
    BY <1>2, <2>2 DEF Call, QueuedAreOpen, TypeOK
  <2>5. \A k \in Workers : running'[k] = running[k] \/ running'[k] = None
    BY <1>2 DEF Call
  <2>6. RunningAreOpen'
    BY <2>2, <2>5 DEF RunningAreOpen
  <2>7. RunningOnce'
    BY <2>5 DEF RunningOnce
  <2>8. QueuedOnce' /\ QueuedNotRunning'
    BY <1>2, <2>5 DEF Call, QueuedOnce, QueuedNotRunning, TypeOK
  <2>9. QueuedUntried' /\ RunningTried'
    BY <1>2, <2>5 DEF Call, QueuedUntried, RunningTried
  <2> QED
    BY <2>3, <2>4, <2>6, <2>7, <2>8, <2>9
<1>3. ASSUME NEW w \in Writes, Put(w)  PROVE PlacesInv'
  <2> USE DEF DbInv, PlacesInv
  <2> DEFINE l == request[w].lane
  <2>1. l \in Lanes /\ outcome[w] = "open" /\ effects[w] = 0
    BY <1>3 DEF Put, WriteStates, Requests
  <2>2. ~OnItsWay(w) /\ OnItsWay(w)'
    BY <1>3, <2>1 DEF Put, OnItsWay, TypeOK
  <2>3. \A x \in Writes : OnItsWay(x) => OnItsWay(x)'
    BY <1>3 DEF Put, OnItsWay, TypeOK
  <2>4. WriteStates'
    BY <1>3 DEF Put, WriteStates, TypeOK
  <2>5. /\ \A m \in Lanes \ {l} : queue'[m] = queue[m]
        /\ DOMAIN queue'[l] = 1..Len(queue[l]) + 1
        /\ \A i \in DOMAIN queue[l] : queue'[l][i] = queue[l][i]
        /\ queue'[l][Len(queue[l]) + 1] = w
        /\ DOMAIN queue[l] = 1..Len(queue[l]) /\ Len(queue[l]) \in Nat
    BY <1>3, <2>1 DEF Put, TypeOK
  <2>6. \A m \in Lanes : \A i \in DOMAIN queue'[m] :
          \/ i \in DOMAIN queue[m] /\ queue'[m][i] = queue[m][i]
          \/ m = l /\ i = Len(queue[l]) + 1 /\ queue'[m][i] = w
    BY <2>1, <2>5
  <2>7. \A m \in Lanes : \A i \in DOMAIN queue[m] : queue[m][i] \in Writes /\ queue[m][i] # w
    BY <2>2 DEF QueuedAreOpen, TypeOK
  <2>8. \A k \in Workers : running[k] # w
    BY <2>2 DEF RunningAreOpen
  <2>9. QueuedAreOpen'
    BY <2>2, <2>3, <2>6, <2>7 DEF QueuedAreOpen
  <2>10. RunningAreOpen' /\ RunningOnce'
    BY <1>3, <2>3 DEF Put, RunningAreOpen, RunningOnce
  <2>11. QueuedOnce'
    BY <2>6, <2>7 DEF QueuedOnce
  <2>12. QueuedNotRunning'
    BY <1>3, <2>6, <2>8 DEF Put, QueuedNotRunning
  <2>13. QueuedUntried' /\ RunningTried'
    BY <1>3, <2>1, <2>6 DEF Put, QueuedUntried, RunningTried
  <2> QED
    BY <2>4, <2>9, <2>10, <2>11, <2>12, <2>13
<1>4. ASSUME NEW w \in Writes, Return(w)  PROVE PlacesInv'
  <2>1. PICK to \in {"ok", "error", "late"} : caller' = [caller EXCEPT ![w] = to]
    BY <1>4 DEF Return, DbInv, TypeOK
  <2> QED
    BY <1>4, <2>1, CallerMoves DEF Return
<1>5. ASSUME NEW w \in Writes, GiveUp(w)  PROVE PlacesInv'
  BY <1>5, CallerMoves DEF GiveUp
<1>6. ASSUME NEW k \in Workers, Take(k)  PROVE PlacesInv'
  <2> USE DEF DbInv, PlacesInv
  <2> DEFINE l == Lane[k]
             w == Head(queue[l])
  <2>1. l \in Lanes /\ queue[l] \in Seq(Writes) /\ queue[l] # <<>>
    BY <1>6 DEF Take, DbWritesAssumption, TypeOK
  <2>2. 1 \in DOMAIN queue[l] /\ w = queue[l][1] /\ w \in Writes
    BY <2>1
  <2>3. /\ \A m \in Lanes \ {l} : queue'[m] = queue[m]
        /\ \A i \in DOMAIN queue'[l] : i + 1 \in DOMAIN queue[l] /\ queue'[l][i] = queue[l][i + 1]
                                      /\ i \in Nat /\ i # 0
    BY <1>6, <2>1 DEF Take, TypeOK
  <2>4. \A m \in Lanes : \A i \in DOMAIN queue'[m] :
          \/ m # l /\ i \in DOMAIN queue[m] /\ queue'[m][i] = queue[m][i]
          \/ m = l /\ i \in Nat \ {0} /\ i + 1 \in DOMAIN queue[m] /\ queue'[m][i] = queue[m][i + 1]
    BY <2>1, <2>3
  <2>5. \A x \in Workers : running'[x] = IF x = k THEN w ELSE running[x]
    BY <1>6 DEF Take, TypeOK
  <2>6. UNCHANGED <<request, caller, repeats, outcome, effects>>
    BY <1>6 DEF Take
  <2>7. \A x \in Writes : OnItsWay(x) <=> OnItsWay(x)'
    BY <2>6 DEF OnItsWay
  <2>8. WriteStates'
    BY <2>6 DEF WriteStates
  <2>9. QueuedAreOpen'
    <3>1. \A m \in Lanes : \A i \in DOMAIN queue[m] : queue[m][i] \in Writes
      BY DEF TypeOK
    <3> QED
      BY <2>4, <2>7, <3>1 DEF QueuedAreOpen
  <2>10. RunningAreOpen'
    BY <2>1, <2>2, <2>5, <2>7 DEF RunningAreOpen, QueuedAreOpen
  <2>11. RunningOnce'
    BY <2>1, <2>2, <2>5 DEF RunningOnce, QueuedNotRunning
  <2>12. QueuedOnce'
    BY <2>4 DEF QueuedOnce
  <2>13. \A m \in Lanes : \A i \in DOMAIN queue'[m] : queue'[m][i] # w
    BY <2>1, <2>2, <2>4 DEF QueuedOnce
  <2>14. QueuedNotRunning'
    BY <2>4, <2>5, <2>13 DEF QueuedNotRunning
  <2>15. QueuedUntried' /\ effects[w] = 0
    BY <2>1, <2>2, <2>4, <2>6 DEF QueuedUntried
  <2>16. RunningTried'
    <3>1. \A x \in Workers : repeats[x] >= 0
      BY DEF TypeOK, DbWritesAssumption
    <3> QED
      BY <2>5, <2>6, <2>15, <3>1 DEF RunningTried
  <2> QED
    BY <2>8, <2>9, <2>10, <2>11, <2>12, <2>14, <2>15, <2>16
<1>7. ASSUME NEW k \in Workers, NEW applied \in BOOLEAN, TryAgain(k, applied)  PROVE PlacesInv'
  <2> USE DEF DbInv, PlacesInv
  <2> DEFINE w == running[k]
  <2>1. /\ w \in Writes /\ Effect(k, applied) /\ repeats' = [repeats EXCEPT ![k] = @ + 1]
        /\ UNCHANGED <<request, caller, queue, running, outcome>>
    BY <1>7 DEF TryAgain
  <2>2. /\ \A x \in Writes : x # w => effects'[x] = effects[x]
        /\ effects'[w] <= effects[w] + 1 /\ effects'[w] \in Nat /\ effects[w] \in Nat
    BY <2>1, EffectOfTry DEF TypeOK, DbWritesAssumption
  <2>3. caller[w] \notin {"new", "putting"}
    BY <2>1, RunningWrite
  <2>4. WriteStates'
    BY <2>1, <2>2, <2>3 DEF WriteStates
  <2>5. QueuedAreOpen' /\ RunningAreOpen' /\ QueuedOnce' /\ RunningOnce' /\ QueuedNotRunning'
    BY <2>1 DEF QueuedAreOpen, RunningAreOpen, QueuedOnce, RunningOnce, QueuedNotRunning, OnItsWay
  <2>6. QueuedUntried'
    BY <2>1, <2>2 DEF QueuedUntried, QueuedNotRunning, TypeOK
  <2>7. RunningTried'
    <3>1. SUFFICES ASSUME NEW x \in Workers, running[x] \in Writes
                   PROVE  effects'[running[x]] <= repeats'[x]
      BY <2>1 DEF RunningTried
    <3>2. CASE x = k
      <4>1. effects[w] <= repeats[k] /\ repeats[k] \in Nat /\ repeats'[k] = repeats[k] + 1
        BY <2>1 DEF RunningTried, TypeOK, DbWritesAssumption
      <4> QED
        BY <2>2, <3>2, <4>1
    <3>3. CASE x # k
      BY <2>1, <2>2, <3>1, <3>3 DEF RunningTried, RunningOnce, TypeOK
    <3> QED
      BY <3>2, <3>3
  <2> QED
    BY <2>4, <2>5, <2>6, <2>7
<1>8. ASSUME NEW k \in Workers, NEW applied \in BOOLEAN,
             \/ Executed(k, applied) \/ TriesRunOut(k, applied)
             \/ ExecuteFails(k, applied) \/ WorkerDies(k, applied)
      PROVE  PlacesInv'
  <2>1. PICK to \in {None, "dead"} : Ends(k, to)
    BY <1>8 DEF Executed, TriesRunOut, ExecuteFails, WorkerDies
  <2>2. Effect(k, applied)
    BY <1>8 DEF Executed, TriesRunOut, ExecuteFails, WorkerDies
  <2>3. \A w \in Writes : w # running[k] => outcome'[w] = outcome[w]
    BY <1>8 DEF Executed, TriesRunOut, ExecuteFails, WorkerDies, DbInv, TypeOK
  <2> QED
    BY <2>1, <2>2, <2>3, WorkerEnds
<1> QED
  BY <1>1, <1>2, <1>3, <1>4, <1>5, <1>6, <1>7, <1>8 DEF Next

LEMMA DbInit ==
  ASSUME DbWritesAssumption
  PROVE  Init => DbInv
<1> SUFFICES ASSUME Init PROVE DbInv
  OBVIOUS
<1>1. TypeOK
  <2>1. request \in [Writes -> Requests \cup {None}] /\ queue \in [Lanes -> Seq(Writes)]
    BY DEF Init
  <2>2. row \in [count : 0..MaxCount, terminal : BOOLEAN] /\ fails \in 0..MaxFails
    BY DEF Init, DbWritesAssumption
  <2>3. /\ caller \in [Writes -> {"new", "putting", "waiting", "ok", "error", "late"}]
        /\ running \in [Workers -> Writes \cup {None, "dead"}]
        /\ repeats \in [Workers -> 0..StatementTries - 1]
        /\ outcome \in [Writes -> {"open", "done", "failed", "timedOut"}]
        /\ effects \in [Writes -> 0..StatementTries]
    BY DEF Init, DbWritesAssumption
  <2> QED
    BY <2>1, <2>2, <2>3 DEF TypeOK
<1>2. WriteStates
  BY DEF Init, WriteStates
<1>3. QueuedAreOpen /\ QueuedOnce /\ QueuedNotRunning /\ QueuedUntried
  <2>1. \A l \in Lanes : DOMAIN queue[l] = {}
    BY DEF Init
  <2> QED
    BY <2>1 DEF QueuedAreOpen, QueuedOnce, QueuedNotRunning, QueuedUntried
<1>4. RunningAreOpen /\ RunningOnce /\ RunningTried
  BY DEF Init, RunningAreOpen, RunningOnce, RunningTried, DbWritesAssumption
<1> QED
  BY <1>1, <1>2, <1>3, <1>4 DEF DbInv, PlacesInv

\* Types, and every write in one place until it is executed.
THEOREM DbInvHolds ==
  ASSUME DbWritesAssumption
  PROVE  Spec => []DbInv
<1>1. Init => DbInv
  BY DbInit
<1>2. DbInv /\ [Next]_vars => DbInv'
  BY TypeStep, PlacesStep DEF DbInv
<1> QED
  BY <1>1, <1>2, PTL DEF Spec

\* The types of the queue, the calls and the row.
THEOREM DbTypeCorrect ==
  ASSUME DbWritesAssumption
  PROVE  Spec => []TypeOK
<1>1. DbInv => TypeOK
  BY DEF DbInv
<1> QED
  BY <1>1, DbInvHolds, PTL

-----------------------------------------------------------------------------
(* The row never goes back *)

LEMMA RowStep ==
  ASSUME DbWritesAssumption, DbInv, Next
  PROVE  row'.count >= row.count /\ (row.terminal => row'.terminal)
<1> TypeOK
  BY DEF DbInv
<1>1. CASE row' = row
  <2>1. row.count \in Int
    BY DEF TypeOK
  <2> QED
    BY <1>1, <2>1
<1>2. ASSUME NEW k \in Workers, NEW applied \in BOOLEAN, running[k] \in Writes, Effect(k, applied)
      PROVE  row'.count >= row.count /\ (row.terminal => row'.terminal)
  BY <1>2, EffectOfTry
<1>3. \/ \E k \in Workers, applied \in BOOLEAN : running[k] \in Writes /\ Effect(k, applied)
      \/ row' = row
  BY DEF Next, Call, Put, Return, GiveUp, Take, TryAgain, Executed, ExecuteFails, TriesRunOut,
         WorkerDies, Ends
<1> QED
  BY <1>1, <1>2, <1>3

\* Late, repeated and concurrent updates of one row (update_crawling_log_counters)
\* neither lower its counter nor turn a terminal status back.
THEOREM RowsMoveOn ==
  ASSUME DbWritesAssumption
  PROVE  Spec => RowMovesOn
<1>1. DbInv /\ [Next]_vars => [row'.count >= row.count /\ (row.terminal => row'.terminal)]_vars
  BY RowStep
<1> QED
  BY <1>1, DbInvHolds, PTL DEF Spec, RowMovesOn

-----------------------------------------------------------------------------
(* The refinement *)

\* The mapping, as functions of the state.
Stage(w) == IF caller[w] = "new" THEN "new"
            ELSE IF outcome[w] = "open" THEN "asked" ELSE outcome[w]
Answer(w) == IF caller[w] \in {"ok", "error", "late"} THEN caller[w] ELSE "none"

LEMMA OnceInit ==
  ASSUME DbWritesAssumption
  PROVE  Init => Once!Init
BY DEF Init, Once!Init

\* A step that changes neither effects nor what the mapping shows.
LEMMA OnceStutter ==
  ASSUME effects' = effects,
         \A w \in Writes : Stage(w)' = Stage(w) /\ Answer(w)' = Answer(w)
  PROVE  UNCHANGED Once!vars
BY DEF Once!vars, Stage, Answer

\* A run of the statement of one write, at whose end the execution may be over.
LEMMA OnceExecutes ==
  ASSUME DbWritesAssumption, DbInv, NEW k \in Workers, running[k] \in Writes,
         NEW applied \in BOOLEAN, Effect(k, applied), UNCHANGED caller,
         \/ outcome' = outcome
         \/ \E o \in {"done", "failed", "timedOut"} :
              outcome' = [outcome EXCEPT ![running[k]] = o]
  PROVE  Once!Next
<1>0. PICK w \in Writes : w = running[k]
  OBVIOUS
<1>1. /\ caller[w] \notin {"new", "putting"} /\ outcome[w] = "open"
      /\ effects[w] \in 0..StatementTries - 1
  BY <1>0, RunningWrite
<1>2. PICK o \in {"open", "done", "failed", "timedOut"} : outcome' = [outcome EXCEPT ![w] = o]
  <2>1. CASE outcome' = outcome
    <3>1. outcome' = [outcome EXCEPT ![w] = "open"]
      BY <1>1, <2>1 DEF DbInv, TypeOK
    <3> QED
      BY <3>1
  <2> QED
    BY <1>0, <2>1
<1>3. UNCHANGED effects \/ (effects[w] < StatementTries /\ effects' = [effects EXCEPT ![w] = @ + 1])
  <2>1. effects[w] < StatementTries
    BY <1>1 DEF DbWritesAssumption
  <2> QED
    BY <1>0, <2>1, EffectOfTry
<1>4. Once!Execute(w)
  <2> DEFINE st == [x \in Writes |-> Stage(x)]
             an == [x \in Writes |-> Answer(x)]
             s == IF o = "open" THEN "asked" ELSE o
  <2>1. Stage(w) = "asked"
    BY <1>1 DEF Stage
  <2>2. \A x \in Writes : Stage(x)' = IF x = w THEN s ELSE Stage(x)
    BY <1>1, <1>2 DEF Stage, DbInv, TypeOK
  <2>3. st[w] = "asked" /\ st' = [st EXCEPT ![w] = s]
    BY <2>1, <2>2
  <2>4. an' = an /\ s \in {"asked", "done", "failed", "timedOut"}
    BY DEF Answer
  <2> QED
    BY <1>3, <2>3, <2>4 DEF Once!Execute, Stage, Answer
<1> QED
  BY <1>4 DEF Once!Next

LEMMA OnceStep ==
  ASSUME DbWritesAssumption, DbInv, [Next]_vars
  PROVE  [Once!Next]_(Once!vars)
<1> TypeOK /\ WriteStates
  BY DEF DbInv, PlacesInv
<1> None \notin Writes
  BY DEF DbWritesAssumption
<1> SUFFICES Once!Next \/ UNCHANGED Once!vars
  OBVIOUS
<1>1. CASE UNCHANGED vars
  BY <1>1, OnceStutter DEF vars, Stage, Answer
<1>2. ASSUME NEW w \in Writes, NEW in \in Inputs[w], Call(w, in)  PROVE Once!Next
  <2> DEFINE st == [x \in Writes |-> Stage(x)]
             an == [x \in Writes |-> Answer(x)]
  <2>1. caller[w] = "new" /\ outcome[w] = "open"
    BY <1>2 DEF Call, WriteStates
  <2>2. st[w] = "new" /\ st' = [st EXCEPT ![w] = "asked"]
    BY <1>2, <2>1 DEF Call, TypeOK, Stage
  <2>3. an' = an /\ effects' = effects
    BY <1>2 DEF Call, TypeOK, Answer
  <2>4. Once!Ask(w)
    BY <2>2, <2>3 DEF Once!Ask, Stage, Answer
  <2> QED
    BY <2>4 DEF Once!Next
<1>3. ASSUME NEW w \in Writes, Put(w)  PROVE UNCHANGED Once!vars
  <2>1. \A x \in Writes : Stage(x)' = Stage(x) /\ Answer(x)' = Answer(x)
    BY <1>3 DEF Put, TypeOK, Stage, Answer
  <2> QED
    BY <1>3, <2>1, OnceStutter DEF Put
<1>4. ASSUME NEW w \in Writes, NEW a \in {"ok", "error", "late"}, caller[w] = "waiting",
             caller' = [caller EXCEPT ![w] = a], UNCHANGED <<outcome, effects>>,
             \/ outcome[w] = "done" /\ a = "ok"
             \/ outcome[w] = "failed" /\ a = "error"
             \/ outcome[w] \in {"open", "timedOut"} /\ a = "late"
      PROVE  Once!Next
  <2> DEFINE st == [x \in Writes |-> Stage(x)]
             an == [x \in Writes |-> Answer(x)]
  <2>1. st' = st
    BY <1>4 DEF TypeOK, Stage
  <2>2. an[w] = "none" /\ an' = [an EXCEPT ![w] = a]
    BY <1>4 DEF TypeOK, Answer
  <2>3. st[w] = IF outcome[w] = "open" THEN "asked" ELSE outcome[w]
    BY <1>4 DEF Stage
  <2>4. Once!Answer(w)
    BY <1>4, <2>1, <2>2, <2>3 DEF Once!Answer, Stage, Answer
  <2> QED
    BY <2>4 DEF Once!Next
<1>5. ASSUME NEW w \in Writes, Return(w) \/ GiveUp(w)  PROVE Once!Next
  BY <1>4, <1>5 DEF Return, GiveUp, TypeOK
<1>6. ASSUME NEW k \in Workers, Take(k)  PROVE UNCHANGED Once!vars
  BY <1>6, OnceStutter DEF Take, Stage, Answer
<1>7. ASSUME NEW k \in Workers, NEW applied \in BOOLEAN,
             \/ TryAgain(k, applied) \/ TriesRunOut(k, applied)
             \/ Executed(k, applied) \/ ExecuteFails(k, applied) \/ WorkerDies(k, applied)
      PROVE  Once!Next
  <2>1. running[k] \in Writes /\ Effect(k, applied) /\ UNCHANGED caller
    BY <1>7 DEF TryAgain, TriesRunOut, Executed, ExecuteFails, WorkerDies, Ends
  <2>2. \/ outcome' = outcome
        \/ \E o \in {"done", "failed", "timedOut"} :
             outcome' = [outcome EXCEPT ![running[k]] = o]
    BY <1>7 DEF TryAgain, TriesRunOut, Executed, ExecuteFails, WorkerDies
  <2> QED
    BY <2>1, <2>2, OnceExecutes
<1> QED
  BY <1>1, <1>2, <1>3, <1>5, <1>6, <1>7 DEF Next

\* run_db_write keeps the promise of WriteOnce: whatever times out, is repeated, fails
\* or dies, a write has one execution with at most StatementTries effects, none of
\* them after the execution has ended, and callers are told how it ended.
THEOREM QueueExecutesOnce ==
  ASSUME DbWritesAssumption
  PROVE  Spec => ExecutedOnce
<1>1. Init => Once!Init
  BY OnceInit
<1>2. DbInv /\ [Next]_vars => [Once!Next]_(Once!vars)
  BY OnceStep
<1> QED
  BY <1>1, <1>2, DbInvHolds, PTL DEF Spec, ExecutedOnce, Once!Spec

=============================================================================
