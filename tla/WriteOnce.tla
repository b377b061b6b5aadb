------------------------------ MODULE WriteOnce ------------------------------
(***************************************************************************)
(* What run_db_write promises its caller, without queues, lanes, workers   *)
(* or limits: a write that was asked for is executed at most once, with a  *)
(* bounded number of runs of its statement, and nothing of it happens once *)
(* the execution has ended.  An answer tells how the execution ended, not  *)
(* whether the statement took effect; a caller that gives up changes       *)
(* nothing about the write.                                                *)
(***************************************************************************)
EXTENDS Naturals

CONSTANTS
  Writes,
  Tries     \* bound on the runs of the statement of one write

VARIABLES
  stage,    \* new, asked for, done, failed or timedOut
  effects,  \* how often the statement took effect
  answer    \* what the caller was told

vars == <<stage, effects, answer>>

Init ==
  /\ stage = [w \in Writes |-> "new"]
  /\ effects = [w \in Writes |-> 0]
  /\ answer = [w \in Writes |-> "none"]

Ask(w) ==
  /\ stage[w] = "new"
  /\ stage' = [stage EXCEPT ![w] = "asked"]
  /\ UNCHANGED <<effects, answer>>

\* The execution of w: its statement takes effect, or ends the execution, or both.
Execute(w) ==
  /\ stage[w] = "asked"
  /\ \E s \in {"asked", "done", "failed", "timedOut"} : stage' = [stage EXCEPT ![w] = s]
  /\ \/ UNCHANGED effects
     \/ effects[w] < Tries /\ effects' = [effects EXCEPT ![w] = @ + 1]
  /\ UNCHANGED answer

\* "late" is the answer to a caller that gives up, and to one whose statement timed
\* out every time.
Answer(w) ==
  /\ answer[w] = "none"
  /\ \/ stage[w] = "done" /\ answer' = [answer EXCEPT ![w] = "ok"]
     \/ stage[w] = "failed" /\ answer' = [answer EXCEPT ![w] = "error"]
     \/ stage[w] \in {"asked", "timedOut"} /\ answer' = [answer EXCEPT ![w] = "late"]
  /\ UNCHANGED <<stage, effects>>

Next == \E w \in Writes : Ask(w) \/ Execute(w) \/ Answer(w)

Spec == Init /\ [][Next]_vars

=============================================================================
