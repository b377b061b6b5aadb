---------------------------- MODULE MCSsePublish ----------------------------
(* Small instances of SsePublish for TLC. *)
EXTENDS SsePublish

CONSTANTS j1, j2

MCJobs == {j1, j2}
MCJob1 == {j1}
Input(status, rev, count, pri) ==
  [status |-> status, rev |-> rev, count |-> count, pri |-> pri]

\* A running and an urgent input.
MCTwoInputs == {Input("running", NoRev, 0, 0), Input("terminal", NoRev, 0, -1)}

\* Every status, the counter of a known revision being that of its snapshot; a
\* payload without revision is the database summary.
MCAllInputs ==
  {Input("running", 1, 1, -1), Input("running", NoRev, 0, 0),
   Input("stop_requested", 1, 1, 0), Input("terminal", 0, 0, -1)}

=============================================================================
