--------------------------- MODULE MCGlobalPool ---------------------------
(* Small instances of GlobalPool for TLC. *)
EXTENDS GlobalPool

CONSTANTS j1, j2, j3

MCJobs == {j1, j2}
MCJobs3 == {j1, j2, j3}

=============================================================================
