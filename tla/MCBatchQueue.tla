--------------------------- MODULE MCBatchQueue ---------------------------
(* Small instances of BatchQueue for TLC. *)
EXTENDS BatchQueue

CONSTANTS j1, j2, w1, w2, a1, a2, a3, b1

MCJobs == {j1, j2}
MCJob1 == {j1}
MCNone == {}
MCWorkers == {w1, w2}
MCWorker1 == {w1}

MCItems3 == {a1, a2, a3}
MCItemsTwoJobs == {a1, a2, a3, b1}

InJobs(items) == [i \in items |-> IF i = b1 THEN j2 ELSE j1]
MCJobOf3 == InJobs(MCItems3)
MCJobOfTwoJobs == InJobs(MCItemsTwoJobs)

=============================================================================
