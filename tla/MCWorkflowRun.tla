---------------------------- MODULE MCWorkflowRun ----------------------------
(* Two dispatches of one job and one of another that crawls the same. *)
EXTENDS WorkflowRun

CONSTANTS a1, a2, b1, a, b

MCRuns == {a1, a2, b1}
MCJobs == {a, b}
MCJobOf == [r \in MCRuns |-> IF r = b1 THEN b ELSE a]

\* CRAWL_DUPLICATE_LOCK_BLOCK_DIFFERENT_JOB_IDS has its default.
MCBlockModes == {FALSE}

=============================================================================
