-------------------------- MODULE MCEmbeddingBatch --------------------------
(* Small instances of EmbeddingBatch for TLC. *)
EXTENDS EmbeddingBatch, TLC

CONSTANTS i1, i2, j1, b1, b2, c1, c2, k1

MCItems == {i1, i2}
MCJobs == {j1}
MCJobOf == [i \in MCItems |-> j1]
MCBatches == {b1, b2}
MCCallbacks == {c1, c2}
MCCancels == {k1}

\* One item and one batch, for the runs with faults.
MCItems1 == {i1}
MCJobOf1 == [i \in MCItems1 |-> j1]
MCBatches1 == {b1}

\* The items share their job, so items, batches and callbacks are interchangeable.
MCSymmetry ==
  Permutations(MCItems) \cup Permutations(MCBatches) \cup Permutations(MCCallbacks)

=============================================================================
