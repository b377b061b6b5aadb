---------------------------- MODULE MCScanQueue ----------------------------
(* One worker and an item for each lane. *)
EXTENDS ScanQueue

CONSTANTS h1, l1, w1

MCItemPair == {h1, l1}
MCHighItem == {h1}
MCWorker == {w1}

=============================================================================
