------------------------------- MODULE UrlClaim -------------------------------
(***************************************************************************)
(* The claim on a URL (core/crawler/dedup.py) that keeps workers of        *)
(* different jobs from processing it at the same time, as the scan worker  *)
(* and the collection worker use it.  The claim is a key in Redis with the *)
(* job as its value and a TTL.  After the work it is deleted, or kept with *)
(* a new TTL so that the URL is not processed again at once.               *)
(*                                                                         *)
(* The release reads the owner and then removes the key: between the two   *)
(* Redis calls, as during the work, the key may expire and be claimed by   *)
(* somebody else.  A call that raises lets the worker go on (fail open).   *)
(***************************************************************************)
EXTENDS Integers, FiniteSets

CONSTANTS
  Workers,      \* workers that meet the URL, one activation each
  Jobs,
  JobOf,
  MaxExpired,   \* bound: claims that run out
  MaxFails,     \* bound: Redis calls that fail
  None

UrlClaimAssumption ==
  /\ JobOf \in [Workers -> Jobs]
  /\ IsFiniteSet(Workers)
  /\ None \notin Jobs
  /\ {MaxExpired, MaxFails} \subseteq Nat

VARIABLES
  pc,       \* where a worker is
  keep,     \* keep_recent of its release
  claim,    \* the key: the job that set it
  recent,   \* the key is kept after the work
  expired,  \* claims that ran out
  fails     \* Redis calls that failed

vars == <<pc, keep, claim, recent, expired, fails>>

Working == {"working", "get", "drop"}

TypeOK ==
  /\ pc \in [Workers -> {"idle", "end"} \cup Working]
  /\ keep \in [Workers -> BOOLEAN]
  /\ claim \in Jobs \cup {None}
  /\ recent \in BOOLEAN
  /\ expired \in 0..MaxExpired
  /\ fails \in 0..MaxFails

Init ==
  /\ pc = [w \in Workers |-> "idle"]
  /\ keep = [w \in Workers |-> FALSE]
  /\ claim = None
  /\ recent = FALSE
  /\ expired = 0
  /\ fails = 0

Go(w, to) == pc' = [pc EXCEPT ![w] = to]
Fail == fails < MaxFails /\ fails' = fails + 1

\* SET NX
SetClaim(w) ==
  /\ claim' = JobOf[w]
  /\ recent' = FALSE

\* Faulty variant: SET without NX.
AcquireOverwrites(w) ==
  /\ pc[w] = "idle"
  /\ SetClaim(w)
  /\ Go(w, "working")
  /\ UNCHANGED <<keep, expired, fails>>

\* try_acquire_cross_job_claim: a URL that is claimed is skipped.
Acquire(w) ==
  /\ pc[w] = "idle"
  /\ IF claim = None THEN SetClaim(w) /\ Go(w, "working")
     ELSE Go(w, "end") /\ UNCHANGED <<claim, recent>>
  /\ UNCHANGED <<keep, expired, fails>>

\* The call raised, having taken effect or not: the worker works all the same.
AcquireFails(w, applied) ==
  /\ pc[w] = "idle"
  /\ Fail
  /\ IF applied /\ claim = None THEN SetClaim(w) ELSE UNCHANGED <<claim, recent>>
  /\ Go(w, "working")
  /\ UNCHANGED <<keep, expired>>

\* The work is over: keep_recent tells whether the result is worth keeping.
Processed(w, k) ==
  /\ pc[w] = "working"
  /\ keep' = [keep EXCEPT ![w] = k]
  /\ Go(w, "get")
  /\ UNCHANGED <<claim, recent, expired, fails>>

\* The scan worker fails between the claim and its try (no browser, no page), or
\* is cancelled: no release.
Abandon(w) ==
  /\ pc[w] = "working"
  /\ Go(w, "end")
  /\ UNCHANGED <<keep, claim, recent, expired, fails>>

\* release_cross_job_claim: the owner is read ...
GetOwner(w) ==
  /\ pc[w] = "get"
  /\ Go(w, IF claim = JobOf[w] THEN "drop" ELSE "end")
  /\ UNCHANGED <<keep, claim, recent, expired, fails>>

\* EXPIRE or DELETE of the key as it is now.
Removed(w) ==
  IF keep[w] THEN /\ recent' = (claim # None)
                  /\ UNCHANGED claim
  ELSE /\ claim' = None
       /\ recent' = FALSE

\* ... and the key is removed.
Drop(w) ==
  /\ pc[w] = "drop"
  /\ Removed(w)
  /\ Go(w, "end")
  /\ UNCHANGED <<keep, expired, fails>>

ReleaseFails(w, applied) ==
  /\ pc[w] \in {"get", "drop"}
  /\ Fail
  /\ IF applied /\ pc[w] = "drop" THEN Removed(w) ELSE UNCHANGED <<claim, recent>>
  /\ Go(w, "end")
  /\ UNCHANGED <<keep, expired>>

\* The TTL is over: of a kept key as intended, of a claim before its release.
Expire ==
  /\ claim # None
  /\ recent \/ expired < MaxExpired
  /\ expired' = IF recent THEN expired ELSE expired + 1
  /\ claim' = None
  /\ recent' = FALSE
  /\ UNCHANGED <<pc, keep, fails>>

Next ==
  \/ \E w \in Workers :
       \/ Acquire(w) \/ Abandon(w) \/ GetOwner(w) \/ Drop(w)
       \/ \E b \in BOOLEAN : AcquireFails(w, b) \/ Processed(w, b) \/ ReleaseFails(w, b)
  \/ Expire

Spec == Init /\ [][Next]_vars

-----------------------------------------------------------------------------
(* Properties *)

\* The workers on the URL, those included that are about to remove the key.
Busy == {w \in Workers : pc[w] \in Working}

\* At most one worker is on the URL, and one more for each claim that ran
\* out and each call that failed: no order of claims and of their two-step
\* releases, by workers of one job or of several, lets in more.
OverlapsPaidFor ==
  Cardinality(Busy) <= (IF claim # None /\ ~recent THEN 1 ELSE 0) + expired + fails

=============================================================================
