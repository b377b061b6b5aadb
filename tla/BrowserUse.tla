------------------------------ MODULE BrowserUse ------------------------------
(***************************************************************************)
(* The browser of the global worker pool (core/crawler/global_pool.py) and *)
(* the downloads that fall back to it (download_item and                   *)
(* _download_with_playwright of core/crawler/workers/download.py).         *)
(*                                                                         *)
(* A fallback takes a permit of its worker, then, per attempt, a lease on  *)
(* the pool's browser, and relaunches the browser when it is gone: before  *)
(* the download, in it, or before the next attempt.  A relaunch launches a *)
(* browser under a lock, retires the one it replaces, and that one is      *)
(* closed with its last lease.  A browser that a download relaunched for   *)
(* itself is used without a lease.                                         *)
(*                                                                         *)
(* The counters and dictionaries change without an await; the launch and   *)
(* the wait for the lock are the steps between which others run.           *)
(***************************************************************************)
EXTENDS Integers, FiniteSets

CONSTANTS
  Fallbacks,    \* downloads of a worker that fall back to the browser
  MaxBrowsers,  \* bound: browsers that may be launched, the first one included
  Permits,      \* DOWNLOAD_PLAYWRIGHT_FALLBACK_CONCURRENCY
  Attempts,     \* per_item_pw_attempts
  SyncAfterDownload,  \* sync_after_download of the items
  MaxCrashes,   \* bound: browsers that die by themselves
  None

BrowserUseAssumption ==
  /\ IsFiniteSet(Fallbacks)
  /\ None \notin Fallbacks \cup Nat
  /\ {MaxBrowsers, Permits, Attempts} \subseteq Nat \ {0}
  /\ SyncAfterDownload \in BOOLEAN
  /\ MaxCrashes \in Nat

\* The browsers, in the order of their launches; the pool starts with the first.
Browsers == 1..MaxBrowsers

VARIABLES
  browser,      \* _browser
  launched,     \* how many were launched so far
  connected,    \* those that neither died nor were closed
  useCount,     \* _browser_use_count
  retired,      \* _retired_browsers
  closing,      \* those with a cleanup task
  relauncher,   \* the fallback that holds _relaunch_lock
  pc,
  purpose,      \* why a fallback relaunches
  replaces,     \* old_browser of its relaunch
  lease,        \* current_browser of its attempt
  tries,        \* p_attempt
  permits,      \* what is left of playwright_fallback_sem
  crashes

poolVars == <<browser, launched, connected, useCount, retired, closing>>
vars == <<poolVars, relauncher, pc, purpose, replaces, lease, tries, permits, crashes>>

Holding == {"attempt", "wait", "launch", "use", "again"}

TypeOK ==
  /\ browser \in Browsers
  /\ launched \in Browsers
  /\ {connected, retired, closing} \subseteq SUBSET Browsers
  /\ useCount \in [Browsers -> 0..Cardinality(Fallbacks)]
  /\ relauncher \in Fallbacks \cup {None}
  /\ pc \in [Fallbacks -> {"idle", "end"} \cup Holding]
  /\ purpose \in [Fallbacks -> {"missing", "inside", "retry"}]
  /\ replaces \in [Fallbacks -> Browsers]
  /\ lease \in [Fallbacks -> Browsers \cup {None}]
  /\ tries \in [Fallbacks -> 1..Attempts]
  /\ permits \in 0..Permits
  /\ crashes \in 0..MaxCrashes

Init ==
  /\ browser = 1
  /\ launched = 1
  /\ connected = {1}
  /\ useCount = [b \in Browsers |-> 0]
  /\ retired = {} /\ closing = {}
  /\ relauncher = None
  /\ pc = [f \in Fallbacks |-> "idle"]
  /\ purpose = [f \in Fallbacks |-> "missing"]
  /\ replaces = [f \in Fallbacks |-> 1]
  /\ lease = [f \in Fallbacks |-> None]
  /\ tries = [f \in Fallbacks |-> 1]
  /\ permits = Permits
  /\ crashes = 0

Go(f, to) == pc' = [pc EXCEPT ![f] = to]

-----------------------------------------------------------------------------
(* acquire_browser, release_browser, _schedule_retired_browser_cleanup *)

Acquire(f, b) ==
  /\ useCount' = [useCount EXCEPT ![b] = @ + 1]
  /\ lease' = [lease EXCEPT ![f] = b]

\* The last lease on a retired browser closes it.
Release(f) ==
  IF lease[f] = None THEN UNCHANGED <<useCount, retired, closing, lease>>
  ELSE LET b == lease[f]
           last == useCount[b] <= 1 /\ b \in retired
       IN
       /\ useCount' = [useCount EXCEPT ![b] = IF @ <= 1 THEN 0 ELSE @ - 1]
       /\ retired' = IF last THEN retired \ {b} ELSE retired
       /\ closing' = IF last THEN closing \cup {b} ELSE closing
       /\ lease' = [lease EXCEPT ![f] = None]

\* A browser that is replaced is retired, and closed at once if nobody uses it.
Retire(b) ==
  IF useCount[b] > 0 THEN retired' = retired \cup {b} /\ UNCHANGED closing
  ELSE closing' = closing \cup {b} /\ retired' = retired \ {b}

\* _close_browser_instance
Close(b) ==
  /\ b \in closing
  /\ closing' = closing \ {b}
  /\ connected' = connected \ {b}
  /\ UNCHANGED <<browser, launched, useCount, retired, relauncher, pc, purpose, replaces,
                 lease, tries, permits, crashes>>

Crash(b) ==
  /\ b \in connected
  /\ crashes < MaxCrashes
  /\ crashes' = crashes + 1
  /\ connected' = connected \ {b}
  /\ UNCHANGED <<browser, launched, useCount, retired, closing, relauncher, pc, purpose,
                 replaces, lease, tries, permits>>

-----------------------------------------------------------------------------
(* The fallback *)

Enter(f) ==
  /\ pc[f] = "idle"
  /\ permits > 0
  /\ permits' = permits - 1
  /\ Go(f, "attempt")
  /\ UNCHANGED <<poolVars, relauncher, purpose, replaces, lease, tries, crashes>>

\* An attempt leases the browser; one that is disconnected is given back at once.
Attempt(f) ==
  /\ pc[f] = "attempt"
  /\ IF browser \in connected
     THEN Acquire(f, browser) /\ Go(f, "use") /\ UNCHANGED purpose
     ELSE /\ Go(f, "wait")
          /\ purpose' = [purpose EXCEPT ![f] = "missing"]
          /\ UNCHANGED <<useCount, lease>>
  /\ UNCHANGED <<browser, launched, connected, retired, closing, relauncher, replaces, tries,
                 permits, crashes>>

\* Faulty variant: the lock is not waited for.
BeginRelaunchUnlocked(f) ==
  /\ pc[f] = "wait"
  /\ relauncher' = f
  /\ replaces' = [replaces EXCEPT ![f] = browser]
  /\ Go(f, "launch")
  /\ UNCHANGED <<poolVars, purpose, lease, tries, permits, crashes>>

\* _relaunch_browser has the lock and starts to launch.
BeginRelaunch(f) ==
  /\ pc[f] = "wait"
  /\ relauncher = None
  /\ relauncher' = f
  /\ replaces' = [replaces EXCEPT ![f] = browser]
  /\ Go(f, "launch")
  /\ UNCHANGED <<poolVars, purpose, lease, tries, permits, crashes>>

\* The browser is there, and the code that asked for it goes on: with a lease on
\* it, without one in the middle of the download, or with the next attempt.
Relaunched(f) ==
  LET b == launched + 1 IN
  /\ pc[f] = "launch"
  /\ b \in Browsers
  /\ browser' = b
  /\ launched' = b
  /\ connected' = connected \cup {b}
  /\ relauncher' = None
  /\ Retire(replaces[f])
  /\ IF purpose[f] = "missing" THEN Acquire(f, b) ELSE UNCHANGED <<useCount, lease>>
  /\ Go(f, IF purpose[f] = "retry" THEN "again" ELSE "use")
  /\ UNCHANGED <<purpose, replaces, tries, permits, crashes>>

\* An attempt failed.  While there are attempts left, the download was cancelled
\* and is repeated (again), or its target was closed or it ran into a timeout,
\* and the browser is relaunched first, the lease still held (wait).
AfterFailure(f, to) ==
  /\ to = "end" \/ tries[f] < Attempts
  /\ Go(f, to)
  /\ purpose' = [purpose EXCEPT ![f] = IF to = "wait" THEN "retry" ELSE @]
  /\ IF to = "end" THEN permits' = permits + 1 /\ Release(f)
     ELSE UNCHANGED <<permits, useCount, retired, closing, lease>>

\* The launch raises; before a retry that is ignored.
LaunchFails(f, to) ==
  /\ pc[f] = "launch"
  /\ relauncher' = None
  /\ IF purpose[f] = "retry"
     THEN /\ to = "again"
          /\ Go(f, "again")
          /\ UNCHANGED <<useCount, retired, closing, lease, purpose, permits>>
     ELSE AfterFailure(f, to)
  /\ UNCHANGED <<browser, launched, connected, replaces, tries, crashes>>

DownloadFails(f, to) ==
  /\ pc[f] = "use"
  /\ AfterFailure(f, to)
  /\ UNCHANGED <<browser, launched, connected, relauncher, replaces, tries, crashes>>

\* _relaunch_browser_for_target_closed in the middle of the download.
TargetClosed(f) ==
  /\ pc[f] = "use"
  /\ purpose' = [purpose EXCEPT ![f] = "inside"]
  /\ Go(f, "wait")
  /\ UNCHANGED <<poolVars, relauncher, replaces, lease, tries, permits, crashes>>

\* The end of an attempt: its lease is given back, and the next one begins.
Again(f) ==
  /\ pc[f] = "again"
  /\ Release(f)
  /\ tries' = [tries EXCEPT ![f] = @ + 1]
  /\ Go(f, "attempt")
  /\ UNCHANGED <<browser, launched, connected, relauncher, purpose, replaces, permits, crashes>>

\* The file is there, or there is none.
Downloaded(f) ==
  /\ pc[f] = "use"
  /\ Release(f)
  /\ permits' = permits + 1
  /\ Go(f, "end")
  /\ UNCHANGED <<browser, launched, connected, relauncher, purpose, replaces, tries, crashes>>

\* The file is there and was not synced to the web server: the function returns at
\* once, and the permit is not given back.
SyncFails(f) ==
  /\ pc[f] = "use"
  /\ SyncAfterDownload
  /\ Release(f)
  /\ Go(f, "end")
  /\ UNCHANGED <<browser, launched, connected, relauncher, purpose, replaces, tries, permits,
                 crashes>>

-----------------------------------------------------------------------------

Fallback(f) ==
  \/ Enter(f) \/ Attempt(f) \/ BeginRelaunch(f) \/ TargetClosed(f) \/ Again(f)
  \/ Relaunched(f) \/ Downloaded(f) \/ SyncFails(f)
  \/ \E to \in {"again", "wait", "end"} : LaunchFails(f, to) \/ DownloadFails(f, to)

Next ==
  \/ \E f \in Fallbacks : Fallback(f)
  \/ \E b \in Browsers : Close(b) \/ Crash(b)

Spec == Init /\ [][Next]_vars

\* asyncio runs every fallback that can go on; launches and downloads have timeouts.
FairSpec == Spec /\ \A f \in Fallbacks : WF_vars(Fallback(f))

-----------------------------------------------------------------------------
(* Properties *)

\* The books of the pool are right however relaunches and leases overlap: the use
\* count of a browser is the number of its leases; a browser that is being closed
\* has none; and every browser that still runs is the current one, is being closed,
\* or is retired with a lease whose end will close it - none is forgotten.
BrowsersAccounted ==
  \A b \in Browsers :
    /\ useCount[b] = Cardinality({f \in Fallbacks : lease[f] = b})
    /\ b \in closing => useCount[b] = 0 /\ b # browser
    /\ b \in connected => b = browser \/ b \in closing \/ (b \in retired /\ useCount[b] > 0)

\* core/crawler/workers/download.py: a fallback is retried a limited number of times
\* so that nothing waits without end; so every fallback comes to its end.
FallbacksEnd == \A f \in Fallbacks : <>(pc[f] = "end")

=============================================================================
