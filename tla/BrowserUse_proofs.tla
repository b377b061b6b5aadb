--------------------------- MODULE BrowserUse_proofs ---------------------------
(***************************************************************************)
(* The books that the pool keeps of its browsers, for any number of        *)
(* fallbacks, browsers, permits and attempts.                              *)
(***************************************************************************)
EXTENDS BrowserUse, FiniteSetTheorems, TLAPS

Users(b) == {f \in Fallbacks : lease[f] = b}
Purposes == {"missing", "inside", "retry"}

PoolTypes ==
  /\ browser \in Browsers /\ launched \in Browsers
  /\ {connected, retired, closing} \subseteq SUBSET Browsers
  /\ useCount \in [Browsers -> Nat]
  /\ lease \in [Fallbacks -> Browsers \cup {None}]
FallbackTypes ==
  /\ pc \in [Fallbacks -> {"idle", "end"} \cup Holding]
  /\ purpose \in [Fallbacks -> Purposes]
  /\ replaces \in [Fallbacks -> Browsers]

\* Use counts are the leases.
LeasesCounted == \A b \in Browsers : useCount[b] = Cardinality(Users(b))
\* A browser that is being closed is not in use; every one that runs is looked after.
ClosingUnused == \A b \in closing : useCount[b] = 0 /\ b # browser
RunningKnown ==
  \A b \in connected : b = browser \/ b \in closing \/ (b \in retired /\ useCount[b] > 0)
\* Launches are numbered, and the current browser is not retired.
Numbered == browser \notin retired /\ \A b \in retired \cup closing \cup {browser} : b <= launched
\* The fallback that relaunches has the lock and replaces the current browser.
LockHeld == \A f \in Fallbacks : pc[f] = "launch" => relauncher = f /\ replaces[f] = browser
\* Where a fallback has no lease.
NoLease ==
  \A f \in Fallbacks :
    \/ pc[f] \in {"idle", "attempt", "end"}
    \/ pc[f] \in {"wait", "launch"} /\ purpose[f] = "missing"
    => lease[f] = None

Books == LeasesCounted /\ ClosingUnused /\ RunningKnown /\ Numbered
BrowserInv == PoolTypes /\ FallbackTypes /\ Books /\ LockHeld /\ NoLease

-----------------------------------------------------------------------------
(* Leases *)

LEMMA UsersFinite ==
  ASSUME BrowserUseAssumption, NEW b
  PROVE  IsFiniteSet(Users(b)) /\ Cardinality(Users(b)) \in Nat
<1>1. Users(b) \subseteq Fallbacks
  BY DEF Users
<1> QED
  BY <1>1, FS_Subset, FS_CardinalityType DEF BrowserUseAssumption

\* A lease is taken.
LEMMA AcquireCounts ==
  ASSUME BrowserUseAssumption, PoolTypes, LeasesCounted,
         NEW f \in Fallbacks, NEW b \in Browsers, lease[f] = None, Acquire(f, b)
  PROVE  /\ useCount' \in [Browsers -> Nat] /\ lease' \in [Fallbacks -> Browsers \cup {None}]
         /\ LeasesCounted'
         /\ useCount'[b] > 0 /\ \A c \in Browsers \ {b} : useCount'[c] = useCount[c]
<1>1. useCount' = [useCount EXCEPT ![b] = useCount[b] + 1] /\ lease' = [lease EXCEPT ![f] = b]
  BY DEF Acquire
<1>2. useCount[b] \in Nat /\ useCount[b] + 1 \in Nat /\ useCount[b] + 1 > 0
  BY DEF PoolTypes
<1>3. useCount' \in [Browsers -> Nat] /\ lease' \in [Fallbacks -> Browsers \cup {None}]
  BY <1>1, <1>2 DEF PoolTypes
<1>4. useCount'[b] = useCount[b] + 1 /\ \A c \in Browsers \ {b} : useCount'[c] = useCount[c]
  BY <1>1 DEF PoolTypes
<1>5. None \notin Browsers
  BY DEF BrowserUseAssumption, Browsers
<1>6. Users(b)' = Users(b) \cup {f} /\ f \notin Users(b)
  BY <1>1, <1>5 DEF Users, PoolTypes
<1>7. \A c \in Browsers \ {b} : Users(c)' = Users(c)
  BY <1>1, <1>5 DEF Users, PoolTypes
<1>8. Cardinality(Users(b)') = Cardinality(Users(b)) + 1
  BY <1>6, UsersFinite, FS_AddElement
<1>9. LeasesCounted'
  BY <1>4, <1>7, <1>8 DEF LeasesCounted
<1> QED
  BY <1>2, <1>3, <1>4, <1>9

\* A lease is given back: the count goes down, and nobody else's changes.
LEMMA ReleaseCounts ==
  ASSUME BrowserUseAssumption, PoolTypes, LeasesCounted,
         NEW f \in Fallbacks, NEW b \in Browsers, lease[f] = b,
         useCount' = [useCount EXCEPT ![b] = IF useCount[b] <= 1 THEN 0 ELSE useCount[b] - 1],
         lease' = [lease EXCEPT ![f] = None]
  PROVE  /\ useCount' \in [Browsers -> Nat] /\ lease' \in [Fallbacks -> Browsers \cup {None}]
         /\ LeasesCounted'
         /\ useCount[b] > 0
         /\ IF useCount[b] <= 1 THEN useCount'[b] = 0 ELSE useCount'[b] > 0
         /\ \A c \in Browsers \ {b} : useCount'[c] = useCount[c]
<1>1. None \notin Browsers
  BY DEF BrowserUseAssumption, Browsers
<1>2. Users(b)' = Users(b) \ {f} /\ f \in Users(b)
  BY <1>1 DEF Users, PoolTypes
<1>3. \A c \in Browsers \ {b} : Users(c)' = Users(c)
  BY <1>1 DEF Users, PoolTypes
<1>4. Cardinality(Users(b)') = Cardinality(Users(b)) - 1
  BY <1>2, UsersFinite, FS_RemoveElement
<1>5. Cardinality(Users(b)) \in Nat /\ Cardinality(Users(b)) # 0
  BY <1>2, UsersFinite, FS_EmptySet
<1>6. useCount[b] = Cardinality(Users(b)) /\ useCount[b] \in Nat /\ useCount[b] > 0
  BY <1>5 DEF LeasesCounted
<1>7. (IF useCount[b] <= 1 THEN 0 ELSE useCount[b] - 1) = useCount[b] - 1 /\ useCount[b] - 1 \in Nat
  BY <1>6
<1>8. useCount'[b] = useCount[b] - 1 /\ \A c \in Browsers \ {b} : useCount'[c] = useCount[c]
  BY <1>7 DEF PoolTypes
<1>9. useCount' \in [Browsers -> Nat] /\ lease' \in [Fallbacks -> Browsers \cup {None}]
  BY <1>7 DEF PoolTypes
<1>10. LeasesCounted'
  BY <1>3, <1>4, <1>6, <1>8 DEF LeasesCounted
<1>11. IF useCount[b] <= 1 THEN useCount'[b] = 0 ELSE useCount'[b] > 0
  BY <1>6, <1>8
<1> QED
  BY <1>6, <1>8, <1>9, <1>10, <1>11

\* The end of a lease keeps the books.
LEMMA ReleaseBooks ==
  ASSUME BrowserUseAssumption, PoolTypes, Books, NEW f \in Fallbacks, Release(f),
         UNCHANGED <<browser, launched, connected>>
  PROVE  /\ PoolTypes' /\ Books'
         /\ lease'[f] = None /\ \A g \in Fallbacks \ {f} : lease'[g] = lease[g]
<1> USE DEF Books
<1>1. CASE lease[f] = None
  <2>1. UNCHANGED <<useCount, retired, closing, lease>>
    BY <1>1 DEF Release
  <2>2. PoolTypes' /\ LeasesCounted' /\ ClosingUnused' /\ RunningKnown' /\ Numbered'
    BY <2>1 DEF PoolTypes, LeasesCounted, ClosingUnused, RunningKnown, Numbered, Users
  <2> QED
    BY <1>1, <2>1, <2>2
<1>2. CASE lease[f] # None
  <2>0. PICK b \in Browsers : b = lease[f]
    BY <1>2 DEF PoolTypes
  <2> DEFINE last == useCount[b] <= 1 /\ b \in retired
  <2>1. /\ useCount' = [useCount EXCEPT ![b] = IF useCount[b] <= 1 THEN 0 ELSE useCount[b] - 1]
        /\ retired' = IF last THEN retired \ {b} ELSE retired
        /\ closing' = IF last THEN closing \cup {b} ELSE closing
        /\ lease' = [lease EXCEPT ![f] = None]
    BY <1>2, <2>0 DEF Release
  <2>2. /\ useCount' \in [Browsers -> Nat] /\ lease' \in [Fallbacks -> Browsers \cup {None}]
        /\ LeasesCounted'
        /\ useCount[b] > 0
        /\ IF useCount[b] <= 1 THEN useCount'[b] = 0 ELSE useCount'[b] > 0
        /\ \A c \in Browsers \ {b} : useCount'[c] = useCount[c]
    BY <2>0, <2>1, ReleaseCounts
  <2>3. PoolTypes'
    BY <2>1, <2>2 DEF PoolTypes
  <2>4. b \notin closing
    <3>1. useCount[b] \in Nat
      BY DEF PoolTypes
    <3> QED
      BY <2>2, <3>1 DEF ClosingUnused
  <2>5. ClosingUnused'
    BY <2>1, <2>2, <2>4 DEF ClosingUnused, Numbered, PoolTypes
  <2>6. RunningKnown'
    BY <2>1, <2>2, <2>4 DEF RunningKnown, PoolTypes
  <2>7. Numbered'
    BY <2>1 DEF Numbered
  <2>8. lease'[f] = None /\ \A g \in Fallbacks \ {f} : lease'[g] = lease[g]
    BY <2>1 DEF PoolTypes
  <2> QED
    BY <2>2, <2>3, <2>5, <2>6, <2>7, <2>8
<1> QED
  BY <1>1, <1>2

-----------------------------------------------------------------------------
(* The steps *)

\* A step of fallback f that does not launch keeps the lock's invariant.
LEMMA LockKept ==
  ASSUME BrowserUseAssumption, BrowserInv, NEW f \in Fallbacks, NEW to \in {"idle", "end"} \cup Holding,
         to # "launch", pc' = [pc EXCEPT ![f] = to], UNCHANGED <<browser, replaces>>,
         relauncher' = relauncher \/ pc[f] = "launch"
  PROVE  LockHeld'
<1>1. \A g \in Fallbacks : pc'[g] = "launch" => g # f /\ pc[g] = "launch"
  BY DEF BrowserInv, FallbackTypes
<1>2. \A g \in Fallbacks : pc'[g] = "launch" => relauncher' = g
  BY <1>1 DEF BrowserInv, LockHeld
<1> QED
  BY <1>1, <1>2 DEF BrowserInv, LockHeld

\* A step of f that leaves the pool alone.
LEMMA PoolKept ==
  ASSUME BrowserInv, UNCHANGED <<poolVars, lease>>
  PROVE  PoolTypes' /\ Books'
BY DEF BrowserInv, PoolTypes, Books, LeasesCounted, ClosingUnused, RunningKnown, Numbered, Users,
       poolVars

\* NoLease after a step of f.
LEMMA NoLeaseKept ==
  ASSUME BrowserInv, NEW f \in Fallbacks, NEW to \in {"idle", "end"} \cup Holding,
         pc' = [pc EXCEPT ![f] = to],
         \A g \in Fallbacks \ {f} : lease'[g] = lease[g] /\ purpose'[g] = purpose[g],
         to \in {"idle", "attempt", "end"} \/ (to \in {"wait", "launch"} /\ purpose'[f] = "missing")
           => lease'[f] = None
  PROVE  NoLease'
<1>1. \A g \in Fallbacks : pc'[g] = IF g = f THEN to ELSE pc[g]
  BY DEF BrowserInv, FallbackTypes
<1> QED
  BY <1>1 DEF BrowserInv, NoLease

LEMMA TypesKept ==
  ASSUME BrowserInv, NEW f \in Fallbacks, NEW to \in {"idle", "end"} \cup Holding,
         pc' = [pc EXCEPT ![f] = to],
         purpose' = purpose \/ \E p \in Purposes : purpose' = [purpose EXCEPT ![f] = p],
         replaces' = replaces \/ replaces' = [replaces EXCEPT ![f] = browser]
  PROVE  FallbackTypes' /\ \A g \in Fallbacks \ {f} : purpose'[g] = purpose[g]
BY DEF BrowserInv, FallbackTypes, PoolTypes

\* AfterFailure, in a launch that raised or in a download that failed.
LEMMA FailureStep ==
  ASSUME BrowserUseAssumption, BrowserInv, NEW f \in Fallbacks, NEW to \in {"again", "wait", "end"},
         AfterFailure(f, to), UNCHANGED <<browser, launched, connected, replaces>>,
         relauncher' = relauncher \/ pc[f] = "launch"
  PROVE  BrowserInv'
<1>t. to \in {"idle", "end"} \cup Holding /\ pc' = [pc EXCEPT ![f] = to]
  BY DEF AfterFailure, Go, Holding
<1>p. purpose' = purpose \/ \E p \in Purposes : purpose' = [purpose EXCEPT ![f] = p]
  <2>1. CASE to = "wait"
    <3>1. purpose' = [purpose EXCEPT ![f] = "retry"]
      BY <2>1 DEF AfterFailure
    <3> QED
      BY <3>1 DEF Purposes
  <2>2. CASE to # "wait"
    BY <2>2 DEF AfterFailure, BrowserInv, FallbackTypes
  <2> QED
    BY <2>1, <2>2
<1>1. FallbackTypes' /\ \A g \in Fallbacks \ {f} : purpose'[g] = purpose[g]
  BY <1>t, <1>p, TypesKept
<1>2. LockHeld'
  BY <1>t, LockKept
<1>3. CASE to = "end"
  <2>1. Release(f)
    BY <1>3 DEF AfterFailure
  <2>2. /\ PoolTypes' /\ Books'
        /\ lease'[f] = None /\ \A g \in Fallbacks \ {f} : lease'[g] = lease[g]
    BY <2>1, ReleaseBooks DEF BrowserInv
  <2>3. NoLease'
    BY <1>t, <1>1, <2>2, NoLeaseKept
  <2> QED
    BY <1>1, <1>2, <2>2, <2>3 DEF BrowserInv
<1>4. CASE to # "end"
  <2>1. UNCHANGED <<poolVars, lease>>
    BY <1>4 DEF AfterFailure, poolVars
  <2>2. to = "wait" => purpose'[f] = "retry"
    BY DEF AfterFailure, BrowserInv, FallbackTypes
  <2>3. NoLease'
    BY <1>t, <1>1, <1>4, <2>1, <2>2, NoLeaseKept
  <2> QED
    BY <1>1, <1>2, <2>1, <2>3, PoolKept DEF BrowserInv
<1> QED
  BY <1>3, <1>4

\* The browser is launched and takes the place of the one before it.
LEMMA RelaunchedStep ==
  ASSUME BrowserUseAssumption, BrowserInv, NEW f \in Fallbacks, Relaunched(f)
  PROVE  BrowserInv'
<1> PoolTypes /\ FallbackTypes /\ Books /\ LockHeld /\ NoLease
  BY DEF BrowserInv
<1> DEFINE b == launched + 1
           to == IF purpose[f] = "retry" THEN "again" ELSE "use"
<1>0. /\ pc[f] = "launch" /\ b \in Browsers /\ browser' = b /\ launched' = b
      /\ connected' = connected \cup {b} /\ relauncher' = None /\ Retire(browser)
      /\ pc' = [pc EXCEPT ![f] = to] /\ UNCHANGED <<purpose, replaces>>
      /\ relauncher = f
  BY DEF Relaunched, Go, LockHeld
<1>1. /\ launched \in Nat /\ browser \in Nat /\ browser <= launched /\ b \notin retired
      /\ b \notin closing /\ browser # b
      /\ \A c \in retired \cup closing \cup {browser} : c <= b
  BY DEF PoolTypes, Browsers, Books, Numbered, BrowserUseAssumption
<1>2. /\ useCount' \in [Browsers -> Nat] /\ lease' \in [Fallbacks -> Browsers \cup {None}]
      /\ LeasesCounted'
      /\ \A c \in Browsers \ {b} : useCount'[c] = useCount[c]
      /\ \A g \in Fallbacks \ {f} : lease'[g] = lease[g]
  <2>1. CASE purpose[f] = "missing"
    <3>1. Acquire(f, b) /\ lease[f] = None
      BY <1>0, <2>1 DEF Relaunched, NoLease
    <3>2. \A g \in Fallbacks \ {f} : lease'[g] = lease[g]
      BY <3>1 DEF Acquire, PoolTypes
    <3> HIDE DEF b
    <3> QED
      BY <1>0, <3>1, <3>2, AcquireCounts DEF Books
  <2>2. CASE purpose[f] # "missing"
    BY <2>2 DEF Relaunched, PoolTypes, Books, LeasesCounted, Users
  <2> QED
    BY <2>1, <2>2
<1>3. /\ retired' \subseteq retired \cup {browser} /\ closing' \subseteq closing \cup {browser}
      /\ retired \ {browser} \subseteq retired' /\ closing \subseteq closing'
      /\ IF useCount[browser] > 0 THEN browser \in retired' /\ closing' = closing
         ELSE browser \in closing'
  BY <1>0 DEF Retire
<1>4. PoolTypes'
  BY <1>0, <1>2, <1>3 DEF PoolTypes
<1>5. Numbered'
  BY <1>0, <1>1, <1>3 DEF Numbered
<1>6. ClosingUnused'
  <2>1. useCount[browser] \in Nat
    BY DEF PoolTypes
  <2>2. \A c \in closing' : c # b /\ c \in Browsers
    BY <1>1, <1>3 DEF PoolTypes
  <2>3. \A c \in closing' : useCount[c] = 0
    BY <1>3, <2>1 DEF Books, ClosingUnused
  <2> QED
    BY <1>0, <1>2, <2>2, <2>3 DEF ClosingUnused
<1>7. RunningKnown'
  <2> SUFFICES ASSUME NEW c \in connected', c # b
               PROVE  c \in closing' \/ (c \in retired' /\ useCount'[c] > 0)
    BY <1>0 DEF RunningKnown
  <2>1. c \in connected /\ c \in Browsers /\ useCount'[c] = useCount[c]
    BY <1>0, <1>2 DEF PoolTypes
  <2>2. CASE c = browser
    BY <1>3, <2>1, <2>2
  <2>3. CASE c # browser
    BY <1>3, <2>1, <2>3 DEF Books, RunningKnown
  <2> QED
    BY <2>2, <2>3
<1>8. to \in {"again", "use"} /\ to \in {"idle", "end"} \cup Holding
  BY DEF Holding
<1>9. FallbackTypes' /\ \A g \in Fallbacks \ {f} : purpose'[g] = purpose[g]
  BY <1>0, <1>8 DEF FallbackTypes
<1>10. LockHeld'
  <2>1. \A g \in Fallbacks : pc'[g] # "launch"
    <3>1. \A g \in Fallbacks \ {f} : pc'[g] = pc[g] /\ pc[g] # "launch"
      BY <1>0 DEF FallbackTypes, LockHeld
    <3>2. pc'[f] # "launch"
      BY <1>0, <1>8 DEF FallbackTypes
    <3> QED
      BY <3>1, <3>2
  <2> QED
    BY <2>1 DEF LockHeld
<1>11. NoLease'
  <2> HIDE DEF to, b
  <2> QED
    BY <1>0, <1>2, <1>8, <1>9, NoLeaseKept
<1> QED
  BY <1>2, <1>4, <1>5, <1>6, <1>7, <1>9, <1>10, <1>11 DEF BrowserInv, Books

LEMMA FallbackStep ==
  ASSUME BrowserUseAssumption, BrowserInv, NEW f \in Fallbacks, Fallback(f)
  PROVE  BrowserInv'
<1> PoolTypes /\ FallbackTypes /\ Books /\ LockHeld /\ NoLease
  BY DEF BrowserInv
<1>p. \A to \in {"attempt", "wait", "launch", "use", "again", "end"} :
        to \in {"idle", "end"} \cup Holding
  BY DEF Holding
<1>1. CASE Enter(f)
  <2>1. /\ pc' = [pc EXCEPT ![f] = "attempt"] /\ pc[f] = "idle"
        /\ UNCHANGED <<poolVars, relauncher, purpose, replaces, lease>> /\ UNCHANGED browser
    BY <1>1 DEF Enter, Go, poolVars
  <2>2. PoolTypes' /\ Books'
    BY <2>1, PoolKept
  <2>3. FallbackTypes' /\ LockHeld'
    BY <1>p, <2>1, TypesKept, LockKept
  <2>4. NoLease'
    BY <1>p, <2>1, NoLeaseKept DEF NoLease
  <2> QED
    BY <2>2, <2>3, <2>4 DEF BrowserInv
<1>2. CASE Attempt(f)
  <2>1. pc[f] = "attempt" /\ lease[f] = None
        /\ UNCHANGED <<browser, launched, connected, retired, closing, relauncher, replaces>>
    BY <1>2 DEF Attempt, NoLease
  <2>2. CASE browser \in connected
    <3>1. /\ Acquire(f, browser) /\ pc' = [pc EXCEPT ![f] = "use"] /\ UNCHANGED purpose
          /\ browser \in Browsers
      BY <1>2, <2>2 DEF Attempt, Go, PoolTypes
    <3>2. /\ useCount' \in [Browsers -> Nat] /\ lease' \in [Fallbacks -> Browsers \cup {None}]
          /\ LeasesCounted'
          /\ \A c \in Browsers \ {browser} : useCount'[c] = useCount[c]
      BY <2>1, <3>1, AcquireCounts DEF Books
    <3>3. \A g \in Fallbacks \ {f} : lease'[g] = lease[g]
      BY <3>1 DEF Acquire, PoolTypes
    <3>4. PoolTypes' /\ Numbered'
      BY <2>1, <3>2 DEF PoolTypes, Books, Numbered
    <3>5. ClosingUnused' /\ RunningKnown'
      BY <2>1, <3>2 DEF Books, ClosingUnused, RunningKnown, PoolTypes
    <3>6. FallbackTypes' /\ LockHeld'
      BY <1>p, <2>1, <3>1, TypesKept, LockKept
    <3>7. NoLease'
      BY <1>p, <3>1, <3>3, NoLeaseKept
    <3> QED
      BY <3>2, <3>4, <3>5, <3>6, <3>7 DEF BrowserInv, Books
  <2>3. CASE browser \notin connected
    <3>1. /\ pc' = [pc EXCEPT ![f] = "wait"] /\ purpose' = [purpose EXCEPT ![f] = "missing"]
          /\ UNCHANGED <<useCount, lease>>
      BY <1>2, <2>3 DEF Attempt, Go
    <3>2. PoolTypes' /\ Books'
      BY <2>1, <3>1, PoolKept DEF poolVars
    <3>3. FallbackTypes' /\ \A g \in Fallbacks \ {f} : purpose'[g] = purpose[g]
      BY <1>p, <2>1, <3>1, TypesKept DEF Purposes
    <3>4. LockHeld'
      BY <1>p, <2>1, <3>1, LockKept
    <3>5. NoLease'
      BY <1>p, <2>1, <3>1, <3>3, NoLeaseKept
    <3> QED
      BY <3>2, <3>3, <3>4, <3>5 DEF BrowserInv
  <2> QED
    BY <2>2, <2>3
<1>3. CASE BeginRelaunch(f)
  <2>1. /\ pc[f] = "wait" /\ relauncher = None /\ relauncher' = f
        /\ replaces' = [replaces EXCEPT ![f] = browser] /\ pc' = [pc EXCEPT ![f] = "launch"]
        /\ UNCHANGED <<poolVars, lease>> /\ UNCHANGED purpose /\ UNCHANGED browser
    BY <1>3 DEF BeginRelaunch, Go, poolVars
  <2>2. PoolTypes' /\ Books'
    BY <2>1, PoolKept
  <2>3. FallbackTypes' /\ \A g \in Fallbacks \ {f} : purpose'[g] = purpose[g]
    BY <1>p, <2>1, TypesKept
  <2>4. LockHeld'
    <3>1. \A g \in Fallbacks : pc[g] # "launch"
      BY <2>1 DEF LockHeld, BrowserUseAssumption
    <3>2. \A g \in Fallbacks : pc'[g] = "launch" => g = f
      BY <2>1, <3>1 DEF FallbackTypes
    <3>3. replaces'[f] = browser
      BY <2>1 DEF FallbackTypes
    <3> QED
      BY <2>1, <3>2, <3>3 DEF LockHeld
  <2>5. purpose[f] = "missing" => lease[f] = None
    BY <2>1 DEF NoLease
  <2>6. NoLease'
    BY <1>p, <2>1, <2>3, <2>5, NoLeaseKept
  <2> QED
    BY <2>2, <2>3, <2>4, <2>6 DEF BrowserInv
<1>4. CASE TargetClosed(f)
  <2>1. /\ pc' = [pc EXCEPT ![f] = "wait"] /\ purpose' = [purpose EXCEPT ![f] = "inside"]
        /\ UNCHANGED <<poolVars, lease>> /\ UNCHANGED <<relauncher, replaces, browser>>
    BY <1>4 DEF TargetClosed, Go, poolVars
  <2>2. FallbackTypes' /\ \A g \in Fallbacks \ {f} : purpose'[g] = purpose[g]
    BY <1>p, <2>1, TypesKept DEF Purposes
  <2>3. LockHeld'
    BY <1>p, <2>1, LockKept
  <2>4. purpose'[f] = "inside"
    BY <2>1 DEF FallbackTypes
  <2>5. NoLease'
    BY <1>p, <2>1, <2>2, <2>4, NoLeaseKept
  <2> QED
    BY <2>1, <2>2, <2>3, <2>5, PoolKept DEF BrowserInv
<1>5. ASSUME NEW to \in {"attempt", "end"}, Release(f), pc' = [pc EXCEPT ![f] = to],
             UNCHANGED <<browser, launched, connected, relauncher, purpose, replaces>>
      PROVE  BrowserInv'
  <2>1. /\ PoolTypes' /\ Books'
        /\ lease'[f] = None /\ \A g \in Fallbacks \ {f} : lease'[g] = lease[g]
    BY <1>5, ReleaseBooks
  <2>2. FallbackTypes' /\ LockHeld'
    BY <1>p, <1>5, TypesKept, LockKept
  <2>3. NoLease'
    BY <1>p, <1>5, <2>1, NoLeaseKept
  <2> QED
    BY <2>1, <2>2, <2>3 DEF BrowserInv
<1>6. CASE Again(f) \/ Downloaded(f) \/ SyncFails(f)
  BY <1>5, <1>6 DEF Again, Downloaded, SyncFails, Go
<1>7. CASE Relaunched(f)
  BY <1>7, RelaunchedStep
<1>8. ASSUME NEW to \in {"again", "wait", "end"}, LaunchFails(f, to)  PROVE BrowserInv'
  <2>1. pc[f] = "launch" /\ UNCHANGED <<browser, launched, connected, replaces>>
    BY <1>8 DEF LaunchFails
  <2>2. CASE purpose[f] = "retry"
    <3>1. pc' = [pc EXCEPT ![f] = "again"] /\ UNCHANGED <<poolVars, lease>> /\ UNCHANGED purpose
      BY <1>8, <2>1, <2>2 DEF LaunchFails, Go, poolVars
    <3>2. FallbackTypes' /\ LockHeld'
      BY <1>p, <2>1, <3>1, TypesKept, LockKept
    <3>3. NoLease'
      BY <1>p, <3>1, NoLeaseKept
    <3> QED
      BY <3>1, <3>2, <3>3, PoolKept DEF BrowserInv
  <2>3. CASE purpose[f] # "retry"
    BY <1>8, <2>1, <2>3, FailureStep DEF LaunchFails
  <2> QED
    BY <2>2, <2>3
<1>9. ASSUME NEW to \in {"again", "wait", "end"}, DownloadFails(f, to)  PROVE BrowserInv'
  BY <1>9, FailureStep DEF DownloadFails
<1> QED
  BY <1>1, <1>2, <1>3, <1>4, <1>6, <1>7, <1>8, <1>9 DEF Fallback

LEMMA BrowserStep ==
  ASSUME BrowserUseAssumption, BrowserInv, [Next]_vars
  PROVE  BrowserInv'
<1> USE DEF BrowserInv
<1>1. CASE UNCHANGED vars
  BY <1>1, PoolKept DEF vars, poolVars, FallbackTypes, LockHeld, NoLease
<1>2. ASSUME NEW b \in Browsers, Close(b) \/ Crash(b)  PROVE BrowserInv'
  <2>1. /\ UNCHANGED <<browser, launched, useCount, retired, relauncher, pc, purpose, replaces, lease>>
        /\ connected' = connected \ {b}
        /\ closing' = closing \/ closing' = closing \ {b}
    BY <1>2 DEF Close, Crash
  <2>2. PoolTypes' /\ FallbackTypes' /\ LockHeld' /\ NoLease'
    BY <2>1 DEF PoolTypes, FallbackTypes, LockHeld, NoLease
  <2>3. LeasesCounted' /\ ClosingUnused' /\ Numbered'
    BY <2>1 DEF Books, LeasesCounted, ClosingUnused, Numbered, Users
  <2>4. RunningKnown'
    BY <2>1 DEF Books, RunningKnown
  <2> QED
    BY <2>2, <2>3, <2>4 DEF Books
<1> QED
  BY <1>1, <1>2, FallbackStep DEF Next

LEMMA BrowserInit ==
  ASSUME BrowserUseAssumption
  PROVE  Init => BrowserInv
<1> SUFFICES ASSUME Init PROVE BrowserInv
  OBVIOUS
<1>1. 1 \in Browsers /\ None \notin Browsers
  BY DEF BrowserUseAssumption, Browsers
<1>2. PoolTypes /\ FallbackTypes
  BY <1>1 DEF Init, PoolTypes, FallbackTypes, Purposes
<1>3. LeasesCounted
  <2>1. \A b \in Browsers : Users(b) = {}
    BY <1>1 DEF Init, Users
  <2>2. \A b \in Browsers : useCount[b] = 0
    BY DEF Init
  <2> QED
    BY <2>1, <2>2, FS_EmptySet DEF LeasesCounted
<1>4. ClosingUnused /\ RunningKnown /\ Numbered
  BY DEF Init, ClosingUnused, RunningKnown, Numbered
<1>5. LockHeld /\ NoLease
  BY DEF Init, LockHeld, NoLease
<1> QED
  BY <1>2, <1>3, <1>4, <1>5 DEF BrowserInv, Books

LEMMA BrowserInvHolds ==
  ASSUME BrowserUseAssumption
  PROVE  Spec => []BrowserInv
<1>1. Init => BrowserInv
  BY BrowserInit
<1>2. BrowserInv /\ [Next]_vars => BrowserInv'
  BY BrowserStep
<1> QED
  BY <1>1, <1>2, PTL DEF Spec

\* The pool's leases (acquire_browser, release_browser, _relaunch_browser): use
\* counts are right, no browser is closed under a lease and none is forgotten,
\* however relaunches, crashes and failing downloads overlap.
THEOREM BrowsersStayAccounted ==
  ASSUME BrowserUseAssumption
  PROVE  Spec => []BrowsersAccounted
<1>1. BrowserInv => BrowsersAccounted
  BY DEF BrowserInv, Books, PoolTypes, LeasesCounted, ClosingUnused, RunningKnown, BrowsersAccounted,
         Users
<1> QED
  BY <1>1, BrowserInvHolds, PTL

-----------------------------------------------------------------------------
(* Permits and attempts *)

\* Those that have a permit, and those that will try again.
Permitted == {f \in Fallbacks : pc[f] \in Holding}
Retrying(f) == pc[f] = "again" \/ (pc[f] \in {"wait", "launch"} /\ purpose[f] = "retry")

\* No permit is given back twice, and no fallback tries again after its last attempt.
PermitsBacked == permits \in Nat /\ permits + Cardinality(Permitted) <= Permits
TriesLeft ==
  /\ tries \in [Fallbacks -> 1..Attempts]
  /\ \A f \in Fallbacks : Retrying(f) => tries[f] < Attempts
Rest == relauncher \in Fallbacks \cup {None} /\ crashes \in 0..MaxCrashes

PermitInv == PermitsBacked /\ TriesLeft /\ Rest

\* What a step of f does to the permits: one is taken, kept, or given up at the end.
PermitMoves(f, to) ==
  /\ pc' = [pc EXCEPT ![f] = to] /\ permits' \in Int
  /\ \/ pc[f] = "idle" /\ to \in Holding /\ permits > 0 /\ permits' = permits - 1
     \/ pc[f] \in Holding /\ to \in Holding /\ permits' = permits
     \/ pc[f] \in Holding /\ to = "end" /\ permits' \in {permits, permits + 1}

\* What it does to the attempts.
TryMoves(f, to) ==
  /\ pc' = [pc EXCEPT ![f] = to]
  /\ \A g \in Fallbacks \ {f} : purpose'[g] = purpose[g] /\ tries'[g] = tries[g]
  /\ tries' \in [Fallbacks -> 1..Attempts]
  /\ to = "again" \/ (to \in {"wait", "launch"} /\ purpose'[f] = "retry") => tries'[f] < Attempts

LEMMA PermitsKept ==
  ASSUME BrowserUseAssumption, FallbackTypes, PermitsBacked, NEW f \in Fallbacks,
         NEW to \in Holding \cup {"end"}, PermitMoves(f, to)
  PROVE  PermitsBacked'
<1>0. /\ IsFiniteSet(Permitted) /\ Cardinality(Permitted) \in Nat
      /\ permits \in Nat /\ permits + Cardinality(Permitted) <= Permits /\ Permits \in Nat
  <2>1. Permitted \subseteq Fallbacks
    BY DEF Permitted
  <2> QED
    BY <2>1, FS_Subset, FS_CardinalityType DEF BrowserUseAssumption, PermitsBacked
<1>1. \A g \in Fallbacks : pc'[g] = IF g = f THEN to ELSE pc[g]
  BY DEF PermitMoves, FallbackTypes
<1>2. "idle" \notin Holding /\ "end" \notin Holding
  BY DEF Holding
<1>3. CASE pc[f] = "idle" /\ to \in Holding /\ permits > 0 /\ permits' = permits - 1
  <2>1. Permitted' = Permitted \cup {f} /\ f \notin Permitted
    BY <1>1, <1>2, <1>3 DEF Permitted
  <2>2. Cardinality(Permitted') = Cardinality(Permitted) + 1
    BY <1>0, <2>1, FS_AddElement
  <2> QED
    BY <1>0, <1>3, <2>2 DEF PermitsBacked
<1>4. CASE pc[f] \in Holding /\ to \in Holding /\ permits' = permits
  <2>1. Permitted' = Permitted
    BY <1>1, <1>4 DEF Permitted
  <2> QED
    BY <1>0, <1>4, <2>1 DEF PermitsBacked
<1>5. CASE pc[f] \in Holding /\ to = "end" /\ permits' \in {permits, permits + 1}
  <2>1. Permitted' = Permitted \ {f} /\ f \in Permitted
    BY <1>1, <1>2, <1>5 DEF Permitted
  <2>2. Cardinality(Permitted') = Cardinality(Permitted) - 1
    BY <1>0, <2>1, FS_RemoveElement
  <2> QED
    BY <1>0, <1>5, <2>2 DEF PermitsBacked
<1> QED
  BY <1>3, <1>4, <1>5 DEF PermitMoves

LEMMA TriesKept ==
  ASSUME FallbackTypes, TriesLeft, NEW f \in Fallbacks, NEW to \in Holding \cup {"end"}, TryMoves(f, to)
  PROVE  TriesLeft'
<1>1. \A g \in Fallbacks : pc'[g] = IF g = f THEN to ELSE pc[g]
  BY DEF TryMoves, FallbackTypes
<1> QED
  BY <1>1 DEF TryMoves, TriesLeft, Retrying

\* A failure: another attempt if one is left, the end otherwise.
LEMMA FailureMoves ==
  ASSUME BrowserUseAssumption, FallbackTypes, PermitInv, NEW f \in Fallbacks,
         NEW to \in {"again", "wait", "end"}, pc[f] \in Holding, AfterFailure(f, to), UNCHANGED tries
  PROVE  PermitMoves(f, to) /\ TryMoves(f, to)
<1>1. /\ pc' = [pc EXCEPT ![f] = to] /\ (to = "end" \/ tries[f] < Attempts)
      /\ purpose' = [purpose EXCEPT ![f] = IF to = "wait" THEN "retry" ELSE purpose[f]]
      /\ permits' = IF to = "end" THEN permits + 1 ELSE permits
  BY DEF AfterFailure, Go
<1>2. permits \in Nat /\ {"again", "wait"} \subseteq Holding
  BY DEF PermitInv, PermitsBacked, Holding
<1>3. PermitMoves(f, to)
  BY <1>1, <1>2 DEF PermitMoves
<1>4. TryMoves(f, to)
  BY <1>1 DEF TryMoves, FallbackTypes, PermitInv, TriesLeft
<1> QED
  BY <1>3, <1>4

LEMMA FallbackMoves ==
  ASSUME BrowserUseAssumption, BrowserInv, PermitInv, NEW f \in Fallbacks, Fallback(f)
  PROVE  \E to \in Holding \cup {"end"} : PermitMoves(f, to) /\ TryMoves(f, to)
<1>0. /\ FallbackTypes /\ permits \in Nat /\ Attempts \in Nat /\ tries \in [Fallbacks -> 1..Attempts]
      /\ Retrying(f) => tries[f] < Attempts
  BY DEF BrowserInv, PermitInv, PermitsBacked, TriesLeft, BrowserUseAssumption
<1>h. Holding = {"attempt", "wait", "launch", "use", "again"}
  BY DEF Holding
<1>1. CASE Enter(f)
  <2>1. /\ pc' = [pc EXCEPT ![f] = "attempt"] /\ pc[f] = "idle" /\ permits > 0 /\ permits' = permits - 1
        /\ UNCHANGED <<purpose, tries>>
    BY <1>1 DEF Enter, Go
  <2>2. PermitMoves(f, "attempt") /\ TryMoves(f, "attempt")
    BY <1>0, <1>h, <2>1 DEF PermitMoves, TryMoves
  <2> QED
    BY <1>h, <2>2
<1>2. CASE Attempt(f)
  <2>1. PICK to \in {"use", "wait"} :
          /\ pc' = [pc EXCEPT ![f] = to] /\ pc[f] = "attempt" /\ UNCHANGED <<permits, tries>>
          /\ \/ to = "use" /\ purpose' = purpose
             \/ to = "wait" /\ purpose' = [purpose EXCEPT ![f] = "missing"]
    BY <1>2 DEF Attempt, Go
  <2>2. PermitMoves(f, to)
    BY <1>0, <1>h, <2>1 DEF PermitMoves
  <2>3. TryMoves(f, to)
    BY <1>0, <2>1 DEF TryMoves, FallbackTypes
  <2> QED
    BY <1>h, <2>2, <2>3
<1>3. CASE BeginRelaunch(f)
  <2>1. /\ pc' = [pc EXCEPT ![f] = "launch"] /\ pc[f] = "wait" /\ UNCHANGED <<purpose, permits, tries>>
    BY <1>3 DEF BeginRelaunch, Go
  <2>2. PermitMoves(f, "launch") /\ TryMoves(f, "launch")
    BY <1>0, <1>h, <2>1 DEF PermitMoves, TryMoves, Retrying
  <2> QED
    BY <1>h, <2>2
<1>4. CASE TargetClosed(f)
  <2>1. /\ pc' = [pc EXCEPT ![f] = "wait"] /\ pc[f] = "use" /\ UNCHANGED <<permits, tries>>
        /\ purpose' = [purpose EXCEPT ![f] = "inside"]
    BY <1>4 DEF TargetClosed, Go
  <2>2. PermitMoves(f, "wait")
    BY <1>0, <1>h, <2>1 DEF PermitMoves
  <2>3. TryMoves(f, "wait")
    BY <1>0, <2>1 DEF TryMoves, FallbackTypes
  <2> QED
    BY <1>h, <2>2, <2>3
<1>5. CASE Again(f)
  <2>1. /\ pc' = [pc EXCEPT ![f] = "attempt"] /\ pc[f] = "again" /\ UNCHANGED <<permits, purpose>>
        /\ tries' = [tries EXCEPT ![f] = tries[f] + 1]
    BY <1>0, <1>5 DEF Again, Go
  <2>2. tries[f] + 1 \in 1..Attempts
    BY <1>0, <2>1 DEF Retrying
  <2>3. PermitMoves(f, "attempt")
    BY <1>0, <1>h, <2>1 DEF PermitMoves
  <2>4. TryMoves(f, "attempt")
    BY <1>0, <2>1, <2>2 DEF TryMoves
  <2> QED
    BY <1>h, <2>3, <2>4
<1>6. CASE Relaunched(f)
  <2>1. PICK to \in {"use", "again"} :
          /\ pc' = [pc EXCEPT ![f] = to] /\ pc[f] = "launch" /\ UNCHANGED <<permits, tries, purpose>>
          /\ to = "again" => purpose[f] = "retry"
    BY <1>6 DEF Relaunched, Go
  <2>2. PermitMoves(f, to) /\ TryMoves(f, to)
    BY <1>0, <1>h, <2>1 DEF PermitMoves, TryMoves, Retrying
  <2> QED
    BY <1>h, <2>2
<1>7. CASE Downloaded(f) \/ SyncFails(f)
  <2>1. /\ pc' = [pc EXCEPT ![f] = "end"] /\ pc[f] = "use" /\ permits' \in {permits, permits + 1}
        /\ UNCHANGED <<tries, purpose>>
    BY <1>7 DEF Downloaded, SyncFails, Go
  <2>2. PermitMoves(f, "end") /\ TryMoves(f, "end")
    BY <1>0, <1>h, <2>1 DEF PermitMoves, TryMoves
  <2> QED
    BY <2>2
<1>8. ASSUME NEW to \in {"again", "wait", "end"}, LaunchFails(f, to)
      PROVE  PermitMoves(f, to) /\ TryMoves(f, to)
  <2>1. pc[f] = "launch" /\ UNCHANGED tries
    BY <1>8 DEF LaunchFails
  <2>2. CASE purpose[f] = "retry"
    <3>1. to = "again" /\ pc' = [pc EXCEPT ![f] = "again"] /\ UNCHANGED <<purpose, permits>>
      BY <1>8, <2>2 DEF LaunchFails, Go
    <3> QED
      BY <1>0, <1>h, <2>1, <2>2, <3>1 DEF PermitMoves, TryMoves, Retrying
  <2>3. CASE purpose[f] # "retry"
    BY <1>0, <1>h, <1>8, <2>1, <2>3, FailureMoves DEF LaunchFails
  <2> QED
    BY <2>2, <2>3
<1>9. ASSUME NEW to \in {"again", "wait", "end"}, DownloadFails(f, to)
      PROVE  PermitMoves(f, to) /\ TryMoves(f, to)
  BY <1>0, <1>h, <1>9, FailureMoves DEF DownloadFails
<1> QED
  BY <1>h, <1>1, <1>2, <1>3, <1>4, <1>5, <1>6, <1>7, <1>8, <1>9 DEF Fallback

LEMMA PermitStep ==
  ASSUME BrowserUseAssumption, BrowserInv, PermitInv, [Next]_vars
  PROVE  PermitInv'
<1>0. FallbackTypes /\ PermitsBacked /\ TriesLeft /\ Rest /\ MaxCrashes \in Nat
  BY DEF BrowserInv, PermitInv, BrowserUseAssumption
<1>1. ASSUME NEW f \in Fallbacks, Fallback(f)  PROVE PermitInv'
  <2>1. PermitsBacked' /\ TriesLeft'
    BY <1>0, <1>1, FallbackMoves, PermitsKept, TriesKept
  <2>2. crashes' = crashes /\ relauncher' \in {relauncher, f, None}
    BY <1>1 DEF Fallback, Enter, Attempt, BeginRelaunch, TargetClosed, Again, Relaunched, Downloaded,
                SyncFails, LaunchFails, DownloadFails
  <2> QED
    BY <1>0, <2>1, <2>2 DEF PermitInv, Rest
<1>2. ASSUME UNCHANGED <<pc, purpose, tries, permits, relauncher>>, crashes' \in 0..MaxCrashes
      PROVE  PermitInv'
  BY <1>0, <1>2 DEF PermitInv, PermitsBacked, TriesLeft, Rest, Permitted, Retrying
<1>3. ASSUME NEW b \in Browsers, Close(b) \/ Crash(b)  PROVE PermitInv'
  <2>1. UNCHANGED <<pc, purpose, tries, permits, relauncher>> /\ crashes' \in 0..MaxCrashes
    BY <1>0, <1>3 DEF Close, Crash, Rest
  <2> QED
    BY <1>2, <2>1
<1>4. CASE UNCHANGED vars
  BY <1>0, <1>2, <1>4 DEF vars, Rest
<1> QED
  BY <1>1, <1>3, <1>4 DEF Next

LEMMA PermitInit ==
  ASSUME BrowserUseAssumption
  PROVE  Init => PermitInv
<1> SUFFICES ASSUME Init PROVE PermitInv
  OBVIOUS
<1>1. Permitted = {}
  BY DEF Init, Permitted, Holding
<1>2. PermitsBacked
  BY <1>1, FS_EmptySet DEF Init, PermitsBacked, BrowserUseAssumption
<1>3. TriesLeft
  BY DEF Init, TriesLeft, Retrying, BrowserUseAssumption
<1>4. Rest
  BY DEF Init, Rest, BrowserUseAssumption
<1> QED
  BY <1>2, <1>3, <1>4 DEF PermitInv

\* Types, and with them the limits of the code: playwright_fallback_sem never has more
\* permits than it began with, a fallback makes at most Attempts attempts, and a browser
\* has at most one lease per fallback.
THEOREM PoolTypeCorrect ==
  ASSUME BrowserUseAssumption
  PROVE  Spec => []TypeOK
<1>1. ASSUME BrowserInv, PermitInv  PROVE TypeOK
  <2>1. useCount \in [Browsers -> 0..Cardinality(Fallbacks)]
    <3>1. \A b \in Browsers : useCount[b] \in Nat /\ useCount[b] = Cardinality(Users(b))
      BY <1>1 DEF BrowserInv, PoolTypes, Books, LeasesCounted
    <3>2. \A b : Users(b) \subseteq Fallbacks /\ Cardinality(Users(b)) <= Cardinality(Fallbacks)
      <4>1. \A b : Users(b) \subseteq Fallbacks
        BY DEF Users
      <4> QED
        BY <4>1, FS_Subset DEF BrowserUseAssumption
    <3>3. Cardinality(Fallbacks) \in Nat
      BY FS_CardinalityType DEF BrowserUseAssumption
    <3> QED
      BY <1>1, <3>1, <3>2, <3>3 DEF BrowserInv, PoolTypes
  <2>2. permits \in 0..Permits
    <3>1. Permitted \subseteq Fallbacks
      BY DEF Permitted
    <3>2. Cardinality(Permitted) \in Nat /\ Permits \in Nat
      BY <3>1, FS_Subset, FS_CardinalityType DEF BrowserUseAssumption
    <3> QED
      BY <1>1, <3>2 DEF PermitInv, PermitsBacked
  <2> QED
    BY <1>1, <2>1, <2>2 DEF TypeOK, BrowserInv, PoolTypes, FallbackTypes, Purposes, PermitInv, TriesLeft, Rest
<1> QED
  BY <1>1, BrowserInvHolds, PermitInit, PermitStep, PTL DEF Spec

=============================================================================
