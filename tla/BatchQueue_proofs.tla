------------------------- MODULE BatchQueue_proofs -------------------------
(***************************************************************************)
(* Proofs about BatchQueue, for every set of jobs, items and workers and   *)
(* every batch size and capacity.  The items of a job stand in one line:   *)
(* taken, queued batch by batch, held for room, buffered.  The lemmas on   *)
(* sequences say how a put, a cut of the buffer, a batch that is queued    *)
(* and one that is taken change such a line; the invariants say that the   *)
(* line is the order of the puts, and what the counters know of it.        *)
(***************************************************************************)
EXTENDS BatchQueue, FiniteSetTheorems, TLAPS

-----------------------------------------------------------------------------
(* Lines of items *)

\* x comes before y in e.
Before(e, x, y) == \E m, n \in DOMAIN e : m < n /\ e[m] = x /\ e[n] = y

Sorted(e, s) == \A m, n \in DOMAIN s : m < n => Before(e, s[m], s[n])

Precedes(e, s, t) == \A x \in ToSet(s), y \in ToSet(t) : Before(e, x, y)

\* The batches of q are in the order of e, each of them and one after the other.
SortedBatches(e, q) ==
  /\ \A k \in DOMAIN q : Sorted(e, q[k])
  /\ \A k, l \in DOMAIN q : k < l => Precedes(e, q[k], q[l])

InLine(e, t, q, h, b) ==
  /\ Sorted(e, t) /\ SortedBatches(e, q) /\ Sorted(e, h) /\ Sorted(e, b)
  /\ \A k \in DOMAIN q : Precedes(e, t, q[k]) /\ Precedes(e, q[k], h) /\ Precedes(e, q[k], b)
  /\ Precedes(e, t, h) /\ Precedes(e, t, b) /\ Precedes(e, h, b)

\* What a line holds.
Held(t, q, h, b) == ToSet(t) \cup ItemsOf(q) \cup ToSet(h) \cup ToSet(b)

LEMMA EmptyPiece ==
  /\ ToSet(<<>>) = {} /\ ItemsOf(<<>>) = {}
  /\ \A e : Sorted(e, <<>>) /\ SortedBatches(e, <<>>)
  /\ \A e, s : Precedes(e, s, <<>>) /\ Precedes(e, <<>>, s)
BY DEF ToSet, ItemsOf, Sorted, SortedBatches, Precedes

LEMMA AppendItem ==
  ASSUME NEW S, NEW s \in Seq(S), NEW x \in S
  PROVE  /\ Append(s, x) \in Seq(S) /\ Len(Append(s, x)) = Len(s) + 1
         /\ \A k \in DOMAIN s : k \in DOMAIN Append(s, x) /\ Append(s, x)[k] = s[k]
         /\ Append(s, x)[Len(s) + 1] = x /\ Len(s) + 1 \in DOMAIN Append(s, x)
         /\ \A k \in DOMAIN Append(s, x) : k \in DOMAIN s \/ k = Len(s) + 1
         /\ DOMAIN s = 1..Len(s) /\ Len(s) \in Nat
         /\ ToSet(Append(s, x)) = ToSet(s) \cup {x}
<1>1. /\ Append(s, x) \in Seq(S) /\ Len(Append(s, x)) = Len(s) + 1
      /\ \A k \in DOMAIN s : k \in DOMAIN Append(s, x) /\ Append(s, x)[k] = s[k]
      /\ Append(s, x)[Len(s) + 1] = x /\ Len(s) + 1 \in DOMAIN Append(s, x)
      /\ \A k \in DOMAIN Append(s, x) : k \in DOMAIN s \/ k = Len(s) + 1
      /\ DOMAIN s = 1..Len(s) /\ Len(s) \in Nat
  OBVIOUS
<1> DEFINE a == Append(s, x)
<1> HIDE DEF a
<1>2. ToSet(a) = ToSet(s) \cup {x}
  BY <1>1 DEF ToSet, a
<1> QED
  BY <1>1, <1>2 DEF a

\* A sequence cut at n.
LEMMA CutSeq ==
  ASSUME NEW S, NEW s \in Seq(S), NEW n \in Nat, n <= Len(s)
  PROVE  LET b == SubSeq(s, 1, n)  r == SubSeq(s, n + 1, Len(s))
         IN  /\ b \in Seq(S) /\ r \in Seq(S)
             /\ DOMAIN b = 1..n /\ \A k \in 1..n : b[k] = s[k] /\ k \in DOMAIN s
             /\ DOMAIN r = 1..(Len(s) - n)
             /\ \A k \in 1..(Len(s) - n) : r[k] = s[n + k] /\ n + k \in DOMAIN s
             /\ ToSet(s) = ToSet(b) \cup ToSet(r)
<1> DEFINE b == SubSeq(s, 1, n)
           r == SubSeq(s, n + 1, Len(s))
<1>1. /\ b \in Seq(S) /\ DOMAIN b = 1..n /\ \A k \in 1..n : b[k] = s[k] /\ k \in DOMAIN s
  OBVIOUS
<1>2. /\ r \in Seq(S) /\ DOMAIN r = 1..(Len(s) - n)
      /\ \A k \in 1..(Len(s) - n) : r[k] = s[n + k] /\ n + k \in DOMAIN s
  OBVIOUS
<1>3. \A k \in DOMAIN s : k \in 1..n \/ (k - n \in 1..(Len(s) - n) /\ n + (k - n) = k)
  OBVIOUS
<1> HIDE DEF b, r
<1>4. ToSet(s) = ToSet(b) \cup ToSet(r)
  <2>1. ASSUME NEW k \in DOMAIN s PROVE s[k] \in ToSet(b) \cup ToSet(r)
    <3>1. CASE k \in 1..n
      BY <1>1, <3>1 DEF ToSet
    <3>2. CASE k - n \in 1..(Len(s) - n) /\ n + (k - n) = k
      <4>1. r[k - n] = s[k] /\ k - n \in DOMAIN r
        BY <1>2, <3>2
      <4> QED
        BY <4>1 DEF ToSet
    <3> QED
      BY <1>3, <3>1, <3>2
  <2>2. ToSet(b) \subseteq ToSet(s) /\ ToSet(r) \subseteq ToSet(s)
    BY <1>1, <1>2 DEF ToSet
  <2> QED
    BY <2>1, <2>2 DEF ToSet
<1> QED
  BY <1>1, <1>2, <1>4 DEF b, r

\* A batch cut off a line's buffer, which held nothing else, waits in its place.
LEMMA CutLine ==
  ASSUME NEW e, NEW t, NEW q, NEW s \in Seq(Items), NEW n \in Nat, n <= Len(s),
         InLine(e, t, q, <<>>, s)
  PROVE  LET b == SubSeq(s, 1, n)  r == SubSeq(s, n + 1, Len(s))
         IN  InLine(e, t, q, b, r) /\ Held(t, q, b, r) = Held(t, q, <<>>, s)
<1> DEFINE b == SubSeq(s, 1, n)
           r == SubSeq(s, n + 1, Len(s))
<1>1. /\ b \in Seq(Items) /\ r \in Seq(Items)
      /\ DOMAIN b = 1..n /\ \A k \in 1..n : b[k] = s[k] /\ k \in DOMAIN s
      /\ DOMAIN r = 1..(Len(s) - n)
      /\ \A k \in 1..(Len(s) - n) : r[k] = s[n + k] /\ n + k \in DOMAIN s
      /\ ToSet(s) = ToSet(b) \cup ToSet(r)
  BY CutSeq
<1>2. \A k \in 1..n, l \in 1..(Len(s) - n) : k < n + l
  OBVIOUS
<1>3. \A k, l \in 1..(Len(s) - n) : k < l => n + k < n + l
  OBVIOUS
<1> HIDE DEF b, r
<1>4. Sorted(e, b)
  BY <1>1 DEF Sorted, InLine
<1>5. Sorted(e, r)
  BY <1>1, <1>3 DEF Sorted, InLine
<1>6. Precedes(e, b, r)
  BY <1>1, <1>2 DEF Precedes, ToSet, InLine, Sorted
<1>7. \A x : Precedes(e, x, s) => Precedes(e, x, b) /\ Precedes(e, x, r)
  BY <1>1 DEF Precedes
<1>8. InLine(e, t, q, b, r)
  BY <1>4, <1>5, <1>6, <1>7 DEF InLine
<1>9. Held(t, q, b, r) = Held(t, q, <<>>, s)
  BY <1>1, EmptyPiece DEF Held
<1> QED
  BY <1>8, <1>9 DEF b, r

\* Queueing the batch that was held.
LEMMA QueueLine ==
  ASSUME NEW e, NEW t, NEW q \in Seq(Seq(Items)), NEW h \in Seq(Items), NEW b, InLine(e, t, q, h, b)
  PROVE  /\ InLine(e, t, Append(q, h), <<>>, b)
         /\ Held(t, Append(q, h), <<>>, b) = Held(t, q, h, b)
<1> DEFINE a == Append(q, h)
           N == Len(q) + 1
<1>1. /\ \A k \in DOMAIN q : k \in DOMAIN a /\ a[k] = q[k]
      /\ a[N] = h /\ N \in DOMAIN a
      /\ \A k \in DOMAIN a : k \in DOMAIN q \/ k = N
      /\ ToSet(a) = ToSet(q) \cup {h}
  BY AppendItem
<1>2. \A k \in DOMAIN q : k < N /\ ~(N < k)
  OBVIOUS
<1>3. ~(N < N)
  OBVIOUS
<1> HIDE DEF a, N
<1>4. SortedBatches(e, a)
  <2>1. \A k \in DOMAIN a : Sorted(e, a[k])
    BY <1>1 DEF InLine, SortedBatches
  <2>2. ASSUME NEW k \in DOMAIN a, NEW l \in DOMAIN a, k < l PROVE Precedes(e, a[k], a[l])
    BY <1>1, <1>2, <1>3, <2>2 DEF InLine, SortedBatches
  <2> QED
    BY <2>1, <2>2 DEF SortedBatches
<1>5. InLine(e, t, a, <<>>, b)
  BY <1>1, <1>4, EmptyPiece DEF InLine
<1>6. Held(t, a, <<>>, b) = Held(t, q, h, b)
  BY <1>1, EmptyPiece DEF Held, ItemsOf
<1> QED
  BY <1>5, <1>6 DEF a

\* Taking the first batch.
TakesFirst(e, t, q, h, b) ==
  /\ InLine(e, t \o Head(q), Tail(q), h, b)
  /\ Held(t \o Head(q), Tail(q), h, b) = Held(t, q, h, b)
  /\ ToSet(t \o Head(q)) = ToSet(t) \cup ToSet(Head(q))

LEMMA TakeLine ==
  ASSUME NEW e, NEW t \in Seq(Items), NEW q \in Seq(Seq(Items)), q # <<>>, NEW h, NEW b,
         InLine(e, t, q, h, b)
  PROVE  TakesFirst(e, t, q, h, b)
<1> DEFINE u == Head(q)
           v == Tail(q)
           w == t \o u
           N == Len(t)
<1>1. /\ u = q[1] /\ 1 \in DOMAIN q /\ u \in Seq(Items) /\ v \in Seq(Seq(Items))
      /\ \A k \in DOMAIN v : v[k] = q[k + 1] /\ k + 1 \in DOMAIN q /\ 1 < k + 1 /\ k \in Int
      /\ \A k \in DOMAIN q : k = 1 \/ (k - 1 \in DOMAIN v /\ (k - 1) + 1 = k)
  OBVIOUS
<1>2. \A k, l \in Int : k < l => k + 1 < l + 1
  OBVIOUS
<1> HIDE DEF u, v
<1>3. /\ w \in Seq(Items) /\ N \in Nat /\ DOMAIN t = 1..N
      /\ \A k \in DOMAIN t : w[k] = t[k] /\ k \in DOMAIN w
      /\ \A k \in DOMAIN u : w[N + k] = u[k] /\ N + k \in DOMAIN w /\ k \in Int
      /\ \A k \in DOMAIN w : k \in DOMAIN t \/ (k - N \in DOMAIN u /\ N + (k - N) = k /\ k > N)
      /\ DOMAIN w \subseteq Int
  BY <1>1
<1> HIDE DEF w
<1>4. ToSet(w) = ToSet(t) \cup ToSet(u)
  <2>1. ToSet(t) \subseteq ToSet(w) /\ ToSet(u) \subseteq ToSet(w)
    BY <1>3 DEF ToSet
  <2>2. ASSUME NEW k \in DOMAIN w PROVE w[k] \in ToSet(t) \cup ToSet(u)
    BY <1>3 DEF ToSet
  <2> QED
    BY <2>1, <2>2 DEF ToSet
<1>5. /\ Sorted(e, t) /\ Sorted(e, u) /\ Precedes(e, t, u) /\ Precedes(e, u, h) /\ Precedes(e, u, b)
      /\ \A k \in DOMAIN v : Precedes(e, u, v[k]) /\ Sorted(e, v[k]) /\ Precedes(e, t, v[k])
                             /\ Precedes(e, v[k], h) /\ Precedes(e, v[k], b)
  BY <1>1 DEF InLine, SortedBatches
<1>6. Sorted(e, w)
  <2> SUFFICES ASSUME NEW m \in DOMAIN w, NEW n \in DOMAIN w, m < n PROVE Before(e, w[m], w[n])
    BY DEF Sorted
  <2>1. CASE m \in DOMAIN t /\ n \in DOMAIN t
    BY <1>3, <1>5, <2>1 DEF Sorted
  <2>2. CASE m \in DOMAIN t /\ n \notin DOMAIN t
    <3>1. w[m] \in ToSet(t) /\ w[n] \in ToSet(u)
      BY <1>3, <2>2 DEF ToSet
    <3> QED
      BY <1>5, <3>1 DEF Precedes
  <2>3. CASE m \notin DOMAIN t
    <3>1. m \in Int /\ n \in Int /\ m > N /\ n > N /\ m - N < n - N
      BY <1>3, <2>3
    <3>2. n \notin DOMAIN t
      BY <1>3, <3>1
    <3>3. m - N \in DOMAIN u /\ n - N \in DOMAIN u /\ N + (m - N) = m /\ N + (n - N) = n
      BY <1>3, <2>3, <3>2
    <3>4. w[m] = u[m - N] /\ w[n] = u[n - N]
      BY <1>3, <3>3
    <3> QED
      BY <1>5, <3>1, <3>3, <3>4 DEF Sorted
  <2> QED
    BY <2>1, <2>2, <2>3
<1>7. SortedBatches(e, v)
  <2>1. ASSUME NEW k \in DOMAIN v, NEW l \in DOMAIN v, k < l PROVE Precedes(e, v[k], v[l])
    <3>1. k + 1 \in DOMAIN q /\ l + 1 \in DOMAIN q /\ k + 1 < l + 1 /\ v[k] = q[k + 1] /\ v[l] = q[l + 1]
      BY <1>1, <1>2, <2>1
    <3> QED
      BY <3>1 DEF InLine, SortedBatches
  <2> QED
    BY <1>5, <2>1 DEF SortedBatches
<1>8. \A x : Precedes(e, t, x) /\ Precedes(e, u, x) => Precedes(e, w, x)
  BY <1>4 DEF Precedes
<1>9. InLine(e, w, v, h, b)
  BY <1>5, <1>6, <1>7, <1>8 DEF InLine
<1>10. ToSet(q) = {u} \cup ToSet(v)
  <2>1. \A k \in DOMAIN q : q[k] \in {u} \cup ToSet(v)
    <3> SUFFICES ASSUME NEW k \in DOMAIN q, k # 1 PROVE q[k] \in ToSet(v)
      BY <1>1
    <3>1. k - 1 \in DOMAIN v /\ v[k - 1] = q[k]
      BY <1>1
    <3> QED
      BY <3>1 DEF ToSet
  <2>2. u \in ToSet(q) /\ ToSet(v) \subseteq ToSet(q)
    BY <1>1 DEF ToSet
  <2> QED
    BY <2>1, <2>2 DEF ToSet
<1>11. ItemsOf(q) = ToSet(u) \cup ItemsOf(v)
  BY <1>10 DEF ItemsOf
<1>12. Held(w, v, h, b) = Held(t, q, h, b)
  BY <1>4, <1>11 DEF Held
<1> QED
  BY <1>4, <1>9, <1>12 DEF u, v, w, TakesFirst

\* A put at the end of the line, with nothing held for room.
PutsLast(e, t, q, b, x) ==
  /\ InLine(Append(e, x), t, q, <<>>, Append(b, x))
  /\ Held(t, q, <<>>, Append(b, x)) = Held(t, q, <<>>, b) \cup {x}

LEMMA PutLine ==
  ASSUME NEW t, NEW q, NEW e \in Seq(Items), NEW b \in Seq(Items), NEW x \in Items,
         InLine(e, t, q, <<>>, b), Held(t, q, <<>>, b) \subseteq ToSet(e)
  PROVE  PutsLast(e, t, q, b, x)
<1> DEFINE f == Append(e, x)
           c == Append(b, x)
<1>1. /\ \A k \in DOMAIN e : k \in DOMAIN f /\ f[k] = e[k] /\ k < Len(e) + 1
      /\ f[Len(e) + 1] = x /\ Len(e) + 1 \in DOMAIN f
  BY AppendItem
<1>2. /\ \A k \in DOMAIN b : k \in DOMAIN c /\ c[k] = b[k] /\ ~(Len(b) + 1 < k)
      /\ c[Len(b) + 1] = x /\ Len(b) + 1 \in DOMAIN c
      /\ \A k \in DOMAIN c : k \in DOMAIN b \/ k = Len(b) + 1
      /\ ToSet(c) = ToSet(b) \cup {x} /\ ~(Len(b) + 1 < Len(b) + 1)
  BY AppendItem
<1> HIDE DEF f, c
<1>3. \A y, z : Before(e, y, z) => Before(f, y, z)
  BY <1>1 DEF Before
<1>4. \A y \in ToSet(e) : Before(f, y, x)
  BY <1>1 DEF Before, ToSet
<1>5. \A s : Sorted(e, s) => Sorted(f, s)
  BY <1>3 DEF Sorted
<1>6. \A s, u : Precedes(e, s, u) => Precedes(f, s, u)
  BY <1>3 DEF Precedes
<1>7. ASSUME NEW s, ToSet(s) \subseteq ToSet(e), Precedes(e, s, b)
      PROVE  Precedes(f, s, c)
  BY <1>2, <1>3, <1>4, <1>7 DEF Precedes
<1>8. Sorted(f, c)
  <2> SUFFICES ASSUME NEW m \in DOMAIN c, NEW n \in DOMAIN c, m < n PROVE Before(f, c[m], c[n])
    BY DEF Sorted
  <2>1. m \in DOMAIN b
    BY <1>2
  <2>2. CASE n \in DOMAIN b
    BY <1>2, <1>3, <2>1, <2>2 DEF InLine, Sorted
  <2>3. CASE n = Len(b) + 1
    <3>1. c[m] \in ToSet(b) /\ c[n] = x
      BY <1>2, <2>1, <2>3 DEF ToSet
    <3> QED
      BY <1>4, <3>1 DEF Held
  <2> QED
    BY <1>2, <2>2, <2>3
<1>9. \A k \in DOMAIN q : ToSet(q[k]) \subseteq ToSet(e)
  <2>1. \A k \in DOMAIN q : q[k] \in ToSet(q)
    BY DEF ToSet
  <2>2. \A k \in DOMAIN q : ToSet(q[k]) \subseteq ItemsOf(q)
    BY <2>1 DEF ItemsOf
  <2> QED
    BY <2>2 DEF Held
<1>10. SortedBatches(f, q)
  BY <1>5, <1>6 DEF InLine, SortedBatches
<1>11. \A k \in DOMAIN q : Precedes(f, t, q[k]) /\ Precedes(f, q[k], c)
  BY <1>6, <1>7, <1>9 DEF InLine
<1>12. Sorted(f, t) /\ Precedes(f, t, c)
  BY <1>5, <1>7 DEF InLine, Held
<1>13. InLine(f, t, q, <<>>, c)
  BY <1>8, <1>10, <1>11, <1>12, EmptyPiece DEF InLine
<1>14. Held(t, q, <<>>, c) = Held(t, q, <<>>, b) \cup {x}
  BY <1>2 DEF Held
<1> QED
  BY <1>13, <1>14 DEF f, c, PutsLast

\* A put precedes none of itself: a line over puts without repetition has none either.
Once(e) == \A m, n \in DOMAIN e : e[m] = e[n] => m = n

LEMMA NoRepetition ==
  ASSUME NEW S, NEW e \in Seq(S), Once(e), NEW t, NEW q, NEW h, NEW b, InLine(e, t, q, h, b)
  PROVE  /\ Held(t, q, <<>>, b) = Held(t, q, h, b) \ ToSet(h)
         /\ ToSet(t) \cup ToSet(h) = Held(t, q, h, b) \ (ToSet(b) \cup ItemsOf(q))
<1>1. \A x : ~Before(e, x, x)
  <2> SUFFICES ASSUME NEW m \in DOMAIN e, NEW n \in DOMAIN e, m < n, e[m] = e[n] PROVE FALSE
    BY DEF Before
  <2>1. m = n /\ m \in Int
    BY DEF Once
  <2> QED
    BY <2>1
<1>2. \A s, u : Precedes(e, s, u) => ToSet(s) \cap ToSet(u) = {}
  BY <1>1 DEF Precedes
<1>3. /\ ToSet(t) \cap ToSet(h) = {} /\ ToSet(t) \cap ToSet(b) = {} /\ ToSet(h) \cap ToSet(b) = {}
      /\ \A k \in DOMAIN q : /\ ToSet(t) \cap ToSet(q[k]) = {}
                             /\ ToSet(q[k]) \cap ToSet(h) = {}
  BY <1>2 DEF InLine
<1>4. ToSet(t) \cap ItemsOf(q) = {} /\ ItemsOf(q) \cap ToSet(h) = {}
  <2>1. \A x \in ItemsOf(q) : \E k \in DOMAIN q : x \in ToSet(q[k])
    BY DEF ItemsOf, ToSet
  <2> QED
    BY <1>3, <2>1
<1> QED
  BY <1>3, <1>4, EmptyPiece DEF Held

\* A flush moves the whole buffer in front of itself.
LEMMA FlushLine ==
  ASSUME NEW e, NEW t, NEW q, NEW s, InLine(e, t, q, <<>>, s)
  PROVE  InLine(e, t, q, s, <<>>) /\ Held(t, q, s, <<>>) = Held(t, q, <<>>, s)
BY EmptyPiece DEF InLine, Held

-----------------------------------------------------------------------------
(* Types, and the count of unfinished batches *)

WorkingAt(j) == {w \in Workers : wpc[w] = "working" /\ at[w] = j}

AtJob == \A w \in Workers : wpc[w] # "idle" => at[w] \in Jobs

\* A queue's count covers its batches and, while the job lives, the busy workers.
Accounted ==
  \A j \in Jobs :
    Len(queue[j]) + (IF j \in registered THEN Cardinality(WorkingAt(j)) ELSE 0) <= unfinished[j]

Gone == \A j \in Jobs : dispose[j] # "no" => j \notin registered

CountInv == TypeOK /\ AtJob /\ Accounted /\ Gone

LEMMA WorkingFinite ==
  \A j \in Jobs : /\ IsFiniteSet(WorkingAt(j)) /\ Cardinality(WorkingAt(j)) \in Nat
                  /\ IsFiniteSet(WorkingAt(j)') /\ Cardinality(WorkingAt(j)') \in Nat
BY ConstantsAssumption, FS_Subset, FS_CardinalityType DEF WorkingAt

\* The two ways a cut batch goes.
LEMMA EmitCases ==
  ASSUME TypeOK, NEW j \in Jobs, NEW b \in Seq(Items), NEW r \in Seq(Items),
         NEW who \in {"put", "flush", "drain"}, Emit(j, b, r, who)
  PROVE  /\ buffer' = [buffer EXCEPT ![j] = r]
         /\ \/ /\ Len(queue[j]) < Capacity
               /\ queue' = [queue EXCEPT ![j] = Append(queue[j], b)]
               /\ unfinished' = [unfinished EXCEPT ![j] = unfinished[j] + 1]
               /\ holder' = holder /\ held' = held
            \/ /\ holder' = [holder EXCEPT ![j] = who] /\ held' = [held EXCEPT ![j] = b]
               /\ queue' = queue /\ unfinished' = unfinished
BY DEF Emit, TypeOK

\* What every step that queues or holds a batch keeps.
QueueTypes ==
  /\ buffer \in [Jobs -> Seq(Items)]
  /\ queue \in [Jobs -> Seq(Seq(Items))] /\ \A j \in Jobs : Len(queue[j]) <= Capacity
  /\ unfinished \in [Jobs -> Nat]
  /\ holder \in [Jobs -> {"put", "flush", "drain", None}]
  /\ held \in [Jobs -> Seq(Items)]

\* A batch that is queued is counted.
LEMMA AppendCounted ==
  ASSUME QueueTypes, Accounted, NEW j \in Jobs, NEW b \in Seq(Items), Len(queue[j]) < Capacity,
         queue' = [queue EXCEPT ![j] = Append(queue[j], b)],
         unfinished' = [unfinished EXCEPT ![j] = unfinished[j] + 1],
         UNCHANGED <<registered, wpc, at>>
  PROVE  /\ queue' \in [Jobs -> Seq(Seq(Items))] /\ \A k \in Jobs : Len(queue'[k]) <= Capacity
         /\ unfinished' \in [Jobs -> Nat] /\ Accounted'
<1>1. Append(queue[j], b) \in Seq(Seq(Items)) /\ Len(Append(queue[j], b)) = Len(queue[j]) + 1
      /\ Len(queue[j]) \in Nat /\ Capacity \in Nat /\ unfinished[j] \in Nat
  BY ConstantsAssumption DEF QueueTypes
<1>2. /\ \A k \in Jobs : queue'[k] = IF k = j THEN Append(queue[j], b) ELSE queue[k]
      /\ \A k \in Jobs : unfinished'[k] = IF k = j THEN unfinished[j] + 1 ELSE unfinished[k]
      /\ queue' \in [Jobs -> Seq(Seq(Items))] /\ unfinished' \in [Jobs -> Nat]
  BY <1>1 DEF QueueTypes
<1>3. \A k \in Jobs : Len(queue'[k]) <= Capacity
  BY <1>1, <1>2 DEF QueueTypes
<1>4. \A k \in Jobs : WorkingAt(k)' = WorkingAt(k)
  BY DEF WorkingAt
<1>5. ASSUME NEW k \in Jobs
      PROVE  Len(queue'[k]) + (IF k \in registered THEN Cardinality(WorkingAt(k)) ELSE 0) <= unfinished'[k]
  <2>1. Cardinality(WorkingAt(k)) \in Nat
    BY WorkingFinite
  <2>2. Len(queue[k]) + (IF k \in registered THEN Cardinality(WorkingAt(k)) ELSE 0) <= unfinished[k]
    BY DEF Accounted
  <2>3. CASE k = j
    BY <1>1, <1>2, <2>1, <2>2, <2>3
  <2>4. CASE k # j
    BY <1>2, <2>2, <2>4
  <2> QED
    BY <2>3, <2>4
<1> QED
  BY <1>2, <1>3, <1>4, <1>5 DEF Accounted

LEMMA EmitCounted ==
  ASSUME CountInv, NEW j \in Jobs, NEW b \in Seq(Items), NEW r \in Seq(Items),
         NEW who \in {"put", "flush", "drain"}, Emit(j, b, r, who), UNCHANGED <<registered, wpc, at>>
  PROVE  QueueTypes' /\ Accounted'
<1>1. QueueTypes /\ Accounted /\ TypeOK
  BY DEF CountInv, TypeOK, QueueTypes
<1>2. buffer' \in [Jobs -> Seq(Items)]
  BY <1>1 DEF Emit, QueueTypes
<1>3. CASE /\ Len(queue[j]) < Capacity
           /\ queue' = [queue EXCEPT ![j] = Append(queue[j], b)]
           /\ unfinished' = [unfinished EXCEPT ![j] = unfinished[j] + 1]
           /\ holder' = holder /\ held' = held
  BY <1>1, <1>2, <1>3, AppendCounted DEF QueueTypes
<1>4. CASE /\ holder' = [holder EXCEPT ![j] = who] /\ held' = [held EXCEPT ![j] = b]
           /\ queue' = queue /\ unfinished' = unfinished
  BY <1>1, <1>2, <1>4 DEF QueueTypes, Accounted, WorkingAt
<1> QED
  BY <1>1, <1>3, <1>4, EmitCases

LEMMA FlushCounted ==
  ASSUME CountInv, NEW j \in Jobs, NEW who \in {"flush", "drain"}, FlushBuffer(j, who),
         UNCHANGED <<registered, wpc, at>>
  PROVE  QueueTypes' /\ Accounted'
<1>1. CASE buffer[j] = <<>>
  <2>1. UNCHANGED queueVars
    BY <1>1 DEF FlushBuffer
  <2> QED
    BY <2>1 DEF CountInv, TypeOK, QueueTypes, Accounted, WorkingAt, queueVars
<1>2. CASE buffer[j] # <<>>
  <2>1. Emit(j, buffer[j], <<>>, who) /\ buffer[j] \in Seq(Items) /\ <<>> \in Seq(Items)
    BY <1>2 DEF FlushBuffer, CountInv, TypeOK
  <2> QED
    BY <2>1, EmitCounted
<1> QED
  BY <1>1, <1>2

\* What a put does: the buffer grows, or its first batch is emitted.
LEMMA PutCases ==
  ASSUME TypeOK, NEW i \in Items, Put(i)
  PROVE  LET j == JobOf[i]  s == Append(buffer[j], i)
         IN  /\ j \in Jobs /\ s \in Seq(Items)
             /\ \/ BatchSize <= Len(s) /\ Emit(j, SubSeq(s, 1, BatchSize), SubSeq(s, BatchSize + 1, Len(s)), "put")
                \/ buffer' = [buffer EXCEPT ![j] = s] /\ UNCHANGED <<queue, unfinished, holder, held>>
<1>1. JobOf[i] \in Jobs /\ buffer[JobOf[i]] \in Seq(Items)
  BY ConstantsAssumption DEF TypeOK
<1>2. Append(buffer[JobOf[i]], i) \in Seq(Items) /\ BatchSize \in Nat
  BY <1>1, AppendItem, ConstantsAssumption
<1> QED
  BY <1>1, <1>2 DEF Put

LEMMA CountStep == CountInv /\ [Next]_vars => CountInv'
<1> SUFFICES ASSUME CountInv, [Next]_vars PROVE CountInv'
  OBVIOUS
<1>0. TypeOK /\ AtJob /\ Accounted /\ Gone /\ QueueTypes
  BY DEF CountInv, TypeOK, QueueTypes
<1>a. ASSUME UNCHANGED queueVars, UNCHANGED <<registered, wpc, at>> PROVE QueueTypes' /\ Accounted'
  BY <1>0, <1>a DEF QueueTypes, Accounted, WorkingAt, queueVars
<1>1. CASE UNCHANGED vars
  BY <1>1, <1>0, <1>a DEF CountInv, TypeOK, QueueTypes, AtJob, Gone, vars, workerVars, endVars, histVars
<1>2. ASSUME NEW i \in Items, CallPut(i) PROVE CountInv'
  BY <1>2, <1>0, <1>a DEF CountInv, TypeOK, QueueTypes, AtJob, Gone, CallPut, workerVars, endVars, histVars
<1>3. ASSUME NEW i \in Items, Put(i) PROVE CountInv'
  <2> DEFINE j == JobOf[i]
             s == Append(buffer[j], i)
  <2>1. /\ j \in Jobs /\ s \in Seq(Items)
        /\ \/ BatchSize <= Len(s) /\ Emit(j, SubSeq(s, 1, BatchSize), SubSeq(s, BatchSize + 1, Len(s)), "put")
           \/ buffer' = [buffer EXCEPT ![j] = s] /\ UNCHANGED <<queue, unfinished, holder, held>>
    BY <1>0, <1>3, PutCases
  <2>2. QueueTypes' /\ Accounted'
    <3>0. UNCHANGED <<registered, wpc, at>>
      BY <1>3 DEF Put, workerVars, endVars
    <3>1. CASE BatchSize <= Len(s) /\ Emit(j, SubSeq(s, 1, BatchSize), SubSeq(s, BatchSize + 1, Len(s)), "put")
      <4>1. SubSeq(s, 1, BatchSize) \in Seq(Items) /\ SubSeq(s, BatchSize + 1, Len(s)) \in Seq(Items)
        BY <2>1, <3>1, CutSeq, ConstantsAssumption
      <4> HIDE DEF s
      <4> QED
        BY <2>1, <3>0, <3>1, <4>1, EmitCounted
    <3>2. CASE buffer' = [buffer EXCEPT ![j] = s] /\ UNCHANGED <<queue, unfinished, holder, held>>
      <4> HIDE DEF s
      <4> QED
        BY <1>0, <2>1, <3>0, <3>2 DEF QueueTypes, Accounted, WorkingAt
    <3> QED
      BY <2>1, <3>1, <3>2
  <2>3. /\ put' \in [Items -> {"todo", "called", "in", "dropped"}]
        /\ entered' \in [Jobs -> Seq(Items)]
    BY <1>0, <1>3, <2>1, AppendItem DEF Put, TypeOK
  <2>4. UNCHANGED <<visiting, workerVars, endVars, taken, done, lost, drained>>
    BY <1>3 DEF Put
  <2> HIDE <1>3
  <2> QED
    BY <1>0, <2>2, <2>3, <2>4 DEF CountInv, TypeOK, QueueTypes, AtJob, Gone, workerVars, endVars
<1>4. ASSUME NEW j \in Jobs, HolderProceeds(j) PROVE CountInv'
  <2>1. QueueTypes' /\ Accounted'
    <3>1. /\ held[j] \in Seq(Items) /\ queue' = [queue EXCEPT ![j] = Append(queue[j], held[j])]
          /\ unfinished' = [unfinished EXCEPT ![j] = unfinished[j] + 1] /\ Len(queue[j]) < Capacity
          /\ UNCHANGED <<registered, wpc, at, buffer>>
          /\ holder' = [holder EXCEPT ![j] = None] /\ held' = [held EXCEPT ![j] = <<>>]
      BY <1>0, <1>4 DEF HolderProceeds, QueueTypes, workerVars
    <3>2. holder' \in [Jobs -> {"put", "flush", "drain", None}] /\ held' \in [Jobs -> Seq(Items)]
      BY <1>0, <3>1 DEF QueueTypes
    <3> QED
      BY <1>0, <3>1, <3>2, AppendCounted DEF QueueTypes
  <2>2. visiting' \in Jobs \cup {None} /\ drain' \in [Jobs -> DrainPCs]
    BY <1>0, <1>4 DEF HolderProceeds, TypeOK, DrainPCs
  <2>3. UNCHANGED <<put, workerVars, registered, dispose, before, histVars>>
    BY <1>4 DEF HolderProceeds
  <2> HIDE <1>4
  <2> QED
    BY <1>0, <2>1, <2>2, <2>3 DEF CountInv, TypeOK, QueueTypes, AtJob, Gone, workerVars, histVars
<1>5. ASSUME NEW j \in Jobs, VisitJob(j) PROVE CountInv'
  BY <1>5, <1>0, <1>a DEF CountInv, TypeOK, QueueTypes, AtJob, Gone, VisitJob, workerVars, endVars, histVars
<1>6. ASSUME NEW j \in Jobs, PeriodicFlush(j) PROVE CountInv'
  <2>1. QueueTypes' /\ Accounted'
    BY <1>6, FlushCounted DEF PeriodicFlush, workerVars, endVars
  <2>2. visiting' \in Jobs \cup {None} /\ UNCHANGED <<put, workerVars, endVars, histVars>>
    BY <1>6 DEF PeriodicFlush
  <2> HIDE <1>6
  <2> QED
    BY <1>0, <2>1, <2>2 DEF CountInv, TypeOK, QueueTypes, AtJob, Gone, workerVars, histVars, endVars
<1>7. ASSUME NEW j \in Jobs,
             BeginDrain(j) \/ DrainJoined(j) \/ DrainJoinTimeout(j)
      PROVE  CountInv'
  <2>1. UNCHANGED <<queueVars, put, visiting, workerVars, registered, dispose, histVars>>
    BY <1>7 DEF BeginDrain, DrainJoined, DrainJoinTimeout
  <2>2. drain' \in [Jobs -> DrainPCs]
    BY <1>0, <1>7 DEF BeginDrain, DrainJoined, DrainJoinTimeout, TypeOK, DrainPCs
  <2>3. before' \in [Jobs -> SUBSET Items]
    <3>1. CASE BeginDrain(j)
      <4>1. ToSet(entered[j]) \subseteq Items
        BY <1>0 DEF TypeOK, ToSet
      <4>2. before' = [before EXCEPT ![j] = ToSet(entered[j])]
        BY <3>1 DEF BeginDrain
      <4> QED
        BY <1>0, <4>1, <4>2 DEF TypeOK
    <3>2. CASE DrainJoined(j) \/ DrainJoinTimeout(j)
      BY <1>0, <3>2 DEF DrainJoined, DrainJoinTimeout, TypeOK
    <3> QED
      BY <1>7, <3>1, <3>2
  <2>4. QueueTypes' /\ Accounted'
    BY <1>a, <2>1 DEF workerVars
  <2> HIDE <1>7
  <2> QED
    BY <1>0, <2>1, <2>2, <2>3, <2>4 DEF CountInv, TypeOK, QueueTypes, AtJob, Gone, workerVars, histVars
<1>8. ASSUME NEW j \in Jobs, DrainFlush(j) PROVE CountInv'
  <2>1. QueueTypes' /\ Accounted'
    BY <1>8, FlushCounted DEF DrainFlush, workerVars
  <2>2. drain' \in [Jobs -> DrainPCs] /\ UNCHANGED <<put, visiting, workerVars, registered, dispose, before, histVars>>
    BY <1>0, <1>8 DEF DrainFlush, TypeOK, DrainPCs
  <2> HIDE <1>8
  <2> QED
    BY <1>0, <2>1, <2>2 DEF CountInv, TypeOK, QueueTypes, AtJob, Gone, workerVars, histVars
<1>9. ASSUME NEW j \in Jobs, DrainFlushTimeout(j) PROVE CountInv'
  <2>1. /\ UNCHANGED <<buffer, queue, unfinished, put, visiting, workerVars, registered,
                       dispose, before, entered, taken, done, drained>>
        /\ \/ UNCHANGED <<lost, holder, held>>
           \/ /\ lost' = lost \cup ToSet(held[j]) /\ holder' = [holder EXCEPT ![j] = None]
              /\ held' = [held EXCEPT ![j] = <<>>]
    BY <1>9 DEF DrainFlushTimeout
  <2>2. drain' \in [Jobs -> DrainPCs]
    BY <1>0, <1>9 DEF DrainFlushTimeout, TypeOK, DrainPCs
  <2>3. /\ holder' \in [Jobs -> {"put", "flush", "drain", None}] /\ held' \in [Jobs -> Seq(Items)]
    <3>1. <<>> \in Seq(Items) /\ holder \in [Jobs -> {"put", "flush", "drain", None}] /\ held \in [Jobs -> Seq(Items)]
      BY <1>0 DEF QueueTypes
    <3> QED
      BY <2>1, <3>1
  <2>4. lost' \subseteq Items
    <3>1. ToSet(held[j]) \subseteq Items
      BY <1>0 DEF TypeOK, ToSet
    <3> QED
      BY <1>0, <2>1, <3>1 DEF TypeOK
  <2>5. QueueTypes' /\ Accounted'
    BY <1>0, <2>1, <2>3 DEF QueueTypes, Accounted, WorkingAt, workerVars
  <2> HIDE <1>9
  <2> QED
    BY <1>0, <2>1, <2>2, <2>4, <2>5 DEF CountInv, TypeOK, QueueTypes, AtJob, Gone, workerVars
<1>10. ASSUME NEW j \in Jobs, Unregister(j) PROVE CountInv'
  <2>1. /\ registered' = registered \ {j} /\ dispose' = [dispose EXCEPT ![j] = "waiting"]
        /\ UNCHANGED <<queueVars, put, visiting, workerVars, drain, before, histVars>>
    BY <1>10 DEF Unregister
  <2>2. Gone' /\ dispose' \in [Jobs -> {"no", "waiting", "ended"}] /\ registered' \subseteq Jobs
    BY <1>0, <2>1 DEF Gone, TypeOK
  <2>3. Accounted'
    <3>1. \A k \in Jobs : /\ WorkingAt(k)' = WorkingAt(k) /\ Cardinality(WorkingAt(k)) \in Nat
                          /\ Len(queue[k]) \in Nat /\ unfinished[k] \in Nat
      <4>1. \A k \in Jobs : WorkingAt(k)' = WorkingAt(k)
        BY <2>1 DEF WorkingAt, workerVars
      <4>2. \A k \in Jobs : Len(queue[k]) \in Nat /\ unfinished[k] \in Nat
        BY <1>0 DEF QueueTypes
      <4> QED
        BY <4>1, <4>2, WorkingFinite
    <3>2. UNCHANGED <<queue, unfinished>>
      BY <2>1 DEF queueVars
    <3> SUFFICES ASSUME NEW k \in Jobs
                 PROVE  Len(queue[k]) + (IF k \in registered' THEN Cardinality(WorkingAt(k)) ELSE 0) <= unfinished[k]
      BY <3>1, <3>2 DEF Accounted
    <3>3. Len(queue[k]) + (IF k \in registered THEN Cardinality(WorkingAt(k)) ELSE 0) <= unfinished[k]
      BY <1>0 DEF Accounted
    <3> QED
      BY <2>1, <3>1, <3>3
  <2> HIDE <1>10
  <2> QED
    BY <1>0, <2>1, <2>2, <2>3 DEF CountInv, TypeOK, AtJob, workerVars, histVars, queueVars
<1>11. ASSUME NEW j \in Jobs, Dispose(j) PROVE CountInv'
  <2>1. /\ dispose[j] = "waiting"
        /\ drained' = drained \cup ToSet(buffer[j]) \cup ItemsOf(queue[j])
        /\ buffer' = [buffer EXCEPT ![j] = <<>>]
        /\ unfinished' = [unfinished EXCEPT ![j] = unfinished[j] - Len(queue[j])]
        /\ queue' = [queue EXCEPT ![j] = <<>>] /\ dispose' = [dispose EXCEPT ![j] = "ended"]
        /\ UNCHANGED <<holder, held, put, visiting, workerVars, registered, drain, before,
                       entered, taken, done, lost>>
    BY <1>0, <1>11 DEF Dispose, QueueTypes
  <2>2. j \notin registered
    BY <1>0, <2>1 DEF Gone
  <2>3. drained' \subseteq Items
    <3>1. ToSet(buffer[j]) \subseteq Items
      BY <1>0 DEF QueueTypes, ToSet
    <3>2. \A b \in ToSet(queue[j]) : ToSet(b) \subseteq Items
      BY <1>0 DEF QueueTypes, ToSet
    <3> QED
      BY <1>0, <2>1, <3>1, <3>2 DEF TypeOK, ItemsOf
  <2>4. Len(queue[j]) \in Nat /\ unfinished[j] \in Nat /\ Len(queue[j]) <= unfinished[j]
    <3>1. Len(queue[j]) \in Nat /\ unfinished[j] \in Nat
      BY <1>0 DEF QueueTypes
    <3> QED
      BY <1>0, <2>2, <3>1 DEF Accounted
  <2>5. unfinished[j] - Len(queue[j]) \in Nat /\ <<>> \in Seq(Seq(Items)) /\ <<>> \in Seq(Items)
        /\ Len(<<>>) = 0 /\ Capacity \in Nat
    BY <2>4, ConstantsAssumption
  <2>6. /\ \A k \in Jobs : /\ queue'[k] = IF k = j THEN <<>> ELSE queue[k]
                           /\ unfinished'[k] = IF k = j THEN unfinished[j] - Len(queue[j]) ELSE unfinished[k]
        /\ queue' \in [Jobs -> Seq(Seq(Items))] /\ unfinished' \in [Jobs -> Nat]
        /\ buffer' \in [Jobs -> Seq(Items)]
    BY <1>0, <2>1, <2>5 DEF QueueTypes
  <2>7. \A k \in Jobs : Len(queue'[k]) <= Capacity
    BY <1>0, <2>5, <2>6 DEF QueueTypes
  <2>8. Accounted'
    <3>1. \A k \in Jobs : WorkingAt(k)' = WorkingAt(k)
      BY <2>1 DEF WorkingAt, workerVars
    <3> SUFFICES ASSUME NEW k \in Jobs
                 PROVE  Len(queue'[k]) + (IF k \in registered THEN Cardinality(WorkingAt(k)) ELSE 0) <= unfinished'[k]
      BY <2>1, <3>1 DEF Accounted
    <3>2. CASE k = j
      BY <2>2, <2>5, <2>6, <3>2
    <3>3. CASE k # j
      BY <1>0, <2>6, <3>3 DEF Accounted
    <3> QED
      BY <3>2, <3>3
  <2>9. Gone' /\ dispose' \in [Jobs -> {"no", "waiting", "ended"}]
    BY <1>0, <2>1, <2>2 DEF Gone, TypeOK
  <2> HIDE <1>11
  <2> QED
    BY <1>0, <2>1, <2>3, <2>6, <2>7, <2>8, <2>9 DEF CountInv, TypeOK, AtJob, workerVars
<1>12. ASSUME NEW w \in Workers, NEW j \in Jobs, wpc[w] # "working", Take(w, j) PROVE CountInv'
  <2>1. /\ queue[j] # <<>> /\ queue' = [queue EXCEPT ![j] = Tail(queue[j])]
        /\ taken' = [taken EXCEPT ![j] = taken[j] \o Head(queue[j])]
        /\ wpc' = [wpc EXCEPT ![w] = "working"] /\ at' = [at EXCEPT ![w] = j]
        /\ batch' = [batch EXCEPT ![w] = Head(queue[j])]
        /\ UNCHANGED <<buffer, unfinished, holder, held, put, visiting, endVars, entered, done, lost, drained>>
    BY <1>0, <1>12 DEF Take, TypeOK
  <2>2. /\ Head(queue[j]) \in Seq(Items) /\ Tail(queue[j]) \in Seq(Seq(Items))
        /\ Len(Tail(queue[j])) = Len(queue[j]) - 1 /\ Len(queue[j]) \in Nat /\ Len(queue[j]) >= 1
    BY <1>0, <2>1 DEF QueueTypes
  <2>3. taken[j] \o Head(queue[j]) \in Seq(Items)
    BY <1>0, <2>2 DEF TypeOK
  <2>4. /\ queue' \in [Jobs -> Seq(Seq(Items))]
        /\ \A k \in Jobs : queue'[k] = IF k = j THEN Tail(queue[j]) ELSE queue[k]
        /\ taken' \in [Jobs -> Seq(Items)] /\ batch' \in [Workers -> Seq(Items)]
        /\ wpc' \in [Workers -> {"idle", "parked", "working"}] /\ at' \in [Workers -> Jobs \cup {None}]
    BY <1>0, <2>1, <2>2, <2>3 DEF TypeOK
  <2>5. ASSUME NEW k \in Jobs PROVE Len(queue'[k]) <= Capacity
    <3>1. Len(queue[k]) <= Capacity /\ Len(queue[j]) <= Capacity /\ Capacity \in Nat
      BY <1>0, ConstantsAssumption DEF QueueTypes
    <3>2. CASE k = j
      BY <2>2, <2>4, <3>1, <3>2
    <3>3. CASE k # j
      BY <2>4, <3>1, <3>3
    <3> QED
      BY <3>2, <3>3
  <2>6. AtJob'
    BY <1>0, <2>1 DEF AtJob, TypeOK
  <2>7. Accounted'
    <3>1. /\ WorkingAt(j)' = WorkingAt(j) \cup {w} /\ w \notin WorkingAt(j)
          /\ \A k \in Jobs : k # j => WorkingAt(k)' = WorkingAt(k)
      BY <1>0, <1>12, <2>1 DEF WorkingAt, TypeOK
    <3>2. Cardinality(WorkingAt(j)') = Cardinality(WorkingAt(j)) + 1 /\ Cardinality(WorkingAt(j)) \in Nat
      BY <3>1, WorkingFinite, FS_AddElement
    <3> SUFFICES ASSUME NEW k \in Jobs
                 PROVE  Len(queue'[k]) + (IF k \in registered THEN Cardinality(WorkingAt(k)') ELSE 0) <= unfinished[k]
      BY <2>1 DEF Accounted, endVars
    <3>3. Len(queue[k]) + (IF k \in registered THEN Cardinality(WorkingAt(k)) ELSE 0) <= unfinished[k]
          /\ unfinished[k] \in Nat
      BY <1>0 DEF Accounted, QueueTypes
    <3>4. CASE k = j
      BY <2>2, <2>4, <3>2, <3>3, <3>4
    <3>5. CASE k # j
      BY <2>4, <3>1, <3>3, <3>5
    <3> QED
      BY <3>4, <3>5
  <2> HIDE <1>12
  <2> QED
    BY <1>0, <2>1, <2>4, <2>5, <2>6, <2>7 DEF CountInv, TypeOK, Gone, endVars
<1>13. ASSUME NEW w \in Workers, NEW j \in Jobs, Park(w, j) PROVE CountInv'
  <2>1. /\ wpc[w] = "idle" /\ wpc' = [wpc EXCEPT ![w] = "parked"] /\ at' = [at EXCEPT ![w] = j]
        /\ UNCHANGED <<queueVars, put, visiting, batch, endVars, histVars>>
    BY <1>13 DEF Park
  <2>2. /\ wpc' \in [Workers -> {"idle", "parked", "working"}] /\ at' \in [Workers -> Jobs \cup {None}] /\ AtJob'
    BY <1>0, <2>1 DEF TypeOK, AtJob
  <2>3. \A k \in Jobs : WorkingAt(k)' = WorkingAt(k)
    BY <1>0, <2>1 DEF WorkingAt, TypeOK
  <2>4. Accounted'
    BY <1>0, <2>1, <2>3 DEF Accounted, queueVars, endVars
  <2> HIDE <1>13
  <2> QED
    BY <1>0, <2>1, <2>2, <2>4 DEF CountInv, TypeOK, Gone, queueVars, endVars, histVars
<1>14. ASSUME NEW w \in Workers, TaskDone(w) PROVE CountInv'
  <2>0. PICK j \in Jobs : j = at[w]
    BY <1>0, <1>14 DEF TaskDone, AtJob
  <2>1. /\ wpc[w] = "working"
        /\ unfinished' = [unfinished EXCEPT ![j] = IF j \in registered THEN @ - 1 ELSE @]
        /\ done' = done \cup ToSet(batch[w]) /\ wpc' = [wpc EXCEPT ![w] = "idle"]
        /\ at' = [at EXCEPT ![w] = None] /\ batch' = [batch EXCEPT ![w] = <<>>]
        /\ UNCHANGED <<buffer, queue, holder, held, put, visiting, endVars, entered, taken, lost, drained>>
    BY <2>0, <1>14 DEF TaskDone
  <2>2. /\ WorkingAt(j)' = WorkingAt(j) \ {w} /\ w \in WorkingAt(j)
        /\ \A k \in Jobs : k # j => WorkingAt(k)' = WorkingAt(k)
    BY <1>0, <2>0, <2>1, ConstantsAssumption DEF WorkingAt, TypeOK
  <2>3. Cardinality(WorkingAt(j)') = Cardinality(WorkingAt(j)) - 1 /\ Cardinality(WorkingAt(j)) \in Nat
        /\ Cardinality(WorkingAt(j)') \in Nat
    BY <2>1, <2>2, WorkingFinite, FS_RemoveElement
  <2>4. /\ Len(queue[j]) \in Nat /\ unfinished[j] \in Nat
        /\ Len(queue[j]) + (IF j \in registered THEN Cardinality(WorkingAt(j)) ELSE 0) <= unfinished[j]
    BY <1>0, <2>1 DEF QueueTypes, Accounted
  <2>5. (IF j \in registered THEN unfinished[j] - 1 ELSE unfinished[j]) \in Nat
    BY <2>3, <2>4
  <2>6. /\ \A k \in Jobs : unfinished'[k] = IF k = j THEN (IF j \in registered THEN unfinished[j] - 1 ELSE unfinished[j])
                                                     ELSE unfinished[k]
        /\ unfinished' \in [Jobs -> Nat]
    BY <1>0, <2>1, <2>5 DEF QueueTypes
  <2>7. Accounted'
    <3> SUFFICES ASSUME NEW k \in Jobs
                 PROVE  Len(queue[k]) + (IF k \in registered THEN Cardinality(WorkingAt(k)') ELSE 0) <= unfinished'[k]
      BY <2>1 DEF Accounted, endVars
    <3>1. CASE k = j
      BY <2>3, <2>4, <2>6, <3>1
    <3>2. CASE k # j
      BY <1>0, <2>2, <2>6, <3>2 DEF Accounted
    <3> QED
      BY <3>1, <3>2
  <2>8. /\ wpc' \in [Workers -> {"idle", "parked", "working"}] /\ at' \in [Workers -> Jobs \cup {None}]
        /\ batch' \in [Workers -> Seq(Items)] /\ AtJob'
    BY <1>0, <2>1 DEF TypeOK, AtJob
  <2>9. done' \subseteq Items
    <3>1. ToSet(batch[w]) \subseteq Items
      BY <1>0 DEF TypeOK, ToSet
    <3> QED
      BY <1>0, <2>1, <3>1 DEF TypeOK
  <2> HIDE <1>14
  <2> QED
    BY <1>0, <2>1, <2>6, <2>7, <2>8, <2>9 DEF CountInv, TypeOK, Gone, endVars
<1>15. ASSUME NEW w \in Workers, NEW j \in Jobs, Get(w, j) PROVE CountInv'
  <2>1. wpc[w] # "working" /\ Take(w, j)
    BY <1>15 DEF Get
  <2> QED
    BY <1>12, <2>1
<1>16. ASSUME NEW w \in Workers, ParkedGets(w) PROVE CountInv'
  <2>1. wpc[w] # "working" /\ \E j \in Jobs : Take(w, j)
    BY <1>16 DEF ParkedGets
  <2> QED
    BY <1>12, <2>1
<1> QED
  BY <1>1, <1>2, <1>3, <1>4, <1>5, <1>6, <1>7, <1>8, <1>9, <1>10, <1>11, <1>13, <1>14, <1>15, <1>16 DEF Next

LEMMA CountsHold == Spec => []CountInv
<1>1. Init => CountInv
  <2> SUFFICES ASSUME Init PROVE CountInv
    OBVIOUS
  <2>1. \A j \in Jobs : WorkingAt(j) = {}
    BY DEF Init, WorkingAt
  <2>2. Accounted
    <3>1. \A j \in Jobs : Len(queue[j]) = 0 /\ unfinished[j] = 0 /\ Cardinality(WorkingAt(j)) = 0
      BY <2>1, FS_EmptySet DEF Init
    <3> QED
      BY <3>1 DEF Accounted
  <2>3. Capacity \in Nat /\ Len(<<>>) = 0
    BY ConstantsAssumption
  <2>4. TypeOK
    BY <2>3 DEF Init, TypeOK, DrainPCs
  <2> QED
    BY <2>2, <2>4 DEF Init, CountInv, AtJob, Gone
<1> QED
  BY <1>1, CountStep, PTL DEF Spec

\* Type correctness: no queue is over its capacity, and no task_done takes the count of
\* unfinished batches below zero.
THEOREM TypeCorrect == Spec => []TypeOK
BY CountsHold, PTL DEF CountInv

-----------------------------------------------------------------------------
(* The order of a job's items *)

\* What was put is recorded once, under its job.
Recorded ==
  /\ \A j \in Jobs : Once(entered[j]) /\ \A i \in ToSet(entered[j]) : JobOf[i] = j /\ put[i] = "in"
  /\ \A i \in lost \cup drained : put[i] = "in"

\* A job's items stand in line in the order of the puts; the missing ones are known.
Lines ==
  \A j \in Jobs :
    /\ InLine(entered[j], taken[j], queue[j], held[j], buffer[j])
    /\ Held(taken[j], queue[j], held[j], buffer[j]) = ToSet(entered[j]) \ (lost \cup drained)

\* Nobody holds a batch without the lock.
NoneHeld == \A j \in Jobs : holder[j] = None => held[j] = <<>>

LineInv == Recorded /\ Lines /\ NoneHeld

lineVars == <<entered, taken, queue, held, buffer, holder, lost, drained>>

\* Steps that only count, wait or move a program counter.
LEMMA LineAside ==
  ASSUME LineInv, UNCHANGED lineVars, \A i \in Items : put[i] = "in" => put'[i] = "in", CountInv
  PROVE  LineInv'
<1>1. \A j \in Jobs : ToSet(entered[j]) \subseteq Items
  BY DEF CountInv, TypeOK, ToSet
<1>2. Recorded'
  BY <1>1 DEF LineInv, Recorded, lineVars, CountInv, TypeOK
<1>3. Lines' /\ NoneHeld'
  BY DEF LineInv, Lines, NoneHeld, lineVars
<1> QED
  BY <1>2, <1>3 DEF LineInv

\* The line of job j alone moves on, without the items that are gone.
LineMoves(j, gone) ==
  /\ UNCHANGED <<entered, put>>
  /\ \A k \in Jobs : k # j => /\ taken'[k] = taken[k] /\ queue'[k] = queue[k] /\ held'[k] = held[k]
                              /\ buffer'[k] = buffer[k] /\ holder'[k] = holder[k]
  /\ gone \subseteq ToSet(entered[j]) /\ lost' \cup drained' = lost \cup drained \cup gone
  /\ InLine(entered[j], taken'[j], queue'[j], held'[j], buffer'[j])
  /\ Held(taken'[j], queue'[j], held'[j], buffer'[j])
       = Held(taken[j], queue[j], held[j], buffer[j]) \ gone
  /\ holder'[j] = None => held'[j] = <<>>

LEMMA LineOfOne ==
  ASSUME LineInv, NEW j \in Jobs, NEW gone, LineMoves(j, gone)
  PROVE  LineInv'
<1> USE DEF LineMoves
<1>1. Recorded'
  <2>1. \A i \in gone : put[i] = "in"
    BY DEF LineInv, Recorded
  <2> QED
    BY <2>1 DEF LineInv, Recorded
<1>2. NoneHeld'
  BY DEF LineInv, NoneHeld
<1>3. Lines'
  <2> SUFFICES ASSUME NEW k \in Jobs
               PROVE  /\ InLine(entered[k], taken'[k], queue'[k], held'[k], buffer'[k])
                      /\ Held(taken'[k], queue'[k], held'[k], buffer'[k])
                           = ToSet(entered[k]) \ (lost' \cup drained')
    BY DEF Lines
  <2>1. /\ InLine(entered[k], taken[k], queue[k], held[k], buffer[k])
        /\ Held(taken[k], queue[k], held[k], buffer[k]) = ToSet(entered[k]) \ (lost \cup drained)
    BY DEF LineInv, Lines
  <2>2. CASE k = j
    BY <2>1, <2>2
  <2>3. CASE k # j
    <3>1. ToSet(entered[k]) \cap gone = {}
      BY <2>3 DEF LineInv, Recorded
    <3> QED
      BY <2>1, <2>3, <3>1
  <2> QED
    BY <2>2, <2>3
<1> QED
  BY <1>1, <1>2, <1>3 DEF LineInv

\* A batch that is emitted keeps its place in line: at the end of the queue, or held.
EmitsInLine(e, t, j, b, r, who) ==
  /\ InLine(e, t, queue'[j], held'[j], buffer'[j])
  /\ Held(t, queue'[j], held'[j], buffer'[j]) = Held(t, queue[j], b, r)
  /\ holder'[j] = None => held'[j] = <<>>
  /\ buffer'[j] = r /\ held'[j] \in {<<>>, b}
  /\ holder'[j] \in {holder[j], who}
  /\ \A k \in Jobs : k # j => /\ queue'[k] = queue[k] /\ held'[k] = held[k]
                              /\ buffer'[k] = buffer[k] /\ holder'[k] = holder[k]

LEMMA EmitLine ==
  ASSUME CountInv, NEW j \in Jobs, NEW b \in Seq(Items), NEW r \in Seq(Items),
         NEW who \in {"put", "flush", "drain"}, Emit(j, b, r, who), held[j] = <<>>,
         NEW e, NEW t, InLine(e, t, queue[j], b, r)
  PROVE  EmitsInLine(e, t, j, b, r, who)
<1>1. TypeOK /\ queue[j] \in Seq(Seq(Items)) /\ None \notin {"put", "flush", "drain"}
  BY ConstantsAssumption DEF CountInv, TypeOK
<1>2. buffer'[j] = r /\ \A k \in Jobs : k # j => buffer'[k] = buffer[k]
  BY <1>1 DEF Emit, TypeOK
<1>3. CASE /\ Len(queue[j]) < Capacity
           /\ queue' = [queue EXCEPT ![j] = Append(queue[j], b)]
           /\ unfinished' = [unfinished EXCEPT ![j] = unfinished[j] + 1]
           /\ holder' = holder /\ held' = held
  <2>1. queue'[j] = Append(queue[j], b) /\ \A k \in Jobs : k # j => queue'[k] = queue[k]
    BY <1>1, <1>3 DEF TypeOK
  <2>2. /\ InLine(e, t, Append(queue[j], b), <<>>, r)
        /\ Held(t, Append(queue[j], b), <<>>, r) = Held(t, queue[j], b, r)
    BY <1>1, QueueLine
  <2> QED
    BY <1>2, <1>3, <2>1, <2>2 DEF EmitsInLine
<1>4. CASE /\ holder' = [holder EXCEPT ![j] = who] /\ held' = [held EXCEPT ![j] = b]
           /\ queue' = queue /\ unfinished' = unfinished
  <2>1. /\ held'[j] = b /\ holder'[j] = who /\ queue'[j] = queue[j]
        /\ \A k \in Jobs : k # j => held'[k] = held[k] /\ holder'[k] = holder[k] /\ queue'[k] = queue[k]
    BY <1>1, <1>4 DEF TypeOK
  <2> QED
    BY <1>1, <1>2, <2>1 DEF EmitsInLine
<1> QED
  BY <1>1, <1>3, <1>4, EmitCases

\* A flush keeps the line, and leaves nothing in the buffer.
LEMMA FlushKeepsLine ==
  ASSUME CountInv, LineInv, NEW j \in Jobs, NEW who \in {"flush", "drain"}, holder[j] = None,
         FlushBuffer(j, who)
  PROVE  /\ InLine(entered[j], taken[j], queue'[j], held'[j], buffer'[j])
         /\ Held(taken[j], queue'[j], held'[j], buffer'[j]) = Held(taken[j], queue[j], held[j], buffer[j])
         /\ holder'[j] = None => held'[j] = <<>>
         /\ buffer'[j] = <<>> /\ held'[j] \in {<<>>, buffer[j]} /\ holder'[j] \in {None, who}
         /\ \A k \in Jobs : k # j => /\ queue'[k] = queue[k] /\ held'[k] = held[k]
                                     /\ buffer'[k] = buffer[k] /\ holder'[k] = holder[k]
<1>1. held[j] = <<>> /\ InLine(entered[j], taken[j], queue[j], <<>>, buffer[j])
  BY DEF LineInv, NoneHeld, Lines
<1>2. CASE buffer[j] = <<>>
  <2>1. UNCHANGED queueVars
    BY <1>2 DEF FlushBuffer
  <2> QED
    BY <1>1, <1>2, <2>1 DEF queueVars
<1>3. CASE buffer[j] # <<>>
  <2>1. Emit(j, buffer[j], <<>>, who) /\ buffer[j] \in Seq(Items) /\ <<>> \in Seq(Items)
    BY <1>3 DEF FlushBuffer, CountInv, TypeOK
  <2>2. /\ InLine(entered[j], taken[j], queue[j], buffer[j], <<>>)
        /\ Held(taken[j], queue[j], buffer[j], <<>>) = Held(taken[j], queue[j], <<>>, buffer[j])
    BY <1>1, FlushLine
  <2>3. PICK e, t : e = entered[j] /\ t = taken[j]
    OBVIOUS
  <2>4. InLine(e, t, queue[j], buffer[j], <<>>)
    BY <2>2, <2>3
  <2>5. PICK b : b = buffer[j]
    OBVIOUS
  <2>6. Emit(j, b, <<>>, who) /\ b \in Seq(Items) /\ InLine(e, t, queue[j], b, <<>>)
    BY <2>1, <2>4, <2>5
  <2>7. EmitsInLine(e, t, j, b, <<>>, who)
    BY <1>1, <2>1, <2>6, EmitLine
  <2> QED
    BY <1>1, <2>2, <2>3, <2>5, <2>7 DEF EmitsInLine
<1> QED
  BY <1>2, <1>3

LEMMA LineStep == CountInv /\ LineInv /\ [Next]_vars => LineInv'
<1> SUFFICES ASSUME CountInv, LineInv, [Next]_vars PROVE LineInv'
  OBVIOUS
<1>0. TypeOK /\ Recorded /\ Lines /\ NoneHeld
  BY DEF CountInv, LineInv
<1>1. CASE UNCHANGED vars
  BY <1>1, LineAside DEF vars, queueVars, histVars, lineVars
<1>2. ASSUME NEW i \in Items, CallPut(i) PROVE LineInv'
  <2>1. \A k \in Items : put[k] = "in" => put'[k] = "in"
    BY <1>0, <1>2 DEF CallPut, TypeOK
  <2> QED
    BY <1>2, <2>1, LineAside DEF CallPut, queueVars, histVars, lineVars
<1>3. ASSUME NEW i \in Items, Put(i) PROVE LineInv'
  <2>0. PICK j \in Jobs : j = JobOf[i]
    BY ConstantsAssumption
  <2> DEFINE s == Append(buffer[j], i)
             e == Append(entered[j], i)
  <2>1. /\ s \in Seq(Items)
        /\ \/ BatchSize <= Len(s) /\ Emit(j, SubSeq(s, 1, BatchSize), SubSeq(s, BatchSize + 1, Len(s)), "put")
           \/ buffer' = [buffer EXCEPT ![j] = s] /\ UNCHANGED <<queue, unfinished, holder, held>>
    BY <1>0, <1>3, <2>0, PutCases
  <2>2. /\ put[i] = "called" /\ holder[j] = None
        /\ put' = [put EXCEPT ![i] = "in"] /\ entered' = [entered EXCEPT ![j] = e]
        /\ UNCHANGED <<taken, lost, drained>>
    BY <1>0, <1>3, <2>0 DEF Put, Locked, TypeOK
  <2>3. /\ entered[j] \in Seq(Items) /\ buffer[j] \in Seq(Items) /\ held[j] = <<>>
        /\ InLine(entered[j], taken[j], queue[j], <<>>, buffer[j])
        /\ Held(taken[j], queue[j], <<>>, buffer[j]) = ToSet(entered[j]) \ (lost \cup drained)
    BY <1>0, <2>2 DEF TypeOK, NoneHeld, Lines
  <2>4. /\ InLine(e, taken[j], queue[j], <<>>, s)
        /\ Held(taken[j], queue[j], <<>>, s) = (ToSet(entered[j]) \ (lost \cup drained)) \cup {i}
    <3>1. Held(taken[j], queue[j], <<>>, buffer[j]) \subseteq ToSet(entered[j])
      BY <2>3
    <3>2. /\ InLine(Append(entered[j], i), taken[j], queue[j], <<>>, Append(buffer[j], i))
          /\ Held(taken[j], queue[j], <<>>, Append(buffer[j], i))
               = Held(taken[j], queue[j], <<>>, buffer[j]) \cup {i}
      <4>1. PICK f, t, b, q : f = entered[j] /\ t = taken[j] /\ b = buffer[j] /\ q = queue[j]
        OBVIOUS
      <4>2. /\ InLine(f, t, q, <<>>, b) /\ Held(t, q, <<>>, b) \subseteq ToSet(f)
            /\ f \in Seq(Items) /\ b \in Seq(Items)
        BY <2>3, <3>1, <4>1
      <4>3. PutsLast(f, t, q, b, i)
        BY <4>2, PutLine
      <4> QED
        BY <4>1, <4>3 DEF PutsLast
    <3> QED
      BY <2>3, <3>2
  <2>5. i \notin ToSet(entered[j]) /\ i \notin lost \cup drained
    BY <1>0, <2>2 DEF Recorded
  <2>6. ToSet(e) = ToSet(entered[j]) \cup {i} /\ Once(e)
    <3>1. /\ ToSet(e) = ToSet(entered[j]) \cup {i}
          /\ \A k \in DOMAIN entered[j] : e[k] = entered[j][k]
          /\ e[Len(entered[j]) + 1] = i
          /\ \A k \in DOMAIN e : k \in DOMAIN entered[j] \/ k = Len(entered[j]) + 1
      BY <2>3, AppendItem
    <3>2. \A k \in DOMAIN entered[j] : e[k] # i
      BY <2>5, <3>1 DEF ToSet
    <3> HIDE DEF e
    <3> QED
      BY <1>0, <3>1, <3>2 DEF Recorded, Once
  <2> HIDE DEF e, s
  <2>7. /\ InLine(e, taken[j], queue'[j], held'[j], buffer'[j])
        /\ Held(taken[j], queue'[j], held'[j], buffer'[j]) = ToSet(e) \ (lost \cup drained)
        /\ holder'[j] = None => held'[j] = <<>>
        /\ \A k \in Jobs : k # j => /\ queue'[k] = queue[k] /\ held'[k] = held[k]
                                    /\ buffer'[k] = buffer[k] /\ holder'[k] = holder[k]
    <3>0. Held(taken[j], queue[j], <<>>, s) = ToSet(e) \ (lost \cup drained)
      BY <2>4, <2>5, <2>6
    <3>1. CASE BatchSize <= Len(s) /\ Emit(j, SubSeq(s, 1, BatchSize), SubSeq(s, BatchSize + 1, Len(s)), "put")
      <4> DEFINE b == SubSeq(s, 1, BatchSize)
                 r == SubSeq(s, BatchSize + 1, Len(s))
      <4>1. BatchSize \in Nat
        BY ConstantsAssumption
      <4>2. b \in Seq(Items) /\ r \in Seq(Items)
        BY <2>1, <3>1, <4>1, CutSeq
      <4>3. /\ InLine(e, taken[j], queue[j], b, r)
            /\ Held(taken[j], queue[j], b, r) = Held(taken[j], queue[j], <<>>, s)
        BY <2>1, <2>4, <3>1, <4>1, CutLine
      <4>4. Emit(j, b, r, "put")
        BY <3>1
      <4> HIDE DEF b, r
      <4> QED
        <5>1. PICK t : t = taken[j]
          OBVIOUS
        <5>2. InLine(e, t, queue[j], b, r)
          BY <4>3, <5>1
        <5>3. EmitsInLine(e, t, j, b, r, "put")
          BY <2>3, <4>2, <4>4, <5>2, EmitLine
        <5> QED
          BY <3>0, <4>3, <5>1, <5>3 DEF EmitsInLine
    <3>2. CASE buffer' = [buffer EXCEPT ![j] = s] /\ UNCHANGED <<queue, unfinished, holder, held>>
      <4>1. buffer'[j] = s /\ \A k \in Jobs : k # j => buffer'[k] = buffer[k]
        BY <1>0, <3>2 DEF TypeOK
      <4> QED
        BY <2>3, <2>4, <3>0, <3>2, <4>1
    <3> QED
      BY <2>1, <3>1, <3>2
  <2>8. entered'[j] = e /\ \A k \in Jobs : k # j => entered'[k] = entered[k]
    BY <1>0, <2>2 DEF TypeOK
  <2>9. put'[i] = "in" /\ \A k \in Items : put[k] = "in" => put'[k] = "in"
    BY <1>0, <2>2 DEF TypeOK
  <2>10. Recorded'
    <3>1. \A k \in Jobs : ToSet(entered[k]) \subseteq Items
      BY <1>0 DEF TypeOK, ToSet
    <3>2. \A k \in Jobs : Once(entered'[k])
      BY <1>0, <2>6, <2>8 DEF Recorded
    <3>3. \A k \in Jobs : \A x \in ToSet(entered'[k]) : JobOf[x] = k /\ put'[x] = "in"
      BY <1>0, <2>0, <2>6, <2>8, <2>9, <3>1 DEF Recorded
    <3>4. \A x \in lost' \cup drained' : put'[x] = "in"
      BY <1>0, <2>2, <2>9 DEF Recorded, TypeOK
    <3> QED
      BY <3>2, <3>3, <3>4 DEF Recorded
  <2>11. Lines'
    BY <1>0, <2>2, <2>7, <2>8 DEF Lines
  <2>12. NoneHeld'
    BY <1>0, <2>7 DEF NoneHeld
  <2> QED
    BY <2>10, <2>11, <2>12 DEF LineInv
<1>4. ASSUME NEW j \in Jobs, HolderProceeds(j) PROVE LineInv'
  <2>1. /\ queue' = [queue EXCEPT ![j] = Append(queue[j], held[j])]
        /\ holder' = [holder EXCEPT ![j] = None] /\ held' = [held EXCEPT ![j] = <<>>]
        /\ UNCHANGED <<buffer, put, entered, taken, lost, drained>>
    BY <1>0, <1>4 DEF HolderProceeds, TypeOK, histVars
  <2>2. /\ queue'[j] = Append(queue[j], held[j]) /\ holder'[j] = None /\ held'[j] = <<>>
        /\ \A k \in Jobs : k # j => queue'[k] = queue[k] /\ holder'[k] = holder[k] /\ held'[k] = held[k]
        /\ queue[j] \in Seq(Seq(Items)) /\ held[j] \in Seq(Items)
    BY <1>0, <2>1 DEF TypeOK
  <2>3. /\ InLine(entered[j], taken[j], queue'[j], held'[j], buffer[j])
        /\ Held(taken[j], queue'[j], held'[j], buffer[j]) = Held(taken[j], queue[j], held[j], buffer[j])
    <3>1. InLine(entered[j], taken[j], queue[j], held[j], buffer[j])
      BY <1>0 DEF Lines
    <3>2. /\ InLine(entered[j], taken[j], Append(queue[j], held[j]), <<>>, buffer[j])
          /\ Held(taken[j], Append(queue[j], held[j]), <<>>, buffer[j])
               = Held(taken[j], queue[j], held[j], buffer[j])
      <4>1. PICK e, t, h, b, q : e = entered[j] /\ t = taken[j] /\ h = held[j] /\ b = buffer[j] /\ q = queue[j]
        OBVIOUS
      <4>2. InLine(e, t, q, h, b) /\ q \in Seq(Seq(Items)) /\ h \in Seq(Items)
        BY <2>2, <3>1, <4>1
      <4>3. /\ InLine(e, t, Append(q, h), <<>>, b)
            /\ Held(t, Append(q, h), <<>>, b) = Held(t, q, h, b)
        BY <4>2, QueueLine
      <4> QED
        BY <4>1, <4>3
    <3> QED
      BY <2>2, <3>2
  <2>4. lost' \cup drained' = lost \cup drained \cup {}
    BY <2>1
  <2>5. LineMoves(j, {})
    BY <2>1, <2>2, <2>3, <2>4 DEF LineMoves
  <2> QED
    BY <2>5, LineOfOne
<1>5. ASSUME NEW j \in Jobs,
             VisitJob(j) \/ BeginDrain(j) \/ DrainJoined(j) \/ DrainJoinTimeout(j) \/ Unregister(j)
      PROVE  LineInv'
  <2>1. UNCHANGED <<queueVars, put, histVars>>
    BY <1>5 DEF VisitJob, BeginDrain, DrainJoined, DrainJoinTimeout, Unregister
  <2> QED
    BY <2>1, LineAside DEF queueVars, histVars, lineVars
<1>6. ASSUME NEW j \in Jobs, NEW who \in {"flush", "drain"}, holder[j] = None, FlushBuffer(j, who),
             UNCHANGED <<put, histVars>>
      PROVE  LineInv'
  <2>1. /\ InLine(entered[j], taken[j], queue'[j], held'[j], buffer'[j])
        /\ Held(taken[j], queue'[j], held'[j], buffer'[j]) = Held(taken[j], queue[j], held[j], buffer[j])
        /\ holder'[j] = None => held'[j] = <<>>
        /\ \A k \in Jobs : k # j => /\ queue'[k] = queue[k] /\ held'[k] = held[k]
                                    /\ buffer'[k] = buffer[k] /\ holder'[k] = holder[k]
    BY <1>6, FlushKeepsLine
  <2>2. UNCHANGED <<put, entered, taken>> /\ lost' \cup drained' = lost \cup drained \cup {}
    BY <1>6 DEF histVars
  <2>3. LineMoves(j, {})
    BY <2>1, <2>2 DEF LineMoves
  <2> QED
    BY <2>3, LineOfOne
<1>7. ASSUME NEW j \in Jobs, PeriodicFlush(j) \/ DrainFlush(j) PROVE LineInv'
  <2>1. CASE PeriodicFlush(j)
    BY <1>6, <2>1 DEF PeriodicFlush, Locked
  <2>2. CASE DrainFlush(j)
    BY <1>6, <2>2 DEF DrainFlush, Locked
  <2> QED
    BY <1>7, <2>1, <2>2
<1>8. ASSUME NEW j \in Jobs, DrainFlushTimeout(j) PROVE LineInv'
  <2>1. CASE holder[j] # "drain"
    <3>1. UNCHANGED lineVars /\ UNCHANGED put
      BY <1>8, <2>1 DEF DrainFlushTimeout, lineVars
    <3> QED
      BY <3>1, LineAside
  <2>2. CASE holder[j] = "drain"
    <3>1. /\ lost' = lost \cup ToSet(held[j]) /\ holder' = [holder EXCEPT ![j] = None]
          /\ held' = [held EXCEPT ![j] = <<>>] /\ UNCHANGED <<buffer, queue, put, entered, taken, drained>>
      BY <1>8, <2>2 DEF DrainFlushTimeout
    <3>2. /\ holder'[j] = None /\ held'[j] = <<>>
          /\ \A k \in Jobs : k # j => holder'[k] = holder[k] /\ held'[k] = held[k]
          /\ entered[j] \in Seq(Items)
      BY <1>0, <3>1 DEF TypeOK
    <3>3. /\ InLine(entered[j], taken[j], queue[j], held[j], buffer[j])
          /\ Held(taken[j], queue[j], held[j], buffer[j]) = ToSet(entered[j]) \ (lost \cup drained)
          /\ Once(entered[j])
      BY <1>0 DEF Lines, Recorded
    <3>4. InLine(entered[j], taken[j], queue[j], <<>>, buffer[j])
      BY <3>3, EmptyPiece DEF InLine
    <3>5. Held(taken[j], queue[j], <<>>, buffer[j])
            = Held(taken[j], queue[j], held[j], buffer[j]) \ ToSet(held[j])
      BY <3>2, <3>3, NoRepetition
    <3>6. ToSet(held[j]) \subseteq ToSet(entered[j])
      BY <3>3 DEF Held
    <3>7. lost' \cup drained' = lost \cup drained \cup ToSet(held[j])
      BY <3>1
    <3>8. LineMoves(j, ToSet(held[j]))
      BY <3>1, <3>2, <3>4, <3>5, <3>6, <3>7 DEF LineMoves
    <3> QED
      BY <3>8, LineOfOne
  <2> QED
    BY <2>1, <2>2
<1>9. ASSUME NEW j \in Jobs, Dispose(j) PROVE LineInv'
  <2>0. PICK gone : gone = ToSet(buffer[j]) \cup ItemsOf(queue[j])
    OBVIOUS
  <2>1. /\ holder[j] = None /\ drained' = drained \cup gone
        /\ buffer' = [buffer EXCEPT ![j] = <<>>] /\ queue' = [queue EXCEPT ![j] = <<>>]
        /\ UNCHANGED <<holder, held, put, entered, taken, lost>>
    BY <1>9, <2>0 DEF Dispose, Locked
  <2>2. /\ buffer'[j] = <<>> /\ queue'[j] = <<>> /\ held[j] = <<>>
        /\ \A k \in Jobs : k # j => buffer'[k] = buffer[k] /\ queue'[k] = queue[k]
        /\ entered[j] \in Seq(Items)
    BY <1>0, <2>1 DEF TypeOK, NoneHeld
  <2>3. /\ InLine(entered[j], taken[j], queue[j], held[j], buffer[j])
        /\ Held(taken[j], queue[j], held[j], buffer[j]) = ToSet(entered[j]) \ (lost \cup drained)
        /\ Once(entered[j])
    BY <1>0 DEF Lines, Recorded
  <2>4. InLine(entered[j], taken[j], <<>>, <<>>, <<>>)
    BY <2>3, EmptyPiece DEF InLine
  <2>5. Held(taken[j], <<>>, <<>>, <<>>) = Held(taken[j], queue[j], held[j], buffer[j]) \ gone
    <3>1. ToSet(taken[j]) \cup ToSet(held[j]) = Held(taken[j], queue[j], held[j], buffer[j]) \ gone
      BY <2>0, <2>2, <2>3, NoRepetition
    <3> QED
      BY <2>2, <3>1, EmptyPiece DEF Held
  <2>6. gone \subseteq ToSet(entered[j])
    BY <2>0, <2>3 DEF Held
  <2>7. lost' \cup drained' = lost \cup drained \cup gone
    BY <2>1
  <2>8. LineMoves(j, gone)
    BY <2>1, <2>2, <2>4, <2>5, <2>6, <2>7 DEF LineMoves
  <2> QED
    BY <2>8, LineOfOne
<1>10. ASSUME NEW w \in Workers, NEW j \in Jobs, Take(w, j) PROVE LineInv'
  <2>1. /\ queue[j] # <<>> /\ queue' = [queue EXCEPT ![j] = Tail(queue[j])]
        /\ taken' = [taken EXCEPT ![j] = taken[j] \o Head(queue[j])]
        /\ UNCHANGED <<buffer, holder, held, put, entered, lost, drained>>
    BY <1>0, <1>10 DEF Take, TypeOK
  <2>2. /\ queue'[j] = Tail(queue[j]) /\ taken'[j] = taken[j] \o Head(queue[j])
        /\ \A k \in Jobs : k # j => queue'[k] = queue[k] /\ taken'[k] = taken[k]
        /\ queue[j] \in Seq(Seq(Items)) /\ taken[j] \in Seq(Items)
    BY <1>0, <2>1 DEF TypeOK
  <2>3. InLine(entered[j], taken[j], queue[j], held[j], buffer[j])
    BY <1>0 DEF Lines
  <2>4. /\ InLine(entered[j], taken'[j], queue'[j], held[j], buffer[j])
        /\ Held(taken'[j], queue'[j], held[j], buffer[j]) = Held(taken[j], queue[j], held[j], buffer[j])
    <3>1. /\ InLine(entered[j], taken[j] \o Head(queue[j]), Tail(queue[j]), held[j], buffer[j])
          /\ Held(taken[j] \o Head(queue[j]), Tail(queue[j]), held[j], buffer[j])
               = Held(taken[j], queue[j], held[j], buffer[j])
      <4>1. PICK t, q, h, b : t = taken[j] /\ q = queue[j] /\ h = held[j] /\ b = buffer[j]
        OBVIOUS
      <4>2. PICK e : e = entered[j]
        OBVIOUS
      <4>3. InLine(e, t, q, h, b) /\ t \in Seq(Items) /\ q \in Seq(Seq(Items)) /\ q # <<>>
        BY <2>1, <2>2, <2>3, <4>1, <4>2
      <4>4. TakesFirst(e, t, q, h, b)
        BY <4>3, TakeLine
      <4> QED
        BY <4>1, <4>2, <4>4 DEF TakesFirst
    <3> QED
      BY <2>2, <3>1
  <2>5. lost' \cup drained' = lost \cup drained \cup {} /\ (holder[j] = None => held[j] = <<>>)
    BY <1>0, <2>1 DEF NoneHeld
  <2>6. LineMoves(j, {})
    BY <2>1, <2>2, <2>4, <2>5 DEF LineMoves
  <2> QED
    BY <2>6, LineOfOne
<1>11. ASSUME NEW w \in Workers,
              TaskDone(w) \/ ParkedGets(w) \/ \E j \in Jobs : Get(w, j) \/ Park(w, j)
       PROVE  LineInv'
  <2>1. CASE TaskDone(w) \/ \E j \in Jobs : Park(w, j)
    <3>1. UNCHANGED lineVars /\ UNCHANGED put
      BY <2>1 DEF TaskDone, Park, lineVars, queueVars, histVars
    <3> QED
      BY <3>1, LineAside
  <2>2. CASE ParkedGets(w) \/ \E j \in Jobs : Get(w, j)
    <3>1. \E j \in Jobs : Take(w, j)
      BY <2>2 DEF ParkedGets, Get
    <3> QED
      BY <1>10, <3>1
  <2> QED
    BY <1>11, <2>1, <2>2
<1> QED
  BY <1>1, <1>2, <1>3, <1>4, <1>5, <1>7, <1>8, <1>9, <1>11 DEF Next

LEMMA LinesHold == Spec => []LineInv
<1>1. Init => LineInv
  <2> SUFFICES ASSUME Init PROVE LineInv
    OBVIOUS
  <2>1. Recorded /\ NoneHeld
    BY EmptyPiece DEF Init, Recorded, NoneHeld, Once
  <2>2. \A j \in Jobs : /\ entered[j] = <<>> /\ taken[j] = <<>> /\ queue[j] = <<>>
                        /\ held[j] = <<>> /\ buffer[j] = <<>> /\ lost \cup drained = {}
    BY DEF Init
  <2>3. Lines
    BY <2>2, EmptyPiece DEF Lines, InLine, Held
  <2> QED
    BY <2>1, <2>3 DEF LineInv
<1> QED
  BY <1>1, CountsHold, LineStep, PTL DEF Spec

\* The pieces of a job are its line.
LEMMA PiecesInLine ==
  ASSUME CountInv, LineInv, NEW j \in Jobs
  PROVE  /\ ItemsOf(Pieces(j)) = ToSet(entered[j]) \ (lost \cup drained)
         /\ \A p, q \in DOMAIN Pieces(j) :
              \A m \in DOMAIN Pieces(j)[p], n \in DOMAIN Pieces(j)[q] :
                p < q \/ (p = q /\ m < n) => PutBefore(j, Pieces(j)[p][m], Pieces(j)[q][n])
<1> DEFINE P == Pieces(j)
           e == entered[j]
           N == Len(queue[j])
<1>1. /\ taken[j] \in Seq(Items) /\ queue[j] \in Seq(Seq(Items)) /\ held[j] \in Seq(Items)
      /\ buffer[j] \in Seq(Items)
  BY DEF CountInv, TypeOK
<1>2. /\ N \in Nat /\ DOMAIN queue[j] = 1..N /\ DOMAIN P = 1..(N + 3)
      /\ P[1] = taken[j] /\ P[N + 2] = held[j] /\ P[N + 3] = buffer[j]
      /\ \A k \in 1..N : P[k + 1] = queue[j][k]
  <2>1. /\ <<taken[j]>> \in Seq(Seq(Items)) /\ Len(<<taken[j]>>) = 1
        /\ <<held[j], buffer[j]>> \in Seq(Seq(Items)) /\ Len(<<held[j], buffer[j]>>) = 2
    BY <1>1
  <2> DEFINE Q == queue[j]
  <2>2. Q \in Seq(Seq(Items))
    BY <1>1
  <2> HIDE DEF Q
  <2> DEFINE F == <<taken[j]>> \o Q
  <2>3. /\ F \in Seq(Seq(Items)) /\ Len(F) = 1 + Len(Q) /\ F[1] = taken[j]
        /\ \A k \in 1..Len(Q) : F[k + 1] = Q[k]
    BY <2>1, <2>2
  <2> HIDE DEF F
  <2>4. LET R == F \o <<held[j], buffer[j]>>
        IN  /\ DOMAIN R = 1..(Len(F) + 2) /\ R[Len(F) + 1] = held[j] /\ R[Len(F) + 2] = buffer[j]
            /\ \A k \in 1..Len(F) : R[k] = F[k]
    BY <2>1, <2>3
  <2>5. P = F \o <<held[j], buffer[j]>>
    BY DEF Pieces, F, Q
  <2> HIDE DEF P
  <2>6. Len(Q) \in Nat /\ DOMAIN Q = 1..Len(Q)
    BY <2>2
  <2> QED
    BY <2>3, <2>4, <2>5, <2>6 DEF Q
<1>3. /\ InLine(e, taken[j], queue[j], held[j], buffer[j])
      /\ Held(taken[j], queue[j], held[j], buffer[j]) = ToSet(e) \ (lost \cup drained)
  BY DEF LineInv, Lines
<1> HIDE DEF P, N
<1>4. \A p \in DOMAIN P : p = 1 \/ (p - 1 \in 1..N /\ (p - 1) + 1 = p) \/ p = N + 2 \/ p = N + 3
  BY <1>2
<1>5. ItemsOf(P) = Held(taken[j], queue[j], held[j], buffer[j])
  <2>1. {1, N + 2, N + 3} \subseteq DOMAIN P /\ \A k \in 1..N : k + 1 \in DOMAIN P
    BY <1>2
  <2>2. \A b \in ToSet(P) : b \in {taken[j], held[j], buffer[j]} \cup ToSet(queue[j])
    <3> SUFFICES ASSUME NEW p \in DOMAIN P
                 PROVE  P[p] \in {taken[j], held[j], buffer[j]} \cup ToSet(queue[j])
      BY DEF ToSet
    <3>1. CASE p - 1 \in 1..N /\ (p - 1) + 1 = p
      <4>1. P[p] = queue[j][p - 1] /\ p - 1 \in DOMAIN queue[j]
        BY <1>2, <3>1
      <4> QED
        BY <4>1 DEF ToSet
    <3> QED
      BY <1>2, <1>4, <3>1
  <2>3. {taken[j], held[j], buffer[j]} \subseteq ToSet(P)
    BY <1>2, <2>1 DEF ToSet
  <2>4. ToSet(queue[j]) \subseteq ToSet(P)
    BY <1>2, <2>1 DEF ToSet
  <2> QED
    BY <2>2, <2>3, <2>4 DEF ItemsOf, Held
<1>6. \A p \in DOMAIN P : Sorted(e, P[p])
  <2> SUFFICES ASSUME NEW p \in DOMAIN P PROVE Sorted(e, P[p])
    OBVIOUS
  <2>1. CASE p - 1 \in 1..N /\ (p - 1) + 1 = p
    <3>1. P[p] = queue[j][p - 1] /\ p - 1 \in DOMAIN queue[j]
      BY <1>2, <2>1
    <3> QED
      BY <1>3, <3>1 DEF InLine, SortedBatches
  <2> QED
    BY <1>2, <1>3, <1>4, <2>1 DEF InLine
<1>7. \A p, q \in DOMAIN P : p < q => Precedes(e, P[p], P[q])
  <2> SUFFICES ASSUME NEW p \in DOMAIN P, NEW q \in DOMAIN P, p < q PROVE Precedes(e, P[p], P[q])
    OBVIOUS
  <2>0. p \in 1..(N + 3) /\ q \in 1..(N + 3) /\ N \in Nat
    BY <1>2
  <2>1. CASE p - 1 \in 1..N /\ (p - 1) + 1 = p
    <3>1. P[p] = queue[j][p - 1] /\ p - 1 \in DOMAIN queue[j]
      BY <1>2, <2>1
    <3>2. CASE q - 1 \in 1..N /\ (q - 1) + 1 = q
      <4>1. P[q] = queue[j][q - 1] /\ q - 1 \in DOMAIN queue[j] /\ p - 1 < q - 1
        BY <1>2, <2>0, <3>2
      <4> QED
        BY <1>3, <3>1, <4>1 DEF InLine, SortedBatches
    <3>3. CASE q = N + 2 \/ q = N + 3
      BY <1>2, <1>3, <3>1, <3>3 DEF InLine
    <3>4. q # 1
      BY <2>0
    <3> QED
      BY <1>4, <3>2, <3>3, <3>4
  <2>2. CASE p = 1
    <3>1. CASE q - 1 \in 1..N /\ (q - 1) + 1 = q
      <4>1. P[q] = queue[j][q - 1] /\ q - 1 \in DOMAIN queue[j]
        BY <1>2, <3>1
      <4> QED
        BY <1>2, <1>3, <2>2, <4>1 DEF InLine
    <3>2. CASE q = N + 2 \/ q = N + 3
      BY <1>2, <1>3, <2>2, <3>2 DEF InLine
    <3>3. q # 1
      BY <2>0, <2>2
    <3> QED
      BY <1>4, <3>1, <3>2, <3>3
  <2>3. CASE p = N + 2 \/ p = N + 3
    <3>1. p = N + 2 /\ q = N + 3
      BY <2>0, <2>3
    <3> QED
      BY <1>2, <1>3, <3>1 DEF InLine
  <2> QED
    BY <1>4, <2>1, <2>2, <2>3
<1>8. \A x, y : Before(e, x, y) => PutBefore(j, x, y)
  BY DEF Before, PutBefore
<1>9. ASSUME NEW p \in DOMAIN P, NEW q \in DOMAIN P, NEW m \in DOMAIN P[p], NEW n \in DOMAIN P[q],
             p < q \/ (p = q /\ m < n)
      PROVE  PutBefore(j, P[p][m], P[q][n])
  <2>1. CASE p < q
    <3>1. P[p][m] \in ToSet(P[p]) /\ P[q][n] \in ToSet(P[q])
      BY DEF ToSet
    <3> QED
      BY <1>7, <1>8, <2>1, <3>1 DEF Precedes
  <2>2. CASE p = q /\ m < n
    BY <1>6, <1>8, <2>2 DEF Sorted
  <2> QED
    BY <1>9, <2>1, <2>2
<1> QED
  BY <1>3, <1>5, <1>9 DEF P

\* A job's items reach the workers once each and in the order they were put, over
\* every mix of puts, flushes, waits for room, timeouts and disposals.
THEOREM OrderKept == Spec => []InOrder
<1>1. CountInv /\ LineInv => InOrder
  BY PiecesInLine DEF InOrder
<1> QED
  BY <1>1, CountsHold, LinesHold, PTL

-----------------------------------------------------------------------------
(* What a drain that joined has seen finished *)

\* The items of a job that no worker can take yet.
Waiting(j) == ToSet(held[j]) \cup ToSet(buffer[j])

\* A job is registered while its drain runs; a drain that waits for room took all.
PhaseOf(j) ==
  /\ drain[j] \in {"flush", "unflushed", "join"} => j \in registered
  /\ holder[j] = "drain" => drain[j] = "flush" /\ buffer[j] = <<>>

\* What was put before the slice waits no longer once it joins, and is finished, or lost,
\* once it has joined.
FlushedOf(j) ==
  /\ before[j] \subseteq ToSet(entered[j])
  /\ drain[j] = "join" => before[j] \cap Waiting(j) = {}
  /\ drain[j] = "joined" => before[j] \subseteq done \cup lost

\* An item that was taken is finished or being worked on.
WorkedOf(j) ==
  \A i \in ToSet(taken[j]) : i \in done \/ \E w \in WorkingAt(j) : i \in ToSet(batch[w])

\* Only jobs that are gone have items thrown away.
DrainedGone == \A i \in drained : JobOf[i] \notin registered

DrainInv == DrainedGone /\ \A j \in Jobs : PhaseOf(j) /\ FlushedOf(j) /\ WorkedOf(j)

LEMMA FlushedAside ==
  ASSUME NEW j \in Jobs, FlushedOf(j), before'[j] = before[j],
         ToSet(entered[j]) \subseteq ToSet(entered'[j]),
         Waiting(j)' \cap ToSet(entered[j]) \subseteq Waiting(j),
         drain'[j] = drain[j] \/ drain'[j] \notin {"join", "joined"},
         done \subseteq done', lost \subseteq lost'
  PROVE  FlushedOf(j)'
BY DEF FlushedOf

\* A join that returns with nothing unfinished has seen all of the slice's items.
LEMMA JoinSeesAll ==
  ASSUME CountInv, LineInv, DrainInv, NEW j \in Jobs, drain[j] = "join", unfinished[j] = 0
  PROVE  before[j] \subseteq done \cup lost
<1>1. j \in registered
  BY DEF DrainInv, PhaseOf
<1>2. queue[j] = <<>> /\ WorkingAt(j) = {}
  <2>1. /\ queue[j] \in Seq(Seq(Items)) /\ Len(queue[j]) \in Nat
        /\ Len(queue[j]) + Cardinality(WorkingAt(j)) <= 0
    BY <1>1 DEF CountInv, TypeOK, Accounted
  <2>2. Cardinality(WorkingAt(j)) \in Nat /\ IsFiniteSet(WorkingAt(j))
    BY WorkingFinite
  <2>3. Len(queue[j]) = 0 /\ Cardinality(WorkingAt(j)) = 0
    BY <2>1, <2>2
  <2>4. WorkingAt(j) = {}
    BY <2>2, <2>3, FS_EmptySet
  <2> QED
    BY <2>1, <2>3, <2>4
<1> SUFFICES ASSUME NEW i \in before[j], i \notin lost PROVE i \in done
  OBVIOUS
<1>3. i \in ToSet(entered[j]) /\ i \notin ToSet(held[j]) /\ i \notin ToSet(buffer[j])
  BY DEF DrainInv, FlushedOf, Waiting
<1>4. JobOf[i] = j
  BY <1>3 DEF LineInv, Recorded
<1>5. i \notin drained
  BY <1>1, <1>4 DEF DrainInv, DrainedGone
<1>6. i \in Held(taken[j], queue[j], held[j], buffer[j])
  BY <1>3, <1>5 DEF LineInv, Lines
<1>7. i \in ToSet(taken[j])
  BY <1>2, <1>3, <1>6, EmptyPiece DEF Held
<1> QED
  BY <1>2, <1>7 DEF DrainInv, WorkedOf

\* The parts of the step that no put, flush or worker's step touches.
LEMMA WorkedAside ==
  ASSUME NEW j \in Jobs, WorkedOf(j), taken'[j] = taken[j], UNCHANGED <<wpc, at, batch, done>>
  PROVE  WorkedOf(j)'
BY DEF WorkedOf, WorkingAt

LEMMA DrainStep == CountInv /\ LineInv /\ DrainInv /\ [Next]_vars => DrainInv'
<1> SUFFICES ASSUME CountInv, LineInv, DrainInv, [Next]_vars PROVE DrainInv'
  OBVIOUS
<1>0. /\ TypeOK /\ DrainedGone /\ NoneHeld
      /\ \A j \in Jobs : PhaseOf(j) /\ FlushedOf(j) /\ WorkedOf(j)
      /\ None \notin {"put", "flush", "drain"}
  BY ConstantsAssumption DEF CountInv, LineInv, DrainInv
<1>a. ASSUME UNCHANGED <<registered, buffer, holder, held, workerVars, drain, before, histVars>>
      PROVE  DrainInv'
  <2>1. \A j \in Jobs : PhaseOf(j)' /\ WorkedOf(j)'
    BY <1>0, <1>a, WorkedAside DEF PhaseOf, workerVars, histVars
  <2>2. \A j \in Jobs : FlushedOf(j)'
    BY <1>0, <1>a, FlushedAside DEF Waiting, histVars
  <2>3. DrainedGone'
    BY <1>0, <1>a DEF DrainedGone, histVars
  <2> QED
    BY <2>1, <2>2, <2>3 DEF DrainInv
<1>1. CASE UNCHANGED vars
  BY <1>1, <1>a DEF vars, queueVars, endVars
<1>2. ASSUME NEW i \in Items, CallPut(i) PROVE DrainInv'
  BY <1>2, <1>a DEF CallPut, queueVars, endVars
<1>3. ASSUME NEW i \in Items, Put(i) PROVE DrainInv'
  <2>0. PICK j \in Jobs : j = JobOf[i]
    BY ConstantsAssumption
  <2>s. PICK s : s = Append(buffer[j], i)
    OBVIOUS
  <2>1. /\ s \in Seq(Items)
        /\ \/ BatchSize <= Len(s) /\ Emit(j, SubSeq(s, 1, BatchSize), SubSeq(s, BatchSize + 1, Len(s)), "put")
           \/ buffer' = [buffer EXCEPT ![j] = s] /\ UNCHANGED <<queue, unfinished, holder, held>>
    BY <1>0, <1>3, <2>0, <2>s, PutCases
  <2>2. /\ put[i] = "called" /\ holder[j] = None /\ held[j] = <<>>
        /\ entered' = [entered EXCEPT ![j] = Append(entered[j], i)]
        /\ UNCHANGED <<taken, lost, drained, done, registered, drain, before, wpc, at, batch>>
    BY <1>0, <1>3, <2>0 DEF Put, Locked, NoneHeld, workerVars, endVars
  <2>3. /\ ToSet(s) = ToSet(buffer[j]) \cup {i}
        /\ ToSet(Append(entered[j], i)) = ToSet(entered[j]) \cup {i}
        /\ entered'[j] = Append(entered[j], i)
        /\ \A k \in Jobs : k # j => entered'[k] = entered[k]
    <3>1. entered[j] \in Seq(Items) /\ buffer[j] \in Seq(Items) /\ entered \in [Jobs -> Seq(Items)]
      BY <1>0 DEF TypeOK
    <3> QED
      BY <2>s, <2>2, <3>1, AppendItem
  <2>4. /\ ToSet(held'[j]) \subseteq ToSet(s) /\ ToSet(buffer'[j]) \subseteq ToSet(s)
        /\ holder'[j] # "drain"
        /\ \A k \in Jobs : k # j => held'[k] = held[k] /\ buffer'[k] = buffer[k] /\ holder'[k] = holder[k]
    <3>1. CASE BatchSize <= Len(s) /\ Emit(j, SubSeq(s, 1, BatchSize), SubSeq(s, BatchSize + 1, Len(s)), "put")
      <4>0. BatchSize \in Nat
        BY ConstantsAssumption
      <4> DEFINE b == SubSeq(s, 1, BatchSize)
                 r == SubSeq(s, BatchSize + 1, Len(s))
      <4>1. b \in Seq(Items) /\ r \in Seq(Items) /\ ToSet(s) = ToSet(b) \cup ToSet(r)
        BY <2>1, <3>1, <4>0, CutSeq
      <4>2. Emit(j, b, r, "put")
        BY <3>1
      <4> HIDE DEF b, r
      <4>3. /\ buffer' = [buffer EXCEPT ![j] = r]
            /\ \/ holder' = holder /\ held' = held
               \/ holder' = [holder EXCEPT ![j] = "put"] /\ held' = [held EXCEPT ![j] = b]
        BY <1>0, <4>1, <4>2, EmitCases
      <4>4. buffer'[j] = r /\ held'[j] \in {<<>>, b} /\ holder'[j] # "drain"
        BY <1>0, <2>2, <4>3 DEF TypeOK
      <4>5. \A k \in Jobs : k # j => held'[k] = held[k] /\ buffer'[k] = buffer[k] /\ holder'[k] = holder[k]
        BY <1>0, <4>3 DEF TypeOK
      <4> QED
        BY <4>1, <4>4, <4>5, EmptyPiece
    <3>2. CASE buffer' = [buffer EXCEPT ![j] = s] /\ UNCHANGED <<queue, unfinished, holder, held>>
      BY <1>0, <2>2, <3>2, EmptyPiece DEF TypeOK
    <3> QED
      BY <2>1, <3>1, <3>2
  <2>5. i \notin ToSet(entered[j])
    BY <2>2 DEF LineInv, Recorded
  <2>6. \A k \in Jobs : FlushedOf(k)'
    <3> SUFFICES ASSUME NEW k \in Jobs PROVE FlushedOf(k)'
      OBVIOUS
    <3>1. Waiting(k)' \cap ToSet(entered[k]) \subseteq Waiting(k)
      BY <2>3, <2>4, <2>5 DEF Waiting
    <3>2. ToSet(entered[k]) \subseteq ToSet(entered'[k])
      BY <2>3
    <3> QED
      BY <1>0, <2>2, <3>1, <3>2, FlushedAside
  <2>7. \A k \in Jobs : PhaseOf(k)'
    BY <1>0, <2>2, <2>4 DEF PhaseOf
  <2>8. \A k \in Jobs : WorkedOf(k)'
    BY <1>0, <2>2, WorkedAside
  <2> QED
    BY <1>0, <2>2, <2>6, <2>7, <2>8 DEF DrainInv, DrainedGone
<1>4. ASSUME NEW j \in Jobs, HolderProceeds(j) PROVE DrainInv'
  <2>1. /\ holder' = [holder EXCEPT ![j] = None] /\ held' = [held EXCEPT ![j] = <<>>]
        /\ drain' = IF holder[j] = "drain" THEN [drain EXCEPT ![j] = "join"] ELSE drain
        /\ UNCHANGED <<buffer, workerVars, registered, before, histVars>>
    BY <1>4 DEF HolderProceeds
  <2>2. /\ holder'[j] = None /\ held'[j] = <<>>
        /\ \A k \in Jobs : k # j => holder'[k] = holder[k] /\ held'[k] = held[k] /\ drain'[k] = drain[k]
        /\ drain'[j] = IF holder[j] = "drain" THEN "join" ELSE drain[j]
    BY <1>0, <2>1 DEF TypeOK
  <2>3. \A k \in Jobs : PhaseOf(k)'
    BY <1>0, <2>1, <2>2 DEF PhaseOf
  <2>4. \A k \in Jobs : WorkedOf(k)'
    BY <1>0, <2>1, WorkedAside DEF workerVars, histVars
  <2>5. \A k \in Jobs : Waiting(k)' \subseteq Waiting(k)
    BY <2>1, <2>2, EmptyPiece DEF Waiting
  <2>6. \A k \in Jobs : FlushedOf(k)'
    <3> SUFFICES ASSUME NEW k \in Jobs PROVE FlushedOf(k)'
      OBVIOUS
    <3>1. CASE k = j /\ holder[j] = "drain"
      <4>1. Waiting(j)' = {}
        BY <1>0, <2>1, <2>2, <3>1, EmptyPiece DEF Waiting, PhaseOf
      <4> QED
        BY <1>0, <2>1, <2>2, <3>1, <4>1 DEF FlushedOf, histVars
    <3>2. CASE ~(k = j /\ holder[j] = "drain")
      <4>1. drain'[k] = drain[k]
        BY <2>2, <3>2
      <4> QED
        BY <1>0, <2>1, <2>5, <4>1, FlushedAside DEF histVars
    <3> QED
      BY <3>1, <3>2
  <2> QED
    BY <1>0, <2>1, <2>3, <2>4, <2>6 DEF DrainInv, DrainedGone, histVars
<1>5. ASSUME NEW j \in Jobs, VisitJob(j) PROVE DrainInv'
  BY <1>5, <1>a DEF VisitJob, queueVars, endVars
<1>6. ASSUME NEW j \in Jobs, PeriodicFlush(j) \/ DrainFlush(j) PROVE DrainInv'
  <2>0. PICK who \in {"flush", "drain"} :
          /\ FlushBuffer(j, who) /\ holder[j] = None
          /\ who = "drain" => /\ drain[j] = "flush"
                              /\ drain' = [drain EXCEPT ![j] = IF holder'[j] = "drain" THEN "flush" ELSE "join"]
          /\ who = "flush" => drain' = drain
    BY <1>6 DEF PeriodicFlush, DrainFlush, Locked, endVars
  <2>1. UNCHANGED <<workerVars, registered, before, histVars>>
    BY <1>6 DEF PeriodicFlush, DrainFlush, endVars
  <2>2. /\ holder'[j] = None => held'[j] = <<>>
        /\ buffer'[j] = <<>> /\ held'[j] \in {<<>>, buffer[j]} /\ holder'[j] \in {None, who}
        /\ \A k \in Jobs : k # j => /\ held'[k] = held[k] /\ buffer'[k] = buffer[k]
                                    /\ holder'[k] = holder[k]
    BY <2>0, FlushKeepsLine
  <2>3. /\ \A k \in Jobs : k # j => drain'[k] = drain[k]
        /\ who = "flush" => drain'[j] = drain[j]
        /\ who = "drain" => /\ drain[j] = "flush"
                            /\ drain'[j] = IF holder'[j] = "drain" THEN "flush" ELSE "join"
    BY <1>0, <2>0 DEF TypeOK
  <2>4. \A k \in Jobs : PhaseOf(k)'
    BY <1>0, <2>1, <2>2, <2>3 DEF PhaseOf
  <2>5. \A k \in Jobs : WorkedOf(k)'
    BY <1>0, <2>1, WorkedAside DEF workerVars, histVars
  <2>6. \A k \in Jobs : Waiting(k)' \subseteq Waiting(k)
    BY <2>2, EmptyPiece DEF Waiting
  <2>7. \A k \in Jobs : FlushedOf(k)'
    <3> SUFFICES ASSUME NEW k \in Jobs PROVE FlushedOf(k)'
      OBVIOUS
    <3>1. CASE k = j /\ drain'[j] # drain[j]
      <4>1. holder'[j] = None /\ drain'[j] = "join"
        BY <1>0, <2>2, <2>3, <3>1
      <4>2. Waiting(j)' = {}
        BY <2>2, <4>1, EmptyPiece DEF Waiting
      <4> QED
        BY <1>0, <2>1, <3>1, <4>1, <4>2 DEF FlushedOf, histVars
    <3>2. CASE drain'[k] = drain[k]
      BY <1>0, <2>1, <2>6, <3>2, FlushedAside DEF histVars
    <3> QED
      BY <2>3, <3>1, <3>2
  <2> QED
    BY <1>0, <2>1, <2>4, <2>5, <2>7 DEF DrainInv, DrainedGone, histVars
<1>7. ASSUME NEW j \in Jobs, BeginDrain(j) PROVE DrainInv'
  <2>1. /\ j \in registered /\ drain' = [drain EXCEPT ![j] = "flush"]
        /\ before' = [before EXCEPT ![j] = ToSet(entered[j])] /\ drain[j] \in {"off", "joined"}
        /\ UNCHANGED <<buffer, holder, held, workerVars, registered, histVars>>
    BY <1>7 DEF BeginDrain, queueVars
  <2>2. /\ drain'[j] = "flush" /\ before'[j] = ToSet(entered[j])
        /\ \A k \in Jobs : k # j => drain'[k] = drain[k] /\ before'[k] = before[k]
    BY <1>0, <2>1 DEF TypeOK
  <2>3. \A k \in Jobs : PhaseOf(k)' /\ WorkedOf(k)'
    BY <1>0, <2>1, <2>2, WorkedAside DEF PhaseOf, workerVars, histVars
  <2>4. FlushedOf(j)'
    BY <2>1, <2>2 DEF FlushedOf, histVars
  <2>5. \A k \in Jobs : k # j => FlushedOf(k)'
    BY <1>0, <2>1, <2>2, FlushedAside DEF histVars, Waiting
  <2> QED
    BY <1>0, <2>1, <2>3, <2>4, <2>5 DEF DrainInv, DrainedGone, histVars
<1>8. ASSUME NEW j \in Jobs, DrainFlushTimeout(j) PROVE DrainInv'
  <2>1. /\ drain[j] = "flush" /\ drain' = [drain EXCEPT ![j] = "unflushed"]
        /\ UNCHANGED <<buffer, workerVars, registered, before, entered, taken, done, drained>>
        /\ \/ UNCHANGED <<lost, holder, held>> /\ holder[j] # "drain"
           \/ /\ lost' = lost \cup ToSet(held[j]) /\ holder' = [holder EXCEPT ![j] = None]
              /\ held' = [held EXCEPT ![j] = <<>>]
    BY <1>8 DEF DrainFlushTimeout
  <2>2. /\ drain'[j] = "unflushed" /\ \A k \in Jobs : k # j => drain'[k] = drain[k]
        /\ holder'[j] # "drain" /\ held'[j] \in {held[j], <<>>}
        /\ \A k \in Jobs : k # j => holder'[k] = holder[k] /\ held'[k] = held[k]
        /\ lost \subseteq lost'
    BY <1>0, <2>1 DEF TypeOK
  <2>3. \A k \in Jobs : PhaseOf(k)' /\ WorkedOf(k)'
    BY <1>0, <2>1, <2>2, WorkedAside DEF PhaseOf, workerVars
  <2>4. \A k \in Jobs : Waiting(k)' \subseteq Waiting(k)
    BY <2>1, <2>2, EmptyPiece DEF Waiting
  <2>5. \A k \in Jobs : FlushedOf(k)'
    BY <1>0, <2>1, <2>2, <2>4, FlushedAside
  <2> QED
    BY <1>0, <2>1, <2>3, <2>5 DEF DrainInv, DrainedGone
<1>9. ASSUME NEW j \in Jobs, DrainJoined(j) PROVE DrainInv'
  <2>1. /\ drain[j] = "join" /\ unfinished[j] = 0 /\ drain' = [drain EXCEPT ![j] = "joined"]
        /\ UNCHANGED <<buffer, holder, held, workerVars, registered, before, histVars>>
    BY <1>9 DEF DrainJoined, queueVars
  <2>2. drain'[j] = "joined" /\ \A k \in Jobs : k # j => drain'[k] = drain[k]
    BY <1>0, <2>1 DEF TypeOK
  <2>3. \A k \in Jobs : PhaseOf(k)' /\ WorkedOf(k)'
    BY <1>0, <2>1, <2>2, WorkedAside DEF PhaseOf, workerVars, histVars
  <2>4. FlushedOf(j)'
    BY <1>0, <2>1, <2>2, JoinSeesAll DEF FlushedOf, histVars
  <2>5. \A k \in Jobs : k # j => FlushedOf(k)'
    BY <1>0, <2>1, <2>2, FlushedAside DEF histVars, Waiting
  <2> QED
    BY <1>0, <2>1, <2>3, <2>4, <2>5 DEF DrainInv, DrainedGone, histVars
<1>10. ASSUME NEW j \in Jobs, DrainJoinTimeout(j) PROVE DrainInv'
  <2>1. /\ drain' = [drain EXCEPT ![j] = "off"] /\ drain[j] \in {"unflushed", "join"}
        /\ UNCHANGED <<buffer, holder, held, workerVars, registered, before, histVars>>
    BY <1>10 DEF DrainJoinTimeout, queueVars
  <2>2. drain'[j] = "off" /\ \A k \in Jobs : k # j => drain'[k] = drain[k]
    BY <1>0, <2>1 DEF TypeOK
  <2>3. \A k \in Jobs : PhaseOf(k)' /\ WorkedOf(k)'
    BY <1>0, <2>1, <2>2, WorkedAside DEF PhaseOf, workerVars, histVars
  <2>4. \A k \in Jobs : FlushedOf(k)'
    BY <1>0, <2>1, <2>2, FlushedAside DEF histVars, Waiting
  <2> QED
    BY <1>0, <2>1, <2>3, <2>4 DEF DrainInv, DrainedGone, histVars
<1>11. ASSUME NEW j \in Jobs, Unregister(j) PROVE DrainInv'
  <2>1. /\ drain[j] \in {"off", "joined"} /\ registered' = registered \ {j}
        /\ UNCHANGED <<buffer, holder, held, workerVars, drain, before, histVars>>
    BY <1>11 DEF Unregister, queueVars
  <2>2. \A k \in Jobs : PhaseOf(k)' /\ WorkedOf(k)'
    BY <1>0, <2>1, WorkedAside DEF PhaseOf, workerVars, histVars
  <2>3. \A k \in Jobs : FlushedOf(k)'
    BY <1>0, <2>1, FlushedAside DEF histVars, Waiting
  <2> QED
    BY <1>0, <2>1, <2>2, <2>3 DEF DrainInv, DrainedGone, histVars
<1>12. ASSUME NEW j \in Jobs, Dispose(j) PROVE DrainInv'
  <2>0. PICK gone : gone = ToSet(buffer[j]) \cup ItemsOf(queue[j])
    OBVIOUS
  <2>1. /\ dispose[j] = "waiting" /\ holder[j] = None
        /\ drained' = drained \cup gone /\ buffer' = [buffer EXCEPT ![j] = <<>>]
        /\ UNCHANGED <<holder, held, workerVars, registered, drain, before, entered, taken, done, lost>>
    BY <1>12, <2>0 DEF Dispose, Locked
  <2>2. buffer'[j] = <<>> /\ \A k \in Jobs : k # j => buffer'[k] = buffer[k]
    BY <1>0, <2>1 DEF TypeOK
  <2>3. j \notin registered
    BY <2>1 DEF CountInv, Gone
  <2>4. gone \subseteq ToSet(entered[j])
    BY <2>0 DEF LineInv, Lines, Held
  <2>5. \A i \in gone : JobOf[i] = j
    BY <2>4 DEF LineInv, Recorded
  <2>6. DrainedGone'
    BY <1>0, <2>1, <2>3, <2>5 DEF DrainedGone
  <2>7. \A k \in Jobs : PhaseOf(k)' /\ WorkedOf(k)'
    BY <1>0, <2>1, <2>2, WorkedAside DEF PhaseOf, workerVars
  <2>8. \A k \in Jobs : Waiting(k)' \subseteq Waiting(k)
    BY <2>1, <2>2, EmptyPiece DEF Waiting
  <2>9. \A k \in Jobs : FlushedOf(k)'
    BY <1>0, <2>1, <2>8, FlushedAside
  <2> QED
    BY <2>6, <2>7, <2>9 DEF DrainInv
<1>13. ASSUME NEW w \in Workers, NEW j \in Jobs, wpc[w] # "working", Take(w, j) PROVE DrainInv'
  <2>0. PICK b : b = Head(queue[j])
    OBVIOUS
  <2>1. /\ queue[j] # <<>> /\ taken' = [taken EXCEPT ![j] = taken[j] \o b]
        /\ wpc' = [wpc EXCEPT ![w] = "working"] /\ at' = [at EXCEPT ![w] = j]
        /\ batch' = [batch EXCEPT ![w] = b]
        /\ UNCHANGED <<buffer, holder, held, registered, drain, before, entered, done, lost, drained>>
    BY <1>0, <1>13, <2>0 DEF Take, endVars
  <2>2. /\ taken'[j] = taken[j] \o b /\ \A k \in Jobs : k # j => taken'[k] = taken[k]
        /\ wpc'[w] = "working" /\ at'[w] = j /\ batch'[w] = b
        /\ \A v \in Workers : v # w => wpc'[v] = wpc[v] /\ at'[v] = at[v] /\ batch'[v] = batch[v]
    BY <1>0, <2>1 DEF TypeOK
  <2>3. ToSet(taken[j] \o b) = ToSet(taken[j]) \cup ToSet(b)
    <3>1. PICK e, t, q, h, f : e = entered[j] /\ t = taken[j] /\ q = queue[j] /\ h = held[j] /\ f = buffer[j]
      OBVIOUS
    <3>2. InLine(e, t, q, h, f) /\ t \in Seq(Items) /\ q \in Seq(Seq(Items)) /\ q # <<>>
      BY <1>0, <2>1, <3>1 DEF LineInv, Lines, TypeOK
    <3>3. TakesFirst(e, t, q, h, f)
      BY <3>2, TakeLine
    <3> QED
      BY <2>0, <3>1, <3>3 DEF TakesFirst
  <2>4. \A k \in Jobs : WorkedOf(k)'
    <3> SUFFICES ASSUME NEW k \in Jobs, NEW i \in ToSet(taken'[k]), i \notin done
                 PROVE  \E v \in WorkingAt(k)' : i \in ToSet(batch'[v])
      BY <2>1 DEF WorkedOf
    <3>1. CASE k = j /\ i \in ToSet(b)
      <4>1. w \in WorkingAt(k)'
        BY <2>2, <3>1 DEF WorkingAt
      <4> QED
        BY <2>2, <3>1, <4>1
    <3>2. CASE i \in ToSet(taken[k])
      <4>1. PICK v \in WorkingAt(k) : i \in ToSet(batch[v])
        BY <1>0, <3>2 DEF WorkedOf
      <4>2. v \in Workers /\ v # w
        BY <1>13, <4>1 DEF WorkingAt
      <4>3. v \in WorkingAt(k)'
        BY <2>2, <4>1, <4>2 DEF WorkingAt
      <4> QED
        BY <2>2, <4>1, <4>2, <4>3
    <3> QED
      BY <2>2, <2>3, <3>1, <3>2
  <2>5. \A k \in Jobs : PhaseOf(k)'
    BY <1>0, <2>1 DEF PhaseOf
  <2>6. \A k \in Jobs : FlushedOf(k)'
    BY <1>0, <2>1, FlushedAside DEF Waiting
  <2> QED
    BY <1>0, <2>1, <2>4, <2>5, <2>6 DEF DrainInv, DrainedGone
<1>14. ASSUME NEW w \in Workers, NEW j \in Jobs, Park(w, j) PROVE DrainInv'
  <2>1. /\ wpc[w] = "idle" /\ wpc' = [wpc EXCEPT ![w] = "parked"] /\ at' = [at EXCEPT ![w] = j]
        /\ UNCHANGED <<buffer, holder, held, batch, registered, drain, before, histVars>>
    BY <1>14 DEF Park, queueVars, endVars
  <2>2. \A k \in Jobs : WorkingAt(k)' = WorkingAt(k)
    BY <1>0, <2>1 DEF WorkingAt, TypeOK
  <2>3. \A k \in Jobs : PhaseOf(k)' /\ WorkedOf(k)'
    BY <1>0, <2>1, <2>2 DEF PhaseOf, WorkedOf, histVars
  <2>4. \A k \in Jobs : FlushedOf(k)'
    BY <1>0, <2>1, FlushedAside DEF Waiting, histVars
  <2> QED
    BY <1>0, <2>1, <2>3, <2>4 DEF DrainInv, DrainedGone, histVars
<1>15. ASSUME NEW w \in Workers, TaskDone(w) PROVE DrainInv'
  <2>1. /\ done' = done \cup ToSet(batch[w]) /\ wpc' = [wpc EXCEPT ![w] = "idle"]
        /\ at' = [at EXCEPT ![w] = None] /\ batch' = [batch EXCEPT ![w] = <<>>]
        /\ UNCHANGED <<buffer, holder, held, registered, drain, before, entered, taken, lost, drained>>
    BY <1>15 DEF TaskDone, endVars
  <2>2. \A v \in Workers : v # w => wpc'[v] = wpc[v] /\ at'[v] = at[v] /\ batch'[v] = batch[v]
    BY <1>0, <2>1 DEF TypeOK
  <2>3. \A k \in Jobs : WorkedOf(k)'
    <3> SUFFICES ASSUME NEW k \in Jobs, NEW i \in ToSet(taken[k]), i \notin done'
                 PROVE  \E v \in WorkingAt(k)' : i \in ToSet(batch'[v])
      BY <2>1 DEF WorkedOf
    <3>1. PICK v \in WorkingAt(k) : i \in ToSet(batch[v])
      BY <1>0, <2>1 DEF WorkedOf
    <3>2. v \in Workers /\ v # w
      BY <2>1, <3>1 DEF WorkingAt
    <3>3. v \in WorkingAt(k)'
      BY <2>2, <3>1, <3>2 DEF WorkingAt
    <3> QED
      BY <2>2, <3>1, <3>2, <3>3
  <2>4. \A k \in Jobs : PhaseOf(k)'
    BY <1>0, <2>1 DEF PhaseOf
  <2>5. \A k \in Jobs : FlushedOf(k)'
    BY <1>0, <2>1, FlushedAside DEF Waiting
  <2> QED
    BY <1>0, <2>1, <2>3, <2>4, <2>5 DEF DrainInv, DrainedGone
<1>16. ASSUME NEW w \in Workers, ParkedGets(w) \/ \E j \in Jobs : Get(w, j) PROVE DrainInv'
  <2>1. wpc[w] # "working" /\ \E j \in Jobs : Take(w, j)
    BY <1>16 DEF ParkedGets, Get
  <2> QED
    BY <1>13, <2>1
<1> QED
  BY <1>1, <1>2, <1>3, <1>4, <1>5, <1>6, <1>7, <1>8, <1>9, <1>10, <1>11, <1>12, <1>14, <1>15, <1>16
     DEF Next

\* What a slice of the drain reports as joined is finished, or was lost with a flush that
\* was cut off: the join waits for every batch that its flush, or an earlier one, queued.
THEOREM DrainHolds == Spec => []DrainSound
<1>1. Init => DrainInv
  <2> SUFFICES ASSUME Init PROVE DrainInv
    OBVIOUS
  <2>1. None \notin {"put", "flush", "drain"}
    BY ConstantsAssumption
  <2>2. \A j \in Jobs : PhaseOf(j) /\ FlushedOf(j) /\ WorkedOf(j)
    BY <2>1, EmptyPiece DEF Init, PhaseOf, FlushedOf, WorkedOf
  <2> QED
    BY <2>2 DEF Init, DrainInv, DrainedGone
<1>2. DrainInv => DrainSound
  BY DEF DrainInv, FlushedOf, DrainSound
<1> QED
  BY <1>1, <1>2, CountsHold, LinesHold, DrainStep, PTL DEF Spec

=============================================================================
