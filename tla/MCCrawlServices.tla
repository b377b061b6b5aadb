--------------------------- MODULE MCCrawlServices ---------------------------
(* A small instance of each service for TLC. *)
EXTENDS CrawlServices, TLC

CONSTANTS
  h1, h2, h3, h4, l1, w1, w2,
  j1, j2, r1, r2, r3,
  d1, d2, d3, k1, k2, k3,
  ja, jb, a1, a2, b1,
  c1, c2, c3, c4,
  f1, f2,
  u1

MCHighItems == {h1, h2, h3, h4}
MCLowItems == {l1}
MCItems == MCHighItems \cup MCLowItems
MCScanWorkers == {w1, w2}

MCStateJobs == {j1, j2}
MCPublishes == {r1, r2, r3}
MCTarget == [r \in MCPublishes |-> IF r = r3 THEN j2 ELSE j1]
Message(k, n, t, b) == [kind |-> k, msg |-> [count |-> n, terminal |-> t, back |-> b]]
MCStateInputs ==
  {Message("progress", 2, FALSE, {}), Message("unit", 0, FALSE, {"status"}),
   Message("state", 1, FALSE, {}), Message("progress", 1, TRUE, {"count"})}

MCWrites == {d1, d2, d3}
MCDbWorkers == {k1, k2, k3}
MCLane == [k \in MCDbWorkers |-> IF k = k3 THEN "log" ELSE "default"]
Write(l, n, s) == [lane |-> l, count |-> n, status |-> s]
MCDbInputs ==
  d1 :> {Write("default", 2, "running")} @@
  d2 :> {Write("default", 2, "running"), Write("default", 1, "none")} @@
  d3 :> {Write("default", 1, "none"), Write("log", 1, "terminal")}

MCJobs == {ja, jb}
MCRuns == {a1, a2, b1}
MCJobOfRun == [r \in MCRuns |-> IF r = b1 THEN jb ELSE ja]
MCBlockModes == BOOLEAN

MCClaimers == {c1, c2, c3, c4}
MCJobOfClaimer == [c \in MCClaimers |-> IF c \in {c1, c2} THEN ja ELSE jb]

MCFallbacks == {f1, f2}

MCUrls == {u1}
MCCounterKeys == {<<u1, "url">>, <<u1, "row">>}

\* The runs of one job and the requests of one job are interchangeable.
MCSymmetry == Permutations({a1, a2}) \cup Permutations({r1, r2})

=============================================================================
