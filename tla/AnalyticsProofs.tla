---------------------------- MODULE AnalyticsProofs ----------------------------
(***************************************************************************)
(* Invariants of MCAnalytics and MCBackfillPlan, whose inputs are bounded  *)
(* by constants, for every value of those constants.                       *)
(***************************************************************************)
EXTENDS MCAnalytics, BackfillPlanProofs, SequenceTheorems

-------------------------------------------------------------------------------
(***************************************************************************)
(* The calls of MCBackfillPlan                                             *)
(***************************************************************************)
\* A bar start is a multiple of the interval.
LEMMA BarStarts ==
    ASSUME NEW i \in Nat \ {0}
    PROVE  /\ \A t \in Int : t % i = 0 => \E n \in Int : t = n * i
           /\ \A n \in Int : (n * i) % i = 0 /\ n * i \in Int
           /\ \A t \in Int : t % i = 0 => AlignToInterval(t, i) = t
<1>1. \A t \in Int : t % i = 0 => \E n \in Int : t = n * i
    OBVIOUS
<1>2. \A n \in Int : (n * i) % i = 0 /\ n * i \in Int
    OBVIOUS
<1>3. \A t \in Int : t % i = 0 => AlignToInterval(t, i) = t
    BY DEF AlignToInterval
<1> QED
    BY <1>1, <1>2, <1>3

\* The bar of a time from zero on does not start before zero.
LEMMA FirstBarNotNegative ==
    ASSUME NEW t \in Int, 0 <= t, NEW i \in Nat \ {0}
    PROVE  AlignToInterval(t, i) \in Int /\ 0 <= AlignToInterval(t, i)
<1>1. BarAt(t, i) \in Int /\ AlignToInterval(t, i) = BarAt(t, i) * i /\ t < BarAt(t, i) * i + i
    BY BarAtBounds
<1> DEFINE n == BarAt(t, i)
<1> HIDE DEF n
<1>2. n \in Int /\ 0 < (n + 1) * i
    BY <1>1 DEF n
<1>3. 0 <= n
    <2>1. ~ ((n + 1) * i <= 0 * i)
        BY <1>2
    <2>2. ~ (n + 1 <= 0)
        BY <1>2, <2>1, TimesMonotone
    <2> QED
        BY <1>2, <2>2
<1> QED
    BY <1>1, <1>3 DEF n

\* The bars of a range, by the number of the first one and their number.
LEMMA BarsCounted ==
    ASSUME NEW i \in Nat \ {0}, NEW a \in Int, NEW c \in Nat \ {0},
           0 <= a * i, (a + c - 1) * i <= LastTime
    PROVE  Cardinality(BarsOf(a * i, (a + c - 1) * i, i)) = c
<1> DEFINE b == a + c - 1
           B == BarsOf(a * i, b * i, i)
           f == [n \in a .. b |-> n * i]
<1>1. b \in Int /\ a <= b /\ b - a + 1 = c
    OBVIOUS
<1>2. \A n \in Int : n \in a .. b <=> a * i <= n * i /\ n * i <= b * i
    BY <1>1, TimesMonotone
<1>3. \A n \in Int : n * i \in Int /\ (n * i) % i = 0
    BY BarStarts
<1> HIDE DEF b
<1>4. f \in Bijection(a .. b, B)
    <2>1. ASSUME NEW n \in a .. b PROVE n * i \in B
        <3>1. n \in Int /\ a * i <= n * i /\ n * i <= b * i
            BY <1>1, <1>2, <2>1
        <3>2. a * i \in Int /\ b * i \in Int /\ n * i \in Int /\ (n * i) % i = 0
            BY <1>1, <1>3, <3>1
        <3>3. n * i \in 0 .. LastTime
            BY <3>1, <3>2, BoundsAssumption DEF b
        <3> QED
            BY <3>1, <3>2, <3>3 DEF BarsOf, Times
    <2>2. ASSUME NEW m \in a .. b, NEW n \in a .. b, m * i = n * i PROVE m = n
        BY <1>1, <2>2, TimesMonotone
    <2>3. ASSUME NEW t \in B PROVE \E n \in a .. b : t = n * i
        <3>1. t \in Int /\ t % i = 0 /\ a * i <= t /\ t <= b * i
            BY <2>3, BoundsAssumption DEF BarsOf, Times
        <3>2. PICK n \in Int : t = n * i
            BY <3>1, BarStarts
        <3> QED
            BY <1>2, <3>1, <3>2
    <2> HIDE DEF B
    <2>4. f \in [a .. b -> B]
        BY <2>1
    <2>5. \A m, n \in a .. b : f[m] = f[n] => m = n
        BY <2>2
    <2>6. \A t \in B : \E n \in a .. b : f[n] = t
        BY <2>3
    <2> HIDE DEF f
    <2> QED
        BY <2>4, <2>5, <2>6, Fun_IsBij
<1>5. IsFiniteSet(a .. b) /\ Cardinality(a .. b) = c
    <2> HIDE DEF B, f
    <2>1. IsFiniteSet(a .. b) /\ Cardinality(a .. b) = IF a > b THEN 0 ELSE b - a + 1
        BY <1>1, FS_Interval
    <2>2. ~(a > b)
        BY <1>1
    <2> QED
        BY <1>1, <2>1, <2>2
<1> HIDE DEF B, f
<1>6. Cardinality(a .. b) = Cardinality(B)
    BY <1>4, <1>5, FS_Bijection DEF ExistsBijection
<1> QED
    BY <1>5, <1>6 DEF B, b

\* planBackfillPages on the arguments of a call: what PlanFetchesEveryBarOnce says
\* of a plan.
LEMMA PlannedOnce ==
    ASSUME NEW from \in Times, NEW to \in Times, NEW i \in Intervals, NEW size \in PageSizes
    PROVE  LET pages == PlanBackfillPages(from, to, i, size)
               BarsIn(k) == BarsOf(pages[k].startTime, pages[k].endTime, i)
           IN  /\ UNION {BarsIn(k) : k \in DOMAIN pages} = BarsOf(AlignToInterval(from, i), to, i)
               /\ \A k \in DOMAIN pages :
                     /\ Cardinality(BarsIn(k)) = pages[k].expectedCount
                     /\ pages[k].expectedCount \in 1 .. size
                     /\ \A l \in DOMAIN pages : l > k => pages[k].endTime < pages[l].startTime
<1> DEFINE pages == PlanBackfillPages(from, to, i, size)
           BarsIn(k) == BarsOf(pages[k].startTime, pages[k].endTime, i)
<1>1. from \in Int /\ to \in Int /\ 0 <= from /\ to <= LastTime
      /\ i \in Nat \ {0} /\ size \in Nat \ {0}
    BY BoundsAssumption DEF Times
<1>2. \A k \in DOMAIN pages :
         /\ pages[k].expectedCount \in 1 .. size
         /\ pages[k].endTime = pages[k].startTime + (pages[k].expectedCount - 1) * i
         /\ \E n \in Int : pages[k].startTime = n * i
         /\ \A l \in DOMAIN pages : k < l => pages[k].endTime < pages[l].startTime
    BY <1>1, PagesAreInOrder
<1>3. \A n \in Int :
         (AlignToInterval(from, i) <= n * i /\ n * i <= to) <=>
            \E k \in DOMAIN pages : pages[k].startTime <= n * i /\ n * i <= pages[k].endTime
    BY <1>1, PlanCoversRange
<1>4. AlignToInterval(from, i) \in Int /\ 0 <= AlignToInterval(from, i)
    BY <1>1, FirstBarNotNegative
<1> HIDE DEF pages
<1>5. UNION {BarsIn(k) : k \in DOMAIN pages} = BarsOf(AlignToInterval(from, i), to, i)
    <2>1. ASSUME NEW t
          PROVE  (\E k \in DOMAIN pages : t \in BarsIn(k)) <=> t \in BarsOf(AlignToInterval(from, i), to, i)
        <3>1. CASE t \in Times /\ t % i = 0
            <4>1. t \in Int
                BY <3>1 DEF Times
            <4>2. PICK n \in Int : t = n * i
                BY <1>1, <3>1, <4>1, BarStarts
            <4>3. t \in BarsOf(AlignToInterval(from, i), to, i)
                  <=> AlignToInterval(from, i) <= n * i /\ n * i <= to
                BY <3>1, <4>2 DEF BarsOf
            <4>4. (\E k \in DOMAIN pages : t \in BarsIn(k))
                  <=> \E k \in DOMAIN pages : pages[k].startTime <= n * i /\ n * i <= pages[k].endTime
                BY <3>1, <4>2 DEF BarsOf
            <4> QED
                BY <1>3, <4>3, <4>4
        <3>2. CASE ~ (t \in Times /\ t % i = 0)
            BY <3>2 DEF BarsOf
        <3> QED
            BY <3>1, <3>2
    <2> HIDE DEF BarsIn
    <2> QED
        BY <2>1
<1>6. ASSUME NEW k \in DOMAIN pages
      PROVE  Cardinality(BarsIn(k)) = pages[k].expectedCount
    <2> DEFINE c == pages[k].expectedCount
    <2>1. c \in Nat \ {0}
        BY <1>1, <1>2
    <2>2. PICK a \in Int : pages[k].startTime = a * i
        BY <1>2
    <2>3. a * i \in Int /\ (c - 1) * i \in Int /\ 0 <= (c - 1) * i
          /\ (a + c - 1) * i = a * i + (c - 1) * i
        BY <1>1, <2>1, <2>2
    <2>4. pages[k].endTime = (a + c - 1) * i
        BY <1>2, <2>2, <2>3
    <2>5. 0 <= a * i
        <3>1. a * i <= (a + c - 1) * i
            BY <2>3
        <3> QED
            BY <1>3, <1>4, <2>2, <2>3, <2>4, <3>1
    <2>6. (a + c - 1) * i <= LastTime
        <3> DEFINE last == a + c - 1
        <3>1. a * i <= last * i /\ last \in Int
            BY <2>1, <2>2, <2>3
        <3>2. pages[k].startTime <= last * i /\ last * i <= pages[k].endTime
            BY <2>2, <2>3, <2>4, <3>1
        <3>3. (a + c - 1) * i <= to
            <4> HIDE DEF last
            <4>1. last * i <= to
                BY <1>3, <3>1, <3>2
            <4> QED
                BY <4>1 DEF last
        <3>4. (a + c - 1) * i \in Int
            BY <2>3
        <3> QED
            BY <1>1, <3>3, <3>4, BoundsAssumption
    <2> HIDE DEF c
    <2>7. Cardinality(BarsOf(a * i, (a + c - 1) * i, i)) = c
        BY <1>1, <2>1, <2>5, <2>6, BarsCounted
    <2> QED
        BY <2>2, <2>4, <2>7 DEF c
<1>7. \A k, l \in DOMAIN pages : l > k <=> k < l
    OBVIOUS
<1> QED
    BY <1>2, <1>5, <1>6, <1>7 DEF pages

\* A plan with one bar to a page: its pages start at the bars of the range.
LEMMA SinglesPlanned ==
    ASSUME NEW start \in Int, 0 <= start, NEW i \in Nat \ {0}, AlignToInterval(start, i) = start,
           NEW now \in Int, now <= LastTime, NEW one \in Nat \ {0}
    PROVE  LET pages == PlanBackfillPages(start, now, i, one)
           IN  one = 1 => {pages[k].startTime : k \in DOMAIN pages} = BarsOf(start, now, i)
<1> DEFINE pages == PlanBackfillPages(start, now, i, one)
<1>1. LastTime \in Int
    BY BoundsAssumption
<1>2. \A k \in DOMAIN pages :
         /\ pages[k].expectedCount \in 1 .. one
         /\ pages[k].endTime = pages[k].startTime + (pages[k].expectedCount - 1) * i
         /\ \E n \in Int : pages[k].startTime = n * i
         /\ \A l \in DOMAIN pages : k < l => pages[k].endTime < pages[l].startTime
    BY PagesAreInOrder
<1>3. \A n \in Int :
         (AlignToInterval(start, i) <= n * i /\ n * i <= now) <=>
            \E k \in DOMAIN pages : pages[k].startTime <= n * i /\ n * i <= pages[k].endTime
    BY PlanCoversRange
<1> HIDE DEF pages
<1> SUFFICES ASSUME one = 1
             PROVE  {pages[k].startTime : k \in DOMAIN pages} = BarsOf(start, now, i)
    BY DEF pages
<1>4. \A k \in DOMAIN pages : pages[k].startTime \in Int /\ pages[k].endTime = pages[k].startTime
    <2> SUFFICES ASSUME NEW k \in DOMAIN pages
                 PROVE  pages[k].startTime \in Int /\ pages[k].endTime = pages[k].startTime
        OBVIOUS
    <2>1. pages[k].expectedCount = 1
        BY <1>2
    <2>2. pages[k].startTime \in Int
        BY <1>1, <1>2, BarStarts
    <2>3. (1 - 1) * i = 0
        BY <1>1
    <2> QED
        BY <1>2, <2>1, <2>2, <2>3
<1>5. ASSUME NEW k \in DOMAIN pages
      PROVE  pages[k].startTime \in BarsOf(start, now, i)
    <2>1. PICK n \in Int : pages[k].startTime = n * i
        BY <1>2
    <2>2. n * i \in Int /\ (n * i) % i = 0
        BY <1>1, BarStarts
    <2>3. start <= n * i /\ n * i <= now
        BY <1>3, <1>4, <2>1, <2>2
    <2>4. n * i \in Times
        BY <1>1, <2>2, <2>3 DEF Times
    <2> QED
        BY <2>1, <2>2, <2>3, <2>4 DEF BarsOf
<1>6. ASSUME NEW t \in BarsOf(start, now, i)
       PROVE  \E k \in DOMAIN pages : t = pages[k].startTime
    <2>1. t \in Int /\ t % i = 0 /\ start <= t /\ t <= now
        BY <1>6 DEF BarsOf, Times
    <2>2. PICK n \in Int : t = n * i
        BY <1>1, <2>1, BarStarts
    <2>3. PICK k \in DOMAIN pages : pages[k].startTime <= t /\ t <= pages[k].endTime
        BY <1>3, <2>1, <2>2
    <2> QED
        BY <1>4, <2>1, <2>3
<1> QED
    BY <1>5, <1>6

\* Where a start fetches from, and what it plans, one bar to a page.
StartOf(last, now, days) == IF last = NoBar THEN now - days * MsPerDay ELSE last
Plan(last, now, days, i) == PlanBackfillPages(ResolveBackfillStart(last, now, days, i), now, i, 1)

\* What PlanFetchesEveryBarOnce says of the plan of a start: planBackfillPages on
\* the time resolveBackfillStart gives, with one bar to a page.
LEMMA StartPlannedOnce ==
    ASSUME NEW last \in Times \cup {NoBar}, NEW now \in Times, NEW days \in 1 .. 2,
           NEW i \in Intervals, now - days * MsPerDay >= 0
    PROVE  {Plan(last, now, days, i)[k].startTime : k \in DOMAIN Plan(last, now, days, i)} =
                BarsOf(AlignToInterval(StartOf(last, now, days), i), now, i)
<1> DEFINE from  == StartOf(last, now, days)
           start == ResolveBackfillStart(last, now, days, i)
<1>1. now \in Int /\ now <= LastTime /\ i \in Nat \ {0}
    BY BoundsAssumption DEF Times
<1>2. from \in Int /\ 0 <= from
    <2>1. days * MsPerDay \in Int
        BY PlanAssumption
    <2> QED
        BY <1>1, <2>1 DEF Times, StartOf
<1>3. start = AlignToInterval(from, i)
    BY DEF ResolveBackfillStart, StartOf
<1> HIDE DEF from
<1>4. start \in Int /\ 0 <= start
    BY <1>1, <1>2, <1>3, FirstBarNotNegative
<1>5. AlignToInterval(start, i) = start
    <2>1. BarAt(from, i) \in Int /\ start = BarAt(from, i) * i
        BY <1>1, <1>2, <1>3, BarAtBounds
    <2> QED
        BY <1>1, <2>1, BarStarts
<1> HIDE DEF start
<1> DEFINE pages == PlanBackfillPages(start, now, i, 1)
<1>6. {pages[k].startTime : k \in DOMAIN pages} = BarsOf(start, now, i)
    BY <1>1, <1>4, <1>5, SinglesPlanned
<1> QED
    BY <1>3, <1>6 DEF start, from, Plan

-------------------------------------------------------------------------------
(***************************************************************************)
(* The state machine of the calls                                          *)
(***************************************************************************)
\* Which functions an invariant about the results of calls has to look at.
LEMMA EveryCall ==
    ASSUME AnalyticsNext
    PROVE  /\ CallPlan \/ call'.fn # "plan"
           /\ CallStart \/ call'.fn # "start"
           /\ CallDelay \/ call'.fn # "delay"
           /\ CallStrength \/ call'.fn # "strength"
           /\ CallCandles \/ call'.fn # "candles"
           /\ CallCoverage \/ call'.fn # "coverage"
           /\ CallStats \/ call'.fn # "stats"
           /\ CallOps \/ call'.fn # "ops"
           /\ CallGaps \/ call'.fn # "gaps"
           /\ CallRoute \/ call'.fn # "route"
           /\ CallDashboard \/ call'.fn # "dashboard"
           /\ CallChart \/ call'.fn # "chart"
<1>1. CallPlan => call'.fn = "plan"
    BY DEF CallPlan
<1>2. CallStart => call'.fn = "start"
    BY DEF CallStart
<1>3. CallGaps => call'.fn = "gaps"
    BY DEF CallGaps
<1>4. CallDelay => call'.fn = "delay"
    BY DEF CallDelay
<1>5. CallCandles => call'.fn = "candles"
    BY DEF CallCandles
<1>6. CallCoverage => call'.fn = "coverage"
    BY DEF CallCoverage
<1>7. CallStats => call'.fn = "stats"
    BY DEF CallStats
<1>8. CallStrength => call'.fn = "strength"
    BY DEF CallStrength
<1>9. CallOps => call'.fn = "ops"
    BY DEF CallOps
<1>10. CallChart => call'.fn = "chart"
    BY DEF CallChart
<1>11. CallRoute => call'.fn = "route"
    BY DEF CallRoute
<1>12. CallDashboard => call'.fn = "dashboard"
    BY DEF CallDashboard
<1>13. Return => call'.fn = "none"
    BY DEF Return, Idle
<1> QED
    BY <1>1, <1>2, <1>3, <1>4, <1>5, <1>6, <1>7, <1>8, <1>9, <1>10, <1>11, <1>12, <1>13
       DEF AnalyticsNext, Next

\* planBackfillPages and resolveBackfillStart, on times, candle lengths and page
\* sizes without a bound: no bar of the range is lost or repeated at a page border,
\* and a start fetches the last stored bar and everything after it.
THEOREM PlansAreExact == AnalyticsSpec => []PlanFetchesEveryBarOnce
<1>1. Init => PlanFetchesEveryBarOnce
    BY DEF Init, Idle, PlanFetchesEveryBarOnce
<1>2. ASSUME PlanFetchesEveryBarOnce, [AnalyticsNext]_call
      PROVE  PlanFetchesEveryBarOnce'
    <2>1. CASE CallPlan
        <3>1. PICK from \in Times, to \in Times, i \in Intervals, size \in PageSizes :
                 call' = [fn |-> "plan", from |-> from, to |-> to, i |-> i, size |-> size,
                          pages |-> PlanBackfillPages(from, to, i, size)]
            BY <2>1 DEF CallPlan
        <3> QED
            BY <3>1, PlannedOnce DEF PlanFetchesEveryBarOnce
    <2>2. CASE CallStart
        <3>1. PICK last \in Times \cup {NoBar}, now \in Times, days \in 1 .. 2, i \in Intervals :
                 /\ now - days * MsPerDay >= 0
                 /\ call' = [fn |-> "start", last |-> last, now |-> now, days |-> days, i |-> i,
                             pages |-> PlanBackfillPages(ResolveBackfillStart(last, now, days, i),
                                                         now, i, 1)]
            BY <2>2 DEF CallStart
        <3> DEFINE from == StartOf(last, now, days)
                   bars == BarsOf(AlignToInterval(from, i), now, i)
                   pages == Plan(last, now, days, i)
        <3>2. {pages[k].startTime : k \in DOMAIN pages} = bars
            <4>1. now - days * MsPerDay >= 0
                BY <3>1
            <4> QED
                BY <4>1, StartPlannedOnce
        <3>3. /\ call'.fn = "start" /\ call'.pages = pages /\ call'.i = i
              /\ call'.last = last /\ call'.now = now /\ call'.days = days
            BY <3>1 DEF Plan
        <3> HIDE DEF pages
        <3> QED
            BY <3>2, <3>3 DEF PlanFetchesEveryBarOnce, StartOf
    <2>3. CASE CallGaps
        <3>1. call'.fn = "gaps"
            BY <2>3 DEF CallGaps
        <3> QED
            BY <3>1 DEF PlanFetchesEveryBarOnce
    <2>4. CASE CallDelay
        <3>1. call'.fn = "delay"
            BY <2>4 DEF CallDelay
        <3> QED
            BY <3>1 DEF PlanFetchesEveryBarOnce
    <2>5. CASE call'.fn \notin {"plan", "start", "gaps", "delay"}
        BY <2>5 DEF PlanFetchesEveryBarOnce
    <2>6. CASE UNCHANGED call
        BY <1>2, <2>6 DEF PlanFetchesEveryBarOnce
    <2> QED
        BY <1>2, <2>1, <2>2, <2>3, <2>4, <2>5, <2>6, EveryCall
<1> QED
    BY <1>1, <1>2, PTL DEF AnalyticsSpec

-------------------------------------------------------------------------------
(***************************************************************************)
(* Gaps                                                                    *)
(***************************************************************************)
\* The first and the last of some stored bars.
EarliestOf(stored) == CHOOSE t \in stored : \A u \in stored : t <= u
LatestOf(stored)  == CHOOSE t \in stored : \A u \in stored : u <= t

LEMMA EndsOfStored ==
    ASSUME NEW stored \in SUBSET Times, stored # {}
    PROVE  /\ EarliestOf(stored) \in stored /\ \A u \in stored : EarliestOf(stored) <= u
           /\ LatestOf(stored) \in stored /\ \A u \in stored : u <= LatestOf(stored)
<1>1. LastTime \in Nat /\ \A u \in stored : u \in Nat /\ u <= LastTime
    BY BoundsAssumption DEF Times
<1>2. \E t \in stored : \A u \in stored : t <= u
    BY <1>1, LeastOf
<1>3. \E t \in stored : \A u \in stored : u <= t
    <2> DEFINE Left == {LastTime - u : u \in stored}
    <2>1. Left \in SUBSET Nat /\ Left # {}
        BY <1>1
    <2>2. PICK d \in Left : \A e \in Left : d <= e
        <3> HIDE DEF Left
        <3> QED
            BY <2>1, LeastOf
    <2>3. PICK t \in stored : d = LastTime - t
        BY <2>2
    <2>4. ASSUME NEW u \in stored PROVE u <= t
        <3>1. LastTime - u \in Left
            BY <2>4
        <3>2. d <= LastTime - u
            BY <2>2, <3>1
        <3> QED
            BY <1>1, <2>3, <3>2
    <2> QED
        BY <2>4
<1> QED
    BY <1>2, <1>3 DEF EarliestOf, LatestOf

\* findGaps on the bars of a call: what GapsAreTheMissingBars says of its result.
LEMMA GapsReported ==
    ASSUME NEW i \in Intervals, NEW stored \in SUBSET BarsOf(0, LastTime, i), stored # {}
    PROVE  LET BarsIn(g) == BarsOf(g.startTime, g.endTime, i)
           IN  /\ UNION {BarsIn(g) : g \in FindGaps(stored, i)} =
                      BarsOf(EarliestOf(stored), LatestOf(stored), i) \ stored
               /\ \A g \in FindGaps(stored, i) :
                     /\ Cardinality(BarsIn(g)) = g.missingCount
                     /\ {g.startTime - i, g.endTime + i} \subseteq stored
<1> DEFINE BarsIn(g) == BarsOf(g.startTime, g.endTime, i)
           Gaps  == FindGaps(stored, i)
           first == EarliestOf(stored)
           last  == LatestOf(stored)
<1>1. i \in Nat \ {0} /\ LastTime \in Nat
    BY BoundsAssumption
<1>2. \A t \in stored : t \in Int /\ 0 <= t /\ t <= LastTime /\ t % i = 0 /\ t \in Times
    BY <1>1 DEF BarsOf, Times
<1>3. stored \in SUBSET Int /\ \A t \in stored : AlignToInterval(t, i) = t
    BY <1>1, <1>2, BarStarts
<1>4. /\ first \in stored /\ \A u \in stored : first <= u
      /\ last \in stored /\ \A u \in stored : u <= last
    <2>1. stored \in SUBSET Times
        BY <1>2
    <2> QED
        BY <2>1, EndsOfStored
<1> HIDE DEF first, last
<1>5. \A n \in Int :
         (/\ n * i \notin stored
          /\ \E t \in stored : t < n * i
          /\ \E t \in stored : n * i < t)
         <=> \E g \in Gaps : g.startTime <= n * i /\ n * i <= g.endTime
    BY <1>1, <1>3, GapsAreExact
<1>6. ASSUME NEW g \in Gaps
      PROVE  /\ g.startTime - i \in stored /\ g.endTime + i \in stored
             /\ g.missingCount \in Nat \ {0}
             /\ g.endTime = g.startTime + (g.missingCount - 1) * i
             /\ g.startTime \in Int
    <2>1. /\ g.startTime - i \in stored /\ g.endTime + i \in stored
          /\ g.missingCount \in Nat \ {0}
          /\ g.endTime = g.startTime + (g.missingCount - 1) * i
        BY <1>1, <1>3, GapsAreWhole
    <2>2. g.startTime \in Int
        <3>1. PICK p \in Neighbours(stored) : g = GapBetween(p[1], p[2], i)
            BY <1>6 DEF FindGaps
        <3>2. p[1] \in Int
            BY <1>2, <3>1 DEF Neighbours
        <3> QED
            BY <1>1, <3>1, <3>2 DEF GapBetween
    <2> QED
        BY <2>1, <2>2
<1> HIDE DEF Gaps
<1>7. ASSUME NEW t
      PROVE  (\E g \in Gaps : t \in BarsIn(g)) <=> t \in BarsOf(first, last, i) /\ t \notin stored
    <2>1. CASE t \in Times /\ t % i = 0
        <3>1. t \in Int
            BY <2>1 DEF Times
        <3>2. PICK n \in Int : t = n * i
            BY <1>1, <2>1, <3>1, BarStarts
        <3>3. (\E g \in Gaps : t \in BarsIn(g)) <=> \E g \in Gaps : g.startTime <= t /\ t <= g.endTime
            BY <2>1 DEF BarsOf
        <3>4. t \in BarsOf(first, last, i) <=> first <= t /\ t <= last
            BY <2>1 DEF BarsOf
        <3>5. t \notin stored =>
                 (first <= t /\ t <= last <=> (\E u \in stored : u < t) /\ \E u \in stored : t < u)
            BY <1>2, <1>4, <3>1
        <3> QED
            BY <1>5, <3>2, <3>3, <3>4, <3>5
    <2>2. CASE ~ (t \in Times /\ t % i = 0)
        BY <2>2 DEF BarsOf
    <2> QED
        BY <2>1, <2>2
<1>8. UNION {BarsIn(g) : g \in Gaps} = BarsOf(first, last, i) \ stored
    <2> HIDE DEF BarsIn
    <2> QED
        BY <1>7
<1>9. ASSUME NEW g \in Gaps
      PROVE  Cardinality(BarsIn(g)) = g.missingCount
    <2> DEFINE c == g.missingCount
    <2>1. c \in Nat \ {0} /\ g.startTime \in Int /\ g.endTime = g.startTime + (c - 1) * i
        BY <1>6
    <2>2. PICK m \in Int : g.startTime - i = m * i
        BY <1>1, <1>2, <1>6, BarStarts
    <2> DEFINE a == m + 1
    <2>3. a \in Int /\ g.startTime = a * i
        BY <1>1, <2>1, <2>2
    <2> HIDE DEF a, c
    <2>4. (a + c - 1) * i = a * i + (c - 1) * i /\ (c - 1) * i \in Int /\ a * i \in Int
        BY <1>1, <2>1, <2>3
    <2>5. g.endTime = (a + c - 1) * i
        BY <2>1, <2>3, <2>4
    <2>6. 0 <= a * i
        BY <1>1, <1>2, <1>6, <2>1, <2>3
    <2>7. (a + c - 1) * i <= LastTime
        <3>1. g.endTime \in Int /\ g.endTime + i <= LastTime
            BY <1>2, <1>6, <2>1, <2>4
        <3> QED
            BY <1>1, <2>5, <3>1
    <2>8. Cardinality(BarsOf(a * i, (a + c - 1) * i, i)) = c
        BY <1>1, <2>1, <2>3, <2>6, <2>7, BarsCounted
    <2> QED
        BY <2>3, <2>5, <2>8 DEF c
<1> QED
    BY <1>6, <1>8, <1>9 DEF Gaps, first, last

\* findGaps, on any stored bars: exactly the bars missing between the first and the
\* last stored one, in gaps as long as they can be, with their counts right.
THEOREM GapReportsAreExact == AnalyticsSpec => []GapsAreTheMissingBars
<1>1. Init => GapsAreTheMissingBars
    BY DEF Init, Idle, GapsAreTheMissingBars
<1>2. ASSUME GapsAreTheMissingBars, [AnalyticsNext]_call
      PROVE  GapsAreTheMissingBars'
    <2>1. CASE CallGaps
        <3> DEFINE Called(i, stored) ==
                 /\ stored # {}
                 /\ call'.fn = "gaps" /\ call'.i = i /\ call'.stored = stored
                 /\ call'.first = EarliestOf(stored) /\ call'.gaps = FindGaps(stored, i)
        <3>1. \E i \in Intervals : \E stored \in SUBSET BarsOf(0, LastTime, i) : Called(i, stored)
            BY <2>1 DEF CallGaps, EarliestOf
        <3>2. PICK i \in Intervals : \E stored \in SUBSET BarsOf(0, LastTime, i) : Called(i, stored)
            BY <3>1
        <3>3. PICK stored \in SUBSET BarsOf(0, LastTime, i) : Called(i, stored)
            BY <3>2
        <3>4. /\ UNION {BarsOf(g.startTime, g.endTime, i) : g \in FindGaps(stored, i)} =
                     BarsOf(EarliestOf(stored), LatestOf(stored), i) \ stored
              /\ \A g \in FindGaps(stored, i) :
                    /\ Cardinality(BarsOf(g.startTime, g.endTime, i)) = g.missingCount
                    /\ {g.startTime - i, g.endTime + i} \subseteq stored
            BY <3>3, GapsReported
        <3> QED
            BY <3>3, <3>4 DEF GapsAreTheMissingBars, LatestOf
    <2>2. CASE CallPlan
        <3>1. call'.fn = "plan"
            BY <2>2 DEF CallPlan
        <3> QED
            BY <3>1 DEF GapsAreTheMissingBars
    <2>3. CASE CallStart
        <3>1. call'.fn = "start"
            BY <2>3 DEF CallStart
        <3> QED
            BY <3>1 DEF GapsAreTheMissingBars
    <2>4. CASE CallDelay
        <3>1. call'.fn = "delay"
            BY <2>4 DEF CallDelay
        <3> QED
            BY <3>1 DEF GapsAreTheMissingBars
    <2>5. CASE call'.fn \notin {"plan", "start", "gaps", "delay"}
        BY <2>5 DEF GapsAreTheMissingBars
    <2>6. CASE UNCHANGED call
        BY <1>2, <2>6 DEF GapsAreTheMissingBars
    <2> QED
        BY <1>2, <2>1, <2>2, <2>3, <2>4, <2>5, <2>6, EveryCall
<1> QED
    BY <1>1, <1>2, PTL DEF AnalyticsSpec

-------------------------------------------------------------------------------
(***************************************************************************)
(* Delays                                                                  *)
(***************************************************************************)
\* The delays as BackoffDoublesUpToItsCap has them, each from the one before.
Doubling(base, max) ==
    CHOOSE g : g = [n \in 1 .. LastAttempt |->
                       IF n = 1 THEN base ELSE LesserOf(2 * g[n - 1], max)]

LEMMA DoublingIsBackoff ==
    ASSUME NEW base \in Nat \ {0}, NEW max \in Nat, base <= max, max <= 2 ^ MaxExponent,
           NEW k \in 1 .. LastAttempt
    PROVE  Doubling(base, max)[k] = CalculateBackoffDelay(k, base, max)
<1> DEFINE N == 1 .. LastAttempt
           D(n) == CalculateBackoffDelay(n, base, max)
           f == [n \in N |-> D(n)]
           g == Doubling(base, max)
<1>1. \A n \in N : n \in Nat \ {0}
    BY BoundsAssumption
<1>2. D(1) = base
    <2>1. D(1) = LesserOf(base, max)
        BY DelaysDouble
    <2> QED
        BY <2>1 DEF LesserOf
<1>3. \A n \in N : n # 1 => n - 1 \in N /\ D(n) = LesserOf(2 * D(n - 1), max)
    <2> SUFFICES ASSUME NEW n \in N, n # 1
                 PROVE  n - 1 \in N /\ D(n) = LesserOf(2 * D(n - 1), max)
        OBVIOUS
    <2> DEFINE m == n - 1
    <2>1. m \in Nat \ {0} /\ m \in N /\ m + 1 = n
        BY BoundsAssumption
    <2> HIDE DEF m
    <2>2. D(m + 1) = LesserOf(2 * D(m), max)
        BY <2>1, DelaysDouble
    <2> QED
        BY <2>1, <2>2 DEF m
<1> HIDE DEF D
<1>4. f = [n \in N |-> IF n = 1 THEN base ELSE LesserOf(2 * f[n - 1], max)]
    BY <1>2, <1>3
<1> HIDE DEF f
<1>5. g = [n \in N |-> IF n = 1 THEN base ELSE LesserOf(2 * g[n - 1], max)]
    BY <1>4 DEF Doubling
<1> HIDE DEF g
<1>6. \A n \in N : g[n] = IF n = 1 THEN base ELSE LesserOf(2 * g[n - 1], max)
    BY <1>5
<1>7. ASSUME NEW n \in N, g[n] # D(n)
      PROVE  FALSE
    <2> DEFINE Wrong == {x \in N : g[x] # D(x)}
    <2>1. Wrong \in SUBSET Nat /\ Wrong # {}
        BY <1>1, <1>7
    <2>2. PICK d \in Wrong : \A e \in Wrong : d <= e
        <3> HIDE DEF Wrong
        <3> QED
            BY <2>1, LeastOf
    <2>3. d \in N /\ g[d] # D(d) /\ d \in Nat
        BY <1>1, <2>2
    <2>4. d # 1
        BY <1>2, <1>6, <2>3
    <2>5. d - 1 \in N /\ D(d) = LesserOf(2 * D(d - 1), max)
        BY <1>3, <2>3, <2>4
    <2>6. ~ (d <= d - 1)
        BY <2>3
    <2>7. g[d - 1] = D(d - 1)
        BY <2>2, <2>5, <2>6
    <2> QED
        BY <1>6, <2>3, <2>4, <2>5, <2>7
<1> QED
    BY <1>7 DEF g, D

\* The delays of the settings loadConfig accepts start at the base, double with every
\* attempt and stop at the cap, with jitter of a fifth at most and never above it.
THEOREM BackoffDoubles == AnalyticsSpec => []BackoffDoublesUpToItsCap
<1>1. Init => BackoffDoublesUpToItsCap
    BY DEF Init, Idle, BackoffDoublesUpToItsCap
<1>2. ASSUME BackoffDoublesUpToItsCap, [AnalyticsNext]_call
      PROVE  BackoffDoublesUpToItsCap'
    <2>1. CASE CallDelay
        <3> DEFINE Called(n, base, max) ==
                 /\ base \in Nat \ {0} /\ base <= max
                 /\ call' = [fn |-> "delay", n |-> n, base |-> base, max |-> max,
                             delay |-> CalculateBackoffDelay(n, base, max),
                             jittered |-> NextReconnectDelays(n, base, max)]
        <3>1. \E n \in 1 .. LastAttempt, base, max \in Delays \cup {0} : Called(n, base, max)
            <4>1. PICK n \in 1 .. LastAttempt, base \in Delays \cup {0}, max \in Delays \cup {0} :
                     LET config == LoadConfig(Source(<<"btc">>, base, max), SomeIntervals, Upper)
                     IN  /\ config.accepted
                         /\ call' = [fn |-> "delay", n |-> n,
                                     base |-> config.reconnectBase, max |-> config.reconnectMax,
                                     delay |-> CalculateBackoffDelay(n, config.reconnectBase,
                                                                     config.reconnectMax),
                                     jittered |-> NextReconnectDelays(n, config.reconnectBase,
                                                                      config.reconnectMax)]
                BY <2>1 DEF CallDelay
            <4> DEFINE config == LoadConfig(Source(<<"btc">>, base, max), SomeIntervals, Upper)
            <4>2. base \in Nat /\ max \in Nat
                BY BoundsAssumption
            <4>3. /\ base > 0 /\ ~ (base > max)
                  /\ config.reconnectBase = base /\ config.reconnectMax = max
                BY <4>1 DEF LoadConfig, EnvSchema, Source, Refused
            <4> QED
                BY <4>1, <4>2, <4>3
        <3>2. PICK n \in 1 .. LastAttempt, base \in Delays \cup {0}, max \in Delays \cup {0} :
                 Called(n, base, max)
            BY <3>1
        <3>3. base \in Nat \ {0} /\ max \in Nat /\ base <= max /\ max <= 2 ^ MaxExponent
            <4>1. max # 0
                BY <3>2, BoundsAssumption
            <4> QED
                BY <3>2, <4>1, BoundsAssumption
        <3>4. Doubling(base, max)[n] = CalculateBackoffDelay(n, base, max)
            BY <3>3, DoublingIsBackoff
        <3>5. \A d \in NextReconnectDelays(n, base, max) :
                 10 * d + 5 >= 8 * CalculateBackoffDelay(n, base, max) /\ d <= max
            <4> DEFINE delay == CalculateBackoffDelay(n, base, max)
            <4>1. delay \in Nat /\ delay <= max
                <5>1. n \in Nat \ {0} /\ base \in Nat
                    BY <3>3, BoundsAssumption
                <5> QED
                    BY <3>3, <5>1, DelayIsCapped
            <4>2. NextReconnectDelays(n, base, max) = (8 * delay + 5) \div 10 .. delay
                BY DEF NextReconnectDelays
            <4> HIDE DEF delay
            <4> DEFINE least == (8 * delay + 5) \div 10
            <4>3. least \in Int /\ 8 * delay + 5 < least * 10 + 10
                BY <4>1
            <4> HIDE DEF least
            <4>4. \A d \in least .. delay : 10 * d + 5 >= 8 * delay /\ d <= max
                BY <3>3, <4>1, <4>3
            <4> QED
                BY <4>2, <4>4 DEF delay, least
        <3> QED
            BY <3>2, <3>4, <3>5 DEF BackoffDoublesUpToItsCap, Doubling
    <2>2. CASE CallPlan
        <3>1. call'.fn = "plan"
            BY <2>2 DEF CallPlan
        <3> QED
            BY <3>1 DEF BackoffDoublesUpToItsCap
    <2>3. CASE CallStart
        <3>1. call'.fn = "start"
            BY <2>3 DEF CallStart
        <3> QED
            BY <3>1 DEF BackoffDoublesUpToItsCap
    <2>4. CASE CallGaps
        <3>1. call'.fn = "gaps"
            BY <2>4 DEF CallGaps
        <3> QED
            BY <3>1 DEF BackoffDoublesUpToItsCap
    <2>5. CASE call'.fn \notin {"plan", "start", "gaps", "delay"}
        BY <2>5 DEF BackoffDoublesUpToItsCap
    <2>6. CASE UNCHANGED call
        BY <1>2, <2>6 DEF BackoffDoublesUpToItsCap
    <2> QED
        BY <1>2, <2>1, <2>2, <2>3, <2>4, <2>5, <2>6, EveryCall
<1> QED
    BY <1>1, <1>2, PTL DEF AnalyticsSpec

-------------------------------------------------------------------------------
(***************************************************************************)
(* The lines of the relative strength                                      *)
(***************************************************************************)
\* A set of numbers that is not empty and has a bound has a greatest one.
LEMMA GreatestOf ==
    ASSUME NEW n \in Nat, NEW S \in SUBSET (0 .. n), S # {}
    PROVE  \E d \in S : \A e \in S : d >= e
<1> DEFINE Left == {n - u : u \in S}
<1>1. Left \in SUBSET Nat /\ Left # {}
    <2>1. \A u \in S : u \in Nat /\ u <= n
        OBVIOUS
    <2>2. \A u \in S : n - u \in Nat
        BY <2>1
    <2> QED
        BY <2>2
<1>2. PICK d \in Left : \A e \in Left : d <= e
    <2> HIDE DEF Left
    <2> QED
        BY <1>1, LeastOf
<1>3. PICK t \in S : d = n - t
    BY <1>2
<1>4. ASSUME NEW u \in S PROVE t >= u
    <2>1. n - u \in Left
        BY <1>4
    <2>2. d <= n - u
        BY <1>2, <2>1
    <2> QED
        BY <1>3, <2>2
<1> QED
    BY <1>4

LEMMA FinitePart ==
    ASSUME NEW n \in Nat, NEW S \in SUBSET (0 .. n)
    PROVE  IsFiniteSet(S) /\ Cardinality(S) \in Nat
<1>1. IsFiniteSet(0 .. n)
    BY FS_Interval
<1>2. IsFiniteSet(S)
    BY <1>1, FS_Subset
<1> QED
    BY <1>2, FS_CardinalityType

\* Ascending lists elements of its set: of n elements one has k - 1 below it, for
\* every k up to n.
LEMMA AscendingHasRanks ==
    ASSUME NEW n \in Nat, NEW S \in SUBSET (0 .. n), NEW k \in 1 .. Cardinality(S)
    PROVE  \E x \in S : Cardinality({y \in S : y < x}) = k - 1
<1> DEFINE Below(T, x) == {y \in T : y < x}
           Lacking(c, T) ==
               Cardinality(T) = c /\ \E j \in 1 .. c : \A x \in T : Cardinality(Below(T, x)) # j - 1
           Wrong == {c \in Nat : \E T \in SUBSET (0 .. n) : Lacking(c, T)}
<1>1. \A T \in SUBSET (0 .. n) : IsFiniteSet(T) /\ Cardinality(T) \in Nat
    BY FinitePart
<1>2. ASSUME Wrong # {} PROVE FALSE
    <2>1. PICK c \in Wrong : \A e \in Wrong : c <= e
        <3>1. Wrong \in SUBSET Nat
            OBVIOUS
        <3> HIDE DEF Wrong
        <3> QED
            BY <1>2, <3>1, LeastOf
    <2>2. PICK T \in SUBSET (0 .. n) : c \in Nat /\ Lacking(c, T)
        BY <2>1
    <2> HIDE DEF Wrong
    <2>3. PICK j \in 1 .. c : \A x \in T : Cardinality(Below(T, x)) # j - 1
        BY <2>2
    <2>4. T # {}
        BY <2>2, <2>3, FS_EmptySet
    <2>5. PICK m \in T : \A e \in T : m >= e
        BY <2>4, GreatestOf
    <2> DEFINE U == T \ {m}
    <2>6. U \in SUBSET (0 .. n) /\ Cardinality(U) = c - 1
        BY <1>1, <2>2, <2>5, FS_RemoveElement
    <2>7. Below(T, m) = U
        <3>1. \A y \in T : y \in Int
            OBVIOUS
        <3>2. \A y \in T : y < m <=> y # m
            BY <2>5, <3>1
        <3> QED
            BY <3>2
    <2>8. c - 1 \in Nat /\ j \in 1 .. c - 1
        BY <2>2, <2>3, <2>5, <2>6, <2>7
    <2>9. c - 1 \notin Wrong
        BY <2>1, <2>2
    <2>10. ~Lacking(c - 1, U)
        BY <2>6, <2>8, <2>9 DEF Wrong
    <2>11. PICK x \in U : Cardinality(Below(U, x)) = j - 1
        BY <2>6, <2>8, <2>10
    <2>12. Below(T, x) = Below(U, x)
        BY <2>5, <2>11
    <2> QED
        BY <2>3, <2>11, <2>12
<1>3. Cardinality(S) \in Nat /\ ~Lacking(Cardinality(S), S)
    BY <1>1, <1>2
<1> QED
    BY <1>3

LEMMA AscendingListsElements ==
    ASSUME NEW n \in Nat, NEW S \in SUBSET (0 .. n), NEW k \in 1 .. Cardinality(S)
    PROVE  Ascending(S)[k] \in S
BY AscendingHasRanks DEF Ascending

\* The close of a bucket is that of one of its bars, which is no older than the
\* bucket.
LEMMA BucketCloses ==
    ASSUME NEW n \in Nat, NEW times \in SUBSET (0 .. n), NEW step \in Nat \ {0},
           NEW b \in {AlignToInterval(t, step) : t \in times}
    PROVE  Max(Bin(times, step, b)) \in times /\ b <= Max(Bin(times, step, b)) /\ b \in 0 .. n
<1> DEFINE B == Bin(times, step, b)
<1>1. B \in SUBSET (0 .. n) /\ B # {} /\ B \subseteq times
    BY DEF Bin
<1>2. PICK d \in B : \A e \in B : d >= e
    <2> HIDE DEF B
    <2> QED
        BY <1>1, GreatestOf
<1>3. Max(B) \in B
    <2> HIDE DEF B
    <2> QED
        BY <1>2 DEF Max
<1>4. ASSUME NEW t \in times, AlignToInterval(t, step) = b
      PROVE  b <= t /\ b \in 0 .. n
    <2>1. t \in Int /\ 0 <= t /\ t <= n
        OBVIOUS
    <2>2. b \in Int /\ 0 <= b
        BY <1>4, <2>1, FirstBarNotNegative
    <2>3. b <= t
        BY <1>4, <2>1, BarAtBounds
    <2> QED
        BY <2>1, <2>2, <2>3
<1>5. Max(B) \in times /\ AlignToInterval(Max(B), step) = b
    BY <1>3 DEF Bin
<1> QED
    BY <1>4, <1>5

\* getRelativeStrength: what LinesShareTheirStart says of its result, of symbol s at
\* point k.
StartShared(bars, line, s, k) ==
    /\ line[1].values[s][1] = 100 * line[1].values[s][2]
    /\ line[k].values[s][2] = line[1].values[s][2]
    /\ \E t \in bars[s] : line[k].values[s][1] = 100 * Price(s, t + 1) /\ line[k].openTime <= t
    /\ \E t \in bars[s] : line[1].values[s][2] = Price(s, t + 1)

LEMMA LinesStartTogether ==
    ASSUME NEW bars \in [Symbols -> SUBSET (0 .. PairLastBar)], NEW span \in Nat, NEW points \in Nat \ {0},
           NEW s \in Symbols,
           NEW k \in DOMAIN GetRelativeStrength(Klines(bars), Symbols, span, points)
    PROVE  StartShared(bars, GetRelativeStrength(Klines(bars), Symbols, span, points), s, k)
<1> DEFINE klines == Klines(bars)
           step == PointStep(span, points)
           Src(x) == After(DOMAIN klines[x], Anchor(klines, Symbols) - span)
           Has(x) == {AlignToInterval(t, step) : t \in Src(x)}
           Close(x, b) == klines[x][Max(Bin(Src(x), step, b))].close
           complete == {b \in UNION {Has(x) : x \in Symbols} : \A x \in Symbols : b \in Has(x)}
           starts == Ascending(complete)
           line == GetRelativeStrength(klines, Symbols, span, points)
<1>1. PairLastBar \in Nat
    BY TablesAssumption
<1>2. DOMAIN klines[s] = bars[s] /\ \A t \in bars[s] : klines[s][t].close = Price(s, t + 1)
    BY DEF Klines, Table, Row
<1>3. step \in Nat \ {0}
    BY DEF PointStep, GreaterOf
<1>4. line = [j \in DOMAIN starts |->
                 [openTime |-> starts[j],
                  values   |-> [x \in Symbols |-> <<100 * Close(x, starts[j]), Close(x, starts[1])>>]]]
    <2>1. ~NoRows(klines, Symbols)
        <3>1. ASSUME NoRows(klines, Symbols) PROVE line = <<>>
            BY <3>1 DEF GetRelativeStrength
        <3> QED
            BY <3>1
    <2> QED
        BY <2>1 DEF GetRelativeStrength
<1>5. Src(s) \in SUBSET (0 .. PairLastBar) /\ Src(s) \subseteq bars[s]
    BY <1>2 DEF After
<1> HIDE DEF klines, step, Src
<1>6. ASSUME NEW b \in Has(s)
      PROVE  /\ b \in 0 .. PairLastBar
             /\ \E t \in bars[s] : Close(s, b) = Price(s, t + 1) /\ b <= t
    <2>1. /\ Max(Bin(Src(s), step, b)) \in Src(s) /\ b <= Max(Bin(Src(s), step, b))
          /\ b \in 0 .. PairLastBar
        BY <1>1, <1>3, <1>5, BucketCloses
    <2> QED
        BY <1>2, <1>5, <2>1
<1>7. complete \in SUBSET (0 .. PairLastBar) /\ complete \subseteq Has(s)
    <2>1. complete \subseteq Has(s)
        OBVIOUS
    <2> HIDE DEF complete, Has
    <2> QED
        BY <1>6, <2>1
<1> HIDE DEF complete, Has, Close
<1>8. Cardinality(complete) \in Nat
    BY <1>1, <1>7, FinitePart
<1>9. DOMAIN starts = 1 .. Cardinality(complete)
    BY DEF Ascending
<1>10. k \in DOMAIN starts
    BY <1>4 DEF klines
<1>11. 1 \in DOMAIN starts
    BY <1>8, <1>9, <1>10
<1>12. starts[k] \in Has(s) /\ starts[1] \in Has(s)
    BY <1>1, <1>7, <1>9, <1>10, <1>11, AscendingListsElements
<1> HIDE DEF starts, line
<1>13. /\ line[k].openTime = starts[k]
       /\ line[k].values[s] = <<100 * Close(s, starts[k]), Close(s, starts[1])>>
       /\ line[1].values[s] = <<100 * Close(s, starts[1]), Close(s, starts[1])>>
    BY <1>4, <1>10, <1>11
<1>14. PICK t \in bars[s] : Close(s, starts[k]) = Price(s, t + 1) /\ starts[k] <= t
    BY <1>6, <1>12
<1>15. /\ line[1].values[s][1] = 100 * line[1].values[s][2]
       /\ line[k].values[s][2] = line[1].values[s][2]
       /\ line[k].values[s][1] = 100 * Price(s, t + 1) /\ line[k].openTime <= t
    BY <1>13, <1>14
<1>16. \E u \in bars[s] : line[1].values[s][2] = Price(s, u + 1)
    BY <1>6, <1>12, <1>13
<1>17. StartShared(bars, line, s, k)
    BY <1>15, <1>16 DEF StartShared
<1> QED
    BY <1>17 DEF line, klines

\* The lines of the relative strength start at 100 in one bucket, every line has a
\* value at every point, and each is measured against its value at the first, for
\* tables of any length.
THEOREM LinesHaveOneStart == AnalyticsSpec => []LinesShareTheirStart
<1>1. Init => LinesShareTheirStart
    BY DEF Init, Idle, LinesShareTheirStart
<1>2. ASSUME LinesShareTheirStart, [AnalyticsNext]_call
      PROVE  LinesShareTheirStart'
    <2>1. CASE CallStrength
        <3> DEFINE Called(bars, span, points) ==
                 /\ call'.bars = bars
                 /\ call'.line = GetRelativeStrength(Klines(bars), Symbols, span, points)
        <3>1. PICK bars \in [Symbols -> SUBSET (0 .. PairLastBar)] :
                 \E span \in 3 .. 5, points \in {2, 4} : Called(bars, span, points)
            BY <2>1 DEF CallStrength
        <3>2. PICK span \in 3 .. 5, points \in {2, 4} : Called(bars, span, points)
            BY <3>1
        <3>3. span \in Nat /\ points \in Nat \ {0}
            OBVIOUS
        <3> DEFINE line == GetRelativeStrength(Klines(bars), Symbols, span, points)
        <3>4. ASSUME NEW s \in Symbols, NEW k \in DOMAIN line
              PROVE  StartShared(bars, line, s, k)
            BY <3>3, LinesStartTogether
        <3>5. call'.bars = bars /\ call'.line = line
            BY <3>2
        <3> HIDE DEF line
        <3> QED
            BY <3>4, <3>5 DEF LinesShareTheirStart, StartShared
    <2>2. CASE call'.fn # "strength"
        BY <2>2 DEF LinesShareTheirStart
    <2>3. CASE UNCHANGED call
        BY <1>2, <2>3 DEF LinesShareTheirStart
    <2> QED
        BY <1>2, <2>1, <2>2, <2>3, EveryCall
<1> QED
    BY <1>1, <1>2, PTL DEF AnalyticsSpec

-------------------------------------------------------------------------------
(***************************************************************************)
(* Sums                                                                    *)
(***************************************************************************)
\* The sum of the values of a function.
Total(F) == MapThenSumSet(LAMBDA x : F[x], DOMAIN F)

\* What MapThenSumSet computes for the subsets of S, of a function defined on S.
SomeOf(T) == CHOOSE x \in T : TRUE

Adds(g, F, S) ==
    g = [T \in SUBSET S |-> IF T = {} THEN 0 ELSE F[SomeOf(T)] + g[T \ {SomeOf(T)}]]

SumsOf(g, F, S) ==
    IsFiniteSet(S) /\ F \in [S -> Int] /\ g \in [SUBSET S -> Int] /\ Adds(g, F, S)

\* The same, up to subsets of n elements.
AddsUpTo(g, n, F, S) ==
    \A T \in SUBSET S : Cardinality(T) <= n =>
        g[T] = IF T = {} THEN 0 ELSE F[SomeOf(T)] + g[T \ {SomeOf(T)}]

LEMMA FiniteSubsets ==
    ASSUME NEW S, IsFiniteSet(S)
    PROVE  \A T \in SUBSET S :
              /\ IsFiniteSet(T) /\ Cardinality(T) \in Nat /\ Cardinality(T) <= Cardinality(S)
              /\ T = {} <=> Cardinality(T) = 0
              /\ \A x \in T : /\ T \ {x} \in SUBSET S
                              /\ Cardinality(T \ {x}) = Cardinality(T) - 1
              /\ T # {} => SomeOf(T) \in T
<1> SUFFICES ASSUME NEW T \in SUBSET S
             PROVE  /\ IsFiniteSet(T) /\ Cardinality(T) \in Nat /\ Cardinality(T) <= Cardinality(S)
                    /\ T = {} <=> Cardinality(T) = 0
                    /\ \A x \in T : /\ T \ {x} \in SUBSET S
                                    /\ Cardinality(T \ {x}) = Cardinality(T) - 1
                    /\ T # {} => SomeOf(T) \in T
    OBVIOUS
<1>1. IsFiniteSet(T) /\ Cardinality(T) <= Cardinality(S)
    BY FS_Subset
<1>2. Cardinality(T) \in Nat
    BY <1>1, FS_CardinalityType
<1>3. T = {} <=> Cardinality(T) = 0
    BY <1>1, FS_EmptySet
<1>4. \A x \in T : Cardinality(T \ {x}) = Cardinality(T) - 1
    BY <1>1, FS_RemoveElement
<1>5. T # {} => SomeOf(T) \in T
    BY DEF SomeOf
<1> QED
    BY <1>1, <1>2, <1>3, <1>4, <1>5

\* The sums over the subsets of a finite set exist.
LEMMA SumsExist ==
    ASSUME NEW S, IsFiniteSet(S), NEW F \in [S -> Int]
    PROVE  \E g \in [SUBSET S -> Int] : Adds(g, F, S)
<1> DEFINE Wrong == {n \in Nat : ~ \E g \in [SUBSET S -> Int] : AddsUpTo(g, n, F, S)}
<1>1. \A T \in SUBSET S :
         /\ Cardinality(T) \in Nat /\ Cardinality(T) <= Cardinality(S)
         /\ T = {} <=> Cardinality(T) = 0
         /\ \A x \in T : T \ {x} \in SUBSET S /\ Cardinality(T \ {x}) = Cardinality(T) - 1
         /\ T # {} => SomeOf(T) \in T
    BY FiniteSubsets
<1>2. ASSUME Wrong # {} PROVE FALSE
    <2>1. PICK n \in Wrong : \A m \in Wrong : n <= m
        <3>1. Wrong \in SUBSET Nat
            OBVIOUS
        <3> HIDE DEF Wrong
        <3> QED
            BY <1>2, <3>1, LeastOf
    <2>2. n \in Nat /\ ~ \E g \in [SUBSET S -> Int] : AddsUpTo(g, n, F, S)
        BY <2>1
    <2>3. n # 0
        <3> SUFFICES ASSUME n = 0 PROVE FALSE
            OBVIOUS
        <3> DEFINE g == [T \in SUBSET S |-> 0]
        <3>1. g \in [SUBSET S -> Int]
            OBVIOUS
        <3>2. \A T \in SUBSET S : Cardinality(T) <= 0 => T = {} /\ g[T] = 0
            BY <1>1
        <3>3. AddsUpTo(g, n, F, S)
            BY <3>2 DEF AddsUpTo
        <3> HIDE DEF g
        <3> QED
            BY <2>2, <3>1, <3>3
    <2>4. n - 1 \in Nat /\ n - 1 \notin Wrong
        <3>1. n - 1 \in Nat /\ ~ (n <= n - 1)
            BY <2>2, <2>3
        <3> HIDE DEF Wrong
        <3> QED
            BY <2>1, <3>1
    <2>5. PICK h \in [SUBSET S -> Int] : AddsUpTo(h, n - 1, F, S)
        BY <2>4
    <2> HIDE DEF Wrong
    <2> DEFINE g == [T \in SUBSET S |-> IF T = {} THEN 0 ELSE F[SomeOf(T)] + h[T \ {SomeOf(T)}]]
    <2>6. g \in [SUBSET S -> Int]
        <3>1. \A T \in SUBSET S : T # {} => F[SomeOf(T)] + h[T \ {SomeOf(T)}] \in Int
            BY <1>1
        <3> QED
            BY <3>1
    <2>7. ASSUME NEW T \in SUBSET S, Cardinality(T) <= n - 1
          PROVE  g[T] = h[T]
        BY <2>5, <2>7 DEF AddsUpTo
    <2>8. ASSUME NEW T \in SUBSET S, Cardinality(T) <= n, T # {}
          PROVE  h[T \ {SomeOf(T)}] = g[T \ {SomeOf(T)}]
        <3>1. T \ {SomeOf(T)} \in SUBSET S /\ Cardinality(T \ {SomeOf(T)}) <= n - 1
            BY <1>1, <2>2, <2>8
        <3> QED
            BY <2>7, <3>1
    <2>9. AddsUpTo(g, n, F, S)
        <3>1. \A T \in SUBSET S :
                 g[T] = IF T = {} THEN 0 ELSE F[SomeOf(T)] + h[T \ {SomeOf(T)}]
            OBVIOUS
        <3> HIDE DEF g
        <3> QED
            BY <2>8, <3>1 DEF AddsUpTo
    <2> HIDE DEF g
    <2> QED
        BY <2>2, <2>6, <2>9
<1>3. Cardinality(S) \in Nat
    BY FS_CardinalityType
<1>4. PICK g \in [SUBSET S -> Int] : AddsUpTo(g, Cardinality(S), F, S)
    BY <1>2, <1>3
<1>5. \A T \in SUBSET S : g[T] = IF T = {} THEN 0 ELSE F[SomeOf(T)] + g[T \ {SomeOf(T)}]
    BY <1>1, <1>4 DEF AddsUpTo
<1>6. g = [T \in SUBSET S |-> IF T = {} THEN 0 ELSE F[SomeOf(T)] + g[T \ {SomeOf(T)}]]
    BY <1>5
<1> QED
    BY <1>6 DEF Adds

\* There is one sum only, of whatever functions that agree on the subset.
LEMMA SumsAgree ==
    ASSUME NEW S, NEW R, IsFiniteSet(S), NEW F, NEW G, NEW g, NEW h,
           Adds(g, F, S), Adds(h, G, R),
           NEW T \in SUBSET S, T \subseteq R, \A x \in T : F[x] = G[x]
    PROVE  g[T] = h[T]
<1> DEFINE Wrong == {n \in Nat : \E U \in SUBSET T : Cardinality(U) = n /\ g[U] # h[U]}
<1>1. \A U \in SUBSET T :
         /\ Cardinality(U) \in Nat /\ U \in SUBSET S /\ U \in SUBSET R
         /\ \A x \in U : U \ {x} \in SUBSET T /\ Cardinality(U \ {x}) = Cardinality(U) - 1
         /\ U # {} => SomeOf(U) \in U
    BY FiniteSubsets
<1>2. ASSUME NEW U \in SUBSET T
      PROVE  /\ g[U] = IF U = {} THEN 0 ELSE F[SomeOf(U)] + g[U \ {SomeOf(U)}]
             /\ h[U] = IF U = {} THEN 0 ELSE G[SomeOf(U)] + h[U \ {SomeOf(U)}]
    BY <1>1 DEF Adds
<1>3. ASSUME Wrong # {} PROVE FALSE
    <2>1. PICK n \in Wrong : \A m \in Wrong : n <= m
        <3>1. Wrong \in SUBSET Nat
            OBVIOUS
        <3> HIDE DEF Wrong
        <3> QED
            BY <1>3, <3>1, LeastOf
    <2>2. PICK U \in SUBSET T : n \in Nat /\ Cardinality(U) = n /\ g[U] # h[U]
        BY <2>1
    <2>3. U # {}
        BY <1>2, <2>2
    <2> DEFINE V == U \ {SomeOf(U)}
    <2>4. SomeOf(U) \in U /\ V \in SUBSET T /\ Cardinality(V) = n - 1 /\ Cardinality(V) \in Nat
        BY <1>1, <2>2, <2>3
    <2>5. n - 1 \in Nat /\ n - 1 \notin Wrong
        BY <2>1, <2>2, <2>4
    <2>6. g[V] = h[V]
        BY <2>4, <2>5
    <2>7. F[SomeOf(U)] = G[SomeOf(U)]
        BY <2>4
    <2> QED
        BY <1>2, <2>2, <2>3, <2>6, <2>7
<1>4. Cardinality(T) \in Nat /\ Cardinality(T) \notin Wrong
    BY <1>1, <1>3
<1> QED
    BY <1>4

\* The element a sum adds last may be any one.
LEMMA SumsAddAny ==
    ASSUME NEW S, NEW F, NEW g, SumsOf(g, F, S), NEW T \in SUBSET S, NEW x \in T
    PROVE  g[T] = F[x] + g[T \ {x}]
<1> USE DEF SumsOf
<1> DEFINE Fails(U) == \E y \in U : g[U] # F[y] + g[U \ {y}]
           Wrong == {n \in Nat : \E U \in SUBSET S : Cardinality(U) = n /\ Fails(U)}
<1>1. \A U \in SUBSET S :
         /\ Cardinality(U) \in Nat
         /\ \A y \in U : U \ {y} \in SUBSET S /\ Cardinality(U \ {y}) = Cardinality(U) - 1
         /\ U # {} => SomeOf(U) \in U
    BY FiniteSubsets
<1>2. ASSUME NEW U \in SUBSET S, U # {}
      PROVE  g[U] = F[SomeOf(U)] + g[U \ {SomeOf(U)}]
    BY <1>2 DEF Adds
<1>3. ASSUME Wrong # {} PROVE FALSE
    <2>1. PICK n \in Wrong : \A m \in Wrong : n <= m
        <3>1. Wrong \in SUBSET Nat
            OBVIOUS
        <3> HIDE DEF Wrong
        <3> QED
            BY <1>3, <3>1, LeastOf
    <2>2. PICK U \in SUBSET S : n \in Nat /\ Cardinality(U) = n /\ Fails(U)
        BY <2>1
    <2>3. PICK y \in U : g[U] # F[y] + g[U \ {y}]
        BY <2>2
    <2> DEFINE z == SomeOf(U)
    <2>4. z \in U /\ g[U] = F[z] + g[U \ {z}]
        BY <1>1, <1>2, <2>3
    <2> HIDE DEF z
    <2>5. y # z
        BY <2>3, <2>4
    <2>6. /\ U \ {z} \in SUBSET S /\ Cardinality(U \ {z}) = n - 1
          /\ U \ {y} \in SUBSET S /\ Cardinality(U \ {y}) = n - 1
          /\ n - 1 \in Nat
        <3>1. Cardinality(U \ {z}) = n - 1 /\ Cardinality(U \ {z}) \in Nat
            BY <1>1, <2>2, <2>4
        <3> QED
            BY <1>1, <2>2, <2>3, <2>4, <3>1
    <2>7. n - 1 \notin Wrong
        BY <2>1, <2>2, <2>6
    <2>8. ~Fails(U \ {z}) /\ ~Fails(U \ {y})
        BY <2>6, <2>7
    <2>9. /\ g[U \ {z}] = F[y] + g[(U \ {z}) \ {y}]
          /\ g[U \ {y}] = F[z] + g[(U \ {y}) \ {z}]
        BY <2>3, <2>4, <2>5, <2>8
    <2>10. (U \ {z}) \ {y} = (U \ {y}) \ {z}
        OBVIOUS
    <2>11. /\ F[y] \in Int /\ F[z] \in Int
           /\ g[(U \ {y}) \ {z}] \in Int
        <3>1. (U \ {y}) \ {z} \in SUBSET S /\ y \in S /\ z \in S
            BY <2>3, <2>4
        <3>2. \A V \in SUBSET S : g[V] \in Int
            OBVIOUS
        <3>3. \A v \in S : F[v] \in Int
            OBVIOUS
        <3> QED
            BY <3>1, <3>2, <3>3
    <2> DEFINE a == F[y]
               b == F[z]
               rest == g[(U \ {y}) \ {z}]
    <2>12. g[U] = b + (a + rest) /\ g[U \ {y}] = b + rest /\ g[U] # a + g[U \ {y}]
        BY <2>3, <2>4, <2>9, <2>10
    <2>13. a \in Int /\ b \in Int /\ rest \in Int
        BY <2>11
    <2> HIDE DEF a, b, rest
    <2>14. b + (a + rest) = a + (b + rest)
        BY <2>13
    <2> QED
        BY <2>12, <2>14
<1>4. Cardinality(T) \in Nat /\ Cardinality(T) \notin Wrong
    BY <1>1, <1>3
<1> QED
    BY <1>4

\* Total of a function is the sum over its domain.
LEMMA TotalIsSum ==
    ASSUME NEW S, IsFiniteSet(S), NEW F \in [S -> Int], NEW g, Adds(g, F, S)
    PROVE  Total(F) = g[S]
<1> DEFINE it == CHOOSE iter : iter = [T \in SUBSET S |->
                     IF T = {} THEN 0 ELSE F[CHOOSE x \in T : TRUE] + iter[T \ {CHOOSE x \in T : TRUE}]]
<1>1. Total(F) = it[S]
    BY DEF Total, MapThenSumSet, MapThenFoldSet
<1>2. g = [T \in SUBSET S |->
              IF T = {} THEN 0 ELSE F[CHOOSE x \in T : TRUE] + g[T \ {CHOOSE x \in T : TRUE}]]
    BY DEF Adds, SomeOf
<1>3. it = [T \in SUBSET S |->
               IF T = {} THEN 0 ELSE F[CHOOSE x \in T : TRUE] + it[T \ {CHOOSE x \in T : TRUE}]]
    BY <1>2
<1> HIDE DEF it
<1>4. Adds(it, F, S)
    BY <1>3 DEF Adds, SomeOf
<1>5. it[S] = g[S]
    BY <1>4, SumsAgree
<1> QED
    BY <1>1, <1>5

\* A total is that of the rest and any one value, zero of no value.
LEMMA TotalAdds ==
    ASSUME NEW S, IsFiniteSet(S), NEW F \in [S -> Int]
    PROVE  /\ Total(F) \in Int
           /\ S = {} => Total(F) = 0
           /\ \A x \in S : /\ Total([y \in S \ {x} |-> F[y]]) \in Int
                           /\ Total(F) = F[x] + Total([y \in S \ {x} |-> F[y]])
<1>1. PICK g \in [SUBSET S -> Int] : Adds(g, F, S)
    BY SumsExist
<1>2. Total(F) = g[S]
    BY <1>1, TotalIsSum
<1>3. S = {} => g[S] = 0
    BY <1>1 DEF Adds
<1>4. ASSUME NEW x \in S
      PROVE  /\ Total([y \in S \ {x} |-> F[y]]) \in Int
             /\ Total(F) = F[x] + Total([y \in S \ {x} |-> F[y]])
    <2> DEFINE R == S \ {x}
               G == [y \in R |-> F[y]]
    <2>1. G \in [R -> Int] /\ R \in SUBSET S /\ \A y \in R : F[y] = G[y]
        OBVIOUS
    <2>2. IsFiniteSet(R)
        BY FS_Subset
    <2> HIDE DEF G, R
    <2>3. PICK h \in [SUBSET R -> Int] : Adds(h, G, R)
        BY <2>1, <2>2, SumsExist
    <2>4. Total(G) = h[R]
        BY <2>1, <2>2, <2>3, TotalIsSum
    <2>5. g[R] = h[R]
        <3>1. R \in SUBSET S /\ R \subseteq R /\ \A y \in R : F[y] = G[y]
            BY <2>1
        <3>2. Adds(g, F, S) /\ Adds(h, G, R)
            BY <1>1, <2>3
        <3> QED
            BY <3>1, <3>2, SumsAgree
    <2>6. g[S] = F[x] + g[R]
        <3>1. S \in SUBSET S /\ SumsOf(g, F, S)
            BY <1>1 DEF SumsOf
        <3>2. g[S] = F[x] + g[S \ {x}]
            BY <3>1, SumsAddAny
        <3> QED
            BY <3>2 DEF R
    <2>7. h[R] \in Int
        BY <2>3
    <2> QED
        BY <1>2, <2>4, <2>5, <2>6, <2>7 DEF G, R
<1> QED
    BY <1>1, <1>2, <1>3, <1>4

\* A function on some of its domain.
Part(F, T) == [x \in T |-> F[x]]

LEMMA PartsAdd ==
    ASSUME NEW S, IsFiniteSet(S), NEW F \in [S -> Int]
    PROVE  /\ Part(F, S) = F
           /\ \A T \in SUBSET S :
                 /\ IsFiniteSet(T) /\ Total(Part(F, T)) \in Int
                 /\ T = {} => Total(Part(F, T)) = 0
                 /\ \A x \in T : Total(Part(F, T)) = F[x] + Total(Part(F, T \ {x}))
<1>1. Part(F, S) = F
    BY DEF Part
<1>2. ASSUME NEW T \in SUBSET S
      PROVE  /\ IsFiniteSet(T) /\ Total(Part(F, T)) \in Int
             /\ T = {} => Total(Part(F, T)) = 0
             /\ \A x \in T : Total(Part(F, T)) = F[x] + Total(Part(F, T \ {x}))
    <2> DEFINE G == Part(F, T)
    <2>1. IsFiniteSet(T)
        BY FS_Subset
    <2>2. G \in [T -> Int] /\ \A x \in T : G[x] = F[x]
        BY DEF Part
    <2>3. \A x \in T : [y \in T \ {x} |-> G[y]] = Part(F, T \ {x})
        BY DEF Part
    <2> HIDE DEF G
    <2>4. /\ Total(G) \in Int
          /\ T = {} => Total(G) = 0
          /\ \A x \in T : /\ Total([y \in T \ {x} |-> G[y]]) \in Int
                          /\ Total(G) = G[x] + Total([y \in T \ {x} |-> G[y]])
        BY <2>1, <2>2, TotalAdds
    <2>5. \A x \in T : Total(G) = F[x] + Total(Part(F, T \ {x}))
        BY <2>2, <2>3, <2>4
    <2> QED
        BY <2>1, <2>4, <2>5 DEF G
<1> QED
    BY <1>1, <1>2

\* The first and the last of some times.
LEMMA EndsOf ==
    ASSUME NEW n \in Nat, NEW S \in SUBSET (0 .. n), S # {}
    PROVE  /\ Max(S) \in S /\ \A t \in S : t <= Max(S)
           /\ Min(S) \in S /\ \A t \in S : Min(S) <= t
<1>1. \A t \in S : t \in Int
    OBVIOUS
<1>2. PICK d \in S : \A e \in S : d >= e
    BY GreatestOf
<1>3. PICK c \in S : \A e \in S : c <= e
    <2>1. S \in SUBSET Nat
        OBVIOUS
    <2> QED
        BY <2>1, LeastOf
<1>4. Max(S) \in S /\ \A t \in S : Max(S) >= t
    BY <1>2 DEF Max
<1>5. Min(S) \in S /\ \A t \in S : Min(S) <= t
    BY <1>3 DEF Min
<1> QED
    BY <1>1, <1>4, <1>5

-------------------------------------------------------------------------------
\* The missing bars of gaps, gap by gap.
Missed(gaps) == [g \in gaps |-> g.missingCount]

LEMMA MissingIsTotal ==
    ASSUME NEW gaps, IsFiniteSet(gaps), \A g \in gaps : g.missingCount \in Int
    PROVE  Missing(gaps) = Total(Missed(gaps))
<1>1. Missed(gaps) \in [gaps -> Int]
    BY DEF Missed
<1>2. PICK g \in [SUBSET gaps -> Int] : Adds(g, Missed(gaps), gaps)
    BY <1>1, SumsExist
<1> DEFINE it == CHOOSE iter : iter = [T \in SUBSET gaps |->
                     IF T = {} THEN 0
                     ELSE (CHOOSE x \in T : TRUE).missingCount + iter[T \ {CHOOSE x \in T : TRUE}]]
<1>3. Missing(gaps) = it[gaps]
    BY DEF Missing, MapThenSumSet, MapThenFoldSet
<1>4. \A T \in SUBSET gaps : T # {} => Missed(gaps)[SomeOf(T)] = (CHOOSE x \in T : TRUE).missingCount
    BY DEF Missed, SomeOf
<1>5. g = [T \in SUBSET gaps |->
              IF T = {} THEN 0
              ELSE (CHOOSE x \in T : TRUE).missingCount + g[T \ {CHOOSE x \in T : TRUE}]]
    BY <1>2, <1>4 DEF Adds, SomeOf
<1>6. it = [T \in SUBSET gaps |->
               IF T = {} THEN 0
               ELSE (CHOOSE x \in T : TRUE).missingCount + it[T \ {CHOOSE x \in T : TRUE}]]
    BY <1>5
<1> HIDE DEF it
<1>7. Adds(it, Missed(gaps), gaps)
    BY <1>4, <1>6 DEF Adds, SomeOf
<1>8. Total(Missed(gaps)) = it[gaps]
    BY <1>1, <1>7, TotalIsSum
<1> QED
    BY <1>3, <1>8

\* One gap more.
LEMMA MissingAdds ==
    ASSUME NEW gaps, IsFiniteSet(gaps), \A g \in gaps : g.missingCount \in Int,
           NEW new, new.missingCount \in Int, new \notin gaps
    PROVE  /\ Missing(gaps) \in Int
           /\ Missing(gaps \cup {new}) = Missing(gaps) + new.missingCount
<1> DEFINE more == gaps \cup {new}
<1>1. IsFiniteSet(more) /\ \A g \in more : g.missingCount \in Int
    BY FS_AddElement
<1>2. Missed(more) \in [more -> Int] /\ Missed(more)[new] = new.missingCount
    BY <1>1 DEF Missed
<1>3. gaps \in SUBSET more /\ more \in SUBSET more /\ new \in more /\ more \ {new} = gaps
    OBVIOUS
<1>4. Part(Missed(more), gaps) = Missed(gaps)
    BY <1>3 DEF Part, Missed
<1> HIDE DEF more
<1>5. /\ Part(Missed(more), more) = Missed(more)
      /\ Total(Part(Missed(more), gaps)) \in Int
      /\ Total(Part(Missed(more), more)) =
             Missed(more)[new] + Total(Part(Missed(more), more \ {new}))
    BY <1>1, <1>2, <1>3, PartsAdd
<1>6. Missing(gaps) = Total(Missed(gaps)) /\ Missing(more) = Total(Missed(more))
    BY <1>1, MissingIsTotal
<1>7. /\ Missing(gaps) \in Int
      /\ Missing(more) = new.missingCount + Missing(gaps)
    BY <1>2, <1>3, <1>4, <1>5, <1>6
<1> QED
    BY <1>7 DEF more

LEMMA NothingMissing == Missing({}) = 0
<1>1. IsFiniteSet({})
    BY FS_EmptySet
<1>2. Missed({}) \in [{} -> Int]
    BY DEF Missed
<1>3. Total(Missed({})) = 0
    BY <1>1, <1>2, TotalAdds
<1> QED
    BY <1>1, <1>3, MissingIsTotal

\* The gap before the last of some bars, if there is one, and the gaps before.
LEMMA LastNeighbours ==
    ASSUME NEW S \in SUBSET Int, NEW m \in S, NEW p \in S, p < m,
           \A t \in S : t <= m, \A t \in S : t # m => t <= p
    PROVE  Neighbours(S) = Neighbours(S \ {m}) \cup {<<p, m>>}
<1>1. <<p, m>> \in Neighbours(S)
    BY DEF Neighbours
<1>2. ASSUME NEW q \in Neighbours(S \ {m})
      PROVE  q \in Neighbours(S)
    <2>1. /\ q \in (S \ {m}) \X (S \ {m}) /\ q[1] < q[2]
          /\ ~ \E t \in S \ {m} : q[1] < t /\ t < q[2]
        BY DEF Neighbours
    <2>2. q[2] \in S /\ q[2] \in Int /\ m \in Int /\ q[2] <= m
        BY <2>1
    <2>3. ~ (m < q[2])
        BY <2>2
    <2> QED
        BY <2>1, <2>3 DEF Neighbours
<1>3. ASSUME NEW q \in Neighbours(S)
      PROVE  q \in Neighbours(S \ {m}) \cup {<<p, m>>}
    <2>1. /\ q \in S \X S /\ q[1] \in S /\ q[2] \in S /\ q[1] < q[2]
          /\ ~ \E t \in S : q[1] < t /\ t < q[2]
          /\ q = <<q[1], q[2]>>
        BY DEF Neighbours
    <2> q[1] \in Int /\ q[2] \in Int /\ p \in Int /\ m \in Int
        BY <2>1
    <2>2. CASE q[2] = m
        <3>1. q[1] # m /\ q[1] \in Int
            BY <2>1, <2>2
        <3>2. q[1] <= p /\ ~(q[1] < p /\ p < q[2])
            BY <2>1, <3>1
        <3>3. q[1] = p
            BY <2>1, <2>2, <3>2
        <3> QED
            BY <2>1, <2>2, <3>3
    <2>3. CASE q[2] # m
        <3>1. q[1] # m
            <4>1. q[2] <= m
                BY <2>1
            <4> QED
                BY <2>1, <4>1
        <3>2. q \in (S \ {m}) \X (S \ {m})
            BY <2>1, <2>3, <3>1
        <3> QED
            BY <2>1, <3>2 DEF Neighbours
    <2> QED
        BY <2>2, <2>3
<1> QED
    BY <1>1, <1>2, <1>3

\* Whether two bars have a gap between them.
Apart(q, i) == q[2] - q[1] > i /\ (q[2] - q[1]) \div i - 1 > 0

LEMMA LastGap ==
    ASSUME NEW S \in SUBSET Int, NEW m \in S, NEW p \in S, p < m, NEW i \in Nat \ {0},
           \A t \in S : t <= m, \A t \in S : t # m => t <= p
    PROVE  LET new == GapBetween(p, m, i)
           IN  /\ new \notin FindGaps(S \ {m}, i)
               /\ Apart(<<p, m>>, i) => FindGaps(S, i) = FindGaps(S \ {m}, i) \cup {new}
               /\ ~Apart(<<p, m>>, i) => FindGaps(S, i) = FindGaps(S \ {m}, i)
<1> DEFINE new == GapBetween(p, m, i)
           U == S \ {m}
           Gap(q) == GapBetween(q[1], q[2], i)
<1>1. \A T \in SUBSET Int : FindGaps(T, i) = {Gap(q) : q \in {r \in Neighbours(T) : Apart(r, i)}}
    BY DEF FindGaps, Apart
<1>2. FindGaps(S, i) = {Gap(q) : q \in {r \in Neighbours(S) : Apart(r, i)}}
    BY <1>1
<1>3. FindGaps(U, i) = {Gap(q) : q \in {r \in Neighbours(U) : Apart(r, i)}}
    BY <1>1
<1>4. Neighbours(S) = Neighbours(U) \cup {<<p, m>>}
    BY LastNeighbours
<1>5. new \notin FindGaps(U, i)
    <2> SUFFICES ASSUME NEW q \in Neighbours(U), new = Gap(q) PROVE FALSE
        BY <1>3
    <2>1. q[1] \in U /\ q[2] \in U /\ q[1] < q[2]
        BY DEF Neighbours
    <2>2. new.startTime = p + i /\ Gap(q).startTime = q[1] + i
        BY DEF GapBetween
    <2>3. q[2] <= p /\ q[1] \in Int /\ q[2] \in Int /\ p \in Int
        BY <2>1
    <2> QED
        BY <2>1, <2>2, <2>3
<1>6. Gap(<<p, m>>) = new
    OBVIOUS
<1> HIDE DEF new, Gap, U
<1>7. Apart(<<p, m>>, i) => FindGaps(S, i) = FindGaps(U, i) \cup {new}
    BY <1>2, <1>3, <1>4, <1>6
<1>8. ~Apart(<<p, m>>, i) => FindGaps(S, i) = FindGaps(U, i)
    BY <1>2, <1>3, <1>4, <1>6
<1> QED
    BY <1>5, <1>7, <1>8 DEF new, U

\* The bars there are and the bars missing are those from the first to the last.
AddUp(S, i) ==
    /\ IsFiniteSet(FindGaps(S, i)) /\ \A g \in FindGaps(S, i) : g.missingCount \in Int
    /\ Missing(FindGaps(S, i)) \in Int
    /\ Cardinality(S) + Missing(FindGaps(S, i)) = (Max(S) - Min(S)) \div i + 1

LEMMA GapsAddUp ==
    ASSUME NEW n \in Nat, NEW i \in Nat \ {0},
           NEW bars \in SUBSET (0 .. n), bars # {}, \A t \in bars : t % i = 0
    PROVE  AddUp(bars, i)
<1> DEFINE Of(S) == S \in SUBSET (0 .. n) /\ S # {} /\ \A t \in S : t % i = 0
           Wrong == {c \in Nat : \E S \in SUBSET (0 .. n) : Of(S) /\ Cardinality(S) = c /\ ~AddUp(S, i)}
<1>1. ASSUME NEW S \in SUBSET (0 .. n), Of(S)
      PROVE  /\ IsFiniteSet(S) /\ Cardinality(S) \in Nat /\ S \in SUBSET Int
             /\ Max(S) \in S /\ \A t \in S : t <= Max(S)
             /\ Min(S) \in S /\ \A t \in S : Min(S) <= t
    <2>1. IsFiniteSet(S) /\ Cardinality(S) \in Nat
        BY FinitePart
    <2>2. S # {}
        BY <1>1
    <2> HIDE DEF Of
    <2>3. /\ Max(S) \in S /\ \A t \in S : t <= Max(S)
          /\ Min(S) \in S /\ \A t \in S : Min(S) <= t
        BY <2>2, EndsOf
    <2>4. S \in SUBSET Int
        OBVIOUS
    <2> QED
        BY <2>1, <2>3, <2>4
<1>2. \A a, b \in Int : a <= b <=> a * i <= b * i
    BY TimesMonotone
<1>3. ASSUME Wrong # {} PROVE FALSE
    <2>1. PICK c \in Wrong : \A d \in Wrong : c <= d
        <3>1. Wrong \in SUBSET Nat
            OBVIOUS
        <3> HIDE DEF Wrong
        <3> QED
            BY <1>3, <3>1, LeastOf
    <2>2. PICK S \in SUBSET (0 .. n) : c \in Nat /\ Of(S) /\ Cardinality(S) = c /\ ~AddUp(S, i)
        BY <2>1
    <2> DEFINE m == Max(S)
               U == S \ {m}
    <2>3. /\ IsFiniteSet(S) /\ S \in SUBSET Int /\ m \in S /\ \A t \in S : t <= m
          /\ Min(S) \in S /\ \A t \in S : Min(S) <= t
          /\ \A t \in S : t \in Int
        BY <1>1, <2>2
    <2>4. /\ U \in SUBSET (0 .. n) /\ IsFiniteSet(U) /\ Cardinality(U) = c - 1
          /\ \A t \in U : t % i = 0
        BY <2>2, <2>3, FS_RemoveElement
    <2> HIDE DEF m
    <2>5. CASE U = {}
        <3>1. S = {m}
            BY <2>3, <2>5
        <3>2. Cardinality(S) = 1 /\ Max(S) - Min(S) = 0
            <4>1. Min(S) = m /\ m \in Int /\ Max(S) = m
                BY <2>3, <3>1 DEF m
            <4>2. Cardinality(S) = 1
                BY <3>1, FS_Singleton
            <4> QED
                BY <4>1, <4>2
        <3>3. FindGaps(S, i) = {}
            <4>1. Neighbours(S) = {}
                BY <2>3, <3>1 DEF Neighbours
            <4> QED
                BY <4>1 DEF FindGaps
        <3>4. 0 \div i = 0
            OBVIOUS
        <3>5. IsFiniteSet(FindGaps(S, i)) /\ Missing(FindGaps(S, i)) = 0
            BY <3>3, NothingMissing, FS_EmptySet
        <3>6. AddUp(S, i)
            BY <3>2, <3>3, <3>4, <3>5 DEF AddUp
        <3> QED
            BY <2>2, <3>6
    <2>6. CASE U # {}
        <3> DEFINE p == Max(U)
                   new == GapBetween(p, m, i)
        <3>1. Of(U)
            BY <2>4, <2>6
        <3> HIDE DEF U, p, new
        <3>2. /\ p \in U /\ \A t \in U : t <= p
              /\ Min(U) \in U /\ \A t \in U : Min(U) <= t
            BY <1>1, <2>4, <3>1 DEF p
        <3>3. p \in S /\ p < m /\ \A t \in S : t # m => t <= p
            BY <2>3, <3>2 DEF U
        <3>4. Min(S) = Min(U)
            <4>1. Min(U) \in S /\ Min(U) # m
                BY <3>2 DEF U
            <4> Min(U) \in Int /\ Min(S) \in Int /\ m \in Int
                BY <2>3, <4>1
            <4>2. Min(S) # m
                <5>1. Min(U) <= m /\ Min(S) <= Min(U)
                    BY <2>3, <4>1
                <5> QED
                    BY <4>1, <5>1
            <4>3. Min(S) \in U
                BY <2>3, <4>2 DEF U
            <4>4. Min(S) <= Min(U) /\ Min(U) <= Min(S)
                BY <2>3, <3>2, <4>1, <4>3
            <4> QED
                BY <4>4
        <3>5. c - 1 \in Nat /\ AddUp(U, i)
            <4>1. c - 1 \in Nat
                BY <2>4, FS_CardinalityType
            <4>2. ~ (c <= c - 1)
                BY <2>2
            <4>3. c - 1 \notin Wrong
                <5> HIDE DEF Wrong
                <5> QED
                    BY <2>1, <4>1, <4>2
            <4> QED
                BY <2>4, <3>1, <4>1, <4>3
        <3>6. /\ new \notin FindGaps(U, i)
              /\ Apart(<<p, m>>, i) => FindGaps(S, i) = FindGaps(U, i) \cup {new}
              /\ ~Apart(<<p, m>>, i) => FindGaps(S, i) = FindGaps(U, i)
            <4>1. S \in SUBSET Int /\ m \in S /\ p \in S /\ p < m
                  /\ (\A t \in S : t <= m) /\ \A t \in S : t # m => t <= p
                BY <2>3, <3>3
            <4>2. /\ GapBetween(p, m, i) \notin FindGaps(S \ {m}, i)
                  /\ Apart(<<p, m>>, i) =>
                        FindGaps(S, i) = FindGaps(S \ {m}, i) \cup {GapBetween(p, m, i)}
                  /\ ~Apart(<<p, m>>, i) => FindGaps(S, i) = FindGaps(S \ {m}, i)
                BY <4>1, LastGap
            <4> QED
                BY <4>2 DEF U, new
        <3>7. PICK x \in Int : m = x * i
            BY <2>2, <2>3, BarStarts
        <3>8. PICK y \in Int : p = y * i
            BY <2>2, <2>3, <3>3, BarStarts
        <3>9. PICK z \in Int : Min(U) = z * i
            BY <2>2, <2>3, <3>4, BarStarts
        <3>10. y < x
            BY <1>2, <3>3, <3>7, <3>8, <2>3
        <3>11. /\ (m - p) \div i = x - y
               /\ (m - Min(S)) \div i = x - z
               /\ (p - Min(U)) \div i = y - z
            BY <3>4, <3>7, <3>8, <3>9, DivOfMultiple
        <3>12. new.missingCount = x - y - 1
            BY <3>11 DEF GapBetween, new
        <3>13. Apart(<<p, m>>, i) <=> x - y - 1 > 0
            BY <3>7, <3>8, GapByBars DEF Apart
        <3>14. /\ IsFiniteSet(FindGaps(U, i)) /\ \A g \in FindGaps(U, i) : g.missingCount \in Int
               /\ Missing(FindGaps(U, i)) \in Int
               /\ (c - 1) + Missing(FindGaps(U, i)) = y - z + 1
            BY <2>4, <3>5, <3>11 DEF AddUp, p
        <3>15. CASE x - y - 1 > 0
            <4>1. FindGaps(S, i) = FindGaps(U, i) \cup {new}
                BY <3>6, <3>13, <3>15
            <4>2. new.missingCount \in Int
                BY <3>12
            <4>3. Missing(FindGaps(S, i)) = Missing(FindGaps(U, i)) + new.missingCount
                BY <3>6, <3>14, <4>1, <4>2, MissingAdds
            <4>4. IsFiniteSet(FindGaps(S, i)) /\ \A g \in FindGaps(S, i) : g.missingCount \in Int
                BY <3>14, <4>1, <4>2, FS_AddElement
            <4>5. c + Missing(FindGaps(S, i)) = x - z + 1 /\ Missing(FindGaps(S, i)) \in Int
                BY <2>2, <3>12, <3>14, <4>3
            <4>6. AddUp(S, i)
                BY <2>2, <3>11, <4>4, <4>5 DEF AddUp, m
            <4> QED
                BY <2>2, <4>6
        <3>16. CASE ~ (x - y - 1 > 0)
            <4>1. FindGaps(S, i) = FindGaps(U, i) /\ x = y + 1
                BY <3>6, <3>10, <3>13, <3>16
            <4>2. c + Missing(FindGaps(S, i)) = x - z + 1
                BY <2>2, <3>14, <4>1
            <4>3. AddUp(S, i)
                BY <2>2, <3>11, <3>14, <4>1, <4>2 DEF AddUp, m
            <4> QED
                BY <2>2, <4>3
        <3> QED
            BY <3>15, <3>16
    <2> QED
        BY <2>5, <2>6
<1>4. Cardinality(bars) \in Nat /\ Cardinality(bars) \notin Wrong
    BY <1>3, FinitePart
<1> QED
    BY <1>4

\* Totals add.
LEMMA TotalsAdd ==
    ASSUME NEW S, IsFiniteSet(S), NEW F \in [S -> Int], NEW G \in [S -> Int], NEW H \in [S -> Int],
           \A x \in S : H[x] = F[x] + G[x]
    PROVE  Total(F) + Total(G) = Total(H)
<1> DEFINE Fails(T) == Total(Part(F, T)) + Total(Part(G, T)) # Total(Part(H, T))
           Wrong == {c \in Nat : \E T \in SUBSET S : Cardinality(T) = c /\ Fails(T)}
<1>1. \A T \in SUBSET S :
         /\ Cardinality(T) \in Nat
         /\ T = {} <=> Cardinality(T) = 0
         /\ \A x \in T : T \ {x} \in SUBSET S /\ Cardinality(T \ {x}) = Cardinality(T) - 1
    BY FiniteSubsets
<1>2. ASSUME NEW E \in [S -> Int]
      PROVE  /\ Part(E, S) = E
             /\ \A T \in SUBSET S :
                   /\ Total(Part(E, T)) \in Int
                   /\ T = {} => Total(Part(E, T)) = 0
                   /\ \A x \in T : Total(Part(E, T)) = E[x] + Total(Part(E, T \ {x}))
    BY PartsAdd
<1>3. ASSUME Wrong # {} PROVE FALSE
    <2>1. PICK c \in Wrong : \A d \in Wrong : c <= d
        <3>1. Wrong \in SUBSET Nat
            OBVIOUS
        <3> HIDE DEF Wrong
        <3> QED
            BY <1>3, <3>1, LeastOf
    <2>2. PICK T \in SUBSET S : c \in Nat /\ Cardinality(T) = c /\ Fails(T)
        BY <2>1
    <2>3. T # {}
        BY <1>2, <2>2
    <2>4. PICK x \in T : TRUE
        BY <2>3
    <2> DEFINE U == T \ {x}
    <2>5. U \in SUBSET S /\ Cardinality(U) = c - 1 /\ Cardinality(U) \in Nat
        BY <1>1, <2>2
    <2>6. ~ (c <= c - 1)
        BY <2>2
    <2>7. ~Fails(U)
        BY <2>1, <2>5, <2>6
    <2>8. /\ Total(Part(F, T)) = F[x] + Total(Part(F, U))
          /\ Total(Part(G, T)) = G[x] + Total(Part(G, U))
          /\ Total(Part(H, T)) = H[x] + Total(Part(H, U))
        BY <1>2
    <2>9. /\ F[x] \in Int /\ G[x] \in Int /\ H[x] = F[x] + G[x]
          /\ Total(Part(F, U)) \in Int /\ Total(Part(G, U)) \in Int
        BY <1>2, <2>5
    <2> HIDE DEF U, Wrong
    <2> QED
        BY <2>2, <2>7, <2>8, <2>9
<1>4. ~Fails(S)
    <2>1. S \in SUBSET S
        OBVIOUS
    <2> QED
        BY <1>1, <1>3, <2>1
<1> QED
    BY <1>2, <1>4

\* The number of bars of each symbol.
Held(bars, symbols) == [s \in symbols |-> Cardinality(bars[s])]

LEMMA BarsHeldIsTotal ==
    ASSUME NEW symbols, IsFiniteSet(symbols), NEW bars, \A s \in symbols : Cardinality(bars[s]) \in Int
    PROVE  BarsHeld(bars, symbols) = Total(Held(bars, symbols))
<1> DEFINE F == Held(bars, symbols)
<1>1. F \in [symbols -> Int]
    BY DEF Held
<1>2. PICK g \in [SUBSET symbols -> Int] : Adds(g, F, symbols)
    BY <1>1, SumsExist
<1> DEFINE it == CHOOSE iter : iter = [T \in SUBSET symbols |->
                     IF T = {} THEN 0
                     ELSE Cardinality(bars[CHOOSE x \in T : TRUE]) + iter[T \ {CHOOSE x \in T : TRUE}]]
<1>3. BarsHeld(bars, symbols) = it[symbols]
    BY DEF BarsHeld, MapThenSumSet, MapThenFoldSet
<1>4. \A T \in SUBSET symbols : T # {} => F[SomeOf(T)] = Cardinality(bars[CHOOSE x \in T : TRUE])
    BY DEF Held, SomeOf
<1>5. g = [T \in SUBSET symbols |->
              IF T = {} THEN 0
              ELSE Cardinality(bars[CHOOSE x \in T : TRUE]) + g[T \ {CHOOSE x \in T : TRUE}]]
    BY <1>2, <1>4 DEF Adds, SomeOf
<1>6. it = [T \in SUBSET symbols |->
               IF T = {} THEN 0
               ELSE Cardinality(bars[CHOOSE x \in T : TRUE]) + it[T \ {CHOOSE x \in T : TRUE}]]
    BY <1>5
<1> HIDE DEF it, F
<1>7. Adds(it, F, symbols)
    BY <1>4, <1>6 DEF Adds, SomeOf
<1>8. Total(F) = it[symbols]
    BY <1>1, <1>7, TotalIsSum
<1> QED
    BY <1>3, <1>8 DEF F

\* The rows of a source, symbol by symbol.
WsRows(coverage)   == [s \in DOMAIN coverage |-> coverage[s].wsCount]
RestRows(coverage) == [s \in DOMAIN coverage |-> coverage[s].restCount]

WsTotal(coverage)   == MapThenSumSet(LAMBDA s : coverage[s].wsCount, DOMAIN coverage)
RestTotal(coverage) == MapThenSumSet(LAMBDA s : coverage[s].restCount, DOMAIN coverage)

LEMMA WsTotalIsTotal ==
    ASSUME NEW coverage, IsFiniteSet(DOMAIN coverage), \A s \in DOMAIN coverage : coverage[s].wsCount \in Int
    PROVE  WsTotal(coverage) = Total(WsRows(coverage))
<1> DEFINE F == WsRows(coverage)
           S == DOMAIN coverage
<1>1. F \in [S -> Int]
    BY DEF WsRows
<1>2. PICK g \in [SUBSET S -> Int] : Adds(g, F, S)
    BY <1>1, SumsExist
<1> DEFINE it == CHOOSE iter : iter = [T \in SUBSET S |->
                     IF T = {} THEN 0
                     ELSE coverage[CHOOSE x \in T : TRUE].wsCount + iter[T \ {CHOOSE x \in T : TRUE}]]
<1>3. WsTotal(coverage) = it[S]
    BY DEF WsTotal, MapThenSumSet, MapThenFoldSet
<1>4. \A T \in SUBSET S : T # {} => F[SomeOf(T)] = coverage[CHOOSE x \in T : TRUE].wsCount
    BY DEF WsRows, SomeOf
<1>5. g = [T \in SUBSET S |->
              IF T = {} THEN 0
              ELSE coverage[CHOOSE x \in T : TRUE].wsCount + g[T \ {CHOOSE x \in T : TRUE}]]
    BY <1>2, <1>4 DEF Adds, SomeOf
<1>6. it = [T \in SUBSET S |->
               IF T = {} THEN 0
               ELSE coverage[CHOOSE x \in T : TRUE].wsCount + it[T \ {CHOOSE x \in T : TRUE}]]
    BY <1>5
<1> HIDE DEF it, F
<1>7. Adds(it, F, S)
    BY <1>4, <1>6 DEF Adds, SomeOf
<1>8. Total(F) = it[S]
    BY <1>1, <1>7, TotalIsSum
<1> QED
    BY <1>3, <1>8 DEF F

LEMMA RestTotalIsTotal ==
    ASSUME NEW coverage, IsFiniteSet(DOMAIN coverage), \A s \in DOMAIN coverage : coverage[s].restCount \in Int
    PROVE  RestTotal(coverage) = Total(RestRows(coverage))
<1> DEFINE F == RestRows(coverage)
           S == DOMAIN coverage
<1>1. F \in [S -> Int]
    BY DEF RestRows
<1>2. PICK g \in [SUBSET S -> Int] : Adds(g, F, S)
    BY <1>1, SumsExist
<1> DEFINE it == CHOOSE iter : iter = [T \in SUBSET S |->
                     IF T = {} THEN 0
                     ELSE coverage[CHOOSE x \in T : TRUE].restCount + iter[T \ {CHOOSE x \in T : TRUE}]]
<1>3. RestTotal(coverage) = it[S]
    BY DEF RestTotal, MapThenSumSet, MapThenFoldSet
<1>4. \A T \in SUBSET S : T # {} => F[SomeOf(T)] = coverage[CHOOSE x \in T : TRUE].restCount
    BY DEF RestRows, SomeOf
<1>5. g = [T \in SUBSET S |->
              IF T = {} THEN 0
              ELSE coverage[CHOOSE x \in T : TRUE].restCount + g[T \ {CHOOSE x \in T : TRUE}]]
    BY <1>2, <1>4 DEF Adds, SomeOf
<1>6. it = [T \in SUBSET S |->
               IF T = {} THEN 0
               ELSE coverage[CHOOSE x \in T : TRUE].restCount + it[T \ {CHOOSE x \in T : TRUE}]]
    BY <1>5
<1> HIDE DEF it, F
<1>7. Adds(it, F, S)
    BY <1>4, <1>6 DEF Adds, SomeOf
<1>8. Total(F) = it[S]
    BY <1>1, <1>7, TotalIsSum
<1> QED
    BY <1>3, <1>8 DEF F

LEMMA TilesShow ==
    ASSUME NEW coverage, NEW tile \in OpsTiles(coverage)
    PROVE  /\ tile.wsTotal = WsTotal(coverage) /\ tile.restTotal = RestTotal(coverage)
           /\ \A s \in DOMAIN coverage : \E x \in DOMAIN coverage : tile.pct = coverage[x].pct
BY DEF OpsTiles, WsTotal, RestTotal

\* getCoverage of one symbol: what is missing are the bars of the gaps, and every bar
\* is of one of the two sources.
LEMMA CoverageCounted ==
    ASSUME NEW n \in Nat, NEW i \in Nat \ {0}, NEW s,
           NEW bars \in SUBSET (0 .. n), bars # {}, \A t \in bars : t % i = 0
    PROVE  LET coverage == GetCoverage(Table(s, bars), i)
           IN  /\ coverage.pct[2] - coverage.pct[1] = Missing(FindGaps(bars, i))
               /\ coverage.pct[1] = Cardinality(bars)
               /\ coverage.wsCount \in Int /\ coverage.restCount \in Int
               /\ coverage.wsCount + coverage.restCount = Cardinality(bars)
<1> DEFINE rows == Table(s, bars)
           coverage == GetCoverage(rows, i)
           ws == {t \in bars : rows[t].source = "ws"}
           rest == {t \in bars : rows[t].source = "rest"}
<1>1. DOMAIN rows = bars /\ \A t \in bars : rows[t].source \in {"ws", "rest"}
    BY DEF Table, Row
<1>2. ws \cup rest = bars /\ ws \cap rest = {}
    BY <1>1
<1>3. ws \in SUBSET (0 .. n) /\ rest \in SUBSET (0 .. n)
    OBVIOUS
<1> HIDE DEF rows, ws, rest
<1>4. /\ IsFiniteSet(ws) /\ Cardinality(ws) \in Nat /\ IsFiniteSet(rest) /\ Cardinality(rest) \in Nat
      /\ IsFiniteSet(bars) /\ Cardinality(bars) \in Nat
    BY <1>3, FinitePart
<1>5. Cardinality(ws) + Cardinality(rest) = Cardinality(bars)
    <2>1. Cardinality(ws \cup rest) = Cardinality(ws) + Cardinality(rest) - Cardinality(ws \cap rest)
        BY <1>4, FS_Union
    <2>2. Cardinality(ws \cap rest) = 0
        BY <1>2, FS_EmptySet
    <2>3. Cardinality(ws \cup rest) = Cardinality(bars)
        BY <1>2
    <2> QED
        BY <1>4, <2>1, <2>2, <2>3
<1>6. /\ coverage.pct[1] = Cardinality(bars)
      /\ coverage.pct[2] = (Max(bars) - Min(bars)) \div i + 1
      /\ coverage.wsCount = Cardinality(ws) /\ coverage.restCount = Cardinality(rest)
    BY <1>1 DEF GetCoverage, ws, rest
<1> HIDE DEF coverage
<1>7. /\ Missing(FindGaps(bars, i)) \in Int
      /\ Cardinality(bars) + Missing(FindGaps(bars, i)) = (Max(bars) - Min(bars)) \div i + 1
    BY GapsAddUp DEF AddUp
<1>8. coverage.pct[2] - coverage.pct[1] = Missing(FindGaps(bars, i))
    BY <1>4, <1>6, <1>7
<1> QED
    BY <1>4, <1>5, <1>6, <1>8 DEF coverage, rows

\* The tile: the coverage of some symbol, and the bars of all.
LEMMA TilesCounted ==
    ASSUME NEW n \in Nat, NEW bars \in [Symbols -> SUBSET (0 .. n)],
           NEW tile \in OpsTiles([s \in {x \in Symbols : bars[x] # {}} |-> GetCoverage(Klines(bars)[s], 1)])
    PROVE  LET some == {s \in Symbols : bars[s] # {}}
           IN  /\ tile.wsTotal + tile.restTotal = BarsHeld(bars, some)
               /\ some = {} \/ \E s \in some : tile.pct[2] - tile.pct[1] = Missing(FindGaps(bars[s], 1))
<1> DEFINE some == {s \in Symbols : bars[s] # {}}
           coverage == [s \in some |-> GetCoverage(Klines(bars)[s], 1)]
<1>1. ASSUME NEW s \in some
      PROVE  /\ coverage[s].pct[2] - coverage[s].pct[1] = Missing(FindGaps(bars[s], 1))
             /\ coverage[s].wsCount \in Int /\ coverage[s].restCount \in Int
             /\ coverage[s].wsCount + coverage[s].restCount = Cardinality(bars[s])
             /\ Cardinality(bars[s]) \in Int
    <2> DEFINE one == 1
               B == bars[s]
               c == GetCoverage(Table(s, B), one)
    <2>1. coverage[s] = c
        BY DEF Klines
    <2>2. B \in SUBSET (0 .. n) /\ B # {} /\ one \in Nat \ {0}
        OBVIOUS
    <2>3. \A t \in B : t % one = 0
        BY <2>2
    <2> HIDE DEF coverage, one, B
    <2>4. /\ c.pct[2] - c.pct[1] = Missing(FindGaps(B, one))
          /\ c.pct[1] = Cardinality(B)
          /\ c.wsCount \in Int /\ c.restCount \in Int
          /\ c.wsCount + c.restCount = Cardinality(B)
        BY <2>2, <2>3, CoverageCounted, Zenon
    <2>5. Cardinality(B) \in Int
        BY <2>2, <2>4
    <2> QED
        BY <2>1, <2>4, <2>5 DEF one, B
<1>2. IsFiniteSet(some)
    <2>1. IsFiniteSet(Symbols)
        <3>1. Symbols = ({} \cup {"btc"}) \cup {"eth"}
            BY DEF Symbols
        <3> QED
            BY <3>1, FS_EmptySet, FS_AddElement
    <2> QED
        BY <2>1, FS_Subset
<1>3. DOMAIN coverage = some
    OBVIOUS
<1>4. /\ tile.wsTotal = WsTotal(coverage) /\ tile.restTotal = RestTotal(coverage)
      /\ \A s \in some : \E x \in some : tile.pct = coverage[x].pct
    BY <1>3, TilesShow
<1> HIDE DEF coverage, some
<1>5. WsTotal(coverage) = Total(WsRows(coverage)) /\ RestTotal(coverage) = Total(RestRows(coverage))
    BY <1>1, <1>2, <1>3, WsTotalIsTotal, RestTotalIsTotal
<1>6. BarsHeld(bars, some) = Total(Held(bars, some))
    BY <1>1, <1>2, BarsHeldIsTotal
<1>7. /\ WsRows(coverage) \in [some -> Int] /\ RestRows(coverage) \in [some -> Int]
      /\ Held(bars, some) \in [some -> Int]
      /\ \A s \in some : Held(bars, some)[s] = WsRows(coverage)[s] + RestRows(coverage)[s]
    BY <1>1, <1>3 DEF WsRows, RestRows, Held
<1>8. Total(WsRows(coverage)) + Total(RestRows(coverage)) = Total(Held(bars, some))
    BY <1>2, <1>7, TotalsAdd
<1>9. some = {} \/ \E s \in some : tile.pct[2] - tile.pct[1] = Missing(FindGaps(bars[s], 1))
    BY <1>1, <1>4
<1> QED
    BY <1>4, <1>5, <1>6, <1>8, <1>9 DEF some

\* The coverage the scanner records is full if and only if no bar of its range is
\* missing.
LEMMA ScannedInFull ==
    ASSUME NEW i \in Intervals, NEW stored \in SUBSET BarsOf(0, LastTime, i), stored # {}
    PROVE  LET first == EarliestOf(stored)
               to == AlignToInterval(LastTime, i)
               coverage == CalculateCoverage(Cardinality(stored), first, to, i)
           IN  coverage[1] = coverage[2] <=> BarsOf(first, to, i) \subseteq stored
<1> DEFINE first == EarliestOf(stored)
           to == AlignToInterval(LastTime, i)
           coverage == CalculateCoverage(Cardinality(stored), first, to, i)
<1>1. i \in Nat \ {0} /\ LastTime \in Nat
    BY BoundsAssumption
<1>2. \A t \in stored : t \in Int /\ 0 <= t /\ t <= LastTime /\ t % i = 0 /\ t \in Times
    BY <1>1 DEF BarsOf, Times
<1>3. first \in stored /\ \A u \in stored : first <= u
    <2>1. stored \in SUBSET Times
        BY <1>2
    <2> QED
        BY <2>1, EndsOfStored
<1> DEFINE b == BarAt(LastTime, i)
<1>4. b \in Int /\ to = b * i /\ b * i <= LastTime /\ LastTime < b * i + i
    BY <1>1, BarAtBounds
<1> HIDE DEF first, to, b
<1>5. PICK a \in Int : first = a * i
    BY <1>1, <1>2, <1>3, BarStarts
<1>6. \A k \in Int : k * i \in Int /\ (k * i <= LastTime <=> k <= b) /\ (k + 1) * i = k * i + i
    <2> SUFFICES ASSUME NEW k \in Int
                 PROVE  k * i \in Int /\ (k * i <= LastTime <=> k <= b) /\ (k + 1) * i = k * i + i
        OBVIOUS
    <2>1. k * i \in Int /\ (k + 1) * i = k * i + i /\ (b + 1) * i = b * i + i /\ b * i \in Int
        BY <1>1, <1>4
    <2>2. k <= b <=> k * i <= b * i
        BY <1>1, <1>4, TimesMonotone
    <2>3. b + 1 <= k <=> (b + 1) * i <= k * i
        BY <1>1, <1>4, TimesMonotone
    <2> QED
        BY <1>1, <1>4, <2>1, <2>2, <2>3
<1>7. a <= b
    BY <1>2, <1>3, <1>5, <1>6
<1> DEFINE c == b - a + 1
           range == BarsOf(first, to, i)
<1>8. c \in Nat \ {0} /\ a + c - 1 = b
    BY <1>4, <1>7
<1> HIDE DEF c
<1>9. Cardinality(range) = c
    <2>1. 0 <= a * i /\ (a + c - 1) * i <= LastTime
        BY <1>2, <1>3, <1>4, <1>5, <1>8
    <2>2. Cardinality(BarsOf(a * i, (a + c - 1) * i, i)) = c
        BY <1>1, <1>8, <2>1, BarsCounted
    <2> QED
        BY <1>4, <1>5, <1>8, <2>2
<1>10. stored \subseteq range
    <2> SUFFICES ASSUME NEW t \in stored PROVE t \in range
        OBVIOUS
    <2>1. PICK k \in Int : t = k * i
        BY <1>1, <1>2, BarStarts
    <2>2. t <= to
        <3>1. k <= b
            BY <1>2, <1>6, <2>1
        <3> QED
            BY <1>1, <1>4, <2>1, <3>1, TimesMonotone
    <2> QED
        BY <1>2, <1>3, <2>2 DEF BarsOf
<1>11. IsFiniteSet(range)
    <2>1. range \in SUBSET (0 .. LastTime)
        BY DEF BarsOf, Times
    <2> HIDE DEF range
    <2> QED
        BY <1>1, <2>1, FinitePart
<1>12. AlignToInterval(first, i) = first /\ AlignToInterval(to, i) = to
    BY <1>1, <1>4, <1>5, BarStarts
<1>13. BarCount(first, to, i) = c
    <2>1. (b * i - a * i) \div i = b - a
        BY <1>1, <1>4, DivOfMultiple
    <2> QED
        BY <1>4, <1>5, <2>1 DEF BarCount, c
<1> HIDE DEF range
<1>14. coverage = <<LesserOf(Cardinality(stored), c), c>>
    BY <1>8, <1>12, <1>13 DEF CalculateCoverage
<1>15. /\ Cardinality(stored) \in Nat /\ Cardinality(stored) <= c
       /\ Cardinality(stored) = c => stored = range
    <2>1. /\ Cardinality(stored) <= Cardinality(range)
          /\ Cardinality(range) = Cardinality(stored) => range = stored
          /\ IsFiniteSet(stored)
        BY <1>10, <1>11, FS_Subset
    <2> QED
        BY <1>9, <2>1, FS_CardinalityType
<1>16. coverage[1] = coverage[2] <=> Cardinality(stored) = c
    BY <1>8, <1>14, <1>15 DEF LesserOf
<1>17. Cardinality(stored) = c <=> range \subseteq stored
    BY <1>9, <1>10, <1>15
<1> QED
    BY <1>16, <1>17 DEF first, to, range, coverage

\* What the screen is short of 100 % are the bars in the gaps, the rows are those of
\* the two sources, and the scanner's coverage is full when its range is, for tables
\* of any length.
THEOREM CoverageAndGapsAgree == AnalyticsSpec => []CoverageCountsTheGaps
<1>1. Init => CoverageCountsTheGaps
    BY DEF Init, Idle, CoverageCountsTheGaps
<1>2. ASSUME CoverageCountsTheGaps, [AnalyticsNext]_call
      PROVE  CoverageCountsTheGaps'
    <2>1. CASE CallCoverage
        <3>1. PICK step \in Strides :
                 \E bars \in SUBSET {t \in 0 .. LastBar : t % step = 0} :
                    /\ bars # {}
                    /\ call' = [fn |-> "coverage", bars |-> bars, step |-> step,
                                coverage |-> GetCoverage(Table("btc", bars), step)]
            BY <2>1 DEF CallCoverage
        <3>2. PICK bars \in SUBSET {t \in 0 .. LastBar : t % step = 0} :
                    /\ bars # {}
                    /\ call' = [fn |-> "coverage", bars |-> bars, step |-> step,
                                coverage |-> GetCoverage(Table("btc", bars), step)]
            BY <3>1
        <3> DEFINE coverage == GetCoverage(Table("btc", bars), step)
        <3>3. step \in Nat \ {0} /\ LastBar \in Nat
            BY TablesAssumption
        <3>4. bars \in SUBSET (0 .. LastBar) /\ bars # {} /\ \A t \in bars : t % step = 0
            BY <3>2
        <3>5. /\ coverage.pct[2] - coverage.pct[1] = Missing(FindGaps(bars, step))
              /\ coverage.pct[1] = Cardinality(bars)
              /\ coverage.wsCount \in Int /\ coverage.restCount \in Int
              /\ coverage.wsCount + coverage.restCount = Cardinality(bars)
            BY <3>3, <3>4, CoverageCounted, Zenon
        <3>6. call'.fn = "coverage" /\ call'.bars = bars /\ call'.step = step /\ call'.coverage = coverage
            BY <3>2
        <3> HIDE DEF coverage
        <3> QED
            BY <3>5, <3>6 DEF CoverageCountsTheGaps
    <2>2. CASE CallStats
        <3>1. PICK bars \in [Symbols -> SUBSET (0 .. PairLastBar)] :
                 LET klines == Klines(bars)
                 IN  call' = [fn |-> "stats", bars |-> bars,
                              stats   |-> GetMarketStats(klines, Symbols),
                              rate    |-> TradeRate(klines, Symbols),
                              tiles   |-> OpsTiles([s \in {x \in Symbols : bars[x] # {}} |->
                                                      GetCoverage(klines[s], 1)]),
                              candles |-> [s \in Symbols |-> [i \in Strides |->
                                             GetCandles(klines[s], i, MaxCandles, DefaultMa)]]]
            BY <2>2 DEF CallStats
        <3> /\ call'.fn = "stats" /\ call'.bars = bars
            /\ call'.tiles = OpsTiles([s \in {x \in Symbols : bars[x] # {}} |->
                                         GetCoverage(Klines(bars)[s], 1)])
            BY <3>1
        <3>2. ASSUME NEW tile \in OpsTiles([s \in {x \in Symbols : bars[x] # {}} |->
                                             GetCoverage(Klines(bars)[s], 1)])
              PROVE  LET some == {s \in Symbols : bars[s] # {}}
                     IN  /\ tile.wsTotal + tile.restTotal = BarsHeld(bars, some)
                         /\ some = {} \/ \E s \in some :
                                tile.pct[2] - tile.pct[1] = Missing(FindGaps(bars[s], 1))
            <4>1. PairLastBar \in Nat
                BY TablesAssumption
            <4> QED
                BY <4>1, TilesCounted, Zenon
        <3> QED
            BY <3>1, <3>2 DEF CoverageCountsTheGaps
    <2>3. CASE CallGaps
        <3> DEFINE Called(i, stored) ==
                 LET first == EarliestOf(stored)
                     to == AlignToInterval(LastTime, i)
                 IN  /\ stored # {}
                     /\ call'.fn = "gaps" /\ call'.i = i /\ call'.stored = stored
                     /\ call'.first = first /\ call'.to = to
                     /\ call'.coverage = CalculateCoverage(Cardinality(stored), first, to, i)
        <3>1. PICK i \in Intervals : \E stored \in SUBSET BarsOf(0, LastTime, i) : Called(i, stored)
            <4>1. PICK i \in Intervals : \E stored \in SUBSET BarsOf(0, LastTime, i) :
                     /\ stored # {}
                     /\ LET first == EarliestOf(stored)
                            to == AlignToInterval(LastTime, i)
                        IN  call' = [fn |-> "gaps", i |-> i, stored |-> stored, first |-> first,
                                     to |-> to, gaps |-> FindGaps(stored, i),
                                     coverage |-> CalculateCoverage(Cardinality(stored), first, to, i)]
                BY <2>3, Zenon DEF CallGaps, EarliestOf
            <4>2. PICK stored \in SUBSET BarsOf(0, LastTime, i) :
                     /\ stored # {}
                     /\ LET first == EarliestOf(stored)
                            to == AlignToInterval(LastTime, i)
                        IN  call' = [fn |-> "gaps", i |-> i, stored |-> stored, first |-> first,
                                     to |-> to, gaps |-> FindGaps(stored, i),
                                     coverage |-> CalculateCoverage(Cardinality(stored), first, to, i)]
                BY <4>1
            <4>3. Called(i, stored)
                BY <4>2
            <4> QED
                BY <4>3
        <3>2. PICK stored \in SUBSET BarsOf(0, LastTime, i) : Called(i, stored)
            BY <3>1
        <3> DEFINE first == EarliestOf(stored)
                   to == AlignToInterval(LastTime, i)
                   coverage == CalculateCoverage(Cardinality(stored), first, to, i)
        <3>3. coverage[1] = coverage[2] <=> BarsOf(first, to, i) \subseteq stored
            BY <3>2, ScannedInFull
        <3>4. /\ call'.fn = "gaps" /\ call'.i = i /\ call'.stored = stored
              /\ call'.first = first /\ call'.to = to /\ call'.coverage = coverage
            BY <3>2
        <3> HIDE DEF first, to, coverage
        <3> QED
            BY <3>3, <3>4 DEF CoverageCountsTheGaps
    <2>4. CASE call'.fn \notin {"coverage", "stats", "gaps"}
        BY <2>4 DEF CoverageCountsTheGaps
    <2>5. CASE UNCHANGED call
        BY <1>2, <2>5 DEF CoverageCountsTheGaps
    <2> QED
        BY <1>2, <2>1, <2>2, <2>3, <2>4, <2>5, EveryCall
<1> QED
    BY <1>1, <1>2, PTL DEF AnalyticsSpec

\* A total of numbers that are not negative is none of them exceeds, and is zero
\* only if all of them are.
LEMMA TotalOfNaturals ==
    ASSUME NEW S, IsFiniteSet(S), NEW F \in [S -> Nat]
    PROVE  /\ Total(F) \in Nat
           /\ \A x \in S : F[x] <= Total(F)
           /\ (\A x \in S : F[x] = 0) => Total(F) = 0
<1> DEFINE Sum(T) == Total(Part(F, T))
           Fails(T) == ~(Sum(T) \in Nat /\ ((\A x \in T : F[x] = 0) => Sum(T) = 0))
           Wrong == {c \in Nat : \E T \in SUBSET S : Cardinality(T) = c /\ Fails(T)}
<1>1. \A T \in SUBSET S :
         /\ Cardinality(T) \in Nat
         /\ \A x \in T : T \ {x} \in SUBSET S /\ Cardinality(T \ {x}) = Cardinality(T) - 1
    BY FiniteSubsets
<1>2. F \in [S -> Int] /\ \A x \in S : F[x] \in Nat
    OBVIOUS
<1>3. /\ Part(F, S) = F
      /\ \A T \in SUBSET S :
            /\ T = {} => Sum(T) = 0
            /\ \A x \in T : Sum(T) = F[x] + Sum(T \ {x})
    BY <1>2, PartsAdd
<1> HIDE DEF Sum
<1>4. ASSUME Wrong # {} PROVE FALSE
    <2>1. PICK c \in Wrong : \A d \in Wrong : c <= d
        <3>1. Wrong \in SUBSET Nat
            OBVIOUS
        <3> HIDE DEF Wrong
        <3> QED
            BY <1>4, <3>1, LeastOf
    <2>2. PICK T \in SUBSET S : c \in Nat /\ Cardinality(T) = c /\ Fails(T)
        BY <2>1
    <2>3. T # {}
        BY <1>3, <2>2
    <2>4. PICK x \in T : TRUE
        BY <2>3
    <2> DEFINE U == T \ {x}
    <2>5. U \in SUBSET S /\ Cardinality(U) = c - 1 /\ Cardinality(U) \in Nat
        BY <1>1, <2>2
    <2>6. ~ (c <= c - 1)
        BY <2>2
    <2>7. ~Fails(U)
        BY <2>1, <2>5, <2>6
    <2>8. Sum(T) = F[x] + Sum(U) /\ F[x] \in Nat
        BY <1>2, <1>3
    <2> HIDE DEF Wrong
    <2>9. Sum(T) \in Nat
        BY <2>7, <2>8
    <2>10. (\A y \in T : F[y] = 0) => Sum(T) = 0
        BY <2>7, <2>8
    <2> QED
        BY <2>2, <2>9, <2>10
<1>5. \A T \in SUBSET S : ~Fails(T)
    BY <1>1, <1>4
<1>6. S \in SUBSET S
    OBVIOUS
<1>7. Sum(S) \in Nat /\ ((\A x \in S : F[x] = 0) => Sum(S) = 0)
    BY <1>5, <1>6
<1>8. ASSUME NEW x \in S PROVE F[x] <= Sum(S)
    <2>1. S \ {x} \in SUBSET S
        OBVIOUS
    <2>2. Sum(S \ {x}) \in Nat /\ Sum(S) = F[x] + Sum(S \ {x}) /\ F[x] \in Nat
        BY <1>2, <1>3, <1>5, <1>6, <2>1
    <2> QED
        BY <2>2
<1> QED
    BY <1>3, <1>7, <1>8 DEF Sum

\* Finitely many numbers have a bound.
LEMMA FiniteBound ==
    ASSUME NEW S \in SUBSET Nat, IsFiniteSet(S)
    PROVE  \E n \in Nat : S \in SUBSET (0 .. n)
<1> DEFINE F == [x \in S |-> x]
<1>1. F \in [S -> Nat]
    OBVIOUS
<1> HIDE DEF F
<1>2. Total(F) \in Nat /\ \A x \in S : F[x] <= Total(F)
    BY <1>1, TotalOfNaturals
<1>3. \A x \in S : x \in 0 .. Total(F)
    BY <1>2 DEF F
<1> QED
    BY <1>2, <1>3

LEMMA PowersArePlus == ASSUME NEW n \in Nat PROVE 2 ^ n \in Nat /\ 2 ^ n > 0
<1>1. IsFiniteSet(SUBSET (1 .. n)) /\ Cardinality(SUBSET (1 .. n)) = 2 ^ n
    BY SubsetsCounted
<1>2. SUBSET (1 .. n) # {}
    <2>1. {} \in SUBSET (1 .. n)
        OBVIOUS
    <2> QED
        BY <2>1
<1>3. 2 ^ n \in Nat
    BY PowersArePositive
<1>4. 2 ^ n # 0
    BY <1>1, <1>2, FS_EmptySet
<1> QED
    BY <1>3, <1>4

-------------------------------------------------------------------------------
\* Sums of the statements of the operations snapshot.
WrittenBy(events) == [e \in events |-> e.written]

LEMMA WrittenIsTotal ==
    ASSUME NEW events, IsFiniteSet(events), \A e \in events : e.written \in Int
    PROVE  Written(events) = Total(WrittenBy(events))
<1> DEFINE F == WrittenBy(events)
<1>1. F \in [events -> Int]
    BY DEF WrittenBy
<1>2. PICK g \in [SUBSET events -> Int] : Adds(g, F, events)
    BY <1>1, SumsExist
<1> DEFINE it == CHOOSE iter : iter = [T \in SUBSET events |->
                     IF T = {} THEN 0
                     ELSE (CHOOSE x \in T : TRUE).written + iter[T \ {CHOOSE x \in T : TRUE}]]
<1>3. Written(events) = it[events]
    BY DEF Written, MapThenSumSet, MapThenFoldSet
<1>4. \A T \in SUBSET events : T # {} => F[SomeOf(T)] = (CHOOSE x \in T : TRUE).written
    BY DEF WrittenBy, SomeOf
<1>5. g = [T \in SUBSET events |->
              IF T = {} THEN 0
              ELSE (CHOOSE x \in T : TRUE).written + g[T \ {CHOOSE x \in T : TRUE}]]
    BY <1>2, <1>4 DEF Adds, SomeOf
<1>6. it = [T \in SUBSET events |->
               IF T = {} THEN 0
               ELSE (CHOOSE x \in T : TRUE).written + it[T \ {CHOOSE x \in T : TRUE}]]
    BY <1>5
<1> HIDE DEF it, F
<1>7. Adds(it, F, events)
    BY <1>4, <1>6 DEF Adds, SomeOf
<1>8. Total(F) = it[events]
    BY <1>1, <1>7, TotalIsSum
<1> QED
    BY <1>3, <1>8 DEF F

VolumeOf(rows, times) == [t \in times |-> rows[t].volume]

LEMMA VolumeIsTotal ==
    ASSUME NEW rows, NEW times, IsFiniteSet(times), \A t \in times : rows[t].volume \in Int
    PROVE  Volume(rows, times) = Total(VolumeOf(rows, times))
<1> DEFINE F == VolumeOf(rows, times)
<1>1. F \in [times -> Int]
    BY DEF VolumeOf
<1>2. PICK g \in [SUBSET times -> Int] : Adds(g, F, times)
    BY <1>1, SumsExist
<1> DEFINE it == CHOOSE iter : iter = [T \in SUBSET times |->
                     IF T = {} THEN 0
                     ELSE rows[CHOOSE x \in T : TRUE].volume + iter[T \ {CHOOSE x \in T : TRUE}]]
<1>3. Volume(rows, times) = it[times]
    BY DEF Volume, MapThenSumSet, MapThenFoldSet
<1>4. \A T \in SUBSET times : T # {} => F[SomeOf(T)] = rows[CHOOSE x \in T : TRUE].volume
    BY DEF VolumeOf, SomeOf
<1>5. g = [T \in SUBSET times |->
              IF T = {} THEN 0
              ELSE rows[CHOOSE x \in T : TRUE].volume + g[T \ {CHOOSE x \in T : TRUE}]]
    BY <1>2, <1>4 DEF Adds, SomeOf
<1>6. it = [T \in SUBSET times |->
               IF T = {} THEN 0
               ELSE rows[CHOOSE x \in T : TRUE].volume + it[T \ {CHOOSE x \in T : TRUE}]]
    BY <1>5
<1> HIDE DEF it, F
<1>7. Adds(it, F, times)
    BY <1>4, <1>6 DEF Adds, SomeOf
<1>8. Total(F) = it[times]
    BY <1>1, <1>7, TotalIsSum
<1> QED
    BY <1>3, <1>8 DEF F

\* The trades of the finished bars of the last minutes.
Recent(klines, symbols, s) ==
    {t \in After(DOMAIN klines[s], Anchor(klines, symbols) - TradeWindow) : klines[s][t].closed}

Traded(klines, symbols) == MapThenSumSet(LAMBDA s : Volume(klines[s], Recent(klines, symbols, s)), symbols)

TradedBy(klines, symbols) == [s \in symbols |-> Volume(klines[s], Recent(klines, symbols, s))]

LEMMA TradedIsTotal ==
    ASSUME NEW klines, NEW symbols, IsFiniteSet(symbols),
           \A s \in symbols : Volume(klines[s], Recent(klines, symbols, s)) \in Int
    PROVE  Traded(klines, symbols) = Total(TradedBy(klines, symbols))
<1> DEFINE F == TradedBy(klines, symbols)
           V(s) == Volume(klines[s], Recent(klines, symbols, s))
<1>1. F \in [symbols -> Int]
    BY DEF TradedBy
<1>2. PICK g \in [SUBSET symbols -> Int] : Adds(g, F, symbols)
    BY <1>1, SumsExist
<1> DEFINE it == CHOOSE iter : iter = [T \in SUBSET symbols |->
                     IF T = {} THEN 0
                     ELSE V(CHOOSE x \in T : TRUE) + iter[T \ {CHOOSE x \in T : TRUE}]]
<1>3. Traded(klines, symbols) = it[symbols]
    BY DEF Traded, MapThenSumSet, MapThenFoldSet
<1>4. \A T \in SUBSET symbols : T # {} => F[SomeOf(T)] = V(CHOOSE x \in T : TRUE)
    BY DEF TradedBy, SomeOf
<1> HIDE DEF V
<1>5. g = [T \in SUBSET symbols |->
              IF T = {} THEN 0
              ELSE V(CHOOSE x \in T : TRUE) + g[T \ {CHOOSE x \in T : TRUE}]]
    BY <1>2, <1>4 DEF Adds, SomeOf
<1>6. it = [T \in SUBSET symbols |->
               IF T = {} THEN 0
               ELSE V(CHOOSE x \in T : TRUE) + it[T \ {CHOOSE x \in T : TRUE}]]
    BY <1>5
<1> HIDE DEF it, F
<1>7. Adds(it, F, symbols)
    BY <1>4, <1>6 DEF Adds, SomeOf
<1>8. Total(F) = it[symbols]
    BY <1>1, <1>7, TotalIsSum
<1> QED
    BY <1>3, <1>8 DEF F

LEMMA RateIs ==
    ASSUME NEW klines, NEW symbols
    PROVE  TradeRate(klines, symbols) =
               IF NoRows(klines, symbols) \/ UNION {Recent(klines, symbols, s) : s \in symbols} = {}
               THEN <<0, 1>>
               ELSE <<Traded(klines, symbols), Cardinality(UNION {Recent(klines, symbols, s) : s \in symbols})>>
BY Zenon DEF TradeRate, Traded, Recent

\* The trade rate is zero only if no finished bar of the last minutes has a trade.
LEMMA RateOfRecentBars ==
    ASSUME NEW n \in Nat, NEW bars \in [Symbols -> SUBSET (0 .. n)]
    PROVE  TradeRate(Klines(bars), Symbols)[1] = 0 <=>
               ~ \E s \in Symbols : \E t \in bars[s] :
                    /\ t < Max(bars[s])
                    /\ \A x \in Symbols : \A u \in bars[x] : u - t < TradeWindow
<1> DEFINE klines == Klines(bars)
           All == UNION {bars[s] : s \in Symbols}
           R(s) == Recent(klines, Symbols, s)
<1>1. ASSUME NEW s \in Symbols
      PROVE  /\ DOMAIN klines[s] = bars[s] /\ bars[s] \in SUBSET (0 .. n)
             /\ \A t \in bars[s] : /\ klines[s][t].closed <=> t < Max(bars[s])
                                   /\ klines[s][t].volume = 2 ^ t
    BY DEF Klines, Table, Row
<1>2. TradeWindow \in Nat \ {0}
    BY AnalyticsAssumption
<1>3. All \in SUBSET (0 .. n)
    OBVIOUS
<1>4. Anchor(klines, Symbols) = Max(All)
    <2>1. {DOMAIN klines[s] : s \in Symbols} = {bars[s] : s \in Symbols}
        BY <1>1
    <2> QED
        BY <2>1 DEF Anchor
<1> HIDE DEF klines, R
<1>5. ASSUME NEW s \in Symbols, NEW t \in bars[s]
      PROVE  t \in R(s) <=> /\ t < Max(bars[s])
                            /\ \A x \in Symbols : \A u \in bars[x] : u - t < TradeWindow
    <2>1. t \in Int /\ t \in All
        OBVIOUS
    <2>2. Max(All) \in All /\ \A u \in All : u <= Max(All)
        <3> HIDE DEF All
        <3> QED
            BY <1>3, <2>1, EndsOf
    <2>3. \A u \in All : u \in Int
        BY <1>3
    <2>4. t > Max(All) - TradeWindow <=> \A u \in All : u - t < TradeWindow
        <3> DEFINE top == Max(All)
        <3>1. top \in Int /\ t \in Int /\ TradeWindow \in Int
            BY <1>2, <2>1, <2>2, <2>3
        <3>2. top \in All /\ \A u \in All : u \in Int /\ u <= top
            BY <2>2, <2>3
        <3> HIDE DEF All, top
        <3>3. ASSUME t > top - TradeWindow, NEW u \in All PROVE u - t < TradeWindow
            BY <3>1, <3>2, <3>3
        <3>4. ASSUME \A u \in All : u - t < TradeWindow PROVE t > top - TradeWindow
            <4>1. top - t < TradeWindow
                BY <3>2, <3>4
            <4> QED
                BY <3>1, <4>1
        <3>5. t > top - TradeWindow <=> \A u \in All : u - t < TradeWindow
            BY <3>3, <3>4
        <3> QED
            BY <3>5 DEF top
    <2>5. t \in R(s) <=> t > Max(All) - TradeWindow /\ t < Max(bars[s])
        BY <1>1, <1>4 DEF R, Recent, After
    <2> QED
        BY <2>4, <2>5
<1>6. \A s \in Symbols : R(s) \subseteq bars[s]
    BY <1>1 DEF R, Recent, After
<1>7. ASSUME NEW s \in Symbols
      PROVE  /\ Volume(klines[s], R(s)) \in Nat
             /\ R(s) # {} => Volume(klines[s], R(s)) > 0
             /\ R(s) = {} => Volume(klines[s], R(s)) = 0
    <2> DEFINE F == VolumeOf(klines[s], R(s))
    <2>1. IsFiniteSet(R(s))
        <3>1. R(s) \in SUBSET (0 .. n)
            BY <1>1, <1>6
        <3> QED
            BY <3>1, FinitePart
    <2>2. ASSUME NEW t \in R(s) PROVE klines[s][t].volume \in Nat /\ klines[s][t].volume > 0
        <3>1. t \in Nat /\ klines[s][t].volume = 2 ^ t
            BY <1>1, <1>6
        <3> QED
            BY <3>1, PowersArePlus
    <2>3. F \in [R(s) -> Nat] /\ \A t \in R(s) : F[t] > 0 /\ F[t] \in Nat
        BY <2>2 DEF VolumeOf
    <2>4. Volume(klines[s], R(s)) = Total(F)
        BY <2>1, <2>2, VolumeIsTotal
    <2> HIDE DEF F
    <2>5. /\ Total(F) \in Nat
          /\ \A t \in R(s) : F[t] <= Total(F)
          /\ (\A t \in R(s) : F[t] = 0) => Total(F) = 0
        BY <2>1, <2>3, TotalOfNaturals
    <2> QED
        BY <2>3, <2>4, <2>5
<1>8. IsFiniteSet(Symbols)
    <2>1. Symbols = ({} \cup {"btc"}) \cup {"eth"}
        BY DEF Symbols
    <2> QED
        BY <2>1, FS_EmptySet, FS_AddElement
<1>9. Traded(klines, Symbols) = 0 <=> \A s \in Symbols : R(s) = {}
    <2> DEFINE F == TradedBy(klines, Symbols)
    <2>1. F \in [Symbols -> Nat] /\ \A s \in Symbols : F[s] = Volume(klines[s], R(s))
        BY <1>7 DEF TradedBy, R
    <2>2. Traded(klines, Symbols) = Total(F)
        BY <1>7, <1>8, TradedIsTotal DEF R
    <2> HIDE DEF F
    <2>3. /\ Total(F) \in Nat
          /\ \A s \in Symbols : F[s] <= Total(F)
          /\ (\A s \in Symbols : F[s] = 0) => Total(F) = 0
        BY <1>8, <2>1, TotalOfNaturals
    <2>4. ASSUME NEW s \in Symbols, R(s) # {} PROVE Total(F) # 0
        BY <1>7, <2>1, <2>3, <2>4
    <2>5. (\A s \in Symbols : R(s) = {}) => Total(F) = 0
        BY <1>7, <2>1, <2>3
    <2> QED
        BY <2>2, <2>4, <2>5
<1>10. NoRows(klines, Symbols) => \A s \in Symbols : R(s) = {}
    BY <1>1, <1>6 DEF NoRows
<1>11. TradeRate(klines, Symbols)[1] = 0 <=> \A s \in Symbols : R(s) = {}
    <2> DEFINE none == NoRows(klines, Symbols) \/ UNION {R(s) : s \in Symbols} = {}
    <2>1. none => TradeRate(klines, Symbols) = <<0, 1>>
        BY RateIs DEF R
    <2>2. ~none => TradeRate(klines, Symbols) =
                      <<Traded(klines, Symbols), Cardinality(UNION {R(s) : s \in Symbols})>>
        BY RateIs DEF R
    <2>3. none <=> \A s \in Symbols : R(s) = {}
        BY <1>10
    <2> HIDE DEF none
    <2>4. none => TradeRate(klines, Symbols)[1] = 0
        BY <2>1
    <2>5. ~none => TradeRate(klines, Symbols)[1] = Traded(klines, Symbols)
        BY <2>2
    <2> QED
        BY <1>9, <2>3, <2>4, <2>5
<1>12. \A s \in Symbols : R(s) = {} <=> ~ \E t \in bars[s] : t \in R(s)
    BY <1>6
<1> QED
    BY <1>5, <1>11, <1>12 DEF klines

\* The limits of the badge: how many of them a lag has passed.
LEMMA SeverityLimits ==
    ASSUME NEW lag \in Nat
    PROVE  /\ LagSeverity(lag) = "good" <=> lag < Min(Severities)
           /\ LagSeverity(lag) = "critical" <=> ~ (lag < Max(Severities))
           /\ {Min(Severities), Max(Severities)} \subseteq 0 .. FreshWithin
           /\ Min(Severities) <= Max(Severities)
<1> DEFINE Passed == {limit \in Severities : limit <= lag}
           c == Cardinality(Passed)
<1>1. /\ Severities \subseteq Nat /\ IsFiniteSet(Severities) /\ Cardinality(Severities) = 3
      /\ FreshWithin \in Nat /\ \A limit \in Severities : limit <= FreshWithin
    BY AnalyticsAssumption
<1>2. Severities \in SUBSET (0 .. FreshWithin) /\ Severities # {}
    BY <1>1, FS_EmptySet
<1>3. /\ Max(Severities) \in Severities /\ \A limit \in Severities : limit <= Max(Severities)
      /\ Min(Severities) \in Severities /\ \A limit \in Severities : Min(Severities) <= limit
    BY <1>1, <1>2, EndsOf
<1>4. c \in Nat /\ c <= 3 /\ (c = 3 => Passed = Severities) /\ (c = 0 <=> Passed = {})
    <2>1. IsFiniteSet(Passed) /\ Cardinality(Passed) <= 3 /\ (3 = Cardinality(Passed) => Severities = Passed)
        BY <1>1, FS_Subset
    <2> HIDE DEF Passed
    <2> QED
        BY <2>1, FS_CardinalityType, FS_EmptySet
<1>5. Passed = {} <=> lag < Min(Severities)
    <2> DEFINE low == Min(Severities)
    <2>1. low \in Severities /\ \A limit \in Severities : limit \in Int /\ low <= limit
        BY <1>1, <1>3
    <2> HIDE DEF low
    <2>2. ASSUME lag < low PROVE \A limit \in Severities : ~ (limit <= lag)
        BY <2>1, <2>2
    <2>3. ASSUME ~ (lag < low) PROVE low <= lag
        BY <2>1, <2>3
    <2>4. Passed = {} <=> lag < low
        BY <2>1, <2>2, <2>3
    <2> QED
        BY <2>4 DEF low
<1>6. Passed = Severities <=> ~ (lag < Max(Severities))
    <2> DEFINE top == Max(Severities)
    <2>1. top \in Severities /\ \A limit \in Severities : limit \in Int /\ limit <= top
        BY <1>1, <1>3
    <2> HIDE DEF top
    <2>2. ASSUME lag < top PROVE ~ (top <= lag)
        BY <2>1, <2>2
    <2>3. ASSUME ~ (lag < top) PROVE \A limit \in Severities : limit <= lag
        BY <2>1, <2>3
    <2>4. Passed = Severities <=> ~ (lag < top)
        BY <2>1, <2>2, <2>3
    <2> QED
        BY <2>4 DEF top
<1>7. LagSeverity(lag) = <<"good", "warning", "serious", "critical">>[1 + c]
    BY DEF LagSeverity, Null
<1> HIDE DEF Passed
<1>8. c = 3 <=> Passed = Severities
    BY <1>1, <1>4
<1> HIDE DEF c
<1>9. c = 0 \/ c = 1 \/ c = 2 \/ c = 3
    BY <1>4
<1>10. LagSeverity(lag) = "good" <=> c = 0
    BY <1>7, <1>9
<1>11. LagSeverity(lag) = "critical" <=> c = 3
    BY <1>7, <1>9
<1> QED
    BY <1>1, <1>2, <1>3, <1>4, <1>5, <1>6, <1>8, <1>10, <1>11 DEF c

\* What the operations snapshot makes of the lags of the symbols.
LEMMA OpsJudged ==
    ASSUME NEW symbols \in SUBSET Symbols, NEW state, DOMAIN state = symbols,
           \A s \in symbols : state[s].lag \in Lags \cup {Null}, NEW backfills
    PROVE  LET ops == GetOpsSnapshot(state, backfills)
               heard == {s \in symbols : state[s].lag # Null}
           IN  /\ ops.connected <=> \E s \in heard : state[s].lag < FreshWithin
               /\ ChipSeverity(ops) = "good" <=>
                     heard # {} /\ \A s \in heard : state[s].lag < Min(Severities)
               /\ ChipSeverity(ops) = "critical" <=>
                     heard = {} \/ \E s \in heard : ~(state[s].lag < Max(Severities))
<1> DEFINE ops == GetOpsSnapshot(state, backfills)
           heard == {s \in symbols : state[s].lag # Null}
           lags == {state[s].lag : s \in heard}
<1>1. /\ \A s \in heard : state[s].lag \in Nat /\ state[s].lag \in lags
      /\ \A lag \in lags : lag \in Nat /\ \E s \in heard : lag = state[s].lag
      /\ lags \in SUBSET Nat /\ (lags = {} <=> heard = {})
    <2>1. Lags \subseteq Nat
        BY TablesAssumption
    <2>2. \A s \in heard : state[s].lag \in Nat
        BY <2>1
    <2> HIDE DEF heard
    <2> QED
        BY <2>2
<1>2. Known({state[s].lag : s \in DOMAIN state}) = lags
    BY DEF Known
<1>3. ops.connected = (lags # {} /\ Min(lags) < FreshWithin)
      /\ ops.lagSeconds = IF lags = {} THEN Null ELSE Max(lags)
    BY <1>2 DEF GetOpsSnapshot
<1>4. IsFiniteSet(lags)
    <2> DEFINE both == ({} \cup {state["btc"].lag}) \cup {state["eth"].lag}
    <2>1. IsFiniteSet(both)
        BY FS_EmptySet, FS_AddElement
    <2>2. lags \in SUBSET both
        BY DEF Symbols
    <2> HIDE DEF lags, both
    <2> QED
        BY <2>1, <2>2, FS_Subset
<1> HIDE DEF ops, lags, heard
<1>5. PICK n \in Nat : lags \in SUBSET (0 .. n)
    BY <1>1, <1>4, FiniteBound
<1>6. lags # {} => /\ Max(lags) \in lags /\ \A lag \in lags : lag <= Max(lags)
                   /\ Min(lags) \in lags /\ \A lag \in lags : Min(lags) <= lag
    BY <1>5, EndsOf
<1>7. FreshWithin \in Nat
    BY AnalyticsAssumption
<1>8. CASE heard = {}
    <2>1. ~ops.connected /\ ChipSeverity(ops) = "critical"
        BY <1>1, <1>3, <1>8 DEF ChipSeverity
    <2> QED
        BY <1>8, <2>1 DEF ops, heard
<1>9. CASE heard # {}
    <2> DEFINE low == Min(lags)
               top == Max(lags)
    <2>1. /\ low \in Nat /\ top \in Nat /\ low <= top
          /\ \A s \in heard : low <= state[s].lag /\ state[s].lag <= top /\ state[s].lag \in Nat
          /\ \E s \in heard : low = state[s].lag
          /\ \E s \in heard : top = state[s].lag
        BY <1>1, <1>6, <1>9
    <2>2. ops.connected <=> low < FreshWithin
        BY <1>1, <1>3, <1>9
    <2>3. ChipSeverity(ops) = IF ops.connected THEN LagSeverity(top) ELSE "critical"
        BY <1>1, <1>3, <1>9 DEF ChipSeverity
    <2> HIDE DEF low, top
    <2>4. /\ LagSeverity(top) = "good" <=> top < Min(Severities)
          /\ LagSeverity(top) = "critical" <=> ~ (top < Max(Severities))
          /\ Min(Severities) \in Nat /\ Max(Severities) \in Nat
          /\ Max(Severities) <= FreshWithin
          /\ Min(Severities) <= Max(Severities)
        <3>1. /\ LagSeverity(top) = "good" <=> top < Min(Severities)
              /\ LagSeverity(top) = "critical" <=> ~ (top < Max(Severities))
              /\ {Min(Severities), Max(Severities)} \subseteq 0 .. FreshWithin
              /\ Min(Severities) <= Max(Severities)
            BY <2>1, SeverityLimits
        <3> QED
            BY <1>7, <3>1
    <2>5. ops.connected <=> \E s \in heard : state[s].lag < FreshWithin
        BY <1>7, <2>1, <2>2
    <2>6. top < Min(Severities) <=> \A s \in heard : state[s].lag < Min(Severities)
        BY <2>1, <2>4
    <2>7. ~ (top < Max(Severities)) <=> \E s \in heard : ~(state[s].lag < Max(Severities))
        BY <2>1, <2>4
    <2>8. ChipSeverity(ops) = "good" <=> top < Min(Severities)
        <3>1. top < Min(Severities) => low < FreshWithin
            BY <1>7, <2>1, <2>4
        <3> QED
            BY <2>2, <2>3, <2>4, <3>1
    <2>9. ChipSeverity(ops) = "critical" <=> ~ (top < Max(Severities))
        <3>1. ~ (low < FreshWithin) => ~ (top < Max(Severities))
            BY <1>7, <2>1, <2>4
        <3> QED
            BY <2>2, <2>3, <2>4, <3>1
    <2> QED
        BY <1>9, <2>5, <2>6, <2>7, <2>8, <2>9 DEF ops, heard
<1> QED
    BY <1>8, <1>9

\* A recovery counts as one when a backfill other than a first load has written bars.
LEMMA RecoveriesCounted ==
    ASSUME NEW state, NEW backfills, IsFiniteSet(backfills),
           \A e \in backfills : e.reason \in {"initial", "restart"} /\ e.written \in Nat \ {0}
    PROVE  GetOpsSnapshot(state, backfills).recoveredCandles > 0
               <=> \E e \in backfills : e.reason = "restart"
<1> DEFINE E == {e \in backfills : e.reason # "initial"}
           F == WrittenBy(E)
<1>1. GetOpsSnapshot(state, backfills).recoveredCandles = Written(E)
    BY DEF GetOpsSnapshot
<1>2. IsFiniteSet(E)
    BY FS_Subset
<1>3. E = {} <=> ~ \E e \in backfills : e.reason = "restart"
    OBVIOUS
<1>4. \A e \in E : e.written \in Nat \ {0}
    OBVIOUS
<1> HIDE DEF E
<1>5. F \in [E -> Nat] /\ \A e \in E : F[e] \in Nat /\ F[e] > 0
    BY <1>4 DEF WrittenBy
<1>6. Written(E) = Total(F)
    BY <1>2, <1>4, WrittenIsTotal
<1> HIDE DEF F
<1>7. /\ Total(F) \in Nat
      /\ \A e \in E : F[e] <= Total(F)
      /\ (\A e \in E : F[e] = 0) => Total(F) = 0
    BY <1>2, <1>5, TotalOfNaturals
<1>8. Total(F) > 0 <=> E # {}
    BY <1>5, <1>7
<1> QED
    BY <1>1, <1>3, <1>6, <1>8

\* A badge says good only if every symbol heard from is recent and critical as soon
\* as one is too far behind or none was heard from; the connection is judged by the
\* freshest of them, a recovery is one of a restart, and the trade rate is zero only
\* if no finished bar of the last minutes has a trade, for tables of any length.
THEOREM HealthFollowsTheSymbols == AnalyticsSpec => []HealthIsJudgedBySymbols
<1>1. Init => HealthIsJudgedBySymbols
    BY DEF Init, Idle, HealthIsJudgedBySymbols
<1>2. ASSUME HealthIsJudgedBySymbols, [AnalyticsNext]_call
      PROVE  HealthIsJudgedBySymbols'
    <2>1. CASE CallOps
        <3> DEFINE Rows(symbols) == [symbols -> [lag : Lags \cup {Null}, uptime : {Null, 4, 9},
                                                 reconnects : 0 .. 1]]
                   Completed == [reason : {"initial", "restart"}, written : 1 .. 2]
                   Called(state, backfills) ==
                      /\ call'.fn = "ops" /\ call'.state = state /\ call'.backfills = backfills
                      /\ call'.ops = GetOpsSnapshot(state, backfills)
        <3>1. PICK symbols \in SUBSET Symbols :
                 \E state \in Rows(symbols), backfills \in SUBSET Completed : Called(state, backfills)
            BY <2>1 DEF CallOps
        <3>2. PICK state \in Rows(symbols) : \E backfills \in SUBSET Completed : Called(state, backfills)
            BY <3>1
        <3>3. PICK backfills \in SUBSET Completed : Called(state, backfills)
            BY <3>2
        <3>4. DOMAIN state = symbols /\ \A s \in symbols : state[s].lag \in Lags \cup {Null}
            OBVIOUS
        <3>5. IsFiniteSet(backfills)
            <4> DEFINE E(r, n) == [reason |-> r, written |-> n]
                       all == {} \cup {E("initial", 1)} \cup {E("initial", 2)}
                                 \cup {E("restart", 1)} \cup {E("restart", 2)}
            <4>1. IsFiniteSet(all)
                <5> HIDE DEF E
                <5>1. IsFiniteSet({} \cup {E("initial", 1)})
                    BY FS_EmptySet, FS_AddElement
                <5>2. IsFiniteSet({} \cup {E("initial", 1)} \cup {E("initial", 2)})
                    BY <5>1, FS_AddElement, Zenon
                <5>3. IsFiniteSet({} \cup {E("initial", 1)} \cup {E("initial", 2)}
                                     \cup {E("restart", 1)})
                    BY <5>2, FS_AddElement, Zenon
                <5> QED
                    BY <5>3, FS_AddElement, Zenon
            <4>2. backfills \in SUBSET all
                <5>1. ASSUME NEW e \in Completed PROVE e = E(e.reason, e.written)
                    OBVIOUS
                <5>2. \A e \in Completed : e.reason \in {"initial", "restart"} /\ e.written \in {1, 2}
                    OBVIOUS
                <5> HIDE DEF E, Completed
                <5> QED
                    BY <5>1, <5>2
            <4> HIDE DEF all
            <4> QED
                BY <4>1, <4>2, FS_Subset
        <3>6. \A e \in backfills : e.reason \in {"initial", "restart"} /\ e.written \in Nat \ {0}
            OBVIOUS
        <3> DEFINE ops == GetOpsSnapshot(state, backfills)
                   heard == {s \in symbols : state[s].lag # Null}
        <3>7. /\ ops.connected <=> \E s \in heard : state[s].lag < FreshWithin
              /\ ChipSeverity(ops) = "good" <=>
                    heard # {} /\ \A s \in heard : state[s].lag < Min(Severities)
              /\ ChipSeverity(ops) = "critical" <=>
                    heard = {} \/ \E s \in heard : ~(state[s].lag < Max(Severities))
            BY <3>4, OpsJudged
        <3>8. ops.recoveredCandles > 0 <=> \E e \in backfills : e.reason = "restart"
            BY <3>5, <3>6, RecoveriesCounted
        <3>9. /\ call'.fn = "ops" /\ call'.state = state /\ call'.backfills = backfills
              /\ call'.ops = ops
            BY <3>3
        <3>10. heard = {s \in DOMAIN call'.state : call'.state[s].lag # Null}
            BY <3>4, <3>9
        <3> HIDE DEF ops, heard, Rows, Completed, Called
        <3> QED
            BY <3>7, <3>8, <3>9, <3>10 DEF HealthIsJudgedBySymbols
    <2>2. CASE CallStats
        <3>1. PICK bars \in [Symbols -> SUBSET (0 .. PairLastBar)] :
                 LET klines == Klines(bars)
                 IN  call' = [fn |-> "stats", bars |-> bars,
                              stats   |-> GetMarketStats(klines, Symbols),
                              rate    |-> TradeRate(klines, Symbols),
                              tiles   |-> OpsTiles([s \in {x \in Symbols : bars[x] # {}} |->
                                                      GetCoverage(klines[s], 1)]),
                              candles |-> [s \in Symbols |-> [i \in Strides |->
                                             GetCandles(klines[s], i, MaxCandles, DefaultMa)]]]
            BY <2>2 DEF CallStats
        <3>2. PairLastBar \in Nat
            BY TablesAssumption
        <3> DEFINE rate == TradeRate(Klines(bars), Symbols)
        <3>3. rate[1] = 0 <=>
                 ~ \E s \in Symbols : \E t \in bars[s] :
                      /\ t < Max(bars[s])
                      /\ \A x \in Symbols : \A u \in bars[x] : u - t < TradeWindow
            BY <3>2, RateOfRecentBars
        <3>4. call'.fn = "stats" /\ call'.bars = bars /\ call'.rate = rate
            BY <3>1
        <3> HIDE DEF rate
        <3> QED
            BY <3>3, <3>4 DEF HealthIsJudgedBySymbols
    <2>3. CASE call'.fn \notin {"ops", "stats"}
        BY <2>3 DEF HealthIsJudgedBySymbols
    <2>4. CASE UNCHANGED call
        BY <1>2, <2>4 DEF HealthIsJudgedBySymbols
    <2> QED
        BY <1>2, <2>1, <2>2, <2>3, <2>4, EveryCall
<1> QED
    BY <1>1, <1>2, PTL DEF AnalyticsSpec

-------------------------------------------------------------------------------
(***************************************************************************)
(* Ascending orders                                                        *)
(***************************************************************************)
\* How many elements of S are less than x.
Rank(S, x) == Cardinality({y \in S : y < x})

\* Greater elements have greater ranks, below the number of elements.
LEMMA RanksGrow ==
    ASSUME NEW n \in Nat, NEW S \in SUBSET (0 .. n)
    PROVE  /\ Cardinality(S) \in Nat
           /\ \A x \in S : Rank(S, x) \in Nat /\ Rank(S, x) < Cardinality(S)
           /\ \A x, y \in S : x < y => Rank(S, x) < Rank(S, y)
<1> DEFINE Below(x) == {y \in S : y < x}
<1>1. IsFiniteSet(S) /\ Cardinality(S) \in Nat
    BY FinitePart
<1>2. ASSUME NEW x \in S
      PROVE  /\ IsFiniteSet(Below(x)) /\ Cardinality(Below(x)) \in Nat
             /\ Cardinality(Below(x)) < Cardinality(S)
    <2>1. Below(x) \in SUBSET S /\ x \notin Below(x)
        OBVIOUS
    <2>2. Below(x) \subseteq S \ {x}
        BY <2>1
    <2> HIDE DEF Below
    <2>3. IsFiniteSet(S \ {x}) /\ Cardinality(S \ {x}) = Cardinality(S) - 1
        BY <1>1, FS_RemoveElement
    <2>4. IsFiniteSet(Below(x)) /\ Cardinality(Below(x)) <= Cardinality(S \ {x})
        BY <2>2, <2>3, FS_Subset
    <2>5. Cardinality(Below(x)) \in Nat
        BY <2>4, FS_CardinalityType
    <2> QED
        BY <1>1, <2>3, <2>4, <2>5
<1>3. ASSUME NEW x \in S, NEW y \in S, x < y
      PROVE  Cardinality(Below(x)) < Cardinality(Below(y))
    <2>1. \A z \in S : z \in Int
        OBVIOUS
    <2>2. Below(x) \subseteq Below(y) \ {x} /\ x \in Below(y)
        <3>1. \A z \in S : z < x => z < y /\ z # x
            BY <1>3, <2>1
        <3> QED
            BY <1>3, <3>1
    <2>3. /\ IsFiniteSet(Below(y)) /\ Cardinality(Below(y)) \in Nat
          /\ Cardinality(Below(x)) \in Nat
        BY <1>2
    <2> HIDE DEF Below
    <2>4. IsFiniteSet(Below(y) \ {x}) /\ Cardinality(Below(y) \ {x}) = Cardinality(Below(y)) - 1
        BY <2>2, <2>3, FS_RemoveElement
    <2>5. Cardinality(Below(x)) <= Cardinality(Below(y) \ {x})
        BY <2>2, <2>4, FS_Subset
    <2> QED
        BY <2>3, <2>4, <2>5
<1> QED
    BY <1>1, <1>2, <1>3 DEF Rank

\* Ascending(S) has, at its k-th place, the element of rank k - 1: every element of S
\* once, the lesser ones first.
LEMMA AscendingByRank ==
    ASSUME NEW n \in Nat, NEW S \in SUBSET (0 .. n)
    PROVE  /\ Cardinality(S) \in Nat /\ DOMAIN Ascending(S) = 1 .. Cardinality(S)
           /\ Ascending(S) \in [1 .. Cardinality(S) -> S]
           /\ \A k \in 1 .. Cardinality(S) : Ascending(S)[k] \in S /\ Rank(S, Ascending(S)[k]) = k - 1
           /\ \A x \in S : Rank(S, x) + 1 \in 1 .. Cardinality(S) /\ Ascending(S)[Rank(S, x) + 1] = x
           /\ \A j, k \in 1 .. Cardinality(S) : j < k <=> Ascending(S)[j] < Ascending(S)[k]
<1> DEFINE c == Cardinality(S)
<1>1. /\ c \in Nat
      /\ \A x \in S : Rank(S, x) \in Nat /\ Rank(S, x) < c
      /\ \A x, y \in S : x < y => Rank(S, x) < Rank(S, y)
    BY RanksGrow
<1>2. DOMAIN Ascending(S) = 1 .. c
    BY DEF Ascending
<1>3. ASSUME NEW k \in 1 .. c
      PROVE  Ascending(S)[k] \in S /\ Rank(S, Ascending(S)[k]) = k - 1
    <2>1. Ascending(S)[k] \in S
        BY AscendingListsElements
    <2>2. \E x \in S : Cardinality({y \in S : y < x}) = k - 1
        BY AscendingHasRanks
    <2>3. Ascending(S)[k] = CHOOSE x \in S : Cardinality({y \in S : y < x}) = k - 1
        BY DEF Ascending
    <2>4. Cardinality({y \in S : y < Ascending(S)[k]}) = k - 1
        BY <2>2, <2>3
    <2> QED
        BY <2>1, <2>4 DEF Rank
<1>4. Ascending(S) \in [1 .. c -> S]
    <2>1. Ascending(S) = [k \in 1 .. c |-> Ascending(S)[k]]
        BY DEF Ascending
    <2> QED
        BY <1>3, <2>1
<1>5. \A x \in S : x \in Int
    OBVIOUS
<1> HIDE DEF c
<1>6. ASSUME NEW x \in S
      PROVE  Rank(S, x) + 1 \in 1 .. c /\ Ascending(S)[Rank(S, x) + 1] = x
    <2> DEFINE k == Rank(S, x) + 1
               y == Ascending(S)[k]
    <2>1. k \in 1 .. c
        BY <1>1
    <2>2. y \in S /\ Rank(S, y) = k - 1
        BY <1>3, <2>1
    <2>3. Rank(S, y) = Rank(S, x)
        BY <1>1, <2>2
    <2> HIDE DEF k, y
    <2>4. ~ (x < y) /\ ~ (y < x)
        BY <1>1, <2>2, <2>3
    <2>5. y = x
        BY <1>5, <2>2, <2>4
    <2> QED
        BY <2>1, <2>5 DEF k, y
<1>7. ASSUME NEW j \in 1 .. c, NEW k \in 1 .. c
      PROVE  j < k <=> Ascending(S)[j] < Ascending(S)[k]
    <2> DEFINE x == Ascending(S)[j]
               y == Ascending(S)[k]
    <2>1. x \in S /\ y \in S /\ Rank(S, x) = j - 1 /\ Rank(S, y) = k - 1
        BY <1>3
    <2>2. j = k => x = y
        OBVIOUS
    <2> HIDE DEF x, y
    <2>3. x \in Int /\ y \in Int /\ j \in Int /\ k \in Int
        BY <1>1, <1>5, <2>1
    <2>4. x < y => j < k
        BY <1>1, <2>1, <2>3
    <2>5. y < x => k < j
        BY <1>1, <2>1, <2>3
    <2>6. x = y => j = k
        BY <2>1, <2>3
    <2>7. x < y <=> j < k
        BY <2>2, <2>3, <2>4, <2>5, <2>6
    <2> QED
        BY <2>7 DEF x, y
<1> QED
    BY <1>1, <1>2, <1>3, <1>4, <1>6, <1>7 DEF c

\* The upper part of a set comes last in its order.
LEMMA UpperPartLast ==
    ASSUME NEW n \in Nat, NEW S \in SUBSET (0 .. n), NEW W \in SUBSET S,
           \A x \in S, w \in W : w <= x => x \in W
    PROVE  /\ Cardinality(W) \in Nat /\ Cardinality(S) \in Nat /\ Cardinality(W) <= Cardinality(S)
           /\ \A k \in 1 .. Cardinality(W) :
                 /\ Cardinality(S) - Cardinality(W) + k \in 1 .. Cardinality(S)
                 /\ Ascending(W)[k] = Ascending(S)[Cardinality(S) - Cardinality(W) + k]
<1> DEFINE c == Cardinality(S)
           w == Cardinality(W)
<1>1. IsFiniteSet(S) /\ c \in Nat
    BY FinitePart
<1>2. W \in SUBSET (0 .. n) /\ IsFiniteSet(W) /\ w \in Nat /\ w <= c
    <2>1. W \in SUBSET (0 .. n)
        OBVIOUS
    <2>2. IsFiniteSet(W) /\ w \in Nat
        BY <2>1, FinitePart
    <2>3. w <= c
        BY <1>1, FS_Subset
    <2> QED
        BY <2>1, <2>2, <2>3
<1>3. IsFiniteSet(S \ W) /\ Cardinality(S \ W) = c - w
    <2>1. IsFiniteSet(S \ W) /\ Cardinality(S \ W) \in Nat
        <3>1. S \ W \in SUBSET (0 .. n)
            OBVIOUS
        <3> QED
            BY <3>1, FinitePart
    <2>2. (S \ W) \cup W = S /\ (S \ W) \cap W = {}
        OBVIOUS
    <2>3. Cardinality((S \ W) \cup W) = Cardinality(S \ W) + w - Cardinality((S \ W) \cap W)
        BY <1>2, <2>1, FS_Union
    <2> QED
        BY <1>1, <1>2, <2>1, <2>2, <2>3, FS_EmptySet
<1> HIDE DEF c, w
<1>4. ASSUME NEW k \in 1 .. w
      PROVE  c - w + k \in 1 .. c /\ Ascending(W)[k] = Ascending(S)[c - w + k]
    <2> DEFINE x == Ascending(W)[k]
    <2>1. x \in W /\ Rank(W, x) = k - 1
        BY <1>2, AscendingByRank DEF w
    <2> HIDE DEF x
    <2>2. x \in S /\ Ascending(S)[Rank(S, x) + 1] = x
        BY <2>1, AscendingByRank
    <2> DEFINE below == {y \in W : y < x}
    <2>3. {y \in S : y < x} = (S \ W) \cup below /\ (S \ W) \cap below = {}
        <3>1. \A y \in S : y \in Int /\ x \in Int
            BY <2>2
        <3>2. \A y \in S \ W : y < x
            BY <2>1, <3>1
        <3> QED
            BY <3>2
    <2>4. IsFiniteSet(below) /\ Cardinality(below) = k - 1
        BY <1>2, <2>1, FS_Subset DEF Rank
    <2> HIDE DEF below
    <2>5. Cardinality((S \ W) \cup below) = (c - w) + (k - 1)
        <3>1. Cardinality((S \ W) \cup below)
                  = Cardinality(S \ W) + Cardinality(below) - Cardinality((S \ W) \cap below)
            BY <1>3, <2>4, FS_Union
        <3>2. Cardinality({}) = 0
            BY FS_EmptySet
        <3>3. Cardinality(below) = k - 1 /\ k \in Int /\ c \in Int /\ w \in Int
            BY <1>1, <1>2, <2>4
        <3> QED
            BY <1>3, <2>3, <3>1, <3>2, <3>3
    <2>6. Rank(S, x) + 1 = c - w + k
        BY <1>1, <1>2, <2>3, <2>5 DEF Rank
    <2>7. c - w + k \in 1 .. c
        BY <1>1, <1>2
    <2> QED
        BY <2>2, <2>6, <2>7 DEF x
<1> QED
    BY <1>1, <1>2, <1>4 DEF c, w

\* s lists m elements of S.
Lists(s, m, S) == m \in Nat /\ s \in [1 .. m -> S]

\* The last n elements of a list.
LEMMA LastOfElements ==
    ASSUME NEW m, NEW S, NEW s, Lists(s, m, S), NEW n \in Nat \ {0}
    PROVE  LET l == LastOf(s, n)
               c == LesserOf(m, n)
           IN  /\ c \in Nat /\ c <= m /\ c <= n /\ (c = m \/ c = n)
               /\ Len(s) = m /\ Len(l) = c /\ DOMAIN l = 1 .. c /\ l \in Seq(S)
               /\ \A k \in 1 .. c : m - c + k \in 1 .. m /\ l[k] = s[m - c + k]
<1> DEFINE l == LastOf(s, n)
           c == LesserOf(m, n)
           from == GreaterOf(1, m - n + 1)
<1> m \in Nat /\ s \in [1 .. m -> S]
    BY DEF Lists
<1>1. s \in Seq(S)
    BY SeqDef
<1>2. Len(s) = m
    <2>1. Len(s) \in Nat /\ DOMAIN s = 1 .. Len(s)
        BY <1>1, LenProperties
    <2>2. 1 .. Len(s) = 1 .. m
        BY <2>1
    <2> QED
        BY <2>1, <2>2
<1>3. c \in Nat /\ c <= m /\ c <= n /\ (c = m \/ c = n)
    BY DEF LesserOf
<1>4. from \in Nat /\ from = m - c + 1
    BY DEF LesserOf, GreaterOf
<1>5. l = SubSeq(s, from, m)
    BY <1>2 DEF LastOf
<1> HIDE DEF l, c, from
<1>6. \A i \in from .. m : s[i] \in S
    BY <1>3, <1>4
<1>7. /\ l \in Seq(S)
      /\ Len(l) = IF from <= m THEN m - from + 1 ELSE 0
      /\ \A i \in 1 .. m - from + 1 : l[i] = s[from + i - 1]
    <2>1. from \in Int /\ m \in Int
        BY <1>4
    <2> QED
        BY <1>5, <1>6, <2>1, SubSeqProperties
<1>8. Len(l) = c
    BY <1>3, <1>4, <1>7
<1>9. DOMAIN l = 1 .. c
    BY <1>7, <1>8, LenProperties
<1>10. \A k \in 1 .. c : m - c + k \in 1 .. m /\ l[k] = s[m - c + k]
    <2> SUFFICES ASSUME NEW k \in 1 .. c PROVE m - c + k \in 1 .. m /\ l[k] = s[m - c + k]
        OBVIOUS
    <2>1. k \in 1 .. m - from + 1 /\ from + k - 1 = m - c + k /\ m - c + k \in 1 .. m
        BY <1>3, <1>4
    <2> QED
        BY <1>7, <2>1
<1> QED
    BY <1>2, <1>3, <1>7, <1>8, <1>9, <1>10 DEF l, c

\* A total does not depend on the names of what is added.
LEMMA TotalRenamed ==
    ASSUME NEW S, IsFiniteSet(S), NEW T, IsFiniteSet(T),
           NEW F \in [S -> Int], NEW G \in [T -> Int], NEW h \in [S -> T],
           \A x, y \in S : h[x] = h[y] => x = y,
           \A y \in T : \E x \in S : y = h[x],
           \A x \in S : F[x] = G[h[x]]
    PROVE  Total(F) = Total(G)
<1> DEFINE Image(U) == {h[x] : x \in U}
           SumF(U) == Total(Part(F, U))
           SumG(U) == Total(Part(G, U))
           Differs(U) == SumF(U) # SumG(Image(U))
           Wrong == {c \in Nat : \E U \in SUBSET S : Cardinality(U) = c /\ Differs(U)}
<1>1. \A U \in SUBSET S :
         /\ Cardinality(U) \in Nat
         /\ \A x \in U : U \ {x} \in SUBSET S /\ Cardinality(U \ {x}) = Cardinality(U) - 1
    BY FiniteSubsets
<1>2. /\ Part(F, S) = F
      /\ \A U \in SUBSET S :
            /\ U = {} => SumF(U) = 0
            /\ \A x \in U : SumF(U) = F[x] + SumF(U \ {x})
    BY PartsAdd
<1>3. /\ Part(G, T) = G
      /\ \A U \in SUBSET T :
            /\ U = {} => SumG(U) = 0
            /\ \A x \in U : SumG(U) = G[x] + SumG(U \ {x})
    BY PartsAdd
<1>4. Image(S) = T /\ Image({}) = {}
    OBVIOUS
<1>5. ASSUME NEW U \in SUBSET S, NEW x \in U
      PROVE  /\ Image(U) \in SUBSET T /\ h[x] \in Image(U)
             /\ Image(U) \ {h[x]} = Image(U \ {x})
    OBVIOUS
<1> HIDE DEF SumF, SumG, Image
<1>6. ASSUME Wrong # {} PROVE FALSE
    <2>1. PICK c \in Wrong : \A d \in Wrong : c <= d
        <3>1. Wrong \in SUBSET Nat
            OBVIOUS
        <3> HIDE DEF Wrong
        <3> QED
            BY <1>6, <3>1, LeastOf
    <2>2. PICK U \in SUBSET S : c \in Nat /\ Cardinality(U) = c /\ Differs(U)
        BY <2>1
    <2>3. U # {}
        BY <1>2, <1>3, <1>4, <2>2
    <2>4. PICK x \in U : TRUE
        BY <2>3
    <2> DEFINE V == U \ {x}
    <2>5. V \in SUBSET S /\ Cardinality(V) = c - 1 /\ Cardinality(V) \in Nat
        BY <1>1, <2>2
    <2>6. ~ (c <= c - 1)
        BY <2>2
    <2>7. ~Differs(V)
        BY <2>1, <2>5, <2>6
    <2> HIDE DEF Wrong
    <2>8. SumF(U) = F[x] + SumF(V)
        BY <1>2
    <2>9. SumG(Image(U)) = G[h[x]] + SumG(Image(V))
        BY <1>3, <1>5
    <2> QED
        BY <2>2, <2>7, <2>8, <2>9
<1>7. ~Differs(S)
    BY <1>1, <1>6
<1> QED
    BY <1>2, <1>3, <1>4, <1>7 DEF SumF, SumG

\* A total is that of some of the elements and that of the others.
LEMMA TotalOfTwoParts ==
    ASSUME NEW S, IsFiniteSet(S), NEW F \in [S -> Int], NEW A \in SUBSET S
    PROVE  Total(F) = Total(Part(F, A)) + Total(Part(F, S \ A))
<1> DEFINE Fails(T) == Total(Part(F, A \cup T)) # Total(Part(F, A)) + Total(Part(F, T))
           Wrong == {c \in Nat : \E T \in SUBSET (S \ A) : Cardinality(T) = c /\ Fails(T)}
<1>1. \A T \in SUBSET S :
         /\ Cardinality(T) \in Nat
         /\ T = {} <=> Cardinality(T) = 0
         /\ \A x \in T : T \ {x} \in SUBSET S /\ Cardinality(T \ {x}) = Cardinality(T) - 1
    BY FiniteSubsets
<1>2. /\ Part(F, S) = F
      /\ \A T \in SUBSET S :
            /\ Total(Part(F, T)) \in Int
            /\ T = {} => Total(Part(F, T)) = 0
            /\ \A x \in T : Total(Part(F, T)) = F[x] + Total(Part(F, T \ {x}))
    BY PartsAdd
<1>3. ASSUME Wrong # {} PROVE FALSE
    <2>1. PICK c \in Wrong : \A d \in Wrong : c <= d
        <3>1. Wrong \in SUBSET Nat
            OBVIOUS
        <3> HIDE DEF Wrong
        <3> QED
            BY <1>3, <3>1, LeastOf
    <2>2. PICK T \in SUBSET (S \ A) : c \in Nat /\ Cardinality(T) = c /\ Fails(T)
        BY <2>1
    <2>3. T # {}
        <3>1. ASSUME T = {} PROVE FALSE
            <4>1. A \cup T = A /\ Total(Part(F, T)) = 0 /\ Total(Part(F, A)) \in Int
                BY <1>2, <3>1
            <4> QED
                BY <2>2, <4>1
        <3> QED
            BY <3>1
    <2>4. PICK x \in T : TRUE
        BY <2>3
    <2> DEFINE U == T \ {x}
    <2>5. U \in SUBSET (S \ A) /\ Cardinality(U) = c - 1 /\ Cardinality(U) \in Nat
        BY <1>1, <2>2
    <2>6. ~ (c <= c - 1)
        BY <2>2
    <2>7. ~Fails(U)
        BY <2>1, <2>5, <2>6
    <2>8. (A \cup T) \ {x} = A \cup U /\ x \in A \cup T /\ A \cup T \in SUBSET S
        BY <2>2
    <2>9. /\ Total(Part(F, A \cup T)) = F[x] + Total(Part(F, (A \cup T) \ {x}))
          /\ Total(Part(F, T)) = F[x] + Total(Part(F, U))
        BY <1>2, <2>8
    <2>10. /\ F[x] \in Int /\ Total(Part(F, A)) \in Int
           /\ Total(Part(F, A \cup U)) \in Int /\ Total(Part(F, U)) \in Int
        BY <1>2, <2>5, <2>8
    <2> DEFINE ofA == Total(Part(F, A))
               both == Total(Part(F, A \cup U))
               ofU == Total(Part(F, U))
    <2>11. Total(Part(F, A \cup T)) = F[x] + both /\ Total(Part(F, T)) = F[x] + ofU
        BY <2>8, <2>9
    <2>12. both = ofA + ofU
        BY <2>7
    <2> HIDE DEF both, ofU, ofA
    <2>13. F[x] + both = ofA + (F[x] + ofU)
        BY <2>10, <2>12 DEF both, ofU, ofA
    <2> QED
        BY <2>2, <2>11, <2>13 DEF ofA
<1>4. ~Fails(S \ A)
    <2>1. S \ A \in SUBSET (S \ A) /\ S \ A \in SUBSET S
        OBVIOUS
    <2> QED
        BY <1>1, <1>3, <2>1
<1>5. A \cup (S \ A) = S
    OBVIOUS
<1> QED
    BY <1>2, <1>4, <1>5

\* The closes of some bins, bin by bin.
ClosesOf(rows, bins, indices) == [j \in indices |-> rows[Max(bins[j])].close]

LEMMA ClosesIsTotal ==
    ASSUME NEW rows, NEW bins, NEW indices, IsFiniteSet(indices),
           \A j \in indices : rows[Max(bins[j])].close \in Int
    PROVE  Closes(rows, bins, indices) = Total(ClosesOf(rows, bins, indices))
<1> DEFINE F == ClosesOf(rows, bins, indices)
<1>1. F \in [indices -> Int]
    BY DEF ClosesOf
<1>2. PICK g \in [SUBSET indices -> Int] : Adds(g, F, indices)
    BY <1>1, SumsExist
<1> DEFINE it == CHOOSE iter : iter = [T \in SUBSET indices |->
                     IF T = {} THEN 0
                     ELSE rows[Max(bins[CHOOSE x \in T : TRUE])].close
                          + iter[T \ {CHOOSE x \in T : TRUE}]]
<1>3. Closes(rows, bins, indices) = it[indices]
    BY DEF Closes, MapThenSumSet, MapThenFoldSet
<1>4. \A T \in SUBSET indices : T # {} => F[SomeOf(T)] = rows[Max(bins[CHOOSE x \in T : TRUE])].close
    BY DEF ClosesOf, SomeOf
<1>5. g = [T \in SUBSET indices |->
              IF T = {} THEN 0
              ELSE rows[Max(bins[CHOOSE x \in T : TRUE])].close + g[T \ {CHOOSE x \in T : TRUE}]]
    BY <1>2, <1>4 DEF Adds, SomeOf
<1>6. it = [T \in SUBSET indices |->
               IF T = {} THEN 0
               ELSE rows[Max(bins[CHOOSE x \in T : TRUE])].close + it[T \ {CHOOSE x \in T : TRUE}]]
    BY <1>5
<1> HIDE DEF it, F
<1>7. Adds(it, F, indices)
    BY <1>4, <1>6 DEF Adds, SomeOf
<1>8. Total(F) = it[indices]
    BY <1>1, <1>7, TotalIsSum
<1> QED
    BY <1>3, <1>8 DEF F

-------------------------------------------------------------------------------
(***************************************************************************)
(* Candles                                                                 *)
(***************************************************************************)
\* The candle of a time: the only one it lies in; a time in an earlier candle is
\* before all of a later one; whole candles back are whole lengths back.
LEMMA CandleOfTime ==
    ASSUME NEW d \in Nat \ {0}, NEW t \in Int
    PROVE  /\ AlignToInterval(t, d) \in Int /\ t - (t % d) = AlignToInterval(t, d)
           /\ AlignToInterval(t, d) <= t /\ t < AlignToInterval(t, d) + d
           /\ \A p \in Int : p * d <= t /\ t < p * d + d => AlignToInterval(t, d) = p * d
           /\ AlignToInterval(t, d) = (t \div d) * d /\ t \div d \in Int
<1>1. AlignToInterval(t, d) = (t \div d) * d /\ t \div d \in Int
    BY DivBounds DEF AlignToInterval
<1>2. (t \div d) * d \in Int /\ (t \div d) * d <= t /\ t < (t \div d) * d + d
    BY DivBounds
<1>3. t - (t % d) = (t \div d) * d
    OBVIOUS
<1>4. ASSUME NEW p \in Int, p * d <= t, t < p * d + d
      PROVE  t \div d = p
    <2> DEFINE q == t \div d
    <2>1. q \in Int /\ q * d \in Int /\ p * d \in Int /\ q * d <= t /\ t < q * d + d
        BY <1>1, <1>2
    <2> HIDE DEF q
    <2>2. (q + 1) * d = q * d + d /\ (p + 1) * d = p * d + d
        BY <2>1
    <2>3. ~ ((q + 1) * d <= p * d) /\ ~ ((p + 1) * d <= q * d)
        BY <1>4, <2>1, <2>2
    <2>4. ~ (q + 1 <= p) /\ ~ (p + 1 <= q)
        <3>1. q + 1 \in Int /\ p + 1 \in Int
            BY <2>1
        <3> QED
            BY <2>1, <2>3, <3>1, TimesMonotone
    <2>5. q = p
        BY <2>1, <2>4
    <2> QED
        BY <2>5 DEF q
<1> QED
    BY <1>1, <1>2, <1>3, <1>4

LEMMA CandlesInOrder ==
    ASSUME NEW d \in Nat \ {0}, NEW t \in Int, NEW u \in Int
    PROVE  /\ AlignToInterval(t, d) < AlignToInterval(u, d) => t < AlignToInterval(u, d)
           /\ t <= u => AlignToInterval(t, d) <= AlignToInterval(u, d)
           /\ \A k \in Int : AlignToInterval(t - k * d, d) = AlignToInterval(t, d) - k * d
<1> DEFINE p == t \div d
           q == u \div d
           a == AlignToInterval(t, d)
           b == AlignToInterval(u, d)
<1>1. p \in Int /\ q \in Int /\ a = p * d /\ b = q * d /\ a <= t /\ t < a + d /\ b <= u /\ u < b + d
    BY CandleOfTime
<1>2. a \in Int /\ b \in Int
    BY CandleOfTime
<1> HIDE DEF p, q, a, b
<1>3. a < b => t < b
    <2>1. ASSUME a < b PROVE t < b
        <3>1. ~ (q <= p)
            BY <1>1, <1>2, <2>1, TimesMonotone
        <3>2. p + 1 <= q /\ p + 1 \in Int
            BY <1>1, <3>1
        <3>3. (p + 1) * d <= q * d
            BY <1>1, <3>2, TimesMonotone
        <3>4. (p + 1) * d = p * d + d
            BY <1>1
        <3> QED
            BY <1>1, <1>2, <3>3, <3>4
    <2> QED
        BY <2>1
<1>4. t <= u => a <= b
    <2>1. ASSUME t <= u, b < a PROVE FALSE
        <3>1. ~ (p <= q)
            BY <1>1, <1>2, <2>1, TimesMonotone
        <3>2. q + 1 <= p /\ q + 1 \in Int
            BY <1>1, <3>1
        <3>3. (q + 1) * d <= p * d
            BY <1>1, <3>2, TimesMonotone
        <3>4. (q + 1) * d = q * d + d
            BY <1>1
        <3> QED
            BY <1>1, <1>2, <2>1, <3>3, <3>4
    <2> QED
        BY <1>2, <2>1
<1>5. ASSUME NEW k \in Int
      PROVE  AlignToInterval(t - k * d, d) = a - k * d
    <2> DEFINE e == k * d
    <2>1. e \in Int /\ (p - k) * d = p * d - k * d /\ p - k \in Int
        BY <1>1
    <2> HIDE DEF e
    <2>2. t - e \in Int /\ (p - k) * d = a - e
        BY <1>1, <1>2, <2>1 DEF e
    <2>3. (p - k) * d <= t - e /\ t - e < (p - k) * d + d
        BY <1>1, <1>2, <2>1, <2>2
    <2>4. AlignToInterval(t - e, d) = (p - k) * d
        BY <2>1, <2>2, <2>3, CandleOfTime
    <2> QED
        BY <2>2, <2>4 DEF e
<1> QED
    BY <1>3, <1>4, <1>5 DEF a, b

\* Some bars of a symbol, and a length of candles.
History(n, bars, stride) == n \in Nat /\ bars \in SUBSET (0 .. n) /\ stride \in Nat \ {0}

\* The candles of some bars, and the bars of a candle.
CandlesOf(bars, stride) == {AlignToInterval(t, stride) : t \in bars}

LEMMA BarsOfCandle ==
    ASSUME NEW n, NEW bars, NEW stride, History(n, bars, stride)
    PROVE  /\ CandlesOf(bars, stride) \in SUBSET (0 .. n)
           /\ CandlesOf(bars, stride) = {t - (t % stride) : t \in bars}
           /\ \A b \in CandlesOf(bars, stride) :
                 /\ Bin(bars, stride, b) # {} /\ Bin(bars, stride, b) \in SUBSET bars
                 /\ Bin(bars, stride, b) = {t \in bars : b <= t /\ t < b + stride}
<1> n \in Nat /\ bars \in SUBSET (0 .. n) /\ stride \in Nat \ {0}
    BY DEF History
<1>1. \A t \in bars : t \in Int /\ 0 <= t /\ t <= n
    OBVIOUS
<1>2. CandlesOf(bars, stride) \in SUBSET (0 .. n)
    <2>1. ASSUME NEW t \in bars PROVE AlignToInterval(t, stride) \in 0 .. n
        <3>1. /\ AlignToInterval(t, stride) \in Int /\ 0 <= AlignToInterval(t, stride)
              /\ AlignToInterval(t, stride) <= t
            BY <1>1, FirstBarNotNegative, CandleOfTime
        <3> QED
            BY <1>1, <3>1
    <2> QED
        BY <2>1 DEF CandlesOf
<1>3. CandlesOf(bars, stride) = {t - (t % stride) : t \in bars}
    <2>1. \A t \in bars : AlignToInterval(t, stride) = t - (t % stride)
        BY <1>1, CandleOfTime
    <2> QED
        BY <2>1 DEF CandlesOf
<1>4. ASSUME NEW b \in CandlesOf(bars, stride)
      PROVE  /\ Bin(bars, stride, b) # {} /\ Bin(bars, stride, b) \in SUBSET bars
             /\ Bin(bars, stride, b) = {t \in bars : b <= t /\ t < b + stride}
    <2>1. PICK u \in bars : b = AlignToInterval(u, stride)
        BY DEF CandlesOf
    <2>2. b = (u \div stride) * stride /\ u \div stride \in Int
        BY <1>1, <2>1, CandleOfTime
    <2>3. ASSUME NEW t \in bars
          PROVE  AlignToInterval(t, stride) = b <=> b <= t /\ t < b + stride
        <3>1. /\ AlignToInterval(t, stride) <= t /\ t < AlignToInterval(t, stride) + stride
              /\ \A p \in Int : p * stride <= t /\ t < p * stride + stride
                                => AlignToInterval(t, stride) = p * stride
            BY <1>1, CandleOfTime
        <3> QED
            BY <2>2, <3>1
    <2> QED
        BY <2>1, <2>3 DEF Bin
<1> QED
    BY <1>2, <1>3, <1>4

\* The rows getCandles reads: it looks back length bars from the newest one.
WindowOf(bars, length) == After(bars, Max(bars) - length)

\* The window takes the last candles; all but its first one keep every bar.
LEMMA WindowKeepsCandles ==
    ASSUME NEW n, NEW bars, NEW stride, History(n, bars, stride), bars # {},
           NEW length \in Nat \ {0}
    PROVE  LET W == WindowOf(bars, length)
               V == CandlesOf(W, stride)
               B == CandlesOf(bars, stride)
           IN  /\ W \in SUBSET bars /\ Max(bars) \in W /\ V \in SUBSET B /\ V # {}
               /\ \A x \in B, v \in V : v <= x => x \in V
               /\ \A u, v \in V : u < v => Bin(W, stride, v) = Bin(bars, stride, v)
<1> DEFINE newest == Max(bars)
           W == WindowOf(bars, length)
           V == CandlesOf(W, stride)
           B == CandlesOf(bars, stride)
<1> n \in Nat /\ bars \in SUBSET (0 .. n) /\ stride \in Nat \ {0}
    BY DEF History
<1>1. newest \in bars /\ \A t \in bars : t <= newest /\ t \in Int
    <2>1. newest \in bars /\ \A t \in bars : t <= newest
        BY EndsOf
    <2> HIDE DEF newest
    <2> QED
        BY <2>1
<1>2. /\ W \in SUBSET bars
      /\ \A t \in bars : t \in W <=> t > newest - length
    BY DEF WindowOf, After
<1>3. /\ newest \in W
      /\ \A t \in W, u \in bars : t <= u => u \in W
    <2> HIDE DEF newest, W
    <2>1. newest \in Int
        BY <1>1
    <2> QED
        BY <1>1, <1>2, <2>1
<1>4. V \in SUBSET B /\ V # {}
    BY <1>2, <1>3 DEF CandlesOf
<1>5. /\ \A v \in V : \E t \in W : v = AlignToInterval(t, stride)
      /\ \A v \in B : \E t \in bars : v = AlignToInterval(t, stride)
      /\ \A t \in W : AlignToInterval(t, stride) \in V
    BY DEF CandlesOf
<1> HIDE DEF newest, W, V, B
<1>6. ASSUME NEW t \in W, NEW u \in bars, AlignToInterval(t, stride) < AlignToInterval(u, stride)
      PROVE  u \in W
    <2>1. t \in Int /\ u \in Int
        BY <1>1, <1>2
    <2>2. /\ t < AlignToInterval(u, stride) /\ AlignToInterval(u, stride) <= u
          /\ AlignToInterval(u, stride) \in Int
        BY <1>6, <2>1, CandlesInOrder, CandleOfTime
    <2>3. t <= u
        BY <2>1, <2>2
    <2> QED
        BY <1>3, <2>3
<1>7. ASSUME NEW x \in B, NEW v \in V, v <= x
      PROVE  x \in V
    <2>1. CASE x = v
        BY <2>1
    <2>2. CASE v < x
        <3>1. PICK t \in W : v = AlignToInterval(t, stride)
            BY <1>5
        <3>2. PICK u \in bars : x = AlignToInterval(u, stride)
            BY <1>5
        <3> QED
            BY <1>5, <1>6, <2>2, <3>1, <3>2
    <2>3. x \in Int /\ v \in Int
        <3>1. B \in SUBSET (0 .. n)
            BY BarsOfCandle DEF B
        <3> QED
            BY <1>4, <3>1
    <2> QED
        BY <1>7, <2>1, <2>2, <2>3
<1>8. ASSUME NEW u \in V, NEW v \in V, u < v
      PROVE  Bin(W, stride, v) = Bin(bars, stride, v)
    <2>1. PICK t \in W : u = AlignToInterval(t, stride)
        BY <1>5
    <2>2. ASSUME NEW x \in bars, AlignToInterval(x, stride) = v PROVE x \in W
        BY <1>6, <1>8, <2>1, <2>2
    <2> QED
        BY <1>2, <2>2 DEF Bin
<1> QED
    BY <1>2, <1>3, <1>4, <1>7, <1>8 DEF newest, W, V, B

\* Where no bar is missing, a window that cuts the history has a candle for each
\* length of one it looks back.
LEMMA WindowFull ==
    ASSUME NEW n, NEW bars, NEW stride, History(n, bars, stride), bars # {},
           Contiguous(bars), NEW c \in Nat \ {0}, WindowOf(bars, c * stride) # bars
    PROVE  c <= Cardinality(CandlesOf(WindowOf(bars, c * stride), stride))
<1> DEFINE newest == Max(bars)
           length == c * stride
           W == WindowOf(bars, length)
           V == CandlesOf(W, stride)
           f == [i \in 1 .. c |-> AlignToInterval(newest, stride) - (i - 1) * stride]
<1> n \in Nat /\ bars \in SUBSET (0 .. n) /\ stride \in Nat \ {0}
    BY DEF History
<1>1. newest \in bars /\ \A t \in bars : t <= newest /\ t \in Int /\ 0 <= t /\ t <= n
    <2>1. newest \in bars /\ \A t \in bars : t <= newest
        BY EndsOf
    <2> HIDE DEF newest
    <2> QED
        BY <2>1
<1>2. length \in Nat \ {0}
    <2>1. 0 * stride = 0 /\ length \in Int
        OBVIOUS
    <2>2. ~ (length <= 0 * stride)
        BY TimesMonotone
    <2> QED
        BY <2>1, <2>2
<1>3. /\ W \in SUBSET bars
      /\ \A t \in bars : t \in W <=> t > newest - length
    BY DEF WindowOf, After
<1>4. PICK x \in bars : x \notin W
    BY <1>3
<1> DEFINE oldest == Min(bars)
<1>5. bars = oldest .. newest /\ oldest \in bars /\ oldest <= x
    BY EndsOf DEF Contiguous
<1>6. AlignToInterval(newest, stride) \in Int
    BY <1>1, CandleOfTime
<1> HIDE DEF newest, length, oldest
<1>7. ASSUME NEW i \in 1 .. c
      PROVE  f[i] \in V /\ (i - 1) * stride \in Int
    <2> DEFINE back == (i - 1) * stride
    <2>1. back \in Int /\ i - 1 \in Int /\ 0 <= i - 1 /\ i - 1 < c /\ c \in Int
        OBVIOUS
    <2>2. 0 <= back /\ back < length
        <3>1. 0 * stride <= back
            BY <2>1, TimesMonotone
        <3>2. ~ (c * stride <= back)
            <4>1. ~ (c <= i - 1)
                BY <2>1
            <4> QED
                BY <2>1, <4>1, TimesMonotone
        <3>3. 0 * stride = 0 /\ length \in Int
            BY <1>2
        <3> QED
            BY <2>1, <3>1, <3>2, <3>3 DEF length
    <2> HIDE DEF back
    <2>3. newest - back \in bars
        <3>1. x <= newest - length
            BY <1>1, <1>2, <1>3, <1>4
        <3>2. oldest \in Int /\ newest \in Int /\ x \in Int /\ length \in Int
            BY <1>1, <1>2, <1>5
        <3>3. newest - length <= newest - back
            BY <2>1, <2>2, <3>2
        <3>4. oldest <= newest - back /\ newest - back <= newest /\ newest - back \in Int
            BY <1>5, <2>1, <2>2, <3>1, <3>2, <3>3
        <3> QED
            BY <1>5, <3>2, <3>4
    <2>4. newest - back \in W
        <3>1. newest - back > newest - length
            BY <1>1, <1>2, <2>1, <2>2
        <3> QED
            BY <1>3, <2>3, <3>1
    <2>5. AlignToInterval(newest - back, stride) = AlignToInterval(newest, stride) - back
        <3>1. newest \in Int
            BY <1>1
        <3> QED
            BY <2>1, <3>1, CandlesInOrder DEF back
    <2>6. f[i] = AlignToInterval(newest, stride) - back
        BY DEF back
    <2> HIDE DEF W, f
    <2>7. f[i] \in V
        BY <2>4, <2>5, <2>6 DEF CandlesOf
    <2> QED
        BY <2>1, <2>7 DEF back
<1>8. ASSUME NEW i \in 1 .. c, NEW j \in 1 .. c, f[i] = f[j]
      PROVE  i = j
    <2>1. (i - 1) * stride = (j - 1) * stride
        BY <1>6, <1>7, <1>8
    <2>2. i - 1 <= j - 1 /\ j - 1 <= i - 1
        <3>1. i - 1 \in Int /\ j - 1 \in Int
            OBVIOUS
        <3>2. (i - 1) * stride <= (j - 1) * stride /\ (j - 1) * stride <= (i - 1) * stride
            BY <1>7, <2>1
        <3> QED
            BY <3>1, <3>2, TimesMonotone
    <2> QED
        BY <2>2
<1>9. f \in [1 .. c -> V]
    BY <1>7
<1>10. IsFiniteSet(V)
    <2>1. W \in SUBSET (0 .. n)
        BY <1>3
    <2> HIDE DEF W
    <2>2. V \in SUBSET (0 .. n)
        <3>1. History(n, W, stride)
            BY <2>1 DEF History
        <3> QED
            BY <3>1, BarsOfCandle
    <2> HIDE DEF V
    <2> QED
        BY <2>2, FinitePart
<1> HIDE DEF f, V, W
<1>11. f \in Injection(1 .. c, V)
    BY <1>8, <1>9, Fun_IsInj
<1>12. Cardinality(1 .. c) <= Cardinality(V)
    BY <1>10, <1>11, FS_Injection
<1>13. Cardinality(1 .. c) = c
    <2>1. Cardinality(1 .. c) = IF 1 > c THEN 0 ELSE c - 1 + 1
        BY FS_Interval
    <2> QED
        BY <2>1
<1> QED
    BY <1>12, <1>13 DEF V, W, length

\* getCandles answers with the last candles of its window, which are the last of the
\* history.
LEMMA CandlesShown ==
    ASSUME NEW n, NEW bars, NEW stride, History(n, bars, stride), bars # {},
           NEW rows, DOMAIN rows = bars,
           NEW limit \in Nat \ {0}, NEW period \in Nat \ {0}
    PROVE  LET take == LesserOf(limit, MaxCandles)
               W == WindowOf(bars, (take + period) * stride)
               inWindow == Cardinality(CandlesOf(W, stride))
               inAll == Cardinality(CandlesOf(bars, stride))
               starts == Ascending(CandlesOf(bars, stride))
               got == GetCandles(rows, stride, limit, period)
           IN  /\ take \in Nat \ {0} /\ inWindow \in Nat \ {0} /\ inAll \in Nat /\ inWindow <= inAll
               /\ DOMAIN got = 1 .. Len(got) /\ Len(got) \in Nat \ {0} /\ Len(got) <= inWindow
               /\ Len(got) = LesserOf(inWindow, take)
               /\ \A k \in 1 .. Len(got) :
                     /\ inAll - Len(got) + k \in 1 .. inAll
                     /\ inWindow - Len(got) + k \in 1 .. inWindow
                     /\ got[k].openTime = starts[inAll - Len(got) + k]
                     /\ got[k].openTime = Ascending(CandlesOf(W, stride))[inWindow - Len(got) + k]
                     /\ got[k].bar = FoldRows(rows, Bin(W, stride, got[k].openTime))
                     /\ got[k].ma = MovingAverage(rows, W, stride, period, inWindow - Len(got) + k)
<1> DEFINE take == LesserOf(limit, MaxCandles)
           length == (take + period) * stride
           W == WindowOf(bars, length)
           V == CandlesOf(W, stride)
           B == CandlesOf(bars, stride)
           m == Cardinality(V)
           folded == FoldCandles(rows, W, stride, period)
           got == GetCandles(rows, stride, limit, period)
           c == LesserOf(m, take)
<1> n \in Nat /\ bars \in SUBSET (0 .. n) /\ stride \in Nat \ {0}
    BY DEF History
<1>1. take \in Nat \ {0} /\ Clamp(limit, 1, MaxCandles) = take
    <2>1. MaxCandles \in Nat \ {0}
        BY AnalyticsAssumption
    <2> QED
        BY <2>1 DEF LesserOf, GreaterOf, Clamp
<1>2. got = LastOf(folded, take)
    BY <1>1 DEF GetCandles, WindowOf
<1> HIDE DEF take, got
<1>3. length \in Nat \ {0}
    <2>1. take + period \in Nat \ {0} /\ 0 * stride = 0 /\ length \in Int
        BY <1>1
    <2>2. ~ (length <= 0 * stride)
        <3>1. ~ (take + period <= 0)
            BY <2>1
        <3> QED
            BY <2>1, <3>1, TimesMonotone
    <2> QED
        BY <2>1, <2>2
<1> HIDE DEF length
<1>4. /\ W \in SUBSET bars /\ Max(bars) \in W /\ V \in SUBSET B /\ V # {}
      /\ \A x \in B, v \in V : v <= x => x \in V
      /\ \A u, v \in V : u < v => Bin(W, stride, v) = Bin(bars, stride, v)
    BY <1>3, WindowKeepsCandles
<1> HIDE DEF W
<1>5. B \in SUBSET (0 .. n)
    BY BarsOfCandle
<1> HIDE DEF V, B
<1>6. V \in SUBSET (0 .. n)
    BY <1>4, <1>5
<1>7. /\ m \in Nat /\ Cardinality(B) \in Nat /\ m <= Cardinality(B)
      /\ \A k \in 1 .. m : /\ Cardinality(B) - m + k \in 1 .. Cardinality(B)
                           /\ Ascending(V)[k] = Ascending(B)[Cardinality(B) - m + k]
    BY <1>4, <1>5, UpperPartLast
<1>8. m # 0
    <2>1. IsFiniteSet(V)
        BY <1>6, FinitePart
    <2> QED
        BY <1>4, <2>1, FS_EmptySet
<1>9. DOMAIN Ascending(V) = 1 .. m
    BY DEF Ascending
<1> DEFINE Candle(k) == [openTime |-> Ascending(V)[k],
                         bar      |-> FoldRows(rows, Bin(W, stride, Ascending(V)[k])),
                         ma       |-> MovingAverage(rows, W, stride, period, k)]
           S == {Candle(k) : k \in 1 .. m}
<1>10. folded = [k \in 1 .. m |-> Candle(k)]
    BY <1>9 DEF FoldCandles, Buckets, CandlesOf, V
<1>11. folded \in [1 .. m -> S]
    <2> HIDE DEF Candle, folded
    <2> QED
        BY <1>10
<1> HIDE DEF folded, S, Candle
<1>12. /\ c \in Nat /\ c <= m /\ c <= take /\ (c = m \/ c = take)
       /\ Len(got) = c /\ DOMAIN got = 1 .. c
       /\ \A k \in 1 .. c : m - c + k \in 1 .. m /\ got[k] = folded[m - c + k]
    <2> HIDE DEF m
    <2>1. Lists(folded, m, S) /\ take \in Nat \ {0} /\ m \in Nat
        BY <1>1, <1>7, <1>11 DEF Lists
    <2>2. /\ c \in Nat /\ c <= m /\ c <= take /\ (c = m \/ c = take)
          /\ Len(folded) = m /\ Len(LastOf(folded, take)) = c /\ DOMAIN LastOf(folded, take) = 1 .. c
          /\ LastOf(folded, take) \in Seq(S)
          /\ \A k \in 1 .. c : /\ m - c + k \in 1 .. m
                              /\ LastOf(folded, take)[k] = folded[m - c + k]
        BY <2>1, LastOfElements
    <2> QED
        BY <1>2, <2>2
<1> HIDE DEF c, m
<1>13. c # 0
    BY <1>1, <1>8, <1>12
<1>14. ASSUME NEW k \in 1 .. c
       PROVE  /\ Cardinality(B) - c + k \in 1 .. Cardinality(B)
              /\ got[k].openTime = Ascending(B)[Cardinality(B) - c + k]
              /\ got[k].openTime = Ascending(V)[m - c + k]
              /\ got[k].bar = FoldRows(rows, Bin(W, stride, got[k].openTime))
              /\ got[k].ma = MovingAverage(rows, W, stride, period, m - c + k)
    <2> DEFINE j == m - c + k
    <2>1. j \in 1 .. m /\ got[k] = Candle(j)
        BY <1>10, <1>12
    <2>2. Cardinality(B) - m + j = Cardinality(B) - c + k
        BY <1>7, <1>12
    <2> HIDE DEF j
    <2>3. /\ got[k].openTime = Ascending(V)[j]
          /\ got[k].bar = FoldRows(rows, Bin(W, stride, Ascending(V)[j]))
          /\ got[k].ma = MovingAverage(rows, W, stride, period, j)
        BY <2>1 DEF Candle
    <2>4. /\ Cardinality(B) - c + k \in 1 .. Cardinality(B)
          /\ Ascending(V)[j] = Ascending(B)[Cardinality(B) - c + k]
        BY <1>7, <2>1, <2>2
    <2> QED
        BY <2>3, <2>4 DEF j
<1> QED
    BY <1>1, <1>7, <1>8, <1>12, <1>13, <1>14 DEF take, W, V, B, m, c, got, length

\* Its candles but those the window cuts hold all their bars; without a missing bar
\* none is cut, and as many come as were asked for or there are.
LEMMA CandlesHoldTheirBars ==
    ASSUME NEW n, NEW bars, NEW stride, History(n, bars, stride), bars # {},
           NEW rows, DOMAIN rows = bars,
           NEW limit \in Nat \ {0}, NEW period \in Nat \ {0}
    PROVE  LET take == LesserOf(limit, MaxCandles)
               W == WindowOf(bars, (take + period) * stride)
               inWindow == Cardinality(CandlesOf(W, stride))
               inAll == Cardinality(CandlesOf(bars, stride))
               order == Ascending(CandlesOf(W, stride))
               got == GetCandles(rows, stride, limit, period)
           IN  /\ \A j \in 1 .. inWindow : j > 1 \/ W = bars =>
                     Bin(W, stride, order[j]) = Bin(bars, stride, order[j])
               /\ Contiguous(bars) =>
                     /\ Len(got) = LesserOf(take, inAll)
                     /\ W = bars \/ inWindow - Len(got) >= period
<1> DEFINE take == LesserOf(limit, MaxCandles)
           length == (take + period) * stride
           W == WindowOf(bars, length)
           V == CandlesOf(W, stride)
           B == CandlesOf(bars, stride)
           m == Cardinality(V)
           got == GetCandles(rows, stride, limit, period)
<1> n \in Nat /\ bars \in SUBSET (0 .. n) /\ stride \in Nat \ {0}
    BY DEF History
<1>1. /\ take \in Nat \ {0} /\ m \in Nat \ {0} /\ Cardinality(B) \in Nat /\ m <= Cardinality(B)
      /\ Len(got) = LesserOf(m, take)
    <2>1. /\ take \in Nat \ {0} /\ m \in Nat \ {0} /\ Cardinality(B) \in Nat /\ m <= Cardinality(B)
          /\ DOMAIN got = 1 .. Len(got) /\ Len(got) \in Nat \ {0} /\ Len(got) <= m
          /\ Len(got) = LesserOf(m, take)
          /\ \A k \in 1 .. Len(got) :
                /\ Cardinality(B) - Len(got) + k \in 1 .. Cardinality(B)
                /\ m - Len(got) + k \in 1 .. m
                /\ got[k].openTime = Ascending(B)[Cardinality(B) - Len(got) + k]
                /\ got[k].openTime = Ascending(V)[m - Len(got) + k]
                /\ got[k].bar = FoldRows(rows, Bin(W, stride, got[k].openTime))
                /\ got[k].ma = MovingAverage(rows, W, stride, period, m - Len(got) + k)
        BY CandlesShown
    <2> QED
        BY <2>1
<1>2. take + period \in Nat \ {0}
    BY <1>1
<1>3. length \in Nat \ {0}
    <2> HIDE DEF take
    <2>1. 0 * stride = 0 /\ length \in Int
        BY <1>2
    <2>2. ~ (length <= 0 * stride)
        <3>1. ~ (take + period <= 0)
            BY <1>2
        <3> QED
            BY <1>2, <3>1, TimesMonotone
    <2> QED
        BY <2>1, <2>2
<1>4. V \in SUBSET B /\ \A u, v \in V : u < v => Bin(W, stride, v) = Bin(bars, stride, v)
    <2> HIDE DEF length
    <2>1. /\ W \in SUBSET bars /\ Max(bars) \in W /\ V \in SUBSET B /\ V # {}
          /\ \A x \in B, v \in V : v <= x => x \in V
          /\ \A u, v \in V : u < v => Bin(W, stride, v) = Bin(bars, stride, v)
        BY <1>3, WindowKeepsCandles
    <2> QED
        BY <2>1
<1>5. B \in SUBSET (0 .. n)
    BY BarsOfCandle
<1> HIDE DEF B
<1>6. V \in SUBSET (0 .. n)
    BY <1>4, <1>5
<1> HIDE DEF V
<1>7. ASSUME NEW j \in 1 .. m, j > 1 \/ W = bars
      PROVE  Bin(W, stride, Ascending(V)[j]) = Bin(bars, stride, Ascending(V)[j])
    <2>1. CASE W = bars
        BY <2>1
    <2>2. CASE j > 1
        <3>1. j - 1 \in 1 .. m /\ j - 1 < j
            BY <1>1, <2>2
        <3>2. /\ Ascending(V)[j] \in V /\ Ascending(V)[j - 1] \in V
              /\ Ascending(V)[j - 1] < Ascending(V)[j]
            BY <1>6, <3>1, AscendingByRank
        <3> QED
            BY <1>4, <3>2
    <2> QED
        BY <1>7, <2>1, <2>2
<1>8. ASSUME Contiguous(bars), W # bars
      PROVE  take + period <= m
    <2> HIDE DEF take
    <2> QED
        BY <1>2, <1>8, WindowFull DEF V
<1>9. W = bars => m = Cardinality(B)
    BY DEF V, B
<1>10. ASSUME Contiguous(bars)
       PROVE  /\ Len(got) = LesserOf(take, Cardinality(B))
              /\ W = bars \/ m - Len(got) >= period
    <2> HIDE DEF take, m, got, W
    <2>1. CASE W = bars
        BY <1>1, <1>9, <2>1 DEF LesserOf
    <2>2. CASE W # bars
        BY <1>1, <1>8, <1>10, <2>2 DEF LesserOf
    <2> QED
        BY <2>1, <2>2
<1> QED
    BY <1>7, <1>10 DEF V, B

LEMMA ListLength ==
    ASSUME NEW m, NEW S, NEW s, Lists(s, m, S)
    PROVE  Len(s) = m /\ DOMAIN s = 1 .. m
<1>1. m \in Nat /\ s \in [1 .. m -> S]
    BY DEF Lists
<1>2. s \in Seq(S)
    BY <1>1, SeqDef
<1>3. Len(s) \in Nat /\ DOMAIN s = 1 .. Len(s)
    BY <1>2, LenProperties
<1>4. 1 .. Len(s) = 1 .. m
    BY <1>1, <1>3
<1> QED
    BY <1>1, <1>3, <1>4

\* What the rows of a table hold.
LEMMA RowsOfTable ==
    ASSUME NEW s, NEW bars, NEW t \in bars, t \in Nat
    PROVE  /\ Table(s, bars)[t].close \in Int /\ Table(s, bars)[t].high \in Int
           /\ Table(s, bars)[t].low \in Int /\ Table(s, bars)[t].volume = 2 ^ t
<1>1. Price(s, t) \in Int /\ Price(s, t + 1) \in Int
    BY DEF Price
<1>2. t % 2 \in Int
    OBVIOUS
<1>3. /\ GreaterOf(Price(s, t), Price(s, t + 1)) \in Int
      /\ LesserOf(Price(s, t), Price(s, t + 1)) \in Int
    BY <1>1 DEF GreaterOf, LesserOf
<1>4. Table(s, bars)[t] = Row(s, t, Max(bars))
    BY DEF Table
<1> QED
    BY <1>1, <1>2, <1>3, <1>4 DEF Row

\* The same bins under other numbers have the same closes.
Renumbered(rows, bins, full, a, b, d) ==
    /\ a \in Int /\ b \in Int /\ d \in Int
    /\ \A i \in a .. b : bins[i] = full[d + i] /\ rows[Max(bins[i])].close \in Int

LEMMA ClosesRenumbered ==
    ASSUME NEW rows, NEW bins, NEW full, NEW a, NEW b, NEW d, Renumbered(rows, bins, full, a, b, d)
    PROVE  Closes(rows, bins, a .. b) = Closes(rows, full, d + a .. d + b)
<1> /\ a \in Int /\ b \in Int /\ d \in Int
    /\ \A i \in a .. b : bins[i] = full[d + i] /\ rows[Max(bins[i])].close \in Int
    BY DEF Renumbered
<1> DEFINE I == a .. b
           J == d + a .. d + b
           F == ClosesOf(rows, bins, I)
           G == ClosesOf(rows, full, J)
           h == [i \in I |-> d + i]
<1>1. IsFiniteSet(I) /\ IsFiniteSet(J)
    BY FS_Interval
<1>2. \A j \in J : j - d \in I /\ d + (j - d) = j
    OBVIOUS
<1>3. \A i \in I : i \in Int /\ d + i \in J /\ bins[i] = full[d + i] /\ rows[Max(bins[i])].close \in Int
    OBVIOUS
<1>4. \A j \in J : rows[Max(full[j])].close \in Int
    BY <1>2, <1>3
<1>5. /\ Closes(rows, bins, I) = Total(F)
      /\ Closes(rows, full, J) = Total(G)
    BY <1>1, <1>3, <1>4, ClosesIsTotal
<1> HIDE DEF I, J
<1>6. F \in [I -> Int] /\ G \in [J -> Int] /\ h \in [I -> J]
    BY <1>3, <1>4 DEF ClosesOf
<1>7. \A i, j \in I : h[i] = h[j] => i = j
    BY <1>3
<1>8. \A j \in J : \E i \in I : j = h[i]
    BY <1>2
<1>9. \A i \in I : F[i] = G[h[i]]
    BY <1>3 DEF ClosesOf
<1> HIDE DEF F, G, h
<1>10. Total(F) = Total(G)
    BY <1>1, <1>6, <1>7, <1>8, <1>9, TotalRenamed
<1> QED
    BY <1>5, <1>10 DEF I, J

\* The bins of the whole history, in order.
FullBins(bars, stride) ==
    [j \in DOMAIN Ascending(CandlesOf(bars, stride)) |->
        {t \in bars : /\ Ascending(CandlesOf(bars, stride))[j] <= t
                      /\ t < Ascending(CandlesOf(bars, stride))[j] + stride}]

LEMMA FullBinsAreBins ==
    ASSUME NEW n, NEW bars, NEW stride, History(n, bars, stride)
    PROVE  LET starts == Ascending(CandlesOf(bars, stride))
               c == Cardinality(CandlesOf(bars, stride))
           IN  /\ c \in Nat /\ Len(starts) = c /\ DOMAIN starts = 1 .. c
               /\ \A j \in 1 .. c : /\ starts[j] \in CandlesOf(bars, stride)
                                    /\ FullBins(bars, stride)[j] = Bin(bars, stride, starts[j])
<1> n \in Nat /\ bars \in SUBSET (0 .. n) /\ stride \in Nat \ {0}
    BY DEF History
<1> DEFINE B == CandlesOf(bars, stride)
           starts == Ascending(B)
           c == Cardinality(B)
<1>1. /\ B \in SUBSET (0 .. n)
      /\ \A b \in B : Bin(bars, stride, b) = {t \in bars : b <= t /\ t < b + stride}
    BY BarsOfCandle
<1>2. /\ c \in Nat /\ starts \in [1 .. c -> B]
      /\ \A k \in 1 .. c : starts[k] \in B
    <2> HIDE DEF B
    <2> QED
        BY <1>1, AscendingByRank
<1> HIDE DEF B, c, starts
<1>3. Len(starts) = c /\ DOMAIN starts = 1 .. c
    BY <1>2, ListLength DEF Lists
<1>4. ASSUME NEW j \in 1 .. c
      PROVE  FullBins(bars, stride)[j] = Bin(bars, stride, starts[j])
    <2>1. FullBins(bars, stride)[j] = {t \in bars : starts[j] <= t /\ t < starts[j] + stride}
        BY <1>3 DEF FullBins, starts, B
    <2> QED
        BY <1>1, <1>2, <2>1
<1> QED
    BY <1>2, <1>3, <1>4 DEF B, c, starts

\* A window on the bars: its candles are the last ones, and each but the first holds all
\* its bars.
LastCandles(bars, W, stride) ==
    LET order  == Ascending(CandlesOf(W, stride))
        starts == Ascending(CandlesOf(bars, stride))
        m   == Cardinality(CandlesOf(W, stride))
        all == Cardinality(CandlesOf(bars, stride))
    IN  /\ W \in SUBSET bars /\ m \in Nat /\ all \in Nat /\ m <= all
        /\ \A k \in 1 .. m : all - m + k \in 1 .. all /\ order[k] = starts[all - m + k]
        /\ \A k \in 1 .. m : k > 1 \/ W = bars => Bin(W, stride, order[k]) = Bin(bars, stride, order[k])

\* The average of a candle in the window is that of the full history, unless the
\* window is cut and does not reach back period candles.
LEMMA AverageAsOfAll ==
    ASSUME NEW n, NEW bars, NEW stride, History(n, bars, stride), NEW s,
           NEW W, LastCandles(bars, W, stride), NEW period \in Nat \ {0},
           NEW j \in 1 .. Cardinality(CandlesOf(W, stride)), W = bars \/ j > period
    PROVE  LET k == Cardinality(CandlesOf(bars, stride)) - Cardinality(CandlesOf(W, stride)) + j
           IN  MovingAverage(Table(s, bars), W, stride, period, j)
                   = IF k < period THEN Null
                     ELSE Closes(Table(s, bars), FullBins(bars, stride), k - period + 1 .. k)
<1> DEFINE inWindow == Cardinality(CandlesOf(W, stride))
           inAll == Cardinality(CandlesOf(bars, stride))
<1> /\ W \in SUBSET bars /\ inWindow \in Nat /\ inAll \in Nat /\ inWindow <= inAll
    /\ \A k \in 1 .. inWindow :
          /\ inAll - inWindow + k \in 1 .. inAll
          /\ Ascending(CandlesOf(W, stride))[k]
                 = Ascending(CandlesOf(bars, stride))[inAll - inWindow + k]
    /\ \A k \in 1 .. inWindow : k > 1 \/ W = bars =>
          Bin(W, stride, Ascending(CandlesOf(W, stride))[k])
              = Bin(bars, stride, Ascending(CandlesOf(W, stride))[k])
    BY DEF LastCandles
<1> HIDE DEF inWindow, inAll
<1> DEFINE order == Ascending(CandlesOf(W, stride))
           starts == Ascending(CandlesOf(bars, stride))
           bins == [k \in DOMAIN order |-> Bin(W, stride, order[k])]
           d == inAll - inWindow
           rows == Table(s, bars)
           full == FullBins(bars, stride)
<1>1. n \in Nat /\ bars \in SUBSET (0 .. n) /\ stride \in Nat \ {0}
    BY DEF History
<1>2. DOMAIN order = 1 .. inWindow
    BY DEF Ascending, inWindow
<1>3. MovingAverage(rows, W, stride, period, j)
          = IF j < period THEN Null ELSE Closes(rows, bins, j - period + 1 .. j)
    BY DEF MovingAverage, Buckets, CandlesOf
<1>4. d \in Nat /\ (W = bars => d = 0)
    BY DEF inWindow, inAll
<1>5. /\ \A k \in 1 .. inAll : /\ starts[k] \in CandlesOf(bars, stride)
                              /\ full[k] = Bin(bars, stride, starts[k])
    BY FullBinsAreBins DEF inAll
<1>6. \A b \in CandlesOf(bars, stride) : Bin(bars, stride, b) # {} /\ Bin(bars, stride, b) \in SUBSET bars
    BY BarsOfCandle
<1>7. \A k \in 1 .. inWindow : bins[k] = Bin(W, stride, order[k])
    BY <1>2
<1>8. \A k \in 1 .. inWindow : d + k \in 1 .. inAll /\ order[k] = starts[d + k]
    OBVIOUS
<1> HIDE DEF bins, full, order, starts, d, rows
<1>9. ASSUME NEW k \in 1 .. inWindow, k > 1 \/ W = bars
      PROVE  bins[k] = full[d + k] /\ rows[Max(bins[k])].close \in Int
    <2>1. Bin(W, stride, order[k]) = Bin(bars, stride, order[k])
        BY <1>9 DEF order
    <2>2. bins[k] = full[d + k] /\ bins[k] # {} /\ bins[k] \in SUBSET bars
        BY <1>5, <1>6, <1>7, <1>8, <2>1
    <2> DEFINE t == Max(bins[k])
    <2>3. t \in bins[k]
        <3>1. bins[k] \in SUBSET (0 .. n)
            BY <1>1, <2>2
        <3> QED
            BY <1>1, <2>2, <3>1, EndsOf
    <2> HIDE DEF t
    <2>4. t \in bars /\ t \in Nat
        <3>1. \A u \in bars : u \in Nat
            BY <1>1
        <3> QED
            BY <2>2, <2>3, <3>1
    <2>5. rows[t].close \in Int
        BY <2>4, RowsOfTable DEF rows
    <2> QED
        BY <2>2, <2>5 DEF t
<1>10. j < period <=> d + j < period
    BY <1>4
<1>11. ASSUME ~ (j < period)
       PROVE  Closes(rows, bins, j - period + 1 .. j)
                  = Closes(rows, full, d + j - period + 1 .. d + j)
    <2>1. \A k \in j - period + 1 .. j : k \in 1 .. inWindow /\ (k > 1 \/ W = bars)
        <3>1. j \in 1 .. inWindow
            BY DEF inWindow
        <3> QED
            BY <1>11, <3>1
    <2>2. \A k \in j - period + 1 .. j : bins[k] = full[d + k] /\ rows[Max(bins[k])].close \in Int
        BY <1>9, <2>1
    <2> DEFINE a == j - period + 1
    <2>3. a \in Int /\ j \in Int /\ d \in Int /\ d + a = d + j - period + 1
        BY <1>4
    <2> HIDE DEF a
    <2>4. \A k \in a .. j : bins[k] = full[d + k] /\ rows[Max(bins[k])].close \in Int
        BY <2>2 DEF a
    <2>5. Closes(rows, bins, a .. j) = Closes(rows, full, d + a .. d + j)
        <3>1. Renumbered(rows, bins, full, a, j, d)
            BY <2>3, <2>4 DEF Renumbered
        <3> QED
            BY <3>1, ClosesRenumbered
    <2> QED
        BY <2>3, <2>5 DEF a
<1>12. d + j - period + 1 = inAll - inWindow + j - period + 1 /\ d + j = inAll - inWindow + j
    BY DEF d
<1> QED
    BY <1>3, <1>10, <1>11, <1>12 DEF rows, full, inWindow, inAll

\* got against the whole history.
AsOfAll(rows, bars, stride, limit, period, got) ==
    LET starts == Ascending(CandlesOf(bars, stride))
        skipped == Len(starts) - Len(got)
    IN  /\ \A k \in DOMAIN got :
              /\ got[k].openTime = starts[skipped + k]
              /\ k > 1 \/ Contiguous(bars) =>
                    got[k].bar = FoldRows(rows, {t \in bars : /\ got[k].openTime <= t
                                                              /\ t < got[k].openTime + stride})
        /\ Contiguous(bars) =>
              /\ Len(got) = LesserOf(LesserOf(limit, MaxCandles), Len(starts))
              /\ \A k \in DOMAIN got :
                    got[k].ma = IF skipped + k < period THEN Null
                                ELSE Closes(rows, FullBins(bars, stride),
                                            skipped + k - period + 1 .. skipped + k)

LEMMA CandlesAsOfAll ==
    ASSUME NEW n, NEW bars, NEW stride, History(n, bars, stride), bars # {}, NEW s,
           NEW limit \in Nat \ {0}, NEW period \in Nat \ {0}
    PROVE  AsOfAll(Table(s, bars), bars, stride, limit, period,
                   GetCandles(Table(s, bars), stride, limit, period))
<1> DEFINE rows == Table(s, bars)
           take == LesserOf(limit, MaxCandles)
           W == WindowOf(bars, (take + period) * stride)
           V == CandlesOf(W, stride)
           B == CandlesOf(bars, stride)
           m == Cardinality(V)
           all == Cardinality(B)
           order == Ascending(V)
           starts == Ascending(B)
           got == GetCandles(rows, stride, limit, period)
           c == Len(got)
<1>1. /\ take \in Nat \ {0} /\ m \in Nat \ {0} /\ all \in Nat /\ m <= all
      /\ DOMAIN got = 1 .. c /\ c \in Nat \ {0} /\ c <= m
      /\ c = LesserOf(m, take)
      /\ \A k \in 1 .. c :
            /\ all - c + k \in 1 .. all
            /\ m - c + k \in 1 .. m
            /\ got[k].openTime = starts[all - c + k]
            /\ got[k].openTime = order[m - c + k]
            /\ got[k].bar = FoldRows(rows, Bin(W, stride, got[k].openTime))
            /\ got[k].ma = MovingAverage(rows, W, stride, period, m - c + k)
    <2>1. DOMAIN rows = bars
        BY DEF Table
    <2> HIDE DEF rows
    <2> QED
        BY <2>1, CandlesShown
<1>2. /\ \A j \in 1 .. m : j > 1 \/ W = bars => Bin(W, stride, order[j]) = Bin(bars, stride, order[j])
      /\ Contiguous(bars) => /\ c = LesserOf(take, all)
                             /\ W = bars \/ m - c >= period
    <2>1. DOMAIN rows = bars
        BY DEF Table
    <2> HIDE DEF rows
    <2> QED
        BY <2>1, CandlesHoldTheirBars
<1>3. Len(starts) = all
    BY FullBinsAreBins
<1>4. \A b \in B : Bin(bars, stride, b) = {t \in bars : b <= t /\ t < b + stride}
    BY BarsOfCandle
<1>5. /\ W \in SUBSET bars
      /\ \A k \in 1 .. m : all - m + k \in 1 .. all /\ order[k] = starts[all - m + k]
      /\ \A k \in 1 .. all : starts[k] \in B
    <2>1. W \in SUBSET bars
        BY DEF WindowOf, After
    <2>2. \A k \in 1 .. all : starts[k] \in B
        BY FullBinsAreBins
    <2>3. ASSUME NEW k \in 1 .. m
          PROVE  all - m + k \in 1 .. all /\ order[k] = starts[all - m + k]
        <3>1. n \in Nat /\ stride \in Nat \ {0} /\ B \in SUBSET (0 .. n)
            BY BarsOfCandle DEF History
        <3>2. (take + period) * stride \in Nat \ {0}
            <4> HIDE DEF take
            <4>1. take + period \in Nat \ {0} /\ 0 * stride = 0 /\ (take + period) * stride \in Int
                BY <1>1, <3>1
            <4>2. ~ ((take + period) * stride <= 0 * stride)
                <5>1. ~ (take + period <= 0)
                    BY <4>1
                <5> QED
                    BY <3>1, <4>1, <5>1, TimesMonotone
            <4> QED
                BY <4>1, <4>2
        <3> DEFINE length == (take + period) * stride
        <3> HIDE DEF length
        <3>3. /\ CandlesOf(WindowOf(bars, length), stride) \in SUBSET B
              /\ \A x \in B, v \in CandlesOf(WindowOf(bars, length), stride) :
                    v <= x => x \in CandlesOf(WindowOf(bars, length), stride)
            <4>1. length \in Nat \ {0}
                BY <3>2 DEF length
            <4> QED
                BY <4>1, WindowKeepsCandles
        <3>4. V \in SUBSET B /\ \A x \in B, v \in V : v <= x => x \in V
            BY <3>3 DEF length
        <3> HIDE DEF V, B
        <3>5. /\ Cardinality(V) \in Nat /\ Cardinality(B) \in Nat /\ Cardinality(V) <= Cardinality(B)
              /\ \A i \in 1 .. Cardinality(V) :
                    /\ Cardinality(B) - Cardinality(V) + i \in 1 .. Cardinality(B)
                    /\ Ascending(V)[i] = Ascending(B)[Cardinality(B) - Cardinality(V) + i]
            BY <3>1, <3>4, UpperPartLast
        <3> QED
            BY <3>5
    <2> QED
        BY <2>1, <2>2, <2>3
<1>6. ASSUME Contiguous(bars), NEW k \in 1 .. c
      PROVE  got[k].ma = IF all - c + k < period THEN Null
                         ELSE Closes(rows, FullBins(bars, stride),
                                     all - c + k - period + 1 .. all - c + k)
    <2> DEFINE j == m - c + k
    <2>1. j \in 1 .. m /\ got[k].ma = MovingAverage(rows, W, stride, period, j)
        BY <1>1
    <2>2. W = bars \/ j > period
        <3> HIDE DEF W, m, c
        <3> QED
            BY <1>1, <1>2, <1>6
    <2> DEFINE i == all - c + k
    <2>3. all - m + j = i
        BY <1>1
    <2> HIDE DEF i, j, W
    <2>4. LastCandles(bars, W, stride)
        <3>1. m \in Nat /\ all \in Nat /\ m <= all
            BY <1>1
        <3> QED
            BY <1>2, <1>5, <3>1 DEF LastCandles
    <2>5. MovingAverage(rows, W, stride, period, j)
              = IF i < period THEN Null
                ELSE Closes(rows, FullBins(bars, stride), i - period + 1 .. i)
        BY <2>1, <2>2, <2>3, <2>4, AverageAsOfAll
    <2> HIDE DEF rows, got, c, m, all
    <2>6. got[k].ma = IF i < period THEN Null
                      ELSE Closes(rows, FullBins(bars, stride), i - period + 1 .. i)
        BY <2>1, <2>5, Zenon
    <2>7. i - period + 1 = all - c + k - period + 1
        BY <1>1 DEF i
    <2> QED
        BY <2>6, <2>7, Zenon DEF i
<1>7. ASSUME NEW k \in 1 .. c, k > 1 \/ Contiguous(bars)
      PROVE  got[k].bar = FoldRows(rows, {t \in bars : /\ got[k].openTime <= t
                                                       /\ t < got[k].openTime + stride})
    <2> DEFINE j == m - c + k
               open == got[k].openTime
    <2>1. /\ j \in 1 .. m /\ open = order[j] /\ open = starts[all - c + k]
          /\ got[k].bar = FoldRows(rows, Bin(W, stride, open))
        BY <1>1
    <2>2. j > 1 \/ W = bars
        <3> HIDE DEF W, m, c
        <3> QED
            BY <1>1, <1>2, <1>7
    <2>3. Bin(W, stride, open) = Bin(bars, stride, open)
        BY <1>2, <2>1, <2>2
    <2>4. open \in B
        BY <1>1, <1>5, <2>1
    <2> HIDE DEF j, open, got, rows
    <2>5. Bin(W, stride, open) = {t \in bars : open <= t /\ t < open + stride}
        BY <1>4, <2>3, <2>4
    <2> QED
        BY <2>1, <2>5 DEF open
<1> HIDE DEF rows, W, V, B, m, all, order, starts, got, c, take
<1> QED
    BY <1>1, <1>2, <1>3, <1>6, <1>7 DEF AsOfAll, rows, starts, got, c, take, B
LEMMA EndOfHistoryShown ==
    ASSUME NEW n, NEW bars, NEW stride, History(n, bars, stride),
           NEW limit \in Nat \ {0}, NEW period \in Nat \ {0}
    PROVE  EndOfHistory(bars, stride, limit, period, GetCandles(Table("btc", bars), stride, limit, period))
<1> DEFINE rows == Table("btc", bars)
           got == GetCandles(rows, stride, limit, period)
           starts == Ascending({t - (t % stride) : t \in bars})
           full == [j \in DOMAIN starts |-> {t \in bars : starts[j] <= t /\ t < starts[j] + stride}]
           skipped == Len(starts) - Len(got)
           First == \A k \in DOMAIN got :
                       /\ got[k].openTime = starts[skipped + k]
                       /\ k > 1 \/ Contiguous(bars) =>
                             got[k].bar = FoldRows(rows, {t \in bars : /\ got[k].openTime <= t
                                                                       /\ t < got[k].openTime + stride})
           Second == /\ Len(got) = LesserOf(LesserOf(limit, MaxCandles), Len(starts))
                     /\ \A k \in DOMAIN got :
                           got[k].ma = IF skipped + k < period THEN Null
                                       ELSE Closes(rows, full, skipped + k - period + 1 .. skipped + k)
<1>1. EndOfHistory(bars, stride, limit, period, got)
          <=> First /\ (bars # {} /\ Contiguous(bars) => Second)
    BY Zenon DEF EndOfHistory
<1>2. CASE bars = {}
    <2>1. got = <<>>
        BY <1>2 DEF GetCandles, Table
    <2>2. DOMAIN got = {}
        BY <2>1
    <2> HIDE DEF got, starts, full, skipped, rows
    <2>3. First
        BY <2>2
    <2> QED
        BY <1>1, <1>2, <2>3 DEF got, rows
<1>3. CASE bars # {}
    <2>1. Ascending(CandlesOf(bars, stride)) = starts
        <3>1. CandlesOf(bars, stride) = {t - (t % stride) : t \in bars}
            BY BarsOfCandle
        <3> QED
            BY <3>1, Zenon
    <2>2. FullBins(bars, stride) = full
        <3> HIDE DEF starts
        <3> QED
            BY <2>1, Zenon DEF FullBins
    <2>3. First /\ (Contiguous(bars) => Second)
        <3> DEFINE order == Ascending(CandlesOf(bars, stride))
                   bins == FullBins(bars, stride)
                   before == Len(order) - Len(got)
        <3>1. /\ \A k \in DOMAIN got :
                    /\ got[k].openTime = order[before + k]
                    /\ k > 1 \/ Contiguous(bars) =>
                          got[k].bar = FoldRows(rows, {t \in bars : /\ got[k].openTime <= t
                                                                    /\ t < got[k].openTime + stride})
              /\ Contiguous(bars) =>
                    /\ Len(got) = LesserOf(LesserOf(limit, MaxCandles), Len(order))
                    /\ \A k \in DOMAIN got :
                          got[k].ma = IF before + k < period THEN Null
                                      ELSE Closes(rows, bins, before + k - period + 1 .. before + k)
            <4>1. AsOfAll(rows, bars, stride, limit, period, got)
                BY <1>3, CandlesAsOfAll
            <4> HIDE DEF starts, full, First, Second, got, rows
            <4> QED
                BY <4>1 DEF AsOfAll
        <3>2. order = starts /\ bins = full
            BY <2>1, <2>2
        <3> HIDE DEF starts, full, order, bins, got, rows
        <3> QED
            BY <3>1, <3>2
    <2> HIDE DEF First, Second, got
    <2> QED
        BY <1>1, <2>3 DEF got, rows
<1> QED
    BY <1>2, <1>3

\* The candles on a chart are the last ones of the whole history, with all their bars
\* and their average, for tables of any length and candles of any size.
THEOREM CandlesAreThoseOfHistory == AnalyticsSpec => []CandlesMatchFullHistory
<1>1. Init => CandlesMatchFullHistory
    BY DEF Init, Idle, CandlesMatchFullHistory
<1>2. ASSUME CandlesMatchFullHistory, [AnalyticsNext]_call
      PROVE  CandlesMatchFullHistory'
    <2>1. CASE CallCandles
        <3>1. PICK bars \in SUBSET (0 .. LastBar), stride \in Strides, limit \in Limits, ma \in Periods :
                 call' = [fn |-> "candles", bars |-> bars, stride |-> stride, limit |-> limit,
                          ma |-> ma, candles |-> GetCandles(Table("btc", bars), stride, limit, ma)]
            BY <2>1 DEF CallCandles
        <3> DEFINE got == GetCandles(Table("btc", bars), stride, limit, ma)
        <3>2. /\ call'.fn = "candles" /\ call'.bars = bars /\ call'.stride = stride
              /\ call'.limit = limit /\ call'.ma = ma /\ call'.candles = got
            BY <3>1
        <3>3. /\ limit \in Nat \ {0} /\ ma \in Nat \ {0}
              /\ History(LastBar, bars, stride)
            BY TablesAssumption DEF History
        <3>4. EndOfHistory(bars, stride, limit, ma, got)
            BY <3>3, EndOfHistoryShown
        <3> HIDE DEF got
        <3> QED
            BY <3>2, <3>4 DEF CandlesMatchFullHistory
    <2>2. CASE call'.fn # "candles"
        BY <2>2 DEF CandlesMatchFullHistory
    <2>3. CASE UNCHANGED call
        BY <1>2, <2>3 DEF CandlesMatchFullHistory
    <2> QED
        BY <1>2, <2>1, <2>2, <2>3, EveryCall
<1> QED
    BY <1>1, <1>2, PTL DEF AnalyticsSpec

-------------------------------------------------------------------------------
(***************************************************************************)
(* Market cards                                                            *)
(***************************************************************************)
LEMMA GreatestIsMax ==
    ASSUME NEW n, NEW S, NEW x, n \in Nat, S \in SUBSET (0 .. n), x \in S, \A t \in S : t <= x
    PROVE  Max(S) = x
<1> DEFINE m == Max(S)
<1>1. m \in S /\ (\A t \in S : t <= m) /\ \A t \in S : t \in Int
    BY EndsOf
<1> HIDE DEF m
<1>2. m \in Int /\ x \in Int /\ m <= x /\ x <= m
    BY <1>1
<1>3. m = x
    BY <1>2
<1> QED
    BY <1>3 DEF m

\* order lists the m elements of S in ascending order.
InOrder(order, m, S) ==
    /\ m \in Nat
    /\ \A k \in 1 .. m : order[k] \in S
    /\ \A x \in S : Rank(S, x) + 1 \in 1 .. m /\ order[Rank(S, x) + 1] = x
    /\ \A j, k \in 1 .. m : j < k <=> order[j] < order[k]

LEMMA AscendingInOrder ==
    ASSUME NEW n \in Nat, NEW S \in SUBSET (0 .. n)
    PROVE  InOrder(Ascending(S), Cardinality(S), S)
<1>1. /\ Cardinality(S) \in Nat
      /\ \A k \in 1 .. Cardinality(S) : Ascending(S)[k] \in S /\ Rank(S, Ascending(S)[k]) = k - 1
      /\ \A x \in S : Rank(S, x) + 1 \in 1 .. Cardinality(S) /\ Ascending(S)[Rank(S, x) + 1] = x
      /\ \A j, k \in 1 .. Cardinality(S) : j < k <=> Ascending(S)[j] < Ascending(S)[k]
    BY AscendingByRank
<1> QED
    BY <1>1, Zenon DEF InOrder

\* The last candle of a chart ends with the newest bar.
LEMMA LastCandleIsNewest ==
    ASSUME NEW n, NEW bars, NEW stride, History(n, bars, stride), bars # {}, NEW s,
           NEW limit \in Nat \ {0}, NEW period \in Nat \ {0}
    PROVE  Last(GetCandles(Table(s, bars), stride, limit, period)).bar.close
               = Table(s, bars)[Max(bars)].close
<1> n \in Nat /\ bars \in SUBSET (0 .. n) /\ stride \in Nat \ {0}
    BY DEF History
<1> DEFINE rows == Table(s, bars)
           take == LesserOf(limit, MaxCandles)
           length == (take + period) * stride
           W == WindowOf(bars, length)
           V == CandlesOf(W, stride)
           m == Cardinality(V)
           order == Ascending(V)
           got == GetCandles(rows, stride, limit, period)
           c == Len(got)
           newest == Max(bars)
<1>1. /\ take \in Nat \ {0} /\ m \in Nat \ {0} /\ c \in Nat \ {0}
      /\ \A k \in 1 .. c : /\ got[k].openTime = order[m - c + k]
                           /\ got[k].bar = FoldRows(rows, Bin(W, stride, got[k].openTime))
    <2>1. DOMAIN rows = bars
        BY DEF Table
    <2> HIDE DEF rows
    <2> QED
        BY <2>1, CandlesShown
<1>2. got[c].openTime = order[m] /\ got[c].bar = FoldRows(rows, Bin(W, stride, order[m]))
    <2> HIDE DEF c, m, got, order, rows
    <2>1. c \in 1 .. c /\ m - c + c = m
        BY <1>1
    <2> QED
        BY <1>1, <2>1
<1>3. length \in Nat \ {0}
    <2> HIDE DEF take
    <2>1. take + period \in Nat \ {0} /\ 0 * stride = 0 /\ length \in Int
        BY <1>1
    <2>2. ~ (length <= 0 * stride)
        <3>1. ~ (take + period <= 0)
            BY <2>1
        <3> QED
            BY <2>1, <3>1, TimesMonotone
    <2> QED
        BY <2>1, <2>2
<1> HIDE DEF length
<1>4. W \in SUBSET bars /\ newest \in W
    BY <1>3, WindowKeepsCandles
<1>5. newest \in bars /\ (\A t \in bars : t <= newest) /\ newest \in Int
    <2>1. newest \in bars /\ (\A t \in bars : t <= newest)
        BY EndsOf
    <2> HIDE DEF newest
    <2> QED
        BY <2>1
<1> HIDE DEF newest, W
<1>6. order[m] = AlignToInterval(newest, stride)
    <2> DEFINE a == AlignToInterval(newest, stride)
    <2>1. a \in V
        BY <1>4 DEF CandlesOf
    <2>2. ASSUME NEW v \in V PROVE v <= a
        <3>1. PICK t \in W : v = AlignToInterval(t, stride)
            BY DEF CandlesOf
        <3>2. t \in Int /\ t <= newest
            BY <1>4, <1>5, <3>1
        <3> QED
            BY <1>5, <3>1, <3>2, CandlesInOrder
    <2>3. V \in SUBSET (0 .. n)
        <3>1. History(n, W, stride)
            BY <1>4 DEF History
        <3> QED
            BY <3>1, BarsOfCandle
    <2> HIDE DEF V, a
    <2>4. InOrder(order, m, V)
        BY <2>3, AscendingInOrder
    <2>5. /\ order[m] \in V
          /\ Rank(V, a) + 1 \in 1 .. m /\ order[Rank(V, a) + 1] = a
          /\ \A j, k \in 1 .. m : j < k <=> order[j] < order[k]
        <3> HIDE DEF order, m
        <3>1. m \in 1 .. m
            BY <1>1
        <3> QED
            BY <2>1, <2>4, <3>1 DEF InOrder
    <2>6. \A v \in V : v \in Int
        BY <2>3
    <2>7. order[m] <= a /\ order[m] \in Int /\ a \in Int
        <3> HIDE DEF order, m
        <3> QED
            BY <2>1, <2>2, <2>5, <2>6
    <2> HIDE DEF order
    <2>8. ~ (order[m] < a)
        <3> DEFINE j == Rank(V, a) + 1
        <3>1. j \in 1 .. m /\ order[j] = a
            BY <2>5
        <3> HIDE DEF j, m
        <3>2. m \in 1 .. m /\ ~ (m < j)
            BY <1>1, <3>1
        <3> QED
            BY <2>5, <3>1, <3>2
    <2>9. order[m] = a
        BY <2>7, <2>8
    <2> QED
        BY <2>9 DEF a
<1>7. Max(Bin(W, stride, order[m])) = newest
    <2> DEFINE bin == Bin(W, stride, order[m])
    <2>1. newest \in bin /\ bin \in SUBSET W
        BY <1>4, <1>6 DEF Bin
    <2> HIDE DEF bin
    <2>2. bin \in SUBSET (0 .. n) /\ \A t \in bin : t <= newest
        BY <1>4, <1>5, <2>1
    <2>3. Max(bin) = newest
        BY <2>1, <2>2, GreatestIsMax
    <2> QED
        BY <2>3 DEF bin
<1>8. got[c].bar.close = rows[newest].close
    <2> HIDE DEF got, c, rows, order, m
    <2> QED
        BY <1>2, <1>7 DEF FoldRows
<1>9. Last(got) = got[c]
    BY DEF Last
<1> QED
    BY <1>8, <1>9 DEF newest

-------------------------------------------------------------------------------
\* What the candles of length 1 show: each its own bar, none twice, and every bar
\* from the first of them on.
SingleBars(got, bars, rows) ==
    /\ Len(got) \in Nat \ {0} /\ DOMAIN got = 1 .. Len(got)
    /\ \A k \in 1 .. Len(got) : /\ got[k].openTime \in bars
                                /\ got[1].openTime <= got[k].openTime
                                /\ got[k].bar = FoldRows(rows, {got[k].openTime})
    /\ \A j, k \in 1 .. Len(got) : got[j].openTime = got[k].openTime => j = k
    /\ \A t \in bars : got[1].openTime <= t => \E k \in 1 .. Len(got) : t = got[k].openTime

LEMMA SingleBarsShown ==
    ASSUME NEW n, NEW bars, History(n, bars, 1), bars # {}, NEW rows, DOMAIN rows = bars,
           NEW limit \in Nat \ {0}, NEW period \in Nat \ {0}
    PROVE  SingleBars(GetCandles(rows, 1, limit, period), bars, rows)
<1>0. PICK stride : stride = 1
    OBVIOUS
<1> n \in Nat /\ bars \in SUBSET (0 .. n) /\ stride \in Nat \ {0} /\ History(n, bars, stride)
    BY <1>0 DEF History
<1> DEFINE take == LesserOf(limit, MaxCandles)
           length == (take + period) * stride
           W == WindowOf(bars, length)
           got == GetCandles(rows, stride, limit, period)
           c == Len(got)
           v == Cardinality(CandlesOf(W, stride))
           a == Cardinality(CandlesOf(bars, stride))
           inW == Ascending(CandlesOf(W, stride))
           inAll == Ascending(CandlesOf(bars, stride))
<1>1. /\ take \in Nat \ {0} /\ v \in Nat \ {0} /\ a \in Nat /\ v <= a
      /\ DOMAIN got = 1 .. c /\ c \in Nat \ {0} /\ c <= v
      /\ \A k \in 1 .. c : /\ a - c + k \in 1 .. a /\ v - c + k \in 1 .. v
                           /\ got[k].openTime = inAll[a - c + k]
                           /\ got[k].openTime = inW[v - c + k]
                           /\ got[k].bar = FoldRows(rows, Bin(W, stride, got[k].openTime))
    BY CandlesShown
<1>2. ASSUME NEW t \in Int PROVE AlignToInterval(t, stride) = t
    <2> DEFINE b == AlignToInterval(t, stride)
    <2>1. b \in Int /\ b <= t /\ t < b + stride
        BY CandleOfTime
    <2> HIDE DEF b
    <2>2. b = t
        BY <1>0, <2>1
    <2> QED
        BY <2>2 DEF b
<1>3. length \in Nat \ {0}
    BY <1>1
<1>4. W \in SUBSET bars
    <2> HIDE DEF length
    <2> QED
        BY <1>3, WindowKeepsCandles
<1> HIDE DEF W
<1>5. ASSUME NEW S \in SUBSET bars
      PROVE  CandlesOf(S, stride) = S /\ \A t \in S : Bin(S, stride, t) = {t}
    <2>1. \A t \in S : t \in Int /\ AlignToInterval(t, stride) = t
        BY <1>2
    <2> QED
        BY <2>1 DEF CandlesOf, Bin
<1>6. CandlesOf(W, stride) = W /\ CandlesOf(bars, stride) = bars /\ \A t \in W : Bin(W, stride, t) = {t}
    BY <1>4, <1>5
<1>7. InOrder(inW, v, W) /\ InOrder(inAll, a, bars)
    <2>1. W \in SUBSET (0 .. n)
        BY <1>4
    <2> QED
        BY <1>6, <2>1, AscendingInOrder
<1> HIDE DEF got, c, v, a, inW, inAll
<1>8. ASSUME NEW k \in 1 .. c
      PROVE  got[k].openTime \in W /\ got[k].bar = FoldRows(rows, {got[k].openTime})
    <2>1. v - c + k \in 1 .. v /\ got[k].openTime = inW[v - c + k]
        BY <1>1
    <2>2. got[k].openTime \in W
        BY <1>7, <2>1 DEF InOrder
    <2> QED
        BY <1>1, <1>6, <2>2
<1>9. ASSUME NEW j \in 1 .. c, NEW k \in 1 .. c, got[j].openTime = got[k].openTime
      PROVE  j = k
    <2> DEFINE x == a - c + j
               y == a - c + k
    <2>1. x \in 1 .. a /\ y \in 1 .. a /\ inAll[x] = inAll[y]
        BY <1>1, <1>9
    <2>2. x = y => j = k
        <3>1. a \in Int /\ c \in Int /\ j \in Int /\ k \in Int
            BY <1>1
        <3> QED
            BY <3>1
    <2>3. inAll[x] \in Int
        <3>1. inAll[x] \in bars /\ \A t \in bars : t \in Int
            BY <1>7, <2>1 DEF InOrder
        <3> QED
            BY <3>1
    <2> HIDE DEF x, y
    <2>4. ~(x < y) /\ ~(y < x)
        BY <1>7, <2>1, <2>3 DEF InOrder
    <2> QED
        BY <2>1, <2>2, <2>4
<1>10. ASSUME NEW t \in bars, got[1].openTime <= t
       PROVE  \E k \in 1 .. c : t = got[k].openTime
    <2> DEFINE r == Rank(bars, t) + 1
               first == a - c + 1
               k == r - a + c
    <2>1. r \in 1 .. a /\ inAll[r] = t
        BY <1>7 DEF InOrder
    <2> HIDE DEF r
    <2>2. first \in 1 .. a /\ inAll[first] <= inAll[r] /\ first \in Int /\ r \in Int
        BY <1>1, <1>10, <2>1
    <2>3. inAll[first] \in Int /\ inAll[r] \in Int
        <3> HIDE DEF first
        <3>1. inAll[first] \in bars /\ inAll[r] \in bars
            BY <1>7, <2>1, <2>2 DEF InOrder
        <3>2. \A u \in bars : u \in Int
            OBVIOUS
        <3> QED
            BY <3>1, <3>2
    <2>4. first <= r
        <3> HIDE DEF first
        <3>1. ~(r < first)
            BY <1>7, <2>1, <2>2, <2>3 DEF InOrder
        <3> QED
            BY <2>2, <3>1
    <2>5. k \in 1 .. c /\ a - c + k = r
        BY <1>1, <2>1, <2>4
    <2> HIDE DEF k
    <2>6. got[k].openTime = t
        BY <1>1, <2>1, <2>5
    <2> QED
        BY <2>5, <2>6
<1>11. c \in Nat \ {0} /\ DOMAIN got = 1 .. c /\ \A k \in 1 .. c : got[k].openTime \in bars
    BY <1>1, <1>4, <1>8
<1>12. ASSUME NEW k \in 1 .. c PROVE got[1].openTime <= got[k].openTime
    <2> DEFINE x == a - c + 1
               y == a - c + k
    <2>1. x \in 1 .. a /\ y \in 1 .. a /\ got[1].openTime = inAll[x] /\ got[k].openTime = inAll[y]
        BY <1>1
    <2>2. x = y \/ x < y
        BY <1>1
    <2> HIDE DEF x, y
    <2>3. inAll[x] \in Int /\ inAll[y] \in Int
        <3>1. inAll[x] \in bars /\ inAll[y] \in bars /\ \A t \in bars : t \in Int
            BY <1>7, <2>1 DEF InOrder
        <3> QED
            BY <3>1
    <2>4. x < y => inAll[x] < inAll[y]
        BY <1>7, <2>1 DEF InOrder
    <2> QED
        BY <2>1, <2>2, <2>3, <2>4
<1>13. SingleBars(got, bars, rows)
    BY <1>8, <1>9, <1>10, <1>11, <1>12, Zenon DEF SingleBars, c
<1> QED
    BY <1>0, <1>13 DEF got

\* The fold of one bar is the bar.
LEMMA FoldOfOneBar ==
    ASSUME NEW rows, NEW t, rows[t].volume \in Int, rows[t].high \in Int, rows[t].low \in Int
    PROVE  /\ FoldRows(rows, {t}).volume = rows[t].volume
           /\ FoldRows(rows, {t}).high = rows[t].high /\ FoldRows(rows, {t}).low = rows[t].low
<1>1. ASSUME NEW v \in Int PROVE Max({v}) = v /\ Min({v}) = v
    BY DEF Max, Min
<1>2. {rows[u].high : u \in {t}} = {rows[t].high} /\ {rows[u].low : u \in {t}} = {rows[t].low}
    OBVIOUS
<1>3. Volume(rows, {t}) = rows[t].volume
    <2> DEFINE F == VolumeOf(rows, {t})
    <2>1. IsFiniteSet({t})
        <3>1. {t} = {} \cup {t}
            OBVIOUS
        <3> QED
            BY <3>1, FS_EmptySet, FS_AddElement
    <2>2. Volume(rows, {t}) = Total(F) /\ F \in [{t} -> Int] /\ F[t] = rows[t].volume
        BY <2>1, VolumeIsTotal DEF VolumeOf
    <2> HIDE DEF F
    <2> DEFINE rest == [y \in {t} \ {t} |-> F[y]]
    <2>3. Total(F) = F[t] + Total(rest)
        BY <2>1, <2>2, TotalAdds
    <2>4. {t} \ {t} = {} /\ IsFiniteSet({t} \ {t}) /\ rest \in [{t} \ {t} -> Int]
        BY FS_EmptySet
    <2>5. Total(rest) = 0
        <3> DEFINE E == {t} \ {t}
        <3>1. E = {} /\ IsFiniteSet(E) /\ rest \in [E -> Int]
            BY <2>4
        <3> HIDE DEF E, rest
        <3> QED
            BY <3>1, TotalAdds
    <2> HIDE DEF rest
    <2>6. F[t] \in Int
        BY <2>2
    <2>7. Total(F) = F[t]
        BY <2>3, <2>5, <2>6
    <2> QED
        BY <2>2, <2>7
<1>4. /\ FoldRows(rows, {t}).volume = Volume(rows, {t})
      /\ FoldRows(rows, {t}).high = Max({rows[u].high : u \in {t}})
      /\ FoldRows(rows, {t}).low = Min({rows[u].low : u \in {t}})
    BY DEF FoldRows
<1> QED
    BY <1>1, <1>2, <1>3, <1>4

\* The volumes on show, as a total.
ShownOf(chart, shown) == [k \in shown |-> chart[k].bar.volume]

LEMMA ShownIsTotal ==
    ASSUME NEW chart, NEW shown, IsFiniteSet(shown), \A k \in shown : chart[k].bar.volume \in Int
    PROVE  VolumeShown(chart, shown) = Total(ShownOf(chart, shown))
<1> DEFINE F == ShownOf(chart, shown)
<1>1. F \in [shown -> Int]
    BY DEF ShownOf
<1>2. PICK g \in [SUBSET shown -> Int] : Adds(g, F, shown)
    BY <1>1, SumsExist
<1> DEFINE it == CHOOSE iter : iter = [T \in SUBSET shown |->
                     IF T = {} THEN 0
                     ELSE chart[CHOOSE x \in T : TRUE].bar.volume
                          + iter[T \ {CHOOSE x \in T : TRUE}]]
<1>3. VolumeShown(chart, shown) = it[shown]
    BY DEF VolumeShown, MapThenSumSet, MapThenFoldSet
<1>4. \A T \in SUBSET shown : T # {} => F[SomeOf(T)] = chart[CHOOSE x \in T : TRUE].bar.volume
    BY DEF ShownOf, SomeOf
<1>5. g = [T \in SUBSET shown |->
              IF T = {} THEN 0
              ELSE chart[CHOOSE x \in T : TRUE].bar.volume + g[T \ {CHOOSE x \in T : TRUE}]]
    BY <1>2, <1>4 DEF Adds, SomeOf
<1>6. it = [T \in SUBSET shown |->
               IF T = {} THEN 0
               ELSE chart[CHOOSE x \in T : TRUE].bar.volume + it[T \ {CHOOSE x \in T : TRUE}]]
    BY <1>5
<1> HIDE DEF it, F
<1>7. Adds(it, F, shown)
    BY <1>4, <1>6 DEF Adds, SomeOf
<1>8. Total(F) = it[shown]
    BY <1>1, <1>7, TotalIsSum
<1> QED
    BY <1>3, <1>8 DEF F

\* A day of bars, and the candles of a chart that show it.
DayOf(bars, newest, span) == {t \in bars : newest - t <= span}
ShownFrom(got, newest, span) == {k \in DOMAIN got : newest - got[k].openTime <= span}

HoldsNumbers(rows, bars) ==
    \A t \in bars : rows[t].volume \in Int /\ rows[t].high \in Int /\ rows[t].low \in Int

\* The bars of the day as far back as the chart reaches, and the others.
Reached(got, day) == {t \in day : got[1].openTime <= t}
Older(got, day)   == {t \in day : t < got[1].openTime}

ShowsTheDay(got, shown, rows, day) ==
    /\ VolumeShown(got, shown) = Volume(rows, day)
    /\ {got[k].bar.high : k \in shown} = {rows[t].high : t \in day}
    /\ {got[k].bar.low : k \in shown} = {rows[t].low : t \in day}

\* The candles on show are those of the bars of the day, as far back as the
\* chart reaches.
LEMMA ShownAreTheDay ==
    ASSUME NEW n, NEW bars, History(n, bars, 1), NEW rows, NEW got,
           SingleBars(got, bars, rows), NEW newest, NEW span, HoldsNumbers(rows, bars)
    PROVE  ShowsTheDay(got, ShownFrom(got, newest, span), rows,
                       Reached(got, DayOf(bars, newest, span)))
<1> n \in Nat /\ bars \in SUBSET (0 .. n)
    BY DEF History
<1> DEFINE day == Reached(got, DayOf(bars, newest, span))
           shown == ShownFrom(got, newest, span)
           h == [k \in shown |-> got[k].openTime]
<1>1. /\ Len(got) \in Nat \ {0} /\ DOMAIN got = 1 .. Len(got)
      /\ \A k \in 1 .. Len(got) : /\ got[k].openTime \in bars
                                  /\ got[1].openTime <= got[k].openTime
                                  /\ got[k].bar = FoldRows(rows, {got[k].openTime})
      /\ \A j, k \in 1 .. Len(got) : got[j].openTime = got[k].openTime => j = k
      /\ \A t \in bars : got[1].openTime <= t => \E k \in 1 .. Len(got) : t = got[k].openTime
    BY DEF SingleBars
<1>2. ASSUME NEW k \in shown
      PROVE  /\ k \in 1 .. Len(got) /\ h[k] = got[k].openTime /\ h[k] \in day
             /\ got[k].bar.volume = rows[h[k]].volume
             /\ got[k].bar.high = rows[h[k]].high /\ got[k].bar.low = rows[h[k]].low
    <2>1. k \in 1 .. Len(got) /\ h[k] = got[k].openTime /\ h[k] \in day
        BY <1>1 DEF DayOf, Reached, ShownFrom
    <2>2. got[k].bar = FoldRows(rows, {h[k]}) /\ h[k] \in bars
        BY <1>1, <2>1
    <2> HIDE DEF h, shown, day
    <2>3. /\ FoldRows(rows, {h[k]}).volume = rows[h[k]].volume
          /\ FoldRows(rows, {h[k]}).high = rows[h[k]].high
          /\ FoldRows(rows, {h[k]}).low = rows[h[k]].low
        BY <2>2, FoldOfOneBar DEF HoldsNumbers
    <2> QED
        BY <2>1, <2>2, <2>3
<1>3. ASSUME NEW t \in day PROVE \E k \in shown : t = h[k]
    <2>1. PICK k \in 1 .. Len(got) : t = got[k].openTime
        BY <1>1 DEF DayOf, Reached
    <2>2. k \in shown /\ t = h[k]
        BY <1>1, <2>1 DEF DayOf, Reached, ShownFrom
    <2> QED
        BY <2>2
<1>4. \A j, k \in shown : h[j] = h[k] => j = k
    <2> HIDE DEF h
    <2> QED
        BY <1>1, <1>2
<1>5. IsFiniteSet(shown) /\ IsFiniteSet(day)
    <2>1. day \in SUBSET (0 .. n)
        BY DEF DayOf, Reached
    <2>2. Len(got) \in Nat /\ shown \in SUBSET (0 .. Len(got))
        <3>1. Len(got) \in Nat /\ DOMAIN got \in SUBSET (0 .. Len(got))
            BY <1>1
        <3> QED
            BY <3>1 DEF ShownFrom
    <2> HIDE DEF day, shown
    <2> QED
        BY <2>1, <2>2, FinitePart
<1>6. h \in [shown -> day]
    <2>1. h = [k \in shown |-> h[k]]
        OBVIOUS
    <2> HIDE DEF h, shown, day
    <2> QED
        BY <1>2, <2>1
<1>7. \A t \in day : rows[t].volume \in Int
    BY DEF DayOf, Reached, HoldsNumbers
<1> HIDE DEF h, shown, day
<1>8. VolumeShown(got, shown) = Volume(rows, day)
    <2> DEFINE F == ShownOf(got, shown)
               G == VolumeOf(rows, day)
    <2>1. \A k \in shown : got[k].bar.volume \in Int
        BY <1>2, <1>7
    <2>2. VolumeShown(got, shown) = Total(F) /\ Volume(rows, day) = Total(G)
        BY <1>5, <1>7, <2>1, ShownIsTotal, VolumeIsTotal
    <2>3. F \in [shown -> Int] /\ G \in [day -> Int]
        BY <1>7, <2>1 DEF ShownOf, VolumeOf
    <2>4. \A k \in shown : F[k] = G[h[k]]
        BY <1>2 DEF ShownOf, VolumeOf
    <2> HIDE DEF F, G
    <2>5. Total(F) = Total(G)
        BY <1>3, <1>4, <1>5, <1>6, <2>3, <2>4, TotalRenamed
    <2> QED
        BY <2>2, <2>5
<1>9. /\ {got[k].bar.high : k \in shown} = {rows[t].high : t \in day}
      /\ {got[k].bar.low : k \in shown} = {rows[t].low : t \in day}
    BY <1>2, <1>3
<1>10. ShowsTheDay(got, shown, rows, day)
    BY <1>8, <1>9, Zenon DEF ShowsTheDay
<1> QED
    BY <1>10 DEF shown, day

\* The bars of a day are those a chart reaches and the older ones.
LEMMA DayInTwoParts ==
    ASSUME NEW n \in Nat, NEW day \in SUBSET (0 .. n), NEW got, got[1].openTime \in Int,
           NEW rows, \A t \in day : rows[t].volume \in Int
    PROVE  /\ Volume(rows, day) = Volume(rows, Older(got, day)) + Volume(rows, Reached(got, day))
           /\ day = Older(got, day) \cup Reached(got, day)
<1> DEFINE older == Older(got, day)
           reached == Reached(got, day)
           F == VolumeOf(rows, day)
<1>1. older \in SUBSET day /\ day \ older = reached /\ day = older \cup reached
    <2>1. \A t \in day : t < got[1].openTime <=> ~(got[1].openTime <= t)
        <3>1. \A t \in day : t \in Int
            OBVIOUS
        <3> QED
            BY <3>1
    <2>2. /\ \A t : t \in older <=> t \in day /\ t < got[1].openTime
          /\ \A t : t \in reached <=> t \in day /\ got[1].openTime <= t
        BY DEF Older, Reached
    <2> HIDE DEF older, reached
    <2>3. /\ \A t : t \in older => t \in day
          /\ \A t : t \in day /\ ~(t \in older) <=> t \in reached
        BY <2>1, <2>2
    <2> QED
        BY <2>3
<1>2. IsFiniteSet(day) /\ IsFiniteSet(older) /\ IsFiniteSet(reached)
    <2>1. older \in SUBSET (0 .. n) /\ reached \in SUBSET (0 .. n)
        BY <1>1
    <2> HIDE DEF older, reached
    <2> QED
        BY <2>1, FinitePart
<1> HIDE DEF older, reached
<1>3. /\ Volume(rows, day) = Total(F)
      /\ Volume(rows, older) = Total(VolumeOf(rows, older))
      /\ Volume(rows, reached) = Total(VolumeOf(rows, reached))
    <2>1. /\ \A t \in older : rows[t].volume \in Int
          /\ \A t \in reached : rows[t].volume \in Int
        BY <1>1
    <2> QED
        BY <1>2, <2>1, VolumeIsTotal
<1>4. F \in [day -> Int]
    BY DEF VolumeOf
<1>5. Part(F, older) = VolumeOf(rows, older) /\ Part(F, reached) = VolumeOf(rows, reached)
    BY <1>1 DEF Part, VolumeOf
<1> HIDE DEF F
<1>6. Total(F) = Total(Part(F, older)) + Total(Part(F, day \ older))
    BY <1>1, <1>2, <1>4, TotalOfTwoParts
<1>7. Volume(rows, day) = Volume(rows, older) + Volume(rows, reached)
    BY <1>1, <1>3, <1>5, <1>6
<1> QED
    BY <1>1, <1>7 DEF older, reached

-------------------------------------------------------------------------------
\* The statistics are those of the bars in the day before the newest of all.
LEMMA StatsOfTheDay ==
    ASSUME NEW n \in Nat, NEW bars \in [Symbols -> SUBSET (0 .. n)]
    PROVE  LET stats == GetMarketStats(Klines(bars), Symbols)
           IN  /\ DOMAIN stats = {s \in Symbols : InDay(bars, s) # {}}
               /\ \A s \in DOMAIN stats :
                     /\ stats[s].day = FoldRows(Table(s, bars[s]), InDay(bars, s))
                     /\ stats[s].candleCount = Cardinality(InDay(bars, s))
               /\ \A s \in DOMAIN stats : Newest(bars) \in Int
<1> DEFINE klines == Klines(bars)
           All == bars["btc"] \cup bars["eth"]
           stats == GetMarketStats(klines, Symbols)
           Window(s) == {t \in DOMAIN klines[s] : t >= Anchor(klines, Symbols) - MsPerDay}
<1>1. ASSUME NEW s \in Symbols
      PROVE  /\ klines[s] = Table(s, bars[s]) /\ DOMAIN klines[s] = bars[s]
             /\ bars[s] \in SUBSET (0 .. n) /\ bars[s] \in SUBSET All
    BY DEF Klines, Table, Symbols
<1>2. NoRows(klines, Symbols) <=> All = {}
    BY <1>1 DEF NoRows, Symbols
<1>3. stats = IF NoRows(klines, Symbols) THEN <<>>
              ELSE [s \in {x \in Symbols : Window(x) # {}} |->
                      [day |-> FoldRows(klines[s], Window(s)), candleCount |-> Cardinality(Window(s))]]
    BY DEF GetMarketStats
<1>4. CASE All = {}
    <2>1. \A s \in Symbols : InDay(bars, s) = {}
        BY <1>1, <1>4 DEF InDay
    <2>2. stats = <<>>
        <3>1. NoRows(klines, Symbols)
            BY <1>2, <1>4
        <3> HIDE DEF klines, stats, Window, All
        <3> QED
            BY <1>3, <3>1
    <2>3. DOMAIN <<>> = {}
        OBVIOUS
    <2> HIDE DEF stats
    <2>4. DOMAIN stats = {}
        BY <2>2, <2>3
    <2> QED
        BY <2>1, <2>4 DEF stats
<1>5. CASE All # {}
    <2> DEFINE top == Max(All)
    <2>1. All \in SUBSET (0 .. n)
        BY <1>1 DEF Symbols
    <2>2. top \in Int
        <3>1. top \in All /\ \A t \in All : t \in Int
            <4>1. \A t \in All : t \in Int
                BY <2>1
            <4> HIDE DEF All
            <4>2. top \in All
                BY <1>5, <2>1, EndsOf
            <4> QED
                BY <4>1, <4>2 DEF All
        <3> HIDE DEF All, top
        <3> QED
            BY <3>1
    <2>3. Anchor(klines, Symbols) = top
        <3>1. UNION {DOMAIN klines[s] : s \in Symbols} = All
            BY <1>1 DEF Symbols
        <3> QED
            BY <3>1 DEF Anchor
    <2>4. Newest(bars) = top
        BY DEF Newest
    <2>5. MsPerDay \in Int
        BY PlanAssumption
    <2> HIDE DEF top
    <2>6. ASSUME NEW s \in Symbols PROVE Window(s) = InDay(bars, s)
        <3>1. \A t \in bars[s] : t \in Int
            BY <1>1
        <3>2. \A t \in bars[s] : t >= top - MsPerDay <=> top - t <= MsPerDay
            BY <2>2, <2>5, <3>1
        <3> HIDE DEF klines
        <3> QED
            BY <1>1, <2>3, <2>4, <3>2 DEF InDay
    <2> HIDE DEF Window, klines, stats
    <2>7. stats = [s \in {x \in Symbols : InDay(bars, x) # {}} |->
                      [day |-> FoldRows(Table(s, bars[s]), InDay(bars, s)),
                       candleCount |-> Cardinality(InDay(bars, s))]]
        <3>1. stats = [s \in {x \in Symbols : Window(x) # {}} |->
                         [day |-> FoldRows(klines[s], Window(s)),
                          candleCount |-> Cardinality(Window(s))]]
            BY <1>2, <1>3, <1>5
        <3>2. {x \in Symbols : Window(x) # {}} = {x \in Symbols : InDay(bars, x) # {}}
            BY <2>6
        <3> DEFINE held == {x \in Symbols : InDay(bars, x) # {}}
        <3>3. \A s \in held : Window(s) = InDay(bars, s) /\ klines[s] = Table(s, bars[s])
            BY <1>1, <2>6
        <3> HIDE DEF held
        <3>4. stats = [s \in held |-> [day |-> FoldRows(klines[s], Window(s)),
                                       candleCount |-> Cardinality(Window(s))]]
            BY <3>1, <3>2 DEF held
        <3>5. stats = [s \in held |-> [day |-> FoldRows(Table(s, bars[s]), InDay(bars, s)),
                                       candleCount |-> Cardinality(InDay(bars, s))]]
            BY <3>3, <3>4
        <3> QED
            BY <3>5 DEF held
    <2> QED
        BY <2>2, <2>4, <2>7 DEF stats, klines
<1> QED
    BY <1>4, <1>5

\* A card agrees with the charts of its symbol.
LEMMA CardsAgree ==
    ASSUME NEW n \in Nat, NEW bars \in [Symbols -> SUBSET (0 .. n)], NEW s \in Symbols,
           InDay(bars, s) # {}, Newest(bars) \in Int, NEW card, NEW charts,
           card.day = FoldRows(Table(s, bars[s]), InDay(bars, s)),
           card.candleCount = Cardinality(InDay(bars, s)),
           \A i \in Strides : charts[i] = GetCandles(Table(s, bars[s]), i, MaxCandles, DefaultMa)
    PROVE  CardAgrees(bars, s, card, charts)
<1> DEFINE rows == Table(s, bars[s])
           held == bars[s]
           day == InDay(bars, s)
           chart == charts[1]
           newest == Newest(bars)
           shown == {k \in DOMAIN chart : newest - chart[k].openTime <= MsPerDay}
           older == {t \in day : t < chart[1].openTime}
<1>1. held \in SUBSET (0 .. n) /\ held # {} /\ day \in SUBSET held
    BY DEF InDay
<1>2. /\ MaxCandles \in Nat \ {0} /\ DefaultMa \in Nat \ {0}
      /\ Strides \in SUBSET (Nat \ {0}) /\ 1 \in Strides
    <2>1. DefaultMa \in 2 .. MaxMa /\ MaxMa \in Nat /\ MaxCandles \in Nat \ {0}
        BY AnalyticsAssumption
    <2>2. Strides \in SUBSET (Nat \ {0}) /\ 1 \in Strides
        BY TablesAssumption
    <2> QED
        BY <2>1, <2>2
<1> HIDE DEF held
<1>3. Max(day) = Max(held)
    <2> DEFINE top == Max(held)
    <2>1. top \in held /\ (\A t \in held : t <= top) /\ \A t \in held : t \in Int
        <3>1. top \in held /\ \A t \in held : t <= top
            BY <1>1, EndsOf
        <3> HIDE DEF top
        <3> QED
            BY <1>1, <3>1
    <2> HIDE DEF top
    <2>2. PICK t \in day : TRUE
        OBVIOUS
    <2>3. t \in held /\ newest - t <= MsPerDay
        BY <2>2 DEF InDay, held
    <2>4. top \in day
        <3>1. MsPerDay \in Int
            BY PlanAssumption
        <3> DEFINE now == Newest(bars)
        <3>2. now \in Int /\ now - t <= MsPerDay
            BY <2>3
        <3> HIDE DEF now
        <3>3. now - top <= MsPerDay
            BY <2>1, <2>3, <3>1, <3>2
        <3> QED
            BY <2>1, <3>3 DEF InDay, held, now
    <2> HIDE DEF day
    <2>5. day \in SUBSET (0 .. n) /\ \A u \in day : u <= top
        BY <1>1, <2>1
    <2>6. Max(day) = top
        BY <2>4, <2>5, GreatestIsMax
    <2> QED
        BY <2>6 DEF top
<1>4. card.day.close = rows[Max(held)].close
    BY <1>3 DEF FoldRows
<1>5. ASSUME NEW i \in Strides PROVE Last(charts[i]).bar.close = card.day.close
    <2>1. History(n, held, i) /\ i \in Nat \ {0}
        BY <1>1, <1>2 DEF History
    <2>2. Last(GetCandles(Table(s, held), i, MaxCandles, DefaultMa)).bar.close
              = Table(s, held)[Max(held)].close
        BY <1>1, <1>2, <2>1, LastCandleIsNewest
    <2>3. charts[i] = GetCandles(Table(s, held), i, MaxCandles, DefaultMa) /\ rows = Table(s, held)
        BY DEF held
    <2> HIDE DEF rows
    <2> QED
        BY <1>4, <2>2, <2>3
<1>6. /\ Volume(rows, day) = Volume(rows, older) + VolumeShown(chart, shown)
      /\ {rows[t].high : t \in day}
            = {rows[t].high : t \in older} \cup {chart[k].bar.high : k \in shown}
      /\ {rows[t].low : t \in day}
            = {rows[t].low : t \in older} \cup {chart[k].bar.low : k \in shown}
    <2>1. History(n, held, 1)
        BY <1>1 DEF History
    <2>2. DOMAIN rows = held /\ chart = GetCandles(rows, 1, MaxCandles, DefaultMa)
        BY <1>2 DEF Table, held
    <2>3. \A t \in held : rows[t].volume \in Int /\ rows[t].high \in Int /\ rows[t].low \in Int
        <3>1. ASSUME NEW t \in held
              PROVE  rows[t].volume \in Int /\ rows[t].high \in Int /\ rows[t].low \in Int
            <4>1. t \in Nat
                BY <1>1
            <4>2. rows[t].volume = 2 ^ t /\ rows[t].high \in Int /\ rows[t].low \in Int
                BY <4>1, RowsOfTable DEF held
            <4>3. 2 ^ t \in Nat
                BY <4>1, PowersArePlus
            <4> HIDE DEF rows
            <4> QED
                BY <4>2, <4>3
        <3> HIDE DEF rows
        <3> QED
            BY <3>1
    <2> HIDE DEF rows
    <2>4. SingleBars(chart, held, rows)
        BY <1>1, <1>2, <2>1, <2>2, SingleBarsShown
    <2>5. HoldsNumbers(rows, held)
        BY <2>3, Zenon DEF HoldsNumbers
    <2>6. day = DayOf(held, newest, MsPerDay) /\ shown = ShownFrom(chart, newest, MsPerDay)
        BY DEF InDay, DayOf, ShownFrom, held
    <2>7. older = Older(chart, day)
        BY DEF Older
    <2>8. chart[1].openTime \in Int
        <3>1. chart[1].openTime \in held /\ \A t \in held : t \in Int
            <4> HIDE DEF chart, day, shown, older
            <4>1. Len(chart) \in Nat \ {0} /\ \A k \in 1 .. Len(chart) : chart[k].openTime \in held
                BY <2>4 DEF SingleBars
            <4>2. chart[1].openTime \in held
                BY <4>1
            <4>3. \A t \in held : t \in Int
                BY <1>1
            <4> QED
                BY <4>2, <4>3
        <3> HIDE DEF chart
        <3> QED
            BY <3>1
    <2>9. day \in SUBSET (0 .. n) /\ \A t \in day : rows[t].volume \in Int
        BY <1>1, <2>3
    <2> DEFINE now == newest
    <2> HIDE DEF chart, day, shown, older, now
    <2>10. ShowsTheDay(chart, ShownFrom(chart, now, MsPerDay), rows,
                       Reached(chart, DayOf(held, now, MsPerDay)))
        BY <2>1, <2>4, <2>5, ShownAreTheDay
    <2>11. ShowsTheDay(chart, shown, rows, Reached(chart, day))
        BY <2>6, <2>10 DEF now
    <2>12. /\ Volume(rows, day) = Volume(rows, Older(chart, day)) + Volume(rows, Reached(chart, day))
           /\ day = Older(chart, day) \cup Reached(chart, day)
        BY <2>8, <2>9, DayInTwoParts
    <2> DEFINE reached == Reached(chart, day)
    <2>13. /\ VolumeShown(chart, shown) = Volume(rows, reached)
           /\ {chart[k].bar.high : k \in shown} = {rows[t].high : t \in reached}
           /\ {chart[k].bar.low : k \in shown} = {rows[t].low : t \in reached}
        BY <2>11, Zenon DEF ShowsTheDay
    <2>14. /\ Volume(rows, day) = Volume(rows, older) + Volume(rows, reached)
           /\ day = older \cup reached
        BY <2>7, <2>12
    <2> HIDE DEF reached
    <2>15. /\ {rows[t].high : t \in day} = {rows[t].high : t \in older} \cup {rows[t].high : t \in reached}
           /\ {rows[t].low : t \in day} = {rows[t].low : t \in older} \cup {rows[t].low : t \in reached}
        BY <2>14
    <2> QED
        BY <2>13, <2>14, <2>15, Zenon
<1>7. /\ card.day.volume = Volume(rows, day)
      /\ card.day.high = Max({rows[t].high : t \in day})
      /\ card.day.low = Min({rows[t].low : t \in day})
    BY DEF FoldRows
<1> HIDE DEF day
<1>8. /\ card.day.volume = Volume(rows, older) + VolumeShown(chart, shown)
      /\ card.day.high = Max({rows[t].high : t \in older} \cup {chart[k].bar.high : k \in shown})
      /\ card.day.low = Min({rows[t].low : t \in older} \cup {chart[k].bar.low : k \in shown})
    <2> HIDE DEF rows, older, shown
    <2> QED
        BY <1>6, <1>7, Zenon
<1> QED
    BY <1>5, <1>8, Zenon DEF CardAgrees, day

\* The market cards and the charts agree (getMarketStats, getCandles), for any
\* number of bars, length of a day and size of a chart, a chart shorter than
\* the day among them.
THEOREM CardsAgreeWithCharts == AnalyticsSpec => []MarketCardsAgreeWithCharts
<1>1. Init => MarketCardsAgreeWithCharts
    BY DEF Init, Idle, MarketCardsAgreeWithCharts
<1>2. ASSUME MarketCardsAgreeWithCharts, [AnalyticsNext]_call
      PROVE  MarketCardsAgreeWithCharts'
    <2>1. CASE CallStats
        <3>1. PICK bars \in [Symbols -> SUBSET (0 .. PairLastBar)] :
                 LET klines == Klines(bars)
                 IN  call' = [fn |-> "stats", bars |-> bars,
                              stats   |-> GetMarketStats(klines, Symbols),
                              rate    |-> TradeRate(klines, Symbols),
                              tiles   |-> OpsTiles([s \in {x \in Symbols : bars[x] # {}} |->
                                                      GetCoverage(klines[s], 1)]),
                              candles |-> [s \in Symbols |-> [i \in Strides |->
                                             GetCandles(klines[s], i, MaxCandles, DefaultMa)]]]
            BY <2>1 DEF CallStats
        <3>2. PairLastBar \in Nat
            BY TablesAssumption
        <3> DEFINE stats == GetMarketStats(Klines(bars), Symbols)
                   charts == [s \in Symbols |-> [i \in Strides |->
                                GetCandles(Klines(bars)[s], i, MaxCandles, DefaultMa)]]
        <3>3. /\ DOMAIN stats = {s \in Symbols : InDay(bars, s) # {}}
              /\ \A s \in DOMAIN stats :
                    /\ stats[s].day = FoldRows(Table(s, bars[s]), InDay(bars, s))
                    /\ stats[s].candleCount = Cardinality(InDay(bars, s))
              /\ \A s \in DOMAIN stats : Newest(bars) \in Int
            BY <3>2, StatsOfTheDay
        <3>4. \A s \in Symbols : \A i \in Strides :
                 charts[s][i] = GetCandles(Table(s, bars[s]), i, MaxCandles, DefaultMa)
            BY DEF Klines
        <3>5. call'.fn = "stats" /\ call'.bars = bars /\ call'.stats = stats /\ call'.candles = charts
            BY <3>1
        <3> HIDE DEF stats, charts
        <3>6. ASSUME NEW s \in DOMAIN stats PROVE CardAgrees(bars, s, stats[s], charts[s])
            <4>1. s \in Symbols /\ InDay(bars, s) # {} /\ Newest(bars) \in Int
                BY <3>3
            <4>2. /\ stats[s].day = FoldRows(Table(s, bars[s]), InDay(bars, s))
                  /\ stats[s].candleCount = Cardinality(InDay(bars, s))
                  /\ \A i \in Strides :
                        charts[s][i] = GetCandles(Table(s, bars[s]), i, MaxCandles, DefaultMa)
                BY <3>3, <3>4, <4>1
            <4> QED
                BY <3>2, <4>1, <4>2, CardsAgree
        <3> QED
            BY <3>3, <3>5, <3>6 DEF MarketCardsAgreeWithCharts
    <2>2. CASE call'.fn # "stats"
        BY <2>2 DEF MarketCardsAgreeWithCharts
    <2>3. CASE UNCHANGED call
        BY <1>2, <2>3 DEF MarketCardsAgreeWithCharts
    <2> QED
        BY <1>2, <2>1, <2>2, <2>3, EveryCall
<1> QED
    BY <1>1, <1>2, PTL DEF AnalyticsSpec

-------------------------------------------------------------------------------
(***************************************************************************)
(* Requests                                                                *)
(***************************************************************************)
\* One more word of the setting.
CsvStep(word, names, upper) == IF word = "" THEN names ELSE Append(names, upper[word])

\* Names holds what csv has collected after each word.
Collects(names, words, upper) ==
    names = [k \in 0 .. Len(words) |->
                IF k = 0 THEN <<>> ELSE CsvStep(words[k], names[k - 1], upper)]

LEMMA CsvCollects ==
    ASSUME NEW words, NEW upper, NEW g, Collects(g, words, upper)
    PROVE  \E names : Collects(names, words, upper) /\ Csv(words, upper) = names[Len(words)]
<1> DEFINE it == CHOOSE f : f = [k \in 0 .. Len(words) |->
                     IF k = 0 THEN <<>>
                     ELSE IF words[k] = "" THEN f[k - 1] ELSE Append(f[k - 1], upper[words[k]])]
<1>1. Csv(words, upper) = it[Len(words)]
    BY DEF Csv
<1>2. g = [k \in 0 .. Len(words) |->
              IF k = 0 THEN <<>>
              ELSE IF words[k] = "" THEN g[k - 1] ELSE Append(g[k - 1], upper[words[k]])]
    BY Zenon DEF Collects, CsvStep
<1>3. it = [k \in 0 .. Len(words) |->
               IF k = 0 THEN <<>>
               ELSE IF words[k] = "" THEN it[k - 1] ELSE Append(it[k - 1], upper[words[k]])]
    BY <1>2, Zenon
<1> HIDE DEF it
<1>4. Collects(it, words, upper)
    BY <1>3, Zenon DEF Collects, CsvStep
<1> QED
    BY <1>1, <1>4

EmptyOrIn(words, upper, S) == \A k \in 1 .. Len(words) : words[k] = "" \/ upper[words[k]] \in S

\* A setting of up to three words, each empty or a symbol, gives symbols.
LEMMA ShortCsv ==
    ASSUME NEW words, NEW n \in 0 .. 3, Len(words) = n, NEW upper, NEW S, EmptyOrIn(words, upper, S)
    PROVE  Csv(words, upper) \in Seq(S)
<1> DEFINE one == CsvStep(words[1], <<>>, upper)
           two == CsvStep(words[2], one, upper)
           all == CsvStep(words[3], two, upper)
           g == [k \in 0 .. n |-> IF k = 0 THEN <<>> ELSE IF k = 1 THEN one
                                   ELSE IF k = 2 THEN two ELSE all]
<1>1. Collects(g, words, upper)
    <2>1. ASSUME NEW k \in 0 .. n
          PROVE  g[k] = IF k = 0 THEN <<>> ELSE CsvStep(words[k], g[k - 1], upper)
        <3> HIDE DEF one, two, all
        <3>1. k = 0 \/ k = 1 \/ k = 2 \/ k = 3
            OBVIOUS
        <3>2. CASE k = 0
            BY <3>2
        <3>3. CASE k = 1
            <4>1. g[0] = <<>> /\ g[1] = one
                BY <3>3
            <4> HIDE DEF g
            <4> QED
                BY <3>3, <4>1 DEF one
        <3>4. CASE k = 2
            <4>1. g[1] = one /\ g[2] = two
                BY <3>4
            <4> HIDE DEF g
            <4> QED
                BY <3>4, <4>1 DEF two
        <3>5. CASE k = 3
            <4>1. g[2] = two /\ g[3] = all
                BY <3>5
            <4> HIDE DEF g
            <4> QED
                BY <3>5, <4>1 DEF all
        <3> QED
            BY <3>1, <3>2, <3>3, <3>4, <3>5
    <2>2. g = [k \in 0 .. n |-> g[k]]
        OBVIOUS
    <2> HIDE DEF g
    <2>3. g = [k \in 0 .. n |-> IF k = 0 THEN <<>> ELSE CsvStep(words[k], g[k - 1], upper)]
        BY <2>1, <2>2, Zenon
    <2> QED
        BY <2>3, Zenon DEF Collects
<1> HIDE DEF g
<1>2. PICK names : Collects(names, words, upper) /\ Csv(words, upper) = names[n]
    BY <1>1, CsvCollects
<1>3. ASSUME NEW k \in 0 .. n
      PROVE  names[k] = IF k = 0 THEN <<>> ELSE CsvStep(words[k], names[k - 1], upper)
    BY <1>2, Zenon DEF Collects
<1>4. ASSUME NEW k \in 1 .. n, NEW before \in Seq(S) PROVE CsvStep(words[k], before, upper) \in Seq(S)
    BY AppendProperties, Zenon DEF CsvStep, EmptyOrIn
<1>5. names[0] \in Seq(S)
    <2>1. names[0] = <<>>
        BY <1>3
    <2>2. <<>> \in Seq(S)
        OBVIOUS
    <2> QED
        BY <2>1, <2>2, Zenon
<1>6. n >= 1 => names[1] \in Seq(S)
    <2>1. ASSUME n >= 1 PROVE names[1] = CsvStep(words[1], names[0], upper)
        BY <1>3, <2>1
    <2> QED
        BY <1>4, <1>5, <2>1
<1>7. n >= 2 => names[2] \in Seq(S)
    <2>1. ASSUME n >= 2 PROVE names[2] = CsvStep(words[2], names[1], upper)
        BY <1>3, <2>1
    <2> QED
        BY <1>4, <1>6, <2>1
<1>8. n >= 3 => names[3] \in Seq(S)
    <2>1. ASSUME n >= 3 PROVE names[3] = CsvStep(words[3], names[2], upper)
        BY <1>3, <2>1
    <2> QED
        BY <1>4, <1>7, <2>1
<1> QED
    BY <1>2, <1>5, <1>6, <1>7, <1>8

\* The settings a process starts with name symbols and an interval of the code.
Settings(config) ==
    /\ Len(config.symbols) \in Nat \ {0} /\ DOMAIN config.symbols = 1 .. Len(config.symbols)
    /\ \A i \in DOMAIN config.symbols : config.symbols[i] \in Symbols
    /\ config.interval \in DOMAIN config.strides
    /\ \A i \in DOMAIN config.strides : config.strides[i] \in Nat \ {0}

LEMMA StartedSettings ==
    ASSUME NEW config \in Started
    PROVE  Settings(config)
<1> DEFINE Load(symbols) == LoadConfig(Source(symbols, 1, 2), SomeIntervals, Upper)
           strides == [i \in SomeIntervals |-> IF i = "short" THEN 1 ELSE 2]
           none == <<"", "">>
           both == <<"eth", "", "BTC">>
           one == <<"btc">>
           Tried == {none, both, one}
<1>1. PICK c \in {x \in Configs : x.accepted} :
         config = [symbols |-> c.symbols, interval |-> c.interval, strides |-> strides]
    BY DEF Started
<1>2. PICK words \in Tried : c = Load(words) /\ c.accepted
    BY <1>1 DEF Configs
<1>3. \/ Load(words) = Refused
      \/ /\ Csv(words, Upper) # <<>> /\ Load(words).symbols = Csv(words, Upper)
         /\ Load(words).interval = "short"
    BY DEF LoadConfig, Source
<1>4. ~Refused.accepted
    BY DEF Refused
<1>10. words = none \/ words = both \/ words = one
    OBVIOUS
<1> HIDE DEF Load, strides, Tried, none, both, one
<1>5. Csv(words, Upper) # <<>> /\ c.symbols = Csv(words, Upper) /\ c.interval = "short"
    BY <1>2, <1>3, <1>4
<1>6. Csv(words, Upper) \in Seq(Symbols)
    <2>1. Upper["eth"] = "eth" /\ Upper["BTC"] = "btc" /\ Upper["btc"] = "btc"
        BY DEF Upper
    <2>2. /\ Len(<<"", "">>) = 2 /\ <<"", "">>[1] = "" /\ <<"", "">>[2] = ""
          /\ Len(<<"btc">>) = 1 /\ <<"btc">>[1] = "btc"
          /\ Len(<<"eth", "", "BTC">>) = 3 /\ <<"eth", "", "BTC">>[1] = "eth"
          /\ <<"eth", "", "BTC">>[2] = "" /\ <<"eth", "", "BTC">>[3] = "BTC"
        OBVIOUS
    <2>3. "btc" \in Symbols /\ "eth" \in Symbols
        BY DEF Symbols
    <2>4. Len(none) = 2 /\ none[1] = "" /\ none[2] = ""
        BY <2>2 DEF none
    <2>5. Len(one) = 1 /\ one[1] = "btc"
        BY <2>2 DEF one
    <2>6. Len(both) = 3 /\ both[1] = "eth" /\ both[2] = "" /\ both[3] = "BTC"
        BY <2>2 DEF both
    <2> DEFINE Fits(word) == word = "" \/ Upper[word] \in Symbols
    <2>7. Fits("") /\ Fits("eth") /\ Fits("BTC") /\ Fits("btc")
        BY <2>1, <2>3
    <2> HIDE DEF Fits
    <2>8. Len(words) \in 0 .. 3 /\ \A k \in 1 .. Len(words) : Fits(words[k])
        <3>1. CASE words = none
            <4>1. Len(words) = 2
                BY <2>4, <3>1, Zenon
            <4>3. 2 \in 0 .. 3
                OBVIOUS
            <4>2. ASSUME NEW k \in 1 .. 2 PROVE Fits(words[k])
                <5>1. k = 1 \/ k = 2
                    OBVIOUS
                <5> QED
                    BY <2>4, <2>7, <3>1, <5>1, Zenon
            <4> QED
                BY <4>1, <4>2, <4>3, Zenon
        <3>2. CASE words = both
            <4>1. Len(words) = 3
                BY <2>6, <3>2, Zenon
            <4>3. 3 \in 0 .. 3
                OBVIOUS
            <4>2. ASSUME NEW k \in 1 .. 3 PROVE Fits(words[k])
                <5>1. k = 1 \/ k = 2 \/ k = 3
                    OBVIOUS
                <5> QED
                    BY <2>6, <2>7, <3>2, <5>1, Zenon
            <4> QED
                BY <4>1, <4>2, <4>3, Zenon
        <3>3. CASE words = one
            <4>1. Len(words) = 1
                BY <2>5, <3>3, Zenon
            <4>3. 1 \in 0 .. 3
                OBVIOUS
            <4>2. ASSUME NEW k \in 1 .. 1 PROVE Fits(words[k])
                <5>1. k = 1
                    OBVIOUS
                <5> QED
                    BY <2>5, <2>7, <3>3, <5>1, Zenon
            <4> QED
                BY <4>1, <4>2, <4>3, Zenon
        <3> QED
            BY <1>10, <3>1, <3>2, <3>3, Zenon
    <2>9. EmptyOrIn(words, Upper, Symbols)
        BY <2>8, Zenon DEF EmptyOrIn, Fits
    <2> QED
        BY <2>8, <2>9, ShortCsv
<1>7. /\ Len(c.symbols) \in Nat \ {0} /\ DOMAIN c.symbols = 1 .. Len(c.symbols)
      /\ \A i \in DOMAIN c.symbols : c.symbols[i] \in Symbols
    <2> DEFINE l == Csv(words, Upper)
    <2>1. l \in Seq(Symbols) /\ l # <<>> /\ c.symbols = l
        BY <1>5, <1>6
    <2> HIDE DEF l
    <2>2. Len(l) \in Nat /\ l \in [1 .. Len(l) -> Symbols] /\ (Len(l) = 0 => l = <<>>)
        BY <2>1, LenProperties, EmptySeq
    <2> QED
        BY <2>1, <2>2
<1>8. /\ DOMAIN strides = SomeIntervals /\ "short" \in SomeIntervals
      /\ \A i \in SomeIntervals : strides[i] \in Nat \ {0}
    <2>1. DOMAIN strides = SomeIntervals /\ \A i \in SomeIntervals : strides[i] \in {1, 2}
        BY DEF strides
    <2> QED
        BY <2>1 DEF SomeIntervals
<1>9. config.symbols = c.symbols /\ config.interval = c.interval /\ config.strides = strides
    BY <1>1
<1> QED
    BY <1>5, <1>7, <1>8, <1>9 DEF Settings

\* What a parameter may be: given, or absent and then of the kind null.
Parameter(raw) == raw.kind = "null" <=> raw = Absent

LEMMA Parameters ==
    /\ \A raw \in Words \cup Numbers : Parameter(raw)
    /\ Parameter(Absent)
<1>1. Parameter(Absent)
    BY DEF Parameter, Absent
<1>2. ASSUME NEW w PROVE Parameter(Word(w))
    BY DEF Parameter, Absent, Word
<1>3. ASSUME NEW d PROVE Parameter(Digits(d))
    BY DEF Parameter, Absent, Digits
<1>4. ASSUME NEW raw \in Words PROVE Parameter(raw)
    BY <1>1, <1>2, <1>3 DEF Words
<1>5. ASSUME NEW raw \in Numbers PROVE Parameter(raw)
    BY <1>1, <1>2, <1>3 DEF Numbers
<1> QED
    BY <1>1, <1>4, <1>5

\* A number is refused, or taken as given and within its range.
LEMMA NumberParsed ==
    ASSUME NEW raw, Parameter(raw), NEW min \in Int, NEW max \in Int, NEW fallback \in min .. max
    PROVE  LET r == ParseInt10(raw, min, max, fallback)
           IN  /\ raw = Absent => r.kind = "parsed"
               /\ r.kind = "BadRequest" \/ (r.kind = "parsed" /\ r.value \in min .. max)
               /\ r.kind = "parsed" /\ raw # Absent => r.value = raw.number
<1> DEFINE r == ParseInt10(raw, min, max, fallback)
<1>1. raw.kind = "null" => r.kind = "parsed" /\ r.value = fallback
    BY DEF ParseInt10, Parsed, BadRequest
<1>2. raw.kind = "digits" /\ raw.number \in min .. max => r.kind = "parsed" /\ r.value = raw.number
    BY DEF ParseInt10, Parsed, BadRequest
<1>3. raw.kind # "null" /\ ~(raw.kind = "digits" /\ raw.number \in min .. max) => r.kind = "BadRequest"
    BY DEF ParseInt10, Parsed, BadRequest
<1> HIDE DEF r
<1>4. CASE raw.kind = "null"
    BY <1>1, <1>4 DEF Parameter, r
<1>5. CASE raw.kind = "digits" /\ raw.number \in min .. max
    BY <1>2, <1>5 DEF Parameter, r
<1>6. CASE raw.kind # "null" /\ ~(raw.kind = "digits" /\ raw.number \in min .. max)
    <2>1. r.kind = "BadRequest" /\ r.kind # "parsed" /\ raw # Absent
        BY <1>3, <1>6 DEF Parameter
    <2> QED
        BY <2>1 DEF r
<1> QED
    BY <1>4, <1>5, <1>6 DEF r

LEMMA IntervalParsed ==
    ASSUME NEW raw, Parameter(raw), NEW intervals, NEW fallback \in intervals
    PROVE  LET r == ParseInterval(raw, intervals, fallback)
           IN  /\ raw = Absent => r.kind = "parsed"
               /\ r.kind = "BadRequest" \/ (r.kind = "parsed" /\ r.value \in intervals)
               /\ r.kind = "parsed" /\ raw # Absent => r.value = raw.value
<1> DEFINE r == ParseInterval(raw, intervals, fallback)
<1>1. raw.kind = "null" => r.kind = "parsed" /\ r.value = fallback
    BY DEF ParseInterval, Parsed, BadRequest
<1>2. raw.kind = "word" /\ raw.value \in intervals => r.kind = "parsed" /\ r.value = raw.value
    BY DEF ParseInterval, Parsed, BadRequest
<1>3. raw.kind # "null" /\ ~(raw.kind = "word" /\ raw.value \in intervals) => r.kind = "BadRequest"
    BY DEF ParseInterval, Parsed, BadRequest
<1> HIDE DEF r
<1>4. CASE raw.kind = "null"
    BY <1>1, <1>4 DEF Parameter, r
<1>5. CASE raw.kind = "word" /\ raw.value \in intervals
    BY <1>2, <1>5 DEF Parameter, r
<1>6. CASE raw.kind # "null" /\ ~(raw.kind = "word" /\ raw.value \in intervals)
    <2>1. r.kind = "BadRequest" /\ r.kind # "parsed" /\ raw # Absent
        BY <1>3, <1>6 DEF Parameter
    <2> QED
        BY <2>1 DEF r
<1> QED
    BY <1>4, <1>5, <1>6 DEF r

LEMMA SymbolParsed ==
    ASSUME NEW raw, Parameter(raw), NEW allowed, NEW upper, Len(allowed) \in Nat \ {0},
           DOMAIN allowed = 1 .. Len(allowed)
    PROVE  LET r == ParseSymbol(raw, allowed, upper)
           IN  /\ raw = Absent => r.kind = "parsed"
               /\ r.kind = "BadRequest" \/ (r.kind = "parsed" /\ r.value \in ToSet(allowed))
               /\ r.kind = "parsed" /\ raw # Absent => r.value = upper[raw.value]
<1> DEFINE r == ParseSymbol(raw, allowed, upper)
           known == raw.kind = "word" /\ Contains(allowed, upper[raw.value])
<1>1. 1 \in DOMAIN allowed /\ allowed # <<>>
    <2>1. DOMAIN <<>> = {}
        OBVIOUS
    <2> QED
        BY <2>1
<1>2. raw.kind = "null" => r.kind = "parsed" /\ r.value = allowed[1]
    BY <1>1 DEF ParseSymbol, Parsed, BadRequest
<1>3. known => r.kind = "parsed" /\ r.value = upper[raw.value]
    BY <1>1 DEF ParseSymbol, Parsed, BadRequest
<1>4. raw.kind # "null" /\ ~known => r.kind = "BadRequest"
    BY <1>1 DEF ParseSymbol, Parsed, BadRequest
<1>5. known => upper[raw.value] \in ToSet(allowed) /\ raw.kind # "null"
    BY DEF Contains, ToSet
<1>6. allowed[1] \in ToSet(allowed)
    BY <1>1 DEF ToSet
<1> HIDE DEF r, known
<1>7. CASE raw.kind = "null"
    BY <1>2, <1>6, <1>7 DEF Parameter, r
<1>8. CASE known
    BY <1>3, <1>5, <1>8 DEF Parameter, r
<1>9. CASE raw.kind # "null" /\ ~known
    <2>1. r.kind = "BadRequest" /\ r.kind # "parsed" /\ raw # Absent
        BY <1>4, <1>9 DEF Parameter
    <2> QED
        BY <2>1 DEF r
<1> QED
    BY <1>7, <1>8, <1>9 DEF r

-------------------------------------------------------------------------------
\* Candles of a stored symbol come, and no more than asked for.
LEMMA StoredCandles ==
    ASSUME NEW s \in Symbols, NEW stride \in Nat \ {0}, NEW limit \in Nat \ {0}, NEW period \in Nat \ {0}
    PROVE  LET got == GetCandles(Stored[s], stride, limit, period)
           IN  got # <<>> /\ Len(got) <= limit
<1> DEFINE bars == 0 .. LastBar
           rows == Stored[s]
           take == LesserOf(limit, MaxCandles)
           W == WindowOf(bars, (take + period) * stride)
           inWindow == Cardinality(CandlesOf(W, stride))
           got == GetCandles(rows, stride, limit, period)
<1>1. LastBar \in Nat /\ MaxCandles \in Nat
    BY TablesAssumption, AnalyticsAssumption
<1>2. History(LastBar, bars, stride) /\ bars # {} /\ DOMAIN rows = bars
    BY <1>1 DEF History, Stored, Table
<1> HIDE DEF bars, rows
<1>3. inWindow \in Nat \ {0} /\ Len(got) \in Nat \ {0} /\ Len(got) = LesserOf(inWindow, take)
    BY <1>2, CandlesShown
<1> HIDE DEF inWindow, got
<1>4. Len(<<>>) = 0
    OBVIOUS
<1>5. got # <<>>
    BY <1>3, <1>4
<1>6. Len(got) <= limit
    BY <1>1, <1>3 DEF LesserOf
<1> QED
    BY <1>5, <1>6 DEF got, rows

ValidRange(min, max, fallback) == min \in Int /\ max \in Int /\ fallback \in min .. max

LEMMA Ranges ==
    /\ ValidRange(1, MaxCandles, DefaultLimit) /\ ValidRange(2, MaxMa, DefaultMa)
    /\ ValidRange(1, MaxHours, DefaultHours) /\ ValidRange(1, MaxEvents, DefaultEvents)
<1>1. /\ MaxCandles \in Int /\ MaxMa \in Int /\ MaxHours \in Int /\ MaxEvents \in Int
      /\ DefaultLimit \in 1 .. MaxCandles /\ DefaultMa \in 2 .. MaxMa
      /\ DefaultHours \in 1 .. MaxHours /\ DefaultEvents \in 1 .. MaxEvents
    BY AnalyticsAssumption
<1> QED
    BY <1>1 DEF ValidRange

LEMMA InRange ==
    ASSUME NEW raw, Parameter(raw), NEW min, NEW max, NEW fallback, ValidRange(min, max, fallback)
    PROVE  LET r == ParseInt10(raw, min, max, fallback)
           IN  /\ raw = Absent => r.kind = "parsed"
               /\ r.kind = "BadRequest" \/ (r.kind = "parsed" /\ r.value \in min .. max)
               /\ r.kind = "parsed" /\ raw # Absent => r.value = raw.number
<1>1. min \in Int /\ max \in Int /\ fallback \in min .. max
    BY DEF ValidRange
<1> QED
    BY <1>1, NumberParsed

\* GET /api/candles answers as asked.
LEMMA RouteAnswers ==
    ASSUME NEW symbol, Parameter(symbol), NEW interval, Parameter(interval), NEW limit, Parameter(limit),
           NEW ma, Parameter(ma), NEW config, Settings(config), NEW fails \in BOOLEAN
    PROVE  LET params == [symbol |-> symbol, interval |-> interval, limit |-> limit, ma |-> ma]
               answer == GetCandlesRoute(params, config, Upper, Stored, fails)
           IN  /\ StatusTells(params, fails, answer)
               /\ answer.status = 200 => CandlesAsAsked(params, config, answer)
<1> DEFINE params == [symbol |-> symbol, interval |-> interval, limit |-> limit, ma |-> ma]
           answer == GetCandlesRoute(params, config, Upper, Stored, fails)
           sy == ParseSymbol(symbol, config.symbols, Upper)
           iv == ParseInterval(interval, DOMAIN config.strides, config.interval)
           li == ParseInt10(limit, 1, MaxCandles, DefaultLimit)
           pe == ParseInt10(ma, 2, MaxMa, DefaultMa)
           refused == \/ sy.kind = "BadRequest" \/ iv.kind = "BadRequest"
                      \/ li.kind = "BadRequest" \/ pe.kind = "BadRequest"
           candles == GetCandles(Stored[sy.value], config.strides[iv.value], li.value, pe.value)
<1>1. /\ symbol = Absent => sy.kind = "parsed"
      /\ sy.kind = "BadRequest" \/ (sy.kind = "parsed" /\ sy.value \in ToSet(config.symbols))
      /\ sy.kind = "parsed" /\ symbol # Absent => sy.value = Upper[symbol.value]
    BY SymbolParsed DEF Settings
<1>2. /\ interval = Absent => iv.kind = "parsed"
      /\ iv.kind = "BadRequest" \/ (iv.kind = "parsed" /\ iv.value \in DOMAIN config.strides)
      /\ iv.kind = "parsed" /\ interval # Absent => iv.value = interval.value
    BY IntervalParsed DEF Settings
<1>3. /\ limit = Absent => li.kind = "parsed"
      /\ li.kind = "BadRequest" \/ (li.kind = "parsed" /\ li.value \in 1 .. MaxCandles)
      /\ li.kind = "parsed" /\ limit # Absent => li.value = limit.number
    BY Ranges, InRange, Zenon
<1>4. /\ ma = Absent => pe.kind = "parsed"
      /\ pe.kind = "BadRequest" \/ (pe.kind = "parsed" /\ pe.value \in 2 .. MaxMa)
      /\ pe.kind = "parsed" /\ ma # Absent => pe.value = ma.number
    BY Ranges, InRange, Zenon
<1>5. /\ params["symbol"] = symbol /\ params["interval"] = interval /\ params["limit"] = limit
      /\ params["ma"] = ma /\ DOMAIN params = {"symbol", "interval", "limit", "ma"}
      /\ params.symbol = symbol /\ params.interval = interval /\ params.limit = limit /\ params.ma = ma
    OBVIOUS
<1>6. /\ refused => answer.status = 400
      /\ ~refused /\ fails => answer.status = 500
      /\ ~refused /\ ~fails =>
            /\ answer.status = 200 /\ answer.symbol = sy.value /\ answer.interval = iv.value
            /\ answer.maPeriod = pe.value /\ answer.candles = candles
    BY <1>5 DEF GetCandlesRoute
<1>7. /\ Given(params, "symbol") <=> symbol # Absent
      /\ Given(params, "interval") <=> interval # Absent
      /\ Given(params, "limit") <=> limit # Absent
      /\ Given(params, "ma") <=> ma # Absent
    BY <1>5, Zenon DEF Given
<1> HIDE DEF params, answer, candles
<1>8. refused => \E p \in DOMAIN params : Given(params, p)
    <2>1. refused => symbol # Absent \/ interval # Absent \/ limit # Absent \/ ma # Absent
        BY <1>1, <1>2, <1>3, <1>4
    <2>2. /\ "symbol" \in DOMAIN params /\ "interval" \in DOMAIN params
          /\ "limit" \in DOMAIN params /\ "ma" \in DOMAIN params
        BY <1>5
    <2> QED
        BY <1>7, <2>1, <2>2, Zenon
<1> HIDE DEF sy, iv, li, pe
<1>9. ASSUME ~refused, ~fails
      PROVE  CandlesAsAsked(params, config, answer)
    <2>1. /\ sy.kind = "parsed" /\ iv.kind = "parsed" /\ li.kind = "parsed" /\ pe.kind = "parsed"
          /\ sy.value \in ToSet(config.symbols) /\ iv.value \in DOMAIN config.strides
          /\ li.value \in 1 .. MaxCandles /\ pe.value \in 2 .. MaxMa
        BY <1>1, <1>2, <1>3, <1>4, <1>9
    <2>2. /\ sy.value \in Symbols /\ config.strides[iv.value] \in Nat \ {0}
        BY <2>1 DEF Settings, ToSet
    <2>3. li.value \in Nat \ {0} /\ pe.value \in Nat \ {0}
        <3>1. MaxCandles \in Int /\ MaxMa \in Int
            BY AnalyticsAssumption
        <3> QED
            BY <2>1, <3>1
    <2>4. candles # <<>> /\ Len(candles) <= li.value
        BY <2>2, <2>3, StoredCandles DEF candles
    <2>5. answer.symbol = sy.value /\ answer.maPeriod = pe.value /\ answer.candles = candles
        BY <1>6, <1>9
    <2>6. Given(params, "symbol") => Upper[params.symbol.value] = answer.symbol
        BY <1>1, <1>5, <1>7, <2>1, <2>5
    <2>7. Given(params, "ma") => params.ma.number = answer.maPeriod
        BY <1>4, <1>5, <1>7, <2>1, <2>5
    <2>8. Given(params, "limit") => Len(answer.candles) <= params.limit.number
        BY <1>3, <1>5, <1>7, <2>1, <2>4, <2>5
    <2> QED
        BY <2>1, <2>4, <2>5, <2>6, <2>7, <2>8 DEF CandlesAsAsked
<1>10. StatusTells(params, fails, answer)
    <2>1. ASSUME answer.status = 200, Given(params, "interval")
          PROVE  params.interval.value = answer.interval
        <3>1. ~refused /\ ~fails
            BY <1>6, <2>1
        <3>2. iv.kind = "parsed" /\ answer.interval = iv.value
            BY <1>2, <1>6, <3>1
        <3> QED
            BY <1>2, <1>5, <1>7, <2>1, <3>2
    <2>2. answer.status = 500 => fails
        BY <1>6
    <2>3. answer.status = 400 => refused
        BY <1>6
    <2> QED
        BY <1>8, <2>1, <2>2, <2>3 DEF StatusTells
<1>11. answer.status = 200 => ~refused /\ ~fails
    BY <1>6
<1> QED
    BY <1>9, <1>10, <1>11 DEF params, answer

\* The stored tables all end with the same bar.
LEMMA StoredAnchor ==
    ASSUME NEW S \in SUBSET Symbols, S # {}
    PROVE  /\ Anchor(Stored, S) = LastBar /\ LastBar \in Nat /\ ~NoRows(Stored, S)
           /\ \A s \in S : DOMAIN Stored[s] = 0 .. LastBar
<1> DEFINE bars == 0 .. LastBar
<1>1. LastBar \in Nat /\ LastBar \in bars /\ bars \in SUBSET (0 .. LastBar)
    BY TablesAssumption
<1>2. \A s \in S : DOMAIN Stored[s] = bars
    BY DEF Stored, Table
<1>3. \A t \in bars : t <= LastBar
    OBVIOUS
<1> HIDE DEF bars
<1>4. Max(bars) = LastBar
    BY <1>1, <1>3, GreatestIsMax
<1>5. UNION {DOMAIN Stored[s] : s \in S} = bars
    BY <1>2
<1>6. ~NoRows(Stored, S)
    BY <1>1, <1>2 DEF NoRows
<1> QED
    BY <1>1, <1>2, <1>4, <1>5, <1>6 DEF Anchor, bars

LEMMA StoredStats ==
    ASSUME NEW S \in SUBSET Symbols, S # {}
    PROVE  DOMAIN GetMarketStats(Stored, S) = S
<1> DEFINE Window(s) == {t \in DOMAIN Stored[s] : t >= Anchor(Stored, S) - MsPerDay}
<1>1. /\ Anchor(Stored, S) = LastBar /\ LastBar \in Nat /\ ~NoRows(Stored, S)
      /\ \A s \in S : DOMAIN Stored[s] = 0 .. LastBar
    BY StoredAnchor
<1>2. MsPerDay \in Nat
    BY PlanAssumption
<1>3. ASSUME NEW s \in S PROVE LastBar \in Window(s)
    BY <1>1, <1>2
<1>4. GetMarketStats(Stored, S) =
         [s \in {x \in S : Window(x) # {}} |->
             [day |-> FoldRows(Stored[s], Window(s)), candleCount |-> Cardinality(Window(s))]]
    BY <1>1 DEF GetMarketStats
<1> HIDE DEF Window
<1>5. {x \in S : Window(x) # {}} = S
    BY <1>3
<1> QED
    BY <1>4, <1>5

\* No line begins before the time asked for, but for a part of a step.
LEMMA StoredLines ==
    ASSUME NEW S \in SUBSET Symbols, S # {}, NEW span \in Int, NEW points \in Nat \ {0}
    PROVE  \A k \in DOMAIN GetRelativeStrength(Stored, S, span, points) :
              GetRelativeStrength(Stored, S, span, points)[k].openTime + PointStep(span, points)
                  > LastBar - span
<1> DEFINE step == PointStep(span, points)
           Src(s) == After(DOMAIN Stored[s], Anchor(Stored, S) - span)
           Has(s) == {AlignToInterval(t, step) : t \in Src(s)}
           complete == {b \in UNION {Has(s) : s \in S} : \A s \in S : b \in Has(s)}
           starts == Ascending(complete)
           Close(s, b) == Stored[s][Max(Bin(Src(s), step, b))].close
           line == GetRelativeStrength(Stored, S, span, points)
           Point(k) == [openTime |-> starts[k],
                        values   |-> [s \in S |-> <<100 * Close(s, starts[k]), Close(s, starts[1])>>]]
<1>1. /\ Anchor(Stored, S) = LastBar /\ LastBar \in Nat /\ ~NoRows(Stored, S)
      /\ \A s \in S : DOMAIN Stored[s] = 0 .. LastBar
    BY StoredAnchor
<1>2. step \in Nat \ {0}
    <2> DEFINE q == (2 * span + points) \div (2 * points)
    <2>1. q \in Int
        OBVIOUS
    <2> HIDE DEF q
    <2>2. GreaterOf(1, q) \in Nat \ {0}
        BY <2>1 DEF GreaterOf
    <2> QED
        BY <2>2 DEF PointStep, q
<1>3. line = [k \in DOMAIN starts |-> Point(k)]
    BY <1>1 DEF GetRelativeStrength
<1> HIDE DEF step, Point
<1>4. ASSUME NEW s \in S, NEW t \in Src(s)
      PROVE  /\ t \in 0 .. LastBar /\ t > LastBar - span
             /\ AlignToInterval(t, step) \in 0 .. LastBar /\ t < AlignToInterval(t, step) + step
    <2>1. t \in 0 .. LastBar /\ t > LastBar - span
        BY <1>1 DEF After
    <2>2. History(LastBar, {t}, step)
        BY <1>1, <1>2, <2>1 DEF History
    <2>3. CandlesOf({t}, step) \in SUBSET (0 .. LastBar)
        BY <2>2, BarsOfCandle
    <2>4. AlignToInterval(t, step) \in CandlesOf({t}, step)
        BY DEF CandlesOf
    <2>5. t < AlignToInterval(t, step) + step
        BY <1>2, <2>1, CandleOfTime
    <2> QED
        BY <2>1, <2>3, <2>4, <2>5
<1> HIDE DEF Src
<1>5. ASSUME NEW b \in complete
      PROVE  b \in 0 .. LastBar /\ b + step > LastBar - span
    <2>1. PICK s \in S : b \in Has(s)
        OBVIOUS
    <2>2. PICK t \in Src(s) : b = AlignToInterval(t, step)
        BY <2>1
    <2>3. /\ t \in 0 .. LastBar /\ t > LastBar - span
          /\ b \in 0 .. LastBar /\ t < b + step
        BY <1>4, <2>2
    <2> QED
        BY <1>1, <1>2, <2>3
<1> HIDE DEF complete
<1>6. complete \in SUBSET (0 .. LastBar) /\ DOMAIN starts = 1 .. Cardinality(complete)
    BY <1>5 DEF Ascending
<1>7. ASSUME NEW k \in DOMAIN starts PROVE starts[k] \in complete
    BY <1>1, <1>6, AscendingListsElements
<1> HIDE DEF starts, line
<1>8. ASSUME NEW k \in DOMAIN line PROVE line[k].openTime + step > LastBar - span
    <2>1. k \in DOMAIN starts /\ line[k].openTime = starts[k]
        BY <1>3 DEF Point
    <2> QED
        BY <1>5, <1>7, <2>1
<1> QED
    BY <1>8 DEF line, step

\* The newest events, newest first.
LEMMA NewestEvents ==
    ASSUME NEW count \in 1 .. MaxEvents
    PROVE  LET events == GetRecentEvents(Log, count)
           IN  /\ \A k \in DOMAIN events : events[k] = Len(Log) + 1 - k
               /\ Len(events) = LesserOf(count, Len(Log))
<1> DEFINE kept == LastOf(Log, count)
           events == GetRecentEvents(Log, count)
           c == LesserOf(5, count)
<1>1. MaxEvents \in Nat /\ count \in Nat \ {0} /\ Clamp(count, 1, MaxEvents) = count
    <2>1. MaxEvents \in Nat
        BY AnalyticsAssumption
    <2> QED
        BY <2>1 DEF Clamp, GreaterOf, LesserOf
<1>2. Len(Log) = 5 /\ Lists(Log, 5, 1 .. 5) /\ \A k \in 1 .. 5 : Log[k] = k
    <2>1. Log[1] = 1 /\ Log[2] = 2 /\ Log[3] = 3 /\ Log[4] = 4 /\ Log[5] = 5 /\ Len(Log) = 5
        BY DEF Log
    <2>2. Log \in [1 .. 5 -> 1 .. 5]
        BY DEF Log
    <2> QED
        BY <2>1, <2>2 DEF Lists
<1>3. /\ c \in Nat /\ c <= 5 /\ Len(kept) = c /\ DOMAIN kept = 1 .. c
      /\ \A k \in 1 .. c : 5 - c + k \in 1 .. 5 /\ kept[k] = Log[5 - c + k]
    <2>1. PICK m : m = 5
        OBVIOUS
    <2> DEFINE some == LesserOf(m, count)
    <2>2. Lists(Log, m, 1 .. 5) /\ count \in Nat \ {0}
        BY <1>1, <1>2, <2>1
    <2>3. /\ some \in Nat /\ some <= m /\ Len(kept) = some /\ DOMAIN kept = 1 .. some
          /\ \A k \in 1 .. some : m - some + k \in 1 .. m /\ kept[k] = Log[m - some + k]
        BY <2>2, LastOfElements
    <2>4. some = c
        BY <2>1
    <2> HIDE DEF some, c, kept
    <2> QED
        BY <2>1, <2>3, <2>4
<1>4. events = Reverse(kept)
    BY <1>1 DEF GetRecentEvents
<1>5. c = LesserOf(count, 5)
    BY <1>1 DEF LesserOf
<1> HIDE DEF kept, c
<1>6. events = [i \in 1 .. c |-> kept[c - i + 1]]
    BY <1>3, <1>4 DEF Reverse
<1> HIDE DEF events
<1>7. ASSUME NEW k \in DOMAIN events PROVE events[k] = 5 + 1 - k
    <2> DEFINE j == c - k + 1
    <2>1. k \in 1 .. c /\ events[k] = kept[j]
        BY <1>6
    <2>2. j \in 1 .. c /\ 5 - c + j = 5 + 1 - k
        BY <1>3, <2>1
    <2> HIDE DEF j
    <2>3. kept[j] = Log[5 - c + j] /\ 5 - c + j \in 1 .. 5
        BY <1>3, <2>2
    <2> QED
        BY <1>2, <2>1, <2>2, <2>3
<1>8. Len(events) = c
    BY <1>3, <1>6
<1> QED
    BY <1>2, <1>5, <1>7, <1>8 DEF events

\* GET /api/dashboard answers as asked.
LEMMA DashboardAnswers ==
    ASSUME NEW interval, Parameter(interval), NEW limit, Parameter(limit), NEW hours, Parameter(hours),
           NEW count, Parameter(count), NEW config, Settings(config), NEW fails \in BOOLEAN
    PROVE  LET params == [interval |-> interval, limit |-> limit, hours |-> hours, events |-> count]
               answer == GetDashboardRoute(params, config, Stored, Log, fails)
           IN  /\ StatusTells(params, fails, answer)
               /\ answer.status = 200 => PanelsAsAsked(params, config, answer)
<1> DEFINE params == [interval |-> interval, limit |-> limit, hours |-> hours, events |-> count]
           answer == GetDashboardRoute(params, config, Stored, Log, fails)
           S == ToSet(config.symbols)
           iv == ParseInterval(interval, DOMAIN config.strides, config.interval)
           li == ParseInt10(limit, 1, MaxCandles, DefaultLimit)
           ho == ParseInt10(hours, 1, MaxHours, DefaultHours)
           co == ParseInt10(count, 1, MaxEvents, DefaultEvents)
           refused == \/ iv.kind = "BadRequest" \/ li.kind = "BadRequest"
                      \/ ho.kind = "BadRequest" \/ co.kind = "BadRequest"
           stats == GetMarketStats(Stored, S)
           candles == [s \in S |-> GetCandles(Stored[s], config.strides[iv.value], li.value, DefaultMa)]
           line == GetRelativeStrength(Stored, S, ho.value * BarsPerHour, LinePoints)
           events == GetRecentEvents(Log, co.value)
<1>1. S \in SUBSET Symbols /\ S # {}
    <2>1. 1 \in DOMAIN config.symbols
        BY DEF Settings
    <2> QED
        BY <2>1 DEF Settings, ToSet
<1>2. /\ interval = Absent => iv.kind = "parsed"
      /\ iv.kind = "BadRequest" \/ (iv.kind = "parsed" /\ iv.value \in DOMAIN config.strides)
      /\ iv.kind = "parsed" /\ interval # Absent => iv.value = interval.value
    BY IntervalParsed DEF Settings
<1>3. /\ limit = Absent => li.kind = "parsed"
      /\ li.kind = "BadRequest" \/ (li.kind = "parsed" /\ li.value \in 1 .. MaxCandles)
      /\ li.kind = "parsed" /\ limit # Absent => li.value = limit.number
    BY Ranges, InRange, Zenon
<1>4. /\ hours = Absent => ho.kind = "parsed"
      /\ ho.kind = "BadRequest" \/ (ho.kind = "parsed" /\ ho.value \in 1 .. MaxHours)
      /\ ho.kind = "parsed" /\ hours # Absent => ho.value = hours.number
    BY Ranges, InRange, Zenon
<1>5. /\ count = Absent => co.kind = "parsed"
      /\ co.kind = "BadRequest" \/ (co.kind = "parsed" /\ co.value \in 1 .. MaxEvents)
      /\ co.kind = "parsed" /\ count # Absent => co.value = count.number
    BY Ranges, InRange, Zenon
<1>6. /\ params["interval"] = interval /\ params["limit"] = limit /\ params["hours"] = hours
      /\ params["events"] = count /\ DOMAIN params = {"interval", "limit", "hours", "events"}
      /\ params.interval = interval /\ params.limit = limit
      /\ params.hours = hours /\ params.events = count
    OBVIOUS
<1>7. /\ refused => answer.status = 400
      /\ ~refused /\ fails => answer.status = 500
      /\ ~refused /\ ~fails =>
            /\ answer.status = 200 /\ answer.interval = iv.value /\ answer.stats = stats
            /\ answer.candles = candles /\ answer.line = line /\ answer.events = events
    BY <1>6 DEF GetDashboardRoute
<1>8. /\ Given(params, "interval") <=> interval # Absent
      /\ Given(params, "limit") <=> limit # Absent
      /\ Given(params, "hours") <=> hours # Absent
      /\ Given(params, "events") <=> count # Absent
    BY <1>6, Zenon DEF Given
<1> HIDE DEF params, answer, candles, stats, line, events
<1>9. refused => \E p \in DOMAIN params : Given(params, p)
    <2>1. refused => interval # Absent \/ limit # Absent \/ hours # Absent \/ count # Absent
        BY <1>2, <1>3, <1>4, <1>5
    <2>2. /\ "interval" \in DOMAIN params /\ "limit" \in DOMAIN params
          /\ "hours" \in DOMAIN params /\ "events" \in DOMAIN params
        BY <1>6
    <2> QED
        BY <1>8, <2>1, <2>2, Zenon
<1> HIDE DEF iv, li, ho, co, S
<1>10. ASSUME ~refused, ~fails
       PROVE  PanelsAsAsked(params, config, answer)
    <2>1. /\ iv.kind = "parsed" /\ li.kind = "parsed" /\ ho.kind = "parsed" /\ co.kind = "parsed"
          /\ iv.value \in DOMAIN config.strides /\ li.value \in 1 .. MaxCandles
          /\ ho.value \in 1 .. MaxHours /\ co.value \in 1 .. MaxEvents
        BY <1>2, <1>3, <1>4, <1>5, <1>10
    <2>2. /\ answer.stats = stats /\ answer.candles = candles
          /\ answer.line = line /\ answer.events = events
        BY <1>7, <1>10
    <2>3. /\ MaxCandles \in Int /\ MaxHours \in Int /\ DefaultMa \in Nat \ {0}
          /\ BarsPerHour \in Nat \ {0} /\ LinePoints \in Nat \ {0}
        <3>1. /\ MaxCandles \in Int /\ MaxHours \in Int /\ MaxMa \in Int /\ DefaultMa \in 2 .. MaxMa
              /\ BarsPerHour \in Nat \ {0} /\ LinePoints \in Nat \ {0}
            BY AnalyticsAssumption
        <3> QED
            BY <3>1
    <2>4. li.value \in Nat \ {0} /\ ho.value \in Int /\ config.strides[iv.value] \in Nat \ {0}
        BY <2>1, <2>3 DEF Settings
    <2>5. DOMAIN answer.stats = ToSet(config.symbols)
        <3>1. DOMAIN stats = S
            BY <1>1, StoredStats DEF stats
        <3> QED
            BY <2>2, <3>1 DEF S
    <2>6. ASSUME NEW s \in S
          PROVE  /\ answer.candles[s] # <<>>
                 /\ Given(params, "limit") => Len(answer.candles[s]) <= params.limit.number
        <3> DEFINE got == GetCandles(Stored[s], config.strides[iv.value], li.value, DefaultMa)
        <3>1. s \in Symbols
            BY <1>1
        <3>2. got # <<>> /\ Len(got) <= li.value
            BY <2>3, <2>4, <3>1, StoredCandles
        <3>3. answer.candles[s] = got
            BY <2>2 DEF candles
        <3> HIDE DEF got
        <3>4. Given(params, "limit") => li.value = params.limit.number
            BY <1>3, <1>6, <1>8, <2>1
        <3> QED
            BY <3>2, <3>3, <3>4
    <2>7. ASSUME Given(params, "hours"), NEW k \in DOMAIN answer.line
          PROVE  answer.line[k].openTime + PointStep(params.hours.number * BarsPerHour, LinePoints)
                     > LastBar - params.hours.number * BarsPerHour
        <3> DEFINE span == ho.value * BarsPerHour
        <3>1. span \in Int
            BY <2>3, <2>4
        <3>2. span = params.hours.number * BarsPerHour
            BY <1>4, <1>6, <1>8, <2>1, <2>7
        <3> HIDE DEF span
        <3>3. line = GetRelativeStrength(Stored, S, span, LinePoints)
            BY DEF line, span
        <3>4. \A i \in DOMAIN line : line[i].openTime + PointStep(span, LinePoints) > LastBar - span
            BY <1>1, <2>3, <3>1, <3>3, StoredLines
        <3> QED
            BY <2>2, <2>7, <3>2, <3>4
    <2>8. /\ \A k \in DOMAIN answer.events : answer.events[k] = Len(Log) + 1 - k
          /\ Given(params, "events") => Len(answer.events) = LesserOf(params.events.number, Len(Log))
        <3>1. /\ \A k \in DOMAIN events : events[k] = Len(Log) + 1 - k
              /\ Len(events) = LesserOf(co.value, Len(Log))
            BY <2>1, NewestEvents DEF events
        <3>2. Given(params, "events") => co.value = params.events.number
            BY <1>5, <1>6, <1>8, <2>1
        <3> QED
            BY <2>2, <3>1, <3>2
    <2>9. \A s \in ToSet(config.symbols) :
             /\ answer.candles[s] # <<>>
             /\ Given(params, "limit") => Len(answer.candles[s]) <= params.limit.number
        BY <2>6 DEF S
    <2> QED
        BY <2>5, <2>7, <2>8, <2>9, Zenon DEF PanelsAsAsked
<1>11. StatusTells(params, fails, answer)
    <2>1. ASSUME answer.status = 200, Given(params, "interval")
          PROVE  params.interval.value = answer.interval
        <3>1. ~refused /\ ~fails
            BY <1>7, <2>1
        <3>2. iv.kind = "parsed" /\ answer.interval = iv.value
            BY <1>2, <1>7, <3>1
        <3> QED
            BY <1>2, <1>6, <1>8, <2>1, <3>2
    <2>2. answer.status = 500 => fails
        BY <1>7
    <2>3. answer.status = 400 => refused
        BY <1>7
    <2> QED
        BY <1>9, <2>1, <2>2, <2>3 DEF StatusTells
<1>12. answer.status = 200 => ~refused /\ ~fails
    BY <1>7
<1> QED
    BY <1>10, <1>11, <1>12 DEF params, answer

\* A request is refused or answered as asked (the routes of apps/web), whatever
\* the limits of the parameters and however many bars are stored.
THEOREM RequestsAreAnsweredAsAsked == AnalyticsSpec => []RefusedOrAnsweredAsAsked
<1>1. Init => RefusedOrAnsweredAsAsked
    BY DEF Init, Idle, RefusedOrAnsweredAsAsked
<1>2. ASSUME RefusedOrAnsweredAsAsked, [AnalyticsNext]_call
      PROVE  RefusedOrAnsweredAsAsked'
    <2>1. CASE CallRoute
        <3> DEFINE Called(symbol, interval, limit, ma, fails, config) ==
                      LET params == [symbol |-> symbol, interval |-> interval, limit |-> limit, ma |-> ma]
                      IN  /\ call'.fn = "route" /\ call'.params = params /\ call'.config = config
                          /\ call'.queryFails = fails
                          /\ call'.answer = GetCandlesRoute(params, config, Upper, Stored, fails)
        <3>1. PICK symbol \in Words, interval \in Words, limit \in Numbers, ma \in Numbers,
                   fails \in BOOLEAN, config \in Started :
                 Called(symbol, interval, limit, ma, fails, config)
            BY <2>1 DEF CallRoute
        <3> DEFINE params == [symbol |-> symbol, interval |-> interval, limit |-> limit, ma |-> ma]
                   answer == GetCandlesRoute(params, config, Upper, Stored, fails)
        <3>2. /\ Parameter(symbol) /\ Parameter(interval) /\ Parameter(limit) /\ Parameter(ma)
              /\ Settings(config)
            BY Parameters, StartedSettings
        <3>3. /\ StatusTells(params, fails, answer)
              /\ answer.status = 200 => CandlesAsAsked(params, config, answer)
            BY <3>2, RouteAnswers
        <3>4. /\ call'.fn = "route" /\ call'.params = params /\ call'.config = config
              /\ call'.queryFails = fails /\ call'.answer = answer
            BY <3>1
        <3> HIDE DEF params, answer, Called
        <3> QED
            BY <3>3, <3>4 DEF RefusedOrAnsweredAsAsked
    <2>2. CASE CallDashboard
        <3> DEFINE Called(interval, limit, hours, count, fails, config) ==
                      LET params == [interval |-> interval, limit |-> limit, hours |-> hours,
                                     events |-> count]
                      IN  /\ call'.fn = "dashboard" /\ call'.params = params /\ call'.config = config
                          /\ call'.queryFails = fails
                          /\ call'.answer = GetDashboardRoute(params, config, Stored, Log, fails)
        <3>1. PICK interval \in Words, limit \in Numbers, hours \in Numbers, count \in Numbers,
                   fails \in BOOLEAN, config \in Started :
                 Called(interval, limit, hours, count, fails, config)
            BY <2>2 DEF CallDashboard
        <3> DEFINE params == [interval |-> interval, limit |-> limit, hours |-> hours, events |-> count]
                   answer == GetDashboardRoute(params, config, Stored, Log, fails)
        <3>2. /\ Parameter(interval) /\ Parameter(limit) /\ Parameter(hours) /\ Parameter(count)
              /\ Settings(config)
            BY Parameters, StartedSettings
        <3>3. /\ StatusTells(params, fails, answer)
              /\ answer.status = 200 => PanelsAsAsked(params, config, answer)
            BY <3>2, DashboardAnswers
        <3>4. /\ call'.fn = "dashboard" /\ call'.params = params /\ call'.config = config
              /\ call'.queryFails = fails /\ call'.answer = answer
            BY <3>1
        <3> HIDE DEF params, answer, Called
        <3> QED
            BY <3>3, <3>4 DEF RefusedOrAnsweredAsAsked
    <2>3. CASE call'.fn \notin {"route", "dashboard"}
        BY <2>3 DEF RefusedOrAnsweredAsAsked
    <2>4. CASE UNCHANGED call
        BY <1>2, <2>4 DEF RefusedOrAnsweredAsAsked
    <2> QED
        BY <1>2, <2>1, <2>2, <2>3, <2>4, EveryCall
<1> QED
    BY <1>1, <1>2, PTL DEF AnalyticsSpec

-------------------------------------------------------------------------------
(***************************************************************************)
(* Products                                                                *)
(***************************************************************************)
\* What ProductSet computes for the subsets of S.
Multiplies(g, S) ==
    g = [T \in SUBSET S |-> IF T = {} THEN 1 ELSE SomeOf(T) * g[T \ {SomeOf(T)}]]

\* The same, up to subsets of n elements.
MultipliesUpTo(g, n, S) ==
    \A T \in SUBSET S : Cardinality(T) <= n =>
        g[T] = IF T = {} THEN 1 ELSE SomeOf(T) * g[T \ {SomeOf(T)}]

\* The products over the subsets of a finite set of positive numbers exist.
LEMMA ProductsExist ==
    ASSUME NEW S \in SUBSET (Nat \ {0}), IsFiniteSet(S)
    PROVE  \E g \in [SUBSET S -> Nat \ {0}] : Multiplies(g, S)
<1> DEFINE Plus == Nat \ {0}
           Wrong == {n \in Nat : ~ \E g \in [SUBSET S -> Plus] : MultipliesUpTo(g, n, S)}
<1>1. \A T \in SUBSET S :
         /\ Cardinality(T) \in Nat /\ Cardinality(T) <= Cardinality(S)
         /\ T = {} <=> Cardinality(T) = 0
         /\ \A x \in T : T \ {x} \in SUBSET S /\ Cardinality(T \ {x}) = Cardinality(T) - 1
         /\ T # {} => SomeOf(T) \in T
    BY FiniteSubsets
<1>2. \A x, y \in Plus : x * y \in Plus
    OBVIOUS
<1>3. 1 \in Plus /\ S \in SUBSET Plus
    OBVIOUS
<1> HIDE DEF Plus
<1>4. ASSUME Wrong # {} PROVE FALSE
    <2>1. PICK n \in Wrong : \A m \in Wrong : n <= m
        <3>1. Wrong \in SUBSET Nat
            OBVIOUS
        <3> HIDE DEF Wrong
        <3> QED
            BY <1>4, <3>1, LeastOf
    <2>2. n \in Nat /\ ~ \E g \in [SUBSET S -> Plus] : MultipliesUpTo(g, n, S)
        BY <2>1
    <2>3. n # 0
        <3> SUFFICES ASSUME n = 0 PROVE FALSE
            OBVIOUS
        <3> DEFINE g == [T \in SUBSET S |-> 1]
        <3>1. g \in [SUBSET S -> Plus]
            BY <1>3
        <3>2. \A T \in SUBSET S : Cardinality(T) <= 0 => T = {} /\ g[T] = 1
            BY <1>1
        <3>3. MultipliesUpTo(g, n, S)
            BY <3>2 DEF MultipliesUpTo
        <3> HIDE DEF g
        <3> QED
            BY <2>2, <3>1, <3>3
    <2>4. n - 1 \in Nat /\ n - 1 \notin Wrong
        <3>1. n - 1 \in Nat /\ ~ (n <= n - 1)
            BY <2>2, <2>3
        <3> HIDE DEF Wrong
        <3> QED
            BY <2>1, <3>1
    <2>5. PICK h \in [SUBSET S -> Plus] : MultipliesUpTo(h, n - 1, S)
        BY <2>4
    <2> HIDE DEF Wrong
    <2> DEFINE g == [T \in SUBSET S |-> IF T = {} THEN 1 ELSE SomeOf(T) * h[T \ {SomeOf(T)}]]
    <2>6. g \in [SUBSET S -> Plus]
        <3>1. ASSUME NEW T \in SUBSET S, T # {}
              PROVE  SomeOf(T) * h[T \ {SomeOf(T)}] \in Plus
            <4>1. SomeOf(T) \in Plus /\ h[T \ {SomeOf(T)}] \in Plus
                BY <1>1, <1>3, <3>1
            <4> QED
                BY <1>2, <4>1
        <3> QED
            BY <1>3, <3>1
    <2>7. ASSUME NEW T \in SUBSET S, Cardinality(T) <= n - 1
          PROVE  g[T] = h[T]
        BY <2>5, <2>7 DEF MultipliesUpTo
    <2>8. ASSUME NEW T \in SUBSET S, Cardinality(T) <= n, T # {}
          PROVE  h[T \ {SomeOf(T)}] = g[T \ {SomeOf(T)}]
        <3>1. SomeOf(T) \in T
            BY <1>1, <2>8
        <3>2. /\ T \ {SomeOf(T)} \in SUBSET S /\ Cardinality(T \ {SomeOf(T)}) = Cardinality(T) - 1
              /\ Cardinality(T) \in Nat
            BY <1>1, <3>1
        <3>3. Cardinality(T \ {SomeOf(T)}) <= n - 1
            BY <2>2, <2>8, <3>2
        <3> QED
            BY <2>7, <3>2, <3>3
    <2>9. MultipliesUpTo(g, n, S)
        <3>1. \A T \in SUBSET S :
                 g[T] = IF T = {} THEN 1 ELSE SomeOf(T) * h[T \ {SomeOf(T)}]
            OBVIOUS
        <3> HIDE DEF g
        <3> QED
            BY <2>8, <3>1 DEF MultipliesUpTo
    <2> HIDE DEF g
    <2> QED
        BY <2>2, <2>6, <2>9
<1>5. Cardinality(S) \in Nat
    BY FS_CardinalityType
<1>6. PICK g \in [SUBSET S -> Plus] : MultipliesUpTo(g, Cardinality(S), S)
    BY <1>4, <1>5
<1>7. \A T \in SUBSET S : g[T] = IF T = {} THEN 1 ELSE SomeOf(T) * g[T \ {SomeOf(T)}]
    BY <1>1, <1>6 DEF MultipliesUpTo
<1>8. g = [T \in SUBSET S |-> IF T = {} THEN 1 ELSE SomeOf(T) * g[T \ {SomeOf(T)}]]
    BY <1>7
<1>9. Multiplies(g, S)
    BY <1>8 DEF Multiplies
<1> QED
    BY <1>9 DEF Plus

\* Every element divides the product.
LEMMA FactorsDivide ==
    ASSUME NEW S \in SUBSET (Nat \ {0}), IsFiniteSet(S), NEW g, Multiplies(g, S)
    PROVE  \A T \in SUBSET S : g[T] \in Nat \ {0} /\ \A x \in T : \E q \in Nat \ {0} : g[T] = x * q
<1> DEFINE Plus == Nat \ {0}
           Divides(T) == g[T] \in Plus /\ \A x \in T : \E q \in Plus : g[T] = x * q
           Wrong == {n \in Nat : \E T \in SUBSET S : Cardinality(T) = n /\ ~Divides(T)}
<1>1. \A T \in SUBSET S :
         /\ Cardinality(T) \in Nat
         /\ \A x \in T : T \ {x} \in SUBSET S /\ Cardinality(T \ {x}) = Cardinality(T) - 1
         /\ T # {} => SomeOf(T) \in T
    BY FiniteSubsets
<1>2. ASSUME NEW T \in SUBSET S
      PROVE  g[T] = IF T = {} THEN 1 ELSE SomeOf(T) * g[T \ {SomeOf(T)}]
    BY DEF Multiplies
<1>3. \A x, y \in Plus : x * y \in Plus
    OBVIOUS
<1>4. 1 \in Plus /\ S \in SUBSET Plus
    OBVIOUS
<1>5. \A x, y, z \in Plus : x * (y * z) = y * (x * z)
    OBVIOUS
<1> HIDE DEF Plus
<1>6. ASSUME Wrong # {} PROVE FALSE
    <2>1. PICK n \in Wrong : \A m \in Wrong : n <= m
        <3>1. Wrong \in SUBSET Nat
            OBVIOUS
        <3> HIDE DEF Wrong
        <3> QED
            BY <1>6, <3>1, LeastOf
    <2>2. PICK T \in SUBSET S : n \in Nat /\ Cardinality(T) = n /\ ~Divides(T)
        BY <2>1
    <2>3. T # {}
        BY <1>2, <1>4, <2>2
    <2> DEFINE z == SomeOf(T)
               R == T \ {z}
    <2>4. z \in T /\ z \in Plus /\ R \in SUBSET S /\ Cardinality(R) = n - 1 /\ Cardinality(R) \in Nat
        BY <1>1, <1>4, <2>2, <2>3
    <2>5. n - 1 \in Nat /\ n - 1 \notin Wrong
        BY <2>1, <2>2, <2>4
    <2>6. Divides(R)
        BY <2>4, <2>5
    <2>7. g[T] = z * g[R]
        BY <1>2, <2>3
    <2>8. g[T] \in Plus
        BY <1>3, <2>4, <2>6, <2>7
    <2>9. ASSUME NEW x \in T PROVE \E q \in Plus : g[T] = x * q
        <3>1. CASE x = z
            BY <2>6, <2>7, <3>1
        <3>2. CASE x # z
            <4>1. PICK q \in Plus : g[R] = x * q
                BY <2>6, <3>2
            <4>2. x \in Plus /\ z * q \in Plus /\ z * (x * q) = x * (z * q)
                BY <1>3, <1>4, <1>5, <2>4
            <4> QED
                BY <2>7, <4>1, <4>2
        <3> QED
            BY <3>1, <3>2
    <2> QED
        BY <2>2, <2>8, <2>9
<1>7. \A T \in SUBSET S : Cardinality(T) \in Nat
    BY <1>1
<1> HIDE DEF Divides
<1>8. \A T \in SUBSET S : Divides(T)
    BY <1>6, <1>7
<1> QED
    BY <1>8 DEF Plus, Divides

\* The product of finitely many positive numbers is a positive multiple of each.
LEMMA ProductIsMultiple ==
    ASSUME NEW S \in SUBSET (Nat \ {0}), IsFiniteSet(S)
    PROVE  /\ ProductSet(S) \in Nat \ {0}
           /\ \A x \in S : \E q \in Nat \ {0} : ProductSet(S) = x * q
<1> DEFINE it == CHOOSE iter : iter = [T \in SUBSET S |->
                     IF T = {} THEN 1 ELSE (CHOOSE x \in T : TRUE) * iter[T \ {CHOOSE x \in T : TRUE}]]
<1>1. ProductSet(S) = it[S]
    BY DEF ProductSet, FoldSet, MapThenFoldSet
<1>2. PICK g : Multiplies(g, S)
    BY ProductsExist
<1>3. g = [T \in SUBSET S |->
              IF T = {} THEN 1 ELSE (CHOOSE x \in T : TRUE) * g[T \ {CHOOSE x \in T : TRUE}]]
    BY <1>2 DEF Multiplies, SomeOf
<1>4. it = [T \in SUBSET S |->
               IF T = {} THEN 1 ELSE (CHOOSE x \in T : TRUE) * it[T \ {CHOOSE x \in T : TRUE}]]
    BY <1>3
<1> HIDE DEF it
<1>5. Multiplies(it, S)
    BY <1>4 DEF Multiplies, SomeOf
<1> QED
    BY <1>1, <1>5, FactorsDivide

-------------------------------------------------------------------------------
(***************************************************************************)
(* Taker bars and meters                                                   *)
(***************************************************************************)
\* Where a taker bar ends, from its middle, for b bought of v traded.
BarEnd(b, v) == Clamp(100 * (2 * b - v), -30 * v, 30 * v)

LEMMA OffsetBounds ==
    ASSUME NEW b \in Int, NEW v \in Nat \ {0}
    PROVE  /\ BarEnd(b, v) \in Int /\ -30 * v <= BarEnd(b, v) /\ BarEnd(b, v) <= 30 * v
           /\ BarEnd(b, v) >= 0 <=> 2 * b - v >= 0
BY DEF BarEnd, Clamp, LesserOf, GreaterOf

LEMMA OffsetScaled ==
    ASSUME NEW b \in Int, NEW v \in Nat \ {0}, NEW w \in Nat \ {0}
    PROVE  /\ b * w \in Int /\ v * w \in Nat
           /\ BarEnd(b, v) * w = Clamp(200 * (b * w) - 100 * (v * w), -30 * (v * w), 30 * (v * w))
<1> DEFINE x == b * w
           p == v * w
           d == 100 * (2 * b - v)
<1>1. x \in Int /\ p \in Nat /\ d \in Int
    OBVIOUS
<1>2. d * w = 200 * x - 100 * p /\ (-30 * v) * w = -30 * p /\ (30 * v) * w = 30 * p
    OBVIOUS
<1>3. /\ d <= 30 * v <=> d * w <= (30 * v) * w
      /\ -30 * v <= d <=> (-30 * v) * w <= d * w
    <2>1. 30 * v \in Int /\ -30 * v \in Int
        OBVIOUS
    <2> QED
        BY <1>1, <2>1, TimesMonotone
<1> HIDE DEF x, p, d
<1> DEFINE o == Clamp(d, -30 * v, 30 * v)
<1>4. \/ d <= 30 * v /\ -30 * v <= d /\ o = d
      \/ d <= 30 * v /\ ~(-30 * v <= d) /\ o = -30 * v
      \/ ~(d <= 30 * v) /\ o = 30 * v
    BY <1>1 DEF Clamp, LesserOf, GreaterOf
<1> HIDE DEF o
<1>5. o * w = Clamp(200 * x - 100 * p, -30 * p, 30 * p)
    <2>1. CASE d <= 30 * v /\ -30 * v <= d /\ o = d
        <3>1. o * w = 200 * x - 100 * p
            BY <1>2, <2>1
        <3>2. 200 * x - 100 * p <= 30 * p /\ -30 * p <= 200 * x - 100 * p
            BY <1>2, <1>3, <2>1
        <3> QED
            BY <1>1, <3>1, <3>2 DEF Clamp, LesserOf, GreaterOf
    <2>2. CASE d <= 30 * v /\ ~(-30 * v <= d) /\ o = -30 * v
        <3>1. o * w = -30 * p
            BY <1>2, <2>2
        <3>2. 200 * x - 100 * p <= 30 * p /\ ~(-30 * p <= 200 * x - 100 * p)
            BY <1>2, <1>3, <2>2
        <3> QED
            BY <1>1, <3>1, <3>2 DEF Clamp, LesserOf, GreaterOf
    <2>3. CASE ~(d <= 30 * v) /\ o = 30 * v
        <3>1. o * w = 30 * p
            BY <1>2, <2>3
        <3>2. ~(200 * x - 100 * p <= 30 * p)
            BY <1>2, <1>3, <2>3
        <3> QED
            BY <1>1, <3>1, <3>2 DEF Clamp, LesserOf, GreaterOf
    <2> QED
        BY <1>4, <2>1, <2>2, <2>3
<1>6. BarEnd(b, v) = o
    BY DEF BarEnd, o, d
<1> QED
    BY <1>1, <1>5, <1>6 DEF x, p

\* Bars compare as the ratios do.
LEMMA OffsetsCompare ==
    ASSUME NEW b \in Int, NEW v \in Nat \ {0}, NEW c \in Int, NEW w \in Nat \ {0},
           BarEnd(b, v) * w < BarEnd(c, w) * v
    PROVE  b * w < c * v
<1> DEFINE x == b * w
           y == c * v
           p == v * w
<1>1. /\ x \in Int /\ p \in Nat
      /\ BarEnd(b, v) * w = Clamp(200 * x - 100 * p, -30 * p, 30 * p)
    BY OffsetScaled
<1>2. w * v = p
    OBVIOUS
<1>3. /\ y \in Int
      /\ BarEnd(c, w) * v = Clamp(200 * y - 100 * p, -30 * p, 30 * p)
    BY <1>2, OffsetScaled
<1> HIDE DEF x, y, p
<1>4. Clamp(200 * x - 100 * p, -30 * p, 30 * p) < Clamp(200 * y - 100 * p, -30 * p, 30 * p)
    BY <1>1, <1>3
<1>5. x < y
    BY <1>1, <1>3, <1>4 DEF Clamp, LesserOf, GreaterOf
<1> QED
    BY <1>5 DEF x, y

\* TakerBar of a symbol with statistics and a volume.
LEMMA TakerBarIs ==
    ASSUME NEW stats, NEW s \in DOMAIN stats,
           stats[s].day.taker \in Int, stats[s].day.volume \in Nat \ {0}
    PROVE  LET bar == TakerBar(stats, s, 100)
               b == stats[s].day.taker
               v == stats[s].day.volume
               o == BarEnd(b, v)
           IN  /\ bar.length = (IF o < 0 THEN -o ELSE o) * 100
               /\ bar.unit = 60 * v
               /\ bar.isBuy <=> 2 * b - v >= 0
<1> DEFINE b == stats[s].day.taker
           v == stats[s].day.volume
<1>1. (CASE s \notin DOMAIN stats -> <<1, 2>>
         [] s \in DOMAIN stats /\ stats[s].day.volume = 0 -> <<0, 1>>
         [] OTHER -> <<stats[s].day.taker, stats[s].day.volume>>) = <<b, v>>
    OBVIOUS
<1>2. <<b, v>>[1] = b /\ <<b, v>>[2] = v
    OBVIOUS
<1> QED
    BY <1>1, <1>2, Zenon DEF TakerBar, BarEnd

\* The side and length of a bar as one number.
SideOf(bar) == (IF bar.isBuy THEN 1 ELSE -1) * bar.length

LEMMA SideIsOffset ==
    ASSUME NEW stats, NEW s \in DOMAIN stats,
           stats[s].day.taker \in Int, stats[s].day.volume \in Nat \ {0}
    PROVE  LET bar == TakerBar(stats, s, 100)
               b == stats[s].day.taker
               v == stats[s].day.volume
           IN  /\ SideOf(bar) = 100 * BarEnd(b, v)
               /\ 2 * bar.length <= 100 * bar.unit
               /\ bar.isBuy <=> b >= v - b
               /\ bar.unit = 60 * v
<1> DEFINE b == stats[s].day.taker
           v == stats[s].day.volume
           o == BarEnd(b, v)
           bar == TakerBar(stats, s, 100)
<1>1. /\ bar.length = (IF o < 0 THEN -o ELSE o) * 100
      /\ bar.unit = 60 * v
      /\ bar.isBuy <=> 2 * b - v >= 0
    BY TakerBarIs
<1>2. b \in Int /\ v \in Nat \ {0}
    OBVIOUS
<1> HIDE DEF b, v, bar
<1>3. /\ o \in Int /\ -30 * v <= o /\ o <= 30 * v
      /\ o >= 0 <=> 2 * b - v >= 0
    BY <1>2, OffsetBounds
<1> HIDE DEF o
<1>4. bar.isBuy <=> b >= v - b
    BY <1>1, <1>2
<1>5. 2 * bar.length <= 100 * bar.unit
    BY <1>1, <1>2, <1>3
<1>6. SideOf(bar) = 100 * o
    <2>1. CASE 2 * b - v >= 0
        <3>1. bar.isBuy /\ bar.length = o * 100
            BY <1>1, <1>2, <1>3, <2>1
        <3> QED
            BY <1>3, <3>1 DEF SideOf
    <2>2. CASE ~(2 * b - v >= 0)
        <3>1. ~bar.isBuy /\ bar.length = (-o) * 100
            BY <1>1, <1>2, <1>3, <2>2
        <3> QED
            BY <1>3, <3>1 DEF SideOf
    <2> QED
        BY <2>1, <2>2
<1> QED
    BY <1>1, <1>4, <1>5, <1>6 DEF o, b, v, bar

\* What the takers bought, of some rows.
TakerVolume(rows, times) == MapThenSumSet(LAMBDA t : rows[t].taker, times)

TakerOf(rows, times) == [t \in times |-> rows[t].taker]

LEMMA TakerVolumeIsNumber ==
    ASSUME NEW rows, NEW times, IsFiniteSet(times), \A t \in times : rows[t].taker \in Int
    PROVE  TakerVolume(rows, times) \in Int
<1> DEFINE F == TakerOf(rows, times)
<1>1. F \in [times -> Int]
    BY DEF TakerOf
<1>2. PICK g \in [SUBSET times -> Int] : Adds(g, F, times)
    BY <1>1, SumsExist
<1> DEFINE it == CHOOSE iter : iter = [T \in SUBSET times |->
                     IF T = {} THEN 0
                     ELSE rows[CHOOSE x \in T : TRUE].taker + iter[T \ {CHOOSE x \in T : TRUE}]]
<1>3. TakerVolume(rows, times) = it[times]
    BY DEF TakerVolume, MapThenSumSet, MapThenFoldSet
<1>4. \A T \in SUBSET times : T # {} => F[SomeOf(T)] = rows[CHOOSE x \in T : TRUE].taker
    BY DEF TakerOf, SomeOf
<1>5. g = [T \in SUBSET times |->
              IF T = {} THEN 0
              ELSE rows[CHOOSE x \in T : TRUE].taker + g[T \ {CHOOSE x \in T : TRUE}]]
    BY <1>2, <1>4 DEF Adds, SomeOf
<1>6. it = [T \in SUBSET times |->
               IF T = {} THEN 0
               ELSE rows[CHOOSE x \in T : TRUE].taker + it[T \ {CHOOSE x \in T : TRUE}]]
    BY <1>5
<1> HIDE DEF it, F
<1>7. Adds(it, F, times)
    BY <1>4, <1>6 DEF Adds, SomeOf
<1>8. Total(F) = it[times] /\ Total(F) \in Int
    BY <1>1, <1>7, TotalIsSum, TotalAdds
<1> QED
    BY <1>3, <1>8

\* The sums of a nonempty set of bars of a table.
LEMMA SumsOfRows ==
    ASSUME NEW n \in Nat, NEW s, NEW bars \in SUBSET (0 .. n), NEW times \in SUBSET bars, times # {}
    PROVE  LET fold == FoldRows(Table(s, bars), times)
           IN  fold.taker \in Int /\ fold.volume \in Nat \ {0}
<1> DEFINE rows == Table(s, bars)
<1>1. \A t \in times : t \in Nat /\ rows[t].volume = 2 ^ t /\ rows[t].taker = IF t % 2 = 0 THEN 2 ^ t ELSE 0
    BY DEF Table, Row
<1> HIDE DEF rows
<1>2. \A t \in times : rows[t].volume \in Nat /\ rows[t].volume > 0 /\ rows[t].taker \in Int
    <2> SUFFICES ASSUME NEW t \in times
                 PROVE  rows[t].volume \in Nat /\ rows[t].volume > 0 /\ rows[t].taker \in Int
        OBVIOUS
    <2>1. 2 ^ t \in Nat /\ 2 ^ t > 0
        BY <1>1, PowersArePlus
    <2> DEFINE power == 2 ^ t
    <2>2. rows[t].volume = power /\ (rows[t].taker = power \/ rows[t].taker = 0)
        BY <1>1
    <2> HIDE DEF power
    <2>3. power \in Nat /\ power > 0
        BY <2>1 DEF power
    <2> QED
        BY <2>2, <2>3
<1>3. IsFiniteSet(times)
    BY FinitePart
<1>4. TakerVolume(rows, times) \in Int
    BY <1>2, <1>3, TakerVolumeIsNumber
<1>5. Volume(rows, times) \in Nat \ {0}
    <2> DEFINE F == VolumeOf(rows, times)
    <2>1. F \in [times -> Nat] /\ \A t \in times : F[t] > 0
        BY <1>2 DEF VolumeOf
    <2>2. Volume(rows, times) = Total(F)
        <3>1. \A t \in times : rows[t].volume \in Int
            BY <1>2
        <3> QED
            BY <1>3, <3>1, VolumeIsTotal
    <2> HIDE DEF F
    <2>3. Total(F) \in Nat /\ \A t \in times : F[t] <= Total(F)
        BY <1>3, <2>1, TotalOfNaturals
    <2>4. PICK t \in times : TRUE
        OBVIOUS
    <2>5. F[t] \in Nat /\ F[t] > 0 /\ F[t] <= Total(F)
        BY <2>1, <2>3
    <2> QED
        BY <2>2, <2>3, <2>5
<1>6. FoldRows(rows, times).taker = TakerVolume(rows, times)
    BY DEF FoldRows, TakerVolume
<1>7. FoldRows(rows, times).volume = Volume(rows, times)
    BY DEF FoldRows
<1> QED
    BY <1>4, <1>5, <1>6, <1>7 DEF rows

\* OpsTiles and MarketCards draw the taker bars of getMarketStats.
LEMMA TakersDrawn ==
    ASSUME NEW n \in Nat, NEW bars \in [Symbols -> SUBSET (0 .. n)]
    PROVE  TakersAreDrawn(GetMarketStats(Klines(bars), Symbols))
<1> DEFINE stats == GetMarketStats(Klines(bars), Symbols)
<1>1. /\ DOMAIN stats = {s \in Symbols : InDay(bars, s) # {}}
      /\ \A s \in DOMAIN stats : stats[s].day = FoldRows(Table(s, bars[s]), InDay(bars, s))
    BY StatsOfTheDay
<1> HIDE DEF stats
<1>2. ASSUME NEW s \in DOMAIN stats
      PROVE  stats[s].day.taker \in Int /\ stats[s].day.volume \in Nat \ {0}
    <2>1. s \in Symbols /\ InDay(bars, s) # {}
        BY <1>1
    <2>2. bars[s] \in SUBSET (0 .. n) /\ InDay(bars, s) \in SUBSET bars[s]
        BY <2>1 DEF InDay
    <2>3. LET fold == FoldRows(Table(s, bars[s]), InDay(bars, s))
          IN  fold.taker \in Int /\ fold.volume \in Nat \ {0}
        BY <2>1, <2>2, SumsOfRows
    <2> QED
        BY <1>1, <2>3
<1> DEFINE Bar(x) == TakerBar(stats, x, 100)
           Bought(x) == stats[x].day.taker
           Trades(x) == stats[x].day.volume
<1>3. ASSUME NEW s \in DOMAIN stats
      PROVE  /\ SideOf(Bar(s)) = 100 * BarEnd(Bought(s), Trades(s))
             /\ 2 * Bar(s).length <= 100 * Bar(s).unit
             /\ Bar(s).isBuy <=> Bought(s) >= Trades(s) - Bought(s)
             /\ Bar(s).unit = 60 * Trades(s)
    BY <1>2, SideIsOffset
<1>4. \A s \in DOMAIN stats : Bought(s) \in Int /\ Trades(s) \in Nat \ {0}
    BY <1>2
<1> HIDE DEF Bar, Bought, Trades
<1>5. ASSUME NEW s \in DOMAIN stats, NEW other \in DOMAIN stats,
             SideOf(Bar(s)) * Bar(other).unit < SideOf(Bar(other)) * Bar(s).unit
      PROVE  Bought(s) * Trades(other) < Bought(other) * Trades(s)
    <2> DEFINE o == BarEnd(Bought(s), Trades(s))
               p == BarEnd(Bought(other), Trades(other))
               v == Trades(s)
               w == Trades(other)
    <2>1. v \in Nat \ {0} /\ w \in Nat \ {0} /\ o \in Int /\ p \in Int
        BY <1>4, OffsetBounds
    <2>2. (100 * o) * (60 * w) < (100 * p) * (60 * v)
        BY <1>3, <1>5
    <2> HIDE DEF o, p, v, w
    <2>3. (100 * o) * (60 * w) = 6000 * (o * w) /\ (100 * p) * (60 * v) = 6000 * (p * v)
        BY <2>1
    <2>4. o * w \in Int /\ p * v \in Int
        BY <2>1
    <2>5. o * w < p * v
        BY <2>2, <2>3, <2>4
    <2>6. BarEnd(Bought(s), Trades(s)) * Trades(other) < BarEnd(Bought(other), Trades(other)) * Trades(s)
        BY <2>5 DEF o, p, v, w
    <2> QED
        BY <1>4, <2>6, OffsetsCompare
<1>6. TakersAreDrawn(stats)
    BY <1>3, <1>5 DEF TakersAreDrawn, SideOf, Bar, Bought, Trades
<1> QED
    BY <1>6 DEF stats

-------------------------------------------------------------------------------
\* A meter is full only when nothing is missing.
LEMMA MeterFull ==
    ASSUME NEW actual \in Nat, NEW expected \in Nat \ {0}, actual <= expected
    PROVE  MeterFilled(<<actual, expected>>, 100, 8) = 100 * expected <=> actual = expected
BY DEF MeterFilled, GreaterOf, LesserOf

LEMMA MissingOfGaps ==
    ASSUME NEW n \in Nat, NEW i \in Nat \ {0}, NEW bars \in SUBSET (0 .. n), bars # {},
           \A t \in bars : t % i = 0
    PROVE  Missing(FindGaps(bars, i)) \in Nat /\ (Missing(FindGaps(bars, i)) = 0 <=> FindGaps(bars, i) = {})
<1> DEFINE gaps == FindGaps(bars, i)
           F == Missed(gaps)
<1>1. AddUp(bars, i)
    BY GapsAddUp
<1>2. bars \in SUBSET Int /\ \A t \in bars : AlignToInterval(t, i) = t
    BY BarStarts
<1>3. \A g \in gaps : g.missingCount \in Nat \ {0}
    BY <1>2, GapsAreWhole
<1>4. IsFiniteSet(gaps)
    BY <1>1 DEF AddUp
<1> HIDE DEF gaps
<1>5. F \in [gaps -> Nat] /\ \A g \in gaps : F[g] = g.missingCount
    BY <1>3 DEF Missed
<1>6. Missing(gaps) = Total(F)
    BY <1>3, <1>4, MissingIsTotal
<1> HIDE DEF F
<1>7. Total(F) \in Nat /\ \A g \in gaps : F[g] <= Total(F)
    BY <1>4, <1>5, TotalOfNaturals
<1>8. CASE gaps = {}
    BY <1>6, <1>7, <1>8, NothingMissing DEF gaps
<1>9. CASE gaps # {}
    <2>1. PICK g \in gaps : TRUE
        BY <1>9
    <2>2. F[g] \in Nat /\ F[g] # 0 /\ F[g] <= Total(F)
        BY <1>3, <1>5, <1>7, <2>1
    <2>3. Total(F) # 0
        BY <1>7, <2>2
    <2> QED
        BY <1>6, <1>7, <1>9, <2>3 DEF gaps
<1> QED
    BY <1>8, <1>9

LEMMA MeterAgrees ==
    ASSUME NEW n \in Nat, NEW i \in Nat \ {0}, NEW s,
           NEW bars \in SUBSET (0 .. n), bars # {}, \A t \in bars : t % i = 0
    PROVE  LET coverage == GetCoverage(Table(s, bars), i)
           IN  MeterFilled(coverage.pct, 100, 8) = 100 * coverage.pct[2] <=> FindGaps(bars, i) = {}
<1> DEFINE coverage == GetCoverage(Table(s, bars), i)
           missing == Missing(FindGaps(bars, i))
           actual == coverage.pct[1]
           expected == coverage.pct[2]
<1>1. coverage.pct = <<actual, expected>>
    BY DEF GetCoverage
<1>2. /\ expected - actual = missing
      /\ actual = Cardinality(bars)
    BY CoverageCounted
<1>3. missing \in Nat /\ (missing = 0 <=> FindGaps(bars, i) = {})
    BY MissingOfGaps
<1>4. actual \in Nat \ {0}
    <2>1. IsFiniteSet(bars) /\ Cardinality(bars) \in Nat
        BY FinitePart
    <2>2. Cardinality(bars) # 0
        BY <2>1, FS_EmptySet
    <2> QED
        BY <1>2, <2>1, <2>2
<1>5. expected = Cardinality(bars) + missing
    <2>1. AddUp(bars, i)
        BY GapsAddUp
    <2>2. expected = (Max(bars) - Min(bars)) \div i + 1
        BY DEF GetCoverage, Table
    <2> QED
        BY <2>1, <2>2 DEF AddUp
<1> HIDE DEF coverage, missing, actual, expected
<1>6. expected \in Nat \ {0} /\ actual <= expected /\ (actual = expected <=> missing = 0)
    BY <1>2, <1>3, <1>4, <1>5
<1>7. MeterFilled(<<actual, expected>>, 100, 8) = 100 * expected <=> actual = expected
    BY <1>4, <1>6, MeterFull
<1>8. MeterFilled(coverage.pct, 100, 8) = 100 * expected <=> FindGaps(bars, i) = {}
    BY <1>1, <1>3, <1>6, <1>7
<1> QED
    BY <1>8 DEF coverage, expected

-------------------------------------------------------------------------------
(***************************************************************************)
(* The geometry of the charts                                              *)
(***************************************************************************)
\* Larger values are further up, those between the ends inside the panel.
LEMMA PixelsOrder ==
    ASSUME NEW top \in Int, NEW height \in Nat \ {0}, NEW lo \in Int, NEW hi \in Int,
           NEW v \in Int, NEW w \in Int
    PROVE  LET Y(u) == PixelY(top, height, lo, hi, u)
           IN  /\ Y(v) \in Int
               /\ Y(v) <= Y(w) <=> w <= v
               /\ top * (hi - lo) <= Y(v) <=> v <= hi
               /\ Y(v) <= (top + height) * (hi - lo) <=> lo <= v
               /\ top * (hi - lo) < Y(v) <=> v < hi
               /\ Y(v) < (top + height) * (hi - lo) <=> lo < v
               /\ top * (hi - lo) \in Int /\ (top + height) * (hi - lo) \in Int
<1> DEFINE span == hi - lo
           Y(u) == PixelY(top, height, lo, hi, u)
           a == top * span
           h == height
<1>1. span \in Int /\ a \in Int /\ h \in Nat \ {0}
    OBVIOUS
<1>2. (top + height) * span = a + span * h
    OBVIOUS
<1>3. ASSUME NEW u \in Int
      PROVE  /\ Y(u) = a + span * h - (u - lo) * h
             /\ span * h \in Int /\ (u - lo) * h \in Int
             /\ u <= hi <=> (u - lo) * h <= span * h
             /\ lo <= u <=> 0 * h <= (u - lo) * h
             /\ hi <= u <=> span * h <= (u - lo) * h
             /\ u <= lo <=> (u - lo) * h <= 0 * h
    <2>1. Y(u) = a + span * h - (u - lo) * h
        BY <1>2 DEF PixelY
    <2>2. u - lo \in Int /\ span \in Int /\ 0 \in Int
        OBVIOUS
    <2>3. span * h \in Int /\ (u - lo) * h \in Int
        OBVIOUS
    <2>4. (u <= hi <=> u - lo <= span) /\ (lo <= u <=> 0 <= u - lo)
          /\ (hi <= u <=> span <= u - lo) /\ (u <= lo <=> u - lo <= 0)
        OBVIOUS
    <2> DEFINE d == u - lo
    <2> HIDE DEF d, span, h, Y
    <2>5. /\ d <= span <=> d * h <= span * h
          /\ 0 <= d <=> 0 * h <= d * h
          /\ span <= d <=> span * h <= d * h
          /\ d <= 0 <=> d * h <= 0 * h
        <3>1. d \in Int
            BY <2>2 DEF d
        <3> QED
            BY <1>1, <3>1, TimesMonotone
    <2> QED
        BY <2>1, <2>3, <2>4, <2>5 DEF d
<1>4. v <= w <=> (v - lo) * h <= (w - lo) * h
    <2>1. v - lo \in Int /\ w - lo \in Int /\ (v <= w <=> v - lo <= w - lo)
        OBVIOUS
    <2> DEFINE d == v - lo
               e == w - lo
    <2> HIDE DEF d, e, h
    <2>2. d <= e <=> d * h <= e * h
        BY <1>1, <2>1, TimesMonotone DEF d, e
    <2> QED
        BY <2>1, <2>2 DEF d, e
<1>5. w <= v <=> (w - lo) * h <= (v - lo) * h
    <2>1. v - lo \in Int /\ w - lo \in Int /\ (w <= v <=> w - lo <= v - lo)
        OBVIOUS
    <2> DEFINE d == v - lo
               e == w - lo
    <2> HIDE DEF d, e, h
    <2>2. e <= d <=> e * h <= d * h
        BY <1>1, <2>1, TimesMonotone DEF d, e
    <2> QED
        BY <2>1, <2>2 DEF d, e
<1>6. 0 * h = 0
    OBVIOUS
<1> DEFINE x == (v - lo) * h
           y == (w - lo) * h
           z == span * h
<1>7. /\ x \in Int /\ y \in Int /\ z \in Int
      /\ Y(v) = a + z - x /\ Y(w) = a + z - y
      /\ v <= hi <=> x <= z
      /\ lo <= v <=> 0 <= x
      /\ hi <= v <=> z <= x
      /\ v <= lo <=> x <= 0
      /\ w <= v <=> y <= x
    BY <1>3, <1>5, <1>6
<1>8. (top + height) * span = a + z
    BY <1>2
<1> HIDE DEF x, y, z, Y, a, span, h
<1>9. /\ Y(v) \in Int
      /\ Y(v) <= Y(w) <=> w <= v
      /\ a <= Y(v) <=> v <= hi
      /\ Y(v) <= a + z <=> lo <= v
      /\ a < Y(v) <=> v < hi
      /\ Y(v) < a + z <=> lo < v
      /\ a + z \in Int
    BY <1>1, <1>7
<1> QED
    BY <1>1, <1>8, <1>9 DEF Y, a, span

\* The mark nearest to the pointer, marks being w apart and the first at 0.
LEMMA NearestPoint ==
    ASSUME NEW n \in Nat, n > 1, NEW w \in Nat \ {0}, NEW pixel \in 0 .. w, NEW k \in 1 .. n
    PROVE  LET j == 1 + Clamp(Rounded(pixel * (n - 1), w), 0, n - 1)
           IN  Distance((n - 1) * pixel, (j - 1) * w) <= Distance((n - 1) * pixel, (k - 1) * w)
<1> DEFINE x == pixel * (n - 1)
           q == Rounded(x, w)
           i == k - 1
           m == n - 1
<1>1. x \in Int /\ 0 <= x /\ x <= m * w /\ m \in Nat /\ m \in Nat \ {0}
    <2>1. m \in Nat \ {0} /\ pixel \in Int /\ w \in Int /\ pixel <= w /\ 0 <= pixel
        OBVIOUS
    <2> HIDE DEF m
    <2>2. pixel * m <= w * m /\ 0 * m <= pixel * m
        BY <2>1, TimesMonotone
    <2>3. w * m = m * w /\ 0 * m = 0 /\ pixel * m \in Int
        BY <2>1
    <2> QED
        BY <2>1, <2>2, <2>3 DEF m
<1>2. (n - 1) * pixel = x
    OBVIOUS
<1>3. i \in 0 .. m /\ i \in Int
    OBVIOUS
<1> HIDE DEF x, i, m
<1> DEFINE z == q * w
<1>4. /\ q \in Int /\ z \in Int
      /\ 2 * z <= 2 * x + w /\ 2 * x + w < 2 * z + 2 * w
    <2> DEFINE d == 2 * w
               a == 2 * x + w
    <2>1. d \in Nat \ {0} /\ a \in Int
        BY <1>1
    <2>2. q = a \div d
        BY DEF Rounded
    <2> HIDE DEF d, a, q
    <2>3. q \in Int /\ q * d <= a /\ a < q * d + d
        BY <2>1, <2>2, DivBounds
    <2>4. q * d = 2 * z /\ z \in Int
        BY <2>3 DEF d
    <2> QED
        BY <2>3, <2>4 DEF a, d
<1> HIDE DEF q
<1>5. \A a, b \in Int : a <= b <=> a * w <= b * w
    BY TimesMonotone
<1>6. 0 <= q
    <2>1. -1 \in Int /\ (q <= -1 <=> q * w <= (-1) * w)
        BY <1>4, <1>5
    <2>2. (-1) * w = -w
        OBVIOUS
    <2> QED
        BY <1>1, <1>4, <2>1, <2>2
<1>7. q <= m
    <2>1. m + 1 \in Int /\ (m + 1 <= q <=> (m + 1) * w <= q * w)
        BY <1>1, <1>4, <1>5
    <2>2. (m + 1) * w = m * w + w /\ m * w \in Int
        BY <1>1
    <2> QED
        BY <1>1, <1>4, <2>1, <2>2
<1>8. Clamp(q, 0, m) = q
    BY <1>1, <1>4, <1>6, <1>7 DEF Clamp, LesserOf, GreaterOf
<1> DEFINE y == i * w
<1>9. /\ i <= q - 1 => y <= z - w
      /\ q + 1 <= i => z + w <= y
      /\ y \in Int
    <2>1. /\ q - 1 \in Int /\ q + 1 \in Int
          /\ i <= q - 1 <=> i * w <= (q - 1) * w
          /\ q + 1 <= i <=> (q + 1) * w <= i * w
        BY <1>3, <1>4, <1>5
    <2>2. (q - 1) * w = q * w - w /\ (q + 1) * w = q * w + w /\ i * w \in Int
        BY <1>3, <1>4
    <2> QED
        BY <2>1, <2>2
<1>10. i = q => y = z
    OBVIOUS
<1> HIDE DEF y, z
<1>11. Distance(x, z) <= Distance(x, y)
    BY <1>1, <1>3, <1>4, <1>9, <1>10 DEF Distance
<1>12. (1 + q) - 1 = q
    BY <1>4
<1> QED
    BY <1>2, <1>8, <1>11, <1>12 DEF x, q, y, z, i, m

\* The candle of the slot the pointer is in is the one whose centre is nearest.
LEMMA NearestCandle ==
    ASSUME NEW n \in Nat \ {0}, NEW w \in Nat \ {0}, NEW pixel \in 0 .. w, NEW k \in 1 .. n
    PROVE  LET j == 1 + Clamp((pixel * n) \div w, 0, n - 1)
           IN  Distance(2 * n * pixel, (2 * j - 1) * w) <= Distance(2 * n * pixel, (2 * k - 1) * w)
<1> DEFINE x == pixel * n
           q == x \div w
           p == GreaterOf(0, LesserOf(q, n - 1))
           i == k - 1
<1>1. x \in Int /\ 0 <= x /\ x <= n * w
    <2>1. pixel \in Int /\ w \in Int /\ pixel <= w /\ 0 <= pixel /\ 0 \in Int
        OBVIOUS
    <2>2. pixel * n <= w * n /\ 0 * n <= pixel * n
        BY <2>1, TimesMonotone
    <2>3. w * n = n * w /\ 0 * n = 0 /\ pixel * n \in Int
        BY <2>1
    <2> QED
        BY <2>1, <2>2, <2>3
<1>2. 2 * n * pixel = 2 * x
    OBVIOUS
<1>3. i \in Int /\ 0 <= i /\ i <= n - 1 /\ 2 * k - 1 = 2 * i + 1
    OBVIOUS
<1> HIDE DEF x, i
<1>4. q \in Int /\ q * w <= x /\ x < q * w + w
    BY <1>1, DivBounds
<1> HIDE DEF q
<1>5. \A a, b \in Int : a <= b <=> a * w <= b * w
    BY TimesMonotone
<1>6. 0 <= q
    <2>1. -1 \in Int /\ (q <= -1 <=> q * w <= (-1) * w)
        BY <1>4, <1>5
    <2>2. (-1) * w = -w /\ q * w \in Int
        BY <1>4
    <2> QED
        BY <1>1, <1>4, <2>1, <2>2
<1>7. q <= n
    <2>1. n + 1 \in Int /\ (n + 1 <= q <=> (n + 1) * w <= q * w)
        BY <1>4, <1>5
    <2>2. (n + 1) * w = n * w + w /\ n * w \in Int /\ q * w \in Int
        BY <1>4
    <2> QED
        BY <1>1, <1>4, <2>1, <2>2
<1>8. p \in Int /\ 0 <= p /\ p <= n - 1 /\ (p = q \/ (q = n /\ p = n - 1))
    BY <1>4, <1>6, <1>7 DEF LesserOf, GreaterOf
<1> HIDE DEF p
<1> DEFINE z == p * w
           y == i * w
\* The pointer is in the slot, or at its end.
<1>9. z \in Int /\ z <= x /\ x <= z + w
    <2>1. z \in Int
        BY <1>8
    <2>2. CASE p = q
        BY <1>1, <1>4, <2>1, <2>2
    <2>3. CASE q = n /\ p = n - 1
        <3>1. (n - 1) * w = n * w - w /\ n * w \in Int
            OBVIOUS
        <3> QED
            BY <1>1, <1>4, <2>1, <2>3, <3>1
    <2> QED
        BY <1>8, <2>2, <2>3
<1>10. /\ i <= p - 1 => y <= z - w
       /\ p + 1 <= i => z + w <= y
       /\ y \in Int
    <2>1. /\ p - 1 \in Int /\ p + 1 \in Int
          /\ i <= p - 1 <=> i * w <= (p - 1) * w
          /\ p + 1 <= i <=> (p + 1) * w <= i * w
        BY <1>3, <1>5, <1>8
    <2>2. (p - 1) * w = p * w - w /\ (p + 1) * w = p * w + w /\ i * w \in Int
        BY <1>3, <1>8
    <2> QED
        BY <2>1, <2>2
<1>11. i = p => y = z
    OBVIOUS
<1>12. (2 * (1 + p) - 1) * w = 2 * z + w /\ (2 * i + 1) * w = 2 * y + w
    BY <1>3, <1>8
<1> HIDE DEF y, z
<1>13. Distance(2 * x, 2 * z + w) <= Distance(2 * x, 2 * y + w)
    BY <1>1, <1>3, <1>8, <1>9, <1>10, <1>11 DEF Distance
<1>14. (pixel * n) \div w = q /\ Clamp(q, 0, n - 1) = p
    BY DEF Clamp, p, q, x
<1> QED
    BY <1>2, <1>3, <1>12, <1>13, <1>14

-------------------------------------------------------------------------------
(***************************************************************************)
(* The lines of the comparison                                             *)
(***************************************************************************)
\* What LinesStartTogether leaves of the values of a line: the one at point k is
\* priced p, against the price at the first point.
Valued(v, first, p) == v[1] = 100 * p /\ p \in 1 .. 12 /\ v[2] = first /\ first \in 1 .. 12

Indexed(line, m) ==
    /\ m \in Nat /\ m > 1 /\ Len(line) = m /\ DOMAIN line = 1 .. m
    /\ \A s \in Symbols : \A k \in 1 .. m :
          \E p \in 1 .. 12 : Valued(line[k].values[s], line[1].values[s][2], p)
    /\ \A s \in Symbols : line[1].values[s][1] = 100 * line[1].values[s][2]

LEMMA PriceBounds == ASSUME NEW s, NEW t \in Nat PROVE Price(s, t) \in 2 .. 12
<1> DEFINE x == 3 * t * t + 5 * t + (IF s = "btc" THEN 0 ELSE 4)
<1>1. x \in Int
    OBVIOUS
<1> HIDE DEF x
<1>2. x % 11 \in 0 .. 10
    BY <1>1
<1>3. Price(s, t) = 2 + (x % 11)
    BY DEF Price, x
<1> QED
    BY <1>2, <1>3

LEMMA LinesAreIndexed ==
    ASSUME NEW bars \in [Symbols -> SUBSET (0 .. PairLastBar)], NEW span \in Nat, NEW points \in Nat \ {0},
           Len(GetRelativeStrength(Klines(bars), Symbols, span, points)) > 1
    PROVE  LET line == GetRelativeStrength(Klines(bars), Symbols, span, points)
           IN  Indexed(line, Len(line))
<1> DEFINE line == GetRelativeStrength(Klines(bars), Symbols, span, points)
           klines == Klines(bars)
           step == PointStep(span, points)
           Src(x) == After(DOMAIN klines[x], Anchor(klines, Symbols) - span)
           Has(x) == {AlignToInterval(t, step) : t \in Src(x)}
           complete == {b \in UNION {Has(x) : x \in Symbols} : \A x \in Symbols : b \in Has(x)}
           starts == Ascending(complete)
           m == Cardinality(complete)
<1>1. PairLastBar \in Nat
    BY TablesAssumption
<1>2. line # <<>>
    <2>1. Len(<<>>) = 0
        OBVIOUS
    <2> HIDE DEF line
    <2>2. Len(line) > 1
        BY DEF line
    <2> QED
        BY <2>1, <2>2
<1>3. DOMAIN line = DOMAIN starts /\ line = [k \in DOMAIN starts |-> line[k]]
    <2>1. ~NoRows(klines, Symbols)
        <3>1. ASSUME NoRows(klines, Symbols) PROVE line = <<>>
            BY <3>1 DEF GetRelativeStrength
        <3> QED
            BY <1>2, <3>1
    <2> QED
        BY <2>1 DEF GetRelativeStrength
<1>4. DOMAIN starts = 1 .. m
    BY DEF Ascending
<1>5. m \in Nat
    <2>1. DOMAIN klines["btc"] \in SUBSET (0 .. PairLastBar) /\ "btc" \in Symbols
        BY DEF Klines, Table, Symbols
    <2>2. Src("btc") \in SUBSET (0 .. PairLastBar)
        BY <2>1 DEF After
    <2>3. step \in Nat \ {0}
        BY DEF PointStep, GreaterOf
    <2> HIDE DEF step, Src
    <2>4. ASSUME NEW b \in complete PROVE b \in 0 .. PairLastBar
        <3>1. b \in {AlignToInterval(t, step) : t \in Src("btc")}
            BY <2>1, <2>4
        <3> QED
            BY <1>1, <2>2, <2>3, <3>1, BucketCloses
    <2> HIDE DEF complete
    <2> QED
        BY <1>1, <2>4, FinitePart
<1> HIDE DEF starts, m
<1>6. Len(line) = m /\ DOMAIN line = 1 .. m
    <2> DEFINE R == {line[k] : k \in 1 .. m}
    <2>1. line \in [1 .. m -> R]
        <3> HIDE DEF line
        <3> QED
            BY <1>3, <1>4
    <2> HIDE DEF line, R
    <2>2. Lists(line, m, R)
        BY <1>5, <2>1 DEF Lists
    <2> QED
        BY <2>2, ListLength
<1>7. m > 1
    <2> HIDE DEF line
    <2>1. Len(line) > 1
        BY DEF line
    <2> QED
        BY <1>6, <2>1
<1>8. \A s \in Symbols : \A k \in 1 .. m :
         /\ line[1].values[s][1] = 100 * line[1].values[s][2]
         /\ line[k].values[s][2] = line[1].values[s][2]
         /\ \E t \in bars[s] : line[k].values[s][1] = 100 * Price(s, t + 1) /\ line[k].openTime <= t
         /\ \E t \in bars[s] : line[1].values[s][2] = Price(s, t + 1)
    <2> SUFFICES ASSUME NEW s \in Symbols, NEW k \in 1 .. m
                 PROVE  /\ line[1].values[s][1] = 100 * line[1].values[s][2]
                        /\ line[k].values[s][2] = line[1].values[s][2]
                        /\ \E t \in bars[s] : line[k].values[s][1] = 100 * Price(s, t + 1) /\ line[k].openTime <= t
                        /\ \E t \in bars[s] : line[1].values[s][2] = Price(s, t + 1)
        OBVIOUS
    <2>1. k \in DOMAIN line
        BY <1>6
    <2>2. StartShared(bars, line, s, k)
        BY <2>1, LinesStartTogether
    <2> HIDE DEF line
    <2> QED
        BY <2>2 DEF StartShared
<1>9. ASSUME NEW s \in Symbols, NEW t \in bars[s]
       PROVE  Price(s, t + 1) \in 1 .. 12
    <2>1. bars[s] \in SUBSET (0 .. PairLastBar)
        OBVIOUS
    <2>2. t + 1 \in Nat
        BY <1>1, <2>1
    <2> QED
        BY <2>2, PriceBounds
<1>10. ASSUME NEW s \in Symbols, NEW k \in 1 .. m
      PROVE  \E p \in 1 .. 12 : line[k].values[s][1] = 100 * p
    <2>1. PICK t \in bars[s] : line[k].values[s][1] = 100 * Price(s, t + 1)
        BY <1>8
    <2> QED
        BY <1>9, <2>1
<1> HIDE DEF line
<1>11. ASSUME NEW s \in Symbols
       PROVE  line[1].values[s][2] \in 1 .. 12
    <2>1. 1 \in 1 .. m
        BY <1>5, <1>7
    <2> QED
        BY <1>8, <1>9, <2>1
<1>12. ASSUME NEW s \in Symbols, NEW k \in 1 .. m
       PROVE  \E p \in 1 .. 12 : Valued(line[k].values[s], line[1].values[s][2], p)
    <2>1. PICK p \in 1 .. 12 : line[k].values[s][1] = 100 * p
        BY <1>10
    <2>2. line[k].values[s][2] = line[1].values[s][2] /\ line[1].values[s][2] \in 1 .. 12
        BY <1>8, <1>11
    <2>3. Valued(line[k].values[s], line[1].values[s][2], p)
        BY <2>1, <2>2, Zenon DEF Valued
    <2> QED
        BY <2>3
<1>13. \A s \in Symbols : line[1].values[s][1] = 100 * line[1].values[s][2]
    BY <1>5, <1>7, <1>8
<1>14. Indexed(line, m)
    BY <1>5, <1>6, <1>7, <1>12, <1>13, Zenon DEF Indexed
<1> QED
    BY <1>6, <1>14 DEF line

-------------------------------------------------------------------------------
\* The common denominator of the values of a line.
LEMMA UnitIsMultiple ==
    ASSUME NEW line, NEW m, Indexed(line, m)
    PROVE  /\ Unit(line, Symbols) \in Nat \ {0}
           /\ \A k \in 1 .. m, s \in Symbols :
                 \E q \in Nat \ {0} : /\ Unit(line, Symbols) = line[k].values[s][2] * q
                                      /\ Unit(line, Symbols) \div line[k].values[s][2] = q
<1> DEFINE S == {line[k].values[s][2] : k \in DOMAIN line, s \in Symbols}
           U == Unit(line, Symbols)
<1>1. DOMAIN line = 1 .. m
    BY DEF Indexed
<1>2. ASSUME NEW k \in 1 .. m, NEW s \in Symbols
      PROVE  line[k].values[s][2] \in 1 .. 12
    <2>1. PICK p \in 1 .. 12 : Valued(line[k].values[s], line[1].values[s][2], p)
        BY DEF Indexed
    <2> QED
        BY <2>1 DEF Valued
<1>3. S \in SUBSET (1 .. 12)
    BY <1>1, <1>2
<1>4. ASSUME NEW k \in 1 .. m, NEW s \in Symbols
      PROVE  line[k].values[s][2] \in S
    BY <1>1
<1>5. U = ProductSet(S)
    BY DEF Unit
<1> HIDE DEF S, U
<1>6. S \in SUBSET (Nat \ {0}) /\ IsFiniteSet(S)
    <2> DEFINE n == 12
    <2>1. n \in Nat /\ S \in SUBSET (0 .. n) /\ S \in SUBSET (Nat \ {0})
        BY <1>3
    <2> HIDE DEF n
    <2> QED
        BY <2>1, FinitePart
<1>7. U \in Nat \ {0} /\ \A x \in S : \E q \in Nat \ {0} : U = x * q
    BY <1>5, <1>6, ProductIsMultiple
<1>8. ASSUME NEW k \in 1 .. m, NEW s \in Symbols
      PROVE  \E q \in Nat \ {0} : /\ U = line[k].values[s][2] * q
                                  /\ U \div line[k].values[s][2] = q
    <2> DEFINE x == line[k].values[s][2]
    <2>1. x \in S /\ x \in Nat \ {0}
        BY <1>4, <1>6
    <2> HIDE DEF x
    <2>2. PICK q \in Nat \ {0} : U = x * q
        BY <1>7, <2>1
    <2>3. (q * x - 0 * x) \div x = q - 0
        BY <2>1, DivOfMultiple
    <2>4. q * x - 0 * x = x * q /\ q - 0 = q
        BY <2>1
    <2> QED
        BY <2>2, <2>3, <2>4 DEF x
<1> QED
    BY <1>7, <1>8 DEF U

\* The heights of the values of a line before they are scaled to the panel.
HeightOf(line, k, s) == Hundredths(line, Symbols, line[k].values[s])

\* x, of whose common multiple with another q and r are the cofactors.
LEMMA FractionsOrder ==
    ASSUME NEW p \in Int, NEW v \in Nat \ {0}, NEW q \in Nat \ {0},
           NEW o \in Int, NEW w \in Nat \ {0}, NEW r \in Nat \ {0}, v * q = w * r
    PROVE  o * r < p * q <=> o * v < p * w
<1> DEFINE u == v * q
           d == v * w
           a == p * q
           b == o * r
           x == p * w
           y == o * v
<1>1. u \in Nat \ {0} /\ d \in Nat \ {0} /\ a \in Int /\ b \in Int /\ x \in Int /\ y \in Int
    OBVIOUS
<1>2. a * d = x * u
    <2>1. (p * q) * (v * w) = (p * w) * (v * q)
        OBVIOUS
    <2> QED
        BY <2>1
<1>3. b * d = y * u
    <2>1. (o * r) * (v * w) = (o * v) * (w * r)
        OBVIOUS
    <2> QED
        BY <2>1
<1> HIDE DEF u, d, a, b, x, y
<1>4. a <= b <=> a * d <= b * d
    BY <1>1, TimesMonotone
<1>5. x <= y <=> x * u <= y * u
    BY <1>1, TimesMonotone
<1>6. b < a <=> y < x
    BY <1>1, <1>2, <1>3, <1>4, <1>5
<1> QED
    BY <1>6 DEF a, b, x, y

LEMMA HeightsOfLine ==
    ASSUME NEW line, NEW m, Indexed(line, m)
    PROVE  /\ \A k \in 1 .. m, s \in Symbols :
                 /\ \E a \in Nat : HeightOf(line, k, s) = 100 * a
                 /\ HeightOf(line, k, s) \in 0 .. 120000 * Unit(line, Symbols)
           /\ \A s, other \in Symbols : HeightOf(line, 1, s) = HeightOf(line, 1, other)
           /\ \A k \in 1 .. m, s, other \in Symbols :
                 LET v == line[k].values[s]
                     w == line[k].values[other]
                 IN  HeightOf(line, k, other) < HeightOf(line, k, s) <=> v[1] * w[2] > w[1] * v[2]
<1> DEFINE U == Unit(line, Symbols)
           V(k, s) == line[k].values[s]
           H(k, s) == HeightOf(line, k, s)
<1>1. U \in Nat \ {0} /\ \A k \in 1 .. m, s \in Symbols :
         \E q \in Nat \ {0} : U = V(k, s)[2] * q /\ U \div V(k, s)[2] = q
    BY UnitIsMultiple
<1>2. ASSUME NEW k \in 1 .. m, NEW s \in Symbols
      PROVE  \E p \in 1 .. 12 : V(k, s)[1] = 100 * p /\ V(k, s)[2] \in 1 .. 12
    <2>1. PICK p \in 1 .. 12 : Valued(line[k].values[s], line[1].values[s][2], p)
        BY DEF Indexed
    <2>2. V(k, s)[1] = 100 * p /\ V(k, s)[2] \in 1 .. 12
        BY <2>1 DEF Valued
    <2> QED
        BY <2>2
<1>3. \A k \in 1 .. m, s \in Symbols : H(k, s) = 100 * V(k, s)[1] * (U \div V(k, s)[2])
    BY DEF HeightOf, Hundredths
<1>4. \A s \in Symbols : V(1, s)[1] = 100 * V(1, s)[2]
    BY DEF Indexed
<1>5. m \in Nat /\ m > 1
    BY DEF Indexed
<1> HIDE DEF U, V, H
<1>6. ASSUME NEW k \in 1 .. m, NEW s \in Symbols
      PROVE  \E p \in 1 .. 12, x \in 1 .. 12, q \in Nat \ {0} :
                /\ V(k, s)[1] = 100 * p /\ V(k, s)[2] = x /\ U = x * q
                /\ H(k, s) = 100 * (100 * (p * q)) /\ p * q \in Nat
    <2>1. PICK p \in 1 .. 12 : V(k, s)[1] = 100 * p /\ V(k, s)[2] \in 1 .. 12
        BY <1>2
    <2>2. PICK q \in Nat \ {0} : U = V(k, s)[2] * q /\ U \div V(k, s)[2] = q
        BY <1>1
    <2>3. H(k, s) = 100 * (100 * p) * q
        BY <1>3, <2>1, <2>2
    <2>4. 100 * (100 * p) * q = 100 * (100 * (p * q)) /\ p * q \in Nat
        OBVIOUS
    <2> QED
        BY <2>1, <2>2, <2>3, <2>4
<1>7. ASSUME NEW k \in 1 .. m, NEW s \in Symbols
      PROVE  (\E a \in Nat : H(k, s) = 100 * a) /\ H(k, s) \in 0 .. 120000 * U
    <2>1. PICK p \in 1 .. 12, x \in 1 .. 12, q \in Nat \ {0} :
                /\ V(k, s)[1] = 100 * p /\ V(k, s)[2] = x /\ U = x * q
                /\ H(k, s) = 100 * (100 * (p * q)) /\ p * q \in Nat
        BY <1>6
    <2>2. p * q <= 12 * q
        BY TimesMonotone
    <2>3. q <= x * q
        <3>1. 1 * q <= x * q /\ 1 * q = q
            BY TimesMonotone
        <3> QED
            BY <3>1
    <2> DEFINE a == p * q
               b == x * q
    <2>4. a \in Nat /\ b \in Nat /\ U = b /\ H(k, s) = 100 * (100 * a)
        BY <2>1
    <2> HIDE DEF a, b
    <2>5. a <= 12 * b
        BY <2>2, <2>3, <2>4 DEF a, b
    <2>6. 100 * a \in Nat /\ H(k, s) \in 0 .. 120000 * U
        BY <2>4, <2>5
    <2> QED
        BY <2>4, <2>6
<1>8. ASSUME NEW s \in Symbols, NEW other \in Symbols
      PROVE  H(1, s) = H(1, other)
    <2>1. ASSUME NEW o \in Symbols PROVE H(1, o) = 100 * (100 * U)
        <3>1. 1 \in 1 .. m
            BY <1>5
        <3>2. PICK p \in 1 .. 12, x \in 1 .. 12, q \in Nat \ {0} :
                /\ V(1, o)[1] = 100 * p /\ V(1, o)[2] = x /\ U = x * q
                /\ H(1, o) = 100 * (100 * (p * q)) /\ p * q \in Nat
            BY <1>6, <3>1
        <3>3. p = x
            BY <1>4, <3>2
        <3> QED
            BY <3>2, <3>3
    <2> QED
        BY <2>1
<1>9. ASSUME NEW k \in 1 .. m, NEW s \in Symbols, NEW other \in Symbols
      PROVE  H(k, other) < H(k, s) <=> V(k, s)[1] * V(k, other)[2] > V(k, other)[1] * V(k, s)[2]
    <2>1. PICK p \in 1 .. 12, v \in 1 .. 12, q \in Nat \ {0} :
                /\ V(k, s)[1] = 100 * p /\ V(k, s)[2] = v /\ U = v * q
                /\ H(k, s) = 100 * (100 * (p * q)) /\ p * q \in Nat
        BY <1>6
    <2>2. PICK o \in 1 .. 12, w \in 1 .. 12, r \in Nat \ {0} :
                /\ V(k, other)[1] = 100 * o /\ V(k, other)[2] = w /\ U = w * r
                /\ H(k, other) = 100 * (100 * (o * r)) /\ o * r \in Nat
        BY <1>6
    <2>3. o * r < p * q <=> o * v < p * w
        <3>1. /\ p \in Int /\ v \in Nat \ {0} /\ o \in Int /\ w \in Nat \ {0} /\ v * q = w * r
            BY <2>1, <2>2
        <3> QED
            BY <3>1, FractionsOrder
    <2>4. H(k, other) < H(k, s) <=> o * r < p * q
        BY <2>1, <2>2
    <2>5. (100 * p) * w > (100 * o) * v <=> o * v < p * w
        <3>1. (100 * p) * w = 100 * (p * w) /\ (100 * o) * v = 100 * (o * v)
              /\ p * w \in Int /\ o * v \in Int
            OBVIOUS
        <3> QED
            BY <3>1
    <2> QED
        BY <2>1, <2>2, <2>3, <2>4, <2>5
<1> QED
    BY <1>7, <1>8, <1>9 DEF H, V, U

-------------------------------------------------------------------------------
\* The panel of the lines shows all their values with room above and below.
LEMMA LineDomainHoldsValues ==
    ASSUME NEW line, NEW m, Indexed(line, m)
    PROVE  LET d == LineDomain(line, Symbols)
           IN  /\ d.lo \in Int /\ d.hi \in Int
               /\ \A k \in 1 .. m, s \in Symbols :
                     d.lo < HeightOf(line, k, s) /\ HeightOf(line, k, s) < d.hi
<1> DEFINE U == Unit(line, Symbols)
           n == 120000 * U
           shown == {Hundredths(line, Symbols, line[k].values[s]) : k \in DOMAIN line, s \in Symbols}
           extent == Max(shown) - Min(shown)
           pad == IF extent = 0 THEN 50 * U ELSE (14 * extent) \div 100
           d == LineDomain(line, Symbols)
<1>1. U \in Nat \ {0} /\ n \in Nat
    <2>1. U \in Nat \ {0}
        BY UnitIsMultiple
    <2> HIDE DEF U
    <2> QED
        BY <2>1
<1>2. DOMAIN line = 1 .. m /\ m \in Nat /\ m > 1
    BY DEF Indexed
<1>3. \A k \in 1 .. m, s \in Symbols :
         /\ \E a \in Nat : HeightOf(line, k, s) = 100 * a
         /\ HeightOf(line, k, s) \in 0 .. 120000 * U
    BY HeightsOfLine
<1>4. shown = {HeightOf(line, k, s) : k \in 1 .. m, s \in Symbols}
    BY <1>2 DEF HeightOf
<1>5. d.lo = Min(shown) - pad /\ d.hi = Max(shown) + pad
    BY DEF LineDomain
<1> HIDE DEF d, U, shown
<1>6. ASSUME NEW x \in shown PROVE x \in 0 .. n /\ \E a \in Nat : x = 100 * a
    <2>1. PICK k \in 1 .. m, s \in Symbols : x = HeightOf(line, k, s)
        BY <1>4
    <2> QED
        BY <1>3, <2>1
<1>7. shown # {}
    <2>1. 1 \in 1 .. m /\ "btc" \in Symbols
        BY <1>2 DEF Symbols
    <2> QED
        BY <1>4, <2>1
<1> HIDE DEF n
<1>8. /\ Max(shown) \in shown /\ \A t \in shown : t <= Max(shown)
      /\ Min(shown) \in shown /\ \A t \in shown : Min(shown) <= t
    <2>1. shown \in SUBSET (0 .. n)
        BY <1>6
    <2> QED
        BY <1>1, <1>7, <2>1, EndsOf
<1> DEFINE top == Max(shown)
           bottom == Min(shown)
<1>9. PICK a \in Nat : top = 100 * a
    BY <1>6, <1>8
<1>10. PICK b \in Nat : bottom = 100 * b
    BY <1>6, <1>8
<1>11. b <= a
    <2>1. bottom <= top
        BY <1>8
    <2> HIDE DEF bottom, top
    <2> QED
        BY <1>9, <1>10, <2>1
<1> HIDE DEF top, bottom
<1>12. pad \in Int /\ pad > 0
    <2>1. extent = 100 * (a - b) /\ a - b \in Nat
        BY <1>9, <1>10, <1>11 DEF top, bottom
    <2> DEFINE e == a - b
    <2>2. e \in Nat /\ extent = 100 * e
        BY <2>1
    <2> HIDE DEF extent, e
    <2>3. CASE e = 0
        BY <1>1, <2>2, <2>3
    <2>4. CASE e # 0
        <3>1. pad = (14 * (100 * e)) \div 100
            BY <2>2, <2>4
        <3>2. (14 * (100 * e)) \div 100 = 14 * e
            BY <2>2
        <3> QED
            BY <2>2, <2>4, <3>1, <3>2
    <2> QED
        BY <2>3, <2>4
<1> HIDE DEF pad
<1>13. d.lo = bottom - pad /\ d.hi = top + pad /\ top \in Int /\ bottom \in Int
    BY <1>5, <1>9, <1>10 DEF top, bottom
<1>14. \A k \in 1 .. m, s \in Symbols :
          /\ HeightOf(line, k, s) \in Int
          /\ bottom <= HeightOf(line, k, s) /\ HeightOf(line, k, s) <= top
    <2> SUFFICES ASSUME NEW k \in 1 .. m, NEW s \in Symbols
                 PROVE  /\ HeightOf(line, k, s) \in Int
                        /\ bottom <= HeightOf(line, k, s) /\ HeightOf(line, k, s) <= top
        OBVIOUS
    <2>1. HeightOf(line, k, s) \in shown
        BY <1>4
    <2> QED
        BY <1>6, <1>8, <2>1 DEF top, bottom
<1>15. \A k \in 1 .. m, s \in Symbols :
          d.lo < HeightOf(line, k, s) /\ HeightOf(line, k, s) < d.hi
    BY <1>12, <1>13, <1>14
<1>16. d.lo \in Int /\ d.hi \in Int
    BY <1>12, <1>13
<1> QED
    BY <1>15, <1>16 DEF d

\* IndexedChart draws an indexed line.
LEMMA LinesDrawn ==
    ASSUME NEW line, NEW m, Indexed(line, m), NEW width \in Nat, NEW height \in Nat,
           LineReady(line, LineLayout(width, height))
    PROVE  LinesAreDrawn(line, LineLayout(width, height))
<1> DEFINE layout == LineLayout(width, height)
           w == layout.plotWidth
           h == layout.plotHeight
           top == layout.top
           d == LineDomain(line, Symbols)
           paths == [s \in Symbols |-> LinePath(line, Symbols, layout, s)]
           Y(k, s) == PixelY(top, h, d.lo, d.hi, HeightOf(line, k, s))
<1>1. w \in Nat \ {0} /\ h \in Nat \ {0} /\ top \in Int
    BY DEF LineReady, LineLayout
<1>2. m \in Nat /\ m > 1 /\ Len(line) = m /\ DOMAIN line = 1 .. m
    BY DEF Indexed
<1>3. /\ d.lo \in Int /\ d.hi \in Int
      /\ \A k \in 1 .. m, s \in Symbols :
            d.lo < HeightOf(line, k, s) /\ HeightOf(line, k, s) < d.hi
    BY LineDomainHoldsValues
<1>4. /\ \A k \in 1 .. m, s \in Symbols : HeightOf(line, k, s) \in Int
      /\ \A s, other \in Symbols : HeightOf(line, 1, s) = HeightOf(line, 1, other)
      /\ \A k \in 1 .. m, s, other \in Symbols :
            LET v == line[k].values[s]
                u == line[k].values[other]
            IN  HeightOf(line, k, other) < HeightOf(line, k, s) <=> v[1] * u[2] > u[1] * v[2]
    <2>1. Unit(line, Symbols) \in Nat \ {0}
        BY UnitIsMultiple
    <2>2. \A k \in 1 .. m, s \in Symbols : HeightOf(line, k, s) \in 0 .. 120000 * Unit(line, Symbols)
        BY HeightsOfLine
    <2>3. \A k \in 1 .. m, s \in Symbols : HeightOf(line, k, s) \in Int
        BY <2>1, <2>2
    <2> QED
        BY <2>3, HeightsOfLine
<1>5. \A s \in Symbols : \A k \in 1 .. m : paths[s][k] = <<PointX(layout, k), Y(k, s)>>
    BY <1>2 DEF LinePath, HeightOf
<1> HIDE DEF layout, w, h, top, d, paths
<1>6. \A pixel \in 0 .. layout.plotWidth, k \in DOMAIN line :
         Distance((Len(line) - 1) * pixel, PointX(layout, PointAt(line, layout, pixel)))
             <= Distance((Len(line) - 1) * pixel, PointX(layout, k))
    <2> SUFFICES ASSUME NEW pixel \in 0 .. w, NEW k \in 1 .. m
                 PROVE  Distance((m - 1) * pixel, PointX(layout, PointAt(line, layout, pixel)))
                            <= Distance((m - 1) * pixel, PointX(layout, k))
        BY <1>2 DEF w
    <2> DEFINE j == 1 + Clamp(Rounded(pixel * (m - 1), w), 0, m - 1)
    <2>1. Distance((m - 1) * pixel, (j - 1) * w) <= Distance((m - 1) * pixel, (k - 1) * w)
        BY <1>1, <1>2, NearestPoint
    <2>2. PointAt(line, layout, pixel) = j
        BY <1>2 DEF PointAt, w
    <2> HIDE DEF j
    <2>3. PointX(layout, j) = (j - 1) * w /\ PointX(layout, k) = (k - 1) * w
        BY DEF PointX, w
    <2> QED
        BY <2>1, <2>2, <2>3
<1>7. paths["btc"][1] = paths["eth"][1]
    <2>1. "btc" \in Symbols /\ "eth" \in Symbols /\ 1 \in 1 .. m
        BY <1>2 DEF Symbols
    <2>2. HeightOf(line, 1, "btc") = HeightOf(line, 1, "eth")
        BY <1>4, <2>1
    <2>3. paths["btc"][1] = <<PointX(layout, 1), Y(1, "btc")>> /\ paths["eth"][1] = <<PointX(layout, 1), Y(1, "eth")>>
        BY <1>5, <2>1
    <2> QED
        BY <2>2, <2>3
<1>8. ASSUME NEW k \in 1 .. m, NEW s \in Symbols, NEW other \in Symbols
      PROVE  LET v == line[k].values[s]
                 u == line[k].values[other]
             IN  /\ paths[s][k][2] < paths[other][k][2] <=> v[1] * u[2] > u[1] * v[2]
                 /\ paths[s][k][2] > top * (d.hi - d.lo)
                 /\ paths[s][k][2] < (top + h) * (d.hi - d.lo)
    <2> DEFINE x == HeightOf(line, k, s)
               y == HeightOf(line, k, other)
    <2>1. x \in Int /\ y \in Int /\ d.lo < x /\ x < d.hi
        BY <1>3, <1>4
    <2>2. paths[s][k][2] = Y(k, s) /\ paths[other][k][2] = Y(k, other)
        BY <1>5
    <2> DEFINE P(u) == PixelY(top, h, d.lo, d.hi, u)
    <2>3. Y(k, s) = P(x) /\ Y(k, other) = P(y)
        OBVIOUS
    <2> HIDE DEF x, y, Y, P
    <2>4. /\ P(x) \in Int /\ P(y) \in Int
          /\ P(y) <= P(x) <=> x <= y
          /\ top * (d.hi - d.lo) < P(x) <=> x < d.hi
          /\ P(x) < (top + h) * (d.hi - d.lo) <=> d.lo < x
          /\ top * (d.hi - d.lo) \in Int
        BY <1>1, <1>3, <2>1, PixelsOrder DEF P
    <2>5. P(x) < P(y) <=> y < x
        BY <2>1, <2>4
    <2>6. y < x <=> line[k].values[s][1] * line[k].values[other][2]
                        > line[k].values[other][1] * line[k].values[s][2]
        BY <1>4 DEF x, y
    <2>7. P(x) > top * (d.hi - d.lo)
        BY <2>1, <2>4
    <2> QED
        BY <2>1, <2>2, <2>3, <2>4, <2>5, <2>6, <2>7
<1>9. LinesAreDrawn(line, layout)
    BY <1>2, <1>6, <1>7, <1>8, Zenon DEF LinesAreDrawn, paths, top, h, d
<1> QED
    BY <1>9 DEF layout

-------------------------------------------------------------------------------
(***************************************************************************)
(* The candles of a chart                                                  *)
(***************************************************************************)
\* A candle as FoldRows makes it of bars whose prices are those of Price.
Traded13(bar) ==
    /\ bar.low \in 1 .. 13 /\ bar.high \in 1 .. 13 /\ bar.open \in Int /\ bar.close \in Int
    /\ bar.low < bar.high
    /\ bar.low <= bar.open /\ bar.open <= bar.high /\ bar.low <= bar.close /\ bar.close <= bar.high
    /\ bar.volume \in Nat \ {0}

Drawable(candles, n) ==
    /\ n \in Nat \ {0} /\ Len(candles) = n /\ DOMAIN candles = 1 .. n
    /\ \A k \in 1 .. n : Traded13(candles[k].bar)

\* The panel of prices shows all of them with room above and below.
LEMMA PriceDomainHoldsPrices ==
    ASSUME NEW candles, NEW n, Drawable(candles, n)
    PROVE  LET d == PriceDomain(candles)
           IN  /\ \E extent \in 1 .. 12 : d.hi - d.lo = 112 * extent
               /\ d.lo \in Nat /\ d.hi \in Nat
               /\ \A k \in 1 .. n : d.lo < 100 * candles[k].bar.low /\ 100 * candles[k].bar.high < d.hi
<1> DEFINE lows == {candles[k].bar.low : k \in DOMAIN candles}
           highs == {candles[k].bar.high : k \in DOMAIN candles}
           low == Min(lows)
           high == Max(highs)
           d == PriceDomain(candles)
           thirteen == 13
<1>1. n \in Nat \ {0} /\ DOMAIN candles = 1 .. n
    BY DEF Drawable
<1>2. \A k \in 1 .. n : /\ candles[k].bar.low \in 1 .. 13 /\ candles[k].bar.high \in 1 .. 13
                        /\ candles[k].bar.low < candles[k].bar.high
    BY DEF Drawable, Traded13
<1>3. /\ lows \in SUBSET (0 .. thirteen) /\ highs \in SUBSET (0 .. thirteen) /\ thirteen \in Nat
      /\ lows \in SUBSET (1 .. 13) /\ highs \in SUBSET (1 .. 13)
    BY <1>1, <1>2
<1>4. /\ \A k \in 1 .. n : candles[k].bar.low \in lows /\ candles[k].bar.high \in highs
      /\ lows # {} /\ highs # {}
    <2>1. \A k \in 1 .. n : candles[k].bar.low \in lows /\ candles[k].bar.high \in highs
        BY <1>1
    <2>2. 1 \in 1 .. n
        BY <1>1
    <2> QED
        BY <2>1, <2>2
<1>5. /\ d.lo = 100 * low - (IF high = low THEN 100 ELSE 6 * (high - low))
      /\ d.hi = 100 * high + (IF high = low THEN 100 ELSE 6 * (high - low))
    BY DEF PriceDomain
<1> HIDE DEF lows, highs, d, thirteen
<1>6. low \in lows /\ \A x \in lows : low <= x
    BY <1>3, <1>4, EndsOf
<1>7. high \in highs /\ \A x \in highs : x <= high
    BY <1>3, <1>4, EndsOf
<1> HIDE DEF low, high
<1>8. low \in 1 .. 13 /\ high \in 1 .. 13
    BY <1>3, <1>6, <1>7
<1>9. low < high
    <2>1. 1 \in 1 .. n
        BY <1>1
    <2>2. low <= candles[1].bar.low /\ candles[1].bar.high <= high
        BY <1>4, <1>6, <1>7, <2>1
    <2> QED
        BY <1>2, <1>8, <2>1, <2>2
<1> DEFINE extent == high - low
<1>10. extent \in 1 .. 12 /\ d.lo = 100 * low - 6 * extent /\ d.hi = 100 * high + 6 * extent
    BY <1>5, <1>8, <1>9
<1>11. d.hi - d.lo = 112 * extent /\ d.lo \in Nat /\ d.hi \in Nat
    BY <1>8, <1>9, <1>10
<1>12. \A k \in 1 .. n : d.lo < 100 * candles[k].bar.low /\ 100 * candles[k].bar.high < d.hi
    <2> SUFFICES ASSUME NEW k \in 1 .. n
                 PROVE  d.lo < 100 * candles[k].bar.low /\ 100 * candles[k].bar.high < d.hi
        OBVIOUS
    <2> HIDE DEF extent
    <2>1. low <= candles[k].bar.low /\ candles[k].bar.high <= high
        BY <1>4, <1>6, <1>7
    <2> QED
        BY <1>2, <1>8, <1>10, <2>1
<1> HIDE DEF extent
<1> QED
    BY <1>10, <1>11, <1>12 DEF d

LEMMA MaxVolumeHoldsVolumes ==
    ASSUME NEW candles, NEW n, Drawable(candles, n)
    PROVE  /\ MaxVolume(candles) \in Nat \ {0}
           /\ \A k \in 1 .. n : candles[k].bar.volume <= MaxVolume(candles)
<1> DEFINE F == [k \in 1 .. n |-> candles[k].bar.volume]
           volumes == {candles[k].bar.volume : k \in DOMAIN candles}
           max == Max(volumes)
<1>1. n \in Nat \ {0} /\ DOMAIN candles = 1 .. n
    BY DEF Drawable
<1>2. \A k \in 1 .. n : candles[k].bar.volume \in Nat \ {0}
    BY DEF Drawable, Traded13
<1>3. F \in [1 .. n -> Nat] /\ \A k \in 1 .. n : F[k] = candles[k].bar.volume
    BY <1>2
<1>4. \A k \in 1 .. n : candles[k].bar.volume \in volumes
    BY <1>1
<1>5. volumes = {candles[k].bar.volume : k \in 1 .. n}
    BY <1>1
<1>6. MaxVolume(candles) = IF max = 0 THEN 1 ELSE max
    BY DEF MaxVolume
<1> HIDE DEF F, volumes
<1>7. IsFiniteSet(1 .. n)
    BY <1>1, FS_Interval
<1>8. Total(F) \in Nat /\ \A k \in 1 .. n : F[k] <= Total(F)
    BY <1>3, <1>7, TotalOfNaturals
<1>9. volumes \in SUBSET (0 .. Total(F)) /\ volumes # {}
    <2>1. ASSUME NEW v \in volumes PROVE v \in 0 .. Total(F)
        <3>1. PICK k \in 1 .. n : v = candles[k].bar.volume
            BY <1>5
        <3> QED
            BY <1>2, <1>3, <1>8, <3>1
    <2>2. 1 \in 1 .. n
        BY <1>1
    <2> QED
        BY <1>4, <2>1, <2>2
<1>10. max \in volumes /\ \A v \in volumes : v <= max
    BY <1>8, <1>9, EndsOf
<1>11. max \in Nat \ {0}
    <2>1. PICK k \in 1 .. n : max = candles[k].bar.volume
        BY <1>5, <1>10
    <2> QED
        BY <1>2, <2>1
<1> QED
    BY <1>4, <1>6, <1>10, <1>11

\* The panels of a chart that is drawn.
Panels(layout, height) ==
    /\ layout.plotWidth \in Nat \ {0} /\ layout.priceHeight \in Nat \ {0}
    /\ layout.volumeHeight \in Nat \ {0} /\ VolumeTop(layout) \in Int
    /\ PadTop + layout.priceHeight < VolumeTop(layout)
    /\ VolumeTop(layout) + layout.volumeHeight < height

LEMMA PanelsOfLayout ==
    ASSUME NEW width \in Nat, NEW height \in Nat, NEW candles, Ready(candles, Layout(width, height))
    PROVE  Panels(Layout(width, height), height)
<1> DEFINE layout == Layout(width, height)
           v == Clamp(Rounded(height, 5), 22, 64)
<1>1. v \in Nat \ {0}
    <2>1. Rounded(height, 5) \in Int
        BY DEF Rounded
    <2> QED
        BY <2>1 DEF Clamp, GreaterOf, LesserOf
<1> HIDE DEF v
<1>2. /\ layout.plotWidth = width - 58 /\ layout.volumeHeight = v
      /\ layout.priceHeight = height - 6 - 16 - v - 8
    BY DEF Layout, PadRight, PadTop, PadBottom, PanelGap, v
<1>3. layout.plotWidth > 20 /\ layout.priceHeight > 30
    BY DEF Ready
<1> HIDE DEF layout
<1>4. VolumeTop(layout) = 6 + layout.priceHeight + 8 /\ PadTop = 6
    BY DEF VolumeTop, PadTop, PanelGap
<1>5. Panels(layout, height)
    BY <1>1, <1>2, <1>3, <1>4 DEF Panels
<1> QED
    BY <1>5 DEF layout

\* A mark is where the values of its candle say.
LEMMA MarkShowsCandle ==
    ASSUME NEW candles, NEW n, Drawable(candles, n), NEW layout, NEW height, Panels(layout, height),
           NEW k \in 1 .. n
    PROVE  LET d == PriceDomain(candles)
           IN  MarkShowsValues(Marks(candles, layout)[k], layout, d.hi - d.lo, MaxVolume(candles))
<1> DEFINE d == PriceDomain(candles)
           span == d.hi - d.lo
           m == Marks(candles, layout)[k]
           bar == candles[k].bar
           h == layout.priceHeight
           P(v) == PixelY(PadTop, h, d.lo, d.hi, v)
           top == VolumeTop(layout)
           g == layout.volumeHeight
           volume == MaxVolume(candles)
           zero == 0
           V(v) == PixelY(top, g, zero, volume, v)
<1>1. DOMAIN candles = 1 .. n
    BY DEF Drawable
<1>2. /\ bar.low \in 1 .. 13 /\ bar.high \in 1 .. 13 /\ bar.open \in Int /\ bar.close \in Int
      /\ bar.low <= bar.open /\ bar.open <= bar.high /\ bar.low <= bar.close /\ bar.close <= bar.high
      /\ bar.volume \in Nat \ {0}
    BY DEF Drawable, Traded13
<1>3. /\ m.wick[1] = P(100 * bar.high) /\ m.wick[2] = P(100 * bar.low)
      /\ m.open = P(100 * bar.open) /\ m.close = P(100 * bar.close)
      /\ m.column = V(bar.volume)
      /\ m.up <=> bar.close >= bar.open
    BY <1>1 DEF Marks, PriceY, VolumeY
<1>4. d.lo \in Int /\ d.hi \in Int /\ d.lo < 100 * bar.low /\ 100 * bar.high < d.hi
    <2>1. /\ d.lo \in Nat /\ d.hi \in Nat
          /\ \A j \in 1 .. n : d.lo < 100 * candles[j].bar.low /\ 100 * candles[j].bar.high < d.hi
        BY PriceDomainHoldsPrices
    <2> HIDE DEF d
    <2> QED
        BY <2>1
<1>5. volume \in Nat \ {0} /\ bar.volume <= volume
    BY MaxVolumeHoldsVolumes
<1>6. h \in Nat \ {0} /\ g \in Nat \ {0} /\ top \in Int /\ PadTop \in Int /\ zero = 0 /\ zero \in Int
    BY DEF Panels, PadTop
<1> HIDE DEF d, m, bar, P, V, h, g, top, volume, zero
<1>7. ASSUME NEW v \in Int, NEW w \in Int
      PROVE  /\ P(v) \in Int
             /\ P(v) <= P(w) <=> w <= v
             /\ PadTop * span < P(v) <=> v < d.hi
             /\ P(v) < (PadTop + h) * span <=> d.lo < v
    <2> DEFINE lo == d.lo
               hi == d.hi
               pad == PadTop
    <2>1. lo \in Int /\ hi \in Int /\ h \in Nat \ {0} /\ pad \in Int
        BY <1>4, <1>6
    <2>2. span = hi - lo /\ P(v) = PixelY(pad, h, lo, hi, v) /\ P(w) = PixelY(pad, h, lo, hi, w)
        BY DEF P
    <2> HIDE DEF lo, hi, pad, span
    <2>3. LET Y(u) == PixelY(pad, h, lo, hi, u)
          IN  /\ Y(v) \in Int
              /\ Y(v) <= Y(w) <=> w <= v
              /\ pad * (hi - lo) <= Y(v) <=> v <= hi
              /\ Y(v) <= (pad + h) * (hi - lo) <=> lo <= v
              /\ pad * (hi - lo) < Y(v) <=> v < hi
              /\ Y(v) < (pad + h) * (hi - lo) <=> lo < v
              /\ pad * (hi - lo) \in Int /\ (pad + h) * (hi - lo) \in Int
        BY <2>1, PixelsOrder
    <2>4. /\ P(v) \in Int
          /\ P(v) <= P(w) <=> w <= v
          /\ pad * span < P(v) <=> v < hi
          /\ P(v) < (pad + h) * span <=> lo < v
        BY <2>2, <2>3, Zenon
    <2> QED
        BY <2>4 DEF lo, hi, pad
<1>8. ASSUME NEW v \in Int
      PROVE  /\ V(v) \in Int
             /\ top * (volume - zero) <= V(v) <=> v <= volume
             /\ V(v) <= (top + g) * (volume - zero) <=> zero <= v
             /\ top * (volume - zero) \in Int /\ (top + g) * (volume - zero) \in Int
    <2>1. volume \in Int /\ zero \in Int /\ g \in Nat \ {0} /\ top \in Int
        BY <1>5, <1>6
    <2>2. LET Y(u) == PixelY(top, g, zero, volume, u)
          IN  /\ Y(v) \in Int
              /\ Y(v) <= Y(v) <=> v <= v
              /\ top * (volume - zero) <= Y(v) <=> v <= volume
              /\ Y(v) <= (top + g) * (volume - zero) <=> zero <= v
              /\ top * (volume - zero) < Y(v) <=> v < volume
              /\ Y(v) < (top + g) * (volume - zero) <=> zero < v
              /\ top * (volume - zero) \in Int /\ (top + g) * (volume - zero) \in Int
        BY <2>1, PixelsOrder
    <2>3. V(v) = PixelY(top, g, zero, volume, v)
        BY DEF V
    <2> QED
        BY <2>2, <2>3, Zenon
<1>9. volume - zero = volume
    BY <1>5, <1>6
<1> HIDE DEF span
<1>10. 100 * bar.high \in Int /\ 100 * bar.low \in Int /\ 100 * bar.open \in Int /\ 100 * bar.close \in Int
    BY <1>2
<1>11. /\ PadTop * span < m.wick[1] /\ m.wick[2] < (PadTop + h) * span
    BY <1>3, <1>4, <1>7, <1>10
<1>12. {m.open, m.close} \subseteq m.wick[1] .. m.wick[2]
    <2>1. /\ 100 * bar.open <= 100 * bar.high /\ 100 * bar.low <= 100 * bar.open
          /\ 100 * bar.close <= 100 * bar.high /\ 100 * bar.low <= 100 * bar.close
        BY <1>2
    <2>2. /\ P(100 * bar.high) <= P(100 * bar.open) /\ P(100 * bar.open) <= P(100 * bar.low)
          /\ P(100 * bar.high) <= P(100 * bar.close) /\ P(100 * bar.close) <= P(100 * bar.low)
        BY <1>7, <1>10, <2>1
    <2>3. /\ P(100 * bar.high) \in Int /\ P(100 * bar.low) \in Int
          /\ P(100 * bar.open) \in Int /\ P(100 * bar.close) \in Int
        BY <1>7, <1>10
    <2> QED
        BY <1>3, <2>2, <2>3
<1>13. m.up <=> m.close <= m.open
    <2>1. m.close <= m.open <=> 100 * bar.open <= 100 * bar.close
        BY <1>3, <1>7, <1>10
    <2> QED
        BY <1>2, <1>3, <2>1
<1>14. m.column \in top * volume .. (top + g) * volume
    <2>1. bar.volume \in Int /\ zero <= bar.volume
        BY <1>2, <1>6
    <2> QED
        BY <1>3, <1>5, <1>8, <1>9, <2>1
<1>15. MarkShowsValues(m, layout, span, volume)
    BY <1>11, <1>12, <1>13, <1>14 DEF MarkShowsValues, h, top, g
<1> QED
    BY <1>15 DEF m, span, d, volume

-------------------------------------------------------------------------------
\* The pointer is answered with the nearest candle.
LEMMA PointerReadsCandle ==
    ASSUME NEW candles, NEW n, Drawable(candles, n), NEW layout, NEW height, Panels(layout, height)
    PROVE  PointerReadsNearest(candles, layout)
<1> DEFINE w == layout.plotWidth
<1>1. n \in Nat \ {0} /\ Len(candles) = n /\ DOMAIN candles = 1 .. n
    BY DEF Drawable
<1>2. w \in Nat \ {0}
    BY DEF Panels
<1> HIDE DEF w
<1>3. ASSUME NEW pixel \in 0 .. w, NEW k \in 1 .. n
      PROVE  Distance(2 * n * pixel, Centre(layout, CandleAt(candles, layout, pixel)))
                 <= Distance(2 * n * pixel, Centre(layout, k))
    <2> DEFINE j == 1 + Clamp((pixel * n) \div w, 0, n - 1)
    <2>1. Distance(2 * n * pixel, (2 * j - 1) * w) <= Distance(2 * n * pixel, (2 * k - 1) * w)
        BY <1>1, <1>2, NearestCandle
    <2>2. CandleAt(candles, layout, pixel) = j
        BY <1>1 DEF CandleAt, w
    <2> HIDE DEF j
    <2>3. Centre(layout, j) = (2 * j - 1) * w /\ Centre(layout, k) = (2 * k - 1) * w
        BY DEF Centre, w
    <2> QED
        BY <2>1, <2>2, <2>3
<1> QED
    BY <1>1, <1>3 DEF PointerReadsNearest, w

\* While a candle has a pixel or more, its body stays in its slot.
LEMMA BodiesStandApart ==
    ASSUME NEW candles, NEW n, Drawable(candles, n), NEW layout, NEW height, Panels(layout, height),
           n <= layout.plotWidth
    PROVE  MarksStandApart(Marks(candles, layout), layout)
<1> DEFINE w == layout.plotWidth
           body == BodyWidth(candles, layout)
           marks == Marks(candles, layout)
<1>1. n \in Nat \ {0} /\ Len(candles) = n /\ DOMAIN candles = 1 .. n
    BY DEF Drawable
<1>2. w \in Nat \ {0} /\ n <= w
    BY DEF Panels
<1>3. DOMAIN marks = 1 .. n
    BY <1>1 DEF Marks
<1>4. \A k \in 1 .. n : /\ marks[k].left = (2 * k - 1) * w - body
                        /\ marks[k].right = (2 * k - 1) * w + body
    BY <1>1 DEF Marks, Centre
<1>5. body = Clamp(w - 2 * n, n, 24 * n)
    BY <1>1 DEF BodyWidth, MarkGap, MaxBodyWidth
<1> HIDE DEF w, body, marks
<1>6. body \in Int /\ body <= w
    BY <1>1, <1>2, <1>5 DEF Clamp, LesserOf, GreaterOf
<1>7. ASSUME NEW k \in 1 .. n, k > 1 PROVE marks[k - 1].right <= marks[k].left
    <2>1. k - 1 \in 1 .. n
        BY <1>1, <1>7
    <2> DEFINE c == (2 * (k - 1) - 1) * w
               e == (2 * k - 1) * w
    <2>2. e = c + 2 * w /\ c \in Int
        BY <1>2
    <2>3. marks[k - 1].right = c + body
        BY <1>4, <2>1
    <2>4. marks[k].left = e - body
        BY <1>4
    <2> HIDE DEF c, e
    <2> QED
        BY <1>2, <1>6, <2>2, <2>3, <2>4
<1>8. MarksStandApart(marks, layout)
    BY <1>3, <1>7 DEF MarksStandApart
<1> QED
    BY <1>8 DEF marks

\* The average line has the candles with an average, and joins neighbours.
LEMMA AverageJoinsNeighbours ==
    ASSUME NEW candles, NEW n, Drawable(candles, n)
    PROVE  LineJoinsNeighbours(candles)
<1> DEFINE S == {k \in DOMAIN candles : candles[k].ma # Null}
           with == Ascending(S)
           m == Cardinality(S)
           path == AveragePath(candles)
<1>1. n \in Nat /\ DOMAIN candles = 1 .. n
    BY DEF Drawable
<1>2. S \in SUBSET (0 .. n) /\ \A k \in S : k \in Int
    BY <1>1
<1>3. DOMAIN path = DOMAIN with /\ \A j \in DOMAIN with :
         /\ path[j][1] = IF with[j] > 1 /\ candles[with[j] - 1].ma # Null THEN "L" ELSE "M"
         /\ path[j][2] = with[j]
    BY DEF AveragePath
<1>4. \A j \in DOMAIN with : with[j] \in S /\ with[j] > 1 /\ candles[with[j] - 1].ma # Null
                             => with[j] - 1 \in S
    BY <1>1
<1>5. "L" # "M"
    OBVIOUS
<1> HIDE DEF S, path
<1>6. DOMAIN with = 1 .. m
    BY <1>1, <1>2, AscendingByRank
<1>7. InOrder(with, m, S)
    BY <1>1, <1>2, AscendingInOrder
<1> HIDE DEF with, m
<1>8. /\ m \in Nat
      /\ \A k \in 1 .. m : with[k] \in S
      /\ \A x \in S : \E i \in 1 .. m : with[i] = x
      /\ \A j, k \in 1 .. m : j < k <=> with[j] < with[k]
    BY <1>7 DEF InOrder
<1>9. {path[j][2] : j \in DOMAIN path} = S
    BY <1>3, <1>6, <1>8
<1>10. ASSUME NEW j \in 1 .. m, path[j][1] = "L"
       PROVE  path[j - 1][2] = path[j][2] - 1
    <2>1. with[j] > 1 /\ candles[with[j] - 1].ma # Null
        BY <1>3, <1>5, <1>6, <1>10
    <2>2. with[j] \in S /\ with[j] - 1 \in S
        BY <1>4, <1>6, <1>8, <2>1
    <2>3. PICK i \in 1 .. m : with[i] = with[j] - 1
        BY <1>8, <2>2
    <2>4. with[j] \in Int /\ i \in Int /\ j \in Int
        <3>1. with[j] \in Int
            BY <1>2, <2>2
        <3>2. m \in Nat /\ i \in 1 .. m /\ j \in 1 .. m
            BY <1>8
        <3> QED
            BY <3>1, <3>2
    <2>5. i < j
        BY <1>8, <2>3, <2>4
    <2>6. i = j - 1
        <3> SUFFICES ASSUME i # j - 1 PROVE FALSE
            OBVIOUS
        <3>1. j - 1 \in 1 .. m /\ i < j - 1 /\ j - 1 < j
            BY <1>8, <2>4, <2>5
        <3>2. with[i] < with[j - 1] /\ with[j - 1] < with[j] /\ with[j - 1] \in Int
            BY <1>2, <1>8, <3>1
        <3> QED
            BY <2>3, <2>4, <3>2
    <2> QED
        BY <1>3, <1>6, <2>3, <2>6
<1>11. LineJoinsNeighbours(candles)
    BY <1>3, <1>6, <1>9, <1>10 DEF LineJoinsNeighbours, path, S
<1> QED
    BY <1>11

-------------------------------------------------------------------------------
\* The step between the grid lines of a panel whose prices lie extent apart.
StepFor(extent) ==
    Min({s \in {m * magnitude : m \in {10, 20, 25, 50, 100}, magnitude \in Magnitudes} : s * 4 >= 112 * extent})

\* It is a quarter to a half of what is shown.
LEMMA StepFits ==
    ASSUME NEW extent \in 1 .. 12
    PROVE  LET step == StepFor(extent)
           IN  step \in Nat \ {0} /\ 2 * step <= 112 * extent /\ 112 * extent <= 4 * step
<1> DEFINE round == {m * magnitude : m \in {10, 20, 25, 50, 100}, magnitude \in Magnitudes}
           steps == {s \in round : s * 4 >= 112 * extent}
           step  == Min(steps)
           most  == 100000
<1>0. most \in Nat /\ \A m \in {10, 20, 25, 50, 100}, magnitude \in {1, 10, 100, 1000} :
                            m * magnitude \in Nat /\ 1 <= m * magnitude /\ m * magnitude <= most
    OBVIOUS
<1> HIDE DEF most
<1>1. ASSUME NEW s \in round PROVE s \in Nat /\ 1 <= s /\ s <= most
    <2>1. PICK m \in {10, 20, 25, 50, 100} : \E magnitude \in Magnitudes : s = m * magnitude
        OBVIOUS
    <2>2. PICK magnitude \in {1, 10, 100, 1000} : s = m * magnitude
        BY <2>1 DEF Magnitudes
    <2> DEFINE p == m * magnitude
    <2>3. p \in Nat /\ 1 <= p /\ p <= most
        BY <1>0
    <2>4. s = p
        BY <2>2
    <2> HIDE DEF p
    <2> QED
        BY <2>3, <2>4
<1>2. 50 \in round /\ 100 \in round /\ 200 \in round /\ 250 \in round /\ 500 \in round
    <2>1. 50 = 50 * 1 /\ 100 = 100 * 1 /\ 200 = 20 * 10 /\ 250 = 25 * 10 /\ 500 = 50 * 10
        OBVIOUS
    <2>2. {50, 100, 20, 25} \subseteq {10, 20, 25, 50, 100} /\ {1, 10} \subseteq Magnitudes
        BY DEF Magnitudes
    <2> QED
        BY <2>1, <2>2
<1> HIDE DEF round
<1>5. \A s \in steps : s \in Nat /\ 1 <= s /\ s <= most /\ 112 * extent <= 4 * s
    <2> SUFFICES ASSUME NEW s \in steps PROVE s \in Nat /\ 1 <= s /\ s <= most /\ 112 * extent <= 4 * s
        OBVIOUS
    <2>1. s \in round /\ s * 4 >= 112 * extent
        OBVIOUS
    <2>2. s \in Nat /\ 1 <= s /\ s <= most
        BY <1>1, <2>1
    <2> HIDE DEF steps
    <2> QED
        BY <2>1, <2>2
<1>3. most \in Nat /\ steps \in SUBSET (0 .. most)
    <2> HIDE DEF steps
    <2>1. \A s \in steps : s \in 0 .. most
        BY <1>0, <1>5
    <2> QED
        BY <1>0, <2>1
<1>4. \E s \in steps : 2 * s <= 112 * extent
    <2>1. CASE extent = 1
        BY <1>2, <2>1
    <2>2. CASE extent \in {2, 3}
        BY <1>2, <2>2
    <2>3. CASE extent \in {4, 5, 6, 7}
        BY <1>2, <2>3
    <2>4. CASE extent = 8
        BY <1>2, <2>4
    <2>5. CASE extent \in {9, 10, 11, 12}
        BY <1>2, <2>5
    <2> QED
        BY <2>1, <2>2, <2>3, <2>4, <2>5
<1> HIDE DEF steps
<1>6. step \in steps /\ \A s \in steps : step <= s
    BY <1>3, <1>4, EndsOf
<1> HIDE DEF step
<1>7. step \in Nat \ {0} /\ 112 * extent <= 4 * step
    BY <1>3, <1>5, <1>6
<1>8. 2 * step <= 112 * extent
    <2>1. PICK s \in steps : 2 * s <= 112 * extent
        BY <1>4
    <2>2. step <= s /\ s \in Int
        BY <1>3, <1>5, <1>6, <2>1
    <2> QED
        BY <1>7, <2>1, <2>2
<1> QED
    BY <1>7, <1>8 DEF step, steps, round, StepFor

\* The multiples of a number between two others, counted.
LEMMA MultiplesCounted ==
    ASSUME NEW i \in Nat \ {0}, NEW a \in Int, NEW b \in Int, a <= b, NEW lo \in Int, NEW hi \in Int,
           (a - 1) * i < lo, lo <= a * i, b * i <= hi, hi < (b + 1) * i
    PROVE  Cardinality({t \in lo .. hi : t % i = 0}) = b - a + 1
<1> DEFINE T == {t \in lo .. hi : t % i = 0}
           f == [n \in a .. b |-> n * i]
<1>1. \A n \in Int : n * i \in Int /\ (n * i) % i = 0
    BY BarStarts
<1>2. ASSUME NEW n \in Int
      PROVE  n \in a .. b <=> lo <= n * i /\ n * i <= hi
    <2> DEFINE p == a - 1
               q == b + 1
    <2>1. p \in Int /\ q \in Int
        OBVIOUS
    <2>2. /\ p * i \in Int /\ a * i \in Int /\ b * i \in Int /\ q * i \in Int /\ n * i \in Int
          /\ p * i < lo /\ lo <= a * i /\ b * i <= hi /\ hi < q * i
        BY <1>1, <2>1
    <2> HIDE DEF p, q
    <2>3. /\ a <= n <=> a * i <= n * i
          /\ n <= b <=> n * i <= b * i
          /\ n <= p <=> n * i <= p * i
          /\ q <= n <=> q * i <= n * i
        BY <2>1, TimesMonotone
    <2>4. (~(n <= p) <=> a <= n) /\ (~(q <= n) <=> n <= b)
        BY DEF p, q
    <2> QED
        BY <2>2, <2>3, <2>4
<1>3. f \in Bijection(a .. b, T)
    <2>1. ASSUME NEW n \in a .. b PROVE n * i \in T
        BY <1>1, <1>2
    <2>2. ASSUME NEW m \in a .. b, NEW n \in a .. b, m * i = n * i PROVE m = n
        BY <2>2, TimesMonotone
    <2>3. ASSUME NEW t \in T PROVE \E n \in a .. b : t = n * i
        <3>1. t \in Int /\ t % i = 0 /\ lo <= t /\ t <= hi
            BY <2>3
        <3>2. PICK n \in Int : t = n * i
            BY <3>1, BarStarts
        <3> QED
            BY <1>2, <3>1, <3>2
    <2> HIDE DEF T
    <2>4. f \in [a .. b -> T]
        BY <2>1
    <2>5. \A m, n \in a .. b : f[m] = f[n] => m = n
        BY <2>2
    <2>6. \A t \in T : \E n \in a .. b : f[n] = t
        BY <2>3
    <2> HIDE DEF f
    <2> QED
        BY <2>4, <2>5, <2>6, Fun_IsBij
<1> HIDE DEF T, f
<1>4. IsFiniteSet(a .. b) /\ Cardinality(a .. b) = b - a + 1
    <2>1. IsFiniteSet(a .. b) /\ Cardinality(a .. b) = IF a > b THEN 0 ELSE b - a + 1
        BY FS_Interval
    <2>2. ~(a > b)
        OBVIOUS
    <2> QED
        BY <2>1, <2>2
<1>5. Cardinality(T) = Cardinality(a .. b)
    BY <1>3, <1>4, FS_Bijection DEF ExistsBijection
<1> QED
    BY <1>4, <1>5 DEF T

LEMMA TwoToFiveLines ==
    ASSUME NEW extent \in 1 .. 12, NEW lo \in Nat, NEW hi \in Nat, hi - lo = 112 * extent
    PROVE  Cardinality(NiceTicks(lo, hi, 4)) \in 2 .. 5
<1> DEFINE step == Min({s \in {m * magnitude : m \in {10, 20, 25, 50, 100}, magnitude \in Magnitudes}
                              : s * 4 >= hi - lo})
<1>1. step \in Nat \ {0} /\ 2 * step <= hi - lo /\ hi - lo <= 4 * step
    <2> DEFINE given == StepFor(extent)
    <2>1. step = given
        BY DEF StepFor
    <2>2. given \in Nat \ {0} /\ 2 * given <= 112 * extent /\ 112 * extent <= 4 * given
        BY StepFits
    <2> HIDE DEF step, given
    <2> QED
        BY <2>1, <2>2
<1>2. NiceTicks(lo, hi, 4) = {t \in lo .. hi : t % step = 0}
    <2>1. ~(hi <= lo)
        OBVIOUS
    <2> QED
        BY <2>1 DEF NiceTicks
<1> HIDE DEF step
<1> DEFINE b == hi \div step
           c == (lo + step - 1) \div step
<1>3. b \in Int /\ b * step <= hi /\ hi < (b + 1) * step
    BY <1>1, DivBounds
<1>4. c \in Int /\ c * step <= lo + step - 1 /\ lo + step - 1 < (c + 1) * step
    <2>1. lo + step - 1 \in Int
        BY <1>1
    <2> QED
        BY <1>1, <2>1, DivBounds
<1> HIDE DEF b, c
<1>5. /\ (c - 1) * step = c * step - step /\ (c + 1) * step = c * step + step
      /\ (b + 1) * step = b * step + step /\ c * step \in Int /\ b * step \in Int
    BY <1>1, <1>3, <1>4
<1>6. (c - 1) * step < lo /\ lo <= c * step
    BY <1>1, <1>4, <1>5
<1>7. c < b /\ b <= c + 4
    <2> DEFINE x == b * step
               y == c * step
               u == c + 4
               z == u * step
    <2>1. /\ x \in Int /\ y \in Int /\ x <= hi /\ hi < x + step
          /\ y < lo + step /\ lo <= y
        BY <1>1, <1>3, <1>4, <1>5, <1>6
    <2>2. u \in Int /\ z = y + 4 * step
        BY <1>1, <1>4
    <2>3. b <= c <=> x <= y
        BY <1>1, <1>3, <1>4, TimesMonotone
    <2> HIDE DEF u
    <2>4. b <= u <=> x <= z
        BY <1>1, <1>3, <2>2, TimesMonotone
    <2> HIDE DEF x, y, z
    <2>5. x <= z /\ ~(x <= y)
        BY <1>1, <2>1, <2>2
    <2> QED
        BY <1>3, <1>4, <2>3, <2>4, <2>5 DEF u
<1>8. Cardinality({t \in lo .. hi : t % step = 0}) = b - c + 1
    <2>1. lo \in Int /\ hi \in Int /\ c <= b
        BY <1>3, <1>4, <1>7
    <2> QED
        BY <1>1, <1>3, <1>4, <1>6, <2>1, MultiplesCounted
<1>9. Cardinality(NiceTicks(lo, hi, 4)) = b - c + 1
    BY <1>2, <1>8
<1> QED
    BY <1>3, <1>4, <1>7, <1>9

-------------------------------------------------------------------------------
\* A candle has room between its lowest and its highest price, and both of the
\* others lie in it.
LEMMA RowsHaveRoom ==
    ASSUME NEW s, NEW t \in Nat, NEW newest
    PROVE  LET row == Row(s, t, newest)
           IN  /\ row.low \in 1 .. 13 /\ row.high \in 1 .. 13 /\ row.open \in Int /\ row.close \in Int
               /\ row.low < row.open /\ row.open <= row.high /\ row.low < row.close /\ row.close <= row.high
<1> DEFINE p == Price(s, t)
           q == Price(s, t + 1)
           odd == t % 2
           row == Row(s, t, newest)
<1>1. p \in 2 .. 12 /\ q \in 2 .. 12
    BY PriceBounds
<1>2. odd \in 0 .. 1
    OBVIOUS
<1>3. /\ row.open = p /\ row.close = q
      /\ row.high = GreaterOf(p, q) + odd /\ row.low = LesserOf(p, q) - 1
    BY DEF Row
<1> HIDE DEF p, q, odd, row
<1>4. /\ row.low \in 1 .. 13 /\ row.high \in 1 .. 13 /\ row.open \in Int /\ row.close \in Int
      /\ row.low < row.open /\ row.open <= row.high /\ row.low < row.close /\ row.close <= row.high
    BY <1>1, <1>2, <1>3 DEF GreaterOf, LesserOf
<1> QED
    BY <1>4 DEF row

LEMMA FoldsHaveRoom ==
    ASSUME NEW n \in Nat, NEW s, NEW bars \in SUBSET (0 .. n), NEW times \in SUBSET bars, times # {}
    PROVE  Traded13(FoldRows(Table(s, bars), times))
<1> DEFINE rows == Table(s, bars)
           bar == FoldRows(rows, times)
           first == Min(times)
           last == Max(times)
           lows == {rows[t].low : t \in times}
           highs == {rows[t].high : t \in times}
           thirteen == 13
<1>1. bar.volume \in Nat \ {0}
    BY SumsOfRows
<1>2. \A t \in times : rows[t] = Row(s, t, Max(bars)) /\ t \in Nat
    BY DEF Table
<1>3. /\ bar.open = rows[first].open /\ bar.close = rows[last].close
      /\ bar.low = Min(lows) /\ bar.high = Max(highs)
    BY DEF FoldRows
<1> HIDE DEF rows, bar
<1>4. \A t \in times :
        /\ rows[t].low \in 1 .. 13 /\ rows[t].high \in 1 .. 13
        /\ rows[t].open \in Int /\ rows[t].close \in Int
        /\ rows[t].low < rows[t].open /\ rows[t].open <= rows[t].high
        /\ rows[t].low < rows[t].close /\ rows[t].close <= rows[t].high
    <2> SUFFICES ASSUME NEW t \in times
                 PROVE  /\ rows[t].low \in 1 .. 13 /\ rows[t].high \in 1 .. 13
                        /\ rows[t].open \in Int /\ rows[t].close \in Int
                        /\ rows[t].low < rows[t].open /\ rows[t].open <= rows[t].high
                        /\ rows[t].low < rows[t].close /\ rows[t].close <= rows[t].high
        OBVIOUS
    <2> DEFINE newest == Max(bars)
    <2>1. t \in Nat /\ rows[t] = Row(s, t, newest)
        BY <1>2
    <2> HIDE DEF newest
    <2> QED
        BY <2>1, RowsHaveRoom
<1>5. first \in times /\ last \in times
    <2>1. times \in SUBSET (0 .. n)
        OBVIOUS
    <2> QED
        BY <2>1, EndsOf
<1>6. /\ lows \in SUBSET (0 .. thirteen) /\ highs \in SUBSET (0 .. thirteen) /\ thirteen \in Nat
      /\ \A t \in times : rows[t].low \in lows /\ rows[t].high \in highs
      /\ lows \in SUBSET (1 .. 13) /\ highs \in SUBSET (1 .. 13)
    BY <1>4
<1> HIDE DEF first, last, lows, highs, thirteen
<1>7. lows # {} /\ highs # {}
    BY <1>5, <1>6
<1>8. bar.low \in lows /\ \A x \in lows : bar.low <= x
    BY <1>3, <1>6, <1>7, EndsOf
<1>9. bar.high \in highs /\ \A x \in highs : x <= bar.high
    <2>1. Max(highs) \in highs /\ \A x \in highs : x <= Max(highs)
        BY <1>6, <1>7, EndsOf
    <2> QED
        BY <1>3, <2>1
<1>10. bar.low \in 1 .. 13 /\ bar.high \in 1 .. 13
    BY <1>6, <1>8, <1>9
<1>11. \A t \in times : /\ bar.low < rows[t].open /\ rows[t].open <= bar.high
                        /\ bar.low < rows[t].close /\ rows[t].close <= bar.high
                        /\ rows[t].open \in Int /\ rows[t].close \in Int
    <2> SUFFICES ASSUME NEW t \in times
                 PROVE  /\ bar.low < rows[t].open /\ rows[t].open <= bar.high
                        /\ bar.low < rows[t].close /\ rows[t].close <= bar.high
                        /\ rows[t].open \in Int /\ rows[t].close \in Int
        OBVIOUS
    <2>1. bar.low <= rows[t].low /\ rows[t].high <= bar.high
        BY <1>6, <1>8, <1>9
    <2> QED
        BY <1>4, <1>10, <2>1
<1>12. /\ bar.open \in Int /\ bar.close \in Int
       /\ bar.low < bar.open /\ bar.open <= bar.high /\ bar.low < bar.close /\ bar.close <= bar.high
    BY <1>3, <1>5, <1>11
<1>13. bar.low < bar.high /\ bar.low <= bar.open /\ bar.low <= bar.close
    BY <1>10, <1>12
<1>14. Traded13(bar)
    BY <1>1, <1>10, <1>12, <1>13 DEF Traded13
<1> QED
    BY <1>14 DEF bar, rows

\* What CallChart draws can be drawn.
LEMMA ChartsAreDrawable ==
    ASSUME NEW n, NEW bars, NEW stride, History(n, bars, stride), NEW s, NEW ma, NEW live, NEW candles,
           candles # <<>>,
           candles = LET folded == FoldCandles(Table(s, bars), bars, stride, ma)
                     IN  [k \in DOMAIN folded |-> IF k > Len(folded) - live
                                                  THEN [folded[k] EXCEPT !.ma = Null] ELSE folded[k]]
    PROVE  Drawable(candles, Cardinality(CandlesOf(bars, stride)))
<1> DEFINE rows == Table(s, bars)
           folded == FoldCandles(rows, bars, stride, ma)
           S == CandlesOf(bars, stride)
           m == Cardinality(S)
           starts == Ascending(S)
           edge == Len(folded) - live
<1>1. n \in Nat /\ bars \in SUBSET (0 .. n) /\ stride \in Nat \ {0}
    BY DEF History
<1>2. S \in SUBSET (0 .. n) /\ \A b \in S : Bin(bars, stride, b) # {} /\ Bin(bars, stride, b) \in SUBSET bars
    BY BarsOfCandle
<1>3. /\ m \in Nat /\ DOMAIN starts = 1 .. m /\ \A k \in 1 .. m : starts[k] \in S
    BY <1>1, <1>2, AscendingByRank
<1>4. Buckets(bars, stride) = starts
    BY DEF Buckets, CandlesOf
<1>5. /\ DOMAIN folded = DOMAIN starts
      /\ \A k \in DOMAIN starts :
           folded[k] = [openTime |-> starts[k],
                        bar      |-> FoldRows(rows, Bin(bars, stride, starts[k])),
                        ma       |-> MovingAverage(rows, bars, stride, ma, k)]
    BY <1>4 DEF FoldCandles
<1>6. /\ DOMAIN candles = DOMAIN folded
      /\ \A k \in DOMAIN folded : candles[k] = IF k > edge THEN [folded[k] EXCEPT !.ma = Null] ELSE folded[k]
    OBVIOUS
<1>7. candles = [k \in DOMAIN candles |-> candles[k]]
    OBVIOUS
<1> HIDE DEF folded, starts, S, m, edge, rows
<1>8. \A k \in 1 .. m : candles[k].bar = FoldRows(rows, Bin(bars, stride, starts[k]))
    <2> SUFFICES ASSUME NEW k \in 1 .. m
                 PROVE  candles[k].bar = FoldRows(rows, Bin(bars, stride, starts[k]))
        OBVIOUS
    <2> DEFINE bar == FoldRows(rows, Bin(bars, stride, starts[k]))
               average == MovingAverage(rows, bars, stride, ma, k)
    <2>1. folded[k] = [openTime |-> starts[k], bar |-> bar, ma |-> average]
        BY <1>3, <1>5
    <2>2. candles[k] = IF k > edge THEN [folded[k] EXCEPT !.ma = Null] ELSE folded[k]
        BY <1>3, <1>5, <1>6
    <2> HIDE DEF bar, average
    <2>3. candles[k].bar = bar
        BY <2>1, <2>2
    <2> QED
        BY <2>3 DEF bar
<1>9. \A k \in 1 .. m : Traded13(candles[k].bar)
    <2> SUFFICES ASSUME NEW k \in 1 .. m PROVE Traded13(candles[k].bar)
        OBVIOUS
    <2> DEFINE times == Bin(bars, stride, starts[k])
    <2>1. times # {} /\ times \in SUBSET bars
        BY <1>2, <1>3
    <2>2. candles[k].bar = FoldRows(Table(s, bars), times)
        BY <1>8 DEF rows
    <2> HIDE DEF times
    <2> QED
        BY <1>1, <2>1, <2>2, FoldsHaveRoom
<1>10. Lists(candles, m, {candles[k] : k \in 1 .. m})
    BY <1>3, <1>5, <1>6, <1>7 DEF Lists
<1>11. Len(candles) = m /\ DOMAIN candles = 1 .. m
    BY <1>10, ListLength
<1>12. m # 0
    <2>1. ASSUME m = 0 PROVE candles = <<>>
        <3>1. DOMAIN candles = {}
            BY <1>11, <2>1
        <3> QED
            BY <1>7, <3>1
    <2> QED
        BY <2>1
<1>13. Drawable(candles, m)
    BY <1>3, <1>9, <1>11, <1>12 DEF Drawable
<1> QED
    BY <1>13 DEF m, S

LEMMA ChartsDrawn ==
    ASSUME NEW candles, NEW n, Drawable(candles, n), NEW width \in Nat, NEW height \in Nat,
           Ready(candles, Layout(width, height))
    PROVE  CandlesAreDrawn(candles, Layout(width, height), height)
<1> DEFINE layout == Layout(width, height)
           marks == Marks(candles, layout)
           d == PriceDomain(candles)
           span == d.hi - d.lo
           volume == MaxVolume(candles)
           lines == Cardinality(DOMAIN GridLines(candles, layout))
<1>1. Panels(layout, height)
    BY PanelsOfLayout
<1> HIDE DEF layout
<1>2. PadTop + layout.priceHeight < VolumeTop(layout) /\ VolumeTop(layout) + layout.volumeHeight < height
    BY <1>1 DEF Panels
<1>3. PointerReadsNearest(candles, layout)
    BY <1>1, PointerReadsCandle
<1>4. n \in Nat /\ DOMAIN candles = 1 .. n /\ Len(candles) = n
    BY DEF Drawable
<1>5. DOMAIN marks = 1 .. n
    BY <1>4 DEF Marks
<1>6. \A k \in 1 .. n : MarkShowsValues(marks[k], layout, span, volume)
    BY <1>1, MarkShowsCandle
<1>7. Len(candles) <= layout.plotWidth => MarksStandApart(marks, layout)
    BY <1>1, <1>4, BodiesStandApart
<1>8. LineJoinsNeighbours(candles)
    BY AverageJoinsNeighbours
<1>9. lines \in 2 .. 5
    <2>1. DOMAIN GridLines(candles, layout) = NiceTicks(d.lo, d.hi, 4)
        BY DEF GridLines
    <2> DEFINE lo == d.lo
               hi == d.hi
    <2>2. (\E extent \in 1 .. 12 : hi - lo = 112 * extent) /\ lo \in Nat /\ hi \in Nat
        BY PriceDomainHoldsPrices
    <2>3. DOMAIN GridLines(candles, layout) = NiceTicks(lo, hi, 4)
        BY <2>1
    <2> HIDE DEF lo, hi
    <2>4. Cardinality(NiceTicks(lo, hi, 4)) \in 2 .. 5
        BY <2>2, TwoToFiveLines
    <2> QED
        BY <2>3, <2>4
<1>10. CandlesAreDrawn(candles, layout, height)
    <2> HIDE DEF marks, d, span, volume, lines
    <2>1. CandlesAreDrawn(candles, layout, height) <=>
            /\ PadTop + layout.priceHeight < VolumeTop(layout) /\ VolumeTop(layout) + layout.volumeHeight < height
            /\ PointerReadsNearest(candles, layout)
            /\ \A k \in DOMAIN marks : MarkShowsValues(marks[k], layout, span, volume)
            /\ Len(candles) <= layout.plotWidth => MarksStandApart(marks, layout)
            /\ LineJoinsNeighbours(candles)
            /\ lines \in 2 .. 5
        BY DEF CandlesAreDrawn, marks, d, span, volume, lines
    <2> QED
        BY <1>2, <1>3, <1>5, <1>6, <1>7, <1>8, <1>9, <2>1
<1> QED
    BY <1>10 DEF layout

-------------------------------------------------------------------------------
\* The charts over any table, of any size and count of pixels: what the pointer
\* reads is the nearest mark, marks lie where their values say and inside their
\* panels, grid lines are two to five, lines are ordered as their values, taker
\* bars as their ratios, and a full meter means that no bar is missing.
THEOREM ChartsShowTheirValues == AnalyticsSpec => []ChartsPointAtWhatTheyDraw
<1>1. Init => ChartsPointAtWhatTheyDraw
    BY DEF Init, Idle, ChartsPointAtWhatTheyDraw
<1>2. ASSUME ChartsPointAtWhatTheyDraw, [AnalyticsNext]_call
      PROVE  ChartsPointAtWhatTheyDraw'
    <2>1. CASE CallChart
        <3> DEFINE Drawn(bars, stride, ma, live) ==
                     LET folded == FoldCandles(Table("btc", bars), bars, stride, ma)
                     IN  [k \in DOMAIN folded |-> IF k > Len(folded) - live
                                                  THEN [folded[k] EXCEPT !.ma = Null] ELSE folded[k]]
                   Called(bars, stride, ma, live, width, height) ==
                     call' = [fn |-> "chart", height |-> height, layout |-> Layout(width, height),
                              candles |-> Drawn(bars, stride, ma, live)]
        <3>1. PICK bars \in SUBSET (0 .. LastBar), stride \in Strides, ma \in Periods, live \in 0 .. 1,
                   width \in Widths, height \in Heights : Called(bars, stride, ma, live, width, height)
            BY <2>1, Zenon DEF CallChart
        <3>2. stride \in Nat \ {0} /\ LastBar \in Nat /\ width \in Nat /\ height \in Nat
            BY TablesAssumption
        <3> DEFINE candles == Drawn(bars, stride, ma, live)
                   layout == Layout(width, height)
        <3>3. call'.fn = "chart" /\ call'.candles = candles /\ call'.layout = layout /\ call'.height = height
            BY <3>1
        <3>4. candles = LET folded == FoldCandles(Table("btc", bars), bars, stride, ma)
                        IN  [k \in DOMAIN folded |-> IF k > Len(folded) - live
                                                     THEN [folded[k] EXCEPT !.ma = Null] ELSE folded[k]]
            OBVIOUS
        <3>5. History(LastBar, bars, stride)
            BY <3>2 DEF History
        <3> HIDE DEF candles, Drawn
        <3>6. Ready(candles, layout) => CandlesAreDrawn(candles, layout, height)
            <4> SUFFICES ASSUME Ready(candles, layout) PROVE CandlesAreDrawn(candles, layout, height)
                OBVIOUS
            <4>1. candles # <<>>
                BY DEF Ready
            <4> DEFINE n == Cardinality(CandlesOf(bars, stride))
            <4>2. Drawable(candles, n)
                BY <3>4, <3>5, <4>1, ChartsAreDrawable
            <4> HIDE DEF n
            <4> QED
                BY <3>2, <4>2, ChartsDrawn
        <3> HIDE DEF layout
        <3> QED
            BY <3>3, <3>6 DEF ChartsPointAtWhatTheyDraw
    <2>2. CASE CallStrength
        <3> DEFINE Called(bars, span, points) ==
                 /\ call'.fn = "strength"
                 /\ call'.line = GetRelativeStrength(Klines(bars), Symbols, span, points)
        <3>1. PICK bars \in [Symbols -> SUBSET (0 .. PairLastBar)] :
                 \E span \in 3 .. 5, points \in {2, 4} : Called(bars, span, points)
            BY <2>2 DEF CallStrength
        <3>2. PICK span \in 3 .. 5, points \in {2, 4} : Called(bars, span, points)
            BY <3>1
        <3>3. span \in Nat /\ points \in Nat \ {0}
            OBVIOUS
        <3> DEFINE line == GetRelativeStrength(Klines(bars), Symbols, span, points)
        <3>4. Len(line) > 1 => Indexed(line, Len(line))
            BY <3>3, LinesAreIndexed
        <3>5. call'.fn = "strength" /\ call'.line = line
            BY <3>2
        <3> HIDE DEF line
        <3>6. ASSUME NEW width \in Widths, NEW height \in Heights, LineReady(line, LineLayout(width, height))
              PROVE  LinesAreDrawn(line, LineLayout(width, height))
            <4>1. width \in Nat /\ height \in Nat
                BY TablesAssumption
            <4> DEFINE m == Len(line)
            <4>2. Indexed(line, m)
                BY <3>4, <3>6 DEF LineReady
            <4> HIDE DEF m
            <4> QED
                BY <3>6, <4>1, <4>2, LinesDrawn
        <3> QED
            BY <3>5, <3>6 DEF ChartsPointAtWhatTheyDraw
    <2>3. CASE CallStats
        <3>1. PICK bars \in [Symbols -> SUBSET (0 .. PairLastBar)] :
                 LET klines == Klines(bars)
                 IN  call' = [fn |-> "stats", bars |-> bars,
                              stats   |-> GetMarketStats(klines, Symbols),
                              rate    |-> TradeRate(klines, Symbols),
                              tiles   |-> OpsTiles([s \in {x \in Symbols : bars[x] # {}} |->
                                                      GetCoverage(klines[s], 1)]),
                              candles |-> [s \in Symbols |-> [i \in Strides |->
                                             GetCandles(klines[s], i, MaxCandles, DefaultMa)]]]
            BY <2>3 DEF CallStats
        <3>2. call'.fn = "stats" /\ call'.stats = GetMarketStats(Klines(bars), Symbols)
            BY <3>1
        <3>3. TakersAreDrawn(GetMarketStats(Klines(bars), Symbols))
            <4>1. PairLastBar \in Nat
                BY TablesAssumption
            <4> QED
                BY <4>1, TakersDrawn, Zenon
        <3> QED
            BY <3>2, <3>3 DEF ChartsPointAtWhatTheyDraw
    <2>4. CASE CallCoverage
        <3>1. PICK step \in Strides :
                 \E bars \in SUBSET {t \in 0 .. LastBar : t % step = 0} :
                    /\ bars # {}
                    /\ call' = [fn |-> "coverage", bars |-> bars, step |-> step,
                                coverage |-> GetCoverage(Table("btc", bars), step)]
            BY <2>4 DEF CallCoverage
        <3>2. PICK bars \in SUBSET {t \in 0 .. LastBar : t % step = 0} :
                    /\ bars # {}
                    /\ call' = [fn |-> "coverage", bars |-> bars, step |-> step,
                                coverage |-> GetCoverage(Table("btc", bars), step)]
            BY <3>1
        <3> DEFINE coverage == GetCoverage(Table("btc", bars), step)
        <3>3. step \in Nat \ {0} /\ LastBar \in Nat
            BY TablesAssumption
        <3>4. bars \in SUBSET (0 .. LastBar) /\ bars # {} /\ \A t \in bars : t % step = 0
            BY <3>2
        <3>5. MeterFilled(coverage.pct, 100, 8) = 100 * coverage.pct[2] <=> FindGaps(bars, step) = {}
            BY <3>3, <3>4, MeterAgrees, Zenon
        <3>6. call'.fn = "coverage" /\ call'.bars = bars /\ call'.step = step /\ call'.coverage = coverage
            BY <3>2
        <3> HIDE DEF coverage
        <3> QED
            BY <3>5, <3>6 DEF ChartsPointAtWhatTheyDraw
    <2>5. CASE call'.fn \notin {"chart", "strength", "stats", "coverage"}
        BY <2>5 DEF ChartsPointAtWhatTheyDraw
    <2>6. CASE UNCHANGED call
        BY <1>2, <2>6 DEF ChartsPointAtWhatTheyDraw
    <2> QED
        BY <1>2, <2>1, <2>2, <2>3, <2>4, <2>5, <2>6, EveryCall
<1> QED
    BY <1>1, <1>2, PTL DEF AnalyticsSpec
===============================================================================
