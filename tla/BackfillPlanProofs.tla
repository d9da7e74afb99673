-------------------------- MODULE BackfillPlanProofs --------------------------
(***************************************************************************)
(* Facts about the backfill plan for arguments of any size: where          *)
(* MCBackfillPlan compares with reference definitions over small ranges.   *)
(***************************************************************************)
EXTENDS BackfillPlan, FiniteSetTheorems, FunctionTheorems, WellFoundedInduction, TLAPS

\* Integer division rounds down.
LEMMA DivBounds ==
    ASSUME NEW a \in Int, NEW d \in Nat \ {0}
    PROVE  /\ a \div d \in Int
           /\ (a \div d) * d <= a
           /\ a < (a \div d) * d + d
OBVIOUS

\* Products order as their factors do.
LEMMA TimesMonotone ==
    ASSUME NEW a \in Int, NEW b \in Int, NEW d \in Nat \ {0}
    PROVE  a <= b <=> a * d <= b * d
OBVIOUS

LEMMA DivOfMultiple ==
    ASSUME NEW a \in Int, NEW b \in Int, NEW d \in Nat \ {0}
    PROVE  (b * d - a * d) \div d = b - a
OBVIOUS

\* The aligned time is the last bar start not after the time.
LEMMA AlignBounds ==
    ASSUME NEW t \in Int, NEW i \in Nat \ {0}
    PROVE  /\ AlignToInterval(t, i) = (t \div i) * i
           /\ AlignToInterval(t, i) <= t
           /\ t < AlignToInterval(t, i) + i
BY DivBounds DEF AlignToInterval

\* Pages as a plan of n bars has them: their number, and what page k covers.
LEMMA PageCount ==
    ASSUME NEW n \in Nat \ {0}, NEW P \in Nat \ {0}
    PROVE  LET K == (n + P - 1) \div P
           IN  K \in Nat \ {0} /\ (K - 1) * P < n /\ n <= K * P
<1> DEFINE K == (n + P - 1) \div P
<1>1. n + P - 1 \in Int /\ K \in Int /\ K * P <= n + P - 1 /\ n + P - 1 < K * P + P
    BY DivBounds
<1> HIDE DEF K
<1>2. n <= K * P
    BY <1>1
<1>3. K > 0
    BY <1>1, <1>2
<1>4. (K - 1) * P < n
    BY <1>1
<1> QED
    BY <1>1, <1>2, <1>3, <1>4 DEF K

\* The bars before page k of a plan of n bars, and the bars on it.
Offset(k, P) == (k - 1) * P
Size(k, n, P) == LesserOf(P, n - Offset(k, P))

LEMMA PageWithin ==
    ASSUME NEW n \in Nat \ {0}, NEW P \in Nat \ {0}, NEW k \in 1 .. (n + P - 1) \div P
    PROVE  /\ Offset(k, P) \in Nat
           /\ Size(k, n, P) \in 1 .. P
           /\ Offset(k, P) + Size(k, n, P) <= n
<1> DEFINE K == (n + P - 1) \div P
<1>1. K \in Nat \ {0} /\ (K - 1) * P < n /\ k \in 1 .. K
    BY PageCount
<1> HIDE DEF K
<1>2. Offset(k, P) \in Nat /\ Offset(k, P) <= (K - 1) * P
    <2>1. k - 1 \in Nat /\ K - 1 \in Nat /\ k - 1 <= K - 1
        BY <1>1
    <2> QED
        BY <2>1, TimesMonotone DEF Offset
<1>3. (K - 1) * P \in Int
    BY <1>1
<1> QED
    BY <1>1, <1>2, <1>3 DEF Size, LesserOf

LEMMA PageOf ==
    ASSUME NEW start \in Int, NEW n \in Nat \ {0}, NEW i \in Nat \ {0}, NEW P \in Nat \ {0},
           NEW k \in 1 .. (n + P - 1) \div P
    PROVE  /\ PagesFromCount(start, n, i, P)[k].startTime = start + Offset(k, P) * i
           /\ PagesFromCount(start, n, i, P)[k].endTime =
                  start + Offset(k, P) * i + (Size(k, n, P) - 1) * i
BY DEF PagesFromCount, Offset, Size

\* The number of the bar a time falls in.
BarAt(t, i) == t \div i

LEMMA BarAtBounds ==
    ASSUME NEW t \in Int, NEW i \in Nat \ {0}
    PROVE  /\ BarAt(t, i) \in Int
           /\ AlignToInterval(t, i) = BarAt(t, i) * i
           /\ BarAt(t, i) * i <= t
           /\ t < BarAt(t, i) * i + i
BY DivBounds DEF BarAt, AlignToInterval

\* A plan runs from the bar of one time to the bar of the other.
LEMMA PlanByBars ==
    ASSUME NEW from \in Int, NEW to \in Int, NEW i \in Nat \ {0}, NEW P \in Nat \ {0}
    PROVE  /\ BarAt(to, i) < BarAt(from, i) => PlanBackfillPages(from, to, i, P) = <<>>
           /\ BarAt(from, i) <= BarAt(to, i) =>
                 PlanBackfillPages(from, to, i, P) =
                     PagesFromCount(AlignToInterval(from, i),
                                    BarAt(to, i) - BarAt(from, i) + 1, i, P)
<1> DEFINE n1 == BarAt(from, i)
           n2 == BarAt(to, i)
<1>1. n1 \in Int /\ n2 \in Int /\ AlignToInterval(from, i) = n1 * i
      /\ AlignToInterval(to, i) = n2 * i
    BY BarAtBounds
<1> HIDE DEF n1, n2
<1>2. BarCount(n1 * i, n2 * i, i) = n2 - n1 + 1
    BY <1>1, DivOfMultiple DEF BarCount
<1>3. n2 < n1 <=> n2 * i < n1 * i
    BY <1>1, TimesMonotone
<1> QED
    BY <1>1, <1>2, <1>3 DEF PlanBackfillPages, n1, n2

\* planBackfillPages loses no bar and adds none: the bar starts inside the
\* pages are exactly those of the requested range, for any range, candle
\* length and page size.
THEOREM PlanCoversRange ==
    ASSUME NEW from \in Int, NEW to \in Int, NEW i \in Nat \ {0}, NEW P \in Nat \ {0},
           NEW n \in Int
    PROVE  LET pages == PlanBackfillPages(from, to, i, P)
           IN  (AlignToInterval(from, i) <= n * i /\ n * i <= to) <=>
                  \E k \in DOMAIN pages : pages[k].startTime <= n * i /\ n * i <= pages[k].endTime
<1> DEFINE n1 == BarAt(from, i)
           n2 == BarAt(to, i)
           count == n2 - n1 + 1
           pages == PlanBackfillPages(from, to, i, P)
           first == AlignToInterval(from, i)
<1>1. n1 \in Int /\ n2 \in Int /\ first = n1 * i /\ n2 * i <= to /\ to < n2 * i + i
    BY BarAtBounds
<1>2. n2 < n1 => pages = <<>>
    BY PlanByBars
<1>3. n1 <= n2 => pages = PagesFromCount(first, count, i, P)
    BY PlanByBars
<1> HIDE DEF n1, n2, pages, first
<1>4. (first <= n * i /\ n * i <= to) <=> (n1 <= n /\ n <= n2)
    <2>1. ASSUME n <= n2
          PROVE  n * i <= to
        <3>1. n * i <= n2 * i
            BY <1>1, <2>1, TimesMonotone
        <3> QED
            BY <1>1, <3>1
    <2>2. ASSUME n2 + 1 <= n
          PROVE  to < n * i
        <3>1. (n2 + 1) * i <= n * i
            BY <1>1, <2>2, TimesMonotone
        <3> QED
            BY <1>1, <3>1
    <2>3. n * i <= to <=> n <= n2
        BY <1>1, <2>1, <2>2
    <2> QED
        BY <1>1, <2>3, TimesMonotone
<1>5. CASE n2 < n1
    <2>1. ~ (n1 <= n /\ n <= n2)
        BY <1>1, <1>5
    <2>2. ~ \E k \in DOMAIN pages : TRUE
        BY <1>2, <1>5
    <2> QED
        BY <1>4, <2>1, <2>2 DEF pages, first
<1>6. CASE n1 <= n2
    <2> DEFINE K == (count + P - 1) \div P
               covers(k) == n1 + Offset(k, P) <= n /\ n <= n1 + Offset(k, P) + Size(k, count, P) - 1
    <2>1. count \in Nat \ {0}
        BY <1>1, <1>6
    <2> HIDE DEF count
    <2>2. K \in Nat \ {0} /\ count <= K * P
        BY <2>1, PageCount
    <2>3. DOMAIN pages = 1 .. K
        BY <1>3, <1>6 DEF PagesFromCount
    <2>4. ASSUME NEW k \in 1 .. K
          PROVE  /\ Offset(k, P) \in Nat /\ Size(k, count, P) \in 1 .. P
                 /\ Offset(k, P) + Size(k, count, P) <= count
                 /\ covers(k) <=> pages[k].startTime <= n * i /\ n * i <= pages[k].endTime
        <3>1. /\ Offset(k, P) \in Nat /\ Size(k, count, P) \in 1 .. P
              /\ Offset(k, P) + Size(k, count, P) <= count
            BY <2>1, PageWithin
        <3>2. first \in Int
            BY <1>1
        <3>3. /\ pages[k].startTime = first + Offset(k, P) * i
              /\ pages[k].endTime = first + Offset(k, P) * i + (Size(k, count, P) - 1) * i
            BY <1>3, <1>6, <2>1, <3>2, PageOf
        <3>4. /\ pages[k].startTime = (n1 + Offset(k, P)) * i
              /\ pages[k].endTime = (n1 + Offset(k, P) + Size(k, count, P) - 1) * i
            BY <1>1, <3>1, <3>3
        <3>5. n1 + Offset(k, P) \in Int /\ n1 + Offset(k, P) + Size(k, count, P) - 1 \in Int
            BY <1>1, <3>1
        <3> QED
            BY <3>1, <3>4, <3>5, TimesMonotone
    <2> HIDE DEF K
    <2>5. ASSUME n1 <= n, n <= n2
          PROVE  \E k \in 1 .. K : covers(k)
        <3> DEFINE q == (n - n1) \div P
                   r == q * P
        <3>1. n - n1 \in Int /\ q \in Int /\ r \in Int /\ r <= n - n1 /\ n - n1 < r + P
            BY <1>1, DivBounds
        <3> HIDE DEF q
        <3>2. q >= 0
            BY <1>1, <2>5, <3>1
        <3>3. n - n1 < count
            BY <1>1, <2>5 DEF count
        <3>4. q < K
            <4>1. q * P < K * P
                BY <2>1, <2>2, <3>1, <3>3
            <4> QED
                BY <2>2, <3>1, <4>1, TimesMonotone
        <3>5. q + 1 \in 1 .. K
            BY <2>2, <3>1, <3>2, <3>4
        <3>6. Offset(q + 1, P) = r
            BY <3>1 DEF Offset
        <3> HIDE DEF r
        <3>7. covers(q + 1)
            BY <1>1, <2>1, <3>1, <3>3, <3>6 DEF Size, LesserOf
        <3> QED
            BY <3>5, <3>7
    <2>6. ASSUME NEW k \in 1 .. K, covers(k)
          PROVE  n1 <= n /\ n <= n2
        BY <1>1, <2>4, <2>6 DEF count
    <2>7. (n1 <= n /\ n <= n2) <=> \E k \in 1 .. K : covers(k)
        BY <2>5, <2>6
    <2> QED
        BY <1>4, <2>3, <2>4, <2>7 DEF pages, first
<1> QED
    BY <1>1, <1>5, <1>6

-------------------------------------------------------------------------------
(***************************************************************************)
(* Pages                                                                   *)
(***************************************************************************)
\* planBackfillPages repeats no bar and asks for none too many: the pages follow
\* each other with their ends on bar starts, and each has as many bars as it says
\* it expects, no more than one request may have.
THEOREM PagesAreInOrder ==
    ASSUME NEW from \in Int, NEW to \in Int, NEW i \in Nat \ {0}, NEW P \in Nat \ {0}
    PROVE  LET pages == PlanBackfillPages(from, to, i, P)
           IN  \A k \in DOMAIN pages :
                  /\ pages[k].expectedCount \in 1 .. P
                  /\ pages[k].endTime = pages[k].startTime + (pages[k].expectedCount - 1) * i
                  /\ \E n \in Int : pages[k].startTime = n * i
                  /\ \A l \in DOMAIN pages : k < l => pages[k].endTime < pages[l].startTime
<1> DEFINE n1 == BarAt(from, i)
           n2 == BarAt(to, i)
           count == n2 - n1 + 1
           pages == PlanBackfillPages(from, to, i, P)
           K == (count + P - 1) \div P
<1>1. n1 \in Int /\ n2 \in Int /\ AlignToInterval(from, i) = n1 * i
    BY BarAtBounds
<1>2. n2 < n1 => pages = <<>>
    BY PlanByBars
<1>3. n1 <= n2 => pages = PagesFromCount(n1 * i, count, i, P)
    BY <1>1, PlanByBars
<1> DEFINE Orderly ==
       \A k \in DOMAIN pages :
          /\ pages[k].expectedCount \in 1 .. P
          /\ pages[k].endTime = pages[k].startTime + (pages[k].expectedCount - 1) * i
          /\ \E n \in Int : pages[k].startTime = n * i
          /\ \A l \in DOMAIN pages : k < l => pages[k].endTime < pages[l].startTime
<1> SUFFICES Orderly
    OBVIOUS
<1> HIDE DEF n1, n2, pages
<1>4. CASE n2 < n1
    BY <1>2, <1>4
<1>5. CASE n1 <= n2
    <2>1. count \in Nat \ {0}
        BY <1>1, <1>5
    <2> HIDE DEF count
    <2>2. n1 * i \in Int
        BY <1>1
    <2>3. DOMAIN pages = 1 .. K
        BY <1>3, <1>5 DEF PagesFromCount
    <2>4. ASSUME NEW k \in 1 .. K
          PROVE  /\ Offset(k, P) \in Nat /\ Size(k, count, P) \in 1 .. P
                 /\ pages[k].expectedCount = Size(k, count, P)
                 /\ pages[k].startTime = (n1 + Offset(k, P)) * i
                 /\ pages[k].endTime = (n1 + Offset(k, P) + Size(k, count, P) - 1) * i
        <3>1. Offset(k, P) \in Nat /\ Size(k, count, P) \in 1 .. P
            BY <2>1, PageWithin
        <3>2. /\ pages[k].startTime = n1 * i + Offset(k, P) * i
              /\ pages[k].endTime = n1 * i + Offset(k, P) * i + (Size(k, count, P) - 1) * i
            <4> DEFINE start == n1 * i
            <4>1. pages = PagesFromCount(start, count, i, P)
                BY <1>3, <1>5
            <4>2. start \in Int /\ k \in 1 .. (count + P - 1) \div P
                BY <2>2
            <4> HIDE DEF start
            <4>3. /\ PagesFromCount(start, count, i, P)[k].startTime = start + Offset(k, P) * i
                  /\ PagesFromCount(start, count, i, P)[k].endTime =
                         start + Offset(k, P) * i + (Size(k, count, P) - 1) * i
                BY <2>1, <4>2, PageOf
            <4> QED
                BY <4>1, <4>3 DEF start
        <3>3. pages[k].expectedCount = Size(k, count, P)
            BY <1>3, <1>5 DEF PagesFromCount, Size, Offset
        <3> QED
            BY <1>1, <3>1, <3>2, <3>3
    <2>5. ASSUME NEW k \in 1 .. K, NEW l \in 1 .. K, k < l
          PROVE  pages[k].endTime < pages[l].startTime
        <3>1. Offset(k, P) + P <= Offset(l, P)
            <4>1. k - 1 \in Int /\ l - 1 \in Int /\ k <= l - 1
                BY <2>5
            <4>2. k * P <= (l - 1) * P
                BY <4>1, TimesMonotone
            <4>3. k * P = (k - 1) * P + P
                BY <4>1
            <4> QED
                BY <4>2, <4>3 DEF Offset
        <3> DEFINE last  == n1 + Offset(k, P) + Size(k, count, P) - 1
                   first == n1 + Offset(l, P)
        <3>2. last \in Int /\ first \in Int /\ last < first
            BY <1>1, <2>4, <3>1
        <3> HIDE DEF last, first
        <3>3. last * i < first * i
            BY <3>2, TimesMonotone
        <3> QED
            BY <2>4, <3>3 DEF last, first
    <2>6. ASSUME NEW k \in 1 .. K
          PROVE  /\ pages[k].expectedCount \in 1 .. P
                 /\ pages[k].endTime = pages[k].startTime + (pages[k].expectedCount - 1) * i
                 /\ \E n \in Int : pages[k].startTime = n * i
        <3>1. n1 + Offset(k, P) \in Int
            BY <1>1, <2>4
        <3>2. (n1 + Offset(k, P) + Size(k, count, P) - 1) * i =
                  (n1 + Offset(k, P)) * i + (Size(k, count, P) - 1) * i
            BY <1>1, <2>4
        <3> QED
            BY <2>4, <3>1, <3>2
    <2> QED
        BY <2>3, <2>5, <2>6
<1>6. n2 < n1 \/ n1 <= n2
    BY <1>1
<1> QED
    BY <1>4, <1>5, <1>6, Zenon

\* The plan of a restart: the last stored bar, which may have been stored
\* unfinished, is fetched again with everything after it up to the bar in progress.
THEOREM RestartFetchesTheLastBar ==
    ASSUME NEW last \in Nat, NEW now \in Int, NEW days \in Nat, NEW i \in Nat \ {0},
           NEW P \in Nat \ {0}, NEW n \in Int
    PROVE  LET start == ResolveBackfillStart(last, now, days, i)
               pages == PlanBackfillPages(start, now, i, P)
           IN  (AlignToInterval(last, i) <= n * i /\ n * i <= now) <=>
                  \E k \in DOMAIN pages : pages[k].startTime <= n * i /\ n * i <= pages[k].endTime
<1> DEFINE start == ResolveBackfillStart(last, now, days, i)
<1>1. start = BarAt(last, i) * i /\ BarAt(last, i) \in Int
    <2>1. start = AlignToInterval(last, i)
        BY DEF ResolveBackfillStart, NoBar
    <2> QED
        BY <2>1, BarAtBounds
<1>2. start \in Int /\ AlignToInterval(start, i) = start
    <2>1. (BarAt(last, i) * i) \div i = BarAt(last, i)
        <3>1. (BarAt(last, i) * i - 0 * i) \div i = BarAt(last, i) - 0
            BY <1>1, DivOfMultiple
        <3> QED
            BY <1>1, <3>1
    <2> QED
        BY <1>1, <2>1 DEF AlignToInterval
<1>3. AlignToInterval(last, i) = start
    BY <1>1, BarAtBounds
<1> HIDE DEF start
<1> QED
    BY <1>2, <1>3, PlanCoversRange DEF start

-------------------------------------------------------------------------------
(***************************************************************************)
(* Gaps                                                                    *)
(***************************************************************************)
LEMMA LeastOf ==
    ASSUME NEW S \in SUBSET Nat, S # {}
    PROVE  \E d \in S : \A e \in S : d <= e
<1>1. PICK d \in S : \A e \in S : ~ (<<e, d>> \in OpToRel(<, Nat))
    BY NatLessThanWellFounded, WFMin
<1>2. \A e \in S : ~ (e < d)
    BY <1>1 DEF OpToRel
<1> QED
    BY <1>2

\* A bar that is missing between two stored ones has a stored bar d1 before it and
\* one d2 after it with nothing stored in between.
LEMMA NearestBars ==
    ASSUME NEW i \in Nat \ {0}, NEW stored, NEW n \in Int, n * i \notin stored,
           NEW before \in Int, before < n, before * i \in stored,
           NEW after \in Int, n < after, after * i \in stored
    PROVE  \E d1, d2 \in Nat \ {0} :
              /\ (n - d1) * i \in stored /\ (n + d2) * i \in stored
              /\ \A k \in Int : n - d1 < k /\ k < n + d2 => k * i \notin stored
<1> DEFINE Down == {d \in Nat : (n - d) * i \in stored}
           Up   == {d \in Nat : (n + d) * i \in stored}
<1>1. Down # {} /\ Up # {}
    <2>1. n - before \in Nat /\ n - (n - before) = before
        OBVIOUS
    <2>2. after - n \in Nat /\ n + (after - n) = after
        OBVIOUS
    <2> QED
        BY <2>1, <2>2
<1>2. PICK d1 \in Down : \A e \in Down : d1 <= e
    <2>1. Down \in SUBSET Nat
        OBVIOUS
    <2> HIDE DEF Down
    <2> QED
        BY <1>1, <2>1, LeastOf
<1>3. PICK d2 \in Up : \A e \in Up : d2 <= e
    <2>1. Up \in SUBSET Nat
        OBVIOUS
    <2> HIDE DEF Up
    <2> QED
        BY <1>1, <2>1, LeastOf
<1>4. d1 \in Nat \ {0} /\ d2 \in Nat \ {0}
    <2>1. n - 0 = n /\ n + 0 = n
        OBVIOUS
    <2> QED
        BY <2>1
<1>5. ASSUME NEW k \in Int, n - d1 < k, k < n + d2, k * i \in stored
      PROVE  FALSE
    <2>1. CASE k < n
        <3>1. n - k \in Nat /\ n - (n - k) = k /\ n - k < d1
            BY <1>4, <1>5, <2>1
        <3>2. n - k \in Down
            BY <1>5, <3>1
        <3> QED
            BY <1>2, <1>4, <3>1, <3>2
    <2>2. CASE k > n
        <3>1. k - n \in Nat /\ n + (k - n) = k /\ k - n < d2
            BY <1>4, <1>5, <2>2
        <3>2. k - n \in Up
            BY <1>5, <3>1
        <3>3. d2 <= k - n
            BY <1>3, <3>2
        <3> HIDE DEF Up
        <3> QED
            BY <1>4, <3>1, <3>3
    <2>3. k # n
        BY <1>5
    <2> QED
        BY <1>5, <2>1, <2>2, <2>3
<1> QED
    BY <1>2, <1>3, <1>4, <1>5

\* A gap of findGaps by the numbers of the stored bars it lies between.
LEMMA GapByBars ==
    ASSUME NEW i \in Nat \ {0}, NEW j \in Int, NEW k \in Int
    PROVE  /\ GapBetween(j * i, k * i, i) =
                  [startTime |-> (j + 1) * i, endTime |-> (k - 1) * i, missingCount |-> k - j - 1]
           /\ k * i - j * i > i /\ (k * i - j * i) \div i - 1 > 0 <=> k - j - 1 > 0
<1>1. (k * i - j * i) \div i = k - j
    BY DivOfMultiple
<1>2. j * i + i = (j + 1) * i /\ k * i - i = (k - 1) * i
    OBVIOUS
<1>3. ASSUME k - j > 1 PROVE k * i - j * i > i
    <2>1. (j + 2) * i <= k * i
        BY <1>3, TimesMonotone
    <2>2. (j + 2) * i = j * i + 2 * i
        OBVIOUS
    <2>3. j * i \in Int /\ k * i \in Int /\ 2 * i > i
        OBVIOUS
    <2> QED
        BY <2>1, <2>2, <2>3
<1> QED
    BY <1>1, <1>2, <1>3 DEF GapBetween

\* findGaps reports exactly the bars missing between stored ones: for any set of
\* stored bars, a bar lies in a gap it reports if and only if it is not stored and
\* has stored bars on both sides.
THEOREM GapsAreExact ==
    ASSUME NEW i \in Nat \ {0}, NEW stored \in SUBSET Int,
           \A t \in stored : AlignToInterval(t, i) = t, NEW n \in Int
    PROVE  (/\ n * i \notin stored
            /\ \E t \in stored : t < n * i
            /\ \E t \in stored : n * i < t)
           <=> \E g \in FindGaps(stored, i) : g.startTime <= n * i /\ n * i <= g.endTime
<1>1. \A t \in stored : BarAt(t, i) \in Int /\ t = BarAt(t, i) * i
    BY BarAtBounds
<1>2. ASSUME n * i \notin stored, NEW s \in stored, s < n * i, NEW t \in stored, n * i < t
      PROVE  \E g \in FindGaps(stored, i) : g.startTime <= n * i /\ n * i <= g.endTime
    <2> DEFINE a == BarAt(s, i)
               b == BarAt(t, i)
    <2>1. a \in Int /\ b \in Int /\ a * i \in stored /\ b * i \in stored
        BY <1>1
    <2>2. a < n /\ n < b
        <3>1. ~(n * i <= a * i) /\ ~(b * i <= n * i)
            BY <1>1, <1>2
        <3> HIDE DEF a, b
        <3>2. ~(n <= a) /\ ~(b <= n)
            BY <2>1, <3>1, TimesMonotone
        <3> QED
            BY <2>1, <3>2
    <2> HIDE DEF a, b
    <2>3. PICK d1 \in Nat \ {0}, d2 \in Nat \ {0} :
              /\ (n - d1) * i \in stored /\ (n + d2) * i \in stored
              /\ \A k \in Int : n - d1 < k /\ k < n + d2 => k * i \notin stored
        BY <1>2, <2>1, <2>2, NearestBars
    <2> DEFINE j == n - d1
               k == n + d2
    <2>4. j \in Int /\ k \in Int /\ j < n /\ n < k /\ j * i \in stored /\ k * i \in stored
        BY <2>3
    <2>5. \A m \in Int : j < m /\ m < k => m * i \notin stored
        BY <2>3
    <2> HIDE DEF j, k
    <2>6. <<j * i, k * i>> \in Neighbours(stored)
        <3>1. j * i < k * i
            <4>1. ~(k * i <= j * i)
                BY <2>4, TimesMonotone
            <4> QED
                BY <2>4, <4>1
        <3>2. ASSUME NEW u \in stored, j * i < u, u < k * i
              PROVE  FALSE
            <4>1. BarAt(u, i) \in Int /\ u = BarAt(u, i) * i
                BY <1>1
            <4>2. ~(BarAt(u, i) <= j) /\ ~(k <= BarAt(u, i))
                BY <2>4, <3>2, <4>1, TimesMonotone
            <4> QED
                BY <2>4, <2>5, <4>1, <4>2
        <3> QED
            BY <2>4, <3>1, <3>2 DEF Neighbours
    <2>7. /\ k * i - j * i > i /\ (k * i - j * i) \div i - 1 > 0
          /\ GapBetween(j * i, k * i, i) =
                [startTime |-> (j + 1) * i, endTime |-> (k - 1) * i, missingCount |-> k - j - 1]
        BY <2>4, GapByBars
    <2>8. GapBetween(j * i, k * i, i) \in FindGaps(stored, i)
        BY <2>6, <2>7 DEF FindGaps
    <2>9. (j + 1) * i <= n * i /\ n * i <= (k - 1) * i
        BY <2>4, TimesMonotone
    <2> QED
        BY <2>7, <2>8, <2>9
<1>3. ASSUME NEW g \in FindGaps(stored, i), g.startTime <= n * i, n * i <= g.endTime
      PROVE  /\ n * i \notin stored
             /\ \E t \in stored : t < n * i
             /\ \E t \in stored : n * i < t
    <2>1. PICK p \in Neighbours(stored) : g = GapBetween(p[1], p[2], i)
        BY <1>3 DEF FindGaps
    <2>2. /\ p[1] \in stored /\ p[2] \in stored
          /\ ~ \E t \in stored : p[1] < t /\ t < p[2]
        BY <2>1 DEF Neighbours
    <2>3. p[1] + i <= n * i /\ n * i <= p[2] - i
        BY <1>3, <2>1 DEF GapBetween
    <2>4. p[1] < n * i /\ n * i < p[2]
        <3>1. p[1] \in Int /\ p[2] \in Int
            BY <2>2
        <3>2. n * i \in Int /\ i > 0
            OBVIOUS
        <3> QED
            BY <2>3, <3>1, <3>2
    <2> QED
        BY <2>2, <2>4
<1> QED
    BY <1>2, <1>3

\* A gap of findGaps is as long as it can be, lies on bar starts and counts its bars
\* right.
THEOREM GapsAreWhole ==
    ASSUME NEW i \in Nat \ {0}, NEW stored \in SUBSET Int,
           \A t \in stored : AlignToInterval(t, i) = t, NEW g \in FindGaps(stored, i)
    PROVE  /\ g.startTime - i \in stored /\ g.endTime + i \in stored
           /\ g.missingCount \in Nat \ {0}
           /\ g.endTime = g.startTime + (g.missingCount - 1) * i
<1>1. PICK p \in Neighbours(stored) :
          g = GapBetween(p[1], p[2], i) /\ (p[2] - p[1]) \div i - 1 > 0
    BY DEF FindGaps
<1>2. p[1] \in stored /\ p[2] \in stored
    BY DEF Neighbours
<1> DEFINE j == BarAt(p[1], i)
           k == BarAt(p[2], i)
<1>3. j \in Int /\ k \in Int /\ p[1] = j * i /\ p[2] = k * i
    BY <1>2, BarAtBounds
<1> HIDE DEF j, k
<1>4. /\ g = [startTime |-> (j + 1) * i, endTime |-> (k - 1) * i, missingCount |-> k - j - 1]
      /\ k - j - 1 > 0
    <2>1. g = GapBetween(j * i, k * i, i) /\ (k * i - j * i) \div i - 1 > 0
        BY <1>1, <1>3
    <2>2. (k * i - j * i) \div i = k - j
        BY <1>3, DivOfMultiple
    <2> QED
        BY <1>3, <2>1, <2>2, GapByBars
<1>5. /\ (j + 1) * i - i = j * i /\ (k - 1) * i + i = k * i
      /\ (k - 1) * i = (j + 1) * i + ((k - j - 1) - 1) * i
    BY <1>3
<1> QED
    BY <1>2, <1>3, <1>4, <1>5

-------------------------------------------------------------------------------
(***************************************************************************)
(* Delays                                                                  *)
(***************************************************************************)
\* The provers know of 2 ^ n only what the library says of the subsets of a set.
LEMMA SubsetsCounted ==
    ASSUME NEW n \in Nat
    PROVE  IsFiniteSet(SUBSET (1 .. n)) /\ Cardinality(SUBSET (1 .. n)) = 2 ^ n
<1>1. IsFiniteSet(1 .. n) /\ Cardinality(1 .. n) = n
    <2>1. IsFiniteSet(1 .. n) /\ Cardinality(1 .. n) = IF 1 > n THEN 0 ELSE n - 1 + 1
        BY FS_Interval
    <2> QED
        BY <2>1
<1> QED
    BY <1>1, FS_SUBSET

LEMMA PowersArePositive ==
    ASSUME NEW n \in Nat
    PROVE  2 ^ n \in Nat
BY SubsetsCounted, FS_CardinalityType

\* A delay between attempts is neither negative nor above the cap, whatever the
\* jitter.
LEMMA DelayIsCapped ==
    ASSUME NEW attempt \in Nat \ {0}, NEW base \in Nat, NEW max \in Nat
    PROVE  CalculateBackoffDelay(attempt, base, max) \in 0 .. max
<1> DEFINE e     == LesserOf(attempt - 1, MaxExponent)
           power == 2 ^ e
<1>1. e \in Nat
    BY PlanAssumption DEF LesserOf
<1> HIDE DEF e
<1>2. power \in Nat
    BY <1>1, PowersArePositive
<1> HIDE DEF power
<1>3. base * power \in Nat
    BY <1>2
<1>4. CalculateBackoffDelay(attempt, base, max) = LesserOf(base * power, max)
    BY DEF CalculateBackoffDelay, e, power
<1> QED
    BY <1>3, <1>4 DEF LesserOf

LEMMA DelaysAreCapped ==
    ASSUME NEW attempt \in Nat \ {0}, NEW base \in Nat, NEW max \in Nat
    PROVE  NextReconnectDelays(attempt, base, max) \subseteq 0 .. max
<1> DEFINE delay == CalculateBackoffDelay(attempt, base, max)
<1>1. delay \in Nat /\ delay <= max
    BY DelayIsCapped
<1>2. NextReconnectDelays(attempt, base, max) = (8 * delay + 5) \div 10 .. delay
    BY DEF NextReconnectDelays
<1> HIDE DEF delay
<1>3. (8 * delay + 5) \div 10 >= 0
    BY <1>1
<1> QED
    BY <1>1, <1>2, <1>3

LEMMA PowersDouble ==
    ASSUME NEW n \in Nat
    PROVE  2 ^ (n + 1) = 2 * 2 ^ n
<1> DEFINE A == 1 .. n
           U == SUBSET A
           V == {T \cup {n + 1} : T \in U}
           f == [T \in U |-> T \cup {n + 1}]
<1>1. IsFiniteSet(U) /\ Cardinality(U) = 2 ^ n
    BY SubsetsCounted
<1>2. Cardinality(SUBSET (1 .. n + 1)) = 2 ^ (n + 1)
    BY SubsetsCounted
<1>3. \A T \in U : n + 1 \notin T
    OBVIOUS
<1> HIDE DEF A
<1>4. f \in Bijection(U, V)
    <2>1. \A S, T \in U : f[S] = f[T] => S = T
        BY <1>3
    <2>2. f \in [U -> V]
        OBVIOUS
    <2>3. \A w \in V : \E T \in U : f[T] = w
        OBVIOUS
    <2> HIDE DEF f, U, V
    <2> QED
        BY <2>1, <2>2, <2>3, Fun_IsBij
<1>5. IsFiniteSet(V) /\ Cardinality(V) = 2 ^ n
    BY <1>1, <1>4, FS_Bijection DEF ExistsBijection
<1>6. U \cap V = {}
    BY <1>3
<1>7. SUBSET (1 .. n + 1) = U \cup V
    <2>1. 1 .. n + 1 = A \cup {n + 1}
        BY DEF A
    <2>2. ASSUME NEW T \in SUBSET (A \cup {n + 1}) PROVE T \in U \cup V
        <3>1. CASE n + 1 \in T
            <4>1. T = (T \ {n + 1}) \cup {n + 1} /\ T \ {n + 1} \in U
                BY <3>1
            <4> QED
                BY <4>1
        <3>2. CASE n + 1 \notin T
            BY <3>2
        <3> QED
            BY <3>1, <3>2
    <2>3. ASSUME NEW T \in U \cup V PROVE T \in SUBSET (A \cup {n + 1})
        OBVIOUS
    <2> HIDE DEF U, V
    <2> QED
        BY <2>1, <2>2, <2>3
<1> HIDE DEF U, V
<1>8. Cardinality(U \cup V) = Cardinality(U) + Cardinality(V) - Cardinality({})
    BY <1>1, <1>5, <1>6, FS_Union
<1>9. Cardinality({}) = 0
    BY FS_EmptySet
<1>10. Cardinality(U) \in Nat
    BY <1>1, FS_CardinalityType
<1>11. Cardinality(U \cup V) = 2 ^ (n + 1)
    BY <1>2, <1>7
<1>12. Cardinality(U \cup V) = 2 ^ n + 2 ^ n
    <2> DEFINE p == 2 ^ n
    <2>1. Cardinality(U) = p /\ Cardinality(V) = p /\ p \in Nat
        BY <1>1, <1>5, <1>10
    <2> HIDE DEF p
    <2>2. Cardinality(U \cup V) = p + p
        BY <1>8, <1>9, <2>1
    <2> QED
        BY <2>2 DEF p
<1> QED
    BY <1>11, <1>12

\* calculateBackoffDelay by its attempts: from min(base, max) on each delay is twice
\* the last one or the cap, as long as the exponent does not stop it below the cap.
LEMMA DelaysDouble ==
    ASSUME NEW n \in Nat \ {0}, NEW base \in Nat \ {0}, NEW max \in Nat,
           max <= 2 ^ MaxExponent
    PROVE  /\ CalculateBackoffDelay(1, base, max) = LesserOf(base, max)
           /\ CalculateBackoffDelay(n + 1, base, max) =
                  LesserOf(2 * CalculateBackoffDelay(n, base, max), max)
<1>1. MaxExponent \in Nat
    BY PlanAssumption
<1>2. CalculateBackoffDelay(1, base, max) = LesserOf(base, max)
    <2>1. 2 ^ 0 = 1
        OBVIOUS
    <2>2. LesserOf(1 - 1, MaxExponent) = 0
        BY <1>1 DEF LesserOf
    <2>3. CalculateBackoffDelay(1, base, max) = LesserOf(base * 2 ^ 0, max)
        BY <2>2 DEF CalculateBackoffDelay
    <2>4. base * 2 ^ 0 = base
        BY <2>1
    <2> QED
        BY <2>3, <2>4
<1>3. CASE n - 1 < MaxExponent
    <2> DEFINE p == 2 ^ (n - 1)
               q == 2 ^ n
    <2>1. LesserOf(n - 1, MaxExponent) = n - 1 /\ LesserOf((n + 1) - 1, MaxExponent) = n
        BY <1>1, <1>3 DEF LesserOf
    <2>2. /\ CalculateBackoffDelay(n, base, max) = LesserOf(base * p, max)
          /\ CalculateBackoffDelay(n + 1, base, max) = LesserOf(base * q, max)
        BY <2>1 DEF CalculateBackoffDelay
    <2>3. n - 1 \in Nat /\ (n - 1) + 1 = n
        OBVIOUS
    <2>4. p \in Nat /\ q = 2 * p
        BY <2>3, PowersArePositive, PowersDouble
    <2> HIDE DEF p, q
    <2>5. base * p \in Nat /\ base * q = 2 * (base * p)
        BY <2>4
    <2> QED
        BY <1>2, <2>2, <2>5 DEF LesserOf
<1>4. CASE MaxExponent <= n - 1
    <2> DEFINE p == 2 ^ MaxExponent
    <2>1. LesserOf(n - 1, MaxExponent) = MaxExponent /\ LesserOf((n + 1) - 1, MaxExponent) = MaxExponent
        BY <1>1, <1>4 DEF LesserOf
    <2>2. /\ CalculateBackoffDelay(n, base, max) = LesserOf(base * p, max)
          /\ CalculateBackoffDelay(n + 1, base, max) = LesserOf(base * p, max)
        BY <2>1 DEF CalculateBackoffDelay
    <2>3. p \in Nat /\ max <= p
        BY <1>1, PowersArePositive
    <2> HIDE DEF p
    <2>4. base * p \in Nat /\ p <= base * p
        BY <2>3
    <2>5. LesserOf(base * p, max) = max
        BY <2>3, <2>4 DEF LesserOf
    <2> QED
        BY <1>2, <2>2, <2>5 DEF LesserOf
<1> QED
    BY <1>1, <1>3, <1>4
===============================================================================
