--------------------------- MODULE DashboardProofs ----------------------------
(***************************************************************************)
(* What the page of the browser keeps right, for every number of requests, *)
(* faults and switches, every length of the chart, of the queue and of the *)
(* table, and every threshold.                                             *)
(***************************************************************************)
EXTENDS Dashboard, FiniteSetTheorems, WellFoundedInduction, TLAPS

Intervals == {"1m", "5m"}

Candle == [openTime : Nat, at : Nat]

Data == [interval : Intervals, candles : Seq(Candle), last : Nat]

Event == [kind : {"ops", "ticker", "pipeline", "kline"}, at : Nat]

Request == [kind : {"none", "resync", "switch"}, interval : Intervals, from : Nat]

Page == [shown      : BOOLEAN,
         data       : Data,
         price      : Nat \cup {None},
         connection : {"connecting", "live", "stalled", "reconnecting"},
         interval   : Intervals,
         loading    : BOOLEAN,
         everOpened : BOOLEAN,
         silence    : {None} \cup 0 .. StallAfter,
         errored    : BOOLEAN,
         sincePoll  : 0 .. PollEvery]

Sorts ==
    /\ market \in Nat /\ seen \in 0 .. market /\ missed \in {None} \cup 0 .. market
    /\ publishing \subseteq 1 .. market /\ listening \in BOOLEAN
    /\ stream \in {"connecting", "open", "closed", "buffered"}
    /\ queue \in Seq(Event)
    /\ \A k \in 1 .. Len(queue) : queue[k].kind = "kline" => queue[k].at \in 1 .. market
    /\ page \in Page
    /\ requests \in [1 .. MaxRequests -> Request]
    /\ \A r \in 1 .. MaxRequests : requests[r].from <= market
    /\ quiet \in 0 .. StallAfter + 1

\* The page is replaced when its stream is closed, and asks nothing any more.
Closing == (stream = "closed" <=> ~page.shown) /\ (~page.shown => Pending = {})

\* What the watchdog counts is the silence as it is, up to the threshold, and a
\* stream that is being connected never passes for one that is open and silent.
Watching ==
    page.shown =>
        /\ ~page.errored /\ page.silence # None =>
              page.silence = IF quiet <= StallAfter THEN quiet ELSE StallAfter
        /\ stream = "connecting" => page.errored \/ page.silence = None

\* One switch is under way at a time, to the interval chosen.
Switching ==
    \A r \in Pending : requests[r].kind = "switch" =>
        /\ page.loading /\ requests[r].interval = page.interval
        /\ \A s \in Pending : requests[s].kind = "switch" => s = r

\* The data is of the interval chosen, or a switch will bring it.
OfTheInterval ==
    page.shown /\ missed = None =>
        \/ page.data.interval = page.interval
        \/ \E r \in Pending : requests[r].kind = "switch"

\* An event on the way tells of moment m.
OnTheWay(m) == \E k \in 1 .. Len(queue) : queue[k].kind = "kline" /\ queue[k].at = m

\* A fetch under way will show moment m.
Asked(m) == \E r \in Pending : m <= requests[r].from

\* The page has shown moment m, or will, or is known to have missed it.
MadeUpFor(m) == m <= seen \/ m <= missed \/ m \in publishing \/ OnTheWay(m) \/ Asked(m)

NothingIsLost ==
    page.shown /\ stream = "open" /\ page.interval = "1m" => \A m \in 1 .. market : MadeUpFor(m)

\* The newest n candles of the table at moment s; a chart that holds no more of
\* them than a payload.
Newest(n, s) == [k \in 1 .. n |-> CandleOf("1m", LastBar(s) - n + k, s)]

Exact(chart, s) ==
    IF s = 0 THEN chart = <<>>
             ELSE \E n \in 1 .. LastBar(s) + 1 : n <= CandleLimit /\ chart = Newest(n, s)

ChartIsExact ==
    page.shown /\ missed = None /\ page.interval = "1m" /\ page.data.interval = "1m" =>
        Exact(page.data.candles, seen)

IInv ==
    /\ Sorts /\ Closing /\ Watching /\ LiveBadgeIsHonest
    /\ Switching /\ OfTheInterval /\ NothingIsLost /\ ChartIsExact

-------------------------------------------------------------------------------
(***************************************************************************)
(* The operators                                                           *)
(***************************************************************************)
LEMMA MinOfTwo ==
    ASSUME NEW a \in Int, NEW b \in Int
    PROVE  Min({a, b}) = IF a <= b THEN a ELSE b
BY DEF Min

LEMMA MaxOfTwo ==
    ASSUME NEW a \in Int, NEW b \in Int
    PROVE  Max({a, b}) = IF a >= b THEN a ELSE b
BY DEF Max

LEMMA Bounds ==
    /\ CandleLimit \in Nat \ {0} /\ StallAfter \in Nat \ {0} /\ PollEvery \in Nat \ {0}
    /\ MaxRequests \in Nat \ {0} /\ FirstMoment \in Nat
BY DashboardAssumption

\* A bar is in progress at one moment and finished at the next.
LEMMA LastBarOf ==
    ASSUME NEW m \in Nat \ {0}
    PROVE  /\ LastBar(m) \in Nat
           /\ m = 2 * LastBar(m) + 1 \/ m = 2 * LastBar(m) + 2
BY DEF LastBar

LEMMA MinuteCandle ==
    ASSUME NEW o \in Nat, NEW m \in Nat
    PROVE  CandleOf("1m", o, m) =
               [openTime |-> o, at |-> IF m <= 2 * o + 2 THEN m ELSE 2 * o + 2]
<1>1. Min({m, 2 * (o + 1)}) = IF m <= 2 * o + 2 THEN m ELSE 2 * o + 2
  BY MinOfTwo
<1> QED
  BY <1>1 DEF CandleOf, BarsPer

\* A finished candle does not change.
LEMMA FinishedCandle ==
    ASSUME NEW o \in Nat, NEW m \in Nat, NEW l \in Nat, 2 * o + 2 <= m, 2 * o + 2 <= l
    PROVE  CandleOf("1m", o, m) = CandleOf("1m", o, l)
<1>1. CandleOf("1m", o, m) = [openTime |-> o, at |-> 2 * o + 2]
  BY MinuteCandle
<1>2. CandleOf("1m", o, l) = [openTime |-> o, at |-> 2 * o + 2]
  BY MinuteCandle
<1> QED
  BY <1>1, <1>2

LEMMA CandleSort ==
    ASSUME NEW interval \in Intervals, NEW o \in Nat, NEW m \in Nat
    PROVE  CandleOf(interval, o, m) \in Candle
<1>1. 2 * (o + BarsPer(interval)) \in Nat
  BY DEF BarsPer, Intervals
<1>2. Min({m, 2 * (o + BarsPer(interval))}) \in Nat
  BY <1>1, MinOfTwo
<1> QED
  BY <1>2 DEF CandleOf, Candle

LEMMA CandlesSort ==
    ASSUME NEW interval \in Intervals, NEW m \in Nat
    PROVE  Candles(interval, m) \in Seq(Candle)
<1>1. CASE m = 0
  BY <1>1 DEF Candles
<1>2. CASE m # 0
  <2> DEFINE n == BarsPer(interval)
             last == LastBar(m) \div n
             size == Min({CandleLimit, last + 1})
  <2>1. n \in {1, 2}
    BY DEF BarsPer, Intervals
  <2>2. last \in Nat
    BY <2>1, <1>2, LastBarOf
  <2>3. size \in Nat /\ size <= last + 1
    BY <2>2, MinOfTwo, Bounds
  <2> HIDE DEF n, last, size
  <2>4. ASSUME NEW k \in 1 .. size
        PROVE  CandleOf(interval, (last - size + k) * n, m) \in Candle
    <3>1. last - size + k \in Nat
      BY <2>2, <2>3
    <3>2. (last - size + k) * n \in Nat
      BY <3>1, <2>1
    <3> QED
      BY <3>2, CandleSort
  <2>5. [k \in 1 .. size |-> CandleOf(interval, (last - size + k) * n, m)] \in Seq(Candle)
    BY <2>4, <2>3
  <2> QED
    BY <2>5, <1>2 DEF Candles, n, last, size
<1> QED
  BY <1>1, <1>2

LEMMA PayloadSort ==
    ASSUME NEW interval \in Intervals, NEW m \in Nat
    PROVE  Payload(interval, m) \in Data
BY CandlesSort DEF Payload, Data

\* An answer holds the newest candles of the moment it was read at, as many as
\* a payload may hold.
LEMMA CandlesAreTheNewest ==
    ASSUME NEW m \in Nat \ {0}
    PROVE  \E size \in 1 .. LastBar(m) + 1 :
              /\ size <= CandleLimit /\ (size = CandleLimit \/ size = LastBar(m) + 1)
              /\ Candles("1m", m) = Newest(size, m)
<1> DEFINE last == LastBar(m)
           size == Min({CandleLimit, last + 1})
<1>1. last \in Nat /\ last \div 1 = last
  BY LastBarOf
<1>2. size \in 1 .. last + 1 /\ size <= CandleLimit /\ (size = CandleLimit \/ size = last + 1)
  BY <1>1, MinOfTwo, Bounds
<1>3. Candles("1m", m) = [k \in 1 .. size |-> CandleOf("1m", (last - size + k) * 1, m)]
  BY <1>1 DEF Candles, BarsPer
<1>4. ASSUME NEW k \in 1 .. size
      PROVE  (last - size + k) * 1 = last - size + k
  BY <1>1, <1>2
<1>5. Candles("1m", m) = Newest(size, m)
  BY <1>3, <1>4 DEF Newest
<1> QED
  BY <1>2, <1>5

LEMMA AnswersAreExact ==
    ASSUME NEW m \in Nat
    PROVE  Exact(Candles("1m", m), m)
<1>1. CASE m = 0
  BY <1>1 DEF Candles, Exact
<1>2. CASE m # 0
  BY <1>2, CandlesAreTheNewest DEF Exact
<1> QED
  BY <1>1, <1>2

LEMMA MergeSort ==
    ASSUME NEW list \in Seq(Candle), NEW candle \in Candle
    PROVE  MergeKline(list, candle) \in Seq(Candle)
BY DEF MergeKline

LEMMA SameSequence ==
    ASSUME NEW n \in Nat, NEW m, NEW list \in Seq(Candle), Len(list) = n,
           \A k \in 1 .. n : list[k] = Newest(n, m)[k]
    PROVE  list = Newest(n, m)
BY DEF Newest

\* An event of the bar in progress, or of the next one when none is, keeps the chart
\* exact.
LEMMA MergeIsExact ==
    ASSUME NEW s \in Nat, NEW e \in Nat \ {0}, Continues(s, e),
           NEW chart, Exact(chart, s)
    PROVE  Exact(MergeKline(chart, CandleOf("1m", LastBar(e), e)), e)
<1> DEFINE new == CandleOf("1m", LastBar(e), e)
<1>1. LastBar(e) \in Nat /\ (e = 2 * LastBar(e) + 1 \/ e = 2 * LastBar(e) + 2)
  BY LastBarOf
<1>2. new = [openTime |-> LastBar(e), at |-> e]
  BY <1>1, MinuteCandle
<1>5. s <= e /\ e <= 2 * (s \div 2 + 1)
  BY DEF Continues
<1>3. CASE s = 0
  <2>1. LastBar(e) = 0
    <3>1. s \div 2 = 0
      BY <1>3
    <3> QED
      BY <3>1, <1>1, <1>5
  <2>2. MergeKline(chart, new) = <<new>>
    BY <1>3 DEF MergeKline, Exact
  <2>3. <<new>> = Newest(1, e)
    BY <2>1 DEF Newest
  <2> QED
    BY <2>1, <2>2, <2>3, <1>3, Bounds DEF Exact
<1>4. CASE s # 0
  <2>1. LastBar(s) \in Nat /\ (s = 2 * LastBar(s) + 1 \/ s = 2 * LastBar(s) + 2)
    BY <1>4, LastBarOf
  <2>8. e = s \/ e = s + 1 \/ (e = s + 2 /\ s = 2 * LastBar(s) + 2)
    BY <2>1, <1>5
  <2>2. PICK n \in 1 .. LastBar(s) + 1 : n <= CandleLimit /\ chart = Newest(n, s)
    BY <1>4 DEF Exact
  <2>3. n \in Nat
    BY <2>1
  <2>4. /\ chart \in Seq(Candle) /\ Len(chart) = n /\ chart # <<>>
        /\ \A k \in 1 .. n : chart[k] = CandleOf("1m", LastBar(s) - n + k, s)
    <3>1. ASSUME NEW k \in 1 .. n PROVE CandleOf("1m", LastBar(s) - n + k, s) \in Candle
      <4>1. LastBar(s) - n + k \in Nat
        BY <2>1
      <4> QED
        BY <4>1, CandleSort DEF Intervals
    <3>2. Newest(n, s) \in Seq(Candle) /\ Len(Newest(n, s)) = n
      BY <3>1, <2>1 DEF Newest
    <3>3. \A k \in 1 .. n : Newest(n, s)[k] = CandleOf("1m", LastBar(s) - n + k, s)
      BY DEF Newest
    <3> QED
      BY <3>2, <3>3, <2>1, <2>2
  <2>5. Last(chart).openTime = LastBar(s)
    <3>1. Last(chart) = CandleOf("1m", LastBar(s), s)
      BY <2>1, <2>4 DEF Last
    <3> QED
      BY <3>1 DEF CandleOf
  <2>6. CASE LastBar(e) = LastBar(s)
    <3>1. MergeKline(chart, new) = [chart EXCEPT ![n] = new]
      BY <2>6, <2>5, <2>4, <1>2 DEF MergeKline
    <3>2. ASSUME NEW k \in 1 .. n
          PROVE  [chart EXCEPT ![n] = new][k] = CandleOf("1m", LastBar(e) - n + k, e)
      <4>1. CASE k = n
        BY <4>1, <2>4, <1>1
      <4>2. CASE k < n
        <5> DEFINE o == LastBar(s) - n + k
        <5>1. o \in Nat /\ 2 * o + 2 <= s /\ 2 * o + 2 <= e
          BY <4>2, <2>1, <1>5
        <5>2. CandleOf("1m", o, s) = CandleOf("1m", o, e)
          <6> HIDE DEF o
          <6> QED
            BY <5>1, FinishedCandle
        <5> QED
          BY <5>2, <4>2, <2>4, <2>6
      <4> QED
        BY <4>1, <4>2
    <3>3. [chart EXCEPT ![n] = new] = Newest(n, e)
      BY <3>2, <2>2 DEF Newest
    <3> QED
      BY <3>1, <3>3, <2>6, <2>2 DEF Exact
  <2>7. CASE LastBar(e) # LastBar(s)
    <3>1. s <= e /\ LastBar(e) = LastBar(s) + 1 /\ s = 2 * LastBar(s) + 2
      BY <2>7, <2>8, <2>1, <1>1
    <3>2. MergeKline(chart, new) = Tail(Append(chart, new))
      BY <2>7, <2>5, <2>4, <1>2 DEF MergeKline
    <3>3. new \in Candle
      BY <1>2, <1>1 DEF Candle
    <3>4. Len(Tail(Append(chart, new))) = n /\ Tail(Append(chart, new)) \in Seq(Candle)
      BY <3>3, <2>4
    <3>5. ASSUME NEW k \in 1 .. n
          PROVE  Tail(Append(chart, new))[k] = CandleOf("1m", LastBar(e) - n + k, e)
      <4>1. Tail(Append(chart, new))[k] = Append(chart, new)[k + 1]
        BY <3>3, <2>4
      <4>2. CASE k = n
        BY <4>2, <4>1, <3>3, <2>4, <1>1
      <4>3. CASE k < n
        <5> DEFINE o == LastBar(s) - n + (k + 1)
        <5>1. o \in Nat /\ 2 * o + 2 <= s /\ 2 * o + 2 <= e
          BY <4>3, <3>1, <2>1
        <5>2. CandleOf("1m", o, s) = CandleOf("1m", o, e)
          <6> HIDE DEF o
          <6> QED
            BY <5>1, FinishedCandle
        <5>3. o = LastBar(e) - n + k
          BY <3>1, <2>1
        <5>4. k + 1 \in 1 .. n
          BY <4>3
        <5>5. Append(chart, new)[k + 1] = chart[k + 1]
          BY <5>4, <3>3, <2>4
        <5>6. chart[k + 1] = CandleOf("1m", o, s)
          BY <5>4, <2>4
        <5> QED
          BY <5>2, <5>3, <5>5, <5>6, <4>1
      <4>4. k = n \/ k < n
        BY <2>3
      <4> QED
        BY <4>2, <4>3, <4>4, Zenon
    <3>6. Tail(Append(chart, new)) = Newest(n, e)
      <4> DEFINE merged == Tail(Append(chart, new))
      <4>1. merged \in Seq(Candle) /\ Len(merged) = n
        BY <3>4
      <4>2. \A k \in 1 .. n : merged[k] = Newest(n, e)[k]
        BY <3>5 DEF Newest
      <4> HIDE DEF merged
      <4>3. merged = Newest(n, e)
        BY <4>1, <4>2, <2>3, SameSequence
      <4> QED
        BY <4>3 DEF merged
    <3>7. n \in 1 .. LastBar(e) + 1
      BY <3>1, <2>1
    <3>8. Exact(Newest(n, e), e)
      BY <3>7, <3>1, <2>2 DEF Exact
    <3> QED
      BY <3>2, <3>6, <3>8
  <2> QED
    BY <2>6, <2>7
<1> QED
  BY <1>3, <1>4

-------------------------------------------------------------------------------
(***************************************************************************)
(* The fetches                                                             *)
(***************************************************************************)
\* A fetch more is under way, of what the tables show from now on.
Grown(kind, interval) ==
    \E i \in (1 .. MaxRequests) \ Pending :
        /\ requests' \in [1 .. MaxRequests -> Request]
        /\ Pending' = Pending \cup {i}
        /\ requests'[i] = [kind |-> kind, interval |-> interval, from |-> market]
        /\ \A r \in (1 .. MaxRequests) \ {i} : requests'[r] = requests[r]

\* A fetch has ended.
Shrunk(i) ==
    /\ requests' \in [1 .. MaxRequests -> Request]
    /\ Pending' = Pending \ {i}
    /\ requests'[i] = NoRequest
    /\ \A r \in (1 .. MaxRequests) \ {i} : requests'[r] = requests[r]

LEMMA SmallestOf ==
    ASSUME NEW S \in SUBSET Nat, S # {}
    PROVE  Min(S) \in S
<1>1. PICK x \in S : \A y \in S : ~(<<y, x>> \in OpToRel(<, Nat))
  BY NatLessThanWellFounded, WFMin
<1>2. \A y \in S : ~(y < x)
  BY <1>1 DEF OpToRel
<1>3. \A y \in S : x <= y
  BY <1>2
<1> QED
  BY <1>3 DEF Min

LEMMA BeginGrows ==
    ASSUME Sorts, NEW kind \in {"resync", "switch"}, NEW interval \in Intervals,
           Begin(kind, interval)
    PROVE  Grown(kind, interval)
<1> DEFINE free == (1 .. MaxRequests) \ Pending
           i    == Min(free)
           new  == [kind |-> kind, interval |-> interval, from |-> market]
<1>1. free # {} /\ requests' = [requests EXCEPT ![i] = new]
  BY DEF Begin
<1>2. i \in free
  <2> HIDE DEF free
  <2>1. free \in SUBSET Nat
    BY DEF free
  <2> QED
    BY <2>1, <1>1, SmallestOf
<1>3. new \in Request
  BY DEF Sorts, Request
<1>4. requests \in [1 .. MaxRequests -> Request]
  BY DEF Sorts
<1> HIDE DEF i, new
<1>5. i \in 1 .. MaxRequests /\ i \notin Pending
  BY <1>2
<1>6. requests' \in [1 .. MaxRequests -> Request]
  BY <1>1, <1>3, <1>4, <1>5
<1>7. /\ requests'[i] = new
      /\ \A r \in (1 .. MaxRequests) \ {i} : requests'[r] = requests[r]
  BY <1>1, <1>4, <1>5
<1>8. new.kind # "none"
  BY DEF new
<1>9. Pending' = Pending \cup {i}
  BY <1>5, <1>7, <1>8 DEF Pending
<1> QED
  BY <1>5, <1>6, <1>7, <1>9 DEF Grown, new

LEMMA EndShrinks ==
    ASSUME Sorts, NEW i \in Pending, requests' = [requests EXCEPT ![i] = NoRequest]
    PROVE  Shrunk(i)
<1>1. i \in 1 .. MaxRequests /\ requests \in [1 .. MaxRequests -> Request]
  BY DEF Pending, Sorts
<1>2. NoRequest \in Request /\ NoRequest.kind = "none"
  BY DEF NoRequest, Request, Intervals
<1>3. /\ requests' \in [1 .. MaxRequests -> Request] /\ requests'[i] = NoRequest
      /\ \A r \in (1 .. MaxRequests) \ {i} : requests'[r] = requests[r]
  BY <1>1, <1>2
<1>4. Pending' = Pending \ {i}
  BY <1>1, <1>2, <1>3 DEF Pending
<1> QED
  BY <1>3, <1>4 DEF Shrunk

-------------------------------------------------------------------------------
(***************************************************************************)
(* The server                                                              *)
(***************************************************************************)
ServerStep ==
    \/ StoreKline \/ ListenBreaks \/ ListenAgain
    \/ \E m \in publishing : PublishKline(m) \/ FailPublish(m)
    \/ \E kind \in {"ticker", "ops", "pipeline"} : Push(kind)

LEMMA LostIsMissed ==
    ASSUME Sorts, NEW m \in publishing, Lose(m)
    PROVE  /\ missed' \in {None} \cup 0 .. market /\ missed' >= missed
           /\ stream = "open" => m <= seen \/ m <= missed'
<1>1. m \in 1 .. market /\ missed \in Int /\ seen \in Int
  BY DEF Sorts, None
<1>2. Max({missed, m}) = IF missed >= m THEN missed ELSE m
  BY <1>1, MaxOfTwo
<1> QED
  BY <1>1, <1>2 DEF Lose, Sorts, None

LEMMA ServerSteps ==
    ASSUME Sorts, ServerStep
    PROVE  /\ UNCHANGED <<stream, page, requests, quiet, seen>>
           /\ missed' \in {None} \cup 0 .. market /\ missed' >= missed
           /\ market' \in Nat /\ market' >= market
<1>1. market \in Nat /\ missed \in {None} \cup 0 .. market /\ missed \in Int
  BY DEF Sorts, None
<1>2. CASE StoreKline
  BY <1>1, <1>2 DEF StoreKline
<1>3. CASE ListenBreaks \/ ListenAgain
  BY <1>1, <1>3 DEF ListenBreaks, ListenAgain
<1>4. ASSUME NEW m \in publishing, PublishKline(m)
      PROVE  /\ UNCHANGED <<stream, page, requests, quiet, seen, market>>
             /\ missed' \in {None} \cup 0 .. market /\ missed' >= missed
  BY <1>1, <1>4, LostIsMissed DEF PublishKline
<1>5. ASSUME NEW m \in publishing, FailPublish(m)
      PROVE  /\ UNCHANGED <<stream, page, requests, quiet, seen, market>>
             /\ missed' \in {None} \cup 0 .. market /\ missed' >= missed
  BY <1>5, LostIsMissed DEF FailPublish
<1>6. CASE \E kind \in {"ticker", "ops", "pipeline"} : Push(kind)
  BY <1>1, <1>6 DEF Push
<1> QED
  BY <1>1, <1>2, <1>3, <1>4, <1>5, <1>6 DEF ServerStep

-------------------------------------------------------------------------------
(***************************************************************************)
(* The fetches of a step                                                   *)
(***************************************************************************)
\* What an action may do to the fetches.
Fetching ==
    \/ UNCHANGED requests
    \/ Grown("resync", page.interval)
    \/ \E interval \in Intervals : Grown("switch", interval)
    \/ \E i \in Pending : Shrunk(i)
    \/ requests' = [r \in 1 .. MaxRequests |-> NoRequest]

LEMMA FetchesOfAStep ==
    ASSUME Sorts, [Next]_vars
    PROVE  Fetching
<1>1. page.interval \in Intervals
  BY DEF Sorts, Page
<1>2. ASSUME Begin("resync", page.interval) PROVE Fetching
  BY <1>1, <1>2, BeginGrows DEF Fetching
<1>3. CASE OnOpen
  BY <1>2, <1>3 DEF OnOpen, Reopen, Fetching
<1>4. CASE Tick
  BY <1>2, <1>4 DEF Tick, Fetching
<1>5. ASSUME NEW next \in Intervals, SetInterval(next) PROVE Fetching
  BY <1>5, BeginGrows DEF SetInterval, Fetching
<1>6. ASSUME NEW r \in 1 .. MaxRequests, Answer(r) \/ Fail(r) PROVE Fetching
  <2>1. r \in Pending /\ requests' = [requests EXCEPT ![r] = NoRequest]
    BY <1>6 DEF Answer, Fail
  <2>2. Shrunk(r)
    BY <2>1, EndShrinks
  <2> QED
    BY <2>1, <2>2 DEF Fetching
<1>7. CASE DeliverNotice
  BY <1>7 DEF DeliverNotice, Fetching
<1>8. CASE ServerStep
  BY <1>8, ServerSteps DEF Fetching
<1>9. CASE Stall \/ Break \/ Deliver \/ UNCHANGED vars
  BY <1>9 DEF Stall, Break, Deliver, vars, Fetching
<1> QED
  BY <1>3, <1>4, <1>5, <1>6, <1>7, <1>8, <1>9 DEF Next, ServerStep, Intervals

\* An answer to r, read at moment m, and what the page makes of it.
ResyncShown(req, m) ==
    req.kind = "resync" /\ page' = [page EXCEPT !.data = Payload(req.interval, m), !.price = None]

SwitchShown(req, m) ==
    req.kind = "switch" /\ page' = [page EXCEPT !.data = Payload(req.interval, m), !.loading = FALSE]

Caught(req, m) ==
    missed' = IF m >= seen /\ req.interval = page.interval
              THEN IF m >= missed THEN None ELSE missed
              ELSE IF missed >= seen THEN missed ELSE seen

Answered(r, m) ==
    /\ r \in Pending /\ m \in requests[r].from .. market
    /\ Shrunk(r)
    /\ ResyncShown(requests[r], m) \/ SwitchShown(requests[r], m)
    /\ Caught(requests[r], m)
    /\ seen' = IF m >= seen THEN m ELSE seen
    /\ UNCHANGED <<market, publishing, listening, stream, queue, quiet>>

LEMMA AnsweredSorts ==
    ASSUME Sorts, NEW r, NEW m, Answered(r, m)
    PROVE  m \in Nat /\ m <= market /\ requests[r] \in Request /\ requests[r].interval \in Intervals
<1>1. r \in 1 .. MaxRequests /\ m \in requests[r].from .. market
  BY DEF Answered, Pending
<1>2. requests[r] \in Request /\ market \in Nat
  BY <1>1 DEF Sorts
<1> QED
  BY <1>1, <1>2 DEF Request

LEMMA AnswerReads ==
    ASSUME Sorts, NEW r \in 1 .. MaxRequests, Answer(r)
    PROVE  \E m : Answered(r, m)
<1> DEFINE req == requests[r]
<1>1. r \in Pending /\ requests' = [requests EXCEPT ![r] = NoRequest]
  BY DEF Answer
<1>2. Shrunk(r)
  BY <1>1, EndShrinks
<1>3. PICK m \in req.from .. market :
        /\ \/ req.kind = "resync" /\ page' = Resynced(page, Payload(req.interval, m))
           \/ req.kind = "switch" /\ page' = Switched(page, Payload(req.interval, m))
        /\ missed' = CASE m < seen \/ req.interval # page.interval -> Max({missed, seen})
                       [] m >= seen /\ req.interval = page.interval
                                    -> IF m >= missed THEN None ELSE missed
        /\ seen' = Max({seen, m})
  BY DEF Answer
<1>4. m \in Int /\ seen \in Int /\ missed \in Int
  BY DEF Sorts, None
<1>5. /\ Max({missed, seen}) = IF missed >= seen THEN missed ELSE seen
      /\ Max({seen, m}) = IF seen >= m THEN seen ELSE m
  BY <1>4, MaxOfTwo
<1>6. seen' = IF m >= seen THEN m ELSE seen
  BY <1>3, <1>4, <1>5
<1>7. Caught(req, m)
  BY <1>3, <1>4, <1>5 DEF Caught
<1>8. ResyncShown(req, m) \/ SwitchShown(req, m)
  BY <1>3 DEF ResyncShown, SwitchShown, Resynced, Switched
<1>9. UNCHANGED <<market, publishing, listening, stream, queue, quiet>>
  BY DEF Answer
<1> QED
  BY <1>1, <1>2, <1>3, <1>6, <1>7, <1>8, <1>9 DEF Answered

-------------------------------------------------------------------------------
(***************************************************************************)
(* The sorts                                                               *)
(***************************************************************************)
LEMMA RequestSorts ==
    ASSUME Sorts, Fetching, market' \in Nat, market' >= market
    PROVE  /\ requests' \in [1 .. MaxRequests -> Request]
           /\ \A r \in 1 .. MaxRequests : requests'[r].from <= market'
<1>1. /\ requests \in [1 .. MaxRequests -> Request] /\ market \in Nat
      /\ \A r \in 1 .. MaxRequests : requests[r].from <= market /\ requests[r].from \in Nat
  BY DEF Sorts, Request
<1>2. NoRequest \in Request /\ NoRequest.from = 0
  BY DEF NoRequest, Request, Intervals
<1>3. CASE UNCHANGED requests
  BY <1>1, <1>3
<1>4. ASSUME NEW kind, NEW interval, Grown(kind, interval)
      PROVE  /\ requests' \in [1 .. MaxRequests -> Request]
             /\ \A r \in 1 .. MaxRequests : requests'[r].from <= market'
  BY <1>1, <1>4 DEF Grown
<1>5. ASSUME NEW i \in Pending, Shrunk(i)
      PROVE  /\ requests' \in [1 .. MaxRequests -> Request]
             /\ \A r \in 1 .. MaxRequests : requests'[r].from <= market'
  BY <1>1, <1>2, <1>5 DEF Shrunk
<1>6. CASE requests' = [r \in 1 .. MaxRequests |-> NoRequest]
  BY <1>2, <1>6
<1> QED
  BY <1>3, <1>4, <1>5, <1>6 DEF Fetching

LEMMA SignalSort ==
    ASSUME NEW p \in Page, NEW kind
    PROVE  Signal(p, kind) \in Page
<1>1. 0 \in {None} \cup 0 .. StallAfter
  BY Bounds
<1>2. [p EXCEPT !.silence = 0] \in Page
  BY <1>1 DEF Page
<1>3. [[p EXCEPT !.silence = 0] EXCEPT !.errored = FALSE] \in Page
  BY <1>2 DEF Page
<1> QED
  BY <1>3 DEF Signal

LEMMA LoadedSort ==
    ASSUME NEW m \in Nat
    PROVE  Loaded(m) \in Page
BY PayloadSort, Bounds DEF Loaded, Page, Intervals

LEMMA PhaseSort ==
    ASSUME NEW silence, NEW errored
    PROVE  DeriveStreamPhase(silence, errored)
               \in {"connecting", "live", "stalled", "reconnecting"}
BY DEF DeriveStreamPhase

LEMMA SortsAtFirst ==
    ASSUME Init
    PROVE  Sorts
<1>1. market \in Nat /\ FirstMoment \in Nat
  BY Bounds DEF Init
<1>2. page \in Page
  BY <1>1, LoadedSort DEF Init
<1>3. NoRequest \in Request /\ NoRequest.from = 0
  BY DEF NoRequest, Request, Intervals
<1> QED
  BY <1>1, <1>2, <1>3, Bounds DEF Init, Sorts

\* A candle was merged: it belongs to the chart, or something is missed.
MergedSeen(e) ==
    /\ seen' \in {seen, e} /\ seen' >= seen /\ seen' >= e
    /\ \/ Continues(seen, e) /\ seen' = e /\ missed' = missed
       \/ missed' \in {missed, seen, e} /\ missed' >= missed /\ missed' >= seen'

LEMMA MergedIs ==
    ASSUME NEW e \in Int, seen \in Int, missed \in Int, Merged(e)
    PROVE  MergedSeen(e)
<1>1. Max({seen, e}) = IF seen >= e THEN seen ELSE e
  BY MaxOfTwo
<1>2. /\ Max({missed, seen, e}) \in {missed, seen, e}
      /\ \A x \in {missed, seen, e} : Max({missed, seen, e}) >= x
  BY DEF Max
<1>3. CASE Continues(seen, e)
  BY <1>1, <1>3 DEF Merged, MergedSeen, Continues
<1>4. CASE ~Continues(seen, e)
  BY <1>1, <1>2, <1>4 DEF Merged, MergedSeen
<1> QED
  BY <1>3, <1>4

LEMMA SortsKept ==
    ASSUME Sorts, [Next]_vars
    PROVE  Sorts'
<1>1. Fetching
  BY FetchesOfAStep
<1>2. /\ market \in Nat /\ page \in Page /\ queue \in Seq(Event) /\ quiet \in 0 .. StallAfter + 1
      /\ seen \in 0 .. market /\ missed \in {None} \cup 0 .. market
      /\ publishing \subseteq 1 .. market /\ listening \in BOOLEAN
      /\ stream \in {"connecting", "open", "closed", "buffered"}
      /\ \A k \in 1 .. Len(queue) : queue[k].kind = "kline" => queue[k].at \in 1 .. market
  BY DEF Sorts
<1>3. CASE ServerStep
  <2>1. /\ UNCHANGED <<stream, page, quiet, seen>> /\ market' \in Nat /\ market' >= market
        /\ missed' \in {None} \cup 0 .. market
    BY <1>3, ServerSteps
  <2>2. /\ queue' \in Seq(Event)
        /\ \A k \in 1 .. Len(queue') : queue'[k].kind = "kline" => queue'[k].at \in 1 .. market'
    <3>1. ASSUME NEW e \in Event, e.kind = "kline" => e.at \in 1 .. market, queue' = Append(queue, e)
          PROVE  /\ queue' \in Seq(Event)
                 /\ \A k \in 1 .. Len(queue') :
                       queue'[k].kind = "kline" => queue'[k].at \in 1 .. market'
      BY <3>1, <2>1, <1>2
    <3>2. CASE queue' = queue
      BY <3>2, <2>1, <1>2
    <3>3. ASSUME NEW m \in publishing, PublishKline(m), queue' # queue
          PROVE  /\ queue' \in Seq(Event)
                 /\ \A k \in 1 .. Len(queue') :
                       queue'[k].kind = "kline" => queue'[k].at \in 1 .. market'
      <4>1. [kind |-> "kline", at |-> m] \in Event /\ m \in 1 .. market
        BY <1>2 DEF Event
      <4>2. queue' = Append(queue, [kind |-> "kline", at |-> m])
        BY <3>3 DEF PublishKline, Send
      <4> QED
        BY <4>1, <4>2, <3>1
    <3>4. ASSUME NEW kind \in {"ticker", "ops", "pipeline"}, Push(kind)
          PROVE  /\ queue' \in Seq(Event)
                 /\ \A k \in 1 .. Len(queue') :
                       queue'[k].kind = "kline" => queue'[k].at \in 1 .. market'
      <4>1. [kind |-> kind, at |-> IF kind = "ticker" THEN market ELSE 0] \in Event
        BY <1>2 DEF Event
      <4>2. queue' = Append(queue, [kind |-> kind, at |-> IF kind = "ticker" THEN market ELSE 0])
        BY <3>4 DEF Push, Send
      <4> QED
        BY <4>1, <4>2, <3>1
    <3>5. CASE StoreKline \/ ListenBreaks \/ ListenAgain \/ \E m \in publishing : FailPublish(m)
      BY <3>5, <3>2 DEF StoreKline, ListenBreaks, ListenAgain, FailPublish
    <3> QED
      BY <3>2, <3>3, <3>4, <3>5, <1>3 DEF ServerStep
  <2>3. publishing' \subseteq 1 .. market' /\ listening' \in BOOLEAN
    <3>1. CASE StoreKline
      BY <3>1, <1>2 DEF StoreKline
    <3>2. CASE ListenBreaks \/ ListenAgain
      BY <3>2, <1>2 DEF ListenBreaks, ListenAgain
    <3>3. CASE \E m \in publishing : PublishKline(m) \/ FailPublish(m)
      BY <3>3, <1>2 DEF PublishKline, FailPublish
    <3>4. CASE \E kind \in {"ticker", "ops", "pipeline"} : Push(kind)
      BY <3>4, <1>2 DEF Push
    <3> QED
      BY <1>3, <3>1, <3>2, <3>3, <3>4 DEF ServerStep
  <2>4. seen' \in 0 .. market' /\ missed' \in {None} \cup 0 .. market'
    BY <2>1, <1>2 DEF None
  <2> QED
    BY <2>1, <2>2, <2>3, <2>4, <1>1, <1>2, RequestSorts DEF Sorts
<1>5. CASE OnOpen
  <2>1. UNCHANGED <<market, publishing, listening, seen>> /\ quiet' = 0 /\ stream' \in {"open", "buffered"}
    BY <1>5 DEF OnOpen
  <2>2. /\ queue' \in Seq(Event)
        /\ \A k \in 1 .. Len(queue') : queue'[k].kind = "kline" => queue'[k].at \in 1 .. market'
    <3>1. [kind |-> "ops", at |-> 0] \in Event
      BY DEF Event
    <3>2. queue' = <<[kind |-> "ops", at |-> 0]>> \/ queue' = queue
      BY <1>5 DEF OnOpen
    <3>3. CASE queue' = <<[kind |-> "ops", at |-> 0]>>
      BY <3>1, <3>3
    <3>4. CASE queue' = queue
      BY <3>4, <2>1, <1>2
    <3> QED
      BY <3>2, <3>3, <3>4
  <2>3. page' \in Page
    <3>1. [page EXCEPT !.everOpened = TRUE] \in Page
      BY <1>2 DEF Page
    <3> QED
      BY <3>1, <1>5, SignalSort DEF OnOpen
  <2>4. missed' \in {None} \cup 0 .. market'
    BY <2>1, <1>2, <1>5 DEF OnOpen
  <2>5. /\ market' \in Nat /\ seen' \in 0 .. market' /\ quiet' \in 0 .. StallAfter + 1
        /\ publishing' \subseteq 1 .. market' /\ listening' \in BOOLEAN
    BY <2>1, <1>2, Bounds
  <2>6. /\ requests' \in [1 .. MaxRequests -> Request]
        /\ \A r \in 1 .. MaxRequests : requests'[r].from <= market'
    BY <2>1, <1>1, <1>2, RequestSorts
  <2> QED
    BY <2>1, <2>2, <2>3, <2>4, <2>5, <2>6 DEF Sorts
<1>6. CASE Stall
  BY <1>1, <1>2, <1>6, RequestSorts DEF Stall, Sorts
<1>7. CASE Break
  <2>1. page' \in Page
    BY <1>2, <1>7 DEF Break, OnError, Page
  <2> QED
    BY <2>1, <1>1, <1>2, <1>7, Bounds, RequestSorts DEF Break, Sorts
<1>8. CASE Deliver
  <2> DEFINE e == Head(queue)
             p == Signal(page, e.kind)
  <2>1. UNCHANGED <<market, publishing, listening, stream>> /\ quiet' = 0 /\ queue # <<>> /\ queue' = Tail(queue)
    BY <1>8 DEF Deliver
  <2>2. /\ queue' \in Seq(Event) /\ e \in Event
        /\ \A k \in 1 .. Len(queue') : queue'[k].kind = "kline" => queue'[k].at \in 1 .. market'
        /\ e.kind = "kline" => e.at \in 1 .. market
    BY <2>1, <1>2
  <2>3. p \in Page
    BY <1>2, SignalSort
  <2>4. CASE page' = p /\ UNCHANGED <<seen, missed>>
    BY <2>4, <2>1, <2>2, <2>3, <1>1, <1>2, Bounds, RequestSorts DEF Sorts
  <2>5. CASE page' = [p EXCEPT !.price = e.at] /\ UNCHANGED <<seen, missed>>
    <3>1. page' \in Page
      BY <2>2, <2>3, <2>5 DEF Page, Event
    <3> QED
      BY <3>1, <2>5, <2>1, <2>2, <1>1, <1>2, Bounds, RequestSorts DEF Sorts
  <2>6. CASE /\ e.kind = "kline"
             /\ page' = [p EXCEPT !.data.candles =
                            MergeKline(@, CandleOf("1m", LastBar(e.at), e.at))]
             /\ Merged(e.at)
    <3>1. CandleOf("1m", LastBar(e.at), e.at) \in Candle
      BY <2>6, <2>2, LastBarOf, CandleSort DEF Intervals
    <3>2. MergeKline(p.data.candles, CandleOf("1m", LastBar(e.at), e.at)) \in Seq(Candle)
      BY <3>1, <2>3, MergeSort DEF Page, Data
    <3>3. page' \in Page
      <4> HIDE DEF p, e
      <4> QED
        BY <3>2, <2>3, <2>6 DEF Page, Data
    <3>4. seen' \in 0 .. market' /\ missed' \in {None} \cup 0 .. market'
      <4> HIDE DEF e
      <4>1. seen \in Int /\ e.at \in Int /\ missed \in Int
        BY <2>6, <2>2, <1>2 DEF None
      <4>2. MergedSeen(e.at)
        BY <4>1, <2>6, MergedIs
      <4> QED
        BY <4>1, <4>2, <2>6, <2>1, <2>2, <1>2 DEF MergedSeen, None
    <3> QED
      BY <3>3, <3>4, <2>1, <2>2, <1>1, <1>2, Bounds, RequestSorts DEF Sorts
  <2> QED
    BY <2>4, <2>5, <2>6, <1>8 DEF Deliver
<1>9. CASE DeliverNotice
  <2>1. page' \in Page
    <3>1. Loaded(0) \in Page
      BY LoadedSort
    <3> QED
      BY <3>1, <1>9 DEF DeliverNotice, Page
  <2> QED
    BY <2>1, <1>1, <1>2, <1>9, RequestSorts DEF DeliverNotice, Sorts
<1>10. CASE Tick
  <2>1. UNCHANGED <<market, publishing, listening, stream, queue, seen, missed>>
    BY <1>10 DEF Tick
  <2>2. quiet' \in 0 .. StallAfter + 1
    <3>1. Min({quiet + 1, StallAfter + 1}) =
              IF quiet + 1 <= StallAfter + 1 THEN quiet + 1 ELSE StallAfter + 1
      BY <1>2, Bounds, MinOfTwo
    <3>2. quiet' = Min({quiet + 1, StallAfter + 1})
      BY <1>10 DEF Tick
    <3> QED
      BY <3>1, <3>2, <1>2, Bounds
  <2>3. PICK silence \in {None} \cup 0 .. StallAfter, sincePoll \in 0 .. PollEvery,
             phase \in {"connecting", "live", "stalled", "reconnecting"} :
           page' = [page EXCEPT !.silence = silence, !.connection = phase, !.sincePoll = sincePoll]
    <3> DEFINE silence   == IF page.silence = None THEN None ELSE Min({page.silence + 1, StallAfter})
               sincePoll == Min({page.sincePoll + 1, PollEvery})
               phase     == DeriveStreamPhase(silence, page.errored)
               polls     == ShouldPoll(phase) /\ sincePoll >= PollEvery
    <3>1. page.silence \in {None} \cup 0 .. StallAfter /\ page.sincePoll \in 0 .. PollEvery
      BY <1>2 DEF Page
    <3>2. silence \in {None} \cup 0 .. StallAfter
      BY <3>1, Bounds, MinOfTwo
    <3>3. (IF polls THEN 0 ELSE sincePoll) \in 0 .. PollEvery
      <4>1. sincePoll \in 0 .. PollEvery
        BY <3>1, Bounds, MinOfTwo
      <4> QED
        BY <4>1, Bounds
    <3>4. phase \in {"connecting", "live", "stalled", "reconnecting"}
      BY PhaseSort
    <3>5. page' = [page EXCEPT !.silence = silence, !.connection = phase,
                               !.sincePoll = IF polls THEN 0 ELSE sincePoll]
      BY <1>10 DEF Tick
    <3> HIDE DEF silence, sincePoll, phase, polls
    <3> QED
      BY <3>2, <3>3, <3>4, <3>5
  <2>4. page' \in Page
    BY <2>3, <1>2 DEF Page
  <2> QED
    BY <2>1, <2>2, <2>4, <1>1, <1>2, RequestSorts DEF Sorts
<1>11. ASSUME NEW next \in Intervals, SetInterval(next) PROVE Sorts'
  <2>1. page' \in Page
    BY <1>2, <1>11 DEF SetInterval, Page
  <2> QED
    BY <2>1, <1>1, <1>2, <1>11, RequestSorts DEF SetInterval, Sorts
<1>12. ASSUME NEW r \in 1 .. MaxRequests, Answer(r) PROVE Sorts'
  <2>1. PICK m : Answered(r, m)
    BY <1>12, AnswerReads
  <2>2. m \in Nat /\ m <= market /\ requests[r].interval \in Intervals
    BY <2>1, AnsweredSorts
  <2>3. page' \in Page
    <3>1. Payload(requests[r].interval, m) \in Data
      BY <2>2, PayloadSort
    <3>2. [page EXCEPT !.data = Payload(requests[r].interval, m), !.price = None] \in Page
      BY <3>1, <1>2 DEF Page
    <3>3. [page EXCEPT !.data = Payload(requests[r].interval, m), !.loading = FALSE] \in Page
      BY <3>1, <1>2 DEF Page
    <3> QED
      BY <3>2, <3>3, <2>1 DEF Answered, ResyncShown, SwitchShown
  <2>4. seen' \in 0 .. market' /\ missed' \in {None} \cup 0 .. market'
    BY <2>1, <2>2, <1>2 DEF Answered, Caught, None
  <2> QED
    BY <2>1, <2>3, <2>4, <1>1, <1>2, RequestSorts DEF Answered, Sorts
<1>13. ASSUME NEW r \in 1 .. MaxRequests, Fail(r) PROVE Sorts'
  <2>1. page' \in Page
    BY <1>2, <1>13 DEF Fail, Page
  <2> QED
    BY <2>1, <1>1, <1>2, <1>13, RequestSorts DEF Fail, Sorts
<1>14. CASE UNCHANGED vars
  BY <1>2, <1>14 DEF vars, Sorts
<1> QED
  BY <1>3, <1>5, <1>6, <1>7, <1>8, <1>9, <1>10, <1>11, <1>12, <1>13, <1>14
  DEF Next, ServerStep, Intervals

-------------------------------------------------------------------------------
(***************************************************************************)
(* The page                                                                *)
(***************************************************************************)
\* A page that goes on: only its signs of life and what it shows may differ.
SameButFor(p, silence, errored) ==
    /\ p.shown = page.shown /\ p.interval = page.interval /\ p.loading = page.loading
    /\ p.data.interval = page.data.interval /\ p.connection = page.connection
    /\ p.silence = silence /\ p.errored = errored

LEMMA OnOpenPage ==
    ASSUME Sorts, OnOpen
    PROVE  SameButFor(page', 0, FALSE) /\ page'.data = page.data
<1>1. [page EXCEPT !.everOpened = TRUE] \in Page /\ page \in Page
  BY DEF Sorts, Page
<1>2. page' = Signal([page EXCEPT !.everOpened = TRUE], "open")
  BY DEF OnOpen
<1> QED
  BY <1>1, <1>2 DEF Signal, Page, SameButFor

\* The merge of a kline event of a page that shows 1-minute candles.
MergedInto(e) ==
    /\ e.kind = "kline" /\ page.interval = "1m"
    /\ page'.data.candles = MergeKline(page.data.candles, CandleOf("1m", LastBar(e.at), e.at))
    /\ MergedSeen(e.at)

Told(e) ==
    /\ ~(e.kind = "kline" /\ page.interval = "1m")
    /\ page'.data = page.data /\ UNCHANGED <<seen, missed>>

LEMMA DeliverPage ==
    ASSUME Sorts, Deliver
    PROVE  /\ SameButFor(page', 0, FALSE)
           /\ MergedInto(Head(queue)) \/ Told(Head(queue))
<1> DEFINE e == Head(queue)
           p == Signal(page, e.kind)
<1>1. page \in Page /\ e \in Event
  BY DEF Sorts, Deliver
<1>2. p \in Page /\ SameButFor(p, 0, FALSE) /\ p.data = page.data
  <2>1. p \in Page
    BY <1>1, SignalSort
  <2> HIDE DEF e
  <2> QED
    BY <2>1, <1>1 DEF Signal, Page, SameButFor
<1>3. CASE e.kind # "kline" /\ page' = p /\ UNCHANGED <<seen, missed>>
  BY <1>2, <1>3 DEF Told
<1>4. CASE e.kind # "kline" /\ page' = [p EXCEPT !.price = e.at] /\ UNCHANGED <<seen, missed>>
  <2> HIDE DEF p, e
  <2>1. SameButFor(page', 0, FALSE) /\ page'.data = page.data
    BY <1>2, <1>4 DEF Page, SameButFor
  <2> QED
    BY <2>1, <1>4 DEF Told, e
<1>5. CASE e.kind = "kline" /\ page.interval # "1m" /\ page' = p /\ UNCHANGED <<seen, missed>>
  BY <1>2, <1>5 DEF Told
<1>6. CASE /\ e.kind = "kline" /\ page.interval = "1m"
           /\ page' = [p EXCEPT !.data.candles =
                          MergeKline(@, CandleOf("1m", LastBar(e.at), e.at))]
           /\ Merged(e.at)
  <2> HIDE DEF p, e
  <2>1. /\ SameButFor(page', 0, FALSE)
        /\ page'.data.candles = MergeKline(page.data.candles, CandleOf("1m", LastBar(e.at), e.at))
    BY <1>2, <1>6 DEF Page, Data, SameButFor
  <2>2. seen \in Int /\ e.at \in Int /\ missed \in Int
    BY <1>1 DEF Sorts, Event, None
  <2>3. MergedSeen(e.at)
    BY <2>2, <1>6, MergedIs
  <2>4. MergedInto(e)
    BY <2>1, <2>3, <1>6 DEF MergedInto
  <2> QED
    BY <2>1, <2>4 DEF e
<1> QED
  BY <1>3, <1>4, <1>5, <1>6 DEF Deliver

\* The watchdog looks at the silence, and adds to it.
Looked(silence, phase) ==
    /\ SameButFor([page' EXCEPT !.connection = page.connection], silence, page.errored)
    /\ page'.data = page.data /\ page'.connection = phase
    /\ silence = IF page.silence = None THEN None
                 ELSE IF page.silence + 1 <= StallAfter THEN page.silence + 1 ELSE StallAfter
    /\ phase = DeriveStreamPhase(silence, page.errored)
    /\ UNCHANGED requests \/ (phase = "stalled" /\ Grown("resync", page.interval))
    /\ quiet' = IF quiet <= StallAfter THEN quiet + 1 ELSE StallAfter + 1

LEMMA TickPage ==
    ASSUME Sorts, Tick
    PROVE  \E silence, phase : Looked(silence, phase)
<1> DEFINE silence   == IF page.silence = None THEN None ELSE Min({page.silence + 1, StallAfter})
           sincePoll == Min({page.sincePoll + 1, PollEvery})
           phase     == DeriveStreamPhase(silence, page.errored)
           polls     == ShouldPoll(phase) /\ sincePoll >= PollEvery
           since     == IF polls THEN 0 ELSE sincePoll
<1>1. page \in Page /\ page.silence \in {None} \cup 0 .. StallAfter /\ quiet \in Nat
      /\ page.interval \in Intervals /\ StallAfter \in Nat
  BY Bounds DEF Sorts, Page
<1>2. silence = IF page.silence = None THEN None
                ELSE IF page.silence + 1 <= StallAfter THEN page.silence + 1 ELSE StallAfter
  BY <1>1, MinOfTwo DEF None
<1>3. quiet' = IF quiet <= StallAfter THEN quiet + 1 ELSE StallAfter + 1
  <2>1. quiet' = Min({quiet + 1, StallAfter + 1})
    BY DEF Tick
  <2> QED
    BY <2>1, <1>1, MinOfTwo
<1>4. page' = [page EXCEPT !.silence = silence, !.connection = phase, !.sincePoll = since]
  BY DEF Tick
<1>5. UNCHANGED requests \/ (phase = "stalled" /\ Grown("resync", page.interval))
  <2>1. CASE polls
    <3>1. Begin("resync", page.interval)
      BY <2>1 DEF Tick
    <3> QED
      BY <3>1, <2>1, <1>1, BeginGrows DEF ShouldPoll
  <2>2. CASE ~polls
    BY <2>2 DEF Tick
  <2> QED
    BY <2>1, <2>2
<1>6. phase = DeriveStreamPhase(silence, page.errored)
  OBVIOUS
<1> HIDE DEF silence, phase, sincePoll, polls, since
<1>7. /\ SameButFor([page' EXCEPT !.connection = page.connection], silence, page.errored)
      /\ page'.data = page.data /\ page'.connection = phase
  BY <1>1, <1>4 DEF Page, SameButFor
<1> QED
  BY <1>2, <1>3, <1>5, <1>6, <1>7 DEF Looked

LEMMA OtherPages ==
    ASSUME Sorts
    PROVE  /\ Break => /\ SameButFor(page', page.silence, TRUE) /\ page'.data = page.data
                       /\ UNCHANGED requests
           /\ \A next \in Intervals : SetInterval(next) =>
                 /\ page' = [page EXCEPT !.interval = next, !.loading = TRUE]
                 /\ ~page.loading /\ Grown("switch", next)
           /\ \A r \in 1 .. MaxRequests : Fail(r) =>
                 /\ page' = IF requests[r].kind = "switch" THEN [page EXCEPT !.loading = FALSE]
                                                          ELSE page
                 /\ r \in Pending /\ Shrunk(r) /\ missed' = market
<1>1. page \in Page
  BY DEF Sorts
<1>2. ASSUME Break
      PROVE  /\ SameButFor(page', page.silence, TRUE) /\ page'.data = page.data
             /\ UNCHANGED requests
  BY <1>1, <1>2 DEF Break, OnError, Page, SameButFor
<1>3. ASSUME NEW next \in Intervals, SetInterval(next)
      PROVE  /\ page' = [page EXCEPT !.interval = next, !.loading = TRUE]
             /\ ~page.loading /\ Grown("switch", next)
  BY <1>3, BeginGrows DEF SetInterval
<1>4. ASSUME NEW r \in 1 .. MaxRequests, Fail(r)
      PROVE  /\ page' = IF requests[r].kind = "switch" THEN [page EXCEPT !.loading = FALSE]
                                                       ELSE page
             /\ r \in Pending /\ Shrunk(r) /\ missed' = market
  BY <1>4, EndShrinks DEF Fail
<1> QED
  BY <1>2, <1>3, <1>4

LEMMA ClosingKept ==
    ASSUME Sorts, Closing, [Next]_vars
    PROVE  Closing'
<1>1. page \in Page /\ page.shown \in BOOLEAN
  BY DEF Sorts, Page
<1>2. CASE ServerStep \/ UNCHANGED vars
  <2>1. UNCHANGED <<stream, page, requests>>
    BY <1>2, ServerSteps DEF vars
  <2> QED
    BY <2>1 DEF Closing, Pending
<1>3. CASE OnOpen
  BY <1>1, <1>3, OnOpenPage DEF OnOpen, Closing, SameButFor
<1>4. CASE Stall
  BY <1>1, <1>4 DEF Stall, Closing
<1>5. CASE Break
  BY <1>1, <1>5, OtherPages DEF Break, Closing, SameButFor
<1>6. CASE Deliver
  BY <1>1, <1>6, DeliverPage DEF Deliver, Closing, SameButFor
<1>7. CASE DeliverNotice
  <2>1. page'.shown = FALSE
    BY <1>7 DEF DeliverNotice, Loaded
  <2>2. Pending' = {}
    BY <1>7 DEF DeliverNotice, Pending, NoRequest
  <2> QED
    BY <2>1, <2>2, <1>7 DEF DeliverNotice, Closing
<1>8. CASE Tick
  <2>1. page'.shown = page.shown
    BY <1>1, <1>8 DEF Tick, Page
  <2> QED
    BY <2>1, <1>8 DEF Tick, Closing
<1>9. ASSUME NEW next \in Intervals, SetInterval(next) PROVE Closing'
  <2>1. page'.shown = page.shown
    BY <1>1, <1>9 DEF SetInterval, Page
  <2> QED
    BY <2>1, <1>9 DEF SetInterval, Closing
<1>10. ASSUME NEW r \in 1 .. MaxRequests, Answer(r) PROVE Closing'
  <2>1. PICK m : Answered(r, m)
    BY <1>10, AnswerReads
  <2>2. page'.shown = page.shown
    BY <2>1, <1>1 DEF Answered, ResyncShown, SwitchShown, Page
  <2> QED
    BY <2>1, <2>2 DEF Answered, Shrunk, Closing
<1>11. ASSUME NEW r \in 1 .. MaxRequests, Fail(r) PROVE Closing'
  <2>1. page'.shown = page.shown
    BY <1>1, <1>11, OtherPages DEF Page
  <2> QED
    BY <2>1, <1>11, OtherPages DEF Fail, Shrunk, Closing
<1> QED
  BY <1>2, <1>3, <1>4, <1>5, <1>6, <1>7, <1>8, <1>9, <1>10, <1>11 DEF Next, ServerStep, Intervals

-------------------------------------------------------------------------------
(***************************************************************************)
(* The watchdog                                                            *)
(***************************************************************************)
LEMMA WatchingKept ==
    ASSUME Sorts, Sorts', Closing, Watching, LiveBadgeIsHonest, [Next]_vars
    PROVE  Watching' /\ LiveBadgeIsHonest'
<1>1. /\ page \in Page /\ page.shown \in BOOLEAN /\ quiet \in Nat /\ StallAfter \in Nat \ {0}
      /\ page.silence \in {None} \cup 0 .. StallAfter /\ page.errored \in BOOLEAN
  BY Bounds DEF Sorts, Page
<1>2. ASSUME UNCHANGED <<quiet, stream>>, page'.shown = page.shown, page'.errored = page.errored,
             page'.silence = page.silence, page'.connection = page.connection
      PROVE  Watching' /\ LiveBadgeIsHonest'
  BY <1>2 DEF Watching, LiveBadgeIsHonest
<1>3. CASE ServerStep \/ UNCHANGED vars
  BY <1>2, <1>3, ServerSteps DEF vars
<1>4. CASE OnOpen
  <2>1. page'.silence = 0 /\ page'.errored = FALSE
    BY <1>4, OnOpenPage DEF SameButFor
  <2>2. quiet' = 0 /\ stream' # "connecting"
    BY <1>4 DEF OnOpen
  <2> QED
    BY <2>1, <2>2, <1>1 DEF Watching, LiveBadgeIsHonest
<1>5. CASE Stall
  BY <1>1, <1>5 DEF Stall, Watching, LiveBadgeIsHonest
<1>6. CASE Break
  <2>1. page'.errored = TRUE
    BY <1>6, OtherPages DEF SameButFor
  <2>2. quiet' = StallAfter
    BY <1>6 DEF Break
  <2> QED
    BY <2>1, <2>2, <1>1 DEF Watching, LiveBadgeIsHonest
<1>7. CASE Deliver
  <2>1. page'.silence = 0 /\ page'.errored = FALSE
    BY <1>7, DeliverPage DEF SameButFor
  <2>2. quiet' = 0 /\ stream' # "connecting"
    BY <1>7 DEF Deliver
  <2> QED
    BY <2>1, <2>2, <1>1 DEF Watching, LiveBadgeIsHonest
<1>8. CASE DeliverNotice
  <2>1. page'.shown = FALSE /\ page'.connection = "connecting"
    BY <1>8 DEF DeliverNotice, Loaded
  <2> QED
    BY <2>1 DEF Watching, LiveBadgeIsHonest
<1>9. CASE Tick
  <2>1. PICK silence, phase : Looked(silence, phase)
    BY <1>9, TickPage
  <2>2. /\ page'.shown = page.shown /\ page'.errored = page.errored
        /\ page'.silence = silence /\ page'.connection = phase
    <3>1. page' \in Page
      BY DEF Sorts
    <3> QED
      BY <3>1, <2>1 DEF Looked, SameButFor, Page
  <2>3. /\ page.shown /\ stream' = stream
        /\ silence = IF page.silence = None THEN None
                     ELSE IF page.silence + 1 <= StallAfter THEN page.silence + 1 ELSE StallAfter
        /\ quiet' = IF quiet <= StallAfter THEN quiet + 1 ELSE StallAfter + 1
    BY <2>1, <1>9 DEF Looked, Tick
  <2>4. Watching'
    BY <2>2, <2>3, <1>1 DEF Watching, None
  <2>5. LiveBadgeIsHonest'
    <3>1. phase = "live" => ~page.errored /\ silence # None /\ ~(silence >= StallAfter)
      BY <2>1 DEF Looked, DeriveStreamPhase
    <3> QED
      BY <3>1, <2>2, <2>3, <1>1 DEF Watching, LiveBadgeIsHonest, None
  <2> QED
    BY <2>4, <2>5
<1>10. ASSUME NEW next \in Intervals, SetInterval(next) PROVE Watching' /\ LiveBadgeIsHonest'
  <2>1. /\ page'.shown = page.shown /\ page'.errored = page.errored
        /\ page'.silence = page.silence /\ page'.connection = page.connection
    BY <1>1, <1>10, OtherPages DEF Page
  <2> QED
    BY <1>2, <1>10, <2>1 DEF SetInterval
<1>11. ASSUME NEW r \in 1 .. MaxRequests, Answer(r) PROVE Watching' /\ LiveBadgeIsHonest'
  <2>1. PICK m : Answered(r, m)
    BY <1>11, AnswerReads
  <2>2. /\ page'.shown = page.shown /\ page'.errored = page.errored
        /\ page'.silence = page.silence /\ page'.connection = page.connection
    BY <2>1, <1>1 DEF Answered, ResyncShown, SwitchShown, Page
  <2> QED
    BY <1>2, <2>1, <2>2 DEF Answered
<1>12. ASSUME NEW r \in 1 .. MaxRequests, Fail(r) PROVE Watching' /\ LiveBadgeIsHonest'
  <2>1. /\ page'.shown = page.shown /\ page'.errored = page.errored
        /\ page'.silence = page.silence /\ page'.connection = page.connection
    BY <1>1, <1>12, OtherPages DEF Page
  <2> QED
    BY <1>2, <1>12, <2>1 DEF Fail
<1> QED
  BY <1>3, <1>4, <1>5, <1>6, <1>7, <1>8, <1>9, <1>10, <1>11, <1>12 DEF Next, ServerStep, Intervals

-------------------------------------------------------------------------------
(***************************************************************************)
(* The switches                                                            *)
(***************************************************************************)
\* What a step does that begins a resync at most, and leaves the page its interval.
More ==
    /\ page'.shown = page.shown /\ page'.interval = page.interval /\ page'.loading = page.loading
    /\ UNCHANGED requests \/ Grown("resync", page.interval)

LEMMA MoreSteps ==
    ASSUME Sorts,
           ServerStep \/ OnOpen \/ Stall \/ Break \/ Deliver \/ Tick \/ UNCHANGED vars
    PROVE  More
<1>1. CASE ServerStep \/ Stall \/ UNCHANGED vars
  BY <1>1, ServerSteps DEF Stall, vars, More
<1>2. CASE OnOpen
  <2>1. UNCHANGED requests \/ Grown("resync", page.interval)
    <3>1. page.interval \in Intervals
      BY DEF Sorts, Page
    <3> QED
      BY <3>1, <1>2, BeginGrows DEF OnOpen, Reopen
  <2> QED
    BY <2>1, <1>2, OnOpenPage DEF SameButFor, More
<1>3. CASE Break
  BY <1>3, OtherPages DEF SameButFor, More
<1>4. CASE Deliver
  <2>1. UNCHANGED requests
    BY <1>4 DEF Deliver
  <2> QED
    BY <2>1, <1>4, DeliverPage DEF SameButFor, More
<1>5. CASE Tick
  <2>1. page \in Page
    BY DEF Sorts
  <2>2. page'.shown = page.shown /\ page'.interval = page.interval /\ page'.loading = page.loading
    BY <2>1, <1>5 DEF Tick, Page
  <2> QED
    BY <2>2, <1>5, TickPage DEF Looked, More
<1> QED
  BY <1>1, <1>2, <1>3, <1>4, <1>5

LEMMA SwitchingKept ==
    ASSUME Sorts, Switching, [Next]_vars
    PROVE  Switching'
<1>1. /\ page \in Page /\ Pending \subseteq 1 .. MaxRequests
      /\ page.interval \in Intervals
  BY DEF Sorts, Pending, Page
<1>2. ASSUME More PROVE Switching'
  <2>1. CASE UNCHANGED requests
    BY <2>1, <1>2 DEF More, Switching, Pending
  <2>2. CASE Grown("resync", page.interval)
    <3>1. PICK i \in (1 .. MaxRequests) \ Pending :
            /\ Pending' = Pending \cup {i}
            /\ requests'[i].kind = "resync"
            /\ \A r \in Pending : requests'[r] = requests[r]
      BY <2>2, <1>1 DEF Grown
    <3>2. ASSUME NEW r \in Pending', requests'[r].kind = "switch"
          PROVE  r \in Pending /\ requests'[r] = requests[r]
      BY <3>1, <3>2
    <3> QED
      BY <3>2, <1>2 DEF More, Switching
  <2> QED
    BY <2>1, <2>2, <1>2 DEF More
<1>3. CASE DeliverNotice
  BY <1>3 DEF DeliverNotice, Switching, Pending, NoRequest
<1>4. ASSUME NEW next \in Intervals, SetInterval(next) PROVE Switching'
  <2>1. page'.loading = TRUE /\ page'.interval = next /\ page.loading = FALSE
    BY <1>1, <1>4, OtherPages DEF Page
  <2>2. PICK i \in (1 .. MaxRequests) \ Pending :
          /\ Pending' = Pending \cup {i}
          /\ requests'[i].interval = next
          /\ \A r \in Pending : requests'[r] = requests[r]
    <3>1. Grown("switch", next)
      BY <1>4, OtherPages
    <3> QED
      BY <3>1, <1>1 DEF Grown
  <2>3. ASSUME NEW r \in Pending', requests'[r].kind = "switch"
        PROVE  r = i
    BY <2>1, <2>2, <2>3 DEF Switching
  <2> QED
    BY <2>1, <2>2, <2>3 DEF Switching
<1>5. ASSUME NEW r \in Pending, Shrunk(r), page'.interval = page.interval,
             requests[r].kind # "switch" => page'.loading = page.loading
      PROVE  Switching'
  <2>1. ASSUME NEW s \in Pending', requests'[s].kind = "switch"
        PROVE  s \in Pending /\ requests'[s] = requests[s] /\ requests[r].kind # "switch"
    <3>1. s \in Pending /\ s # r /\ requests'[s] = requests[s]
      BY <1>1, <1>5 DEF Shrunk
    <3> QED
      BY <3>1, <2>1 DEF Switching
  <2> QED
    BY <2>1, <1>5 DEF Switching
<1>6. ASSUME NEW r \in 1 .. MaxRequests, Answer(r) PROVE Switching'
  <2>1. PICK m : Answered(r, m)
    BY <1>6, AnswerReads
  <2>2. page'.interval = page.interval /\ (requests[r].kind # "switch" => page'.loading = page.loading)
    BY <2>1, <1>1 DEF Answered, ResyncShown, SwitchShown, Page
  <2> QED
    BY <2>1, <2>2, <1>5 DEF Answered
<1>7. ASSUME NEW r \in 1 .. MaxRequests, Fail(r) PROVE Switching'
  <2>1. page'.interval = page.interval /\ (requests[r].kind # "switch" => page'.loading = page.loading)
    BY <1>1, <1>7, OtherPages DEF Page
  <2> QED
    BY <2>1, <1>5, <1>7, OtherPages
<1> QED
  BY <1>2, <1>3, <1>4, <1>6, <1>7, MoreSteps DEF Next, ServerStep, Intervals

LEMMA OfTheIntervalKept ==
    ASSUME Sorts, Switching, OfTheInterval, [Next]_vars
    PROVE  OfTheInterval'
<1>1. /\ page \in Page /\ Pending \subseteq 1 .. MaxRequests /\ seen \in Nat /\ market \in Nat
      /\ missed \in Nat \cup {None} /\ page.data.interval \in Intervals
  BY DEF Sorts, Pending, Page, Data
<1>2. ASSUME More, page'.data.interval = page.data.interval, missed' = None => missed = None
      PROVE  OfTheInterval'
  <2>1. ASSUME NEW r \in Pending
        PROVE  r \in Pending' /\ requests'[r] = requests[r]
    <3>1. CASE UNCHANGED requests
      BY <3>1 DEF Pending
    <3>2. CASE Grown("resync", page.interval)
      BY <3>2, <1>1 DEF Grown
    <3> QED
      BY <3>1, <3>2, <1>2 DEF More
  <2> QED
    BY <2>1, <1>2 DEF More, OfTheInterval
<1>3. CASE ServerStep \/ Stall \/ UNCHANGED vars
  <2>1. page' = page /\ (missed' = None => missed = None)
    BY <1>1, <1>3, ServerSteps DEF Stall, vars, None
  <2> QED
    BY <2>1, <1>2, <1>3, MoreSteps
<1>4. CASE OnOpen
  <2>1. missed' = market \/ missed' = missed
    BY <1>4 DEF OnOpen
  <2> QED
    BY <2>1, <1>1, <1>2, <1>4, MoreSteps, OnOpenPage DEF SameButFor, None
<1>5. CASE Break
  <2>1. missed' = missed
    BY <1>5 DEF Break
  <2> QED
    BY <2>1, <1>2, <1>5, MoreSteps, OtherPages DEF SameButFor
<1>6. CASE Deliver
  <2>1. missed' = None => missed = None
    <3>1. CASE Told(Head(queue))
      BY <3>1 DEF Told
    <3>2. CASE MergedInto(Head(queue))
      <4>1. Head(queue) \in Event
        BY <1>6 DEF Deliver, Sorts
      <4> QED
        BY <4>1, <3>2, <1>1 DEF MergedInto, MergedSeen, Event, None
    <3> QED
      BY <3>1, <3>2, <1>6, DeliverPage
  <2> QED
    BY <2>1, <1>2, <1>6, MoreSteps, DeliverPage DEF SameButFor
<1>7. CASE DeliverNotice
  BY <1>7 DEF DeliverNotice, Loaded, OfTheInterval
<1>8. CASE Tick
  <2>1. missed' = missed
    BY <1>8 DEF Tick
  <2> QED
    BY <2>1, <1>2, <1>8, MoreSteps, TickPage DEF Looked
<1>9. ASSUME NEW next \in Intervals, SetInterval(next) PROVE OfTheInterval'
  <2>1. Grown("switch", next)
    BY <1>9, OtherPages
  <2>2. \E r \in Pending' : requests'[r].kind = "switch"
    BY <2>1 DEF Grown
  <2> QED
    BY <2>2 DEF OfTheInterval
<1>10. ASSUME NEW r \in 1 .. MaxRequests, Answer(r) PROVE OfTheInterval'
  <2>1. PICK m : Answered(r, m)
    BY <1>10, AnswerReads
  <2>2. m \in Nat /\ r \in Pending
    BY <2>1, AnsweredSorts DEF Answered
  <2>3. CASE ResyncShown(requests[r], m)
    <3>1. page'.data.interval = requests[r].interval /\ page'.interval = page.interval
      BY <2>3, <1>1 DEF ResyncShown, Payload, Page
    <3>2. missed' = None => requests[r].interval = page.interval
      BY <2>1, <2>2, <1>1 DEF Answered, Caught, None
    <3> QED
      BY <3>1, <3>2 DEF OfTheInterval
  <2>4. CASE SwitchShown(requests[r], m)
    <3>1. page'.data.interval = requests[r].interval /\ page'.interval = page.interval
      BY <2>4, <1>1 DEF SwitchShown, Payload, Page
    <3>2. requests[r].interval = page.interval
      BY <2>2, <2>4 DEF SwitchShown, Switching
    <3> QED
      BY <3>1, <3>2 DEF OfTheInterval
  <2> QED
    BY <2>1, <2>3, <2>4 DEF Answered
<1>11. ASSUME NEW r \in 1 .. MaxRequests, Fail(r) PROVE OfTheInterval'
  <2>1. missed' = market
    BY <1>11, OtherPages
  <2> QED
    BY <2>1, <1>1 DEF OfTheInterval, None
<1> QED
  BY <1>3, <1>4, <1>5, <1>6, <1>7, <1>8, <1>9, <1>10, <1>11 DEF Next, ServerStep, Intervals

-------------------------------------------------------------------------------
(***************************************************************************)
(* The events on the way                                                   *)
(***************************************************************************)
LEMMA WayOfMore ==
    ASSUME Sorts, NEW e \in Event, queue' = Append(queue, e), NEW m, OnTheWay(m) \/ e.at = m,
           e.at = m => e.kind = "kline" \/ OnTheWay(m)
    PROVE  OnTheWay(m)'
<1>1. /\ queue \in Seq(Event) /\ Len(queue') = Len(queue) + 1 /\ queue'[Len(queue) + 1] = e
      /\ Len(queue) \in Nat /\ \A k \in 1 .. Len(queue) : queue'[k] = queue[k]
  BY DEF Sorts
<1>2. CASE OnTheWay(m)
  BY <1>1, <1>2 DEF OnTheWay
<1>3. CASE e.at = m /\ e.kind = "kline"
  BY <1>1, <1>3 DEF OnTheWay
<1> QED
  BY <1>2, <1>3

LEMMA WayOfRest ==
    ASSUME Sorts, NEW m, OnTheWay(m), queue # <<>>, queue' = Tail(queue)
    PROVE  OnTheWay(m)' \/ (Head(queue).kind = "kline" /\ Head(queue).at = m)
<1>1. PICK k \in 1 .. Len(queue) : queue[k].kind = "kline" /\ queue[k].at = m
  BY DEF OnTheWay
<1>2. /\ queue \in Seq(Event) /\ Len(queue) \in Nat /\ Len(queue') = Len(queue) - 1
      /\ Head(queue) = queue[1] /\ \A i \in 1 .. Len(queue) - 1 : queue'[i] = queue[i + 1]
  BY DEF Sorts
<1>3. CASE k = 1
  BY <1>1, <1>2, <1>3
<1>4. CASE k # 1
  <2>1. k - 1 \in 1 .. Len(queue') /\ queue'[k - 1] = queue[k]
    BY <1>2, <1>4
  <2> QED
    BY <2>1, <1>1 DEF OnTheWay
<1> QED
  BY <1>3, <1>4

LEMMA AskedKept ==
    ASSUME Sorts, UNCHANGED requests \/ \E kind, interval : Grown(kind, interval), NEW m, Asked(m)
    PROVE  Asked(m)'
<1>1. CASE UNCHANGED requests
  BY <1>1 DEF Asked, Pending
<1>2. ASSUME NEW kind, NEW interval, Grown(kind, interval) PROVE Asked(m)'
  <2>1. Pending \subseteq 1 .. MaxRequests
    BY DEF Pending
  <2>2. \A r \in Pending : r \in Pending' /\ requests'[r] = requests[r]
    BY <2>1, <1>2 DEF Grown
  <2> QED
    BY <2>2 DEF Asked
<1> QED
  BY <1>1, <1>2

\* What a fetch begun now will show.
LEMMA AskedNow ==
    ASSUME Sorts, NEW kind, NEW interval, Grown(kind, interval), NEW m \in 1 .. market
    PROVE  Asked(m)'
<1>1. PICK i \in Pending' : requests'[i].from = market
  BY DEF Grown
<1> QED
  BY <1>1 DEF Asked, Sorts

LEMMA NothingIsLostKept ==
    ASSUME Sorts, Sorts', NothingIsLost, [Next]_vars
    PROVE  NothingIsLost'
<1>1. /\ page \in Page /\ seen \in Nat /\ market \in Nat /\ missed \in Nat \cup {None}
      /\ page.interval \in Intervals /\ missed \in Int
  BY DEF Sorts, Page, None
<1>2. SUFFICES ASSUME page'.shown, stream' = "open", page'.interval = "1m", NEW m \in 1 .. market'
               PROVE  MadeUpFor(m)'
  BY DEF NothingIsLost
<1>3. ASSUME page'.shown = page.shown, page'.interval = page.interval, stream' = stream,
             m \in 1 .. market
      PROVE  MadeUpFor(m)
  BY <1>2, <1>3 DEF NothingIsLost
<1>4. ASSUME UNCHANGED <<market, publishing, queue, stream, seen, missed>>, More
      PROVE  MadeUpFor(m)'
  <2>1. MadeUpFor(m)
    BY <1>3, <1>4 DEF More
  <2>2. Asked(m) => Asked(m)'
    BY <1>4, AskedKept DEF More
  <2>3. OnTheWay(m) => OnTheWay(m)'
    BY <1>4 DEF OnTheWay
  <2> QED
    BY <2>1, <2>2, <2>3, <1>4 DEF MadeUpFor
<1>5. CASE ServerStep
  <2>1. /\ UNCHANGED <<stream, page, requests, seen>> /\ missed' \in Int /\ missed' >= missed
    BY <1>5, ServerSteps DEF None
  <2>2. m \in 1 .. market => MadeUpFor(m)
    BY <2>1, <1>3
  <2>3. m <= missed => m <= missed'
    BY <2>1, <1>1
  <2>4. Asked(m) => Asked(m)'
    BY <2>1 DEF Asked, Pending
  <2>5. CASE StoreKline
    <3>1. m \in 1 .. market \/ m \in publishing'
      BY <2>5, <1>1 DEF StoreKline
    <3>2. OnTheWay(m) => OnTheWay(m)'
      BY <2>5 DEF StoreKline, OnTheWay
    <3>3. m \in publishing => m \in publishing'
      BY <2>5 DEF StoreKline
    <3> QED
      BY <3>1, <3>2, <3>3, <2>1, <2>2, <2>3, <2>4 DEF MadeUpFor
  <2>6. CASE ListenBreaks \/ ListenAgain
    <3>1. UNCHANGED <<market, publishing, queue, missed>>
      BY <2>6 DEF ListenBreaks, ListenAgain
    <3> QED
      BY <3>1, <2>1, <1>4 DEF More
  <2>7. ASSUME NEW p \in publishing, FailPublish(p) PROVE MadeUpFor(m)'
    <3>1. UNCHANGED <<market, queue>> /\ publishing' = publishing \ {p} /\ Lose(p)
      BY <2>7 DEF FailPublish
    <3>2. p <= seen \/ p <= missed'
      BY <3>1, <2>1, <1>2, LostIsMissed
    <3>3. OnTheWay(m) => OnTheWay(m)'
      BY <3>1 DEF OnTheWay
    <3> QED
      BY <3>1, <3>2, <3>3, <2>1, <2>2, <2>3, <2>4 DEF MadeUpFor
  <2>8. ASSUME NEW p \in publishing, PublishKline(p) PROVE MadeUpFor(m)'
    <3>1. market' = market /\ publishing' = publishing \ {p}
      BY <2>8 DEF PublishKline
    <3>2. CASE Lose(p) /\ UNCHANGED queue
      <4>1. p <= seen \/ p <= missed'
        BY <3>2, <2>1, <1>2, LostIsMissed
      <4>2. OnTheWay(m) => OnTheWay(m)'
        BY <3>2 DEF OnTheWay
      <4> QED
        BY <3>1, <4>1, <4>2, <2>1, <2>2, <2>3, <2>4 DEF MadeUpFor
    <3>3. CASE Send("kline", p) /\ UNCHANGED missed
      <4> DEFINE e == [kind |-> "kline", at |-> p]
      <4>1. e \in Event /\ e.kind = "kline" /\ e.at = p
        BY DEF Event, Sorts
      <4>2. queue' = Append(queue, e)
        BY <3>3, <2>1, <1>2 DEF Send
      <4> HIDE DEF e
      <4>3. OnTheWay(m) \/ m = p => OnTheWay(m)'
        BY <4>1, <4>2, WayOfMore
      <4> QED
        BY <3>1, <3>3, <4>3, <2>1, <2>2, <2>4 DEF MadeUpFor
    <3> QED
      BY <2>8, <3>2, <3>3 DEF PublishKline
  <2>9. ASSUME NEW kind \in {"ticker", "ops", "pipeline"}, Push(kind) PROVE MadeUpFor(m)'
    <3> DEFINE e == [kind |-> kind, at |-> IF kind = "ticker" THEN market ELSE 0]
    <3>1. e \in Event
      BY <1>1 DEF Event
    <3>2. queue' = Append(queue, e) /\ UNCHANGED <<market, publishing, missed>>
      BY <2>9 DEF Push, Send
    <3> HIDE DEF e
    <3>3. OnTheWay(m) => OnTheWay(m)'
      BY <3>1, <3>2, WayOfMore
    <3> QED
      BY <3>2, <3>3, <2>1, <2>2, <2>4 DEF MadeUpFor
  <2> QED
    BY <1>5, <2>5, <2>6, <2>7, <2>8, <2>9 DEF ServerStep
<1>6. CASE OnOpen
  <2>1. UNCHANGED <<market, publishing, seen>>
    BY <1>6 DEF OnOpen
  <2>2. CASE page.everOpened
    <3>1. Grown("resync", page.interval)
      BY <2>2, <1>1, <1>6, BeginGrows DEF OnOpen, Reopen
    <3>2. Asked(m)'
      BY <3>1, <2>1, AskedNow
    <3> QED
      BY <3>2 DEF MadeUpFor
  <2>3. CASE ~page.everOpened
    <3>1. missed' = IF ~(seen + 1 .. market \subseteq publishing) THEN market ELSE missed
      BY <2>3, <1>6 DEF OnOpen
    <3>2. CASE seen + 1 .. market \subseteq publishing
      <4>1. m <= seen \/ m \in publishing
        BY <3>2, <2>1, <1>1
      <4> QED
        BY <4>1, <2>1 DEF MadeUpFor
    <3>3. CASE ~(seen + 1 .. market \subseteq publishing)
      BY <3>1, <3>3, <2>1, <1>1 DEF MadeUpFor
    <3> QED
      BY <3>2, <3>3
  <2> QED
    BY <2>2, <2>3
<1>7. CASE Stall \/ Break
  BY <1>2, <1>7 DEF Stall, Break
<1>8. CASE Deliver
  <2> DEFINE e == Head(queue)
  <2>1. /\ queue # <<>> /\ queue' = Tail(queue)
        /\ UNCHANGED <<market, publishing, requests, stream>>
    BY <1>8 DEF Deliver
  <2>2. /\ page'.interval = page.interval /\ page'.shown = page.shown
        /\ MergedInto(e) \/ Told(e)
    BY <1>8, DeliverPage DEF SameButFor
  <2>3. MadeUpFor(m)
    BY <1>3, <2>1, <2>2
  <2>4. OnTheWay(m) => OnTheWay(m)' \/ (e.kind = "kline" /\ e.at = m)
    BY <2>1, WayOfRest
  <2>5. Asked(m) => Asked(m)'
    BY <2>1 DEF Asked, Pending
  <2>6. e \in Event
    BY <2>1 DEF Sorts
  <2> HIDE DEF e
  <2>7. CASE Told(e)
    <3>1. UNCHANGED <<seen, missed>> /\ e.kind # "kline"
      BY <2>2, <2>7, <1>2 DEF Told
    <3> QED
      BY <3>1, <2>1, <2>3, <2>4, <2>5 DEF MadeUpFor
  <2>8. CASE MergedInto(e)
    <3>1. /\ m <= seen \/ e.at = m => m <= seen'
          /\ m <= missed => m <= missed'
      <4>1. MergedSeen(e.at)
        BY <2>8 DEF MergedInto
      <4>2. seen' \in Int /\ missed' \in Int
        BY DEF Sorts, None
      <4> QED
        BY <4>1, <4>2, <2>6, <1>1 DEF MergedSeen, Event
    <3> QED
      BY <3>1, <2>1, <2>3, <2>4, <2>5 DEF MadeUpFor
  <2> QED
    BY <2>2, <2>7, <2>8
<1>9. CASE DeliverNotice
  BY <1>2, <1>9 DEF DeliverNotice, Loaded
<1>10. CASE Tick
  BY <1>4, <1>10, MoreSteps DEF Tick
<1>11. ASSUME NEW next \in Intervals, SetInterval(next) PROVE MadeUpFor(m)'
  <2>1. market' = market /\ Grown("switch", next)
    BY <1>11, OtherPages DEF SetInterval
  <2>2. Asked(m)'
    BY <2>1, AskedNow
  <2> QED
    BY <2>2 DEF MadeUpFor
<1>12. ASSUME NEW r \in 1 .. MaxRequests, Answer(r) PROVE MadeUpFor(m)'
  <2>1. PICK a : Answered(r, a)
    BY <1>12, AnswerReads
  <2>2. /\ a \in Nat /\ requests[r].from <= a /\ r \in Pending /\ Shrunk(r)
        /\ requests[r].from \in Nat
        /\ seen' = (IF a >= seen THEN a ELSE seen)
        /\ UNCHANGED <<market, publishing, stream, queue>>
    BY <2>1, AnsweredSorts, <1>1 DEF Answered, Request
  <2>3. page'.shown = page.shown /\ page'.interval = page.interval
    BY <2>1, <1>1 DEF Answered, ResyncShown, SwitchShown, Page
  <2>4. MadeUpFor(m)
    BY <2>2, <2>3, <1>3
  <2>5. CASE m <= seen
    BY <2>5, <2>2, <1>1 DEF MadeUpFor
  <2>6. CASE m <= missed
    <3>1. (a >= missed /\ seen' >= a) \/ missed' >= missed
      BY <2>1, <2>2, <1>1 DEF Answered, Caught
    <3>2. missed' \in Int /\ seen' \in Int
      BY DEF Sorts, None
    <3> QED
      BY <3>1, <3>2, <2>2, <2>6, <1>1 DEF MadeUpFor
  <2>7. CASE Asked(m)
    <3>1. PICK q \in Pending : m <= requests[q].from
      BY <2>7 DEF Asked
    <3>2. CASE q = r
      BY <3>1, <3>2, <2>2, <1>1 DEF MadeUpFor
    <3>3. CASE q # r
      <4>1. q \in Pending' /\ requests'[q] = requests[q]
        BY <3>3, <2>2 DEF Shrunk, Pending
      <4> QED
        BY <4>1, <3>1 DEF MadeUpFor, Asked
    <3> QED
      BY <3>2, <3>3
  <2>8. CASE m \in publishing \/ OnTheWay(m)
    BY <2>2, <2>8 DEF MadeUpFor, OnTheWay
  <2> QED
    BY <2>4, <2>5, <2>6, <2>7, <2>8 DEF MadeUpFor
<1>13. ASSUME NEW r \in 1 .. MaxRequests, Fail(r) PROVE MadeUpFor(m)'
  <2>1. missed' = market /\ market' = market
    BY <1>13, OtherPages DEF Fail
  <2> QED
    BY <2>1 DEF MadeUpFor
<1>14. CASE UNCHANGED vars
  BY <1>4, <1>14, MoreSteps DEF vars
<1> QED
  BY <1>5, <1>6, <1>7, <1>8, <1>9, <1>10, <1>11, <1>12, <1>13, <1>14
  DEF Next, ServerStep, Intervals

-------------------------------------------------------------------------------
(***************************************************************************)
(* The chart                                                               *)
(***************************************************************************)
LEMMA ChartIsExactKept ==
    ASSUME Sorts, Sorts', Switching, OfTheInterval, ChartIsExact, [Next]_vars
    PROVE  ChartIsExact'
<1>1. /\ page \in Page /\ seen \in Nat /\ market \in Nat /\ missed \in Nat \cup {None}
      /\ page.interval \in Intervals /\ page.data.interval \in Intervals
  BY DEF Sorts, Page, Data
<1>2. ASSUME UNCHANGED seen, page'.shown = page.shown, page'.interval = page.interval,
             page'.data = page.data, missed' = None => missed = None
      PROVE  ChartIsExact'
  BY <1>2 DEF ChartIsExact
<1>3. CASE ServerStep \/ Stall \/ UNCHANGED vars
  <2>1. page' = page /\ seen' = seen /\ (missed' = None => missed = None)
    BY <1>1, <1>3, ServerSteps DEF Stall, vars, None
  <2> QED
    BY <2>1, <1>2
<1>4. CASE OnOpen
  <2>1. (missed' = market \/ missed' = missed) /\ UNCHANGED seen
    BY <1>4 DEF OnOpen
  <2> QED
    BY <2>1, <1>1, <1>2, <1>4, OnOpenPage DEF SameButFor, None
<1>5. CASE Break
  <2>1. UNCHANGED <<seen, missed>>
    BY <1>5 DEF Break
  <2> QED
    BY <2>1, <1>2, <1>5, OtherPages DEF SameButFor
<1>6. CASE Deliver
  <2> DEFINE e == Head(queue)
  <2>1. /\ SameButFor(page', 0, FALSE)
        /\ MergedInto(e) \/ Told(e)
    BY <1>6, DeliverPage
  <2>2. e \in Event /\ (e.kind = "kline" => e.at \in 1 .. market)
    BY <1>6 DEF Deliver, Sorts
  <2> HIDE DEF e
  <2>3. CASE Told(e)
    BY <2>1, <2>3, <1>2 DEF Told, SameButFor
  <2>4. CASE MergedInto(e)
    <3>1. SUFFICES ASSUME page.shown, missed' = None, page.data.interval = "1m"
                   PROVE  Exact(page'.data.candles, seen')
      BY <2>1 DEF ChartIsExact, SameButFor
    <3>2. /\ page.interval = "1m" /\ e.at \in Nat \ {0}
          /\ page'.data.candles = MergeKline(page.data.candles, CandleOf("1m", LastBar(e.at), e.at))
          /\ MergedSeen(e.at)
      BY <2>2, <2>4, <1>1 DEF MergedInto
    <3>3. missed = None /\ Continues(seen, e.at) /\ seen' = e.at
      <4>1. seen' \in Int /\ seen' >= 0
        BY DEF Sorts
      <4> QED
        BY <4>1, <3>1, <3>2, <1>1 DEF MergedSeen, None
    <3>4. Exact(page.data.candles, seen)
      BY <3>1, <3>2, <3>3 DEF ChartIsExact
    <3> QED
      BY <3>2, <3>3, <3>4, <1>1, MergeIsExact
  <2> QED
    BY <2>1, <2>3, <2>4
<1>7. CASE DeliverNotice
  BY <1>7 DEF DeliverNotice, Loaded, ChartIsExact
<1>8. CASE Tick
  <2>1. /\ UNCHANGED <<seen, missed>>
        /\ page'.shown = page.shown /\ page'.interval = page.interval /\ page'.data = page.data
    BY <1>1, <1>8 DEF Tick, Page
  <2> QED
    BY <2>1, <1>2
<1>9. ASSUME NEW next \in Intervals, SetInterval(next) PROVE ChartIsExact'
  <2>1. /\ page' = [page EXCEPT !.interval = next, !.loading = TRUE] /\ ~page.loading
        /\ UNCHANGED <<seen, missed>>
    BY <1>9, OtherPages DEF SetInterval
  <2>2. page'.shown = page.shown /\ page'.data = page.data
    BY <2>1, <1>1 DEF Page
  <2>3. page.shown /\ missed = None => page.data.interval = page.interval
    BY <2>1 DEF OfTheInterval, Switching
  <2> QED
    BY <2>1, <2>2, <2>3 DEF ChartIsExact
<1>10. ASSUME NEW r \in 1 .. MaxRequests, Answer(r) PROVE ChartIsExact'
  <2>1. PICK m : Answered(r, m)
    BY <1>10, AnswerReads
  <2>2. SUFFICES ASSUME page'.interval = "1m", missed' = None
                 PROVE  Exact(page'.data.candles, seen')
    BY DEF ChartIsExact
  <2>3. /\ m \in Nat /\ page.interval = "1m"
        /\ seen' = (IF m >= seen THEN m ELSE seen)
        /\ page'.data = Payload(requests[r].interval, m)
    BY <2>1, <2>2, <1>1, AnsweredSorts DEF Answered, ResyncShown, SwitchShown, Page
  <2>4. m >= seen /\ requests[r].interval = "1m"
    BY <2>1, <2>2, <2>3, <1>1 DEF Answered, Caught, None
  <2>5. page'.data.candles = Candles("1m", m) /\ seen' = m
    BY <2>3, <2>4 DEF Payload
  <2> QED
    BY <2>3, <2>5, AnswersAreExact
<1>11. ASSUME NEW r \in 1 .. MaxRequests, Fail(r) PROVE ChartIsExact'
  <2>1. missed' = market
    BY <1>11, OtherPages
  <2> QED
    BY <2>1, <1>1 DEF ChartIsExact, None
<1> QED
  BY <1>3, <1>4, <1>5, <1>6, <1>7, <1>8, <1>9, <1>10, <1>11 DEF Next, ServerStep, Intervals

-------------------------------------------------------------------------------
(***************************************************************************)
(* The theorems                                                            *)
(***************************************************************************)
LEMMA PageAtFirst ==
    ASSUME Init
    PROVE  IInv
<1>1. Sorts
  BY SortsAtFirst
<1>2. /\ page = Loaded(market) /\ stream = "connecting" /\ market \in Nat /\ seen = market
      /\ missed = None /\ Pending = {}
  BY Bounds DEF Init, Pending, NoRequest
<1>3. /\ page.shown /\ page.silence = None /\ page.connection = "connecting"
      /\ page.interval = "1m" /\ page.data = Payload("1m", market)
  BY <1>2 DEF Loaded
<1>4. Closing /\ Watching /\ LiveBadgeIsHonest /\ Switching /\ NothingIsLost
  BY <1>2, <1>3 DEF Closing, Watching, LiveBadgeIsHonest, Switching, NothingIsLost
<1>5. OfTheInterval
  BY <1>3 DEF OfTheInterval, Payload
<1>6. ChartIsExact
  BY <1>2, <1>3, AnswersAreExact DEF ChartIsExact, Payload
<1> QED
  BY <1>1, <1>4, <1>5, <1>6 DEF IInv

\* The page is consistent in every reachable state: what it shows, what it awaits
\* and what is on the way to it add up to what the tables hold.
THEOREM PageIsConsistent == Spec => []IInv
<1>1. IInv /\ [Next]_vars => IInv'
  BY SortsKept, ClosingKept, WatchingKept, SwitchingKept, OfTheIntervalKept, NothingIsLostKept,
     ChartIsExactKept DEF IInv
<1> QED
  BY <1>1, PageAtFirst, PTL DEF Spec

\* useDashboard never says live of a stream that has been silent for longer than
\* the threshold of stream-health.ts, however long that is.
THEOREM BadgeIsHonest == Spec => []LiveBadgeIsHonest
<1>1. IInv => LiveBadgeIsHonest
  BY DEF IInv
<1> QED
  BY <1>1, PageIsConsistent, PTL

\* The newest candles are a tail of the table.
LEMMA NewestAreATail ==
    ASSUME NEW m \in Nat \ {0}, NEW size \in Nat, NEW n \in Nat, n <= size,
           size <= LastBar(m) + 1
    PROVE  Newest(n, m) = SubSeq(Newest(size, m), size - n + 1, size)
<1> DEFINE last == LastBar(m)
<1>1. last \in Nat
  BY LastBarOf
<1>2. Newest(size, m) \in Seq(Candle) /\ Len(Newest(size, m)) = size
  <2>1. ASSUME NEW k \in 1 .. size PROVE CandleOf("1m", last - size + k, m) \in Candle
    <3>1. last - size + k \in Nat
      BY <1>1
    <3> QED
      BY <3>1, CandleSort DEF Intervals
  <2> QED
    BY <2>1 DEF Newest
<1> DEFINE part == SubSeq(Newest(size, m), size - n + 1, size)
<1>3. part \in Seq(Candle) /\ Len(part) = n
  BY <1>2
<1>4. ASSUME NEW k \in 1 .. n PROVE part[k] = Newest(n, m)[k]
  <2>1. part[k] = Newest(size, m)[size - n + k]
    BY <1>2
  <2>2. size - n + k \in 1 .. size /\ last - size + (size - n + k) = last - n + k
    BY <1>1
  <2> QED
    BY <2>1, <2>2 DEF Newest
<1> HIDE DEF part
<1>5. part = Newest(n, m)
  BY <1>3, <1>4, SameSequence
<1> QED
  BY <1>5 DEF part

\* An exact chart is a tail of the table, and of a table that is not empty no
\* empty one.
LEMMA ExactIsOfTheTable ==
    ASSUME NEW m \in Nat, NEW chart, Exact(chart, m)
    PROVE  /\ m > 0 => chart # <<>>
           /\ chart = SubSeq(Candles("1m", m), Len(Candles("1m", m)) - Len(chart) + 1,
                             Len(Candles("1m", m)))
<1>1. CASE m = 0
  BY <1>1 DEF Exact, Candles
<1>2. CASE m # 0
  <2>1. PICK n \in 1 .. LastBar(m) + 1 : n <= CandleLimit /\ chart = Newest(n, m)
    BY <1>2 DEF Exact
  <2>2. PICK size \in 1 .. LastBar(m) + 1 :
          /\ size = CandleLimit \/ size = LastBar(m) + 1
          /\ Candles("1m", m) = Newest(size, m)
    BY <1>2, CandlesAreTheNewest
  <2>3. LastBar(m) \in Nat /\ n \in Nat \ {0} /\ size \in Nat /\ n <= size
        /\ size <= LastBar(m) + 1
    BY <2>1, <2>2, <1>2, LastBarOf, Bounds
  <2>4. Len(Newest(n, m)) = n /\ Len(Newest(size, m)) = size
    BY <2>3 DEF Newest
  <2>5. Newest(n, m) = SubSeq(Newest(size, m), size - n + 1, size)
    BY <2>3, <1>2, NewestAreATail
  <2>6. chart # <<>>
    BY <2>1, <2>3, <2>4
  <2> QED
    BY <2>1, <2>2, <2>4, <2>5, <2>6
<1> QED
  BY <1>1, <1>2

\* Once nothing is on the way and nothing is asked, the 1-minute chart is of the
\* table: for every number of faults, switches, fetches and candles, however the
\* events and the answers of useDashboard were interleaved.
THEOREM ChartSettles == Spec => []SettledChartIsExact
<1>1. ASSUME IInv PROVE SettledChartIsExact
  <2>1. SUFFICES ASSUME page.shown, stream = "open", queue = <<>>, publishing = {},
                        Pending = {}, missed = None
                 PROVE  LET chart == page.data.candles
                            table == Candles("1m", market)
                        IN  /\ page.data.interval = page.interval
                            /\ page.interval = "1m" =>
                                  /\ market > 0 => chart # <<>>
                                  /\ chart = SubSeq(table, Len(table) - Len(chart) + 1, Len(table))
    BY DEF SettledChartIsExact
  <2>2. page.data.interval = page.interval
    BY <1>1, <2>1 DEF IInv, OfTheInterval
  <2>3. seen \in 0 .. market /\ market \in Nat
    BY <1>1 DEF IInv, Sorts
  <2>4. ASSUME page.interval = "1m" PROVE Exact(page.data.candles, market)
    <3>1. seen = market
      <4>1. CASE market = 0
        BY <4>1, <2>3
      <4>2. CASE market # 0
        <5>1. MadeUpFor(market)
          BY <4>2, <2>3, <1>1, <2>1, <2>4 DEF IInv, NothingIsLost
        <5> QED
          BY <5>1, <2>1, <2>3 DEF MadeUpFor, OnTheWay, Asked, None
      <4> QED
        BY <4>1, <4>2
    <3> QED
      BY <3>1, <2>2, <1>1, <2>1, <2>4 DEF IInv, ChartIsExact
  <2> QED
    BY <2>2, <2>3, <2>4, ExactIsOfTheTable
<1> QED
  BY <1>1, PageIsConsistent, PTL

-------------------------------------------------------------------------------
\* The heavy payload is read again only when a lost stream is back, or when an open
\* one has been silent for the whole threshold, whatever that is.
THEOREM HeavyReadsAreRare == Spec => HeavyReadsOnlyWithoutStream
<1> DEFINE Heavy   == {r \in Pending : requests[r].kind = "resync"}
           Allowed == \/ stream = "connecting" /\ stream' # "connecting"
                      \/ stream # "connecting" /\ quiet' >= StallAfter
<1>1. ASSUME IInv, [Next]_vars
      PROVE  Resyncs' > Resyncs => Allowed
  <2>1. Sorts /\ Watching /\ Closing
    BY <1>1 DEF IInv
  <2>2. Pending \subseteq 1 .. MaxRequests /\ IsFiniteSet(Heavy)
    <3>1. IsFiniteSet(1 .. MaxRequests)
      BY Bounds, FS_Interval
    <3>2. Heavy \subseteq 1 .. MaxRequests
      BY DEF Pending
    <3> QED
      BY <3>1, <3>2, FS_Subset DEF Pending
  <2>3. ASSUME Heavy' \subseteq Heavy PROVE ~(Resyncs' > Resyncs)
    <3>1. Cardinality(Heavy') <= Cardinality(Heavy) /\ Cardinality(Heavy') \in Nat
          /\ Cardinality(Heavy) \in Nat
      BY <2>2, <2>3, FS_Subset, FS_CardinalityType
    <3> QED
      BY <3>1 DEF Resyncs
  <2>4. ASSUME NEW r \in Pending, Shrunk(r) PROVE Heavy' \subseteq Heavy
    BY <2>2, <2>4 DEF Shrunk
  <2>5. CASE OnOpen
    BY <2>5 DEF OnOpen
  <2>6. CASE Tick
    <3>1. PICK silence, phase : Looked(silence, phase)
      BY <2>1, <2>6, TickPage
    <3>2. CASE UNCHANGED requests
      BY <3>2, <2>3 DEF Pending
    <3>3. CASE phase = "stalled"
      <4>1. ~page.errored /\ silence # None /\ silence >= StallAfter
        BY <3>1, <3>3 DEF Looked, DeriveStreamPhase
      <4>2. page.silence # None /\ page.silence + 1 >= StallAfter
        BY <4>1, <3>1, Bounds, <2>1 DEF Looked, Sorts, Page, None
      <4>3. page.shown
        BY <2>6 DEF Tick
      <4>4. stream # "connecting" /\ page.silence <= quiet
        BY <4>1, <4>2, <4>3, <2>1, Bounds DEF Watching, Sorts
      <4>5. quiet' >= StallAfter
        BY <4>2, <4>4, <3>1, <2>1, Bounds DEF Looked, Sorts, Page, None
      <4> QED
        BY <4>4, <4>5
    <3> QED
      BY <3>1, <3>2, <3>3 DEF Looked
  <2>7. ASSUME NEW next \in Intervals, SetInterval(next) PROVE Heavy' \subseteq Heavy
    <3>1. Grown("switch", next)
      BY <2>1, <2>7, OtherPages
    <3>2. PICK i \in (1 .. MaxRequests) \ Pending :
            /\ Pending' = Pending \cup {i}
            /\ requests'[i].kind = "switch"
            /\ \A r \in Pending : requests'[r] = requests[r]
      BY <3>1, <2>2 DEF Grown
    <3> QED
      BY <3>2
  <2>8. ASSUME NEW r \in 1 .. MaxRequests, Answer(r) \/ Fail(r) PROVE Heavy' \subseteq Heavy
    <3>1. r \in Pending /\ requests' = [requests EXCEPT ![r] = NoRequest]
      BY <2>8 DEF Answer, Fail
    <3> QED
      BY <3>1, <2>1, <2>4, EndShrinks
  <2>9. CASE DeliverNotice
    <3>1. Pending' = {}
      BY <2>9 DEF DeliverNotice, Pending, NoRequest
    <3> QED
      BY <3>1, <2>3
  <2>10. CASE ServerStep \/ Stall \/ Break \/ Deliver \/ UNCHANGED vars
    <3>1. UNCHANGED requests
      BY <2>1, <2>10, ServerSteps DEF Stall, Break, Deliver, vars
    <3> QED
      BY <3>1, <2>3 DEF Pending
  <2> QED
    BY <1>1, <2>3, <2>5, <2>6, <2>7, <2>8, <2>9, <2>10 DEF Next, ServerStep, Intervals
<1> QED
  BY <1>1, PageIsConsistent, PTL DEF Spec, HeavyReadsOnlyWithoutStream
===============================================================================
