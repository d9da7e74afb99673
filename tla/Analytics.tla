------------------------------ MODULE Analytics -------------------------------
(***************************************************************************)
(* What the dashboard reads: the SQL of packages/db/src/                   *)
(* analytics-repository.ts, and the API routes of apps/web in front of it, *)
(* as operators on tables.  Time is counted in bars of the base interval,  *)
(* the one the collector stores; intervals and windows are multiples of    *)
(* it.  The klines of a symbol are a function from open times to rows.     *)
(* Ratios are pairs <<numerator, denominator>>.  volume stands for the     *)
(* columns that are only summed (volume, quote_volume, trade_count), taker *)
(* for taker_buy_quote.                                                    *)
(***************************************************************************)
EXTENDS BackfillPlan, FiniteSets, FiniteSetsExt, SequencesExt

CONSTANTS
    MaxCandles,     \* MAX_CANDLES
    TradeWindow,    \* the 5 minutes the trade rate looks back
    FreshWithin,    \* staleThresholdSeconds of getOpsSnapshot
    Severities,     \* the limits of lagSeverity: 3, 10 and 30 seconds
    DefaultLimit, DefaultMa, MaxMa, \* 120 candles, an average of 20, of 200 at most
    DefaultHours, MaxHours,         \* of the relative strength: 6, 168
    DefaultEvents, MaxEvents,       \* 30, 200
    BarsPerHour, LinePoints         \* 60 one-minute bars; 120 points of a line

ASSUME AnalyticsAssumption ==
    /\ {MaxCandles, TradeWindow, FreshWithin, MaxMa, MaxHours, MaxEvents} \subseteq Nat \ {0}
    /\ DefaultLimit \in 1 .. MaxCandles /\ DefaultMa \in 2 .. MaxMa
    /\ DefaultHours \in 1 .. MaxHours /\ DefaultEvents \in 1 .. MaxEvents
    /\ {BarsPerHour, LinePoints} \subseteq Nat \ {0}
    /\ Severities \subseteq Nat /\ IsFiniteSet(Severities) /\ Cardinality(Severities) = 3
    /\ \A limit \in Severities : limit <= FreshWithin     \* stale from 30 seconds on

Null == -1          \* null where a number may be missing

GreaterOf(a, b) == IF a < b THEN b ELSE a

\* Math.max(lo, Math.min(x, hi))
Clamp(x, lo, hi) == GreaterOf(lo, LesserOf(x, hi))

Ascending(S) == [k \in 1 .. Cardinality(S) |-> CHOOSE x \in S : Cardinality({y \in S : y < x}) = k - 1]

\* The last n elements: LIMIT n of a descending order, turned round again.
LastOf(s, n) == SubSeq(s, GreaterOf(1, Len(s) - n + 1), Len(s))

-------------------------------------------------------------------------------
(***************************************************************************)
(* Candles                                                                 *)
(***************************************************************************)
Volume(rows, times) == MapThenSumSet(LAMBDA t : rows[t].volume, times)

\* The aggregates of one group of rows.
FoldRows(rows, times) ==
    [open        |-> rows[Min(times)].open,
     close       |-> rows[Max(times)].close,
     high        |-> Max({rows[t].high : t \in times}),
     low         |-> Min({rows[t].low : t \in times}),
     volume      |-> Volume(rows, times),
     taker       |-> MapThenSumSet(LAMBDA t : rows[t].taker, times),
     hasBackfill |-> \E t \in times : rows[t].source = "rest",
     isClosed    |-> \A t \in times : rows[t].closed]

\* date_bin from the epoch.
Bin(times, stride, bucket) == {t \in times : AlignToInterval(t, stride) = bucket}

\* The buckets that hold a row, ascending.
Buckets(times, stride) == Ascending({AlignToInterval(t, stride) : t \in times})

\* The closes of some of the bins, added.
Closes(rows, bins, indices) == MapThenSumSet(LAMBDA j : rows[Max(bins[j])].close, indices)

\* avg(close) over the period buckets up to the k-th.
MovingAverage(rows, times, stride, period, k) ==
    LET starts == Buckets(times, stride)
        bins   == [j \in DOMAIN starts |-> Bin(times, stride, starts[j])]
    IN  IF k < period THEN Null ELSE Closes(rows, bins, k - period + 1 .. k)

FoldCandles(rows, times, stride, period) ==
    LET starts == Buckets(times, stride)
    IN  [k \in DOMAIN starts |->
            [openTime |-> starts[k],
             bar      |-> FoldRows(rows, Bin(times, stride, starts[k])),
             ma       |-> MovingAverage(rows, times, stride, period, k)]]

After(times, limit) == {t \in times : t > limit}

GetCandlesWithoutRunUp(rows, stride, limit, period) ==
    LET take == Clamp(limit, 1, MaxCandles)
    IN  IF DOMAIN rows = {} THEN <<>>
        ELSE LastOf(FoldCandles(rows, After(DOMAIN rows, Max(DOMAIN rows) - take * stride),
                                stride, period), take)

GetCandles(rows, stride, limit, period) ==
    LET take == Clamp(limit, 1, MaxCandles)
        lookback == (take + period) * stride
    IN  IF DOMAIN rows = {} THEN <<>>
        ELSE LastOf(FoldCandles(rows, After(DOMAIN rows, Max(DOMAIN rows) - lookback),
                                stride, period), take)

-------------------------------------------------------------------------------
(***************************************************************************)
(* Statistics over symbols: klines is a function from symbols to tables.   *)
(***************************************************************************)
Anchor(klines, symbols) == Max(UNION {DOMAIN klines[s] : s \in symbols})

NoRows(klines, symbols) == \A s \in symbols : DOMAIN klines[s] = {}

MarketStatsOfOwnWindow(klines, symbols) ==
    LET Window(s) == {t \in DOMAIN klines[s] : t >= Max(DOMAIN klines[s]) - MsPerDay}
    IN  [s \in {x \in symbols : DOMAIN klines[x] # {}} |->
            [day |-> FoldRows(klines[s], Window(s)), candleCount |-> Cardinality(Window(s))]]

\* The window of all symbols ends at the newest bar of any of them; a symbol
\* without a row in it has no statistics.
GetMarketStats(klines, symbols) ==
    LET Window(s) == {t \in DOMAIN klines[s] : t >= Anchor(klines, symbols) - MsPerDay}
    IN  IF NoRows(klines, symbols) THEN <<>>
        ELSE [s \in {x \in symbols : Window(x) # {}} |->
                [day |-> FoldRows(klines[s], Window(s)), candleCount |-> Cardinality(Window(s))]]

CoverageFromSpan(rows, step) ==
    [pct |-> <<Cardinality(DOMAIN rows), (Max(DOMAIN rows) - Min(DOMAIN rows)) \div step>>,
     wsCount   |-> Cardinality({t \in DOMAIN rows : rows[t].source = "ws"}),
     restCount |-> Cardinality({t \in DOMAIN rows : rows[t].source = "rest"})]

\* Of a symbol that has rows: <<actual, expected>> and the rows by source.
GetCoverage(rows, step) ==
    [pct |-> <<Cardinality(DOMAIN rows), (Max(DOMAIN rows) - Min(DOMAIN rows)) \div step + 1>>,
     wsCount   |-> Cardinality({t \in DOMAIN rows : rows[t].source = "ws"}),
     restCount |-> Cardinality({t \in DOMAIN rows : rows[t].source = "rest"})]

\* Math.max(1, Math.round(span / points))
PointStep(span, points) == GreaterOf(1, (2 * span + points) \div (2 * points))

StrengthFromOwnFirst(klines, symbols, span, points) ==
    LET step == PointStep(span, points)
        Src(s) == After(DOMAIN klines[s], Anchor(klines, symbols) - span)
        Has(s) == {AlignToInterval(t, step) : t \in Src(s)}
        Close(s, b) == klines[s][Max(Bin(Src(s), step, b))].close
        complete == {b \in UNION {Has(s) : s \in symbols} : \A s \in symbols : b \in Has(s)}
        starts == Ascending(complete)
    IN  [k \in DOMAIN starts |->
            [openTime |-> starts[k],
             values   |-> [s \in symbols |-> <<100 * Close(s, starts[k]), Close(s, Min(Has(s)))>>]]]

\* Only buckets where every symbol has a value; each line is divided by its
\* first value among them.
GetRelativeStrength(klines, symbols, span, points) ==
    LET step == PointStep(span, points)
        Src(s) == After(DOMAIN klines[s], Anchor(klines, symbols) - span)
        Has(s) == {AlignToInterval(t, step) : t \in Src(s)}
        Close(s, b) == klines[s][Max(Bin(Src(s), step, b))].close
        complete == {b \in UNION {Has(s) : s \in symbols} : \A s \in symbols : b \in Has(s)}
        starts == Ascending(complete)
    IN  IF NoRows(klines, symbols) THEN <<>>
        ELSE [k \in DOMAIN starts |->
            [openTime |-> starts[k],
             values   |-> [s \in symbols |-> <<100 * Close(s, starts[k]), Close(s, starts[1])>>]]]

-------------------------------------------------------------------------------
(***************************************************************************)
(* The operations snapshot.  state: the rows of collector_state; of a row, *)
(* the seconds since last_message_at and ws_connected_since, or Null.      *)
(* backfills: the backfill_completed events.                               *)
(***************************************************************************)
Known(S) == S \ {Null}

\* Trades per bar of the finished bars of the last minutes, all symbols.
TradeRate(klines, symbols) ==
    LET recent(s) == {t \in After(DOMAIN klines[s], Anchor(klines, symbols) - TradeWindow) :
                        klines[s][t].closed}
        bars == UNION {recent(s) : s \in symbols}
    IN  IF NoRows(klines, symbols) \/ bars = {} THEN <<0, 1>>
        ELSE <<MapThenSumSet(LAMBDA s : Volume(klines[s], recent(s)), symbols), Cardinality(bars)>>

Written(events) == MapThenSumSet(LAMBDA e : e.written, events)

OpsSnapshotByWorst(state, backfills) ==
    LET lags == Known({state[s].lag : s \in DOMAIN state})
    IN  [connected       |-> lags # {} /\ Max(lags) < FreshWithin,
         lagSeconds      |-> IF lags = {} THEN Null ELSE Max(lags),
         uptime          |-> Null,
         reconnectCount  |-> MapThenSumSet(LAMBDA s : state[s].reconnects, DOMAIN state),
         recoveredCandles |-> Written({e \in backfills : e.reason # "initial"})]

\* The lag is that of the symbol furthest behind, the connection is judged by
\* the freshest one, the uptime is the shortest; first loads recover nothing.
GetOpsSnapshot(state, backfills) ==
    LET lags    == Known({state[s].lag : s \in DOMAIN state})
        uptimes == Known({state[s].uptime : s \in DOMAIN state})
    IN  [connected       |-> lags # {} /\ Min(lags) < FreshWithin,
         lagSeconds      |-> IF lags = {} THEN Null ELSE Max(lags),
         uptime          |-> IF uptimes = {} THEN Null ELSE Min(uptimes),
         reconnectCount  |-> MapThenSumSet(LAMBDA s : state[s].reconnects, DOMAIN state),
         recoveredCandles |-> Written({e \in backfills : e.reason # "initial"})]

\* events: the rows of pipeline_events in the order of their ids.
GetRecentEvents(events, limit) == Reverse(LastOf(events, Clamp(limit, 1, MaxEvents)))

LagSeverity(seconds) ==
    IF seconds = Null THEN "critical"
    ELSE <<"good", "warning", "serious", "critical">>
            [1 + Cardinality({limit \in Severities : limit <= seconds})]

\* The badge of StatusChip.
ChipSeverity(ops) == IF ops.connected THEN LagSeverity(ops.lagSeconds) ELSE "critical"

-------------------------------------------------------------------------------
(***************************************************************************)
(* Requests.  A query parameter is absent ("null") or a record: a number,  *)
(* a word, or text that is neither an interval nor a run of digits.        *)
(***************************************************************************)
Absent  == [kind |-> "null"]
Digits(n) == [kind |-> "digits", number |-> n]
Word(w) == [kind |-> "word", value |-> w]

BadRequest == [kind |-> "BadRequest"]
Parsed(v)  == [kind |-> "parsed", value |-> v]

ParseIntervalLeniently(raw, intervals, fallback) ==
    IF raw.kind = "word" /\ raw.value \in intervals THEN Parsed(raw.value) ELSE Parsed(fallback)

ParseInterval(raw, intervals, fallback) ==
    CASE raw.kind = "null"                                  -> Parsed(fallback)
      [] raw.kind = "word" /\ raw.value \in intervals       -> Parsed(raw.value)
      [] OTHER                                              -> BadRequest

ParseInt10(raw, min, max, fallback) ==
    CASE raw.kind = "null"                                  -> Parsed(fallback)
      [] raw.kind = "digits" /\ raw.number \in min .. max   -> Parsed(raw.number)
      [] OTHER                                              -> BadRequest

\* upper: toUpperCase on the words tried.
ParseSymbol(raw, allowed, upper) ==
    CASE allowed = <<>>                                     -> BadRequest
      [] allowed # <<>> /\ raw.kind = "null"                -> Parsed(allowed[1])
      [] allowed # <<>> /\ raw.kind = "word" /\ Contains(allowed, upper[raw.value])
                                                            -> Parsed(upper[raw.value])
      [] OTHER                                              -> BadRequest

\* GET /api/candles: 400 when a parameter is refused, before anything is read;
\* 500 when the query fails.
GetCandlesRoute(params, config, upper, klines, queryFails) ==
    LET symbol   == ParseSymbol(params.symbol, config.symbols, upper)
        interval == ParseInterval(params.interval, DOMAIN config.strides, config.interval)
        limit    == ParseInt10(params.limit, 1, MaxCandles, DefaultLimit)
        ma       == ParseInt10(params.ma, 2, MaxMa, DefaultMa)
        refused  == "BadRequest" \in {symbol.kind, interval.kind, limit.kind, ma.kind}
    IN  CASE refused                -> [status |-> 400]
          [] ~refused /\ queryFails -> [status |-> 500]
          [] OTHER -> [status   |-> 200,
                       symbol   |-> symbol.value,
                       interval |-> interval.value,
                       maPeriod |-> ma.value,
                       candles  |-> GetCandles(klines[symbol.value],
                                               config.strides[interval.value],
                                               limit.value, ma.value)]

\* GET /api/dashboard with buildDashboardPayload: one answer for all panels.
GetDashboardRoute(params, config, klines, events, queryFails) ==
    LET interval == ParseInterval(params.interval, DOMAIN config.strides, config.interval)
        limit    == ParseInt10(params.limit, 1, MaxCandles, DefaultLimit)
        hours    == ParseInt10(params.hours, 1, MaxHours, DefaultHours)
        count    == ParseInt10(params.events, 1, MaxEvents, DefaultEvents)
        symbols  == ToSet(config.symbols)
    IN  IF "BadRequest" \in {interval.kind, limit.kind, hours.kind, count.kind} THEN [status |-> 400]
        ELSE IF queryFails THEN [status |-> 500]
        ELSE [status   |-> 200,
              interval |-> interval.value,
              stats    |-> GetMarketStats(klines, symbols),
              candles  |-> [s \in symbols |-> GetCandles(klines[s], config.strides[interval.value],
                                                         limit.value, DefaultMa)],
              line     |-> GetRelativeStrength(klines, symbols, hours.value * BarsPerHour, LinePoints),
              events   |-> GetRecentEvents(events, count.value)]
===============================================================================
