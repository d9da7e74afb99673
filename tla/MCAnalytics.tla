----------------------------- MODULE MCAnalytics ------------------------------
(***************************************************************************)
(* Checks the reads of Analytics, and what Charts makes of them, against   *)
(* reference definitions over small tables, together with the calls of     *)
(* MCBackfillPlan.  A table is named by the bars it holds; what a row      *)
(* holds follows from its bar, volumes being powers of two so that a sum   *)
(* tells which bars went into it.                                          *)
(***************************************************************************)
EXTENDS MCBackfillPlan, Charts

CONSTANTS
    LastBar,        \* bars are 0 .. LastBar
    PairLastBar,    \* the same for calls about two symbols
    Strides,        \* lengths of candles tried, in bars
    Limits,         \* values of limit tried
    Periods,        \* values of maPeriod tried
    Lags,           \* ages in collector_state tried
    Widths, Heights \* of a chart, in pixels; 0 before it is measured

ASSUME TablesAssumption ==
    /\ LastBar \in Nat /\ PairLastBar \in Nat
    /\ Strides \subseteq Nat \ {0} /\ 1 \in Strides     \* 1: the interval the collector stores
    /\ {Periods, Limits} \subseteq SUBSET (Nat \ {0})
    /\ {Lags, Widths, Heights} \subseteq SUBSET Nat

Symbols == {"btc", "eth"}

Price(s, t) == 2 + ((3 * t * t + 5 * t + (IF s = "btc" THEN 0 ELSE 4)) % 11)

Row(s, t, newest) ==
    [open   |-> Price(s, t),
     close  |-> Price(s, t + 1),
     high   |-> GreaterOf(Price(s, t), Price(s, t + 1)) + (t % 2),
     low    |-> LesserOf(Price(s, t), Price(s, t + 1)) - 1,
     volume |-> 2 ^ t,
     taker  |-> IF t % 2 = 0 THEN 2 ^ t ELSE 0,
     source |-> IF t % 3 = 0 THEN "rest" ELSE "ws",
     closed |-> t < newest]

Table(s, bars) == [t \in bars |-> Row(s, t, Max(bars))]

Klines(bars) == [s \in Symbols |-> Table(s, bars[s])]

Contiguous(bars) == bars = Min(bars) .. Max(bars)

CallCandles ==
    \E bars \in SUBSET (0 .. LastBar), stride \in Strides, limit \in Limits, ma \in Periods :
        call' = [fn |-> "candles", bars |-> bars, stride |-> stride, limit |-> limit, ma |-> ma,
                 candles |-> GetCandles(Table("btc", bars), stride, limit, ma)]

CallCoverage ==
    \E step \in Strides : \E bars \in SUBSET {t \in 0 .. LastBar : t % step = 0} :
        /\ bars # {}
        /\ call' = [fn |-> "coverage", bars |-> bars, step |-> step,
                    coverage |-> GetCoverage(Table("btc", bars), step)]

CallStats ==
    \E bars \in [Symbols -> SUBSET (0 .. PairLastBar)] :
        LET klines == Klines(bars)
        IN  call' = [fn |-> "stats", bars |-> bars,
                     stats   |-> GetMarketStats(klines, Symbols),
                     rate    |-> TradeRate(klines, Symbols),
                     tiles   |-> OpsTiles([s \in {x \in Symbols : bars[x] # {}} |->
                                             GetCoverage(klines[s], 1)]),
                     candles |-> [s \in Symbols |-> [i \in Strides |->
                                    GetCandles(klines[s], i, MaxCandles, DefaultMa)]]]

CallStrength ==
    \E bars \in [Symbols -> SUBSET (0 .. PairLastBar)], span \in 3 .. 5, points \in {2, 4} :
        call' = [fn |-> "strength", bars |-> bars, span |-> span, points |-> points,
                 line |-> GetRelativeStrength(Klines(bars), Symbols, span, points)]

CallOps ==
    \E symbols \in SUBSET Symbols :
    \E state \in [symbols -> [lag : Lags \cup {Null}, uptime : {Null, 4, 9}, reconnects : 0 .. 1]],
       backfills \in SUBSET [reason : {"initial", "restart"}, written : 1 .. 2] :
        call' = [fn |-> "ops", state |-> state, backfills |-> backfills,
                 ops |-> GetOpsSnapshot(state, backfills)]

\* Query parameters worth trying: absent, the limits of the range, beyond
\* them, and text that is no number, interval or symbol.
Numbers == {Absent, Word("abc"), Digits(0), Digits(1), Digits(2), Digits(MaxMa),
            Digits(MaxMa + 1), Digits(MaxCandles), Digits(MaxCandles + 1)}
Words   == {Absent, Word("short"), Word("long"), Word("btc"), Word("BTC"), Word("other"), Digits(1)}

\* What loadConfig makes of some settings, with the length of each interval.
Configs ==
    {LoadConfig(Source(symbols, 1, 2), SomeIntervals, Upper) :
        symbols \in {<<"", "">>, <<"eth", "", "BTC">>, <<"btc">>}}

Started == {[symbols |-> c.symbols, interval |-> c.interval,
            strides |-> [i \in SomeIntervals |-> IF i = "short" THEN 1 ELSE 2]] :
              c \in {x \in Configs : x.accepted}}

\* pipeline_events, by their ids.
Log == <<1, 2, 3, 4, 5>>

Stored == [s \in Symbols |-> Table(s, 0 .. LastBar)]

CallRoute ==
    \E symbol, interval \in Words, limit, ma \in Numbers, queryFails \in BOOLEAN, config \in Started :
        LET params == [symbol |-> symbol, interval |-> interval, limit |-> limit, ma |-> ma]
        IN  call' = [fn |-> "route", params |-> params, config |-> config, queryFails |-> queryFails,
                     answer |-> GetCandlesRoute(params, config, Upper, Stored, queryFails)]

CallDashboard ==
    \E interval \in Words, limit, hours, count \in Numbers, queryFails \in BOOLEAN, config \in Started :
        LET params == [interval |-> interval, limit |-> limit, hours |-> hours, events |-> count]
        IN  call' = [fn |-> "dashboard", params |-> params, config |-> config, queryFails |-> queryFails,
                     answer |-> GetDashboardRoute(params, config, Stored, Log, queryFails)]

\* The average of the last live candles, which came with the stream, is not
\* known yet (mergeKline).
CallChart ==
    \E bars \in SUBSET (0 .. LastBar), stride \in Strides, ma \in Periods, live \in 0 .. 1,
       width \in Widths, height \in Heights :
        LET folded == FoldCandles(Table("btc", bars), bars, stride, ma)
        IN  call' = [fn |-> "chart", height |-> height, layout |-> Layout(width, height),
                     candles |-> [k \in DOMAIN folded |->
                                    IF k > Len(folded) - live THEN [folded[k] EXCEPT !.ma = Null]
                                    ELSE folded[k]]]

AnalyticsNext ==
    \/ Next
    \/ call = Idle /\ (CallCandles \/ CallCoverage \/ CallStats \/ CallStrength \/ CallOps
                       \/ CallChart \/ CallRoute \/ CallDashboard)

AnalyticsSpec == Init /\ [][AnalyticsNext]_call

-------------------------------------------------------------------------------
\* What getCandles should answer.
EndOfHistory(bars, stride, limit, ma, got) ==
    LET rows    == Table("btc", bars)
        starts  == Ascending({t - (t % stride) : t \in bars})
        Bars(b) == {t \in bars : b <= t /\ t < b + stride}
        full    == [j \in DOMAIN starts |-> Bars(starts[j])]
        skipped == Len(starts) - Len(got)
    IN  /\ \A k \in DOMAIN got :
              /\ got[k].openTime = starts[skipped + k]
              /\ k > 1 \/ Contiguous(bars) => got[k].bar = FoldRows(rows, Bars(got[k].openTime))
        /\ bars # {} /\ Contiguous(bars) =>
              /\ Len(got) = LesserOf(LesserOf(limit, MaxCandles), Len(starts))
              /\ \A k \in DOMAIN got :
                    got[k].ma = IF skipped + k < ma THEN Null
                                ELSE Closes(rows, full, skipped + k - ma + 1 .. skipped + k)

\* getCandles shows the end of the history as if all of it had been folded:
\* no bucket that has a bar is left out, every candle holds all bars of its
\* bucket, and, as long as no bar is missing, as many candles come as were
\* asked for and their moving average is that of the full history, null only
\* where the history is too short.  Where bars are missing, the first candle
\* may have lost bars to the edge of the window; only that one.
CandlesMatchFullHistory ==
    call.fn = "candles" => EndOfHistory(call.bars, call.stride, call.limit, call.ma, call.candles)

\* The newest bar of all symbols, and the bars of one in the day before it.
Newest(bars)   == Max(bars["btc"] \cup bars["eth"])
InDay(bars, s) == {t \in bars[s] : Newest(bars) - t <= MsPerDay}

VolumeShown(chart, shown) == MapThenSumSet(LAMBDA k : chart[k].bar.volume, shown)

\* The card of symbol s against its charts, by the length of their candles.
\* older: the bars of the day that the chart of single bars no longer shows.
CardAgrees(bars, s, card, charts) ==
    LET rows  == Table(s, bars[s])
        chart == charts[1]
        shown == {k \in DOMAIN chart : Newest(bars) - chart[k].openTime <= MsPerDay}
        older == {t \in InDay(bars, s) : t < chart[1].openTime}
    IN  /\ \A i \in Strides : Last(charts[i]).bar.close = card.day.close
        /\ card.candleCount = Cardinality(InDay(bars, s))
        /\ card.day.volume = Volume(rows, older) + VolumeShown(chart, shown)
        /\ card.day.high = Max({rows[t].high : t \in older} \cup {chart[k].bar.high : k \in shown})
        /\ card.day.low = Min({rows[t].low : t \in older} \cup {chart[k].bar.low : k \in shown})

\* The market card and the chart of a symbol are computed by different
\* statements and yet agree: on the last price at every interval, and on
\* volume, high and low of the day, which are those of the candles of the day
\* on the chart together with the bars of the day older than the chart, for a
\* chart may be shorter than a day (1000 of 1441 bars).  A card is missing
\* exactly for a symbol without a bar in the day before the newest bar of all.
MarketCardsAgreeWithCharts ==
    call.fn = "stats" =>
        /\ DOMAIN call.stats = {s \in Symbols : InDay(call.bars, s) # {}}
        /\ \A s \in DOMAIN call.stats : CardAgrees(call.bars, s, call.stats[s], call.candles[s])

PointerReadsNearest(candles, layout) ==
    LET Off(k, pixel) == Distance(2 * Len(candles) * pixel, Centre(layout, k))
    IN  \A pixel \in 0 .. layout.plotWidth, k \in DOMAIN candles :
            Off(CandleAt(candles, layout, pixel), pixel) <= Off(k, pixel)

MarkShowsValues(m, layout, span, volume) ==
    LET bottom == VolumeTop(layout) + layout.volumeHeight
    IN  /\ PadTop * span < m.wick[1] /\ m.wick[2] < (PadTop + layout.priceHeight) * span
        /\ {m.open, m.close} \subseteq m.wick[1] .. m.wick[2]
        /\ m.up <=> m.close <= m.open
        /\ m.column \in VolumeTop(layout) * volume .. bottom * volume

MarksStandApart(marks, layout) ==
    \A k \in DOMAIN marks : k > 1 => marks[k - 1].right <= marks[k].left

LineJoinsNeighbours(candles) ==
    LET path == AveragePath(candles)
    IN  /\ {path[j][2] : j \in DOMAIN path} = {k \in DOMAIN candles : candles[k].ma # Null}
        /\ \A j \in DOMAIN path : path[j][1] = "L" => path[j - 1][2] = path[j][2] - 1

CandlesAreDrawn(candles, layout, height) ==
    LET marks  == Marks(candles, layout)
        prices == PriceDomain(candles)
        top    == VolumeTop(layout)
    IN  /\ PadTop + layout.priceHeight < top /\ top + layout.volumeHeight < height
        /\ PointerReadsNearest(candles, layout)
        /\ \A k \in DOMAIN marks :
              MarkShowsValues(marks[k], layout, prices.hi - prices.lo, MaxVolume(candles))
        /\ Len(candles) <= layout.plotWidth => MarksStandApart(marks, layout)
        /\ LineJoinsNeighbours(candles)
        /\ Cardinality(DOMAIN GridLines(candles, layout)) \in 2 .. 5

LinesAreDrawn(line, layout) ==
    LET d     == LineDomain(line, Symbols)
        paths == [s \in Symbols |-> LinePath(line, Symbols, layout, s)]
        Off(k, pixel) == Distance((Len(line) - 1) * pixel, PointX(layout, k))
    IN  /\ \A pixel \in 0 .. layout.plotWidth, k \in DOMAIN line :
              Off(PointAt(line, layout, pixel), pixel) <= Off(k, pixel)
        /\ paths["btc"][1] = paths["eth"][1]
        /\ \A k \in DOMAIN line, s, other \in Symbols :
              LET v == line[k].values[s]
                  w == line[k].values[other]
              IN  /\ paths[s][k][2] < paths[other][k][2] <=> v[1] * w[2] > w[1] * v[2]
                  /\ paths[s][k][2] > layout.top * (d.hi - d.lo)
                  /\ paths[s][k][2] < (layout.top + layout.plotHeight) * (d.hi - d.lo)

TakersAreDrawn(stats) ==
    \A s, other \in DOMAIN stats :
        LET Bar(x) == TakerBar(stats, x, 100)
            Side(x) == (IF Bar(x).isBuy THEN 1 ELSE -1) * Bar(x).length
            Bought(x) == stats[x].day.taker
            Traded(x) == stats[x].day.volume
        IN  /\ 2 * Bar(s).length <= 100 * Bar(s).unit
            /\ Bar(s).isBuy <=> Bought(s) >= Traded(s) - Bought(s)
            /\ Side(s) * Bar(other).unit < Side(other) * Bar(s).unit
                  => Bought(s) * Traded(other) < Bought(other) * Traded(s)

\* What the pointer reads from a chart is the mark nearest to it, and a mark is
\* where its value says: candles inside the panel of prices, columns inside
\* that of volumes, no two bodies over each other while each has a pixel, two to
\* five grid lines, and an average line that joins only neighbours that both
\* have an average.  The lines of the comparison start in one place and lie in
\* the order of their values everywhere; taker bars point to the heavier side
\* and compare as the ratios do; a meter is full only if no bar is missing.
ChartsPointAtWhatTheyDraw ==
    /\ call.fn = "chart" /\ Ready(call.candles, call.layout)
          => CandlesAreDrawn(call.candles, call.layout, call.height)
    /\ call.fn = "strength" =>
          \A width \in Widths, height \in Heights :
              LineReady(call.line, LineLayout(width, height))
                  => LinesAreDrawn(call.line, LineLayout(width, height))
    /\ call.fn = "stats" => TakersAreDrawn(call.stats)
    /\ call.fn = "coverage" =>
          (MeterFilled(call.coverage.pct, 100, 8) = 100 * call.coverage.pct[2]
              <=> FindGaps(call.bars, call.step) = {})

Missing(gaps) == MapThenSumSet(LAMBDA g : g.missingCount, gaps)
BarsHeld(bars, symbols) == MapThenSumSet(LAMBDA s : Cardinality(bars[s]), symbols)

\* The coverage on the screen, the coverage the scanner records and the gaps
\* it fills are three computations of one thing.  What the screen is short of
\* 100 % is exactly the number of bars in the gaps, every bar being of one of
\* the two sources; the scanner's is 1 exactly when no bar is missing up to the
\* end of the range it scanned.  The tile has room for one symbol: the coverage
\* it shows is that of some symbol, beside the number of bars of all by source.
CoverageCountsTheGaps ==
    /\ call.fn = "coverage" =>
          LET gaps == FindGaps(call.bars, call.step)
          IN  /\ call.coverage.pct[2] - call.coverage.pct[1] = Missing(gaps)
              /\ call.coverage.wsCount + call.coverage.restCount = call.coverage.pct[1]
    /\ call.fn = "stats" =>
          LET some == {s \in Symbols : call.bars[s] # {}}
          IN  \A tile \in call.tiles :
                /\ tile.wsTotal + tile.restTotal = BarsHeld(call.bars, some)
                /\ some = {} \/ \E s \in some : tile.pct[2] - tile.pct[1] = Missing(FindGaps(call.bars[s], 1))
    /\ call.fn = "gaps" =>
          (call.coverage[1] = call.coverage[2] <=> BarsOf(call.first, call.to, call.i) \subseteq call.stored)

\* All lines of the relative-strength chart start at 100 in the same bucket
\* and every line has a value at every point, measured against its value at
\* the first: where two lines cross, the returns since the start are equal.
LinesShareTheirStart ==
    call.fn = "strength" =>
        \A s \in Symbols, k \in DOMAIN call.line :
            LET value(j) == call.line[j].values[s]
            IN  /\ value(1)[1] = 100 * value(1)[2]
                /\ value(k)[2] = value(1)[2]
                /\ \E t \in call.bars[s] : /\ value(k)[1] = 100 * Price(s, t + 1)
                                           /\ call.line[k].openTime <= t

\* A badge says good only if every symbol heard from is recent, and connected
\* as long as any of them is: one quiet symbol shows in the lag and not as a
\* lost connection, a dead socket shows as one.  The trade rate is zero only
\* if no finished bar of the last minutes has a trade.
HealthIsJudgedBySymbols ==
    /\ call.fn = "ops" =>
          LET heard == {s \in DOMAIN call.state : call.state[s].lag # Null}
              Within(s, seconds) == call.state[s].lag < seconds
          IN  /\ call.ops.connected <=> \E s \in heard : Within(s, FreshWithin)
              /\ ChipSeverity(call.ops) = "good" <=>
                    heard # {} /\ \A s \in heard : Within(s, Min(Severities))
              /\ ChipSeverity(call.ops) = "critical" <=>
                    heard = {} \/ \E s \in heard : ~Within(s, Max(Severities))
              /\ call.ops.recoveredCandles > 0 <=> \E e \in call.backfills : e.reason = "restart"
    /\ call.fn = "stats" =>
          (call.rate[1] = 0 <=> ~ \E s \in Symbols : \E t \in call.bars[s] :
                                      /\ t < Max(call.bars[s])
                                      /\ \A x \in Symbols : \A u \in call.bars[x] : u - t < TradeWindow)

Given(params, p) == params[p] # Absent

StatusTells(params, queryFails, answer) ==
    /\ answer.status = 200 /\ Given(params, "interval") => params.interval.value = answer.interval
    /\ answer.status = 500 => queryFails
    /\ answer.status = 400 => \E p \in DOMAIN params : Given(params, p)

CandlesAsAsked(params, config, answer) ==
    /\ Given(params, "symbol") => Upper[params.symbol.value] = answer.symbol
    /\ Given(params, "ma") => params.ma.number = answer.maPeriod
    /\ Given(params, "limit") => Len(answer.candles) <= params.limit.number
    /\ answer.symbol \in ToSet(config.symbols) /\ answer.candles # <<>>

PanelsAsAsked(params, config, answer) ==
    /\ DOMAIN answer.stats = ToSet(config.symbols)
    /\ \A s \in ToSet(config.symbols) :
          /\ answer.candles[s] # <<>>
          /\ Given(params, "limit") => Len(answer.candles[s]) <= params.limit.number
    /\ Given(params, "hours") => \A k \in DOMAIN answer.line :
          LET span == params.hours.number * BarsPerHour
          IN  answer.line[k].openTime + PointStep(span, LinePoints) > LastBar - span
    /\ \A k \in DOMAIN answer.events : answer.events[k] = Len(Log) + 1 - k
    /\ Given(params, "events") => Len(answer.events) = LesserOf(params.events.number, Len(Log))

\* A request is refused or answered as asked: no parameter that was given is
\* replaced by a default, and a request without parameters is never refused.
\* The event log is the newest events, newest first; every symbol of the
\* settings has its candles, and no line of the relative strength reaches back
\* further than asked, but for a part of a step.
RefusedOrAnsweredAsAsked ==
    /\ call.fn \in {"route", "dashboard"} => StatusTells(call.params, call.queryFails, call.answer)
    /\ call.fn = "route" /\ call.answer.status = 200
          => CandlesAsAsked(call.params, call.config, call.answer)
    /\ call.fn = "dashboard" /\ call.answer.status = 200
          => PanelsAsAsked(call.params, call.config, call.answer)
===============================================================================
