-------------------------------- MODULE Charts --------------------------------
(***************************************************************************)
(* What the charts of apps/web/src/components draw and what the pointer    *)
(* reads from them: the geometry of CandleChart.tsx and SmallCharts.tsx,   *)
(* whole pixels and fractions of them.  A position along a panel is kept   *)
(* as a numerator over the extent of the panel's domain, a position along  *)
(* the plot as one over the number of its marks; nothing is rounded where  *)
(* the code does not round.  Marks are numbered from 1.  Colours, texts    *)
(* and strokes are left out.                                               *)
(***************************************************************************)
EXTENDS Analytics

\* Powers of ten from which a step between grid lines is made, in 100ths of
\* the unit of a price.
Magnitudes == {1, 10, 100, 1000}

\* Math.round(a / b)
Rounded(a, b) == (2 * a + b) \div (2 * b)

Distance(a, b) == IF a < b THEN b - a ELSE a - b

\* Where value v is drawn in a panel of the given top and height that shows
\* lo .. hi: over hi - lo.  Larger values are further up.
PixelY(top, height, lo, hi, v) == (top + height) * (hi - lo) - (v - lo) * height

\* niceTicks: the multiples of a round step that lie in lo .. hi.
NiceTicks(lo, hi, count) ==
    LET round == {m * magnitude : m \in {10, 20, 25, 50, 100}, magnitude \in Magnitudes}
        step  == Min({s \in round : s * count >= hi - lo})
    IN  IF hi <= lo THEN {} ELSE {t \in lo .. hi : t % step = 0}

-------------------------------------------------------------------------------
(***************************************************************************)
(* CandleChart                                                             *)
(***************************************************************************)
PadRight == 58
PadTop == 6
PadBottom == 16
PanelGap == 8
MaxBodyWidth == 24
MarkGap == 2

Layout(width, height) ==
    LET volumeHeight == Clamp(Rounded(height, 5), 22, 64)
    IN  [plotWidth    |-> width - PadRight,
         volumeHeight |-> volumeHeight,
         priceHeight  |-> height - PadTop - PadBottom - volumeHeight - PanelGap]

\* CandleChart draws nothing before it has been measured, or without candles.
Ready(candles, layout) == candles # <<>> /\ layout.plotWidth > 20 /\ layout.priceHeight > 30

VolumeTop(layout) == PadTop + layout.priceHeight + PanelGap

\* The prices shown, in 100ths, with 6 % of their extent above and below, or
\* 1 where they are all one price.
PriceDomain(candles) ==
    LET low  == Min({candles[k].bar.low : k \in DOMAIN candles})
        high == Max({candles[k].bar.high : k \in DOMAIN candles})
        padding == IF high = low THEN 100 ELSE 6 * (high - low)
    IN  [lo |-> 100 * low - padding, hi |-> 100 * high + padding]

PriceY(candles, layout, price) ==
    LET d == PriceDomain(candles)
    IN  PixelY(PadTop, layout.priceHeight, d.lo, d.hi, 100 * price)

MaxVolume(candles) ==
    LET max == Max({candles[k].bar.volume : k \in DOMAIN candles})
    IN  IF max = 0 THEN 1 ELSE max

VolumeY(candles, layout, volume) ==
    PixelY(VolumeTop(layout), layout.volumeHeight, 0, MaxVolume(candles), volume)

\* Centres and widths of the marks: a slot is plotWidth / count.  A centre is
\* given in halves of the count-th part of a pixel, like the edges.
Centre(layout, k) == (2 * k - 1) * layout.plotWidth

BodyWidth(candles, layout) ==
    LET count == Len(candles)
    IN  Clamp(layout.plotWidth - MarkGap * count, count, MaxBodyWidth * count)

Marks(candles, layout) ==
    [k \in DOMAIN candles |->
        [left   |-> Centre(layout, k) - BodyWidth(candles, layout),
         right  |-> Centre(layout, k) + BodyWidth(candles, layout),
         wick   |-> <<PriceY(candles, layout, candles[k].bar.high),
                      PriceY(candles, layout, candles[k].bar.low)>>,
         open   |-> PriceY(candles, layout, candles[k].bar.open),
         close  |-> PriceY(candles, layout, candles[k].bar.close),
         column |-> VolumeY(candles, layout, candles[k].bar.volume),
         up     |-> candles[k].bar.close >= candles[k].bar.open]]

CandleNearestEdge(candles, layout, pixel) ==
    1 + Clamp(Rounded(pixel * Len(candles), layout.plotWidth), 0, Len(candles) - 1)

\* handleMove: the candle of the slot the pointer is in, pixels from the left.
CandleAt(candles, layout, pixel) ==
    1 + Clamp((pixel * Len(candles)) \div layout.plotWidth, 0, Len(candles) - 1)

\* buildMaPath: <<pen, candle>>, M where the line starts anew, L where it is
\* drawn on from the candle before.
AveragePath(candles) ==
    LET with == Ascending({k \in DOMAIN candles : candles[k].ma # Null})
    IN  [j \in DOMAIN with |->
            <<IF with[j] > 1 /\ candles[with[j] - 1].ma # Null THEN "L" ELSE "M", with[j]>>]

\* A price near that of the last close has no label beside its grid line.
GridLines(candles, layout) ==
    LET d == PriceDomain(candles)
        At(v) == PixelY(PadTop, layout.priceHeight, d.lo, d.hi, v)
        lastY == PriceY(candles, layout, Last(candles).bar.close)
    IN  [t \in NiceTicks(d.lo, d.hi, 4) |->
            [y |-> At(t), labelled |-> Distance(At(t), lastY) >= 11 * (d.hi - d.lo)]]

-------------------------------------------------------------------------------
(***************************************************************************)
(* IndexedChart.  Values are fractions, brought to one denominator and to  *)
(* 100ths of it.                                                           *)
(***************************************************************************)
LineLayout(width, height) == [plotWidth |-> width - 52, top |-> 8, plotHeight |-> height - 24]

LineReady(points, layout) == Len(points) > 1 /\ layout.plotWidth > 20 /\ layout.plotHeight > 24

Unit(points, symbols) == ProductSet({points[k].values[s][2] : k \in DOMAIN points, s \in symbols})

Hundredths(points, symbols, v) == 100 * v[1] * (Unit(points, symbols) \div v[2])

\* 14 % of the extent above and below, or a half where there is none.
LineDomain(points, symbols) ==
    LET shown == {Hundredths(points, symbols, points[k].values[s]) : k \in DOMAIN points, s \in symbols}
        extent == Max(shown) - Min(shown)
        pad == IF extent = 0 THEN 50 * Unit(points, symbols) ELSE (14 * extent) \div 100
    IN  [lo |-> Min(shown) - pad, hi |-> Max(shown) + pad]

\* Over the number of steps between points, one less than there are points.
PointX(layout, k) == (k - 1) * layout.plotWidth

LinePath(points, symbols, layout, s) ==
    LET d == LineDomain(points, symbols)
    IN  [k \in DOMAIN points |->
            <<PointX(layout, k),
              PixelY(layout.top, layout.plotHeight, d.lo, d.hi,
                     Hundredths(points, symbols, points[k].values[s]))>>]

\* The point nearest to the pointer.
PointAt(points, layout, pixel) ==
    1 + Clamp(Rounded(pixel * (Len(points) - 1), layout.plotWidth), 0, Len(points) - 1)

-------------------------------------------------------------------------------
(***************************************************************************)
(* TakerBar, Meter and the tiles                                           *)
(***************************************************************************)
\* A bar from the middle to one side, of length over 30 times the quote
\* volume: half the width shows 15 percentage points, more is cut off there.
\* A symbol without statistics is shown as balanced, one without volume as
\* sold (a ratio of 0).
TakerBar(stats, s, width) ==
    LET ratio == CASE s \notin DOMAIN stats -> <<1, 2>>
                   [] s \in DOMAIN stats /\ stats[s].day.volume = 0 -> <<0, 1>>
                   [] OTHER -> <<stats[s].day.taker, stats[s].day.volume>>
        deviation == 2 * ratio[1] - ratio[2]        \* over 2 * ratio[2]
        offset    == Clamp(100 * deviation, -30 * ratio[2], 30 * ratio[2])
    IN  [length |-> (IF offset < 0 THEN -offset ELSE offset) * width,   \* over 60 * ratio[2]
         unit   |-> 60 * ratio[2],
         isBuy  |-> deviation >= 0]

\* The filled part of a meter, over the expected number: never shorter than
\* it is high.
MeterFilled(pct, width, height) ==
    GreaterOf(LesserOf(height, 8) * pct[2], LesserOf(pct[2], pct[1]) * width)

\* OpsTiles: the coverage of the first row of a statement without an order, 0
\* if there is none, and the rows of all symbols by source.  The set of what
\* may be shown.
OpsTiles(coverage) ==
    LET first == {coverage[s].pct : s \in DOMAIN coverage}
    IN  [pct : IF first = {} THEN {<<0, 1>>} ELSE first,
         wsTotal   : {MapThenSumSet(LAMBDA s : coverage[s].wsCount, DOMAIN coverage)},
         restTotal : {MapThenSumSet(LAMBDA s : coverage[s].restCount, DOMAIN coverage)}]
===============================================================================
