----------------------------- MODULE BackfillPlan -----------------------------
(***************************************************************************)
(* The pure arithmetic of the collector: packages/shared/src/              *)
(* backfill-plan.ts and backoff.ts.  Times are integers in one unit (the   *)
(* code's milliseconds); the length of a candle is the parameter           *)
(* intervalMs.  Code that throws on a bad argument is modelled on the      *)
(* arguments it accepts.                                                   *)
(***************************************************************************)
EXTENDS Integers, Sequences

CONSTANTS
    MsPerDay,       \* 24 * 60 * 60 * 1000 in the unit of the instance
    MaxExponent     \* the exponent at which the backoff stops doubling (30)

ASSUME PlanAssumption ==
    /\ MsPerDay \in Nat \ {0}
    /\ MaxExponent \in Nat

NoBar == -1         \* null, where the code has number | null

LesserOf(a, b) == IF a < b THEN a ELSE b

(***************************************************************************)
(* Backfill planning                                                       *)
(***************************************************************************)
\* Math.floor and \div agree: both round towards minus infinity.
AlignToInterval(timestamp, intervalMs) == (timestamp \div intervalMs) * intervalMs

ResolveStartAfterLast(lastOpenTime, now, backfillDays, intervalMs) ==
    AlignToInterval(IF lastOpenTime = NoBar THEN now - backfillDays * MsPerDay
                                            ELSE lastOpenTime + intervalMs, intervalMs)

\* First run: backfillDays back from now.  Restart: the last stored bar
\* itself, not the one after it.
ResolveBackfillStart(lastOpenTime, now, backfillDays, intervalMs) ==
    AlignToInterval(IF lastOpenTime = NoBar THEN now - backfillDays * MsPerDay
                                            ELSE lastOpenTime, intervalMs)

\* Bars of the closed range [start, end]; both ends are bar starts.
BarCount(start, end, intervalMs) == (end - start) \div intervalMs + 1

PagesFromCount(start, totalCount, intervalMs, maxPerRequest) ==
    [k \in 1 .. (totalCount + maxPerRequest - 1) \div maxPerRequest |->
        LET offset    == (k - 1) * maxPerRequest
            count     == LesserOf(maxPerRequest, totalCount - offset)
            pageStart == start + offset * intervalMs
        IN  [startTime     |-> pageStart,
             endTime       |-> pageStart + (count - 1) * intervalMs,
             expectedCount |-> count]]

\* The for loop over offset, as the sequence of the pages it pushes.
PlanBackfillPages(from, to, intervalMs, maxPerRequest) ==
    LET start == AlignToInterval(from, intervalMs)
        end   == AlignToInterval(to, intervalMs)
    IN  IF end < start
        THEN <<>>
        ELSE PagesFromCount(start, BarCount(start, end, intervalMs),
                            intervalMs, maxPerRequest)

(***************************************************************************)
(* Gap detection.  The array openTimes, sorted ascending and without       *)
(* duplicates (a primary key column), is the set of its elements; the      *)
(* array of gaps, ascending and disjoint, is the set of its gaps.          *)
(***************************************************************************)
Neighbours(openTimes) ==
    {p \in openTimes \X openTimes :
        p[1] < p[2] /\ ~ \E t \in openTimes : p[1] < t /\ t < p[2]}

GapFromBefore(prev, curr, intervalMs) ==
    [startTime    |-> prev - intervalMs,
     endTime      |-> curr - intervalMs,
     missingCount |-> (curr - prev) \div intervalMs - 1]

GapShortOfNext(prev, curr, intervalMs) ==
    [startTime    |-> prev + intervalMs,
     endTime      |-> curr - 2 * intervalMs,
     missingCount |-> (curr - prev) \div intervalMs - 1]

GapBetween(prev, curr, intervalMs) ==
    [startTime    |-> prev + intervalMs,
     endTime      |-> curr - intervalMs,
     missingCount |-> (curr - prev) \div intervalMs - 1]

GapsSkippingSingles(openTimes, intervalMs) ==
    {GapBetween(p[1], p[2], intervalMs) :
        p \in {q \in Neighbours(openTimes) :
                  (q[2] - q[1]) \div intervalMs - 1 > 1}}

FindGaps(openTimes, intervalMs) ==
    {GapBetween(p[1], p[2], intervalMs) :
        p \in {q \in Neighbours(openTimes) :
                  /\ q[2] - q[1] > intervalMs
                  /\ (q[2] - q[1]) \div intervalMs - 1 > 0}}

\* The coverage ratio as <<numerator, denominator>>, at most 1.
CalculateCoverage(actualCount, from, to, intervalMs) ==
    LET expected == BarCount(AlignToInterval(from, intervalMs),
                             AlignToInterval(to, intervalMs), intervalMs)
    IN  IF expected <= 0 THEN <<1, 1>> ELSE <<LesserOf(actualCount, expected), expected>>

(***************************************************************************)
(* Reconnect backoff                                                       *)
(***************************************************************************)
BackoffUncapped(attempt, baseMs, maxMs) ==
    baseMs * 2 ^ LesserOf(attempt - 1, MaxExponent)

CalculateBackoffDelay(attempt, baseMs, maxMs) ==
    LesserOf(baseMs * 2 ^ LesserOf(attempt - 1, MaxExponent), maxMs)

\* Math.round(delayMs * (1 - ratio * random())) with ratio = 1/5 and random()
\* anywhere in [0, 1): the integers the rounding can return.
NextReconnectDelays(attempt, baseMs, maxMs) ==
    LET delay == CalculateBackoffDelay(attempt, baseMs, maxMs)
    IN  (8 * delay + 5) \div 10 .. delay
===============================================================================
