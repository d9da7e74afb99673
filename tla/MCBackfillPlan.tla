---------------------------- MODULE MCBackfillPlan ----------------------------
(***************************************************************************)
(* Checks the pure functions of BackfillPlan against reference definitions *)
(* over bounded arguments.  The state is one call: its function, its       *)
(* arguments and its result; every call is made from the idle state and is *)
(* then returned from.                                                     *)
(***************************************************************************)
EXTENDS BackfillPlan, Config, FiniteSets

CONSTANTS
    LastTime,       \* times of the bounded inputs are 0 .. LastTime
    Intervals,      \* candle lengths tried
    PageSizes,      \* values of maxPerRequest tried
    LastAttempt,    \* reconnect attempts tried are 1 .. LastAttempt
    Delays          \* values of baseMs and maxMs tried

ASSUME BoundsAssumption ==
    /\ LastTime \in Nat
    /\ Intervals \subseteq Nat \ {0}
    /\ PageSizes \subseteq Nat \ {0}
    /\ LastAttempt \in Nat \ {0}
    /\ Delays \subseteq Nat
    /\ \A d \in Delays : d <= 2 ^ MaxExponent     \* RECONNECT_MAX_MS up to 12 days

VARIABLE call       \* the current call, or the record [fn |-> "none"]

Times == 0 .. LastTime

\* Bar starts of [from, to]: the multiples of the interval between the ends.
BarsOf(from, to, i) == {t \in Times : t % i = 0 /\ from <= t /\ t <= to}

Idle == [fn |-> "none"]

Init == call = Idle

CallPlan ==
    \E from, to \in Times, i \in Intervals, size \in PageSizes :
        call' = [fn |-> "plan", from |-> from, to |-> to, i |-> i, size |-> size,
                 pages |-> PlanBackfillPages(from, to, i, size)]

CallStart ==
    \E last \in Times \cup {NoBar}, now \in Times, days \in 1 .. 2, i \in Intervals :
        /\ last <= now
        /\ now - days * MsPerDay >= 0
        /\ last = NoBar \/ last % i = 0
        /\ call' = [fn |-> "start", last |-> last, now |-> now, days |-> days, i |-> i,
                    pages |-> PlanBackfillPages(ResolveBackfillStart(last, now, days, i),
                                                now, i, 1)]

CallGaps ==
    \E i \in Intervals : \E stored \in SUBSET BarsOf(0, LastTime, i) :
        /\ stored # {}
        /\ LET first == CHOOSE t \in stored : \A u \in stored : t <= u
               to    == AlignToInterval(LastTime, i)
           IN  call' = [fn |-> "gaps", i |-> i, stored |-> stored, first |-> first, to |-> to,
                        gaps |-> FindGaps(stored, i),
                        coverage |-> CalculateCoverage(Cardinality(stored), first, to, i)]

Source(symbols, base, max) ==
    [symbols |-> symbols, interval |-> "short", backfillDays |-> 7,
     reconnectBase |-> base, reconnectMax |-> max]

SomeIntervals == {"short", "long"}

\* toUpperCase on the words tried.
Upper == [w \in {"btc", "BTC", "eth", "short", "long", "other", "abc"} |-> IF w = "BTC" THEN "btc" ELSE w]

\* The delays a process starts with are those loadConfig accepts.
CallDelay ==
    \E n \in 1 .. LastAttempt, base, max \in Delays \cup {0} :
        LET config == LoadConfig(Source(<<"btc">>, base, max), SomeIntervals, Upper)
            b == config.reconnectBase
            m == config.reconnectMax
        IN  /\ config.accepted
            /\ call' = [fn |-> "delay", n |-> n, base |-> b, max |-> m,
                        delay |-> CalculateBackoffDelay(n, b, m),
                        jittered |-> NextReconnectDelays(n, b, m)]

Return == call # Idle /\ call' = Idle

Next ==
    \/ call = Idle /\ (CallPlan \/ CallStart \/ CallGaps \/ CallDelay)
    \/ Return

Spec == Init /\ [][Next]_call

-------------------------------------------------------------------------------
\* planBackfillPages cuts the aligned range into pages that do not lose or
\* repeat a bar at a page border, each no larger than one request may be, in
\* ascending order, with the right expectedCount.  The plan of a restart
\* fetches the last stored bar again (it may have been stored unfinished) and
\* everything after it up to the bar in progress; the plan of a first run
\* reaches back backfillDays and stops there too.
PlanFetchesEveryBarOnce ==
    /\ call.fn = "plan" =>
          LET pages  == call.pages
              BarsIn(k) == BarsOf(pages[k].startTime, pages[k].endTime, call.i)
          IN  /\ UNION {BarsIn(k) : k \in DOMAIN pages} =
                     BarsOf(AlignToInterval(call.from, call.i), call.to, call.i)
              /\ \A k \in DOMAIN pages :
                    /\ Cardinality(BarsIn(k)) = pages[k].expectedCount
                    /\ pages[k].expectedCount \in 1 .. call.size
                    /\ \A l \in DOMAIN pages : l > k => pages[k].endTime < pages[l].startTime
    /\ call.fn = "start" =>
          LET planned == {call.pages[k].startTime : k \in DOMAIN call.pages}
              from    == IF call.last = NoBar THEN call.now - call.days * MsPerDay ELSE call.last
          IN  planned = BarsOf(AlignToInterval(from, call.i), call.now, call.i)

\* findGaps reports exactly the bars missing between the first and the last
\* stored one: none forgotten, none reported that is stored, the counts right,
\* and every gap as long as it can be.
GapsAreTheMissingBars ==
    call.fn = "gaps" =>
        LET last == CHOOSE t \in call.stored : \A u \in call.stored : u <= t
            BarsIn(g) == BarsOf(g.startTime, g.endTime, call.i)
        IN  /\ UNION {BarsIn(g) : g \in call.gaps} = BarsOf(call.first, last, call.i) \ call.stored
            /\ \A g \in call.gaps :
                  /\ Cardinality(BarsIn(g)) = g.missingCount
                  /\ {g.startTime - call.i, g.endTime + call.i} \subseteq call.stored

\* Reconnect delays start at the base, double with every attempt and stop at
\* the cap; jitter takes off at most a fifth and never exceeds the cap.
BackoffDoublesUpToItsCap ==
    call.fn = "delay" =>
        LET Doubled[n \in 1 .. LastAttempt] ==
                IF n = 1 THEN call.base ELSE LesserOf(2 * Doubled[n - 1], call.max)
        IN  /\ call.delay = Doubled[call.n]
            /\ \A d \in call.jittered : 10 * d + 5 >= 8 * call.delay /\ d <= call.max
===============================================================================
