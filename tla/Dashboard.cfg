\* The payload has 2 candles instead of 120; a stream counts as silent after 2
\* ticks. When the error page is shown the page really stops.
CONSTANTS
    FirstMoment = 4
    MaxMarket = 5
    CandleLimit = 2
    StallAfter = 2
    PollEvery = 1
    MaxHandlers = 2
    MaxQueue = 2
    MaxRequests = 2
    MaxSwitches = 1
    MaxFaults = 1

SPECIFICATION FairSpec
INVARIANTS
    SettledChartIsExact
    LiveBadgeIsHonest
PROPERTIES
    HeavyReadsOnlyWithoutStream
    ShownPriceFollows
CHECK_DEADLOCK FALSE
