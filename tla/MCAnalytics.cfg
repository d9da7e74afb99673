\* Pure functions against reference definitions; a day of 3 time units.
CONSTANTS
    MsPerDay = 3
    MaxExponent = 6
    LastTime = 9
    Intervals = {1, 2, 3}
    PageSizes = {1, 2, 3, 4, 20}
    LastAttempt = 9
    Delays = {1, 2, 5, 30, 60}
    MaxCandles = 3
    TradeWindow = 2
    FreshWithin = 5
    Severities = {1, 3, 5}
    DefaultLimit = 2
    DefaultMa = 2
    MaxMa = 3
    DefaultHours = 2
    MaxHours = 3
    DefaultEvents = 3
    MaxEvents = 4
    BarsPerHour = 2
    LinePoints = 2
    LastBar = 7
    PairLastBar = 4
    Strides = {1, 2, 3}
    Limits = {1, 2, 3, 5}
    Periods = {2, 3}
    Lags = {0, 1, 2, 3, 4, 5, 6}
    Widths = {0, 79, 160}
    Heights = {84, 130}

SPECIFICATION AnalyticsSpec

INVARIANTS
    PlanFetchesEveryBarOnce
    GapsAreTheMissingBars
    BackoffDoublesUpToItsCap
    CandlesMatchFullHistory
    MarketCardsAgreeWithCharts
    ChartsPointAtWhatTheyDraw
    CoverageCountsTheGaps
    LinesShareTheirStart
    HealthIsJudgedBySymbols
    RefusedOrAnsweredAsAsked
