\* The notice of a completed backfill, against the comment of its publication.
CONSTANTS
    FirstMoment = 4
    MaxMarket = 5
    CandleLimit = 2
    StallAfter = 2
    PollEvery = 1
    MaxHandlers = 2
    MaxQueue = 2
    MaxRequests = 2
    MaxSwitches = 1
    MaxFaults = 1

SPECIFICATION Spec
INVARIANT NoticesAreShown
CHECK_DEADLOCK FALSE
