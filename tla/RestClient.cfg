\* A minute of 2 ticks; 2 requests fit under the ceiling, 3 under the limit.
CONSTANTS
    MsPerDay = 1
    MaxExponent = 30
    Callers = {c1, c2}
    MaxCalls = 1
    MaxRetries = 2
    Minute = 2
    Weight = 1
    Ceiling = 2
    ExchangeLimit = 3
    OthersPerMinute = 2
    RetryAfters = {1}
    RetryBase = 1
    RetryMax = 2

SPECIFICATION FairSpec
INVARIANTS
    TypeOK
PROPERTIES
    CeilingHolds
    EveryCallEnds
