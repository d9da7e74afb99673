CONSTANTS
    MsPerDay = 1
    MaxExponent = 30
    Callers = {c1, c2}
    MaxCalls = 1
    MaxRetries = 2
    Minute = 2
    Weight = 1
    Ceiling = 2
    ExchangeLimit = 3
    OthersPerMinute = 3
    RetryAfters = {1, 3}
    RetryBase = 1
    RetryMax = 2

SPECIFICATION Spec
PROPERTY
    RetryAfterIsRespected
