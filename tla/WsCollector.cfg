\* Ticks of 1 s; a threshold of 2 instead of 10, delays of 1, 2, 2-3 instead of
\* 1, 2, 4, 8, 16, 30.
CONSTANTS
    MsPerDay = 1
    MaxExponent = 30
    StaleThreshold = 2
    ReconnectBase = 1
    ReconnectMax = 3
    MaxAttempt = 3
    MaxOpens = 2
    MaxStatements = 2
    MaxFaults = 1

SPECIFICATION FairSpec
INVARIANTS
    TypeOK
    OneConnection
    DowntimeIsRemembered
    UptimeEmptyWhileReconnecting
PROPERTIES
    OnlySilentSocketsAreTerminated
    BackoffRestartsAfterSuccess
    LostConnectionIsReplaced
