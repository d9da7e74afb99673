\* From an empty table: the candles missed before the first connection make one hole,
\* a fault makes another, and a scan may fill only one of them. Candle 5 only ends 4.
CONSTANTS
    MsPerDay = 2
    MaxExponent = 30
    StartTime = 0
    MaxTime = 5
    Listed = {0, 1, 2, 3, 4}
    BackfillDays = 0
    ReconnectBars = 0
    PageSize = 2
    ChunkSize = 2
    ScanWindow = 5
    MaxGapsPerScan = 1
    Reconnects = {r1}
    MaxInflight = 1
    MaxFaults = 1

SPECIFICATION FairSpec
PROPERTIES
    InteriorHolesAreFilled
