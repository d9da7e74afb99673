CONSTANTS
    MsPerDay = 2
    MaxExponent = 30
    StartTime = 2
    MaxTime = 5
    Listed = {0, 1, 2, 3, 4, 5}
    BackfillDays = 1
    ReconnectBars = 1
    PageSize = 2
    ChunkSize = 2
    ScanWindow = 5
    MaxGapsPerScan = 2
    Reconnects = {r1}
    MaxInflight = 1
    MaxFaults = 0

SPECIFICATION FairSpec
PROPERTY
    UnfinishedCandlesGetFinished
