CONSTANTS
    MsPerDay = 2
    MaxExponent = 30
    StartTime = 2
    MaxTime = 4
    Listed = {0, 1, 2, 3}
    BackfillDays = 1
    ReconnectBars = 1
    PageSize = 2
    ChunkSize = 1
    ScanWindow = 4
    MaxGapsPerScan = 2
    Reconnects = {r1}
    MaxInflight = 2
    MaxFaults = 2


SPECIFICATION Spec
INVARIANTS
    TypeOK
    EnsureRangeStores
    BootFinishesHistory
    LastOpenTimeIsStored
PROPERTIES
    HistoryIsStable
    ArchiveSpec
