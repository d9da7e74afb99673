\* Two symbols, so that a flush and an open handler have a next symbol; a process
\* that has ended does nothing any more.
CONSTANTS
    NumSymbols = 2
    MaxAttempts = 2
    MaxTime = 3
    MaxBars = 1
    MaxFlushes = 2
    MaxOpens = 1
    MaxFaults = 1

SPECIFICATION FairSpec
INVARIANTS
    ReceivedIsStored
    OrderlyExitKeepsPrices
PROPERTY
    ShutdownEnds
CHECK_DEADLOCK FALSE
