SPECIFICATION FairSpec
CONSTANTS
    PerMs = 2
    PerSec = 4
    Limit = 2
    MaxTrades = 3
    MaxTime = 4
    MaxFaults = 2
CHECK_DEADLOCK FALSE
INVARIANTS TypeOK PollComplete LastSeqCovered StoredAtMostTwice
PROPERTIES CheckpointMonotone Collected
