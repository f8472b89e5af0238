SPECIFICATION Spec
CONSTANTS
    Processes = {collector, backfill}
    Restarted = {collector}
    LastScript = 3
    MaxCrashes = 1
    Tables = 2
    Snapshots = 2
    FirstWeek = 156
    LastWeek = 158
    WeeksAhead = 1
    Markets = {m1}
    LagAfter = 1
    LagError = 2
    StaleAfter = 2
    MaxFaults = 1
INVARIANTS TypeOK NoScriptSkipped ReadyIsTrue RowsFindAPartition
PROPERTIES SilenceIsReported CollectorStarts
CHECK_DEADLOCK FALSE
