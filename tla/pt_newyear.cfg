SPECIFICATION Spec
CONSTANTS
    Processes = {collector}
    Restarted = {collector}
    LastScript = 3
    MaxCrashes = 0
    Tables = 3
    Snapshots = 2
    FirstWeek = 100
    LastWeek = 105
    WeeksAhead = 4
    Markets = {m1}
    LagAfter = 1
    LagError = 2
    StaleAfter = 2
    MaxFaults = 0
CHECK_DEADLOCK FALSE
INVARIANTS RowsFindAPartition
