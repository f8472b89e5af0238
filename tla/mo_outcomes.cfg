SPECIFICATION FairSpec
CONSTANTS
    Markets = {m1, m2}
    None = None
    CarrySeries = TRUE
    MaxFaults = 1
CHECK_DEADLOCK FALSE
INVARIANTS TypeOK
PROPERTIES UpdatesForward OutcomeRecorded StatusRecorded
