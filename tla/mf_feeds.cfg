SPECIFICATION FairSpec
CONSTANTS
    Markets = {m1, m2, m3}
    MaxFails = 2
    MaxDbErrors = 1
    MaxRuns = 2
CHECK_DEADLOCK FALSE
INVARIANTS TypeOK FedAreRegistered SubscribedOnce KnownAreRegistered QuietAfterCancel
PROPERTIES StartupFed ShutdownEnds
