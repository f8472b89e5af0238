SPECIFICATION FairSpec
CONSTANTS
    Markets = {m1, m2}
    MaxFails = 1
    MaxDbErrors = 0
    MaxRuns = 1
CHECK_DEADLOCK FALSE
PROPERTIES FeedsSurvive
