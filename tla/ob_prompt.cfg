SPECIFICATION FairSpec
CONSTANTS
    m1 = m1
    m2 = m2
    Stream = Stream
    None = None
    Markets <- OneMarket
    Levels = {yes60, no35}
    MaxQty = 1
    Pollers <- NoMarkets
    WsAvailable = TRUE
    Prompt = TRUE
    Incremental = FALSE
    MaxChanges = 3
    MaxOutages = 1
    MaxDbErrors = 1
    MaxBad = 0
    MaxRounds = 0
CHECK_DEADLOCK FALSE
INVARIANTS ChangeOnly
PROPERTIES HandlerStores ImplementsChangeLog EventuallyStored
