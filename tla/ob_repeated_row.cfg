SPECIFICATION Spec
CONSTANTS
    m1 = m1
    m2 = m2
    Stream = Stream
    None = None
    Markets <- OneMarket
    Levels = {yes60}
    MaxQty = 1
    Pollers <- NoMarkets
    WsAvailable = TRUE
    Prompt = FALSE
    Incremental = FALSE
    MaxChanges = 3
    MaxOutages = 0
    MaxDbErrors = 0
    MaxBad = 0
    MaxRounds = 0
CHECK_DEADLOCK FALSE
INVARIANTS ChangeOnly
