SPECIFICATION Spec
CONSTANTS
    m1 = m1
    m2 = m2
    Stream = Stream
    None = None
    Markets <- OneMarket
    Levels = {yes60, no35}
    MaxQty = 1
    Pollers <- NoMarkets
    WsAvailable = TRUE
    Prompt = FALSE
    Incremental = FALSE
    MaxChanges = 2
    MaxOutages = 1
    MaxDbErrors = 1
    MaxBad = 1
    MaxRounds = 0
CHECK_DEADLOCK FALSE
INVARIANTS TypeOK CoverInv CaughtUp CheckpointCovered OrderedHistory
