SPECIFICATION Spec
CONSTANTS
    m1 = m1
    m2 = m2
    Stream = Stream
    None = None
    Markets <- TwoMarkets
    Levels = {yes60}
    MaxQty = 1
    Pollers <- TwoMarkets
    WsAvailable = FALSE
    Prompt = FALSE
    Incremental = FALSE
    MaxChanges = 2
    MaxOutages = 1
    MaxDbErrors = 1
    MaxBad = 0
    MaxRounds = 3
SYMMETRY MarketSymmetry
CHECK_DEADLOCK FALSE
INVARIANTS ChangeOnly
PROPERTIES HandlerStores
