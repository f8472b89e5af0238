SPECIFICATION Spec
CONSTANTS
    s1 = s1
    s2 = s2
    e1 = e1
    e2 = e2
    m1 = m1
    m2 = m2
    None = None
    Series = {s1, s2}
    Events = {e1, e2}
    Markets = {m1, m2}
    SeriesOf <- TwoSeries
    EventOf <- OneEach
    MaxFaults = 1
CHECK_DEADLOCK FALSE
INVARIANTS TypeOK BackfillComplete
PROPERTIES Discovered
