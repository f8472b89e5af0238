SPECIFICATION Spec
CONSTANTS
    Callers = {discovery, metadata, settlements}
    None = None
    Burst = 4
    Cost = 2
    MaxAttempts = 2
    MaxTime = 4
    MaxLate = 1
CHECK_DEADLOCK FALSE
SYMMETRY CallerSymmetry
INVARIANTS TypeOK RateBound BoundedWait
