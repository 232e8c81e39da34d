SPECIFICATION ContextSpec
CONSTANTS
    WorkingWindow = 60
    Costs = {1, 59}
    PinnedCosts = {14}
    ReferenceCost = 16
    IdLength = 6
    BatchSize = 2
    Recordings = 5
INVARIANTS KeptWithinWindow
CHECK_DEADLOCK FALSE
