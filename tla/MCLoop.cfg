SPECIFICATION LoopSpec
CONSTANTS
    None = None
    a = a
    b = b
    c = c
    d = d
    Actions <- MCActions
    Fingerprints = {1, 2, 3}
    FingerprintOf <- MCFingerprintOf
    Usages = {0, 2}
    Options <- MCOptions
    WindowOption = 3
    RepeatThreshold = 2
    CycleBound = 4
    ClockBound = 2
    WorkingWindow = 60
    Costs = {1, 12, 54, 61}
    PinnedCosts = {14}
    ReferenceCost = 16
    IdLength = 6
    BatchSize = 2
    Recordings = 5
INVARIANTS SummaryIsFresh SeatbeltsHold NoUnnoticedRepeat ContextBounded PinnedAndNewestKept SurvivorsAreNewest
PROPERTIES LoopEnds
CHECK_DEADLOCK FALSE
