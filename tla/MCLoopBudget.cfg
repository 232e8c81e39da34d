SPECIFICATION Spec
CONSTANTS
    None = None
    a = a
    b = b
    c = c
    d = d
    Actions <- MCActions
    Fingerprints = {1, 2, 3}
    FingerprintOf <- MCFingerprintOf
    Usages = {0, 2}
    Options <- MCOptions
    WindowOption = 3
    RepeatThreshold = 2
    CycleBound = 4
    ClockBound = 2
INVARIANTS ReportedUsageCounts
CHECK_DEADLOCK FALSE
