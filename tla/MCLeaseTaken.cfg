SPECIFICATION StoreSpec
CONSTANTS
    Runners = {r1, r2, r3}
    NoLease = NoLease
    MaxHistory = 1
INVARIANTS OneActiveRunner
CHECK_DEADLOCK FALSE
