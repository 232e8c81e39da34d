SPECIFICATION Spec
CONSTANTS
    Vars = {x, y}
    Entrypoints = {p, q}
    a = a
    b = b
    t = t
    c = c
    n = n
    NoTest = NoTest
    Order <- MCOrder
    Untracked = {n}
    GroupOf <- MCGroupOf
    TestOf <- MCTestOf
    Groups = 3
    Contents = {0, 1, 2}
    RepairCeiling = 1
    Limits = {2, 4}
    MaxRepairs = 2
    Totals = {1, 3, 6}
    AttemptTimeout = 2
    SettlementReserve = 2
    ClockBound = 7
SYMMETRY Symmetry
INVARIANTS AcceptedIsCausal PublishedIsApproved BaselineIsSound GoesOnAlone
CHECK_DEADLOCK FALSE
