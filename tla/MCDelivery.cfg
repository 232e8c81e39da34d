SPECIFICATION DeliverySpec
CONSTANTS
    Runners = {r1, r2, r3}
    None = None
SYMMETRY Symmetry
INVARIANTS OneHolder AttemptsRecorded
PROPERTY ReportRepaired
CHECK_DEADLOCK FALSE
