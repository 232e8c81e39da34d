SPECIFICATION DeliverySpec
CONSTANTS
    Runners = {r1, r2, r3}
    None = None
CHECK_DEADLOCK FALSE
PROPERTY LiveLockKept
