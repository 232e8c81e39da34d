SPECIFICATION FairSpec
CONSTANTS
  Producers = {p1, p2, p3}
  Capacity = 2
  MaxPush = 2
INVARIANTS Conservation NoStrandedPush
PROPERTIES ImplementsChannel ParkedPushReturns CloseReachesEveryone
CHECK_DEADLOCK FALSE
