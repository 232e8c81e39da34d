SPECIFICATION FairSpec
CONSTANTS
  Producers = {p1, p2}
  Capacity = 1
  MaxPush = 2

PROPERTY NoReaderNoBlocking
CHECK_DEADLOCK FALSE
