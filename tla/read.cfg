CONSTANTS
  Inflight = 4
  Batch = 2
  MaxWc = 1
  Regions = 3
  Window = 2
  MaxRcv = 2
  Long = {2}
  MaxMsgs = 7
SPECIFICATION FairSpec
INVARIANTS ReadInv ReadWhole
PROPERTY Finishes
CHECK_DEADLOCK FALSE
