CONSTANTS
  NrBuffers = 2
  Regions = 2
  MaxMsgs = 4
  MaxTurns = 2
SPECIFICATION FairSpec
INVARIANTS DirectInv InStep
PROPERTY Finishes
CHECK_DEADLOCK FALSE
