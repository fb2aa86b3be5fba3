CONSTANTS
  Length = 5
  Calls <- ReadCalls
  MaxBytes = 8
  AckKind = "read"
SPECIFICATION OffsetFairSpec
INVARIANTS OffsetInv HeldIntact NoOverrun NextIsWhole
PROPERTIES ImplementsFifo SendReturns
CHECK_DEADLOCK FALSE
