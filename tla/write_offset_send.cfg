CONSTANTS
  Length = 6
  Calls <- SendCalls
  MaxBytes = 9
  AckKind = "send"
SPECIFICATION OffsetFairSpec
INVARIANT OneAckPending
PROPERTY SendReturns
CHECK_DEADLOCK FALSE
