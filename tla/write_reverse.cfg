CONSTANTS
  Length = 9
  Lengths <- ReverseSendLengths
  MaxBytes = 17
  AckKind = "send"
  MaxHeld = 1
SPECIFICATION FairSpec
INVARIANT ReverseInv
PROPERTIES SendReturns AllReceived
CHECK_DEADLOCK FALSE
