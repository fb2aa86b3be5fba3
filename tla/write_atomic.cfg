CONSTANTS
  a = a
  b = b
  Senders <- TwoSenders
  Size = 6
  Lengths <- AtomicLengths
  MaxBytes = 7
  DmStep = 2
  Breakable <- OneBreaks
SPECIFICATION FairSpec
INVARIANT AtomicInv
PROPERTIES SendReturns Drains
CHECK_DEADLOCK FALSE
