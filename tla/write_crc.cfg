CONSTANTS
  Length = 7
  Calls <- CrcCalls
  MaxBytes = 11
  AckKind = "read"
  Word = 1
  TornHeaders = FALSE
SPECIFICATION FairSpec
INVARIANT CrcInv
PROPERTY ImplementsFifo
CHECK_DEADLOCK FALSE
