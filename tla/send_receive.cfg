CONSTANTS
  Inflight = 2
  Batch = 2
  MaxWc = 2
  N = 2
  Calls <- OneOrTwo
  MaxSent <- TwiceAndOnce
SPECIFICATION FairSpec
INVARIANT SendRecvInv
PROPERTIES WaitSound WaitReturns AllReceived
CHECK_DEADLOCK FALSE
