CONSTANTS
  Share = 2
  Capacity = 1
  Setups <- SmallSetups
  MaxConns = 2
  MaxBreaks = 1
  MaxClock = 6
SPECIFICATION FairSpec
INVARIANT BenchInv
PROPERTIES Finishes 
CHECK_DEADLOCK FALSE
