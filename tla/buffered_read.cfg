CONSTANTS
  Length = 16
  Header = 1
  Lens <- SomeLens
  Bases <- SomeBases
  MaxHeld = 2
  MaxCells = 24
SPECIFICATION FairSpec
INVARIANT BReadInv
PROPERTIES SendReturns ImplementsFifo
CHECK_DEADLOCK FALSE
