CONSTANTS
  c1 = c1
  c2 = c2
  Clients <- Two
  DialOptions <- OneOfEach
  ServerOptions <- SomeServers
  Backlog = 2
  Accepts = 2
  MaxFaults = 1
SPECIFICATION FairSpec
INVARIANTS ConnectInv Pairing
PROPERTIES Establishes DestroyEnds
CHECK_DEADLOCK FALSE
