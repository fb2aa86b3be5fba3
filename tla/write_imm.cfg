CONSTANTS
  Length = 5
  Calls <- ImmCalls
  MaxBytes = 8
  AckKind = "read"
  Inflight = 3
  Batch = 2
  MaxWc = 2
SPECIFICATION FairSpec
INVARIANTS ImmInv CompletionsMatch
PROPERTIES BreaksOnlyIfCrowded SendReturns
CHECK_DEADLOCK FALSE
