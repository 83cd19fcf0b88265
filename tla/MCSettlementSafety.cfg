SPECIFICATION Spec
CONSTANTS
  SrcTimelock = 0
  DstTimelock = 1
  HasSacp = TRUE
  Surprises = {"eviction", "screening", "refund"}
  MaxInFlight = 1
  MaxFaults = 0
INVARIANTS
  TypeOK
  RowNeverAheadOfChain
  ClaimOnlyAfterDestinationClosed
PROPERTIES
  SwapSpec
CHECK_DEADLOCK FALSE
