SPECIFICATION Spec
CONSTANTS
  SrcTimelock = 1
  DstTimelock = 1
  HasSacp = TRUE
  Surprises = {}
  MaxInFlight = 1
  MaxFaults = 0
PROPERTY
  InstantRefundNeedsNoLock
CHECK_DEADLOCK FALSE
