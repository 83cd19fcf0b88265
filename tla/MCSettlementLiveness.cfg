SPECIFICATION FairSpec
CONSTANTS
  SrcTimelock = 1
  DstTimelock = 1
  HasSacp = FALSE
  Surprises = {}
  MaxInFlight = 1
  MaxFaults = 1
PROPERTIES
  LockReleased
  OutcomeRecorded
  SourceSettled
  InitiateHeals
CHECK_DEADLOCK FALSE
