SPECIFICATION ServicesSpec
CONSTANTS
  EvmSwaps = {s}
  EvmRequired = 2
  MaxBlockSpan = 2
  MaxHeight = 3
  p = p
  c = c
  Paid = {p}
  Claimed = {c}
  TxSlots = 2
  MaxReplacements = 1
INVARIANTS
  EvmRowsReal ExCachedIsDone
  SolRowReal
PROPERTIES
  EvmRecorded
  ExActsInTheEnd
  SolSpendRecorded SolSettles
CHECK_DEADLOCK FALSE
