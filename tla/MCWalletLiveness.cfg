SPECIFICATION FairSpec
CONSTANTS
  Request = {a, b}
  Spend = {b}
  TakesOutput = {a}
  MaxOutputs = 1
  MaxTx = 6
  MissThreshold = 2
  MaxLineages = 2
  Glitches = {"crash", "eviction", "reject", "revert", "observer", "build"}
  MaxFaults = 3
PROPERTIES EventuallyPaid
