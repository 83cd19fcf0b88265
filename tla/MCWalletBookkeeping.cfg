SPECIFICATION Spec
CONSTANTS
  Request = {a, b, c}
  Spend = {b}
  TakesOutput = {a, b, c}
  MaxOutputs = 2
  MaxTx = 5
  MissThreshold = 2
  MaxLineages = 2
  Glitches = {"crash", "eviction", "return", "reject", "revert", "observer", "build", "ttl"}
  MaxFaults = 3
INVARIANTS HeldOnce RowsMirrorMemory RecordedOnNetwork
CHECK_DEADLOCK FALSE
