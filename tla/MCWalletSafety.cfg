SPECIFICATION Spec
CONSTANTS
  Request = {a, b}
  Spend = {b}
  TakesOutput = {a}
  MaxOutputs = 1
  MaxTx = 5
  MissThreshold = 2
  MaxLineages = 2
  Glitches = {"crash", "eviction", "return", "reply", "reject", "revert", "observer", "funding", "build", "ttl"}
  MaxFaults = 4
INVARIANTS PaidOnce
PROPERTIES PromiseSpec
CHECK_DEADLOCK FALSE
