SPECIFICATION Spec
CONSTANTS
  Request = {a, b}
  Spend = {b}
  TakesOutput = {a}
  MaxOutputs = 1
  MaxTx = 5
  MissThreshold = 2
  MaxLineages = 2
  Glitches = {"reply"}
  MaxFaults = 1
INVARIANTS RecordedOnNetwork
