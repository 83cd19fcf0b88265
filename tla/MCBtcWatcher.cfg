SPECIFICATION MCWatcherSpec
CONSTANTS
  d = d
  e = e
  Deposits = {d, e}
  Redeems = {r}
  Refunds = {f}
  Screened = {e}
  Outputs <- SingleOutput
  SwapAmount = 1
  RequiredConfs = 1
  Nothing = nothing
  MaxTip = 2
  MaxBusy = 2
INVARIANTS BlocksAreReal
PROPERTIES DepositBlockRecorded SpendRecorded
CHECK_DEADLOCK FALSE
