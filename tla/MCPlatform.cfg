SPECIFICATION PlatformSpec
CONSTANTS
  Strategy = {s1}
  Tick = {a1, a2}
  Runs = 2
  StackerClock = 2
  Deposit = 2
  MinBalance = 1
  MaxPerRun = 1
  Cooldown = 1
  GrantLife = 1
  Request = {a1, a2}
  SecretHash = {h1, h2}
  Bps = 10
  MaxSlippage = 2
  Slippages = {5}
  Word = 64
  StrategyFees = {1}
  AffiliateFees = {0, 10}
  FixedFee = 4
  SourcePrices = {2}
  DestPrices = {1}
  Amounts = {3}
  MinAmount = 1
  MaxAmount = 9
  SourceUnit = 2
  DestUnit = 1
  SolverFunds = 5
  SourceFamily = "solana"
  DestFamily = "evm_v3"
  BookPrice = {1, 2}
  Quantity = {0, 1}
  BookDepth = 1
  SnapshotLimit = 2
  LastUpdate = 7
  EventsQueued = 3
  Venue = {v1}
  Aggregator = {g}
  MidPrice = {10, 12}
  VenueStaleness = 1
  AggStaleness = 1
  VwmpTick = 2
  OutlierPct = 5
  PriceClock = 6
  PolicyChain = {1, 2, 3}
  PolicyToken = {1}
  PolicyFees = {7}
  DefaultFee = 5
  PolicyRules = 2
  Withdrawals = 2
  FinalPeriod = 1
  WithdrawClock = 4
  FinalizerRuns = 2
  Poll = {a1, a2}
  BrowserOrder = {a1, a2}
  HookKinds = {"evm", "btc", "sol"}
  Loads = 2
  Coin = {1, 2, 3}
  CoinValues = {4, 20}
  SpendValues = {0, 12}
  SendValues = {0, 10, 24}
  BaseSize = 3
  InputSize = 7
  OutputSize = 4
  RateUnit = 2
  FeeRates = {2, 3}
  PreviousFees = {9, 14}
  DustLimit = 5
  MinChange = 5
  MaxIterations = 16
  SizeTolerance = 2
  HtlcOutput = {1, 2, 3}
  OutputValues = {8, 20}
  Timelock = 1
  HtlcDust = 5
  BaseVsize = 1
  InputVsize = 2
  OutputVsize = 1
  Rates = {1}
  InstantFees = {0, 3}
  ZmqTopic = {a1, a2}
  SeqMax = 4
  ResetThreshold = 2
  WrapMargin = 1
  WireLength = 1
  NodeStarts = 2
  VaultStrategy = {a1, a2}
  LpQuotes = {1, 3}
  SlipLp = 1
  UnbondInputs = {4}
  PoolCoins = {0, 2}
  PoolShares = {5}
  WeightReciprocal = 5
  VaultDeposits = 2
  Unbonds = 1
SYMMETRY PlatformSymmetry
INVARIANTS
  KeeperNeverStuck DelegatedIsRecorded UnbondCovered
  OrdersWhole PayoutBounded LevelsReal PriceRecent
  ExactGroupsTwoSided NoneUntried ShownFinalIsDue
  SecretOutlivesDeposit FeeJustRight
  BatchVerifies RefundsHonoured SacpRoundTrip NodeIsHeard
CHECK_DEADLOCK FALSE
