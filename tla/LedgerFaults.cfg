SPECIFICATION Spec
CONSTANTS
  Hundred = 10
  MiningPct = 2
  InterestPct = 7
  PromotionPct = 1
  BurnPct = 1
  TotalSupply = 130
  InitSupply = 30
  CoinbaseBlocks = 10
  BlocksPerWeek = 2
  InterestDelay = 2
  InterestBlocks = 2
  InterestFeesTime = 4
  Accounts <- MCAccounts
  Null = "null"
  InitMiner = "initminer"
  Witness = "user"
  IdOf <- MCIdOf
  InitBalance <- MCBalance
  Intervals = 2
  IntervalBlocks = 1
  RequiredVesting = 5
  Weights = {1, 3}
  Normalization = 2
  Spenders = {"user"}
  Receivers = {"user", "initminer", "null"}
  Amounts = {6}
  WithdrawAmounts = {0, 5}
  FeeAmounts = {10}
  MaxOps = 3
  MaxBlocks = 2
INVARIANTS
  PoolsCoverTotal
  WitnessIsVested
CHECK_DEADLOCK FALSE
