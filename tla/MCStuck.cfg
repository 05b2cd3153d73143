SPECIFICATION FairSpec
CONSTANTS
  MaxAtomicAmount = 10
  MaxCreditMult = 1000
  Wallets = {w1}
  Sigs = {s1}
  ClientKeys = {1}
  Horizon = 0
  DayLength = 2
  Claims = {}
  MinDeposit = 2
  SecondaryThreshold = 3
  InitialView = "failed"
  MovingNodes = {"primary", "secondary"}
  Requests = {p1}
  Amounts = {2}
  HotBalances = {9}
  Admins = {7, 8}
  Freezable = {}
  FirstCooldown = 0
  Cooldown = 1
  ManualThreshold = 2
  DualThreshold = 3
  PerTxCap = 1
  DailyCap = 10
  InitialFunds = 4
  MaxRestarts = 0
  w1 = w1
  w2 = w2
  w3 = w3
  s1 = s1
  p1 = p1
  p2 = p2
  p3 = p3
  Legs <- NoLegs
PROPERTY EveryWithdrawalEnds
CHECK_DEADLOCK FALSE
