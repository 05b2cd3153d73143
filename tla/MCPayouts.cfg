SPECIFICATION FairSpec
CONSTANTS
  MaxAtomicAmount = 10
  MaxCreditMult = 1000
  Wallets = {w1}
  Sigs = {s1}
  ClientKeys = {1, 2}
  Horizon = 2
  DayLength = 2
  Claims = {}
  MinDeposit = 2
  SecondaryThreshold = 3
  InitialView = "failed"
  MovingNodes = {"primary", "secondary"}
  Requests = {p1}
  Amounts = {1, 2, 3}
  HotBalances = {9}
  Admins = {7, 8}
  Freezable = {}
  FirstCooldown = 1
  Cooldown = 2
  ManualThreshold = 2
  DualThreshold = 3
  PerTxCap = 3
  DailyCap = 10
  InitialFunds = 4
  MaxRestarts = 0
  w1 = w1
  w2 = w2
  w3 = w3
  s1 = s1
  p1 = p1
  p2 = p2
  p3 = p3
  Legs <- NoLegs
INVARIANT LocksMatchOpenWithdrawals
INVARIANT LargeSendsApproved
PROPERTY FirstPayoutWaits
PROPERTY CooldownHonoured
PROPERTY EveryWithdrawalEnds
CHECK_DEADLOCK FALSE
