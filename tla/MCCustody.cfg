SPECIFICATION Spec
SYMMETRY Symmetric
CONSTANTS
  MaxAtomicAmount = 10
  MaxCreditMult = 1000
  Wallets = {w1}
  Sigs = {s1}
  ClientKeys = {1, 2}
  Horizon = 0
  DayLength = 2
  Claims = {p3}
  MinDeposit = 2
  SecondaryThreshold = 9
  InitialView = "absent"
  MovingNodes = {"primary"}
  Requests = {p1, p2}
  Amounts = {2}
  HotBalances = {0, 9}
  Admins = {7}
  Freezable = {w1}
  FirstCooldown = 0
  Cooldown = 0
  ManualThreshold = 3
  DualThreshold = 3
  PerTxCap = 3
  DailyCap = 10
  InitialFunds = 0
  MaxRestarts = 1
  w1 = w1
  w2 = w2
  w3 = w3
  s1 = s1
  p1 = p1
  p2 = p2
  p3 = p3
  Legs <- MCLegs
INVARIANT StoreTypeOK
INVARIANT OneWithdrawalPerKey
INVARIANT AccountExplainedByRecords
PROPERTY FrozenQueuesNothing
CHECK_DEADLOCK FALSE
