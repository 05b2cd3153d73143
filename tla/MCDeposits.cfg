SPECIFICATION Spec
SYMMETRY Symmetric
CONSTANTS
  MaxAtomicAmount = 10
  MaxCreditMult = 1000
  Wallets = {w1, w2, w3}
  Sigs = {s1}
  ClientKeys = {}
  Horizon = 0
  DayLength = 2
  Claims = {p1, p2}
  MinDeposit = 2
  SecondaryThreshold = 3
  InitialView = "absent"
  MovingNodes = {"primary", "secondary"}
  Requests = {}
  Amounts = {}
  HotBalances = {}
  Admins = {}
  Freezable = {}
  FirstCooldown = 0
  Cooldown = 0
  ManualThreshold = 2
  DualThreshold = 3
  PerTxCap = 3
  DailyCap = 10
  InitialFunds = 0
  MaxRestarts = 0
  w1 = w1
  w2 = w2
  w3 = w3
  s1 = s1
  p1 = p1
  p2 = p2
  p3 = p3
  Legs <- MCLegs
INVARIANT SignatureCreditedOnce
INVARIANT ClaimOkMeansCredited
INVARIANT CreditsWereFinal
INVARIANT CreditsBackedOnChain
