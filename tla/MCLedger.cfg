SPECIFICATION TreasurySpec
CONSTANTS
  Users = {u1, u2}
  Keys = {k1, k2, k3, k4, k5}
  Amounts <- MCAmounts
  Settlements <- MCSettlements
  MaxAtomicAmount = 2
  MaxCreditMult = 2
  SeedUsdc = 4
  ReserveFloor = 2
  BuyRatioBps = 50
  RatioScale = 100
  MinDailyBuy = 1
  MaxDailyBuy = 2
  HotBalances <- MCHotBalances
  MaxBuys = 2
SYMMETRY Symmetry
INVARIANTS
  TypeOK
  UserBooks
  ExactlyOnce
  BooksBalance
PROPERTIES
  LockSeparation
  FreezeHolds
  ImplementsBook
  BuySparesPlayers
