SPECIFICATION TableSpec
CONSTANTS
  MaxAtomicAmount = 1000
  MaxCreditMult = 1000
  Seed = 5
  MinBet = 1
  MaxBet = 2
  BetInputs <- MCBetInputs
  Shoes <- MCShoes
  VideoSeeds <- MCVideoSeeds
  Helds <- MCHelds
  Plays <- MCPlays
  NotANumber = NotANumber
  MaxNonce = 3
INVARIANTS
  TableTypeOK
  LockedCoversOpenHands
  DemoMoneyConserved
PROPERTIES
  OpenHandsAreFinished
  VideoDrawIsHonest
CHECK_DEADLOCK FALSE
