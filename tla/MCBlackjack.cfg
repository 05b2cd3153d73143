SPECIFICATION BlackjackSpec
CONSTANTS
  Ranks <- MCRanks
  Bets <- MCBets
  ShoeLength = 7
INVARIANTS
  TableIsPrefixOfShoe
  OpenHandIsUndecided
  TotalsAreBest
  DealerPlaysByRule
  PaidByStrength
CHECK_DEADLOCK FALSE
