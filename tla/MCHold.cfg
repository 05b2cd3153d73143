SPECIFICATION Spec
SYMMETRY Symmetric
CONSTANTS
  b1 = b1
  b2 = b2
  b3 = b3
  c1 = c1
  c2 = c2
  u1 = u1
  w1 = w1
  w2 = w2
  home = home
  away = away
  frame = frame
  title = title
  dustItem = dustItem
  ninth = ninth
  None = None
  NoCookie = NoCookie
  NoTape = NoTape
  NoRide = NoRide
  AuthDomain = AuthDomain
  ChainId = ChainId
  Elsewhere = Elsewhere
  Browsers = {b1, b2, b3}
  Calls = {c1, c2}
  CookieNames = {"gacha", "desk", "session"}
  Inputs <- MCInputs
  Agendas <- HoldOnly
  Catalog <- MCCatalog
  Ultras = {u1}
  NinthLifeFrame = frame
  NinthLifeMint = ninth
  PityRareHard = 2
  YarnStart = 2
  YarnFaucetDaily = 1
  YarnCap = 3
  ClaimHold = 1
  DiamondHold = 2
  DiamondBagwork = 2
  MaxMarks = 1
  DayLength = 1
  ItemDraws = {0, 1}
  Ttl = 2
  Window = 2
  MaxHits = 2
  HoldWaves = 3
  MinWicks = 1
  MinBaits = 1
  RideWindow = 2
  BigChange = 5
  TapeDigest <- MCTapeDigest
  TapeTtl = 1
  Feeds <- MCFeeds
  SaveTries = 2
  Wallets = {w1, w2}
  NonceTtl = 2
  ClockSkew = 1
  SweepAbove = 1
  IdleTtl = 1
  AbsoluteTtl = 2
  MaxNonces = 2
INVARIANT ClearedHoldIsSurvived
CHECK_DEADLOCK FALSE
