SPECIFICATION Spec
CONSTANTS
  BPS = 10
  YEAR = 2
  VIRTUAL_SHARES = 3
  VIRTUAL_ASSETS = 1
  MULTIPLIER_SCALE = 1
  Mints <- MCMints
  Asset <- MCAsset
  Market <- MCMarket
  PythAccounts = {"p1", "p2"}
  PullFeeds = {"f1", "ngn"}
  Stray = "Stray"
  NoPin = "NoPin"
  Positions <- MCPositions
  USD_DECIMALS = 1
  MAX_POW10 = 3
  Pow10 <- MCPow10
  MAX_MULTIPLIER = 3
  Lists <- MCLists
  Posts <- MCPosts
  Cranks <- MCCranks
  Repoints <- MCRepoints
  Multipliers = {2, 4}
  InitialData <- MCInitialData
  MaxTime = 3
INVARIANTS
  AcceptedListIsTheSlots
  PricesAreOwnAndFresh
  MultiplierIsInForce
  RoundingIsBounded
  CallerCannotChoosePinned
