SPECIFICATION Spec
CONSTANTS
  BPS = 10
  YEAR = 2
  VIRTUAL_SHARES = 3
  VIRTUAL_ASSETS = 1
  MULTIPLIER_SCALE = 1
  Mints = {1, 2, 3}
  Owners = {w}
  MIN_LTV_BPS = 1
  DEFAULT_PROMO_CAP_BPS = 2
  MAX_LISTED_COLLATERAL = 2
  MAX_MULTIPLIER = 4
  MAX_ACCOUNTS = 3
  ParamChoices <- MCParamChoices
  Caps = {0, 2, 4, 11}
  DepositAmounts = {1, 3}
  WithdrawAmounts = {1, 2}
  DonationAmounts = {1}
  SeizureAmounts = {1}
  PauseInputs = {TRUE, FALSE}
  BorrowPauseInputs = {TRUE, FALSE}
  PricePoints <- MCPoints
INVARIANTS
  EveryListingFitsTheCap
  VaultsCoverHoldings
PROPERTIES
  NoCapSinksAHealthyPosition
