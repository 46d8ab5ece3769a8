SPECIFICATION FairSpec
CONSTANTS
  BPS = 10
  YEAR = 2
  VIRTUAL_SHARES = 3
  VIRTUAL_ASSETS = 1
  MULTIPLIER_SCALE = 1
  Lenders = {l1}
  Borrowers = {b1}
  Assets = {x}
  MAX_LOAN_SLOTS = 1
  MAX_COLLATERAL_SLOTS = 1
  MIN_TENURE = 1
  U64_MAX = 99
  CNGN_UNIT = 1
  PROMO_CAP_BPS = 2
  AssetUnit <- MCUnit
  AssetParams <- MCAssetParams
  InitialParams <- MCTerms
  PromoBudget = 2
  PriceViews <- MCBoomAndBust
  DepositAmounts = {6}
  WithdrawAmounts = {}
  HarvestAmounts = {}
  LoanAmounts = {4}
  Tenures = {1}
  RepayAmounts = {}
  LiquidateAmounts = {2}
  CollateralAmounts = {4}
  PromoAmounts = {2}
  ParamChoices <- MCDustChoices
  AssetParamChoices <- MCNoChoices
  PauseInputs = {TRUE}
  AssetPauseInputs = {}
  BorrowPauseInputs = {}
  DonationAmounts = {}
  ClawbackAmounts = {1}
  MarketClawbackAmounts = {}
  MaxTime = 2
  MaxLoanId = 1
  MaxRecords = 1
  MaxCash = 6
PROPERTIES
  UnderwaterIsResolved
