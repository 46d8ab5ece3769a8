SPECIFICATION Spec
CONSTANTS
  BPS = 10
  YEAR = 2
  VIRTUAL_SHARES = 3
  VIRTUAL_ASSETS = 1
  MULTIPLIER_SCALE = 1
  Lenders = {l1}
  Borrowers = {b1, b2}
  Assets = {x, y}
  MAX_LOAN_SLOTS = 1
  MAX_COLLATERAL_SLOTS = 2
  MIN_TENURE = 1
  U64_MAX = 99
  CNGN_UNIT = 1
  PROMO_CAP_BPS = 2
  AssetUnit <- MCUnitOfTwo
  AssetParams <- MCCappedAssetParams
  InitialParams <- MCTerms
  PromoBudget = 2
  PriceViews <- MCScaledViews
  DepositAmounts = {6}
  WithdrawAmounts = {}
  HarvestAmounts = {}
  LoanAmounts = {4}
  Tenures = {1}
  RepayAmounts = {99}
  LiquidateAmounts = {99}
  CollateralAmounts = {4}
  PromoAmounts = {2}
  ParamChoices <- MCParamChoices
  AssetParamChoices <- MCAssetParamChoices
  PauseInputs = {TRUE}
  AssetPauseInputs = {}
  BorrowPauseInputs = {TRUE, FALSE}
  DonationAmounts = {}
  ClawbackAmounts = {}
  MarketClawbackAmounts = {}
  MaxTime = 1
  MaxLoanId = 1
  MaxRecords = 1
  MaxCash = 6
INVARIANTS
  DepositsMatchSlots

  
SYMMETRY BorrowerAndAssetSymmetry
