SPECIFICATION Spec
CONSTANTS
  BPS = 10
  YEAR = 2
  VIRTUAL_SHARES = 3
  VIRTUAL_ASSETS = 1
  MULTIPLIER_SCALE = 1
  Lenders = {l1, l2}
  Borrowers = {b1}
  Assets = {x}
  MAX_LOAN_SLOTS = 1
  MAX_COLLATERAL_SLOTS = 1
  MIN_TENURE = 1
  U64_MAX = 99
  CNGN_UNIT = 1
  PROMO_CAP_BPS = 2
  AssetUnit <- MCUnit
  AssetParams <- MCAssetParams
  InitialParams <- MCTerms
  PromoBudget = 0
  PriceViews <- MCFlatView
  DepositAmounts = {2, 3}
  WithdrawAmounts = {2, 99}
  HarvestAmounts = {1}
  LoanAmounts = {4}
  Tenures = {1}
  RepayAmounts = {2, 99}
  LiquidateAmounts = {}
  CollateralAmounts = {4}
  PromoAmounts = {}
  ParamChoices <- MCNoChoices
  AssetParamChoices <- MCNoChoices
  PauseInputs = {FALSE}
  AssetPauseInputs = {}
  BorrowPauseInputs = {}
  DonationAmounts = {1}
  ClawbackAmounts = {}
  MarketClawbackAmounts = {2}
  MaxTime = 2
  MaxLoanId = 1
  MaxRecords = 1
  MaxCash = 6
INVARIANTS
  ReserveIsCash
PROPERTIES
  SharePriceFallsOnlyOnBadDebt
  TradingNeverProfits
  OnlyClawbackOpensAMarketGap
SYMMETRY LenderSymmetry
