SPECIFICATION Spec
CONSTANTS
  BPS = 10
  YEAR = 2
  VIRTUAL_SHARES = 3
  VIRTUAL_ASSETS = 1
  MULTIPLIER_SCALE = 1
  Lenders = {l1}
  Borrowers = {b1}
  Assets = {x}
  MAX_LOAN_SLOTS = 2
  MAX_COLLATERAL_SLOTS = 1
  MIN_TENURE = 1
  U64_MAX = 99
  CNGN_UNIT = 1
  PROMO_CAP_BPS = 2
  AssetUnit <- MCUnit
  AssetParams <- MCAssetParams
  InitialParams <- MCTerms
  PromoBudget = 0
  PriceViews <- MCThinView
  DepositAmounts = {6}
  WithdrawAmounts = {}
  HarvestAmounts = {}
  LoanAmounts = {2, 3}
  Tenures = {1}
  RepayAmounts = {2, 99}
  LiquidateAmounts = {2, 99}
  CollateralAmounts = {4}
  PromoAmounts = {}
  ParamChoices <- MCParamChoices
  AssetParamChoices <- MCNoChoices
  PauseInputs = {FALSE}
  AssetPauseInputs = {TRUE}
  BorrowPauseInputs = {}
  DonationAmounts = {}
  ClawbackAmounts = {}
  MarketClawbackAmounts = {}
  MaxTime = 3
  MaxLoanId = 2
  MaxRecords = 2
  MaxCash = 6
INVARIANTS
  TypeOK
  BooksMatchLoans
  AccrualCoversLoans
PROPERTIES
  CreditFollowsTheLoan
