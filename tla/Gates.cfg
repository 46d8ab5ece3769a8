SPECIFICATION FairSpec
CONSTANTS
  k1 = k1
  k2 = k2
  Wallets = {w1, w2}
  Signers = {k1, k2}
  Nominees = {k1, k2}
  InitialConfigs <- MCInitialConfigs
  Borrowers = {w1}
  Lenders = {w1, w2}
  None = None
  Amounts = {1}
  MaxUnits = 1
  RoleInputs = {"Guardian"}
  PauseInputs = {TRUE, FALSE}
PROPERTIES
  AdminCameByProposal
  InactiveWalletsStandStill
  LeavingWalletGetsOut
  UnderwaterIsLiquidated
