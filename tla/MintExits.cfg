SPECIFICATION FairSpec
CONSTANTS
  Profiles <- MCProfiles
  Kinds = {"Standard", "XStock"}
  Amounts = {1, 2}
  DEPOSIT_CAP = 3
  MaxTaken = 2
INVARIANTS
  TypeOK
  CreditIsCustody
  HeldXStockHasMultiplier
PROPERTIES
  NoExitIsSealed
