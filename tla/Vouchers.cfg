SPECIFICATION Spec
CONSTANTS
  alice = alice
  bob = bob
  oldKey = oldKey
  newKey = newKey
  Wallets = {alice, bob}
  CampaignIds = {1, 2}
  Vouchers <- MCReissued
  Signers = {oldKey, newKey}
  MAX_CAMPAIGN_LIFETIME = 2
  MAX_PROMO_PER_POSITION = 3
  FundAmounts = {4}
  WithdrawAmounts = {1}
  Budgets = {2}
  ClawbackAmounts = {1}
  DonationAmounts = {1}
  PauseInputs = {TRUE, FALSE}
  MaxTime = 3
  MaxTokens = 4
INVARIANTS
  LedgerMatchesAccounts
  GrantsMatchVouchers
  OneRedemptionPerEpoch
  RentIsBounded
PROPERTIES
  OnlyClawbackOpensAGap
  KeepsTheLedger
