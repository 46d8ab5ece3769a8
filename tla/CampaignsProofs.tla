-------------------------- MODULE CampaignsProofs --------------------------
(***************************************************************************)
(* Proofs about Campaigns, for every value of its constants that satisfies *)
(* CampaignConstants:                                                      *)
(*   CampaignTypes            Spec => []TypeOK                             *)
(*   RentStaysBounded         Spec => []RentIsBounded                      *)
(*   NonceIsSpentOnce         Spec => []OneRedemptionPerEpoch              *)
(*   GapsComeFromClawbacks    Spec => OnlyClawbackOpensAGap                *)
(*   CampaignsKeepTheLedger   Spec => KeepsTheLedger                       *)
(*   LedgerStaysMatched       Spec => []LedgerMatchesAccounts              *)
(*   ForfeitureNeverBlocks    Spec => []ForfeitNeverBlocks                 *)
(*   GrantsAreTheVouchers     Spec => []GrantsMatchVouchers                *)
(* TypeOK is inductive; the next two are inductive together with           *)
(* CampaignEnds and ReceiptsGuardNonces; the two after them follow step by *)
(* step.  The last three are about sums: each step changes one balance,    *)
(* one campaign or one voucher at most (LedgerInv, GrantsInv), and         *)
(* SumsProofs says what that does to a sum.                                *)
(***************************************************************************)
EXTENDS Campaigns, SumsProofs

\* The constants the instructions take their amounts from are naturals.
LEMMA Inputs ==
  /\ FundAmounts \subseteq Nat
  /\ WithdrawAmounts \subseteq Nat
  /\ Budgets \subseteq Nat
  /\ ClawbackAmounts \subseteq Nat
  /\ DonationAmounts \subseteq Nat
  /\ PauseInputs \subseteq BOOLEAN
  /\ MAX_CAMPAIGN_LIFETIME \in Nat
  BY CampaignConstants

\* A voucher the signers sign has the fields of one.
LEMMA VoucherFields ==
  ASSUME NEW v \in Vouchers
  PROVE  /\ v.campaign \in CampaignIds
         /\ v.owner \in Wallets
         /\ v.amount \in Nat
         /\ v.nonce \in Nat
         /\ v.expiry \in Nat
         /\ v.signer \in Signers
         /\ ReceiptFor(v) \in VoucherReceipt
  BY CampaignConstants DEF Voucher, ReceiptFor, VoucherReceipt

\* fund, withdraw, sweep and reconcile keep every account's type.
LEMMA VaultStepType == ASSUME TypeOK, VaultStep PROVE TypeOK'
<1>1. promo_vault \in PromoVault /\ vault_token \in Nat BY DEF TypeOK
<1>2. ASSUME NEW amount \in FundAmounts, FundPromoVault(amount) PROVE TypeOK'
  <2>1. amount \in Nat BY Inputs
  <2>2. promo_vault.cash + amount \in Nat /\ vault_token + amount \in Nat
    BY <1>1, <2>1 DEF PromoVault
  <2>3. promo_vault' \in PromoVault BY <1>1, <1>2, <2>2 DEF FundPromoVault, PromoVault
  <2> QED BY <1>2, <2>2, <2>3 DEF FundPromoVault, TypeOK
<1>3. ASSUME NEW amount \in WithdrawAmounts, WithdrawPromoVault(amount) PROVE TypeOK'
  <2>1. amount \in Nat BY Inputs
  <2>2. /\ amount <= promo_vault.cash - (promo_vault.outstanding + promo_vault.unissued)
        /\ amount <= vault_token
    BY <1>3 DEF WithdrawPromoVault, IsFree, VaultPays, Committed
  <2>3. promo_vault.cash - amount \in Nat /\ vault_token - amount \in Nat
    BY <1>1, <2>1, <2>2 DEF PromoVault
  <2>4. promo_vault' \in PromoVault BY <1>1, <1>3, <2>3 DEF WithdrawPromoVault, PromoVault
  <2> QED BY <1>3, <2>3, <2>4 DEF WithdrawPromoVault, TypeOK
<1>4. CASE SweepPromoExcess
  BY <1>1, <1>4 DEF SweepPromoExcess, RecordedTokens, PromoVault, TypeOK
<1>5. CASE ReconcilePromoVault
  <2>1. promo_vault' \in PromoVault BY <1>1, <1>5 DEF ReconcilePromoVault, PromoVault
  <2> QED BY <1>5, <2>1 DEF ReconcilePromoVault, TypeOK
<1> QED BY <1>2, <1>3, <1>4, <1>5 DEF VaultStep

\* create_campaign and close_campaign keep every account's type.
LEMMA CampaignStepType == ASSUME TypeOK, CampaignStep PROVE TypeOK'
<1>1. /\ promo_vault \in PromoVault /\ now \in Nat
      /\ campaign \in [CampaignIds -> Campaign]
  BY DEF TypeOK
<1>2. ASSUME NEW c \in CampaignIds, NEW budget \in Budgets,
             NEW until \in 0..(MaxTime + MAX_CAMPAIGN_LIFETIME),
             CreateCampaign(c, budget, until)
      PROVE  TypeOK'
  <2>1. budget \in Nat BY Inputs
  <2>2. until \in Nat BY CampaignConstants
  <2>3. promo_vault.unissued + budget \in Nat BY <1>1, <2>1 DEF PromoVault
  <2>4. promo_vault' \in PromoVault BY <1>1, <1>2, <2>3 DEF CreateCampaign, PromoVault
  <2>5. campaign' \in [CampaignIds -> Campaign]
    BY <1>1, <1>2, <2>1, <2>2 DEF CreateCampaign, Campaign
  <2> QED BY <1>2, <2>4, <2>5 DEF CreateCampaign, TypeOK
<1>3. ASSUME NEW c \in CampaignIds, CloseCampaign(c) PROVE TypeOK'
  <2>1. campaign[c].budget \in Nat /\ campaign[c].granted \in Nat BY <1>1 DEF Campaign
  <2>2. promo_vault.unissued - Unspent(campaign[c]) \in Nat
    BY <1>1, <1>3, <2>1 DEF CloseCampaign, Unspent, PromoVault
  <2>3. promo_vault' \in PromoVault BY <1>1, <1>3, <2>2 DEF CloseCampaign, PromoVault
  <2>4. campaign' \in [CampaignIds -> Campaign] BY <1>1, <1>3 DEF CloseCampaign, Campaign
  <2> QED BY <1>3, <2>3, <2>4 DEF CloseCampaign, TypeOK
<1> QED BY <1>2, <1>3 DEF CampaignStep

\* redeem_promo and close_voucher_receipt keep every account's type.
LEMMA VoucherStepType == ASSUME TypeOK, VoucherStep PROVE TypeOK'
<1>1. /\ promo_vault \in PromoVault /\ now \in Nat
      /\ campaign \in [CampaignIds -> Campaign]
      /\ promo_balance \in [Wallets -> Nat]
  BY DEF TypeOK
<1>2. ASSUME NEW v \in Vouchers, RedeemPromo(v) PROVE TypeOK'
  <2>1. v.campaign \in CampaignIds /\ v.owner \in Wallets /\ v.amount \in Nat
        /\ ReceiptFor(v) \in VoucherReceipt
    BY VoucherFields
  <2>2. campaign[v.campaign] \in Campaign /\ promo_balance[v.owner] \in Nat BY <1>1, <2>1
  <2>3. /\ promo_vault.unissued - v.amount \in Nat
        /\ promo_vault.outstanding + v.amount \in Nat
    BY <1>1, <1>2, <2>1 DEF RedeemPromo, PromoVault
  <2>4. promo_vault' \in PromoVault BY <1>1, <1>2, <2>3 DEF RedeemPromo, PromoVault
  <2>5. [campaign[v.campaign] EXCEPT !.granted = @ + v.amount] \in Campaign
    <3>1. campaign[v.campaign].granted + v.amount \in Nat BY <2>1, <2>2 DEF Campaign
    <3> QED BY <2>2, <3>1 DEF Campaign
  <2>6. campaign' = [campaign EXCEPT ![v.campaign] =
                        [campaign[v.campaign] EXCEPT !.granted = @ + v.amount]]
    BY <1>2 DEF RedeemPromo
  <2>7. campaign' \in [CampaignIds -> Campaign] BY <1>1, <2>5, <2>6
  <2>8. promo_balance' \in [Wallets -> Nat]
    <3>1. promo_balance[v.owner] + v.amount \in Nat BY <2>1, <2>2
    <3> QED BY <1>1, <1>2, <3>1 DEF RedeemPromo
  <2>9. receipts' \subseteq VoucherReceipt BY <1>2, <2>1 DEF RedeemPromo, TypeOK
  <2>10. redemptions' \subseteq Redemption BY <1>1, <1>2 DEF RedeemPromo, Redemption, TypeOK
  <2> QED BY <1>2, <2>4, <2>7, <2>8, <2>9, <2>10 DEF RedeemPromo, TypeOK
<1>3. ASSUME NEW r \in receipts, CloseVoucherReceipt(r) PROVE TypeOK'
  BY <1>3 DEF CloseVoucherReceipt, TypeOK
<1> QED BY <1>2, <1>3 DEF VoucherStep

\* What a forfeiture takes out is natural, and there.
LEMMA ForfeitFacts ==
  ASSUME TypeOK, NEW w \in Wallets, ForfeitPromo(w)
  PROVE  /\ promo_balance[w] \in Nat /\ promo_balance[w] > 0
         /\ Payable(w) \in Nat /\ Payable(w) <= promo_balance[w]
         /\ promo_vault.outstanding - promo_balance[w] \in Nat
         /\ promo_vault.cash - Payable(w) \in Nat
         /\ vault_token - Payable(w) \in Nat
         /\ promo_vault'.outstanding = promo_vault.outstanding - promo_balance[w]
         /\ promo_vault'.cash = promo_vault.cash - Payable(w)
         /\ promo_vault'.unissued = promo_vault.unissued
         /\ promo_vault' \in PromoVault
<1>1. promo_vault \in PromoVault /\ vault_token \in Nat /\ promo_balance[w] \in Nat
  BY DEF TypeOK
<1>2. promo_vault.cash \in Nat /\ promo_vault.outstanding \in Nat BY <1>1 DEF PromoVault
<1>3. Payable(w) \in Nat /\ Payable(w) <= promo_balance[w] BY <1>1 DEF Payable
<1>4. /\ promo_balance[w] > 0 /\ promo_balance[w] <= promo_vault.outstanding
      /\ Payable(w) <= vault_token /\ Payable(w) <= promo_vault.cash
  BY DEF ForfeitPromo, CanForfeit, VaultPays
<1>5. promo_vault' = [promo_vault EXCEPT !.outstanding = @ - promo_balance[w],
                                         !.cash = @ - Payable(w)]
  BY DEF ForfeitPromo, LedgerAfterForfeit
<1>6. /\ promo_vault.outstanding - promo_balance[w] \in Nat
      /\ promo_vault.cash - Payable(w) \in Nat
      /\ vault_token - Payable(w) \in Nat
  BY <1>1, <1>2, <1>3, <1>4
<1> QED BY <1>1, <1>3, <1>4, <1>5, <1>6 DEF PromoVault

\* Releasing and forfeiting promo keep every account's type.
LEMMA PositionStepType == ASSUME TypeOK, PositionStep PROVE TypeOK'
<1>1. promo_vault \in PromoVault /\ promo_balance \in [Wallets -> Nat] BY DEF TypeOK
<1>2. ASSUME NEW w \in Wallets, ReleasePromo(w) PROVE TypeOK'
  <2>1. promo_vault.outstanding - promo_balance[w] \in Nat
    BY <1>1, <1>2 DEF ReleasePromo, PromoVault
  <2>2. promo_vault' \in PromoVault BY <1>1, <1>2, <2>1 DEF ReleasePromo, PromoVault
  <2> QED BY <1>1, <1>2, <2>2 DEF ReleasePromo, TypeOK
<1>3. ASSUME NEW w \in Wallets, ForfeitPromo(w) PROVE TypeOK'
  <2>1. promo_vault' \in PromoVault /\ vault_token - Payable(w) \in Nat
    BY <1>3, ForfeitFacts
  <2>2. promo_balance' \in [Wallets -> Nat] BY <1>1, <1>3 DEF ForfeitPromo
  <2> QED BY <1>3, <2>1, <2>2 DEF ForfeitPromo, TypeOK
<1> QED BY <1>2, <1>3 DEF PositionStep

\* Configuration, time, donations and clawbacks keep every account's type.
LEMMA OutsideStepType == ASSUME TypeOK, ConfigStep \/ EnvironmentStep PROVE TypeOK'
<1>1. now \in Nat /\ vault_token \in Nat BY DEF TypeOK
<1>2. ASSUME NEW s \in Signers, SetPromoSigner(s) PROVE TypeOK'
  BY <1>2 DEF SetPromoSigner, TypeOK
<1>3. ASSUME NEW flag \in PauseInputs, SetMarketPaused(flag) PROVE TypeOK'
  <2>1. flag \in BOOLEAN BY Inputs
  <2> QED BY <1>3, <2>1 DEF SetMarketPaused, TypeOK
<1>4. CASE Tick
  BY <1>1, <1>4 DEF Tick, TypeOK
<1>5. ASSUME NEW amount \in DonationAmounts, Donate(amount) PROVE TypeOK'
  <2>1. vault_token + amount \in Nat BY <1>1, Inputs
  <2> QED BY <1>5, <2>1 DEF Donate, TypeOK
<1>6. ASSUME NEW amount \in ClawbackAmounts, Clawback(amount) PROVE TypeOK'
  <2>1. amount \in Nat BY Inputs
  <2>2. vault_token - amount \in Nat BY <1>1, <1>6, <2>1 DEF Clawback
  <2> QED BY <1>6, <2>2 DEF Clawback, TypeOK
<1> QED BY <1>2, <1>3, <1>4, <1>5, <1>6 DEF ConfigStep, EnvironmentStep

\* A vault just created has its type.
LEMMA InitTypes == Init => TypeOK
<1> SUFFICES ASSUME Init PROVE TypeOK OBVIOUS
<1>1. NoCampaign \in Campaign BY DEF NoCampaign, Campaign
<1>2. promo_vault \in PromoVault BY DEF Init, PromoVault
<1> QED BY <1>1, <1>2 DEF Init, TypeOK

\* TypeOK is inductive.
LEMMA NextTypes == TypeOK /\ [Next]_vars => TypeOK'
<1> SUFFICES ASSUME TypeOK, [Next]_vars PROVE TypeOK' OBVIOUS
<1>1. CASE UNCHANGED vars BY <1>1 DEF vars, TypeOK
<1> QED BY <1>1, VaultStepType, CampaignStepType, VoucherStepType, PositionStepType,
           OutsideStepType DEF Next

\* In every reachable state every account of the promo side has its type: no
\* balance, budget or liability goes below zero.
THEOREM CampaignTypes == Spec => []TypeOK
BY InitTypes, NextTypes, PTL DEF Spec

-----------------------------------------------------------------------------
(* Rent *)

\* What RentIsBounded rests on: a campaign that runs was created, a created one
\* ends within the lifetime, and receipts belong to created campaigns, whose end
\* is never moved.
CampaignEnds ==
    /\ \A c \in CampaignIds :
          /\ campaign[c].active => campaign[c].created
          /\ campaign[c].created => campaign[c].redeem_until <= now + MAX_CAMPAIGN_LIFETIME
    /\ \A r \in receipts : campaign[r.campaign].created

\* A created campaign stays created with the same end, and one just created ends
\* within the lifetime.
LEMMA CampaignsKeepTheirEnd ==
  ASSUME TypeOK, [Next]_vars, NEW c \in CampaignIds
  PROVE  /\ campaign[c].created =>
               /\ campaign'[c].created
               /\ campaign'[c].redeem_until = campaign[c].redeem_until
         /\ ~campaign[c].created /\ campaign'[c].created =>
               campaign'[c].redeem_until <= now + MAX_CAMPAIGN_LIFETIME
         /\ campaign'[c].active /\ ~campaign[c].active => campaign'[c].created
<1> DEFINE Keeps ==
      /\ campaign[c].created =>
            /\ campaign'[c].created
            /\ campaign'[c].redeem_until = campaign[c].redeem_until
      /\ ~campaign[c].created /\ campaign'[c].created =>
            campaign'[c].redeem_until <= now + MAX_CAMPAIGN_LIFETIME
      /\ campaign'[c].active /\ ~campaign[c].active => campaign'[c].created
<1>1. campaign \in [CampaignIds -> Campaign] BY DEF TypeOK
<1>2. ASSUME NEW d \in CampaignIds, NEW budget \in Budgets,
             NEW until \in 0..(MaxTime + MAX_CAMPAIGN_LIFETIME),
             CreateCampaign(d, budget, until)
      PROVE  Keeps
  <2>1. CASE c = d BY <1>1, <1>2, <2>1 DEF CreateCampaign
  <2>2. CASE c # d BY <1>1, <1>2, <2>2 DEF CreateCampaign
  <2> QED BY <2>1, <2>2
<1>3. ASSUME NEW d \in CampaignIds, CloseCampaign(d) PROVE Keeps
  BY <1>1, <1>3 DEF CloseCampaign, Campaign
<1>4. ASSUME NEW v \in Vouchers, RedeemPromo(v) PROVE Keeps
  <2>1. v.campaign \in CampaignIds BY VoucherFields
  <2> QED BY <1>1, <1>4, <2>1 DEF RedeemPromo, Campaign
<1>5. ASSUME UNCHANGED campaign PROVE Keeps
  BY <1>5
<1>6. ASSUME VaultStep \/ PositionStep \/ ConfigStep \/ EnvironmentStep \/ UNCHANGED vars
      PROVE  Keeps
  BY <1>5, <1>6 DEF VaultStep, FundPromoVault, WithdrawPromoVault, SweepPromoExcess,
     ReconcilePromoVault, PositionStep, ReleasePromo, ForfeitPromo, ConfigStep, SetPromoSigner,
     SetMarketPaused, EnvironmentStep, Tick, Donate, Clawback, vars
<1>7. ASSUME NEW r \in receipts, CloseVoucherReceipt(r) PROVE Keeps
  BY <1>5, <1>7 DEF CloseVoucherReceipt
<1> HIDE DEF Keeps
<1>8. ASSUME CampaignStep PROVE Keeps BY <1>2, <1>3, <1>8 DEF CampaignStep
<1>9. ASSUME VoucherStep PROVE Keeps BY <1>4, <1>7, <1>9 DEF VoucherStep
<1>10. Keeps BY <1>6, <1>8, <1>9 DEF Next
<1> QED BY <1>10 DEF Keeps

\* Receipts and the history change in redeem_promo and close_voucher_receipt
\* only, and the clock never goes back.
LEMMA ReceiptsChange ==
  ASSUME TypeOK, [Next]_vars
  PROVE  /\ now' \in Nat /\ now <= now'
         /\ \/ \E v \in Vouchers : RedeemPromo(v)
            \/ \E r \in receipts : CloseVoucherReceipt(r)
            \/ UNCHANGED <<receipts, redemptions>>
<1>1. now \in Nat BY DEF TypeOK
<1>2. CASE Tick BY <1>1, <1>2 DEF Tick
<1>3. CASE VoucherStep
  <2>1. now' = now BY <1>3 DEF VoucherStep, RedeemPromo, CloseVoucherReceipt
  <2> QED BY <1>1, <1>3, <2>1 DEF VoucherStep
<1>4. CASE VaultStep
  BY <1>1, <1>4 DEF VaultStep, FundPromoVault, WithdrawPromoVault, SweepPromoExcess,
     ReconcilePromoVault
<1>5. CASE CampaignStep BY <1>1, <1>5 DEF CampaignStep, CreateCampaign, CloseCampaign
<1>6. CASE PositionStep BY <1>1, <1>6 DEF PositionStep, ReleasePromo, ForfeitPromo
<1>7. CASE ConfigStep BY <1>1, <1>7 DEF ConfigStep, SetPromoSigner, SetMarketPaused
<1>8. ASSUME NEW amount, Donate(amount) \/ Clawback(amount)
      PROVE  UNCHANGED <<now, receipts, redemptions>>
  BY <1>8 DEF Donate, Clawback
<1>9. CASE UNCHANGED vars BY <1>1, <1>9 DEF vars
<1> QED BY <1>1, <1>2, <1>3, <1>4, <1>5, <1>6, <1>7, <1>8, <1>9 DEF Next, EnvironmentStep

\* CampaignEnds is inductive relative to TypeOK.
LEMMA NextCampaignEnds == TypeOK /\ CampaignEnds /\ [Next]_vars => CampaignEnds'
<1> SUFFICES ASSUME TypeOK, CampaignEnds, [Next]_vars PROVE CampaignEnds' OBVIOUS
<1>1. now \in Nat /\ now' \in Nat /\ now <= now' /\ MAX_CAMPAIGN_LIFETIME \in Nat
  BY ReceiptsChange, Inputs DEF TypeOK
<1>2. campaign \in [CampaignIds -> Campaign] /\ campaign' \in [CampaignIds -> Campaign]
  BY NextTypes DEF TypeOK
<1>3. ASSUME NEW c \in CampaignIds
      PROVE  /\ campaign'[c].active => campaign'[c].created
             /\ campaign'[c].created => campaign'[c].redeem_until <= now' + MAX_CAMPAIGN_LIFETIME
  <2>1. campaign'[c].redeem_until \in Nat BY <1>2 DEF Campaign
  <2>2. campaign'[c].active => campaign'[c].created
    BY CampaignsKeepTheirEnd DEF CampaignEnds
  <2>3. campaign'[c].created => campaign'[c].redeem_until <= now + MAX_CAMPAIGN_LIFETIME
    BY CampaignsKeepTheirEnd DEF CampaignEnds
  <2> QED BY <1>1, <2>1, <2>2, <2>3
<1>4. ASSUME NEW r \in receipts' PROVE campaign'[r.campaign].created
  <2>1. r \in VoucherReceipt BY NextTypes DEF TypeOK
  <2>2. r.campaign \in CampaignIds BY <2>1 DEF VoucherReceipt
  <2>3. CASE r \in receipts BY <2>2, <2>3, CampaignsKeepTheirEnd DEF CampaignEnds
  <2>4. CASE r \notin receipts
    <3>1. PICK v \in Vouchers : RedeemPromo(v)
      BY <2>4, ReceiptsChange DEF CloseVoucherReceipt
    <3>2. r.campaign = v.campaign BY <2>4, <3>1 DEF RedeemPromo, ReceiptFor
    <3>3. campaign[r.campaign].active BY <3>1, <3>2 DEF RedeemPromo, CampaignHonours
    <3> QED BY <2>2, <3>3, CampaignsKeepTheirEnd DEF CampaignEnds
  <2> QED BY <2>3, <2>4
<1> QED BY <1>3, <1>4 DEF CampaignEnds

\* RentIsBounded is inductive relative to TypeOK and CampaignEnds.
LEMMA NextRentIsBounded ==
  TypeOK /\ CampaignEnds /\ RentIsBounded /\ [Next]_vars => RentIsBounded'
<1> SUFFICES ASSUME TypeOK, CampaignEnds, RentIsBounded, [Next]_vars
             PROVE  RentIsBounded'
  OBVIOUS
<1>1. ASSUME NEW r \in receipts' PROVE r.voucher_expiry <= campaign'[r.campaign].redeem_until
  <2>1. r \in VoucherReceipt BY NextTypes DEF TypeOK
  <2>2. r.campaign \in CampaignIds BY <2>1 DEF VoucherReceipt
  <2>3. CASE r \in receipts
    BY <2>2, <2>3, CampaignsKeepTheirEnd DEF CampaignEnds, RentIsBounded
  <2>4. CASE r \notin receipts
    <3>1. PICK v \in Vouchers : RedeemPromo(v)
      BY <2>4, ReceiptsChange DEF CloseVoucherReceipt
    <3>2. r.campaign = v.campaign /\ r.voucher_expiry = v.expiry
      BY <2>4, <3>1 DEF RedeemPromo, ReceiptFor
    <3>3. /\ campaign[r.campaign].active
          /\ r.voucher_expiry <= campaign[r.campaign].redeem_until
      BY <3>1, <3>2 DEF RedeemPromo, CampaignHonours
    <3> QED BY <2>2, <3>3, CampaignsKeepTheirEnd DEF CampaignEnds
  <2> QED BY <2>3, <2>4
<1>2. ASSUME NEW e \in redemptions'
      PROVE  e.voucher.expiry <= e.at + MAX_CAMPAIGN_LIFETIME
  <2>1. CASE e \in redemptions BY <2>1 DEF RentIsBounded
  <2>2. CASE e \notin redemptions
    <3>1. PICK v \in Vouchers : RedeemPromo(v)
      BY <2>2, ReceiptsChange DEF CloseVoucherReceipt
    <3>2. e = [voucher |-> v, at |-> now] BY <2>2, <3>1 DEF RedeemPromo
    <3>3. v.campaign \in CampaignIds /\ v.expiry \in Nat BY VoucherFields
    <3>4. /\ v.expiry <= campaign[v.campaign].redeem_until
          /\ campaign[v.campaign].redeem_until <= now + MAX_CAMPAIGN_LIFETIME
      BY <3>1, <3>3 DEF RedeemPromo, CampaignHonours, CampaignEnds
    <3>5. campaign[v.campaign].redeem_until \in Nat /\ now \in Nat
          /\ MAX_CAMPAIGN_LIFETIME \in Nat
      BY <3>3, Inputs DEF TypeOK, Campaign
    <3>6. v.expiry <= now + MAX_CAMPAIGN_LIFETIME BY <3>3, <3>4, <3>5
    <3> QED BY <3>2, <3>6
  <2> QED BY <2>1, <2>2
<1> QED BY <1>1, <1>2 DEF RentIsBounded

\* The rent of a receipt is never locked beyond its campaign, nor longer than the
\* longest campaign may run, whatever campaigns are closed and vouchers presented.
THEOREM RentStaysBounded == Spec => []RentIsBounded
<1>1. Init => CampaignEnds /\ RentIsBounded
  BY DEF Init, CampaignEnds, RentIsBounded, NoCampaign
<1>2. Spec => []CampaignEnds
  BY <1>1, CampaignTypes, NextCampaignEnds, PTL DEF Spec
<1> QED BY <1>1, <1>2, CampaignTypes, NextRentIsBounded, PTL DEF Spec

-----------------------------------------------------------------------------
(* Nonces *)

\* What OneRedemptionPerEpoch rests on: as long as a redeemed voucher could be
\* presented again, its receipt is there.
ReceiptsGuardNonces ==
    \A e \in redemptions :
        /\ e.at <= now
        /\ now <= e.voucher.expiry => ReceiptFor(e.voucher) \in receipts

\* Receipts are only closed once no voucher they guard can be presented.
LEMMA NextReceiptsGuardNonces ==
  TypeOK /\ ReceiptsGuardNonces /\ [Next]_vars => ReceiptsGuardNonces'
<1> SUFFICES ASSUME TypeOK, ReceiptsGuardNonces, [Next]_vars,
                    NEW e \in redemptions'
             PROVE  /\ e.at <= now'
                    /\ now' <= e.voucher.expiry => ReceiptFor(e.voucher) \in receipts'
  BY DEF ReceiptsGuardNonces, ReceiptFor
<1>1. now \in Nat /\ now' \in Nat /\ now <= now' BY ReceiptsChange DEF TypeOK
<1>2. e \in Redemption BY NextTypes DEF TypeOK
<1>3. e.voucher \in Vouchers /\ e.at \in Nat BY <1>2 DEF Redemption
<1>4. e.voucher.expiry \in Nat BY <1>3, VoucherFields
<1>5. CASE e \in redemptions
  <2>1. e.at <= now' BY <1>1, <1>3, <1>5 DEF ReceiptsGuardNonces
  <2>2. ASSUME now' <= e.voucher.expiry PROVE ReceiptFor(e.voucher) \in receipts'
    <3>1. ReceiptFor(e.voucher) \in receipts
      BY <1>1, <1>4, <1>5, <2>2 DEF ReceiptsGuardNonces
    <3>2. ASSUME NEW r \in receipts, CloseVoucherReceipt(r), r = ReceiptFor(e.voucher)
          PROVE  FALSE
      <4>1. now > e.voucher.expiry
        BY <3>2 DEF CloseVoucherReceipt, ReceiptExpired, ReceiptFor
      <4> QED BY <1>1, <1>4, <2>2, <4>1
    <3> QED BY <3>1, <3>2, ReceiptsChange DEF RedeemPromo, CloseVoucherReceipt
  <2> QED BY <2>1, <2>2
<1>6. CASE e \notin redemptions
  <2>1. PICK v \in Vouchers : RedeemPromo(v)
    BY <1>6, ReceiptsChange DEF CloseVoucherReceipt
  <2>2. e = [voucher |-> v, at |-> now] BY <1>6, <2>1 DEF RedeemPromo
  <2>3. ReceiptFor(v) \in receipts' BY <2>1 DEF RedeemPromo
  <2> QED BY <1>1, <2>2, <2>3
<1> QED BY <1>5, <1>6

\* OneRedemptionPerEpoch is inductive relative to ReceiptsGuardNonces.
LEMMA NextOneRedemption ==
  TypeOK /\ ReceiptsGuardNonces /\ OneRedemptionPerEpoch /\ [Next]_vars
    => OneRedemptionPerEpoch'
<1> SUFFICES ASSUME TypeOK, ReceiptsGuardNonces, OneRedemptionPerEpoch, [Next]_vars
             PROVE  OneRedemptionPerEpoch'
  OBVIOUS
<1>1. CASE UNCHANGED redemptions BY <1>1 DEF OneRedemptionPerEpoch
<1>2. ASSUME NEW v \in Vouchers, RedeemPromo(v) PROVE OneRedemptionPerEpoch'
  <2> DEFINE new == [voucher |-> v, at |-> now]
  <2>1. redemptions' = redemptions \cup {new} BY <1>2 DEF RedeemPromo
  <2>2. ASSUME NEW e \in redemptions, e.voucher.campaign = v.campaign,
               e.voucher.nonce = v.nonce
        PROVE  now > e.voucher.expiry
    <3>1. e \in Redemption /\ now \in Nat BY DEF TypeOK
    <3>2. e.voucher \in Vouchers BY <3>1 DEF Redemption
    <3>3. e.voucher.expiry \in Nat BY <3>2, VoucherFields
    <3>4. ReceiptFor(e.voucher) \notin receipts
      BY <1>2, <2>2 DEF RedeemPromo, ReceiptExists, ReceiptFor
    <3>5. ~(now <= e.voucher.expiry) BY <3>4 DEF ReceiptsGuardNonces
    <3> QED BY <3>1, <3>3, <3>5
  <2>3. new.voucher = v /\ new.at = now OBVIOUS
  <2> HIDE DEF new
  <2>4. ASSUME NEW e \in redemptions', NEW f \in redemptions',
               e.voucher.campaign = f.voucher.campaign, e.voucher.nonce = f.voucher.nonce
        PROVE  e = f \/ e.at > f.voucher.expiry \/ f.at > e.voucher.expiry
    <3>1. CASE e \in redemptions /\ f \in redemptions
      BY <2>4, <3>1 DEF OneRedemptionPerEpoch
    <3>2. CASE e \in redemptions /\ f = new BY <2>2, <2>3, <2>4, <3>2
    <3>3. CASE e = new /\ f \in redemptions BY <2>2, <2>3, <2>4, <3>3
    <3>4. CASE e = new /\ f = new BY <3>4
    <3> QED BY <2>1, <3>1, <3>2, <3>3, <3>4
  <2> QED BY <2>4 DEF OneRedemptionPerEpoch
<1> QED BY <1>1, <1>2, ReceiptsChange DEF CloseVoucherReceipt

\* No nonce of a campaign is redeemed twice before its voucher expired, whoever
\* closes receipts and however often vouchers are presented or signed again.
THEOREM NonceIsSpentOnce == Spec => []OneRedemptionPerEpoch
<1>1. Init => ReceiptsGuardNonces /\ OneRedemptionPerEpoch
  BY DEF Init, ReceiptsGuardNonces, OneRedemptionPerEpoch
<1>2. Spec => []ReceiptsGuardNonces
  BY <1>1, CampaignTypes, NextReceiptsGuardNonces, PTL DEF Spec
<1> QED BY <1>1, <1>2, CampaignTypes, NextOneRedemption, PTL DEF Spec

-----------------------------------------------------------------------------
(* The vault *)

\* What a step that leaves the vault and its ledger alone leaves alone.
LEMMA VaultUntouched ==
  ASSUME ConfigStep \/ Tick \/ (\E r \in receipts : CloseVoucherReceipt(r)) \/ UNCHANGED vars
  PROVE  UNCHANGED <<promo_vault, vault_token>>
  BY DEF ConfigStep, SetPromoSigner, SetMarketPaused, Tick, CloseVoucherReceipt, vars

\* A step other than a clawback that leaves the vault short of its ledger leaves
\* it no shorter than it was.
LEMMA StepOpensNoGap ==
  ASSUME TypeOK, [Next]_vars,
         NEW gap, gap = promo_vault.cash - vault_token,
         NEW next, next = promo_vault'.cash - vault_token',
         next > 0, next > gap
  PROVE  \E amount \in ClawbackAmounts : Clawback(amount)
<1>1. promo_vault \in PromoVault /\ promo_vault.cash \in Nat /\ vault_token \in Nat
  BY DEF TypeOK, PromoVault
<1>2. ASSUME NEW amount \in FundAmounts, FundPromoVault(amount) PROVE FALSE
  <2>1. amount \in Nat BY Inputs
  <2>2. promo_vault'.cash = promo_vault.cash + amount /\ vault_token' = vault_token + amount
    BY <1>1, <1>2 DEF FundPromoVault, PromoVault
  <2> QED BY <1>1, <2>1, <2>2
<1>3. ASSUME NEW amount \in WithdrawAmounts, WithdrawPromoVault(amount) PROVE FALSE
  <2>1. amount \in Nat BY Inputs
  <2>2. promo_vault'.cash = promo_vault.cash - amount /\ vault_token' = vault_token - amount
    BY <1>1, <1>3 DEF WithdrawPromoVault, PromoVault
  <2> QED BY <1>1, <2>1, <2>2
<1>4. ASSUME SweepPromoExcess PROVE FALSE
  BY <1>1, <1>4 DEF SweepPromoExcess, RecordedTokens
<1>5. ASSUME ReconcilePromoVault PROVE FALSE
  <2>1. promo_vault'.cash = vault_token /\ vault_token' = vault_token
    BY <1>1, <1>5 DEF ReconcilePromoVault, PromoVault
  <2> QED BY <1>1, <2>1
<1>6. ASSUME UNCHANGED vault_token, promo_vault'.cash = promo_vault.cash PROVE FALSE
  BY <1>1, <1>6
<1>7. ASSUME CampaignStep PROVE FALSE
  BY <1>1, <1>6, <1>7 DEF CampaignStep, CreateCampaign, CloseCampaign, PromoVault
<1>8. ASSUME NEW v \in Vouchers, RedeemPromo(v) PROVE FALSE
  BY <1>1, <1>6, <1>8 DEF RedeemPromo, PromoVault
<1>9. ASSUME NEW w \in Wallets, ReleasePromo(w) PROVE FALSE
  BY <1>1, <1>6, <1>9 DEF ReleasePromo, PromoVault
<1>10. ASSUME NEW w \in Wallets, ForfeitPromo(w) PROVE FALSE
  <2>1. /\ Payable(w) \in Nat /\ promo_vault'.cash = promo_vault.cash - Payable(w)
        /\ vault_token' = vault_token - Payable(w)
    BY <1>10, ForfeitFacts DEF ForfeitPromo
  <2> QED BY <1>1, <2>1
<1>11. ASSUME NEW amount \in DonationAmounts, Donate(amount) PROVE FALSE
  <2>1. amount \in Nat BY Inputs
  <2>2. promo_vault' = promo_vault /\ vault_token' = vault_token + amount
    BY <1>11 DEF Donate
  <2> QED BY <1>1, <2>1, <2>2
<1>12. ASSUME ConfigStep \/ Tick \/ (\E r \in receipts : CloseVoucherReceipt(r)) \/ UNCHANGED vars
       PROVE  FALSE
  BY <1>6, <1>12, VaultUntouched
<1> QED
  BY <1>2, <1>3, <1>4, <1>5, <1>7, <1>8, <1>9, <1>10, <1>11, <1>12
  DEF Next, VaultStep, VoucherStep, PositionStep, EnvironmentStep

\* Only the issuer's clawback leaves the vault short of what it records.
THEOREM GapsComeFromClawbacks == Spec => OnlyClawbackOpensAGap
<1>1. TypeOK /\ [Next]_vars =>
        [ LET gap == promo_vault.cash - vault_token
          IN  gap' > 0 /\ gap' > gap => \E amount \in ClawbackAmounts : Clawback(amount) ]_vars
  BY StepOpensNoGap
<1> QED BY <1>1, CampaignTypes, PTL DEF Spec, OnlyClawbackOpensAGap

\* Funding, withdrawing, sweeping and reconciling are steps of the ledger.
LEMMA VaultStepKeepsLedger ==
  ASSUME TypeOK, VaultStep
  PROVE  Ledger!Fund \/ Ledger!TakeFree \/ UNCHANGED promo_vault
<1>1. /\ promo_vault \in PromoVault /\ vault_token \in Nat
      /\ promo_vault.cash \in Nat /\ promo_vault.outstanding \in Nat
      /\ promo_vault.unissued \in Nat
  BY DEF TypeOK, PromoVault
<1>2. ASSUME NEW amount \in FundAmounts, FundPromoVault(amount) PROVE Ledger!Fund
  <2>1. amount \in Nat /\ amount > 0 BY <1>2, Inputs DEF FundPromoVault
  <2>2. /\ promo_vault'.cash = promo_vault.cash + amount
        /\ promo_vault'.outstanding = promo_vault.outstanding
        /\ promo_vault'.unissued = promo_vault.unissued
    BY <1>1, <1>2 DEF FundPromoVault, PromoVault
  <2> QED BY <1>1, <2>1, <2>2 DEF Ledger!Fund
<1>3. ASSUME NEW amount \in WithdrawAmounts, WithdrawPromoVault(amount) PROVE Ledger!TakeFree
  <2>1. amount \in Nat /\ amount > 0 BY <1>3, Inputs DEF WithdrawPromoVault
  <2>2. /\ promo_vault'.cash = promo_vault.cash - amount
        /\ promo_vault'.outstanding = promo_vault.outstanding
        /\ promo_vault'.unissued = promo_vault.unissued
    BY <1>1, <1>3 DEF WithdrawPromoVault, PromoVault
  <2>3. promo_vault.outstanding + promo_vault.unissued <= promo_vault.cash - amount
    BY <1>1, <1>3, <2>1 DEF WithdrawPromoVault, IsFree, Committed
  <2> QED BY <1>1, <2>1, <2>2, <2>3 DEF Ledger!TakeFree, Ledger!Committed
<1>4. CASE SweepPromoExcess BY <1>4 DEF SweepPromoExcess
<1>5. ASSUME ReconcilePromoVault PROVE Ledger!TakeFree
  <2>1. /\ promo_vault'.cash = vault_token /\ vault_token < promo_vault.cash
        /\ promo_vault'.outstanding = promo_vault.outstanding
        /\ promo_vault'.unissued = promo_vault.unissued
    BY <1>1, <1>5 DEF ReconcilePromoVault, PromoVault
  <2>2. promo_vault.outstanding + promo_vault.unissued <= vault_token
    BY <1>5, <2>1 DEF ReconcilePromoVault, Solvent, Committed
  <2> QED BY <1>1, <2>1, <2>2 DEF Ledger!TakeFree, Ledger!Committed
<1> QED BY <1>2, <1>3, <1>4, <1>5 DEF VaultStep

\* Creating and closing a campaign are steps of the ledger; closing one that has
\* nothing left changes nothing.
LEMMA CampaignStepKeepsLedger ==
  ASSUME TypeOK, CampaignStep
  PROVE  Ledger!Commit \/ Ledger!Return \/ UNCHANGED promo_vault
<1>1. /\ promo_vault \in PromoVault
      /\ promo_vault.cash \in Nat /\ promo_vault.outstanding \in Nat
      /\ promo_vault.unissued \in Nat
  BY DEF TypeOK, PromoVault
<1>2. ASSUME NEW c \in CampaignIds, NEW budget \in Budgets,
             NEW until \in 0..(MaxTime + MAX_CAMPAIGN_LIFETIME),
             CreateCampaign(c, budget, until)
      PROVE  Ledger!Commit
  <2>1. budget \in Nat /\ budget > 0 BY <1>2, Inputs DEF CreateCampaign
  <2>2. /\ promo_vault'.cash = promo_vault.cash
        /\ promo_vault'.outstanding = promo_vault.outstanding
        /\ promo_vault'.unissued = promo_vault.unissued + budget
    BY <1>1, <1>2 DEF CreateCampaign, PromoVault
  <2>3. promo_vault.outstanding + (promo_vault.unissued + budget) <= promo_vault.cash
    BY <1>1, <1>2, <2>1 DEF CreateCampaign, IsFree, Committed
  <2> QED BY <1>1, <2>1, <2>2, <2>3 DEF Ledger!Commit
<1>3. ASSUME NEW c \in CampaignIds, CloseCampaign(c)
      PROVE  Ledger!Return \/ UNCHANGED promo_vault
  <2> DEFINE left == Unspent(campaign[c])
  <2>1. left \in Nat /\ left <= promo_vault.unissued
    BY <1>3 DEF CloseCampaign, Unspent, TypeOK, Campaign
  <2>2. promo_vault' = [promo_vault EXCEPT !.unissued = @ - left] BY <1>3 DEF CloseCampaign
  <2> HIDE DEF left
  <2>3. CASE left = 0 BY <1>1, <2>2, <2>3 DEF PromoVault
  <2>4. CASE left > 0
    <3>1. /\ promo_vault'.cash = promo_vault.cash
          /\ promo_vault'.outstanding = promo_vault.outstanding
          /\ promo_vault'.unissued = promo_vault.unissued - left
      BY <1>1, <2>2 DEF PromoVault
    <3> QED BY <1>1, <2>1, <2>4, <3>1 DEF Ledger!Return
  <2> QED BY <2>1, <2>3, <2>4
<1> QED BY <1>2, <1>3 DEF CampaignStep

\* Granting, releasing and forfeiting are steps of the ledger.
LEMMA PromoStepKeepsLedger ==
  ASSUME TypeOK, VoucherStep \/ PositionStep
  PROVE  Ledger!Grant \/ Ledger!Release \/ Ledger!Forfeit \/ UNCHANGED promo_vault
<1>1. /\ promo_vault \in PromoVault
      /\ promo_vault.cash \in Nat /\ promo_vault.outstanding \in Nat
      /\ promo_vault.unissued \in Nat
  BY DEF TypeOK, PromoVault
<1>2. ASSUME NEW v \in Vouchers, RedeemPromo(v) PROVE Ledger!Grant
  <2>1. v.amount \in Nat /\ v.amount > 0 /\ v.amount <= promo_vault.unissued
    BY <1>2, VoucherFields DEF RedeemPromo
  <2>2. /\ promo_vault'.cash = promo_vault.cash
        /\ promo_vault'.outstanding = promo_vault.outstanding + v.amount
        /\ promo_vault'.unissued = promo_vault.unissued - v.amount
    BY <1>1, <1>2 DEF RedeemPromo, PromoVault
  <2>3. /\ promo_vault.unissued - v.amount \in Nat
        /\ promo_vault.outstanding + v.amount \in Nat
        /\ promo_vault.outstanding + v.amount > promo_vault.outstanding
        /\ (promo_vault.outstanding + v.amount) + (promo_vault.unissued - v.amount)
              = promo_vault.outstanding + promo_vault.unissued
    BY <1>1, <2>1
  <2> QED BY <2>2, <2>3 DEF Ledger!Grant, Ledger!Committed
<1>3. ASSUME NEW w \in Wallets, ReleasePromo(w) PROVE Ledger!Release
  <2>1. /\ promo_balance[w] \in Nat /\ promo_balance[w] > 0
        /\ promo_balance[w] <= promo_vault.outstanding
    BY <1>3 DEF ReleasePromo, TypeOK
  <2>2. /\ promo_vault'.cash = promo_vault.cash
        /\ promo_vault'.outstanding = promo_vault.outstanding - promo_balance[w]
        /\ promo_vault'.unissued = promo_vault.unissued
    BY <1>1, <1>3 DEF ReleasePromo, PromoVault
  <2> QED BY <1>1, <2>1, <2>2 DEF Ledger!Release
<1>4. ASSUME NEW w \in Wallets, ForfeitPromo(w) PROVE Ledger!Forfeit
  <2>1. /\ promo_balance[w] \in Nat /\ promo_balance[w] > 0
        /\ Payable(w) \in Nat /\ Payable(w) <= promo_balance[w]
        /\ promo_vault.outstanding - promo_balance[w] \in Nat
        /\ promo_vault.cash - Payable(w) \in Nat
        /\ promo_vault'.outstanding = promo_vault.outstanding - promo_balance[w]
        /\ promo_vault'.cash = promo_vault.cash - Payable(w)
        /\ promo_vault'.unissued = promo_vault.unissued
    BY <1>4, ForfeitFacts
  <2>2. /\ promo_vault'.outstanding < promo_vault.outstanding
        /\ promo_vault'.cash <= promo_vault.cash
        /\ promo_vault.cash - promo_vault'.cash
              <= promo_vault.outstanding - promo_vault'.outstanding
    BY <1>1, <2>1
  <2> QED BY <2>1, <2>2 DEF Ledger!Forfeit
<1>5. ASSUME NEW r \in receipts, CloseVoucherReceipt(r) PROVE UNCHANGED promo_vault
  BY <1>5 DEF CloseVoucherReceipt
<1> QED BY <1>2, <1>3, <1>4, <1>5 DEF VoucherStep, PositionStep

\* The promo side implements the ledger: nothing promises more than the vault
\* records, and what a position was promised is released or paid out for it.
THEOREM CampaignsKeepTheLedger == Spec => KeepsTheLedger
<1>1. Init => Ledger!Init
  BY DEF Init, Ledger!Init, Ledger!Backed, Ledger!Committed
<1>2. TypeOK /\ [Next]_vars => [Ledger!Next]_(Ledger!ledger)
  <2> SUFFICES ASSUME TypeOK, [Next]_vars PROVE Ledger!Next \/ UNCHANGED promo_vault
    BY DEF Ledger!ledger
  <2>1. CASE VaultStep BY <2>1, VaultStepKeepsLedger DEF Ledger!Next
  <2>2. CASE CampaignStep BY <2>2, CampaignStepKeepsLedger DEF Ledger!Next
  <2>3. CASE VoucherStep \/ PositionStep BY <2>3, PromoStepKeepsLedger DEF Ledger!Next
  <2>4. CASE ConfigStep \/ EnvironmentStep \/ UNCHANGED vars
    BY <2>4, VaultUntouched DEF EnvironmentStep, Donate, Clawback
  <2> QED BY <2>1, <2>2, <2>3, <2>4 DEF Next
<1> QED BY <1>1, <1>2, CampaignTypes, PTL DEF Spec, KeepsTheLedger, Ledger!Spec

-----------------------------------------------------------------------------
(* The vault's totals *)

\* What an active campaign may still issue, by campaign.
Leftovers ==
    [c \in CampaignIds |-> IF campaign[c].active
                           THEN campaign[c].budget - campaign[c].granted ELSE 0]

\* The totals match the accounts, no campaign has granted more than its budget, and
\* the vault is solvent.
LedgerInv ==
    /\ LedgerMatchesAccounts
    /\ \A c \in CampaignIds : campaign[c].granted <= campaign[c].budget
    /\ Solvent(promo_vault)

\* What LedgerInv says, with the accounts' types.
LEMMA LedgerFacts ==
  ASSUME TypeOK, LedgerInv
  PROVE  /\ promo_vault \in PromoVault
         /\ promo_vault.cash \in Nat /\ promo_vault.outstanding \in Nat
         /\ promo_vault.unissued \in Nat
         /\ \A w \in Wallets : promo_balance[w] \in Nat
         /\ \A c \in CampaignIds : Leftovers[c] \in Nat
         /\ promo_vault.outstanding = SumOver(promo_balance, Wallets)
         /\ promo_vault.unissued = SumOver(Leftovers, CampaignIds)
         /\ IsFiniteSet(Wallets) /\ IsFiniteSet(CampaignIds)
<1>1. \A c \in CampaignIds : /\ campaign[c].budget \in Nat /\ campaign[c].granted \in Nat
                             /\ campaign[c].granted <= campaign[c].budget
  BY DEF TypeOK, Campaign, LedgerInv
<1>2. \A c \in CampaignIds : Leftovers[c] \in Nat
  BY <1>1 DEF Leftovers
<1> QED  BY <1>2, CampaignConstants DEF TypeOK, PromoVault, LedgerInv, LedgerMatchesAccounts,
                                        Leftovers

\* One position's balance and outstanding move together.
LEMMA BalanceMoves ==
  ASSUME TypeOK, TypeOK', LedgerInv, NEW w \in Wallets,
         \A v \in Wallets : v # w => promo_balance'[v] = promo_balance[v],
         promo_vault'.outstanding
           = promo_vault.outstanding + promo_balance'[w] - promo_balance[w]
  PROVE  promo_vault'.outstanding = SumOver(promo_balance', Wallets)
<1>1. \A v \in Wallets : promo_balance[v] \in Nat /\ promo_balance'[v] \in Nat
  BY DEF TypeOK
<1>2. SumOver(promo_balance', Wallets)
        = SumOver(promo_balance, Wallets) + promo_balance'[w] - promo_balance[w]
  BY <1>1, LedgerFacts, SumOfOneChange
<1> QED  BY <1>2, LedgerFacts

\* One campaign's budget left and unissued move together.
LEMMA LeftoverMoves ==
  ASSUME TypeOK, TypeOK', LedgerInv, NEW c \in CampaignIds,
         \A d \in CampaignIds : d # c => campaign'[d] = campaign[d],
         campaign'[c].granted <= campaign'[c].budget,
         promo_vault'.unissued = promo_vault.unissued + Leftovers'[c] - Leftovers[c]
  PROVE  /\ promo_vault'.unissued = SumOver(Leftovers', CampaignIds)
         /\ \A d \in CampaignIds : campaign'[d].granted <= campaign'[d].budget
<1>1. \A d \in CampaignIds : campaign'[d].granted <= campaign'[d].budget
  BY DEF LedgerInv
<1>2. \A d \in CampaignIds : Leftovers'[d] \in Nat
  <2>1. \A d \in CampaignIds : campaign'[d].budget \in Nat /\ campaign'[d].granted \in Nat
    BY DEF TypeOK, Campaign
  <2> QED  BY <1>1, <2>1 DEF Leftovers
<1>3. \A d \in CampaignIds : d # c => Leftovers[d] = Leftovers'[d]
  BY DEF Leftovers
<1>4. SumOver(Leftovers', CampaignIds)
        = SumOver(Leftovers, CampaignIds) + Leftovers'[c] - Leftovers[c]
  BY <1>2, <1>3, LedgerFacts, SumOfOneChange
<1> QED  BY <1>1, <1>4, LedgerFacts

\* What is left to prove once outstanding and unissued are accounted for.
LEMMA LedgerInvFrom ==
  ASSUME Solvent(promo_vault'),
         promo_vault'.outstanding = SumOver(promo_balance', Wallets),
         promo_vault'.unissued = SumOver(Leftovers', CampaignIds),
         \A c \in CampaignIds : campaign'[c].granted <= campaign'[c].budget
  PROVE  LedgerInv'
  BY DEF LedgerInv, LedgerMatchesAccounts, Leftovers, Solvent, Committed

\* A step that only moves cash keeps the totals.
LEMMA CashMoves ==
  ASSUME LedgerInv, UNCHANGED <<campaign, promo_balance>>, Solvent(promo_vault'),
         promo_vault'.outstanding = promo_vault.outstanding,
         promo_vault'.unissued = promo_vault.unissued
  PROVE  LedgerInv'
  BY DEF LedgerInv, LedgerMatchesAccounts, Solvent, Committed

\* Creating, closing and granting keep the totals.
LEMMA CampaignStepKeepsTotals ==
  ASSUME TypeOK, TypeOK', CampaignEnds, LedgerInv, CampaignStep
  PROVE  LedgerInv'
<1>1. campaign \in [CampaignIds -> Campaign] /\ promo_vault \in PromoVault
  BY DEF TypeOK
<1>2. ASSUME NEW c \in CampaignIds, NEW budget \in Budgets,
             NEW until \in 0..(MaxTime + MAX_CAMPAIGN_LIFETIME),
             CreateCampaign(c, budget, until)
      PROVE  LedgerInv'
  <2>1. budget \in Nat
    BY Inputs
  <2>2. Leftovers[c] = 0
    BY <1>2 DEF CreateCampaign, CampaignEnds, Leftovers
  <2>3. /\ campaign'[c].active /\ campaign'[c].budget = budget /\ campaign'[c].granted = 0
        /\ \A d \in CampaignIds : d # c => campaign'[d] = campaign[d]
    BY <1>1, <1>2 DEF CreateCampaign
  <2>4. Leftovers'[c] = budget
    BY <2>1, <2>3 DEF Leftovers
  <2>5. /\ promo_vault'.unissued = promo_vault.unissued + budget
        /\ promo_vault'.outstanding = promo_vault.outstanding
        /\ Solvent(promo_vault') /\ promo_balance' = promo_balance
    BY <1>1, <1>2 DEF CreateCampaign, PromoVault
  <2>6. promo_vault'.unissued = promo_vault.unissued + Leftovers'[c] - Leftovers[c]
    BY <2>1, <2>2, <2>4, <2>5, LedgerFacts
  <2>7. campaign'[c].granted <= campaign'[c].budget
    BY <2>1, <2>3
  <2> QED  BY <2>3, <2>5, <2>6, <2>7, LeftoverMoves, LedgerFacts, LedgerInvFrom
<1>3. ASSUME NEW c \in CampaignIds, CloseCampaign(c) PROVE LedgerInv'
  <2>1. Leftovers[c] = Unspent(campaign[c]) /\ Leftovers[c] \in Nat
    BY <1>3, LedgerFacts DEF CloseCampaign, Leftovers, Unspent
  <2>2. /\ ~campaign'[c].active
        /\ campaign'[c].granted = campaign[c].granted /\ campaign'[c].budget = campaign[c].budget
        /\ \A d \in CampaignIds : d # c => campaign'[d] = campaign[d]
    BY <1>1, <1>3 DEF CloseCampaign, Campaign
  <2>3. Leftovers'[c] = 0
    BY <2>2 DEF Leftovers
  <2>4. /\ promo_vault'.unissued = promo_vault.unissued - Leftovers[c]
        /\ promo_vault'.outstanding = promo_vault.outstanding
        /\ Solvent(promo_vault') /\ promo_balance' = promo_balance
    BY <1>1, <1>3, <2>1 DEF CloseCampaign, PromoVault
  <2>5. promo_vault'.unissued = promo_vault.unissued + Leftovers'[c] - Leftovers[c]
    BY <2>1, <2>3, <2>4, LedgerFacts
  <2>6. campaign'[c].granted <= campaign'[c].budget
    BY <2>2 DEF LedgerInv
  <2> QED  BY <2>2, <2>4, <2>5, <2>6, LeftoverMoves, LedgerFacts, LedgerInvFrom
<1> QED  BY <1>2, <1>3 DEF CampaignStep

\* Granting a voucher turns what its campaign had left into a balance.
LEMMA RedeemKeepsTotals ==
  ASSUME TypeOK, TypeOK', LedgerInv, NEW v \in Vouchers, RedeemPromo(v)
  PROVE  LedgerInv'
<1> DEFINE c == v.campaign
           w == v.owner
<1>1. c \in CampaignIds /\ w \in Wallets /\ v.amount \in Nat
  BY VoucherFields
<1>2. campaign \in [CampaignIds -> Campaign] /\ promo_vault \in PromoVault
      /\ promo_balance \in [Wallets -> Nat]
  BY DEF TypeOK
<1>3. /\ campaign[c].active /\ campaign'[c].active
      /\ campaign'[c].granted = campaign[c].granted + v.amount
      /\ campaign'[c].budget = campaign[c].budget
      /\ \A d \in CampaignIds : d # c => campaign'[d] = campaign[d]
  BY <1>1, <1>2 DEF RedeemPromo, CampaignHonours, Campaign
<1>4. /\ campaign[c].granted \in Nat /\ campaign[c].budget \in Nat
      /\ campaign[c].granted + v.amount <= campaign[c].budget
  BY <1>1, <1>2 DEF RedeemPromo, Campaign
<1>5. /\ promo_vault'.unissued = promo_vault.unissued - v.amount
      /\ promo_vault'.outstanding = promo_vault.outstanding + v.amount
      /\ Solvent(promo_vault')
  BY <1>2 DEF RedeemPromo, PromoVault
<1>6. /\ promo_balance'[w] = promo_balance[w] + v.amount
      /\ \A u \in Wallets : u # w => promo_balance'[u] = promo_balance[u]
  BY <1>1, <1>2 DEF RedeemPromo
<1>7. Leftovers[c] = campaign[c].budget - campaign[c].granted
      /\ Leftovers'[c] = campaign[c].budget - (campaign[c].granted + v.amount)
  BY <1>1, <1>3 DEF Leftovers
<1>8. campaign'[c].granted <= campaign'[c].budget
  BY <1>3, <1>4
<1> HIDE DEF c, w
<1>9. promo_vault'.unissued = promo_vault.unissued + Leftovers'[c] - Leftovers[c]
  BY <1>1, <1>4, <1>5, <1>7, LedgerFacts
<1>10. promo_vault'.outstanding
         = promo_vault.outstanding + promo_balance'[w] - promo_balance[w]
  BY <1>1, <1>5, <1>6, LedgerFacts
<1> QED  BY <1>1, <1>3, <1>5, <1>6, <1>8, <1>9, <1>10, LeftoverMoves, BalanceMoves, LedgerInvFrom

\* Releasing and forfeiting take a whole balance out of outstanding.
LEMMA PositionStepKeepsTotals ==
  ASSUME TypeOK, TypeOK', LedgerInv, PositionStep
  PROVE  LedgerInv'
<1>1. promo_vault \in PromoVault /\ promo_balance \in [Wallets -> Nat]
  BY DEF TypeOK
<1>2. ASSUME NEW w \in Wallets, ReleasePromo(w) \/ ForfeitPromo(w) PROVE LedgerInv'
  <2>1. /\ promo_vault'.outstanding = promo_vault.outstanding - promo_balance[w]
        /\ promo_vault'.unissued = promo_vault.unissued
        /\ Solvent(promo_vault')
    <3>1. CASE ReleasePromo(w)
      BY <1>1, <3>1 DEF ReleasePromo, PromoVault
    <3>2. CASE ForfeitPromo(w)
      BY <1>1, <3>2 DEF ForfeitPromo, CanForfeit, LedgerAfterForfeit, PromoVault
    <3> QED  BY <1>2, <3>1, <3>2
  <2>2. promo_balance' = [promo_balance EXCEPT ![w] = 0] /\ campaign' = campaign
    BY <1>2 DEF ReleasePromo, ForfeitPromo
  <2>3. /\ promo_balance'[w] = 0
        /\ \A v \in Wallets : v # w => promo_balance'[v] = promo_balance[v]
    BY <1>1, <2>2
  <2>4. promo_vault'.outstanding
          = promo_vault.outstanding + promo_balance'[w] - promo_balance[w]
    BY <2>1, <2>3, LedgerFacts
  <2>5. promo_vault'.outstanding = SumOver(promo_balance', Wallets)
    BY <2>3, <2>4, BalanceMoves
  <2>6. promo_vault'.unissued = SumOver(Leftovers', CampaignIds)
    BY <2>1, <2>2, LedgerFacts DEF Leftovers
  <2> QED  BY <2>1, <2>2, <2>5, <2>6, LedgerInvFrom DEF LedgerInv
<1> QED  BY <1>2 DEF PositionStep

\* Every step keeps the totals, the budgets and the solvency.
LEMMA NextLedgerInv ==
  TypeOK /\ TypeOK' /\ CampaignEnds /\ LedgerInv /\ [Next]_vars => LedgerInv'
<1> SUFFICES ASSUME TypeOK, TypeOK', CampaignEnds, LedgerInv, [Next]_vars PROVE LedgerInv'
  OBVIOUS
<1>1. promo_vault \in PromoVault /\ Solvent(promo_vault)
  BY DEF TypeOK, LedgerInv
<1>2. CASE VaultStep
  BY <1>1, <1>2, CashMoves DEF VaultStep, FundPromoVault, WithdrawPromoVault,
     SweepPromoExcess, ReconcilePromoVault, PromoVault
<1>3. ASSUME UNCHANGED <<campaign, promo_balance, promo_vault>> PROVE LedgerInv'
  BY <1>1, <1>3, CashMoves
<1>4. CASE ConfigStep \/ EnvironmentStep \/ UNCHANGED vars
  BY <1>3, <1>4 DEF ConfigStep, SetPromoSigner, SetMarketPaused, EnvironmentStep, Tick,
     Donate, Clawback, vars
<1>5. ASSUME NEW r \in receipts, CloseVoucherReceipt(r) PROVE LedgerInv'
  BY <1>3, <1>5 DEF CloseVoucherReceipt
<1> QED  BY <1>2, <1>4, <1>5, CampaignStepKeepsTotals, RedeemKeepsTotals,
            PositionStepKeepsTotals DEF Next, VoucherStep

\* An empty vault keeps its totals.
LEMMA InitLedgerInv == Init => LedgerInv
<1> SUFFICES ASSUME Init PROVE LedgerInv
  OBVIOUS
<1>1. \A w \in Wallets : promo_balance[w] = 0
  BY DEF Init
<1>2. SumOver(promo_balance, Wallets) = 0
  BY <1>1, SumOfZeros, CampaignConstants
<1>3. \A c \in CampaignIds : Leftovers[c] = 0
  BY DEF Init, NoCampaign, Leftovers
<1>4. SumOver(Leftovers, CampaignIds) = 0
  BY <1>3, SumOfZeros, CampaignConstants
<1>5. \A c \in CampaignIds : campaign[c].granted <= campaign[c].budget
  BY DEF Init, NoCampaign
<1>6. promo_vault = [cash |-> 0, outstanding |-> 0, unissued |-> 0]
  BY DEF Init
<1> QED  BY <1>2, <1>4, <1>5, <1>6 DEF LedgerInv, LedgerMatchesAccounts, Leftovers, Solvent,
                                       Committed

\* LedgerInv in every reachable state.
LEMMA LedgerInvHolds == Spec => [](LedgerInv /\ TypeOK)
<1>1. Init => CampaignEnds
  BY DEF Init, CampaignEnds, NoCampaign
<1>2. Spec => []CampaignEnds
  BY <1>1, CampaignTypes, NextCampaignEnds, PTL DEF Spec
<1> QED  BY <1>2, CampaignTypes, InitLedgerInv, NextLedgerInv, PTL DEF Spec

\* The vault's two totals are the sums state/promo.rs says they are, in whatever
\* order it is funded, granted from, closed on and forfeited from.
THEOREM LedgerStaysMatched == Spec => []LedgerMatchesAccounts
<1>1. LedgerInv => LedgerMatchesAccounts
  BY DEF LedgerInv
<1> QED  BY <1>1, LedgerInvHolds, PTL

\* No promo balance, and nothing the issuer takes out of the vault, makes
\* forfeit_promo revert, and with it a liquidation or a write-off.
THEOREM ForfeitureNeverBlocks == Spec => []ForfeitNeverBlocks
<1>1. LedgerInv /\ TypeOK => ForfeitNeverBlocks
  <2> SUFFICES ASSUME LedgerInv, TypeOK, NEW w \in Wallets PROVE CanForfeit(w)
    BY DEF ForfeitNeverBlocks
  <2>1. promo_balance[w] <= promo_vault.outstanding
    BY LedgerFacts, SumBoundsItsParts
  <2>2. promo_vault.outstanding + promo_vault.unissued <= promo_vault.cash
    BY DEF LedgerInv, Solvent, Committed
  <2>3. /\ vault_token \in Nat /\ promo_balance[w] \in Nat /\ promo_vault \in PromoVault
        /\ promo_vault.cash \in Nat /\ promo_vault.outstanding \in Nat
        /\ promo_vault.unissued \in Nat
    BY LedgerFacts DEF TypeOK
  <2>4. /\ Payable(w) \in Nat /\ Payable(w) <= promo_balance[w] /\ Payable(w) <= vault_token
    BY <2>3 DEF Payable
  <2>5. Solvent([promo_vault EXCEPT !.outstanding = @ - promo_balance[w]])
    BY <2>1, <2>2, <2>3 DEF Solvent, Committed, PromoVault
  <2>6. Solvent(LedgerAfterForfeit(w))
    BY <2>1, <2>2, <2>3, <2>4 DEF Solvent, Committed, LedgerAfterForfeit, PromoVault
  <2>7. Payable(w) <= promo_vault.cash
    BY <2>1, <2>2, <2>3, <2>4
  <2> QED  BY <2>1, <2>4, <2>5, <2>6, <2>7 DEF CanForfeit, VaultPays
<1> QED  BY <1>1, LedgerInvHolds, PTL

-----------------------------------------------------------------------------
(* What a campaign granted *)

\* The vouchers of a campaign that were ever granted, and every voucher's amount.
Redeemed(c) == {v \in Vouchers : v.campaign = c /\ \E e \in redemptions : e.voucher = v}
Amounts == [v \in Vouchers |-> v.amount]

\* What was granted is what the redeemed vouchers add up to; only a campaign that
\* exists has any.
GrantsInv ==
    \A c \in CampaignIds :
        /\ IsFiniteSet(Redeemed(c))
        /\ campaign[c].granted = SumOver(Amounts, Redeemed(c))
        /\ ~campaign[c].created => Redeemed(c) = {}

\* A voucher that is granted was never granted before: its receipt cannot have been
\* closed while it is still good.
LEMMA GrantedVoucherIsNew ==
  ASSUME TypeOK, ReceiptsGuardNonces, NEW v \in Vouchers, RedeemPromo(v)
  PROVE  \A c \in CampaignIds : v \notin Redeemed(c)
<1> SUFFICES ASSUME NEW e \in redemptions, e.voucher = v PROVE FALSE
  BY DEF Redeemed
<1>1. ReceiptFor(v) \in receipts
  BY DEF RedeemPromo, ReceiptsGuardNonces
<1> QED  BY <1>1 DEF RedeemPromo, ReceiptExists, ReceiptFor

\* The amounts of a campaign's vouchers are natural.
LEMMA AmountsAreNat == \A v \in Vouchers : Amounts[v] = v.amount /\ Amounts[v] \in Nat
  BY VoucherFields DEF Amounts

\* A step that grants nothing keeps what was granted, and creates campaigns empty.
LEMMA NoGrant ==
  ASSUME GrantsInv, redemptions' = redemptions,
         \A c \in CampaignIds :
            \/ /\ campaign'[c].granted = campaign[c].granted
               /\ campaign'[c].created = campaign[c].created
            \/ ~campaign[c].created /\ campaign'[c].created /\ campaign'[c].granted = 0
  PROVE  GrantsInv'
<1>1. \A c \in CampaignIds : Redeemed(c)' = Redeemed(c)
  BY DEF Redeemed
<1>2. SumOver(Amounts, {}) = 0
  BY SumOfZeros, FS_EmptySet
<1>3. ASSUME NEW c \in CampaignIds
      PROVE  /\ IsFiniteSet(Redeemed(c))
             /\ campaign'[c].granted = SumOver(Amounts, Redeemed(c))
             /\ ~campaign'[c].created => Redeemed(c) = {}
  BY <1>2, <1>3 DEF GrantsInv
<1> QED  BY <1>1, <1>3 DEF GrantsInv, Amounts

\* Granting a voucher adds it, and its amount, to its campaign.
LEMMA GrantIsCounted ==
  ASSUME TypeOK, GrantsInv, ReceiptsGuardNonces, CampaignEnds,
         NEW v \in Vouchers, RedeemPromo(v)
  PROVE  GrantsInv'
<1> DEFINE c == v.campaign
<1>1. c \in CampaignIds /\ v.amount \in Nat
  BY VoucherFields
<1>2. campaign \in [CampaignIds -> Campaign]
  BY DEF TypeOK
<1>3. /\ campaign'[c].granted = campaign[c].granted + v.amount
      /\ campaign'[c].created = campaign[c].created
      /\ \A d \in CampaignIds : d # c => campaign'[d] = campaign[d]
      /\ campaign[c].active
  BY <1>1, <1>2 DEF RedeemPromo, CampaignHonours, Campaign
<1>4. redemptions' = redemptions \cup {[voucher |-> v, at |-> now]}
  BY DEF RedeemPromo
<1>5. Redeemed(c)' = Redeemed(c) \cup {v}
  <2>1. \A u : (\E e \in redemptions' : e.voucher = u)
                  <=> u = v \/ \E e \in redemptions : e.voucher = u
    <3> DEFINE new == [voucher |-> v, at |-> now]
    <3>1. new.voucher = v /\ redemptions' = redemptions \cup {new}
      BY <1>4
    <3> HIDE DEF new
    <3> QED  BY <3>1
  <2> QED  BY <2>1, Zenon DEF Redeemed
<1>6. \A d \in CampaignIds : d # c => Redeemed(d)' = Redeemed(d)
  BY <1>4 DEF Redeemed
<1>7. v \notin Redeemed(c)
  BY <1>1, GrantedVoucherIsNew
<1>8. SumOver(Amounts, Redeemed(c) \cup {v}) = SumOver(Amounts, Redeemed(c)) + Amounts[v]
  <2>1. Redeemed(c) \subseteq Vouchers
    BY DEF Redeemed
  <2>2. \A y \in Redeemed(c) \cup {v} : Amounts[y] \in Nat
    BY <2>1, AmountsAreNat
  <2>3. IsFiniteSet(Redeemed(c))
    BY <1>1 DEF GrantsInv
  <2> HIDE DEF c
  <2> QED  BY <1>7, <2>2, <2>3, SumTakesOneMore
<1>9. IsFiniteSet(Redeemed(c) \cup {v})
  BY <1>1, FS_AddElement DEF GrantsInv
<1>10. campaign[c].created
  BY <1>1, <1>3 DEF CampaignEnds
<1> HIDE DEF c
<1>11. /\ IsFiniteSet(Redeemed(c)')
       /\ campaign'[c].granted = SumOver(Amounts, Redeemed(c)')
       /\ campaign'[c].created
  BY <1>1, <1>3, <1>5, <1>8, <1>9, <1>10, AmountsAreNat DEF GrantsInv
<1>12. ASSUME NEW d \in CampaignIds, d # c
       PROVE  /\ IsFiniteSet(Redeemed(d)')
              /\ campaign'[d].granted = SumOver(Amounts, Redeemed(d)')
              /\ ~campaign'[d].created => Redeemed(d)' = {}
  BY <1>3, <1>6, <1>12 DEF GrantsInv
<1> QED  BY <1>11, <1>12 DEF GrantsInv, Amounts

\* GrantsInv is inductive.
LEMMA NextGrantsInv ==
  TypeOK /\ ReceiptsGuardNonces /\ CampaignEnds /\ GrantsInv /\ [Next]_vars => GrantsInv'
<1> SUFFICES ASSUME TypeOK, ReceiptsGuardNonces, CampaignEnds, GrantsInv, [Next]_vars
             PROVE  GrantsInv'
  OBVIOUS
<1>1. campaign \in [CampaignIds -> Campaign]
  BY DEF TypeOK
<1>2. CASE CampaignStep
  BY <1>1, <1>2, NoGrant DEF CampaignStep, CreateCampaign, CloseCampaign, Campaign
<1>3. ASSUME UNCHANGED <<campaign, redemptions>> PROVE GrantsInv'
  BY <1>3, NoGrant
<1>4. CASE VaultStep \/ PositionStep \/ ConfigStep \/ EnvironmentStep \/ UNCHANGED vars
  BY <1>3, <1>4 DEF VaultStep, FundPromoVault, WithdrawPromoVault, SweepPromoExcess,
     ReconcilePromoVault, PositionStep, ReleasePromo, ForfeitPromo, ConfigStep, SetPromoSigner,
     SetMarketPaused, EnvironmentStep, Tick, Donate, Clawback, vars
<1>5. ASSUME NEW r \in receipts, CloseVoucherReceipt(r) PROVE GrantsInv'
  BY <1>3, <1>5 DEF CloseVoucherReceipt
<1> QED  BY <1>2, <1>4, <1>5, GrantIsCounted DEF Next, VoucherStep

\* A campaign has granted exactly its redeemed vouchers, each counted once, and never
\* more than its budget, whoever closes receipts and presents vouchers again.
THEOREM GrantsAreTheVouchers == Spec => []GrantsMatchVouchers
<1>1. Init => GrantsInv /\ CampaignEnds /\ ReceiptsGuardNonces
  <2> SUFFICES ASSUME Init PROVE GrantsInv /\ CampaignEnds /\ ReceiptsGuardNonces
    OBVIOUS
  <2>1. \A c \in CampaignIds : Redeemed(c) = {}
    BY DEF Init, Redeemed
  <2>2. SumOver(Amounts, {}) = 0 /\ IsFiniteSet({})
    BY SumOfZeros, FS_EmptySet
  <2>3. \A c \in CampaignIds : campaign[c].granted = 0
    BY DEF Init, NoCampaign
  <2>4. GrantsInv
    BY <2>1, <2>2, <2>3 DEF GrantsInv
  <2> QED  BY <2>4 DEF Init, CampaignEnds, NoCampaign, ReceiptsGuardNonces
<1>2. Spec => [](ReceiptsGuardNonces /\ CampaignEnds)
  BY <1>1, CampaignTypes, NextReceiptsGuardNonces, NextCampaignEnds, PTL DEF Spec
<1>3. GrantsInv /\ LedgerInv => GrantsMatchVouchers
  BY DEF GrantsInv, LedgerInv, GrantsMatchVouchers, Redeemed, Amounts
<1> QED  BY <1>1, <1>2, <1>3, CampaignTypes, LedgerInvHolds, NextGrantsInv, PTL DEF Spec
=============================================================================
