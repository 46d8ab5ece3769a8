----------------------------- MODULE Campaigns -----------------------------
(***************************************************************************)
(* The promo side of a market: the vault and its ledger, the campaigns     *)
(* that budget it, the vouchers that grant it and the receipts that keep a *)
(* voucher from being granted twice.                                       *)
(*                                                                         *)
(* Vouchers are signed off-chain.  The constant Vouchers holds everything  *)
(* the signers ever sign; a wallet may present any of them at any time, as *)
(* often as it likes.  A position is only its promo balance here, and the  *)
(* handlers that take promo away from it (expiry, revocation, closing,     *)
(* liquidation, write-off) are the two functions they all go through,      *)
(* release_promo and forfeit_promo, which may run whenever there is        *)
(* something to take: Lending says when.                                   *)
(***************************************************************************)
EXTENDS Integers, Sums

CONSTANTS
    Wallets,                 \* owners of a position
    CampaignIds,
    Vouchers,                \* what the promo signers ever sign
    Signers,                 \* keys that may be appointed promo_signer
    MAX_CAMPAIGN_LIFETIME,   \* seconds
    MAX_PROMO_PER_POSITION   \* market.max_promo_per_position

\* Inputs of the instructions and of the environment.
CONSTANTS
    FundAmounts, WithdrawAmounts, Budgets, ClawbackAmounts, DonationAmounts, PauseInputs

\* Bounds of the instance; the program has none of them.
CONSTANTS
    MaxTime,    \* the clock stops here
    MaxTokens   \* no funding or donation beyond this many tokens, recorded or held

Voucher ==
    [campaign: CampaignIds, owner: Wallets, amount: Nat, nonce: Nat, expiry: Nat,
     signer: Signers]

ASSUME CampaignConstants ==
    /\ IsFiniteSet(Wallets)
    /\ IsFiniteSet(CampaignIds)
    /\ Signers # {}
    /\ Vouchers \subseteq Voucher
    /\ MAX_CAMPAIGN_LIFETIME \in Nat
    /\ MAX_PROMO_PER_POSITION \in Nat
    /\ UNION {FundAmounts, WithdrawAmounts, Budgets, ClawbackAmounts, DonationAmounts} \subseteq Nat
    /\ PauseInputs \subseteq BOOLEAN
    /\ {MaxTime, MaxTokens} \subseteq Nat

VARIABLES
    now,            \* Clock::unix_timestamp
    promo_vault,    \* the PromoVault ledger
    vault_token,    \* tokens in the promo vault
    campaign,       \* [CampaignIds -> Campaign account, created or not]
    receipts,       \* the VoucherReceipt accounts
    promo_balance,  \* [Wallets -> Position.promo_balance]
    promo_signer,   \* config.promo_signer
    paused,         \* market.paused
    redemptions     \* history: every voucher granted, and when

vars == <<now, promo_vault, vault_token, campaign, receipts, promo_balance,
          promo_signer, paused, redemptions>>

-----------------------------------------------------------------------------
(* The accounts *)

PromoVault == [cash: Nat, outstanding: Nat, unissued: Nat]

Campaign ==
    [created: BOOLEAN, active: BOOLEAN, budget: Nat, granted: Nat, redeem_until: Nat]

NoCampaign ==
    [created |-> FALSE, active |-> FALSE, budget |-> 0, granted |-> 0, redeem_until |-> 0]

\* The address of a receipt is its campaign and its nonce, not its expiry.
VoucherReceipt == [campaign: CampaignIds, nonce: Nat, voucher_expiry: Nat]

Redemption == [voucher: Vouchers, at: Nat]

Committed(v) == v.outstanding + v.unissued

\* Mutant: only positions count as promised to.
CoversPositions(v) == v.outstanding <= v.cash

\* PromoVault::require_invariant
Solvent(v) == Committed(v) <= v.cash

\* PromoVault::free reverts on a vault that is not solvent.
IsFree(amount) == Solvent(promo_vault) /\ amount <= promo_vault.cash - Committed(promo_vault)

\* The token program's own check: a transfer needs the tokens to be there.
VaultPays(amount) == amount <= vault_token

-----------------------------------------------------------------------------
(* The vault *)

FundPromoVault(amount) ==
    /\ amount > 0
    /\ promo_vault.cash + amount <= MaxTokens
    /\ promo_vault' = [promo_vault EXCEPT !.cash = @ + amount]
    /\ Solvent(promo_vault')
    /\ vault_token' = vault_token + amount
    /\ UNCHANGED <<now, campaign, receipts, promo_balance, promo_signer, paused, redemptions>>

\* The transfer fails where a clawback left the vault short of its ledger.
WithdrawPromoVault(amount) ==
    /\ amount > 0
    /\ IsFree(amount)
    /\ VaultPays(amount)
    /\ promo_vault' = [promo_vault EXCEPT !.cash = @ - amount]
    /\ Solvent(promo_vault')
    /\ vault_token' = vault_token - amount
    /\ UNCHANGED <<now, campaign, receipts, promo_balance, promo_signer, paused, redemptions>>

\* Mutant: sweeps whatever is not committed.
CommittedTokens(v) == Committed(v)

\* Tokens the vault accounts for; everything above is a donation.
RecordedTokens(v) == v.cash

SweepPromoExcess ==
    /\ vault_token > RecordedTokens(promo_vault)
    /\ vault_token' = RecordedTokens(promo_vault)
    /\ UNCHANGED <<now, promo_vault, campaign, receipts, promo_balance, promo_signer, paused,
                   redemptions>>

\* Only ever downward, and not below what is committed.
ReconcilePromoVault ==
    /\ vault_token < promo_vault.cash
    /\ promo_vault' = [promo_vault EXCEPT !.cash = vault_token]
    /\ Solvent(promo_vault')
    /\ UNCHANGED <<now, vault_token, campaign, receipts, promo_balance, promo_signer, paused,
                   redemptions>>

-----------------------------------------------------------------------------
(* Campaigns *)

CreateCampaign(c, budget, until) ==
    /\ ~campaign[c].created
    /\ budget > 0
    /\ until > now
    /\ until <= now + MAX_CAMPAIGN_LIFETIME
    /\ IsFree(budget)
    /\ promo_vault' = [promo_vault EXCEPT !.unissued = @ + budget]
    /\ Solvent(promo_vault')
    /\ campaign' = [campaign EXCEPT ![c] =
            [created |-> TRUE, active |-> TRUE, budget |-> budget, granted |-> 0,
             redeem_until |-> until]]
    /\ UNCHANGED <<now, vault_token, receipts, promo_balance, promo_signer, paused, redemptions>>

\* Mutant: hands the whole budget back.
WholeBudget(k) == k.budget

Unspent(k) == k.budget - k.granted

\* The account stays, so that its id is never used again.
CloseCampaign(c) ==
    /\ campaign[c].active
    /\ Unspent(campaign[c]) >= 0
    /\ Unspent(campaign[c]) <= promo_vault.unissued
    /\ promo_vault' = [promo_vault EXCEPT !.unissued = @ - Unspent(campaign[c])]
    /\ Solvent(promo_vault')
    /\ campaign' = [campaign EXCEPT ![c].active = FALSE]
    /\ UNCHANGED <<now, vault_token, receipts, promo_balance, promo_signer, paused, redemptions>>

-----------------------------------------------------------------------------
(* Vouchers *)

ReceiptFor(v) == [campaign |-> v.campaign, nonce |-> v.nonce, voucher_expiry |-> v.expiry]

\* Mutant: looks for a receipt of this very voucher.
ReceiptOfVoucherExists(v) == ReceiptFor(v) \in receipts

ReceiptExists(v) == \E r \in receipts : r.campaign = v.campaign /\ r.nonce = v.nonce

\* Mutant: a voucher may outlive its campaign.
CampaignIsOpen(v) == campaign[v.campaign].active /\ now <= campaign[v.campaign].redeem_until

\* The campaign is open, and the voucher expires with it at the latest.
CampaignHonours(v) ==
    /\ campaign[v.campaign].active
    /\ now <= campaign[v.campaign].redeem_until
    /\ v.expiry <= campaign[v.campaign].redeem_until

\* redeem_promo: the current signer's voucher turns campaign budget into the
\* owner's promo.  Nothing moves in the vault.
RedeemPromo(v) ==
    /\ ~paused
    /\ v.amount > 0
    /\ v.signer = promo_signer
    /\ now <= v.expiry
    /\ CampaignHonours(v)
    /\ campaign[v.campaign].granted + v.amount <= campaign[v.campaign].budget
    /\ promo_balance[v.owner] + v.amount <= MAX_PROMO_PER_POSITION
    /\ v.amount <= promo_vault.unissued
    /\ ~ReceiptExists(v)
    /\ campaign' = [campaign EXCEPT ![v.campaign].granted = @ + v.amount]
    /\ promo_vault' = [promo_vault EXCEPT !.unissued = @ - v.amount,
                                          !.outstanding = @ + v.amount]
    /\ Solvent(promo_vault')
    /\ receipts' = receipts \cup {ReceiptFor(v)}
    /\ promo_balance' = [promo_balance EXCEPT ![v.owner] = @ + v.amount]
    /\ redemptions' = redemptions \cup {[voucher |-> v, at |-> now]}
    /\ UNCHANGED <<now, vault_token, promo_signer, paused>>

\* Mutant: the boundary second satisfies redeem_promo and this at once.
ExpiresAtTheSecond(r) == now >= r.voucher_expiry

\* The exact complement of what redeem_promo requires of the expiry.
ReceiptExpired(r) == now > r.voucher_expiry

\* Anyone; the rent goes back to whoever paid it.
CloseVoucherReceipt(r) ==
    /\ ReceiptExpired(r)
    /\ receipts' = receipts \ {r}
    /\ UNCHANGED <<now, promo_vault, vault_token, campaign, promo_balance, promo_signer, paused,
                   redemptions>>

-----------------------------------------------------------------------------
(* Promo leaves a position *)

\* release_promo, for expire_promo, revoke_promo, close_position and take_loan.
ReleasePromo(w) ==
    /\ promo_balance[w] > 0
    /\ promo_balance[w] <= promo_vault.outstanding
    /\ promo_vault' = [promo_vault EXCEPT !.outstanding = @ - promo_balance[w]]
    /\ Solvent(promo_vault')
    /\ promo_balance' = [promo_balance EXCEPT ![w] = 0]
    /\ UNCHANGED <<now, vault_token, campaign, receipts, promo_signer, paused, redemptions>>

\* What forfeiture can pay: a clawback may have left less than the balance.
Payable(w) == IF promo_balance[w] <= vault_token THEN promo_balance[w] ELSE vault_token

LedgerAfterForfeit(w) ==
    [promo_vault EXCEPT !.outstanding = @ - promo_balance[w], !.cash = @ - Payable(w)]

CanForfeit(w) ==
    promo_balance[w] > 0 =>
        /\ promo_balance[w] <= promo_vault.outstanding
        /\ Solvent([promo_vault EXCEPT !.outstanding = @ - promo_balance[w]])
        /\ VaultPays(Payable(w))
        /\ Payable(w) <= promo_vault.cash
        /\ Solvent(LedgerAfterForfeit(w))

\* forfeit_promo, for liquidate and write_off_loan.
ForfeitPromo(w) ==
    /\ promo_balance[w] > 0
    /\ CanForfeit(w)
    /\ promo_vault' = LedgerAfterForfeit(w)
    /\ vault_token' = vault_token - Payable(w)
    /\ promo_balance' = [promo_balance EXCEPT ![w] = 0]
    /\ UNCHANGED <<now, campaign, receipts, promo_signer, paused, redemptions>>

-----------------------------------------------------------------------------
(* Configuration and environment *)

SetPromoSigner(s) ==
    /\ promo_signer' = s
    /\ UNCHANGED <<now, promo_vault, vault_token, campaign, receipts, promo_balance, paused,
                   redemptions>>

SetMarketPaused(flag) ==
    /\ paused' = flag
    /\ UNCHANGED <<now, promo_vault, vault_token, campaign, receipts, promo_balance,
                   promo_signer, redemptions>>

Tick ==
    /\ now < MaxTime
    /\ now' = now + 1
    /\ UNCHANGED <<promo_vault, vault_token, campaign, receipts, promo_balance, promo_signer,
                   paused, redemptions>>

\* Anyone can send tokens straight to the vault; an issuer may return some so.
Donate(amount) ==
    /\ vault_token + amount <= MaxTokens
    /\ vault_token' = vault_token + amount
    /\ UNCHANGED <<now, promo_vault, campaign, receipts, promo_balance, promo_signer, paused,
                   redemptions>>

\* The issuer's permanent delegate takes tokens out.
Clawback(amount) ==
    /\ amount <= vault_token
    /\ vault_token' = vault_token - amount
    /\ UNCHANGED <<now, promo_vault, campaign, receipts, promo_balance, promo_signer, paused,
                   redemptions>>

-----------------------------------------------------------------------------

\* A vault just created, and some key appointed promo signer.
Init ==
    /\ now = 0
    /\ promo_vault = [cash |-> 0, outstanding |-> 0, unissued |-> 0]
    /\ vault_token = 0
    /\ campaign = [c \in CampaignIds |-> NoCampaign]
    /\ receipts = {}
    /\ promo_balance = [w \in Wallets |-> 0]
    /\ promo_signer \in Signers
    /\ paused = FALSE
    /\ redemptions = {}

VaultStep ==
    \/ \E amount \in FundAmounts : FundPromoVault(amount)
    \/ \E amount \in WithdrawAmounts : WithdrawPromoVault(amount)
    \/ SweepPromoExcess
    \/ ReconcilePromoVault

CampaignStep ==
    \E c \in CampaignIds :
        \/ \E budget \in Budgets, until \in 0..(MaxTime + MAX_CAMPAIGN_LIFETIME) :
              CreateCampaign(c, budget, until)
        \/ CloseCampaign(c)

VoucherStep ==
    \/ \E v \in Vouchers : RedeemPromo(v)
    \/ \E r \in receipts : CloseVoucherReceipt(r)

PositionStep == \E w \in Wallets : ReleasePromo(w) \/ ForfeitPromo(w)

ConfigStep ==
    \/ \E s \in Signers : SetPromoSigner(s)
    \/ \E flag \in PauseInputs : SetMarketPaused(flag)

EnvironmentStep ==
    \/ Tick
    \/ \E amount \in DonationAmounts : Donate(amount)
    \/ \E amount \in ClawbackAmounts : Clawback(amount)

Next ==
    VaultStep \/ CampaignStep \/ VoucherStep \/ PositionStep \/ ConfigStep \/ EnvironmentStep

Spec == Init /\ [][Next]_vars

-----------------------------------------------------------------------------
(* Properties *)

\* Every account keeps its type: no budget, liability or balance goes negative.
TypeOK ==
    /\ now \in Nat
    /\ promo_vault \in PromoVault
    /\ vault_token \in Nat
    /\ campaign \in [CampaignIds -> Campaign]
    /\ receipts \subseteq VoucherReceipt
    /\ promo_balance \in [Wallets -> Nat]
    /\ promo_signer \in Signers
    /\ paused \in BOOLEAN
    /\ redemptions \subseteq Redemption

\* The vault's two totals are what state/promo.rs says they are, through every
\* order of funding, granting, closing, expiring and forfeiting: outstanding is
\* the sum of the positions' balances, unissued the sum of what the active
\* campaigns have left.
LedgerMatchesAccounts ==
    /\ promo_vault.outstanding = SumOver(promo_balance, Wallets)
    /\ promo_vault.unissued =
          SumOver([c \in CampaignIds |-> IF campaign[c].active
                                         THEN campaign[c].budget - campaign[c].granted ELSE 0],
                  CampaignIds)

\* A campaign has granted exactly its redeemed vouchers, each counted once, and
\* never more than its budget: no voucher is granted twice, in whatever order
\* receipts are closed and vouchers presented again.
GrantsMatchVouchers ==
    \A c \in CampaignIds :
        LET mine == {v \in Vouchers : v.campaign = c /\ \E e \in redemptions : e.voucher = v}
        IN  /\ campaign[c].granted = SumOver([v \in Vouchers |-> v.amount], mine)
            /\ campaign[c].granted <= campaign[c].budget

\* Two redemptions of one campaign's nonce are never in one expiry epoch: the
\* later one comes after the earlier one's voucher has expired.
OneRedemptionPerEpoch ==
    \A e, f \in redemptions :
        /\ e.voucher.campaign = f.voucher.campaign
        /\ e.voucher.nonce = f.voucher.nonce
        => e = f \/ e.at > f.voucher.expiry \/ f.at > e.voucher.expiry

\* The rent of a receipt is never held beyond its campaign's end, and so never
\* longer than MAX_CAMPAIGN_LIFETIME from the redemption that paid it.
RentIsBounded ==
    /\ \A r \in receipts : r.voucher_expiry <= campaign[r.campaign].redeem_until
    /\ \A e \in redemptions : e.voucher.expiry <= e.at + MAX_CAMPAIGN_LIFETIME

\* Whatever is clawed back, reconciled, withdrawn or swept, a position's promo
\* can be forfeited: the liquidation that needs it goes through.
ForfeitNeverBlocks == \A w \in Wallets : CanForfeit(w)

\* Only a clawback makes the vault hold less than it records, and nothing else
\* makes it fall further behind.
OnlyClawbackOpensAGap ==
    [][ LET gap == promo_vault.cash - vault_token
        IN  gap' > 0 /\ gap' > gap => \E amount \in ClawbackAmounts : Clawback(amount) ]_vars

\* The promise of the vault: Campaigns implements PromoLedger.
Ledger == INSTANCE PromoLedger WITH
    cash <- promo_vault.cash,
    outstanding <- promo_vault.outstanding,
    unissued <- promo_vault.unissued

\* No handler promises more than the vault records, and what is promised to a
\* position is released or paid out for it, never withdrawn.
KeepsTheLedger == Ledger!Spec
=============================================================================
