# hodl_loans in TLA+

A specification of `programs/hodl_loans`, the Solana program that lends cNGN
against tokenised-equity collateral, and of the scripts that set it up. It models
the on-chain state machine: the pool of the lenders, the borrowers' positions and
loans, liquidation and write-off, promo credit with its campaigns and vouchers,
the registry of collateral with its promo cap, who may do what, how a position is
valued from the accounts a caller supplies, and what the issuer of a collateral
mint may do to it. TLC checks small instances; TLAPS proves the invariants that
matter most for all of them.

Paths below are relative to `src/programs/hodl_loans/src/` unless they start
with `src/`.

## 1. Inventory

| component | state | operations | source |
|---|---|---|---|
| Lending market | `Market` (cash, total_borrows, lp_rate_product, accrued_interest, accrual_remainder, last_accrual_ts, protocol_reserve, total_bad_debt, total_shares, paused, parameters), its token vault, one `LenderPosition` per lender | deposit_liquidity, withdraw_liquidity, harvest_reserve, sweep_market_excess, update_market_params, set_market_paused, create_market | state/market.rs, instructions/liquidity, instructions/admin |
| Positions | `Position`: collateral slots, loan slots, next_loan_id, promo balance and its activity clock | open_position, close_position, deposit_collateral, withdraw_collateral | state/position.rs, instructions/positions |
| Loans | `LoanSlot`s inside a position, totals inside the market | take_loan, repay_loan | instructions/loans |
| Liquidation | the same accounts | liquidate, write_off_loan | instructions/liquidation |
| Promo | `PromoVault` (cash, outstanding, unissued) and its token vault, `Campaign`s, `VoucherReceipt`s | create/fund/withdraw/sweep/reconcile_promo_vault, create/close_campaign, redeem_promo, close_voucher_receipt, expire_promo, revoke_promo, set_promo_cap | state/promo.rs, instructions/promos, voucher.rs |
| Collateral registry | one `CollateralAsset` per mint with its vault; `Config.collateral_count`, `Config.promo_cap_bps` | list, update, pause, borrow-pause, delist, sweep_collateral_excess | state/collateral.rs, admin/collateral_admin.rs |
| Credit records | `CreditRecord` counters per owner | written by repay, liquidate and write-off | state/credit.rs |
| Access and roles | `Access` per wallet; in `Config` the admin, the pending admin and four roles | whitelist, blacklist, unblacklist, propose_admin, accept_admin, set_role, the pauses, and the gate in front of every user's handler | state/access.rs, state/config.rs, admin/ |
| Price oracles | none of their own; they parse Pyth and Switchboard accounts that others write | read_pyth_price, read_collateral_price, read_ngn_price | oracle/, math/price.rs |
| Position valuation | none | load_collateral_values: the walk over the accounts a caller supplies | valuation.rs |
| Token layer | the vault of each mint; extensions belong to the mint | transfer, extension policy on listing, deposit, withdrawal and delisting, the scaled-UI multiplier | token/ |
| Arithmetic | none | shares, interest, balances, seizure, health | math/ |
| Set-up scripts | the chain, seen through RPC reads | run: read, decide, send one transaction per step, wait | src/setup-cli |
| Infrastructure | - | - | src/.devnet, src/deploy, src/idl, src/scripts |

**Interaction.** There are no calls between components at run time except
through shared accounts. Every instruction is one atomic transaction: it fails
and leaves everything as it was, or it applies all of its writes. The
interleaving that matters is that of whole instructions, from any number of
wallets, in any order. Two totals that describe the same thing are usually kept in different
accounts (market and loans, promo vault and positions, config and collateral
assets, ledger and token balance) and no instruction ever adds the parts up.
That is where the properties are.

**Hard behaviour.** (1) *Totals against their parts*, over partial repayments
and seizures with rounding on both sides. (2) *The token outside the program*:
anyone can donate to a vault, and the issuers of cNGN and of the xStocks can take
tokens out of one.
(3) *Time*: the clock moves between instructions, interest accrues lazily, promo
and vouchers expire, a pause stops one clock and not another. (4) *Slots and
ids that are used again*: loan slots, loan ids after a position was closed and
opened again, listings, voucher nonces. (5) *Configuration changing under live
positions*: caps, pauses, parameters. (6) *Arguments the program cannot
enumerate*: which accounts a caller passes to set_promo_cap, when a wallet
presents which voucher, which accounts a valuation walks. (7) *Sources of
prices*: several updates are fresh at once, a source is withheld, repointed or
stale, a multiplier changes at a second. (8) *Others' powers over tokens*: the
issuer of a collateral mint can freeze, pause, seize and relabel between a
deposit and the withdrawal. (9) *Leaving*: every exit has gates, and somebody
else can close them while a borrower is inside. (10) *Scripts that are run
again*: a read is lost, a run is stopped, and the transaction it was waiting for
still lands. `PROJECT.json` lists each of these as a hazard at its line.

**Correctness, per component.**

* Market: the totals are those of the loans; the reserve is in cash; rounding
  never makes a lender richer; shares lose value only to a write-off.
* Positions: at the same prices a position left alone becomes liquidatable by a
  lower threshold of what it holds, and by no pause, other parameter or other
  wallet; recorded deposits are what positions hold.
* Loans and liquidation: an instruction acts on the loan it names; bad debt is
  exactly what lenders lost; settlement never gets stuck on promo.
* Promo: never more is promised than the vault records; a voucher is granted
  once; rent is held for a bounded time; only a clawback opens a gap.
* Registry: every listed asset fits the cap in force; changing it sinks
  nobody who is within the borrow limit; a vault is short of what positions hold
  by what the issuer seized and no more.
* Access: office passes only to the wallet the admin in office named last; a
  barred wallet stands still, but its debt can be repaid and liquidated; an
  active one can always leave.
* Valuation: only the exact accounts of the used slots are accepted; prices are
  fresh, rounded within a unit, and the asset's own as far as a hash compared at
  the read can tell; the multiplier is the one in force.
* Token layer: custody is what was credited; no setting of a mint that the token
  program itself would let through seals the exit.
* Scripts: a run gets to its end, and what is brought in is brought in once.

## 2. Modules

```
Sums          LoanMath          PromoLedger   (abstract)
   \            |    \  \          ^      ^
    \           |     \  \         |      |     refinement
     +-------Lending   \  Valuation|   Campaigns
               |     Registry      |      |
               +-------------------+      |
Access    MintPolicy    Clients           |
MCLending MCRegistry MCValuation MCCampaigns MCAccess MCMintPolicy MCClients

LendingProofs  CampaignsProofs  RegistryProofs  -> SumsProofs    (theorems)
ValuationProofs   MintPolicyProofs   AccessProofs   ClientsProofs
```

**LoanMath** is `math/`: every formula with its rounding. Basis points in a
whole, seconds in a year, the virtual share offsets and the multiplier's scale
are constants, so that an instance with 10 basis points and a year of 2 seconds
rounds as the program does, within a few steps. `Sums` defines the sum the
properties need; the program itself never computes it.

**Lending** is one market with its lenders, borrowers, loans and promo.

| variable | account |
|---|---|
| `now` | `Clock::unix_timestamp` |
| `market`, `market_vault` | `Market` and the balance of its token vault |
| `lender` | `LenderPosition.shares` |
| `position` | `Position`; its collateral slots as a map from assets to amounts, with at most MAX_COLLATERAL_SLOTS in use; its loan slots as an array |
| `collateral` | of each `CollateralAsset` total_deposited, paused, borrow_paused and its parameters, which `UpdateCollateralParams` rewrites under live positions; `AssetParams` are those of the listing, `AssetUnit` the decimals, which stay |
| `promo_vault`, `promo_vault_token` | `PromoVault` and the balance of its token vault |
| `credit` | the counts in `CreditRecord` |

Each instruction is one action with the whole handler in it, `Accrue` and
forfeiture included; the instructions that price a position take the prices as an
argument (`view`), so that each transaction sees any combination of the price
views of the instance. `Tick`, `Donate`, `Clawback` and `ClawbackMarket` are the
environment. `FairSpec` adds the liquidators and the admin who writes off.

**PromoLedger** is what the promo vault promises, on three numbers. `Lending` and
`Campaigns` both implement it; each contains the half of the promo side that the
other abstracts. In `Lending` a campaign is a budget that grants promo when
asked; in `Campaigns` a position is a balance that may be released or forfeited
at any time.

**Campaigns** is the vault, campaigns, vouchers and receipts. The constant
`Vouchers` is everything the signers ever sign; a wallet may present any of them
as often as it likes. The Ed25519 check becomes `v.signer = promo_signer`.
`redemptions` is a history variable that only the properties read.

**Registry** is listing and the promo cap, with the collateral vaults. A mint is
a number, its place in the order of addresses; `set_promo_cap` takes any list of
mints, because the caller chooses the accounts. When collateral may leave a
position is Lending's business. The mint's permanent delegate, which
token/extensions.rs accepts of an XStock mint, takes tokens out of the vault
(`Seize`); `seized` is the history of the deposits it took and nobody sent back.

**Access** is roles, access accounts and pauses, and every handler of a user
reduced to its gates: which access it asks for and of whom, which pause it looks
at, whether the position must be healthy after it. What the gates guard is kept
as units of one collateral and one debt, a unit backing a unit; that prices put a
position under its line is a step of the environment (`underwater`). A wallet in
`leaving` only repays, withdraws and closes from then on. `proposal` is a history
of who named whom last. Amounts are Lending's business, the gates are not:
Lending takes every wallet as active.

**MintPolicy** is one mint with its vault, from before its listing to after its
delisting: the extensions it was made with, what its issuer does since (labels
attached, hook, default account state, pause, freeze, seizure), the policy in
token/extensions.rs on entry and on exit, and the token program's own refusals.
`taken` counts what the issuer seized; with `leaving` all depositors have decided to
withdraw.

**Valuation** is one priced transaction after another for a position with given
slots: the caller supplies any list of accounts of the instance, `LoadValuation`
is the whole walk with both oracles' checks, rescaling and the multiplier, and
what it accepts is in `outcome` until `TransactionEnds`; a refused valuation is a
transaction that leaves nothing. Between transactions the environment posts
updates, cranks, points a feed at another job or back, schedules multipliers, and
time passes. Of each result the history `of` is the job it is really of, and
`turned` whether the account was pointed elsewhere since; no reader sees either.
`in_force` is the history of the multiplier that holders see. The walk is a
recursive function over the used slots, `Pow10` the powers of ten that fit the
code's integers: an exponent beyond them is refused, as `pow10` refuses it.

**Clients** is the three scripts that send several transactions. A step is a
record of what it reads, what its transaction makes, fills, draws on and needs,
so that the scripts are three sequences of steps and one state machine runs
each: `Look` reads and decides, `Confirm` waits, `GiveUp` stops anywhere and may
leave a transaction in `flights`, which lands or expires at any later time.

Mutant operators stand before the definitions they would replace, marked
`Mutant:`. No specification uses them; they name the mistake that a property is
there to catch, and `PROJECT.json` says which.

### What is abstracted

* One market: the binding of a position to its market, and the refusals when it
  does not match, are left out. So are optional accounts that a caller may omit,
  but for the credit record of a liquidation.
* Lending leaves out access and the mint policy, which only refuse: Access and
  MintPolicy have them. Access leaves out amounts, MintPolicy positions. In
  Registry a listing's checks of the mint, its decimals among them, are left out,
  which refuse too: MintPolicy has those on extensions.
* In Lending the promo cap is a constant and the collateral vaults have no tokens
  of their own; the cap's changes and the issuer's seizures are in Registry.
* The widths of integers: arithmetic is checked in the code, so overflow refuses
  the instruction and removes a step.
* `original_principal` and `repaid` of a loan, event payloads, rent.
* In Registry the fields of the two price sources are one flag,
  `source_is_coherent`; Valuation has `SourceIsCoherent` itself.
* Valuation: seconds and slots are one clock; the NGN feed is bound by its address
  only, as in the code; the account bytes are records.
* MintPolicy: one mint and one vault; the market mint's own allowlist is a
  constant of the code and not modelled; the parser of extension bytes is a set.
* Clients: a lost read counts as an absent account or a balance of 0, as the
  scripts take it; creating a token account is part of the step that needs it.

## 3. Runs

Deadlock is checked in all runs but `SetUp`, where scripts that are done stop.
`PROJECT.json` gives each run's properties, and for each property a mutant of
the code that violates it.

| run | question | bounds that matter |
|---|---|---|
| `Pool` | Do lenders, the reserve and the borrower share one pool fairly, whatever is rounded, donated or clawed back? | 2 lenders, 1 borrower, deposits 2 and 3, one loan, clawbacks of 2 from the market vault, 2 seconds (one year of interest), cash at most 6 |
| `Books` | Do the market's totals stay those of its loans, and the credit counters with the loan that ended? | 2 loan slots used again, partial and full repayments and liquidations, a change of terms between the loans, 3 seconds with penalty |
| `Promo` | Is promo always backed, and does it never block a default? | promo 1 and 2 from a budget of 3, clawbacks, pause, 2 seconds |
| `BorrowPause` | Can anything but a lower threshold sink a position that is left alone? | 2 borrowers, 2 assets with a multiplier ceiling, two price views, promo of 2, one loan of 4 at a time, a borrow pause and its end, a market pause, new market terms, two new sets of asset parameters (one with a lower threshold, one with a lower LTV and ceiling) |
| `Resolution` | Does a position under water always come out from under? | one loan that defaults in a crash, promo, a pause and a clawback of the promo vault; dust of 3 as in the other runs, lowered to 1 at any time |
| `Gates` | Who gets into office, and can everybody leave? | 2 keys for admin and guardian, a wallet that borrows and lends and one that lends, all three pauses |
| `MintExits` | Can an issuer seal a position or break custody? | every subset of 6 extensions that can be listed or not, 2 kinds, deposits 1 and 2, cap 3 |
| `Prices` | Does a valuation see the right accounts, prices and multiplier? | 4 price accounts, positions of 0, 1 and 2 slots, the right groups with any price account and every list one slip away, posts, cranks, feeds pointed away and back, multipliers, 3 seconds |
| `SetUp` | Do the scripts finish, and repeat nothing they can skip? | 3 scripts, 3 faults, 1 refused borrow, 2 more runs, a target of 2 with 0, 1 or 2 there |
| `Vouchers` | Is each voucher granted once, and does the vault keep its promise? | a nonce signed again with later expiries, 2 campaigns, 2 signers, every ledger operation, 3 seconds |
| `Listing` | Does every listing fit the cap, are vaults short by the issuer's seizures only, and does no cap change sink a position within its limit? | 3 mints, every list of up to 3 accounts, caps 0, 2, 4 and one out of range, parameters with and without slack, donations and seizures of 1, two price points |
| `PromoClock` | Does paused time age promo? (it does: finding) | 4 seconds, one pause |

The bounds are in the constants (`MaxTime`, `MaxLoanId`, `MaxRecords`, `MaxCash`
in Lending; `MaxTime`, `MaxTokens` in Campaigns; `MAX_ACCOUNTS`, and one
donation at a time, in Registry; `MaxUnits` in Access; `MaxTaken` in MintPolicy;
`MaxTime` in Valuation; `MaxFaults`, `MaxRefusals`, `MaxReruns` in Clients) and appear in guards of the actions that would
grow without limit. They are enough for the hazards: with 10 basis points and a
year of 2 seconds one `Tick` already leaves a remainder in every division, a
loan of 3 or 4 reaches interest, penalty, partial seizure and bad debt, and each
of the mutants, small mistakes at single lines, is found within them.

**Fairness.** Nothing in the code makes anybody send a transaction, so fairness is
a statement about people and bots, made only of those the design relies on:

* `Resolution`: for each borrower, a full liquidation or a write-off that stays
  possible is made in the end. Nobody else has to act. The liquidator brings
  whatever is owed; a partial liquidation may stall, because a payment whose
  principal share rounds to zero is refused.
* `Gates`: a wallet that leaves goes on leaving, and a position under water that
  can be liquidated is. Nothing is assumed of admin, guardian or wallets that stay.
* `MintExits`: depositors who leave withdraw when that stays possible. Nothing is
  assumed of the issuer or the admin, and `NoExitIsSealed` excuses only what the token program
  would itself refuse.
* `SetUp`: a script goes on by itself and the person runs it again until it is
  done. Faults and refusals are bounded.

Elsewhere what takes the place of liveness is that a step is *possible* when it
is needed: `ForfeitNeverBlocks` says that the part of a liquidation that depends
on the promo vault cannot fail.

## 4. What the runs show

* `ReserveIsCash`: the reserve is in the recorded cash, so `available_cash`'s
  saturating subtraction hides nothing. `OnlyClawbackOpensAMarketGap`: the vault
  holds that cash until its issuer takes some, and no instruction widens the gap.
* `TradingNeverProfits`, `SharePriceFallsOnlyOnBadDebt`: lenders' rounding.
* `BooksMatchLoans`, `AccrualCoversLoans`: `total_borrows` and `lp_rate_product`
  are sums over loans, and the pool accrues at least what each loan will release
  (the saturating subtraction never saturates to the pool's loss).
* `CreditFollowsTheLoan`, `BadDebtIsTheLoss`, `PromoProtectsLiveLoans`: the
  steps that end a loan or take promo from one do what they record.
* `PromoIsBacked`, `KeepsTheLedger`, `ForfeitNeverBlocks`, `LedgerMatchesAccounts`,
  `OnlyClawbackOpensAGap`: the promo vault.
* `GrantsMatchVouchers`, `OneRedemptionPerEpoch`, `RentIsBounded`: vouchers.
* `DepositsMatchSlots`, `VaultsCoverHoldings`: collateral. The permanent delegate of
  an xStock can leave a vault short of what positions hold
  (docs/ARCHITECTURE.md section 8 accepts it); the second says that nothing else
  can, and that the program neither widens that gap nor sweeps what would fill it.
* `OnlyALowerThresholdSinksAPosition`, `NoCapSinksAHealthyPosition`: health, with the
  per-asset floors and two promo caps that `math/health.rs` argues for. New
  parameters of an asset judge live positions at once
  (admin/collateral_admin.rs:152), so a lower threshold does liquidate. The first
  says that no other parameter, no pause and nobody else's business does. The
  second says that a cap change does not, for a position that was within its
  borrow limit.
* `EveryListingFitsTheCap`: the registry.
* `UnderwaterIsResolved`: together the liquidation and the write-off bring a
  position out from under its line, pause or not, however short of its promo the
  vault is, but for one gap. A liquidation whose seizure or principal share rounds
  to zero is refused (liquidation/liquidate.rs:206), a write-off wants holdings
  worth less than `bad_debt_dust_usd`, and `MarketParams::validate` bounds that
  from above only: with dust small enough, a position can hold too little for any
  liquidation and too much for a write-off (`RoundsToNothing`). With the dust of
  1 that the run lowers it to, TLC reaches this state and the property without the
  exception fails; at 3 the gap is not reached. A share rounds away when the
  payment is smaller than the balance per unit of principal, a base unit or two
  of cNGN, so that with dust in dollars the gap is empty; with dust 0, which a
  market is created with, it is every underwater position with little or nothing
  left in it, until the admin sets a higher dust.
* `AdminCameByProposal`, `InactiveWalletsStandStill`, `LeavingWalletGetsOut`,
  `UnderwaterIsLiquidated`: roles, bars and pauses.
* `AcceptedListIsTheSlots`, `CallerCannotChoosePinned`: what a caller's accounts
  can do. `MultiplierIsInForce`, `RoundingIsBounded`: what a price is worth.
* `PricesAreOwnAndFresh`: an accepted price is within its age bound and, for Pyth,
  of the asset's own feed; for Switchboard it is of the job the asset names unless
  the account was pointed away and back since the result was written. The hash is
  compared at the read and is not part of the result, so the code cannot tell.
* `CreditIsCustody`, `HeldXStockHasMultiplier`, `NoExitIsSealed`: the token layer
  against an issuer who uses every power the mint gives.
* `NoExcessWithoutFault`, `RunsComplete`: the scripts.

### Findings

`take_loan` expires a quiet position's promo by `promo_last_activity_at` alone
(loans/take_loan.rs:106). state/market.rs:48 documents that time spent paused
must not count and that expiry runs from the later of the last activity and the
last unpause; `expire_promo` does so. Run `PromoClock`.

Five smaller disagreements between the repository's words and the code came up; no run is
about them, but the modules follow the code:

* admin/reserve.rs:35 says that `protocol_reserve` grows solely in `repay_loan`;
  `liquidate` adds to it as well (liquidation/liquidate.rs:218). The comment's
  conclusion is not affected.
* docs/ARCHITECTURE.md:45-48 calls the rounding of price and confidence
  conservative on both sides; debt is counted at a floored price, and a
  confidence that divides exactly does not make up for it. `RoundingIsBounded`
  gives the bound: less than one unit.
* docs/ARCHITECTURE.md:87-90 says that binding the job makes pointing a feed at
  something else a failed read. It does while the feed points there: a result
  written meanwhile and read after the feed was pointed back passes, because the
  hash is compared only at the read (oracle/switchboard.rs:103-106).
  `PricesAreOwnAndFresh` excepts exactly that, and run `Prices` reaches it.
* setup-cli/src/bin/borrower_setup.rs:6 calls the script idempotent; the deposit
  is sent on every run (:111). `NoExcessWithoutFault` counts those runs.
* setup-cli/src/bin/prestocks_loan.rs:9 calls every step idempotent; whether
  shares are minted is decided by the wallet's balance (:142), which the first
  run's deposit has emptied, so a retry mints again.

## 5. Proofs

Each component's theorems are in the module named after it. LendingProofs has
two parts: what follows from single handlers, and what needs the sums over
positions, loans and lenders.

| module | theorem | argument |
|---|---|---|
| LendingProofs | `TypeCorrect` | `TypeOK` is inductive: one lemma per handler, from what its guards make natural |
| LendingProofs | `ReserveStaysCash` | `ReserveIsCash` is inductive with `TypeOK`; withdrawals and loans are bounded by available cash, repayment and liquidation bring at least the reserve's share in cash, a harvest takes the same from both, a write-off takes from the reserve only |
| LendingProofs | `MarketGapsComeFromClawbacks` | step by step, with `ReserveIsCash`: every handler moves vault and recorded cash alike, a sweep takes only what is above the record, and only a clawback widens the gap |
| LendingProofs | `LedgerStaysBacked` | `Backed` is inductive over the seven steps of the abstract ledger |
| LendingProofs | `LendingKeepsTheLedger`, `PromoStaysBacked` | step by step: each handler that moves promo is one ledger step, every other a stutter; the second carries the ledger's theorem over with INSTANCE |
| LendingProofs | `OnlyThresholdsSinkPositions` | the liquidation line reads worths and thresholds and not whether a holding lends, and it grows with the thresholds (`LineGrowsWithThresholds`, floor by floor and then in sum); the debt depends on the position and the clock; no other account enters |
| LendingProofs | `OnlyBadDebtCostsLenders` | the value of a share as a product, assets per share before and after compared crosswise: accrual only adds assets, a deposit mints a floor of shares, a withdrawal burns a ceiling, a settlement brings in at least what it releases, and only a write-off books less |
| SumsProofs | lemmas only | `SumOver` is determined by its recursion equation, by the least set it could fail for; it changes by the difference when one value does (`SumOfOneChange`), no summand exceeds it, and two sums fit under a third when they do so summand by summand (`TwoSumsFit`) |
| LendingProofs | `BooksStayMatched`, `DepositsStayInSlots`, `PromoStaysCounted` | every handler moves one position and the totals by what that position gained (`MovesWith`), or nothing; inductive as `BooksInv`, which adds that a closed account is empty and a free slot owes nothing |
| LendingProofs | `AccrualStaysCovered` | inductive with `BooksInv` as `AccrualInv`: at the last accrual, the pool with its carried remainder holds at least the sum of what the loans have accrued. Accruing adds the rate product times the time to the pool, no more and no less because the remainder is carried (`DivMod`), and the rate product is the sum of the loans' contributions, by which the sum grows (`AccrueCovers`); a settlement takes a floor of the loan's own accrual out, and where the pool runs out nobody else has accrued anything (`SettlingKeepsAccrual`) |
| LendingProofs | `ForfeitureNeverBlocks` | a position's promo is a summand of the outstanding promo, which is backed: the subtractions of forfeit_promo succeed |
| LendingProofs | `CreditIsEarned` | one case per handler that settles: it frees the slot of the loan it names or none, and the record moves exactly when it does; that a free slot owes nothing comes from `BooksInv` |
| LendingProofs | `PromoBacksItsLoans` | only expiry, revocation, forfeiture and closing lower a balance; the first two ask for health at the prices of the step, the third belongs to a liquidation or write-off of a loan, the last to a position without loans |
| LendingProofs | `BookedLossIsReal` | needs `RemainderInv` (the carried remainder is less than a token) with `AccrualInv`: the pool then holds, in whole tokens, what the loan that is given up has accrued, so the saturating subtraction takes all of it out and the assets fall by exactly what is booked |
| LendingProofs | `TradesNeverProfit` | needs `SharesInv` (total_shares is the sum of the lenders' shares), so that a lender's claim is a part of the whole; what a claim may grow by is bounded crosswise from the floor of minting and the ceiling of burning (`ClaimGrowsByAtMost`) |
| LendingProofs | `SettlementsNeverBlock` | `SettlementsCarry` from `BooksInv`, `AccrualInv` and `RemainderInv`: a summand fits its total, also in part |
| LendingProofs | `RoundingNeverTrapsALender` | `LendersCanLeave`: the ceiling of shares for a floor of assets comes back to at most the shares that were redeemed |
| CampaignsProofs | `CampaignTypes`, `CampaignsKeepTheLedger`, `GapsComeFromClawbacks` | types are inductive, the other two follow step by step |
| CampaignsProofs | `RentStaysBounded` | needs `CampaignEnds`: a created campaign ends within the lifetime from now, and a receipt's campaign was created |
| CampaignsProofs | `NonceIsSpentOnce` | needs `ReceiptsGuardNonces`: of every redemption either the voucher has expired or its receipt is there |
| CampaignsProofs | `LedgerStaysMatched`, `ForfeitureNeverBlocks`, `GrantsAreTheVouchers` | the sums over balances, campaigns and redeemed vouchers change in one place per step (`LedgerInv`, `GrantsInv`) |
| RegistryProofs | `RegistryTypes`, `CountStaysTheListing` | inductive; adding and removing one element changes the cardinality by one |
| RegistryProofs | `CapFitsEveryListing` | inductive with the count; `set_promo_cap` rests on `NamedAreTheListing`: keys whose neighbours increase are pairwise different (`NeighboursOrderAll`, by the least index out of order), and as many different listed mints as are listed are all of them |
| RegistryProofs | `VaultsStayCovered` | inductive as `VaultInv`: a deposit, a withdrawal and a sweep move one holding of one mint with its vault; a mint that is not listed is held by nobody, and what the vault is short of the total is `seized`, which only the delegate raises and only a donation lowers |
| RegistryProofs | `NoCapSinksAPosition` | joins the last two: what is held is listed (`WhatIsHeldIsListed`), what is listed fits the cap in force, so of each holding loan value and promo lift, rounded down one by one, fit under the threshold (`PartsFitTheThreshold`), and so do the sums |
| AccessProofs | `TypesStayCorrect` | inductive; it contains that no wallet is admitted and barred at once |
| AccessProofs | `AdminChangesByProposal` | needs `StandingProposal`: what is pending is what the admin in office proposed last |
| AccessProofs | `BarredStayOut`, `InactiveStandStill` | step by step, one case per handler, from the types |
| MintPolicyProofs | `PolicyTypes`, `CreditStaysCustody`, `HeldXStockKeepsMultiplier` | inductive; a mint that may enter charges no fee, so that what arrives is what is credited (`NoFeeOnEntry`), and an issuer cannot attach to a live mint what would change either |
| ValuationProofs | `AcceptedListStaysTheSlots`, `PinnedLeavesNoChoice` | the walk in closed form: by induction over the slots (`UpTo`, from the least slot it could fail at) the walk exists, and a list that comes through has slot i accepted right after the strides of the slots before it (`AcceptedListInClosedForm`); the outcome is what the supplied accounts are valued at, which is part of `IInv` because nothing moves within a transaction |
| ValuationProofs | `PricesStayOwnAndFresh` | with `QuotesAreOwn` in `IInv`: a post, a crank and a repoint keep that a quote is of the feed its account names, unless the update was not fully verified, which no reader takes, or the account was turned since its result |
| ValuationProofs | `MultiplierStaysInForce` | `MultiplierIsSeen` is inductive: the reader's choice between the two stored multipliers is the history's at every second, since a second schedule folds the first in |
| ValuationProofs | `RoundingStaysBounded` | floor and ceiling by the same power of ten (`DivisionBounds`, `CeilingBounds`), for shifts both ways |
| ClientsProofs | `ClientTypes` | inductive; a flight is a step of the script, of at most the target |
| ClientsProofs | `ExcessNeedsAFault` | inductive as `Covered`: what was paid in, with the top-up that is being confirmed, is at most a target for every unit of `Slack`: the free payment of the script, its re-runs and its faults, less the transactions still in flight and the one being confirmed. Each step that pays in frees a unit or has one from a fault; for prestocks_loan, an honest look tops up to the target and never above (`LookCovered`) |

The assumptions are those the constants have in each module, which TLC evaluates
in every run: `ScalesArePositive` in LoanMath; `SlotsAndUnits`, `FiniteParties`,
`ParamsAreValid`, `PricesArePositive` and `InputsAreNaturals` in Lending;
`CampaignConstants`; `RegistryConstants`; `AccessConstants`;
`MintPolicyConstants`; `ValuationConstants` and `Pow10Constants` in Valuation;
`ClientsConstants`.
They say that scales are positive, that sets of amounts hold naturals, that the
sets of wallets, campaigns and mints are finite where sums are taken over them,
that terms are ones `CollateralParams::validate` lets through, that `Pow10` is
the powers of ten, and of the accounts there are at first that a quote is of the
feed whose name it carries (`QuoteIsOwn`; that later ones are is proved).

The type invariants of Campaigns, Registry, Access and Clients, that the listing count is
the number of listings, that no one step makes a barred wallet active, that
settlements and lenders' withdrawals are never refused by a subtraction, and the
ledger's own `Backed` are proved and not in a run's list: they held in TLC
before they were proved, and the runs are kept for what needs them.

Every safety property and every action property of the passing runs is a theorem.
Only model-checked are the five liveness properties (`UnderwaterIsResolved`,
`LeavingWalletGetsOut`, `UnderwaterIsLiquidated`, `NoExitIsSealed`,
`RunsComplete`): liveness under fairness and ENABLED are out of reach of the
prover. The widths of integers are out of the proofs as they are out of the
models.

## 6. Not modelled

* Events and error codes (`events.rs`, `errors.rs`): not part of the state, and no
  property is about them. `constants.rs` is the modules' CONSTANTS.
* The bytes of accounts: of the Ed25519 instruction (`voucher.rs`), of the price
  accounts (`oracle/`), of the extension list and of a multiplier's floating point
  (`token/`). The models start from what parsing gives.
* Integer widths, for the reason above.
* The tools of setup-cli that send one transaction or only read (fund_market,
  list_prestocks, repay, set_ngn_feed, take_loan, credit_record, whoami): there is
  nothing between their steps.
* src/.devnet, src/deploy, src/idl, src/scripts: generated or infrastructure.
* Several markets: every account names its market and every handler checks it; with
  one market those checks always hold.

## 7. Plan

Done: all modules above, and the proofs above. What would come next:

1. A bound on `total_bad_debt` from what loans were taken, and what a liquidator
   pays against what it seizes, as properties of Lending with their proofs.
2. A second market: the binding of positions and of promo to their market.
