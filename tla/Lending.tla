------------------------------ MODULE Lending ------------------------------
(***************************************************************************)
(* One cNGN market of the hodl_loans program: its lenders, its borrowers'  *)
(* positions with their collateral, fixed-term loans and promo balances,   *)
(* and the vault that backs the promo.                                     *)
(*                                                                         *)
(* Every instruction is one transaction: it runs to its end or leaves no   *)
(* trace.  An action is therefore a whole handler, its guard the           *)
(* conjunction of everything the handler requires, checked subtractions    *)
(* included.  Prices are read from oracle accounts inside the transaction; *)
(* a handler that prices a position takes the view the oracles show it as  *)
(* a parameter, so any view may be seen at any time.                       *)
(*                                                                         *)
(* The model has one market, and every wallet is whitelisted throughout:   *)
(* revoking access can only remove steps.                                  *)
(***************************************************************************)
EXTENDS LoanMath

CONSTANTS
    Lenders,               \* wallets that deposit liquidity
    Borrowers,             \* wallets that open positions
    Assets,                \* listed collateral mints
    MAX_LOAN_SLOTS,        \* loan slots of a position
    MAX_COLLATERAL_SLOTS,  \* collateral slots of a position
    MIN_TENURE,            \* shortest tenure, in seconds
    U64_MAX,               \* the amount that means "everything" to a withdrawal
    CNGN_UNIT,             \* base units of one cNGN
    PROMO_CAP_BPS,         \* config.promo_cap_bps
    AssetUnit,             \* [Assets -> base units of one display token]
    AssetParams,           \* [Assets -> the CollateralParams an asset is listed with]
    InitialParams,         \* the MarketParams the market is created with
    PromoBudget,           \* cNGN in the promo vault, all committed to campaigns
    PriceViews             \* what the oracles may show: NGN and every asset

\* Inputs of the instructions and of the environment.
CONSTANTS
    DepositAmounts, WithdrawAmounts, HarvestAmounts, LoanAmounts, Tenures,
    RepayAmounts, LiquidateAmounts, CollateralAmounts, PromoAmounts,
    ParamChoices, AssetParamChoices, PauseInputs, AssetPauseInputs, BorrowPauseInputs,
    DonationAmounts, ClawbackAmounts, MarketClawbackAmounts

\* Bounds of the instance; the program has none of them.
CONSTANTS
    MaxTime,    \* the clock stops here
    MaxLoanId,  \* loans one position may open
    MaxRecords, \* no loan to a wallet with this many on its credit record
    MaxCash     \* no deposit beyond this much market cash

LoanSlots == 1..MAX_LOAN_SLOTS

MarketParams ==
    [interest_rate_bps: 0..BPS, penalty_rate_bps: 0..BPS, reserve_factor_bps: 0..BPS,
     max_utilization_bps: 0..BPS, min_loan_amount: Nat, max_tenure_seconds: Nat,
     bad_debt_dust_usd: Nat, promo_inactivity_seconds: Nat \ {0},
     max_promo_per_position: Nat]

\* What CollateralParams::validate accepts.
CollateralParams ==
    {params \in [ltv_bps: 0..BPS, liquidation_threshold_bps: 0..BPS,
                 liquidation_bonus_bps: 0..BPS, deposit_cap: Nat, max_multiplier: Nat] :
        /\ params.ltv_bps + PROMO_CAP_BPS <= params.liquidation_threshold_bps
        /\ params.liquidation_threshold_bps * (BPS + params.liquidation_bonus_bps) <= BPS * BPS
        /\ params.max_multiplier = 0 \/ params.max_multiplier >= MULTIPLIER_SCALE}

ASSUME SlotsAndUnits ==
    /\ MAX_LOAN_SLOTS \in Nat \ {0}
    /\ MAX_COLLATERAL_SLOTS \in Nat \ {0}
    /\ MIN_TENURE \in Nat \ {0}
    /\ CNGN_UNIT \in Nat \ {0}
    /\ U64_MAX \in Nat
    /\ PROMO_CAP_BPS \in 0..BPS
    /\ PromoBudget \in Nat

ASSUME FiniteParties ==
    /\ IsFiniteSet(Lenders)
    /\ IsFiniteSet(Borrowers)
    /\ IsFiniteSet(Assets)

\* A listing's parameters and decimals, and MarketParams::validate.
ASSUME ParamsAreValid ==
    /\ AssetUnit \in [Assets -> Nat \ {0}]
    /\ AssetParams \in [Assets -> CollateralParams]
    /\ AssetParamChoices \subseteq CollateralParams
    /\ {InitialParams} \cup ParamChoices \subseteq MarketParams
    /\ \A params \in {InitialParams} \cup ParamChoices : params.max_tenure_seconds >= MIN_TENURE

\* A price view: oracles reject prices that are not positive.
ASSUME PricesArePositive ==
    \A view \in PriceViews :
        /\ view.ngn \in [price: Nat \ {0}, conf: Nat]
        /\ view.asset \in [Assets -> [price: Nat \ {0}, conf: Nat, multiplier: Nat \ {0}]]

ASSUME InputsAreNaturals ==
    /\ UNION {DepositAmounts, WithdrawAmounts, HarvestAmounts, LoanAmounts, Tenures,
              RepayAmounts, LiquidateAmounts, CollateralAmounts, PromoAmounts,
              DonationAmounts, ClawbackAmounts, MarketClawbackAmounts} \subseteq Nat
    /\ UNION {PauseInputs, AssetPauseInputs, BorrowPauseInputs} \subseteq BOOLEAN
    /\ {MaxTime, MaxLoanId, MaxRecords, MaxCash} \subseteq Nat

VARIABLES
    now,                \* Clock::unix_timestamp
    market,             \* the Market account
    market_vault,       \* tokens in the market's vault
    lender,             \* [Lenders -> LenderPosition.shares]
    position,           \* [Borrowers -> Position account, closed or open]
    collateral,         \* [Assets -> CollateralAsset account]
    promo_vault,        \* the PromoVault ledger
    promo_vault_token,  \* tokens in the promo vault
    credit              \* [Borrowers -> CreditRecord counters]

vars == <<now, market, market_vault, lender, position, collateral,
          promo_vault, promo_vault_token, credit>>

-----------------------------------------------------------------------------
(* The accounts *)

Loan ==
    [active: BOOLEAN, id: Nat, principal: Nat, originated_at: Nat, interest_anchor: Nat,
     tenure_seconds: Nat, rate_bps: 0..BPS, penalty_rate_bps: 0..BPS,
     reserve_factor_bps: 0..BPS]

\* A zeroed loan slot.
FreeSlot ==
    [active |-> FALSE, id |-> 0, principal |-> 0, originated_at |-> 0, interest_anchor |-> 0,
     tenure_seconds |-> 0, rate_bps |-> 0, penalty_rate_bps |-> 0, reserve_factor_bps |-> 0]

Position ==
    [open: BOOLEAN, next_loan_id: Nat, promo_balance: Nat, promo_last_activity_at: Nat,
     collateral: [Assets -> Nat], loans: [LoanSlots -> Loan]]

\* No account, or one just zeroed by open_position apart from its identity.
EmptyPosition ==
    [open |-> FALSE, next_loan_id |-> 0, promo_balance |-> 0, promo_last_activity_at |-> 0,
     collateral |-> [a \in Assets |-> 0], loans |-> [i \in LoanSlots |-> FreeSlot]]

HasActiveLoans(p) == \E i \in LoanSlots : p.loans[i].active
\* Mutant: asks for collateral of every asset instead of any.
HoldsEverything(p) == \A a \in Assets : p.collateral[a] > 0

HasCollateral(p) == \E a \in Assets : p.collateral[a] > 0
UsedCollateral(p) == {a \in Assets : p.collateral[a] > 0}

\* Mutant: a freed slot answers to the id it was zeroed to.
IsSlotWithId(p, id, i) ==
    /\ p.loans[i].id = id
    /\ \A j \in 1..(i - 1) : p.loans[j].id # id

\* i is the slot loan_index(id) finds: the first active one that carries id.
IsLoanIndex(p, id, i) ==
    /\ p.loans[i].active /\ p.loans[i].id = id
    /\ \A j \in 1..(i - 1) : ~(p.loans[j].active /\ p.loans[j].id = id)

IsFreeLoanIndex(p, i) ==
    /\ ~p.loans[i].active
    /\ \A j \in 1..(i - 1) : p.loans[j].active

Market ==
    [cash: Nat, total_borrows: Nat, lp_rate_product: Nat, accrued_interest: Nat,
     accrual_remainder: Nat, last_accrual_ts: Nat, protocol_reserve: Nat,
     total_bad_debt: Nat, total_shares: Nat, paused: BOOLEAN,
     promo_clock_resumed_at: Nat, params: MarketParams]

\* Market::accrue, with the clock the transaction reads.
Accrue(m) ==
    LET r == AccrueLpInterest(m.lp_rate_product, now - m.last_accrual_ts, m.accrual_remainder)
    IN  IF now <= m.last_accrual_ts THEN m
        ELSE [m EXCEPT !.accrued_interest = @ + r.interest,
                       !.accrual_remainder = r.remainder,
                       !.last_accrual_ts = now]

TotalAssets(m) == m.cash + m.total_borrows + m.accrued_interest - m.protocol_reserve
\* Mutant: lenders may take the protocol's reserve.
WholeCash(m) == m.cash

AvailableCash(m) == SatSub(m.cash, m.protocol_reserve)

\* Market::total_assets subtracts with a check, so it reverts on this.
AssetsUnderflow(m) == TotalAssets(m) < 0

\* Mutant: settles a loan at the market's current terms.
SettleAtMarketTerms(m, loan, accruedOn, principalRepaid, interestPaid) ==
    [m EXCEPT
        !.accrued_interest = SatSub(@, AccruedLpInterest(accruedOn, loan, now)),
        !.protocol_reserve = @ + ReserveShare(interestPaid, loan.reserve_factor_bps),
        !.total_borrows = @ - principalRepaid,
        !.lp_rate_product = @ - LpContribution(principalRepaid, m.params.interest_rate_bps,
                                               m.params.reserve_factor_bps),
        !.cash = @ + principalRepaid + interestPaid]

\* Mutant: the reserve's share is added to the cash the payment already is.
SettleAddsTheShare(m, loan, accruedOn, principalRepaid, interestPaid) ==
    [m EXCEPT
        !.accrued_interest = SatSub(@, AccruedLpInterest(accruedOn, loan, now)),
        !.protocol_reserve = @ + ReserveShare(interestPaid, loan.reserve_factor_bps),
        !.total_borrows = @ - principalRepaid,
        !.lp_rate_product = @ - LpContribution(principalRepaid, loan.rate_bps,
                                               loan.reserve_factor_bps),
        !.cash = @ + principalRepaid + interestPaid
                   + ReserveShare(interestPaid, loan.reserve_factor_bps)]

\* What a payment of interestPaid and principalRepaid on `loan' does to the
\* books; the accrued lender interest it settles is that of accruedOn.
SettleLoan(m, loan, accruedOn, principalRepaid, interestPaid) ==
    [m EXCEPT
        !.accrued_interest = SatSub(@, AccruedLpInterest(accruedOn, loan, now)),
        !.protocol_reserve = @ + ReserveShare(interestPaid, loan.reserve_factor_bps),
        !.total_borrows = @ - principalRepaid,
        !.lp_rate_product = @ - LpContribution(principalRepaid, loan.rate_bps,
                                               loan.reserve_factor_bps),
        !.cash = @ + principalRepaid + interestPaid]

\* The checked subtractions of a settlement.
BooksCarry(m, loan, principalRepaid) ==
    /\ principalRepaid <= m.total_borrows
    /\ LpContribution(principalRepaid, loan.rate_bps, loan.reserve_factor_bps)
          <= m.lp_rate_product

-----------------------------------------------------------------------------
(* Valuation *)

OverMultiplierCeiling(a, multiplier) ==
    LET ceiling == collateral[a].params.max_multiplier IN ceiling # 0 /\ multiplier > ceiling

\* The CollateralValue of each collateral the position holds.
CollateralValues(p, view) ==
    [a \in UsedCollateral(p) |->
        [amount     |-> p.collateral[a],
         unit       |-> AssetUnit[a],
         multiplier |-> view.asset[a].multiplier,
         price      |-> view.asset[a],
         ltv_bps    |-> collateral[a].params.ltv_bps,
         liquidation_threshold_bps |-> collateral[a].params.liquidation_threshold_bps,
         lends_borrowing_power |->
            /\ ~collateral[a].borrow_paused
            /\ ~OverMultiplierCeiling(a, view.asset[a].multiplier)]]

TotalDebt(p) ==
    SumOver([i \in LoanSlots |-> IF p.loans[i].active
                                 THEN Total(LoanBalance(p.loans[i], now)) ELSE 0], LoanSlots)

PositionHealth(p, extraDebt, view) ==
    ComputeHealth(CollateralValues(p, view), TotalDebt(p) + extraDebt, CNGN_UNIT,
                  view.ngn, p.promo_balance, PROMO_CAP_BPS)

\* Mutant: measures against the liquidation line.
StaysAboveTheLine(p, view) ==
    HasActiveLoans(p) => ~IsLiquidatable(PositionHealth(p, 0, view))

\* Something may leave a position if no loan is running, or if what is left is
\* healthy.
StaysHealthy(p, view) == HasActiveLoans(p) => IsHealthy(PositionHealth(p, 0, view))

-----------------------------------------------------------------------------
(* The promo vault's ledger *)

\* PromoVault::release succeeds: the checked subtraction and the invariant.
CanRelease(amount) ==
    /\ amount <= promo_vault.outstanding
    /\ promo_vault.outstanding - amount + promo_vault.unissued <= promo_vault.cash

\* Mutant: moves the recorded balance, whatever the vault holds.
ForfeitsTheRecord(p) == p.promo_balance

\* Forfeiting moves what the vault really holds, up to the position's promo.
ForfeitMoves(p) == Min2(p.promo_balance, promo_vault_token)

CanForfeit(p) ==
    p.promo_balance > 0 =>
        /\ CanRelease(p.promo_balance)
        /\ ForfeitMoves(p) <= promo_vault_token
        /\ ForfeitMoves(p) <= promo_vault.cash
        /\ promo_vault.outstanding - p.promo_balance + promo_vault.unissued
              <= promo_vault.cash - ForfeitMoves(p)

\* Mutant: the tokens go, the liability stays.
ForfeitKeepsLiability(p) == [promo_vault EXCEPT !.cash = @ - ForfeitMoves(p)]

\* The ledger once the promo is forfeited.
AfterForfeit(p) ==
    [promo_vault EXCEPT !.outstanding = @ - p.promo_balance,
                        !.cash = @ - ForfeitMoves(p)]

-----------------------------------------------------------------------------
(* Lenders *)

DepositLiquidity(w, amount) ==
    LET m == Accrue(market)
        shares == SharesForDeposit(amount, m.total_shares, TotalAssets(m))
    IN  /\ amount > 0
        /\ ~market.paused
        /\ ~AssetsUnderflow(m)
        /\ shares > 0
        /\ m.cash + amount <= MaxCash
        /\ market' = [m EXCEPT !.cash = @ + amount, !.total_shares = @ + shares]
        /\ lender' = [lender EXCEPT ![w] = @ + shares]
        /\ market_vault' = market_vault + amount
        /\ UNCHANGED <<now, position, collateral, promo_vault, promo_vault_token, credit>>

\* U64_MAX asks for everything redeemable, capped at the available cash.
\* Works while the market is paused.
WithdrawLiquidity(w, request) ==
    LET m == Accrue(market)
        redeemable == RedeemableAmount(lender[w], m.total_shares, TotalAssets(m))
        amount == IF request = U64_MAX THEN Min2(redeemable, AvailableCash(m)) ELSE request
        burned == SharesToBurn(amount, m.total_shares, TotalAssets(m))
    IN  /\ ~AssetsUnderflow(m)
        /\ amount > 0
        /\ amount <= AvailableCash(m)
        /\ burned <= lender[w]
        /\ burned <= m.total_shares
        /\ amount <= market_vault
        /\ market' = [m EXCEPT !.cash = @ - amount, !.total_shares = @ - burned]
        /\ lender' = [lender EXCEPT ![w] = @ - burned]
        /\ market_vault' = market_vault - amount
        /\ UNCHANGED <<now, position, collateral, promo_vault, promo_vault_token, credit>>

-----------------------------------------------------------------------------
(* Positions and collateral *)

OpenPosition(b) ==
    /\ ~position[b].open
    /\ position' = [position EXCEPT ![b] = [EmptyPosition EXCEPT !.open = TRUE]]
    /\ UNCHANGED <<now, market, market_vault, lender, collateral, promo_vault,
                   promo_vault_token, credit>>

\* The account is closed: a later open_position starts from zero again.
ClosePosition(b) ==
    LET p == position[b] IN
    /\ p.open
    /\ ~HasCollateral(p) /\ ~HasActiveLoans(p)
    /\ p.promo_balance > 0 => CanRelease(p.promo_balance)
    /\ position' = [position EXCEPT ![b] = EmptyPosition]
    /\ promo_vault' = [promo_vault EXCEPT !.outstanding = @ - p.promo_balance]
    /\ UNCHANGED <<now, market, market_vault, lender, collateral, promo_vault_token, credit>>

DepositCollateral(b, a, amount) ==
    LET p == position[b] IN
    /\ p.open
    /\ amount > 0
    /\ ~collateral[a].paused
    /\ collateral[a].total_deposited + amount <= collateral[a].params.deposit_cap
    /\ p.collateral[a] > 0 \/ Cardinality(UsedCollateral(p)) < MAX_COLLATERAL_SLOTS
    /\ position' = [position EXCEPT ![b] = [p EXCEPT !.collateral[a] = @ + amount]]
    /\ collateral' = [collateral EXCEPT ![a].total_deposited = @ + amount]
    /\ UNCHANGED <<now, market, market_vault, lender, promo_vault, promo_vault_token, credit>>

\* Free while nothing is borrowed; otherwise what is left must be healthy.
WithdrawCollateral(b, a, amount, view) ==
    LET p == position[b]
        left == [p EXCEPT !.collateral[a] = @ - amount]
    IN  /\ p.open
        /\ amount > 0
        /\ p.collateral[a] >= amount
        /\ StaysHealthy(left, view)
        /\ amount <= collateral[a].total_deposited
        /\ position' = [position EXCEPT ![b] = left]
        /\ collateral' = [collateral EXCEPT ![a].total_deposited = @ - amount]
        /\ UNCHANGED <<now, market, market_vault, lender, promo_vault, promo_vault_token,
                       credit>>

-----------------------------------------------------------------------------
(* Loans *)

\* The promo of a quiet position is released before it can support a loan.
\* The deadline runs from the position's last activity alone.
PromoDue(p) ==
    /\ p.promo_balance > 0
    /\ ~HasActiveLoans(p)
    /\ now >= p.promo_last_activity_at + market.params.promo_inactivity_seconds

NewLoan(id, amount, tenure) ==
    [active |-> TRUE, id |-> id, principal |-> amount, originated_at |-> now,
     interest_anchor |-> now, tenure_seconds |-> tenure,
     rate_bps |-> market.params.interest_rate_bps,
     penalty_rate_bps |-> market.params.penalty_rate_bps,
     reserve_factor_bps |-> market.params.reserve_factor_bps]

TakeLoan(b, amount, tenure, view) ==
    LET m == Accrue(market)
        p == position[b]
        expired == IF PromoDue(p) THEN p.promo_balance ELSE 0
        q == [p EXCEPT !.promo_balance = @ - expired]
        loan == NewLoan(p.next_loan_id, amount, tenure)
    IN  /\ p.open
        /\ ~market.paused
        /\ amount > 0 /\ amount >= market.params.min_loan_amount
        /\ tenure \in MIN_TENURE..market.params.max_tenure_seconds
        /\ amount <= AvailableCash(m)
        /\ (m.total_borrows + amount) * BPS
              <= (AvailableCash(m) + m.total_borrows) * market.params.max_utilization_bps
        /\ PromoDue(p) => CanRelease(expired)
        /\ IsHealthy(PositionHealth(q, amount, view))
        /\ amount <= market_vault
        /\ p.next_loan_id < MaxLoanId
        /\ credit[b].loans_completed + credit[b].loans_defaulted < MaxRecords
        /\ \E i \in LoanSlots :
              /\ IsFreeLoanIndex(p, i)
              /\ position' = [position EXCEPT ![b] =
                                [q EXCEPT !.next_loan_id = @ + 1,
                                          !.promo_last_activity_at = now,
                                          !.loans[i] = loan]]
        /\ market' = [m EXCEPT
              !.total_borrows = @ + amount,
              !.lp_rate_product = @ + LpContribution(amount, loan.rate_bps,
                                                     loan.reserve_factor_bps),
              !.cash = @ - amount]
        /\ market_vault' = market_vault - amount
        /\ promo_vault' = [promo_vault EXCEPT !.outstanding = @ - expired]
        /\ UNCHANGED <<now, lender, collateral, promo_vault_token, credit>>

\* Any wallet may pay.  The whole interest and penalty is paid first, and the
\* anchor moves to now.
RepayLoan(b, id, amount) ==
    LET m == Accrue(market)
        p == position[b]
    IN  /\ p.open
        /\ amount > 0
        /\ \E i \in LoanSlots :
              LET loan == p.loans[i]
                  balance == LoanBalance(loan, now)
                  paid == Min2(amount, Total(balance))
                  principalRepaid == paid - Due(balance)
                  closed == principalRepaid = loan.principal
                  loans == [p.loans EXCEPT ![i] =
                              IF closed THEN FreeSlot
                              ELSE [loan EXCEPT !.principal = @ - principalRepaid,
                                                !.interest_anchor = now]]
                  idle == closed /\ ~\E j \in LoanSlots : loans[j].active
              IN  /\ IsLoanIndex(p, id, i)
                  /\ paid >= Due(balance)
                  /\ BooksCarry(m, loan, principalRepaid)
                  /\ market' = SettleLoan(m, loan, loan.principal, principalRepaid, Due(balance))
                  /\ position' = [position EXCEPT ![b] =
                        [p EXCEPT !.loans = loans,
                                  !.promo_last_activity_at = IF idle THEN now ELSE @]]
                  /\ market_vault' = market_vault + paid
                  /\ credit' = [credit EXCEPT ![b].loans_completed = IF closed THEN @ + 1 ELSE @]
        /\ UNCHANGED <<now, lender, collateral, promo_vault, promo_vault_token>>

-----------------------------------------------------------------------------
(* Defaults *)

\* What a repayment of `requested' buys from the position's holding of a.
Seizure(p, a, requested, view) ==
    SeizeForRepayment([repay_amount |-> requested, ngn_price |-> view.ngn.price,
                       cngn_unit |-> CNGN_UNIT, collateral_price |-> view.asset[a].price,
                       collateral_unit |-> AssetUnit[a],
                       multiplier |-> view.asset[a].multiplier,
                       bonus_bps |-> collateral[a].params.liquidation_bonus_bps,
                       slot_amount |-> p.collateral[a]])

\* Anyone, at any time, pause or not.  The promo is forfeited to the lenders
\* first; the anchor of the loan is not moved.  The credit record is optional.
Liquidate(b, id, a, amount, view, recorded) ==
    LET m == Accrue(market)
        p == position[b]
        moved == ForfeitMoves(p)
    IN  /\ p.open
        /\ amount > 0
        /\ p.collateral[a] > 0
        /\ IsLiquidatable(PositionHealth(p, 0, view))
        /\ CanForfeit(p)
        /\ \E i \in LoanSlots :
              LET loan == p.loans[i]
                  balance == Total(LoanBalance(loan, now))
                  paid == Seizure(p, a, Min2(amount, balance), view).repay_amount
                  seized == Seizure(p, a, Min2(amount, balance), view).seize_amount
                  principalRepaid == PrincipalShare(paid, loan.principal, balance)
                  closed == principalRepaid = loan.principal
              IN  /\ IsLoanIndex(p, id, i)
                  /\ paid > 0 /\ seized > 0
                  /\ principalRepaid > 0
                  /\ BooksCarry(m, loan, principalRepaid)
                  /\ seized <= collateral[a].total_deposited
                  /\ market' = SettleLoan([m EXCEPT !.cash = @ + moved], loan, principalRepaid,
                                          principalRepaid, paid - principalRepaid)
                  /\ position' = [position EXCEPT ![b] =
                        [p EXCEPT !.promo_balance = 0,
                                  !.collateral[a] = @ - seized,
                                  !.loans[i] = IF closed THEN FreeSlot
                                               ELSE [loan EXCEPT !.principal = @ - principalRepaid]]]
                  /\ collateral' = [collateral EXCEPT ![a].total_deposited = @ - seized]
                  /\ market_vault' = market_vault + moved + paid
                  /\ credit' = [credit EXCEPT ![b].loans_defaulted =
                                    IF closed /\ recorded THEN @ + 1 ELSE @]
        /\ promo_vault' = AfterForfeit(p)
        /\ promo_vault_token' = promo_vault_token - moved
        /\ UNCHANGED <<now, lender>>

\* Mutant: books the gross loss.
GrossLoss(loss, forfeited) == loss

\* Forfeited promo already repaid its part of a loss.
NetLoss(loss, forfeited) == SatSub(loss, forfeited)

\* Mutant: takes the whole loss out of the reserve.
CoversInFull(netLoss, reserve) == netLoss

\* The reserve absorbs what it can; the rest reaches the lenders.
CoveredByReserve(netLoss, reserve) == Min2(netLoss, reserve)

\* Mutant: weighs the debt instead.
OwesDust(health) == health.debt < market.params.bad_debt_dust_usd

\* What the position still holds is not worth liquidating.
HoldsDust(health) == health.own_value < market.params.bad_debt_dust_usd

\* The admin gives up on a loan whose position is liquidatable and holds less
\* than dust.  Forfeited promo offsets the loss before the reserve does.
WriteOffLoan(b, id, view) ==
    LET m == Accrue(market)
        p == position[b]
        health == PositionHealth(p, 0, view)
        moved == ForfeitMoves(p)
    IN  /\ p.open
        /\ IsLiquidatable(health)
        /\ HoldsDust(health)
        /\ CanForfeit(p)
        /\ \E i \in LoanSlots :
              LET loan == p.loans[i]
                  accrued == AccruedLpInterest(loan.principal, loan, now)
                  netLoss == NetLoss(loan.principal + accrued, moved)
              IN  /\ IsLoanIndex(p, id, i)
                  /\ BooksCarry(m, loan, loan.principal)
                  /\ market' = [m EXCEPT
                        !.cash = @ + moved,
                        !.accrued_interest = SatSub(@, accrued),
                        !.total_borrows = @ - loan.principal,
                        !.lp_rate_product = @ - LpContribution(loan.principal, loan.rate_bps,
                                                               loan.reserve_factor_bps),
                        !.protocol_reserve = @ - CoveredByReserve(netLoss, @),
                        !.total_bad_debt = @ + netLoss]
                  /\ position' = [position EXCEPT ![b] =
                        [p EXCEPT !.promo_balance = 0, !.loans[i] = FreeSlot]]
        /\ credit' = [credit EXCEPT ![b].loans_defaulted = @ + 1]
        /\ market_vault' = market_vault + moved
        /\ promo_vault' = AfterForfeit(p)
        /\ promo_vault_token' = promo_vault_token - moved
        /\ UNCHANGED <<now, lender, collateral>>

-----------------------------------------------------------------------------
(* Promo *)

\* redeem_promo, seen from the position and the vault.  That a campaign has
\* room for the amount and that the voucher is fresh is the promo module's
\* business; here the amount must fit what campaigns have left to issue.
RedeemPromo(b, amount) ==
    LET p == position[b] IN
    /\ p.open
    /\ ~market.paused
    /\ amount > 0
    /\ amount <= promo_vault.unissued
    /\ p.promo_balance + amount <= market.params.max_promo_per_position
    /\ position' = [position EXCEPT ![b] = [p EXCEPT !.promo_balance = @ + amount,
                                                     !.promo_last_activity_at = now]]
    /\ promo_vault' = [promo_vault EXCEPT !.unissued = @ - amount, !.outstanding = @ + amount]
    /\ UNCHANGED <<now, market, market_vault, lender, collateral, promo_vault_token, credit>>

\* Anyone; barred while paused, and the clock restarts at an unpause.
ExpirePromo(b) ==
    LET p == position[b] IN
    /\ p.open
    /\ ~market.paused
    /\ now >= Max2(p.promo_last_activity_at, market.promo_clock_resumed_at)
                + market.params.promo_inactivity_seconds
    /\ p.promo_balance > 0
    /\ ~HasActiveLoans(p)
    /\ CanRelease(p.promo_balance)
    /\ position' = [position EXCEPT ![b] = [p EXCEPT !.promo_balance = 0]]
    /\ promo_vault' = [promo_vault EXCEPT !.outstanding = @ - p.promo_balance]
    /\ UNCHANGED <<now, market, market_vault, lender, collateral, promo_vault_token, credit>>

\* The admin takes promo back; a borrower with loans must be healthy without it.
RevokePromo(b, view) ==
    LET p == position[b]
        left == [p EXCEPT !.promo_balance = 0]
    IN  /\ p.open
        /\ p.promo_balance > 0
        /\ CanRelease(p.promo_balance)
        /\ StaysHealthy(left, view)
        /\ position' = [position EXCEPT ![b] = left]
        /\ promo_vault' = [promo_vault EXCEPT !.outstanding = @ - p.promo_balance]
        /\ UNCHANGED <<now, market, market_vault, lender, collateral, promo_vault_token, credit>>

-----------------------------------------------------------------------------
(* Admin *)

HarvestReserve(amount) ==
    /\ amount > 0
    /\ amount <= market.protocol_reserve
    /\ amount <= market.cash
    /\ amount <= market_vault
    /\ market' = [market EXCEPT !.protocol_reserve = @ - amount, !.cash = @ - amount]
    /\ market_vault' = market_vault - amount
    /\ UNCHANGED <<now, lender, position, collateral, promo_vault, promo_vault_token, credit>>

\* Tokens nobody accounted for go to the treasury.
SweepMarketExcess ==
    /\ market_vault > market.cash
    /\ market_vault' = market.cash
    /\ UNCHANGED <<now, market, lender, position, collateral, promo_vault, promo_vault_token,
                   credit>>

\* New terms bind new loans only: what has run so far accrues first.
UpdateMarketParams(params) ==
    /\ market' = [Accrue(market) EXCEPT !.params = params]
    /\ UNCHANGED <<now, market_vault, lender, position, collateral, promo_vault,
                   promo_vault_token, credit>>

SetMarketPaused(paused) ==
    /\ market' = [market EXCEPT !.paused = paused,
                                !.promo_clock_resumed_at =
                                    IF market.paused /\ ~paused THEN now ELSE @]
    /\ UNCHANGED <<now, market_vault, lender, position, collateral, promo_vault,
                   promo_vault_token, credit>>

SetCollateralPaused(a, paused) ==
    /\ collateral' = [collateral EXCEPT ![a].paused = paused]
    /\ UNCHANGED <<now, market, market_vault, lender, position, promo_vault,
                   promo_vault_token, credit>>

SetCollateralBorrowPaused(a, paused) ==
    /\ collateral' = [collateral EXCEPT ![a].borrow_paused = paused]
    /\ UNCHANGED <<now, market, market_vault, lender, position, promo_vault,
                   promo_vault_token, credit>>

\* Live positions are judged by the new terms at once.
UpdateCollateralParams(a, params) ==
    /\ collateral' = [collateral EXCEPT ![a].params = params]
    /\ UNCHANGED <<now, market, market_vault, lender, position, promo_vault,
                   promo_vault_token, credit>>

-----------------------------------------------------------------------------
(* The environment: time, and the cNGN token outside the program *)

Tick ==
    /\ now < MaxTime
    /\ now' = now + 1
    /\ UNCHANGED <<market, market_vault, lender, position, collateral, promo_vault,
                   promo_vault_token, credit>>

\* Anyone can send tokens straight to the vault.
Donate(amount) ==
    /\ market_vault + amount <= MaxCash
    /\ market_vault' = market_vault + amount
    /\ UNCHANGED <<now, market, lender, position, collateral, promo_vault, promo_vault_token,
                   credit>>

\* The issuer's permanent delegate takes tokens out of the promo vault.
Clawback(amount) ==
    /\ amount <= promo_vault_token
    /\ promo_vault_token' = promo_vault_token - amount
    /\ UNCHANGED <<now, market, market_vault, lender, position, collateral, promo_vault, credit>>

\* And out of the market's vault, which the market does not notice.
ClawbackMarket(amount) ==
    /\ amount <= market_vault
    /\ market_vault' = market_vault - amount
    /\ UNCHANGED <<now, market, lender, position, collateral, promo_vault, promo_vault_token,
                   credit>>

-----------------------------------------------------------------------------

\* A market just created, and a promo vault funded with PromoBudget that
\* create_campaign has committed in full.
Init ==
    /\ now = 0
    /\ market = [cash |-> 0, total_borrows |-> 0, lp_rate_product |-> 0,
                 accrued_interest |-> 0, accrual_remainder |-> 0, last_accrual_ts |-> 0,
                 protocol_reserve |-> 0, total_bad_debt |-> 0, total_shares |-> 0,
                 paused |-> FALSE, promo_clock_resumed_at |-> 0, params |-> InitialParams]
    /\ market_vault = 0
    /\ lender = [w \in Lenders |-> 0]
    /\ position = [b \in Borrowers |-> EmptyPosition]
    /\ collateral = [a \in Assets |->
                        [total_deposited |-> 0, paused |-> FALSE, borrow_paused |-> FALSE,
                         params |-> AssetParams[a]]]
    /\ promo_vault = [cash |-> PromoBudget, outstanding |-> 0, unissued |-> PromoBudget]
    /\ promo_vault_token = PromoBudget
    /\ credit = [b \in Borrowers |-> [loans_completed |-> 0, loans_defaulted |-> 0]]

LenderStep ==
    \E w \in Lenders :
        \/ \E amount \in DepositAmounts : DepositLiquidity(w, amount)
        \/ \E amount \in WithdrawAmounts : WithdrawLiquidity(w, amount)

CollateralStep(b) ==
    \E a \in Assets, amount \in CollateralAmounts :
        \/ DepositCollateral(b, a, amount)
        \/ \E view \in PriceViews : WithdrawCollateral(b, a, amount, view)

LoanStep(b) ==
    \/ \E amount \in LoanAmounts, tenure \in Tenures, view \in PriceViews :
          TakeLoan(b, amount, tenure, view)
    \/ \E id \in 0..MaxLoanId :
          \/ \E amount \in RepayAmounts : RepayLoan(b, id, amount)
          \/ \E a \in Assets, amount \in LiquidateAmounts, view \in PriceViews,
                recorded \in BOOLEAN : Liquidate(b, id, a, amount, view, recorded)
          \/ \E view \in PriceViews : WriteOffLoan(b, id, view)

PromoStep(b) ==
    \/ \E amount \in PromoAmounts : RedeemPromo(b, amount)
    \/ ExpirePromo(b)
    \/ \E view \in PriceViews : RevokePromo(b, view)

BorrowerStep ==
    \E b \in Borrowers :
        \/ OpenPosition(b)
        \/ ClosePosition(b)
        \/ CollateralStep(b)
        \/ LoanStep(b)
        \/ PromoStep(b)

AdminStep ==
    \/ \E amount \in HarvestAmounts : HarvestReserve(amount)
    \/ SweepMarketExcess
    \/ \E params \in ParamChoices : UpdateMarketParams(params)
    \/ \E paused \in PauseInputs : SetMarketPaused(paused)
    \/ \E a \in Assets, paused \in AssetPauseInputs : SetCollateralPaused(a, paused)
    \/ \E a \in Assets, paused \in BorrowPauseInputs : SetCollateralBorrowPaused(a, paused)
    \/ \E a \in Assets, params \in AssetParamChoices : UpdateCollateralParams(a, params)

EnvironmentStep ==
    \/ Tick
    \/ \E amount \in DonationAmounts : Donate(amount)
    \/ \E amount \in ClawbackAmounts : Clawback(amount)
    \/ \E amount \in MarketClawbackAmounts : ClawbackMarket(amount)

Next == LenderStep \/ BorrowerStep \/ AdminStep \/ EnvironmentStep

Spec == Init /\ [][Next]_vars

\* A liquidator who brings whatever is owed, or the admin giving the loan up.
ResolveStep(b) ==
    \E id \in 0..MaxLoanId, view \in PriceViews :
        \/ \E a \in Assets : Liquidate(b, id, a, U64_MAX, view, TRUE)
        \/ WriteOffLoan(b, id, view)

\* Liquidators and the admin do not sleep for ever; nobody else has to act.
FairSpec == Spec /\ \A b \in Borrowers : WF_vars(ResolveStep(b))

-----------------------------------------------------------------------------
(* Properties.  A market is measured as the next instruction would find it: *)
(* with the interest of the time already passed.                            *)

AssetsOf(m) == TotalAssets(Accrue(m)) + VIRTUAL_ASSETS
SharesOf(m) == m.total_shares + VIRTUAL_SHARES

\* What a lender could redeem now, cash permitting.
Claim(w) == RedeemableAmount(lender[w], market.total_shares, TotalAssets(Accrue(market)))

LoansOf(b) == position[b].loans

SumOverLoans(value(_)) ==
    SumOver([b \in Borrowers |->
                SumOver([i \in LoanSlots |-> value(LoansOf(b)[i])], LoanSlots)], Borrowers)

LiquidatableAt(b, view) == IsLiquidatable(PositionHealth(position[b], 0, view))
HealthyAt(b, view) == IsHealthy(PositionHealth(position[b], 0, view))

\* Every account keeps its type: in particular no balance goes below zero.
TypeOK ==
    /\ now \in Nat
    /\ market \in Market
    /\ market_vault \in Nat
    /\ lender \in [Lenders -> Nat]
    /\ position \in [Borrowers -> Position]
    /\ collateral \in [Assets -> [total_deposited: Nat, paused: BOOLEAN,
                                  borrow_paused: BOOLEAN, params: CollateralParams]]
    /\ promo_vault \in [cash: Nat, outstanding: Nat, unissued: Nat]
    /\ promo_vault_token \in Nat
    /\ credit \in [Borrowers -> [loans_completed: Nat, loans_defaulted: Nat]]

\* The market's running totals are the sums over the loans it made, each at the
\* terms it was made at, through repayments, partial liquidations, write-offs
\* and changes of the market's own terms.
BooksMatchLoans ==
    /\ market.total_borrows = SumOverLoans(LAMBDA loan : loan.principal)
    /\ market.lp_rate_product =
          SumOverLoans(LAMBDA loan : LpContribution(loan.principal, loan.rate_bps,
                                                    loan.reserve_factor_bps))

\* The interest pool, with the carried remainder, holds at least what the loans
\* have accrued since their anchors, so the saturating subtraction that releases
\* a loan's interest never cuts anything off.
AccrualCoversLoans ==
    market.accrued_interest * AccrualUnit + market.accrual_remainder
        >= SumOverLoans(LAMBDA loan :
              LpContribution(loan.principal, loan.rate_bps, loan.reserve_factor_bps)
                 * SecondsBetween(loan.interest_anchor, market.last_accrual_ts))

\* The protocol's reserve is part of the market's cash, so the saturating
\* available_cash never hides a shortfall, whatever the issuer takes from the
\* vault.
ReserveIsCash == market.protocol_reserve <= market.cash

\* Every deposited unit of collateral is in exactly one position's slot.
DepositsMatchSlots ==
    \A a \in Assets :
        collateral[a].total_deposited =
            SumOver([b \in Borrowers |-> position[b].collateral[a]], Borrowers)

\* Outstanding promo is what positions hold, and it is backed by the vault's
\* ledger together with what campaigns may still issue.
PromoIsBacked ==
    /\ promo_vault.outstanding =
          SumOver([b \in Borrowers |-> position[b].promo_balance], Borrowers)
    /\ promo_vault.outstanding + promo_vault.unissued <= promo_vault.cash

\* Whatever the token's issuer takes out of the promo vault, no promo balance
\* makes forfeit_promo revert, and with it a liquidation or a write-off.
ForfeitNeverBlocks == \A b \in Borrowers : position[b].open => CanForfeit(position[b])

\* The promo side of the market implements PromoLedger: what is promised to a
\* position is released or paid out for it, and never more is promised than the
\* vault records.
Ledger == INSTANCE PromoLedger WITH
    cash <- promo_vault.cash,
    outstanding <- promo_vault.outstanding,
    unissued <- promo_vault.unissued

KeepsTheLedger == Ledger!Spec

\* available_cash promises recorded cash; only a clawback makes the vault hold
\* less than that, and no withdrawal, loan, harvest or sweep widens a shortfall.
OnlyClawbackOpensAMarketGap ==
    [][ LET gap == market.cash - market_vault
        IN  gap' > 0 /\ gap' > gap =>
                \E amount \in MarketClawbackAmounts : ClawbackMarket(amount) ]_vars

\* A share loses value only in a step that books bad debt.
SharePriceFallsOnlyOnBadDebt ==
    [][ AssetsOf(market)' * SharesOf(market) < AssetsOf(market) * SharesOf(market)'
          => market.total_bad_debt' > market.total_bad_debt ]_vars

\* What a write-off books as bad debt is what the lenders and the reserve lose
\* by it: forfeited promo that made up for a part is not counted as lost.
BadDebtIsTheLoss ==
    [][ LET booked  == market'.total_bad_debt - market.total_bad_debt
            covered == market.protocol_reserve - market'.protocol_reserve
        IN  booked > 0 => AssetsOf(market)' = AssetsOf(market) - booked + covered ]_vars

\* A deposit or a withdrawal never raises what its lender can redeem by more
\* than the tokens it brought in, nor leaves it more than it had after what it
\* took out: rounding is always against the lender that trades.
TradingNeverProfits ==
    [][ \A w \in Lenders :
          lender[w]' # lender[w] => Claim(w)' - Claim(w) <= market_vault' - market_vault ]_vars

\* Liquidations fail on the amounts: against each holding, the full balance of each
\* loan either buys not one unit of collateral, or, cut down to what the holding
\* is worth, is less than the balance owed per unit of principal and so repays none.
RoundsToNothing(p, view) ==
    \A i \in LoanSlots, a \in UsedCollateral(p) :
        LET loan == p.loans[i]
            balance == Total(LoanBalance(loan, now))
            full == Seizure(p, a, balance, view)
        IN  loan.active => \/ full.seize_amount = 0
                           \/ full.repay_amount * loan.principal < balance

\* A position under its line does not stay there, pause or not and however short
\* of its promo the vault is: it is liquidated and, once it holds less than dust,
\* written off.  One gap is left between the two: a holding worth the dust or
\* more against which every liquidation rounds to nothing.
UnderwaterIsResolved ==
    \A b \in Borrowers, view \in PriceViews :
        LiquidatableAt(b, view) ~>
            \/ ~LiquidatableAt(b, view)
            \/ /\ PositionHealth(position[b], 0, view).own_value
                     >= market.params.bad_debt_dust_usd
               /\ RoundsToNothing(position[b], view)

\* With the clock standing still, a step that leaves a position alone makes it
\* liquidatable, at whatever prices, only by lowering the liquidation threshold of
\* an asset it holds, which update_collateral_params does to live positions at
\* once.  Not a pause of the market or of borrowing against an asset, not new
\* market terms, not an asset's new LTV, bonus, cap or multiplier ceiling, not
\* another position's business.
OnlyALowerThresholdSinksAPosition ==
    [][ \A b \in Borrowers, view \in PriceViews :
          /\ UNCHANGED <<now, position[b]>>
          /\ HasActiveLoans(position[b])
          /\ ~LiquidatableAt(b, view)
          /\ LiquidatableAt(b, view)'
          => \E a \in UsedCollateral(position[b]) :
                collateral'[a].params.liquidation_threshold_bps
                   < collateral[a].params.liquidation_threshold_bps ]_vars

\* Promo leaves a position with loans only by forfeiture out of a liquidatable
\* position, or where the position is healthy without it.
PromoProtectsLiveLoans ==
    [][ \A b \in Borrowers :
          /\ HasActiveLoans(position[b])
          /\ position'[b].promo_balance < position[b].promo_balance
          => \E view \in PriceViews :
                IF LoansOf(b)' # LoansOf(b) THEN LiquidatableAt(b, view)
                ELSE HealthyAt(b, view)' ]_vars

\* state/market.rs: time spent paused does not count towards promo expiry, which
\* runs from the later of the last activity and the last unpause.  Stated of the
\* promo a borrower loses by taking a loan.
PausedTimeNeverExpiresPromo ==
    [][ \A b \in Borrowers :
          /\ position'[b].next_loan_id > position[b].next_loan_id
          /\ position'[b].promo_balance < position[b].promo_balance
          => now >= Max2(position[b].promo_last_activity_at, market.promo_clock_resumed_at)
                       + market.params.promo_inactivity_seconds ]_vars

\* A loan counts as completed only when its whole balance came in, and as
\* defaulted only out of a position that some prices allow to liquidate; either
\* way the step frees exactly that loan's slot.
CreditFollowsTheLoan ==
    [][ \A b \in Borrowers :
          LET freed == {i \in LoanSlots : LoansOf(b)[i].active /\ ~LoansOf(b)'[i].active} IN
          /\ credit'[b].loans_completed > credit[b].loans_completed =>
                \E i \in LoanSlots :
                    /\ freed = {i}
                    /\ market_vault' - market_vault = Total(LoanBalance(LoansOf(b)[i], now))
          /\ credit'[b].loans_defaulted > credit[b].loans_defaulted =>
                /\ \E i \in LoanSlots : freed = {i}
                /\ \E view \in PriceViews : LiquidatableAt(b, view) ]_vars
=============================================================================
