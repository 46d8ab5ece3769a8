------------------------------ MODULE LoanMath ------------------------------
(***************************************************************************)
(* The arithmetic of programs/hodl_loans/src/math: lender shares, interest *)
(* accrual, loan balances, liquidation seizures and position health.       *)
(*                                                                         *)
(* Rates and factors are in basis points of BPS, times are in seconds of a *)
(* YEAR; both are constants, so that a bounded instance keeps every        *)
(* rounding step of the program while its numbers stay small.  A token     *)
(* unit (10^decimals in the code) is passed as the unit itself.            *)
(***************************************************************************)
EXTENDS Integers, Sums

CONSTANTS
    BPS,               \* basis points in a whole
    YEAR,              \* seconds in a year
    VIRTUAL_SHARES,    \* share offset of an empty market
    VIRTUAL_ASSETS,    \* asset offset of an empty market
    MULTIPLIER_SCALE   \* scale of a mint's scaled-UI multiplier

ASSUME ScalesArePositive ==
    /\ BPS \in Nat \ {0}
    /\ YEAR \in Nat \ {0}
    /\ VIRTUAL_SHARES \in Nat \ {0}
    /\ VIRTUAL_ASSETS \in Nat \ {0}
    /\ MULTIPLIER_SCALE \in Nat \ {0}

Min2(a, b) == IF a <= b THEN a ELSE b
Max2(a, b) == IF a >= b THEN a ELSE b
SatSub(a, b) == IF a >= b THEN a - b ELSE 0

MulDivFloor(a, b, d) == (a * b) \div d
MulDivCeil(a, b, d) == (a * b + d - 1) \div d

-----------------------------------------------------------------------------
(* Lender shares: math/shares.rs *)

\* Mutant: a deposit rounded in the lender's favour.
SharesRoundedUp(amount, totalShares, totalAssets) ==
    MulDivCeil(amount, totalShares + VIRTUAL_SHARES, totalAssets + VIRTUAL_ASSETS)

SharesForDeposit(amount, totalShares, totalAssets) ==
    MulDivFloor(amount, totalShares + VIRTUAL_SHARES, totalAssets + VIRTUAL_ASSETS)

\* Mutant: a withdrawal rounded in the lender's favour.
SharesRoundedDown(amount, totalShares, totalAssets) ==
    MulDivFloor(amount, totalShares + VIRTUAL_SHARES, totalAssets + VIRTUAL_ASSETS)

SharesToBurn(amount, totalShares, totalAssets) ==
    MulDivCeil(amount, totalShares + VIRTUAL_SHARES, totalAssets + VIRTUAL_ASSETS)

RedeemableAmount(shares, totalShares, totalAssets) ==
    MulDivFloor(shares, totalAssets + VIRTUAL_ASSETS, totalShares + VIRTUAL_SHARES)

-----------------------------------------------------------------------------
(* Interest: math/interest.rs and math/loan.rs *)

\* One unit of lp_rate_product earns lenders 1 token per AccrualUnit seconds.
AccrualUnit == BPS * BPS * YEAR

\* Mutant: what did not divide is thrown away.
AccrueWithoutRemainder(product, elapsed, remainder) ==
    [interest |-> (product * elapsed) \div AccrualUnit, remainder |-> 0]

AccrueLpInterest(product, elapsed, remainder) ==
    LET numerator == product * elapsed + remainder
    IN  [interest  |-> numerator \div AccrualUnit,
         remainder |-> numerator % AccrualUnit]

SecondsBetween(start, end) == IF end > start THEN end - start ELSE 0

\* What a loan owes at time t: interest up to maturity, then a penalty at the
\* loan's rate plus its penalty rate on principal and interest together.
LoanBalance(loan, t) ==
    LET maturity == loan.originated_at + loan.tenure_seconds
        interest == MulDivCeil(loan.principal * loan.rate_bps,
                               SecondsBetween(loan.interest_anchor, Min2(t, maturity)),
                               BPS * YEAR)
        penalty  == MulDivCeil((loan.principal + interest)
                                  * (loan.rate_bps + loan.penalty_rate_bps),
                               SecondsBetween(Max2(maturity, loan.interest_anchor), t),
                               BPS * YEAR)
    IN  [principal |-> loan.principal, interest |-> interest, penalty |-> penalty]

Due(balance) == balance.interest + balance.penalty
Total(balance) == balance.principal + Due(balance)

\* A loan's share of the market's lp_rate_product.
LpContribution(principal, rate, reserveFactor) ==
    principal * rate * (BPS - reserveFactor)

\* Lender interest accrued for `principal' of a loan since its anchor.
AccruedLpInterest(principal, loan, t) ==
    MulDivFloor(LpContribution(principal, loan.rate_bps, loan.reserve_factor_bps),
                SecondsBetween(loan.interest_anchor, t),
                AccrualUnit)

ReserveShare(interestPaid, reserveFactor) ==
    MulDivFloor(interestPaid, reserveFactor, BPS)

-----------------------------------------------------------------------------
(* Liquidation: math/liquidation.rs *)

\* How much a liquidator pays and how much collateral it takes: at plain
\* prices, plus the bonus, capped by the slot, which shrinks the payment.
SeizeForRepayment(s) ==
    LET repaidUsd == MulDivFloor(s.repay_amount, s.ngn_price, s.cngn_unit)
        withBonus == MulDivFloor(repaidUsd, BPS + s.bonus_bps, BPS)
        display   == MulDivFloor(withBonus, s.collateral_unit, s.collateral_price)
        seize     == MulDivFloor(display, MULTIPLIER_SCALE, s.multiplier)
    IN  IF seize <= s.slot_amount
        THEN [repay_amount |-> s.repay_amount, seize_amount |-> seize]
        ELSE [repay_amount |-> MulDivFloor(s.repay_amount, s.slot_amount, seize),
              seize_amount |-> s.slot_amount]

PrincipalShare(repayAmount, principal, balanceTotal) ==
    MulDivFloor(repayAmount, principal, balanceTotal)

-----------------------------------------------------------------------------
(* Prices and health: math/price.rs and math/health.rs *)

Lower(price) == SatSub(price.price, price.conf)
Upper(price) == price.price + price.conf

TokenValue(amount, unit, price) == MulDivFloor(amount, price, unit)
TokenValueCeil(amount, unit, price) == MulDivCeil(amount, price, unit)

\* One holding at the low end of its price, in display tokens.
HoldingValue(c) ==
    TokenValue(MulDivFloor(c.amount, c.multiplier, MULTIPLIER_SCALE), c.unit, Lower(c.price))

\* Below, C maps every collateral a position holds to its CollateralValue
\* record; each holding's part is rounded down before it is added up.

SumOfParts(C, part(_)) == SumOver([a \in DOMAIN C |-> MulDivFloor(HoldingValue(C[a]), part(a), BPS)],
                                  DOMAIN C)

\* Collateral that does not lend counts for nothing, promo support included.
BorrowLimit(C, promo, promoCapBps) ==
    LET lends(a, bps) == IF C[a].lends_borrowing_power THEN bps ELSE 0
        ltv(a) == lends(a, C[a].ltv_bps)
        cap(a) == lends(a, promoCapBps)
    IN  SumOfParts(C, ltv) + Min2(promo, SumOfParts(C, cap))

\* Mutant: the line gated by the same flag as the limit.
GatedLine(C, promo, promoCapBps) ==
    LET lends(a, bps) == IF C[a].lends_borrowing_power THEN bps ELSE 0
        threshold(a) == lends(a, C[a].liquidation_threshold_bps)
        cap(a) == lends(a, promoCapBps)
    IN  SumOfParts(C, threshold) + Min2(promo, SumOfParts(C, cap))

\* Collateral that has stopped lending still counts here in full.
LiquidationLine(C, promo, promoCapBps) ==
    LET threshold(a) == C[a].liquidation_threshold_bps
        cap(a) == promoCapBps
    IN  SumOfParts(C, threshold) + Min2(promo, SumOfParts(C, cap))

ComputeHealth(C, debt, cngnUnit, ngn, promoBalance, promoCapBps) ==
    LET promo == TokenValue(promoBalance, cngnUnit, Lower(ngn)) IN
    [own_value        |-> SumOver([a \in DOMAIN C |-> HoldingValue(C[a])], DOMAIN C),
     borrow_limit     |-> BorrowLimit(C, promo, promoCapBps),
     liquidation_line |-> LiquidationLine(C, promo, promoCapBps),
     debt             |-> TokenValueCeil(debt, cngnUnit, Upper(ngn))]

IsHealthy(health) == health.debt <= health.borrow_limit
IsLiquidatable(health) == health.debt > health.liquidation_line
=============================================================================
