--------------------------- MODULE LendingProofs ---------------------------
(***************************************************************************)
(* Proofs about Lending, for every value of its constants that satisfies   *)
(* the assumptions of Lending and LoanMath.  First what follows from       *)
(* single handlers, over lemmas about the arithmetic, one per action:      *)
(*   TypeCorrect                  Spec => []TypeOK                         *)
(*   ReserveStaysCash             Spec => []ReserveIsCash                  *)
(*   MarketGapsComeFromClawbacks  Spec => OnlyClawbackOpensAMarketGap      *)
(*   LendingKeepsTheLedger        Spec => KeepsTheLedger                   *)
(*   LedgerStaysBacked            Ledger!Spec => []Ledger!Backed           *)
(*   PromoStaysBacked             Spec => []Ledger!Backed                  *)
(*   OnlyThresholdsSinkPositions  Spec => OnlyALowerThresholdSinksAPosition *)
(*   OnlyBadDebtCostsLenders      Spec => SharePriceFallsOnlyOnBadDebt     *)
(* TypeOK is inductive by itself; ReserveIsCash is inductive together with *)
(* it; the action properties follow step by step from the two.  Then what  *)
(* needs the sums over positions, loans and lenders:                       *)
(*   DepositsStayInSlots          Spec => []DepositsMatchSlots             *)
(*   BooksStayMatched             Spec => []BooksMatchLoans                *)
(*   AccrualStaysCovered          Spec => []AccrualCoversLoans             *)
(*   PromoStaysCounted            Spec => []PromoIsBacked                  *)
(*   ForfeitureNeverBlocks        Spec => []ForfeitNeverBlocks             *)
(*   CreditIsEarned               Spec => CreditFollowsTheLoan             *)
(*   PromoBacksItsLoans           Spec => PromoProtectsLiveLoans           *)
(*   BookedLossIsReal             Spec => BadDebtIsTheLoss                 *)
(*   TradesNeverProfit            Spec => TradingNeverProfits              *)
(*   SettlementsNeverBlock        Spec => []SettlementsCarry               *)
(*   RoundingNeverTrapsALender    Spec => []LendersCanLeave                *)
(***************************************************************************)
EXTENDS Lending, SumsProofs

\* A natural number divided by a positive one is natural.
LEMMA DivNat == ASSUME NEW a \in Nat, NEW d \in Nat \ {0} PROVE a \div d \in Nat
  BY SMT

\* Division rounds down.
LEMMA DivLe == ASSUME NEW a \in Nat, NEW d \in Nat \ {0} PROVE (a \div d) * d <= a
  BY SMT

\* A remainder is natural.
LEMMA ModNat == ASSUME NEW a \in Nat, NEW d \in Nat \ {0} PROVE a % d \in Nat
  BY SMT

\* The remainder is what the division leaves.
LEMMA DivMod ==
  ASSUME NEW a \in Nat, NEW d \in Nat \ {0} PROVE a = (a \div d) * d + (a % d)
  BY SMT

\* A product of naturals is natural.
LEMMA ProductNat == ASSUME NEW a \in Nat, NEW b \in Nat PROVE a * b \in Nat
  BY SMT

\* mul_div_floor never goes negative.
LEMMA FloorNat == ASSUME NEW a \in Nat, NEW b \in Nat, NEW d \in Nat \ {0} PROVE MulDivFloor(a,b,d) \in Nat
<1>1. a * b \in Nat BY SMT
<1> QED BY <1>1, DivNat DEF MulDivFloor

\* mul_div_floor by a ratio of at most one never exceeds what it is applied to.
LEMMA FloorLe == ASSUME NEW a \in Nat, NEW b \in Nat, NEW d \in Nat \ {0}, b <= d PROVE MulDivFloor(a,b,d) <= a
<1>1. a * b \in Nat /\ a * b <= a * d BY SMT
<1>2. MulDivFloor(a,b,d) \in Nat BY FloorNat
<1>3. MulDivFloor(a,b,d) * d <= a * d BY <1>1, DivLe DEF MulDivFloor
<1> QED BY <1>2, <1>3, SMT

\* mul_div_ceil never goes negative.
LEMMA CeilNat == ASSUME NEW a \in Nat, NEW b \in Nat, NEW d \in Nat \ {0} PROVE MulDivCeil(a,b,d) \in Nat
<1>1. a * b + d - 1 \in Nat BY SMT
<1> QED BY <1>1, DivNat DEF MulDivCeil

\* The divisors of the interest formulas are positive.
LEMMA UnitsType == AccrualUnit \in Nat \ {0} /\ BPS * YEAR \in Nat \ {0}
  BY ScalesArePositive, SMT DEF AccrualUnit

\* Market::accrue keeps the account's type and moves neither cash nor reserve.
LEMMA AccrueType ==
  ASSUME NEW m \in Market, now \in Nat
  PROVE  /\ Accrue(m) \in Market
         /\ Accrue(m).cash = m.cash
         /\ Accrue(m).protocol_reserve = m.protocol_reserve
<1> DEFINE r == AccrueLpInterest(m.lp_rate_product, now - m.last_accrual_ts, m.accrual_remainder)
<1>1. CASE now <= m.last_accrual_ts
  BY <1>1 DEF Accrue
<1>2. CASE ~(now <= m.last_accrual_ts)
  <2>1. m.lp_rate_product * (now - m.last_accrual_ts) + m.accrual_remainder \in Nat
    BY <1>2, SMT DEF Market
  <2>2. r.interest \in Nat /\ r.remainder \in Nat
    BY <2>1, UnitsType, DivNat, ModNat DEF AccrueLpInterest
  <2>. HIDE DEF r
  <2>3. Accrue(m) = [m EXCEPT !.accrued_interest = @ + r.interest,
                       !.accrual_remainder = r.remainder,
                       !.last_accrual_ts = now]
    BY <1>2 DEF Accrue, r
  <2>4. m.accrued_interest + r.interest \in Nat
    BY <2>2 DEF Market
  <2> QED BY <2>2, <2>3, <2>4, now \in Nat DEF Market
<1> QED BY <1>1, <1>2

\* A loan's share of lp_rate_product is natural: its reserve factor is at most BPS.
LEMMA ContributionNat ==
  ASSUME NEW principal \in Nat, NEW rate \in 0..BPS, NEW factor \in 0..BPS
  PROVE  LpContribution(principal, rate, factor) \in Nat
<1>1. BPS - factor \in Nat /\ rate \in Nat BY ScalesArePositive
<1>2. principal * rate \in Nat BY <1>1, ProductNat
<1> QED BY <1>1, <1>2, ProductNat DEF LpContribution

\* Elapsed time is natural.
LEMMA SecondsNat ==
  ASSUME NEW s \in Nat, NEW e \in Nat PROVE SecondsBetween(s, e) \in Nat
  BY DEF SecondsBetween

\* The reserve takes at most the whole interest.
LEMMA ReserveShareLe ==
  ASSUME NEW i \in Nat, NEW f \in 0..BPS PROVE ReserveShare(i, f) \in Nat /\ ReserveShare(i, f) <= i
<1>1. BPS \in Nat \ {0} /\ f \in Nat /\ f <= BPS BY ScalesArePositive
<1> QED BY <1>1, FloorNat, FloorLe DEF ReserveShare

\* The lender interest accrued on a loan is natural.
LEMMA AccruedNat ==
  ASSUME NEW loan \in Loan, NEW principal \in Nat, NEW t \in Nat
  PROVE  AccruedLpInterest(principal, loan, t) \in Nat
<1>1. LpContribution(principal, loan.rate_bps, loan.reserve_factor_bps) \in Nat
  BY ContributionNat DEF Loan
<1>2. SecondsBetween(loan.interest_anchor, t) \in Nat BY SecondsNat DEF Loan
<1> QED BY <1>1, <1>2, UnitsType, FloorNat DEF AccruedLpInterest

\* What a loan owes: its principal and a natural amount due on top.
LEMMA BalanceType ==
  ASSUME NEW loan \in Loan, NEW t \in Nat
  PROVE  /\ LoanBalance(loan, t).principal = loan.principal
         /\ Due(LoanBalance(loan, t)) \in Nat
         /\ Total(LoanBalance(loan, t)) = loan.principal + Due(LoanBalance(loan, t))
<1> DEFINE maturity == loan.originated_at + loan.tenure_seconds
           interest == MulDivCeil(loan.principal * loan.rate_bps,
                               SecondsBetween(loan.interest_anchor, Min2(t, maturity)),
                               BPS * YEAR)
           penalty  == MulDivCeil((loan.principal + interest)
                                  * (loan.rate_bps + loan.penalty_rate_bps),
                               SecondsBetween(Max2(maturity, loan.interest_anchor), t),
                               BPS * YEAR)
<1>1. loan.principal \in Nat /\ loan.rate_bps \in Nat /\ loan.penalty_rate_bps \in Nat
      /\ loan.interest_anchor \in Nat /\ maturity \in Nat
  BY ScalesArePositive DEF Loan
<1>2. loan.principal * loan.rate_bps \in Nat BY <1>1, ProductNat
<1>3. Min2(t, maturity) \in Nat /\ Max2(maturity, loan.interest_anchor) \in Nat
  BY <1>1 DEF Min2, Max2
<1>4. interest \in Nat BY <1>1, <1>2, <1>3, SecondsNat, UnitsType, CeilNat
<1>5. penalty \in Nat
  <2> HIDE DEF interest
  <2>1. loan.principal + interest \in Nat /\ loan.rate_bps + loan.penalty_rate_bps \in Nat
    BY <1>1, <1>4
  <2>2. (loan.principal + interest) * (loan.rate_bps + loan.penalty_rate_bps) \in Nat
    BY <2>1, ProductNat
  <2> QED BY <1>1, <1>3, <2>2, SecondsNat, UnitsType, CeilNat
<1>6. LoanBalance(loan, t) = [principal |-> loan.principal, interest |-> interest, penalty |-> penalty]
  BY DEF LoanBalance
<1> QED
  <2> HIDE DEF interest, penalty
  <2> QED BY <1>4, <1>5, <1>6 DEF Due, Total

\* A loan owes at least its principal.
LEMMA TotalType ==
  ASSUME NEW loan \in Loan, NEW t \in Nat
  PROVE  Total(LoanBalance(loan, t)) \in Nat /\ loan.principal <= Total(LoanBalance(loan, t))
<1>1. loan.principal \in Nat BY DEF Loan
<1> QED BY <1>1, BalanceType

\* Settling a payment whose checked subtractions succeed keeps the market's type
\* and adds exactly the payment to cash and the reserve's share to the reserve.
LEMMA SettleType ==
  ASSUME NEW m \in Market, NEW loan \in Loan, NEW accruedOn \in Nat,
         NEW principal \in Nat, NEW interest \in Nat, now \in Nat,
         BooksCarry(m, loan, principal)
  PROVE  LET s == SettleLoan(m, loan, accruedOn, principal, interest) IN
         /\ s \in Market
         /\ s.cash = m.cash + principal + interest
         /\ s.protocol_reserve = m.protocol_reserve + ReserveShare(interest, loan.reserve_factor_bps)
<1> DEFINE c == LpContribution(principal, loan.rate_bps, loan.reserve_factor_bps)
           a == AccruedLpInterest(accruedOn, loan, now)
           r == ReserveShare(interest, loan.reserve_factor_bps)
<1>1. c \in Nat BY ContributionNat DEF Loan
<1>2. a \in Nat BY AccruedNat
<1>3. r \in Nat BY ReserveShareLe DEF Loan
<1>4. /\ SatSub(m.accrued_interest, a) \in Nat
      /\ m.protocol_reserve + r \in Nat
      /\ m.total_borrows - principal \in Nat
      /\ m.lp_rate_product - c \in Nat
      /\ m.cash + principal + interest \in Nat
  <2> HIDE DEF a, r
  <2> QED BY <1>1, <1>2, <1>3 DEF Market, SatSub, BooksCarry
<1> HIDE DEF a, r, c
<1>5. SettleLoan(m, loan, accruedOn, principal, interest) =
         [m EXCEPT !.accrued_interest = SatSub(@, a), !.protocol_reserve = @ + r,
                   !.total_borrows = @ - principal, !.lp_rate_product = @ - c,
                   !.cash = @ + principal + interest]
  BY DEF SettleLoan, a, r, c
<1>6. SettleLoan(m, loan, accruedOn, principal, interest) \in Market
  BY <1>4, <1>5 DEF Market
<1>7. /\ SettleLoan(m, loan, accruedOn, principal, interest).cash = m.cash + principal + interest
      /\ SettleLoan(m, loan, accruedOn, principal, interest).protocol_reserve = m.protocol_reserve + r
  BY <1>5 DEF Market
<1> QED BY <1>6, <1>7 DEF r

\* A seizure never takes more than the slot holds, nor lets the liquidator pay
\* more than requested.
LEMMA SeizeType ==
  ASSUME NEW s \in [repay_amount: Nat, ngn_price: Nat, cngn_unit: Nat \ {0},
                    collateral_price: Nat \ {0}, collateral_unit: Nat \ {0},
                    multiplier: Nat \ {0}, bonus_bps: Nat, slot_amount: Nat]
  PROVE  /\ SeizeForRepayment(s).repay_amount \in Nat
         /\ SeizeForRepayment(s).repay_amount <= s.repay_amount
         /\ SeizeForRepayment(s).seize_amount \in Nat
         /\ SeizeForRepayment(s).seize_amount <= s.slot_amount
<1> DEFINE usd == MulDivFloor(s.repay_amount, s.ngn_price, s.cngn_unit)
           bonus == MulDivFloor(usd, BPS + s.bonus_bps, BPS)
           display == MulDivFloor(bonus, s.collateral_unit, s.collateral_price)
           seize == MulDivFloor(display, MULTIPLIER_SCALE, s.multiplier)
<1>1. usd \in Nat BY FloorNat
<1>2. bonus \in Nat
  <2> HIDE DEF usd
  <2> QED BY <1>1, FloorNat, ScalesArePositive
<1>3. display \in Nat
  <2> HIDE DEF bonus
  <2> QED BY <1>2, FloorNat
<1>4. seize \in Nat
  <2> HIDE DEF display
  <2> QED BY <1>3, FloorNat, ScalesArePositive
<1>5. SeizeForRepayment(s) =
        IF seize <= s.slot_amount
        THEN [repay_amount |-> s.repay_amount, seize_amount |-> seize]
        ELSE [repay_amount |-> MulDivFloor(s.repay_amount, s.slot_amount, seize),
              seize_amount |-> s.slot_amount]
  BY DEF SeizeForRepayment
<1> HIDE DEF seize
<1>6. CASE seize <= s.slot_amount
  BY <1>4, <1>5, <1>6
<1>7. CASE ~(seize <= s.slot_amount)
  <2>1. seize \in Nat \ {0} /\ s.slot_amount <= seize BY <1>4, <1>7
  <2>2. /\ MulDivFloor(s.repay_amount, s.slot_amount, seize) \in Nat
        /\ MulDivFloor(s.repay_amount, s.slot_amount, seize) <= s.repay_amount
    BY <2>1, FloorNat, FloorLe
  <2> QED BY <2>2, <1>5, <1>7
<1> QED BY <1>6, <1>7

\* A zeroed slot is a loan slot.
LEMMA FreeSlotType == FreeSlot \in Loan
<1>1. 0 \in 0..BPS BY ScalesArePositive
<1> QED BY <1>1 DEF FreeSlot, Loan

\* The initial state is well typed.
LEMMA InitTypeOK == Init => TypeOK
<1> SUFFICES ASSUME Init PROVE TypeOK OBVIOUS
<1> USE DEF Init
<1>1. market \in Market
  BY ParamsAreValid DEF Market
<1>2. EmptyPosition \in Position
  <2>1. FreeSlot \in Loan BY FreeSlotType
  <2> QED BY <2>1 DEF EmptyPosition, Position
<1>3. collateral \in [Assets -> [total_deposited: Nat, paused: BOOLEAN, borrow_paused: BOOLEAN,
                                params: CollateralParams]]
  BY ParamsAreValid
<1> QED BY <1>1, <1>2, <1>3, SlotsAndUnits DEF TypeOK

\* deposit_liquidity keeps every account's type.
LEMMA DepositLiquidityType ==
  ASSUME TypeOK, NEW w \in Lenders, NEW amount \in DepositAmounts, DepositLiquidity(w, amount)
  PROVE  TypeOK'
<1> DEFINE m == Accrue(market)
           shares == SharesForDeposit(amount, m.total_shares, TotalAssets(m))
<1>1. amount \in Nat BY InputsAreNaturals
<1>2. m \in Market BY AccrueType DEF TypeOK
<1>3. shares \in Nat
  <2>1. TotalAssets(m) \in Nat BY <1>2 DEF DepositLiquidity, AssetsUnderflow, TotalAssets, Market
  <2> HIDE DEF m
  <2>2. m.total_shares + VIRTUAL_SHARES \in Nat /\ TotalAssets(m) + VIRTUAL_ASSETS \in Nat \ {0}
    BY <1>2, <2>1, ScalesArePositive DEF Market
  <2> QED BY <1>1, <2>2, FloorNat DEF SharesForDeposit
<1>4. /\ market' = [m EXCEPT !.cash = @ + amount, !.total_shares = @ + shares]
      /\ lender' = [lender EXCEPT ![w] = @ + shares]
      /\ market_vault' = market_vault + amount
      /\ UNCHANGED <<now, position, collateral, promo_vault, promo_vault_token, credit>>
  BY DEF DepositLiquidity
<1> HIDE DEF m, shares
<1>5. m.cash + amount \in Nat /\ m.total_shares + shares \in Nat BY <1>1, <1>2, <1>3 DEF Market
<1>6. market' \in Market BY <1>2, <1>4, <1>5 DEF Market
<1> QED BY <1>1, <1>3, <1>4, <1>6 DEF TypeOK

\* withdraw_liquidity keeps every account's type: neither cash nor shares underflow.
LEMMA WithdrawLiquidityType ==
  ASSUME TypeOK, NEW w \in Lenders, NEW request \in WithdrawAmounts,
         WithdrawLiquidity(w, request)
  PROVE  TypeOK'
<1> DEFINE m == Accrue(market)
           redeemable == RedeemableAmount(lender[w], m.total_shares, TotalAssets(m))
           amount == IF request = U64_MAX THEN Min2(redeemable, AvailableCash(m)) ELSE request
           burned == SharesToBurn(amount, m.total_shares, TotalAssets(m))
<1>1. m \in Market BY AccrueType DEF TypeOK
<1>2. TotalAssets(m) \in Nat
  BY <1>1 DEF WithdrawLiquidity, AssetsUnderflow, TotalAssets, Market
<1>3. /\ amount > 0 /\ amount <= AvailableCash(m)
      /\ burned <= lender[w] /\ burned <= m.total_shares /\ amount <= market_vault
      /\ market' = [m EXCEPT !.cash = @ - amount, !.total_shares = @ - burned]
      /\ lender' = [lender EXCEPT ![w] = @ - burned]
      /\ market_vault' = market_vault - amount
      /\ UNCHANGED <<now, position, collateral, promo_vault, promo_vault_token, credit>>
  BY DEF WithdrawLiquidity
<1>. HIDE DEF m
<1>4. AvailableCash(m) \in Nat /\ AvailableCash(m) <= m.cash
  BY <1>1 DEF AvailableCash, SatSub, Market
<1>5. m.total_shares + VIRTUAL_SHARES \in Nat \ {0} /\ TotalAssets(m) + VIRTUAL_ASSETS \in Nat \ {0}
  BY <1>1, <1>2, ScalesArePositive DEF Market
<1>6. redeemable \in Nat BY <1>5, FloorNat DEF RedeemableAmount, TypeOK
<1>7. request \in Nat BY InputsAreNaturals
<1>8. amount \in Nat
  <2> HIDE DEF redeemable
  <2> QED BY <1>4, <1>6, <1>7 DEF Min2
<1>. HIDE DEF amount
<1>9. burned \in Nat BY <1>5, <1>8, CeilNat DEF SharesToBurn
<1>. HIDE DEF burned
<1>10. m.cash - amount \in Nat /\ m.total_shares - burned \in Nat
  BY <1>1, <1>3, <1>4, <1>8, <1>9 DEF Market
<1>11. market' \in Market BY <1>1, <1>3, <1>10 DEF Market
<1> QED BY <1>3, <1>8, <1>9, <1>11 DEF TypeOK

\* A zeroed position is a position.
LEMMA EmptyPositionType == EmptyPosition \in Position
  BY FreeSlotType DEF EmptyPosition, Position

\* open_position keeps every account's type.
LEMMA OpenPositionType ==
  ASSUME TypeOK, NEW b \in Borrowers, OpenPosition(b) PROVE TypeOK'
<1>1. [EmptyPosition EXCEPT !.open = TRUE] \in Position BY EmptyPositionType DEF Position
<1> QED BY <1>1 DEF OpenPosition, TypeOK

\* PromoVault::release keeps the ledger's type when it does not underflow.
LEMMA ReleaseType ==
  ASSUME TypeOK, NEW amount \in Nat, amount <= promo_vault.outstanding
  PROVE  [promo_vault EXCEPT !.outstanding = @ - amount]
            \in [cash: Nat, outstanding: Nat, unissued: Nat]
  BY DEF TypeOK

\* close_position keeps every account's type.
LEMMA ClosePositionType ==
  ASSUME TypeOK, NEW b \in Borrowers, ClosePosition(b) PROVE TypeOK'
<1>1. position[b].promo_balance \in Nat BY DEF TypeOK, Position
<1>2. position[b].promo_balance <= promo_vault.outstanding
  BY <1>1 DEF ClosePosition, CanRelease, TypeOK
<1>3. promo_vault' \in [cash: Nat, outstanding: Nat, unissued: Nat]
  BY <1>1, <1>2, ReleaseType DEF ClosePosition
<1>4. position' \in [Borrowers -> Position]
  BY EmptyPositionType DEF ClosePosition, TypeOK
<1> QED BY <1>3, <1>4 DEF ClosePosition, TypeOK

\* Writing a natural total_deposited keeps the registry's type.
LEMMA CollateralType ==
  ASSUME TypeOK, NEW a \in Assets, NEW total \in Nat
  PROVE  [collateral EXCEPT ![a].total_deposited = total]
            \in [Assets -> [total_deposited: Nat, paused: BOOLEAN, borrow_paused: BOOLEAN,
                            params: CollateralParams]]
  BY DEF TypeOK

\* deposit_collateral keeps every account's type.
LEMMA DepositCollateralType ==
  ASSUME TypeOK, NEW b \in Borrowers, NEW a \in Assets, NEW amount \in CollateralAmounts,
         DepositCollateral(b, a, amount)
  PROVE  TypeOK'
<1> DEFINE p == position[b]
           q == [p EXCEPT !.collateral[a] = @ + amount]
<1>1. amount \in Nat BY InputsAreNaturals
<1>2. p \in Position BY DEF TypeOK
<1>3. q \in Position
  <2>1. [p.collateral EXCEPT ![a] = @ + amount] \in [Assets -> Nat] BY <1>1, <1>2 DEF Position
  <2> QED BY <1>2, <2>1 DEF Position
<1>4. collateral[a].total_deposited + amount \in Nat BY <1>1 DEF TypeOK
<1>5. /\ position' = [position EXCEPT ![b] = q]
      /\ collateral' = [collateral EXCEPT ![a].total_deposited = @ + amount]
      /\ UNCHANGED <<now, market, market_vault, lender, promo_vault, promo_vault_token, credit>>
  BY DEF DepositCollateral
<1> HIDE DEF q
<1> QED BY <1>3, <1>4, <1>5, CollateralType DEF TypeOK

\* withdraw_collateral keeps every account's type: the slot does not underflow.
LEMMA WithdrawCollateralType ==
  ASSUME TypeOK, NEW b \in Borrowers, NEW a \in Assets, NEW amount \in CollateralAmounts,
         NEW view \in PriceViews, WithdrawCollateral(b, a, amount, view)
  PROVE  TypeOK'
<1> DEFINE p == position[b]
           q == [p EXCEPT !.collateral[a] = @ - amount]
<1>1. amount \in Nat BY InputsAreNaturals
<1>2. p \in Position BY DEF TypeOK
<1>3. p.collateral[a] >= amount /\ amount <= collateral[a].total_deposited
  BY DEF WithdrawCollateral
<1>4. q \in Position
  <2>1. [p.collateral EXCEPT ![a] = @ - amount] \in [Assets -> Nat]
    BY <1>1, <1>2, <1>3 DEF Position
  <2> QED BY <1>2, <2>1 DEF Position
<1>5. collateral[a].total_deposited - amount \in Nat BY <1>1, <1>3 DEF TypeOK
<1>6. /\ position' = [position EXCEPT ![b] = q]
      /\ collateral' = [collateral EXCEPT ![a].total_deposited = @ - amount]
      /\ UNCHANGED <<now, market, market_vault, lender, promo_vault, promo_vault_token, credit>>
  BY DEF WithdrawCollateral
<1> HIDE DEF q
<1> QED BY <1>4, <1>5, <1>6, CollateralType DEF TypeOK

\* take_loan keeps every account's type, the promo it may expire included.
LEMMA TakeLoanType ==
  ASSUME TypeOK, NEW b \in Borrowers, NEW amount \in LoanAmounts, NEW tenure \in Tenures,
         NEW view \in PriceViews, TakeLoan(b, amount, tenure, view)
  PROVE  TypeOK'
<1> DEFINE m == Accrue(market)
           p == position[b]
           expired == IF PromoDue(p) THEN p.promo_balance ELSE 0
           q == [p EXCEPT !.promo_balance = @ - expired]
           loan == NewLoan(p.next_loan_id, amount, tenure)
           contribution == LpContribution(amount, loan.rate_bps, loan.reserve_factor_bps)
<1>1. amount \in Nat /\ tenure \in Nat BY InputsAreNaturals
<1>2. m \in Market BY AccrueType DEF TypeOK
<1>3. p \in Position /\ p.next_loan_id \in Nat /\ p.promo_balance \in Nat
  BY DEF TypeOK, Position
<1>4. loan \in Loan
  <2>1. market.params \in MarketParams /\ now \in Nat BY DEF TypeOK, Market
  <2>2. /\ market.params.interest_rate_bps \in 0..BPS
        /\ market.params.penalty_rate_bps \in 0..BPS
        /\ market.params.reserve_factor_bps \in 0..BPS
    BY <2>1 DEF MarketParams
  <2> QED BY <1>1, <1>3, <2>1, <2>2 DEF NewLoan, Loan
<1>5. contribution \in Nat
  <2> HIDE DEF loan
  <2> QED BY <1>1, <1>4, ContributionNat DEF Loan
<1>6. expired \in Nat /\ expired <= p.promo_balance BY <1>3
<1>7. expired <= promo_vault.outstanding
  BY <1>3 DEF TakeLoan, CanRelease, TypeOK
<1>8. amount <= m.cash /\ amount <= market_vault
  <2>1. AvailableCash(m) <= m.cash BY <1>2 DEF AvailableCash, SatSub, Market
  <2>2. AvailableCash(m) \in Int BY <1>2 DEF AvailableCash, SatSub, Market
  <2>3. amount <= AvailableCash(m) /\ amount <= market_vault BY DEF TakeLoan
  <2>4. m.cash \in Int BY <1>2 DEF Market
  <2>. HIDE DEF m
  <2> QED BY <1>1, <2>1, <2>2, <2>3, <2>4
<1>9. /\ market' = [m EXCEPT !.total_borrows = @ + amount,
                             !.lp_rate_product = @ + contribution,
                             !.cash = @ - amount]
      /\ market_vault' = market_vault - amount
      /\ promo_vault' = [promo_vault EXCEPT !.outstanding = @ - expired]
      /\ UNCHANGED <<now, lender, collateral, promo_vault_token, credit>>
  BY DEF TakeLoan
<1>10. PICK i \in LoanSlots :
          position' = [position EXCEPT ![b] =
                          [q EXCEPT !.next_loan_id = @ + 1,
                                    !.promo_last_activity_at = now,
                                    !.loans[i] = loan]]
  BY DEF TakeLoan
<1> HIDE DEF m, expired, loan, contribution
<1>11. market' \in Market
  <2>1. /\ m.total_borrows + amount \in Nat
        /\ m.lp_rate_product + contribution \in Nat
        /\ m.cash - amount \in Nat
    BY <1>1, <1>2, <1>5, <1>8 DEF Market
  <2> QED BY <1>2, <1>9, <2>1 DEF Market
<1>12. position' \in [Borrowers -> Position]
  <2>1. q \in Position BY <1>3, <1>6 DEF Position
  <2> HIDE DEF q
  <2>2. [q.loans EXCEPT ![i] = loan] \in [LoanSlots -> Loan] BY <1>4, <2>1 DEF Position
  <2>3. q.next_loan_id + 1 \in Nat /\ now \in Nat BY <2>1 DEF Position, TypeOK
  <2>4. [q EXCEPT !.next_loan_id = @ + 1, !.promo_last_activity_at = now, !.loans[i] = loan]
           \in Position
    BY <2>1, <2>2, <2>3 DEF Position
  <2> QED BY <1>10, <2>4 DEF TypeOK
<1>13. promo_vault' \in [cash: Nat, outstanding: Nat, unissued: Nat]
  BY <1>6, <1>7, <1>9, ReleaseType
<1> QED BY <1>1, <1>8, <1>9, <1>11, <1>12, <1>13 DEF TypeOK

\* Writing a natural counter keeps the credit records' type.
LEMMA CreditType ==
  ASSUME TypeOK, NEW b \in Borrowers, NEW n \in Nat
  PROVE  /\ [credit EXCEPT ![b].loans_completed = n]
               \in [Borrowers -> [loans_completed: Nat, loans_defaulted: Nat]]
         /\ [credit EXCEPT ![b].loans_defaulted = n]
               \in [Borrowers -> [loans_completed: Nat, loans_defaulted: Nat]]
  BY DEF TypeOK

\* repay_loan keeps every account's type: the principal does not underflow.
LEMMA RepayLoanType ==
  ASSUME TypeOK, NEW b \in Borrowers, NEW id \in 0..MaxLoanId, NEW amount \in RepayAmounts,
         RepayLoan(b, id, amount)
  PROVE  TypeOK'
<1> DEFINE m == Accrue(market)
           p == position[b]
           loan(i) == p.loans[i]
           balance(i) == LoanBalance(loan(i), now)
           paid(i) == Min2(amount, Total(balance(i)))
           principalRepaid(i) == paid(i) - Due(balance(i))
           closed(i) == principalRepaid(i) = loan(i).principal
           loans(i) == [p.loans EXCEPT ![i] =
                              IF closed(i) THEN FreeSlot
                              ELSE [loan(i) EXCEPT !.principal = @ - principalRepaid(i),
                                                   !.interest_anchor = now]]
           idle(i) == closed(i) /\ ~\E j \in LoanSlots : loans(i)[j].active
<1>1. PICK i \in LoanSlots :
        /\ paid(i) >= Due(balance(i))
        /\ BooksCarry(m, loan(i), principalRepaid(i))
        /\ market' = SettleLoan(m, loan(i), loan(i).principal, principalRepaid(i), Due(balance(i)))
        /\ position' = [position EXCEPT ![b] =
                          [p EXCEPT !.loans = loans(i),
                                    !.promo_last_activity_at = IF idle(i) THEN now ELSE @]]
        /\ market_vault' = market_vault + paid(i)
        /\ credit' = [credit EXCEPT ![b].loans_completed = IF closed(i) THEN @ + 1 ELSE @]
  BY DEF RepayLoan
<1>2. UNCHANGED <<now, lender, collateral, promo_vault, promo_vault_token>>
  BY DEF RepayLoan
<1>3. m \in Market BY AccrueType DEF TypeOK
<1>4. p \in Position /\ loan(i) \in Loan /\ now \in Nat BY DEF TypeOK, Position
<1>5. amount \in Nat BY InputsAreNaturals
<1>6. /\ Due(balance(i)) \in Nat
      /\ Total(balance(i)) = loan(i).principal + Due(balance(i))
  BY <1>4, BalanceType
<1>7. loan(i).principal \in Nat BY <1>4 DEF Loan
<1> HIDE DEF m, loan, balance
<1>8. /\ paid(i) \in Nat
      /\ principalRepaid(i) \in Nat
      /\ principalRepaid(i) <= loan(i).principal
  BY <1>1, <1>5, <1>6, <1>7 DEF Min2
<1> HIDE DEF paid, principalRepaid
<1>9. market' \in Market BY <1>1, <1>3, <1>4, <1>6, <1>7, <1>8, SettleType
<1>10. position' \in [Borrowers -> Position]
  <2>1. [loan(i) EXCEPT !.principal = @ - principalRepaid(i), !.interest_anchor = now] \in Loan
    <3>1. loan(i).principal - principalRepaid(i) \in Nat BY <1>7, <1>8
    <3> QED BY <1>4, <3>1 DEF Loan
  <2>2. loans(i) \in [LoanSlots -> Loan]
    BY <1>4, <2>1, FreeSlotType DEF Position
  <2> HIDE DEF loans, closed
  <2>3. (IF idle(i) THEN now ELSE p.promo_last_activity_at) \in Nat BY <1>4 DEF Position
  <2> HIDE DEF idle
  <2>4. [p EXCEPT !.loans = loans(i), !.promo_last_activity_at = IF idle(i) THEN now ELSE @]
           \in Position
    BY <1>4, <2>2, <2>3 DEF Position
  <2> QED BY <1>1, <2>4 DEF TypeOK
<1>11. credit' \in [Borrowers -> [loans_completed: Nat, loans_defaulted: Nat]]
  <2>1. (IF closed(i) THEN credit[b].loans_completed + 1 ELSE credit[b].loans_completed) \in Nat
    BY DEF TypeOK
  <2> HIDE DEF closed
  <2> QED BY <1>1, <2>1, CreditType
<1> QED BY <1>1, <1>2, <1>8, <1>9, <1>10, <1>11 DEF TypeOK

\* forfeit_promo, where it succeeds, moves a natural amount the vault holds and
\* keeps the ledger's type.
LEMMA ForfeitType ==
  ASSUME TypeOK, NEW b \in Borrowers, CanForfeit(position[b])
  PROVE  /\ ForfeitMoves(position[b]) \in Nat
         /\ ForfeitMoves(position[b]) <= promo_vault_token
         /\ AfterForfeit(position[b]) \in [cash: Nat, outstanding: Nat, unissued: Nat]
<1> DEFINE promo == position[b].promo_balance
           moved == ForfeitMoves(position[b])
<1>1. promo \in Nat /\ promo_vault_token \in Nat
      /\ promo_vault \in [cash: Nat, outstanding: Nat, unissued: Nat]
  BY DEF TypeOK, Position
<1>2. moved \in Nat /\ moved <= promo /\ moved <= promo_vault_token
  BY <1>1 DEF ForfeitMoves, Min2
<1>3. promo > 0 => promo <= promo_vault.outstanding /\ moved <= promo_vault.cash
  BY DEF CanForfeit, CanRelease
<1> HIDE DEF promo, moved
<1>4. promo_vault.outstanding - promo \in Nat /\ promo_vault.cash - moved \in Nat
  BY <1>1, <1>2, <1>3
<1>5. AfterForfeit(position[b]) = [promo_vault EXCEPT !.outstanding = @ - promo, !.cash = @ - moved]
  BY DEF AfterForfeit, promo, moved
<1>6. AfterForfeit(position[b]) \in [cash: Nat, outstanding: Nat, unissued: Nat]
  BY <1>1, <1>4, <1>5
<1> QED BY <1>2, <1>6 DEF moved

\* The seizure of a liquidation is bounded by the request and the holding.
LEMMA SeizureBounds ==
  ASSUME TypeOK, NEW p \in Position, NEW a \in Assets, NEW requested \in Nat,
         NEW view \in PriceViews
  PROVE  /\ Seizure(p, a, requested, view).repay_amount \in Nat
         /\ Seizure(p, a, requested, view).repay_amount <= requested
         /\ Seizure(p, a, requested, view).seize_amount \in Nat
         /\ Seizure(p, a, requested, view).seize_amount <= p.collateral[a]
<1> DEFINE inputs == [repay_amount |-> requested, ngn_price |-> view.ngn.price,
                      cngn_unit |-> CNGN_UNIT, collateral_price |-> view.asset[a].price,
                      collateral_unit |-> AssetUnit[a],
                      multiplier |-> view.asset[a].multiplier,
                      bonus_bps |-> collateral[a].params.liquidation_bonus_bps,
                      slot_amount |-> p.collateral[a]]
<1>1. view.ngn.price \in Nat /\ view.asset[a].price \in Nat \ {0}
      /\ view.asset[a].multiplier \in Nat \ {0}
  BY PricesArePositive
<1>2. AssetUnit[a] \in Nat \ {0} /\ collateral[a].params.liquidation_bonus_bps \in Nat
  BY ParamsAreValid, ScalesArePositive DEF TypeOK, CollateralParams
<1>3. p.collateral[a] \in Nat BY DEF Position
<1>4. inputs \in [repay_amount: Nat, ngn_price: Nat, cngn_unit: Nat \ {0},
                  collateral_price: Nat \ {0}, collateral_unit: Nat \ {0},
                  multiplier: Nat \ {0}, bonus_bps: Nat, slot_amount: Nat]
  BY <1>1, <1>2, <1>3, SlotsAndUnits
<1>5. inputs.repay_amount = requested /\ inputs.slot_amount = p.collateral[a] OBVIOUS
<1>6. Seizure(p, a, requested, view) = SeizeForRepayment(inputs) BY DEF Seizure
<1> HIDE DEF inputs
<1> QED BY <1>4, <1>5, <1>6, SeizeType

\* The principal a payment retires is at most the principal and at most the payment.
LEMMA PrincipalShareBounds ==
  ASSUME NEW paid \in Nat, NEW principal \in Nat, NEW balance \in Nat,
         0 < paid, paid <= balance, principal <= balance
  PROVE  /\ PrincipalShare(paid, principal, balance) \in Nat
         /\ PrincipalShare(paid, principal, balance) <= principal
         /\ PrincipalShare(paid, principal, balance) <= paid
<1>1. balance \in Nat \ {0} OBVIOUS
<1>2. /\ MulDivFloor(paid, principal, balance) \in Nat
      /\ MulDivFloor(paid, principal, balance) <= paid
  BY <1>1, FloorNat, FloorLe
<1>3. MulDivFloor(principal, paid, balance) <= principal BY <1>1, FloorLe
<1>4. MulDivFloor(principal, paid, balance) = MulDivFloor(paid, principal, balance)
  <2>1. principal * paid = paid * principal OBVIOUS
  <2> QED BY <2>1 DEF MulDivFloor
<1> QED BY <1>2, <1>3, <1>4 DEF PrincipalShare

\* liquidate keeps every account's type: principal, slot and totals do not underflow.
LEMMA LiquidateType ==
  ASSUME TypeOK, NEW b \in Borrowers, NEW id \in 0..MaxLoanId, NEW a \in Assets,
         NEW amount \in LiquidateAmounts, NEW view \in PriceViews, NEW recorded \in BOOLEAN,
         Liquidate(b, id, a, amount, view, recorded)
  PROVE  TypeOK'
<1> DEFINE m == Accrue(market)
           p == position[b]
           moved == ForfeitMoves(p)
           funded == [m EXCEPT !.cash = @ + moved]
           loan(i) == p.loans[i]
           balance(i) == Total(LoanBalance(loan(i), now))
           paid(i) == Seizure(p, a, Min2(amount, balance(i)), view).repay_amount
           seized(i) == Seizure(p, a, Min2(amount, balance(i)), view).seize_amount
           principalRepaid(i) == PrincipalShare(paid(i), loan(i).principal, balance(i))
           closed(i) == principalRepaid(i) = loan(i).principal
           after(i) == IF closed(i) THEN FreeSlot
                       ELSE [loan(i) EXCEPT !.principal = @ - principalRepaid(i)]
<1>1. PICK i \in LoanSlots :
        /\ paid(i) > 0
        /\ BooksCarry(m, loan(i), principalRepaid(i))
        /\ seized(i) <= collateral[a].total_deposited
        /\ market' = SettleLoan(funded, loan(i), principalRepaid(i), principalRepaid(i),
                                paid(i) - principalRepaid(i))
        /\ position' = [position EXCEPT ![b] =
                          [p EXCEPT !.promo_balance = 0, !.collateral[a] = @ - seized(i),
                                    !.loans[i] = after(i)]]
        /\ collateral' = [collateral EXCEPT ![a].total_deposited = @ - seized(i)]
        /\ market_vault' = market_vault + moved + paid(i)
        /\ credit' = [credit EXCEPT ![b].loans_defaulted =
                                        IF closed(i) /\ recorded THEN @ + 1 ELSE @]
  BY DEF Liquidate
<1>2. /\ CanForfeit(p)
      /\ promo_vault' = AfterForfeit(p)
      /\ promo_vault_token' = promo_vault_token - moved
      /\ UNCHANGED <<now, lender>>
  BY DEF Liquidate
<1>3. m \in Market BY AccrueType DEF TypeOK
<1>4. p \in Position /\ loan(i) \in Loan /\ now \in Nat BY DEF TypeOK, Position
<1>5. loan(i).principal \in Nat BY <1>4 DEF Loan
<1>6. /\ moved \in Nat /\ moved <= promo_vault_token
      /\ promo_vault' \in [cash: Nat, outstanding: Nat, unissued: Nat]
  BY <1>2, ForfeitType
<1>7. balance(i) \in Nat /\ loan(i).principal <= balance(i)
  BY <1>4, TotalType
<1>8. Min2(amount, balance(i)) \in Nat /\ Min2(amount, balance(i)) <= balance(i)
  BY <1>7, InputsAreNaturals DEF Min2
<1> HIDE DEF balance
<1>9. /\ paid(i) \in Nat /\ paid(i) <= balance(i)
      /\ seized(i) \in Nat /\ seized(i) <= p.collateral[a]
  BY <1>4, <1>7, <1>8, SeizureBounds
<1> HIDE DEF paid, seized
<1>10. /\ principalRepaid(i) \in Nat
       /\ principalRepaid(i) <= loan(i).principal
       /\ principalRepaid(i) <= paid(i)
  BY <1>1, <1>5, <1>7, <1>9, PrincipalShareBounds
<1> HIDE DEF principalRepaid
<1>11. market' \in Market
  <2>1. m.cash + moved \in Nat BY <1>3, <1>6 DEF Market
  <2>2. funded \in Market BY <1>3, <2>1 DEF Market
  <2>3. BooksCarry(funded, loan(i), principalRepaid(i))
    <3>1. funded.total_borrows = m.total_borrows /\ funded.lp_rate_product = m.lp_rate_product
      BY <1>3 DEF Market
    <3> HIDE DEF funded
    <3> QED BY <1>1, <3>1 DEF BooksCarry
  <2>4. paid(i) - principalRepaid(i) \in Nat BY <1>9, <1>10
  <2> HIDE DEF funded
  <2> QED BY <1>1, <1>4, <1>10, <2>2, <2>3, <2>4, SettleType
<1>12. position' \in [Borrowers -> Position]
  <2>1. after(i) \in Loan
    <3>1. loan(i).principal - principalRepaid(i) \in Nat BY <1>5, <1>10
    <3> HIDE DEF loan
    <3>2. [loan(i) EXCEPT !.principal = @ - principalRepaid(i)] \in Loan
      BY <1>4, <3>1 DEF Loan
    <3> QED BY <3>2, FreeSlotType
  <2> HIDE DEF after
  <2>2. [p.loans EXCEPT ![i] = after(i)] \in [LoanSlots -> Loan]
    BY <1>4, <2>1 DEF Position
  <2>3. [p.collateral EXCEPT ![a] = @ - seized(i)] \in [Assets -> Nat]
    <3>1. p.collateral[a] - seized(i) \in Nat BY <1>4, <1>9 DEF Position
    <3> QED BY <1>4, <3>1 DEF Position
  <2>4. [p EXCEPT !.promo_balance = 0, !.collateral[a] = @ - seized(i), !.loans[i] = after(i)]
           \in Position
    BY <1>4, <2>2, <2>3 DEF Position
  <2> QED BY <1>1, <2>4 DEF TypeOK
<1>13. collateral' \in [Assets -> [total_deposited: Nat, paused: BOOLEAN, borrow_paused: BOOLEAN,
                                  params: CollateralParams]]
  <2>1. collateral[a].total_deposited - seized(i) \in Nat BY <1>1, <1>9 DEF TypeOK
  <2> QED BY <1>1, <2>1, CollateralType
<1>14. credit' \in [Borrowers -> [loans_completed: Nat, loans_defaulted: Nat]]
  <2>1. (IF closed(i) /\ recorded THEN credit[b].loans_defaulted + 1
                                  ELSE credit[b].loans_defaulted) \in Nat
    BY DEF TypeOK
  <2> HIDE DEF closed
  <2> QED BY <1>1, <2>1, CreditType
<1>15. market_vault' \in Nat /\ promo_vault_token' \in Nat
  BY <1>1, <1>2, <1>6, <1>9 DEF TypeOK
<1> QED BY <1>2, <1>6, <1>11, <1>12, <1>13, <1>14, <1>15 DEF TypeOK

\* write_off_loan keeps every account's type: the reserve covers no more than it has.
LEMMA WriteOffLoanType ==
  ASSUME TypeOK, NEW b \in Borrowers, NEW id \in 0..MaxLoanId, NEW view \in PriceViews,
         WriteOffLoan(b, id, view)
  PROVE  TypeOK'
<1> DEFINE m == Accrue(market)
           p == position[b]
           moved == ForfeitMoves(p)
           loan(i) == p.loans[i]
           accrued(i) == AccruedLpInterest(loan(i).principal, loan(i), now)
           netLoss(i) == NetLoss(loan(i).principal + accrued(i), moved)
           contribution(i) == LpContribution(loan(i).principal, loan(i).rate_bps,
                                             loan(i).reserve_factor_bps)
<1>1. PICK i \in LoanSlots :
        /\ BooksCarry(m, loan(i), loan(i).principal)
        /\ market' = [m EXCEPT
              !.cash = @ + moved,
              !.accrued_interest = SatSub(@, accrued(i)),
              !.total_borrows = @ - loan(i).principal,
              !.lp_rate_product = @ - contribution(i),
              !.protocol_reserve = @ - CoveredByReserve(netLoss(i), @),
              !.total_bad_debt = @ + netLoss(i)]
        /\ position' = [position EXCEPT ![b] =
                          [p EXCEPT !.promo_balance = 0, !.loans[i] = FreeSlot]]
  BY DEF WriteOffLoan
<1>2. /\ CanForfeit(p)
      /\ credit' = [credit EXCEPT ![b].loans_defaulted = @ + 1]
      /\ market_vault' = market_vault + moved
      /\ promo_vault' = AfterForfeit(p)
      /\ promo_vault_token' = promo_vault_token - moved
      /\ UNCHANGED <<now, lender, collateral>>
  BY DEF WriteOffLoan
<1>3. m \in Market BY AccrueType DEF TypeOK
<1>4. p \in Position /\ loan(i) \in Loan /\ now \in Nat BY DEF TypeOK, Position
<1>5. loan(i).principal \in Nat BY <1>4 DEF Loan
<1>6. /\ moved \in Nat /\ moved <= promo_vault_token
      /\ promo_vault' \in [cash: Nat, outstanding: Nat, unissued: Nat]
  BY <1>2, ForfeitType
<1>7. accrued(i) \in Nat BY <1>4, <1>5, AccruedNat
<1>8. contribution(i) \in Nat BY <1>4, <1>5, ContributionNat DEF Loan
<1> HIDE DEF accrued
<1>9. netLoss(i) \in Nat BY <1>5, <1>6, <1>7 DEF NetLoss, SatSub
<1> HIDE DEF netLoss
<1>10. market' \in Market
  <2>1. /\ m.cash + moved \in Nat
        /\ SatSub(m.accrued_interest, accrued(i)) \in Nat
        /\ m.total_bad_debt + netLoss(i) \in Nat
    BY <1>3, <1>6, <1>7, <1>9 DEF Market, SatSub
  <2>2. m.total_borrows - loan(i).principal \in Nat /\ m.lp_rate_product - contribution(i) \in Nat
    BY <1>1, <1>3, <1>5, <1>8 DEF Market, BooksCarry
  <2>3. m.protocol_reserve - CoveredByReserve(netLoss(i), m.protocol_reserve) \in Nat
    BY <1>3, <1>9 DEF Market, CoveredByReserve, Min2
  <2> HIDE DEF contribution, loan, moved
  <2> QED BY <1>1, <1>3, <2>1, <2>2, <2>3 DEF Market
<1>11. position' \in [Borrowers -> Position]
  <2>1. [p.loans EXCEPT ![i] = FreeSlot] \in [LoanSlots -> Loan]
    BY <1>4, FreeSlotType DEF Position
  <2>2. [p EXCEPT !.promo_balance = 0, !.loans[i] = FreeSlot] \in Position
    BY <1>4, <2>1 DEF Position
  <2> QED BY <1>1, <2>2 DEF TypeOK
<1>12. credit' \in [Borrowers -> [loans_completed: Nat, loans_defaulted: Nat]]
  <2>1. credit[b].loans_defaulted + 1 \in Nat BY DEF TypeOK
  <2> QED BY <1>2, <2>1, CreditType
<1>13. market_vault' \in Nat /\ promo_vault_token' \in Nat
  BY <1>2, <1>6 DEF TypeOK
<1> QED BY <1>2, <1>6, <1>10, <1>11, <1>12, <1>13 DEF TypeOK

\* Redeeming, expiring and revoking promo keep every account's type.
LEMMA PromoStepType ==
  ASSUME TypeOK, NEW b \in Borrowers, PromoStep(b) PROVE TypeOK'
<1> DEFINE p == position[b]
           ledger == [cash: Nat, outstanding: Nat, unissued: Nat]
           taken == [p EXCEPT !.promo_balance = 0]
<1>1. p \in Position /\ p.promo_balance \in Nat /\ now \in Nat BY DEF TypeOK, Position
<1>2. taken \in Position BY <1>1 DEF Position
<1>3. ASSUME NEW amount \in PromoAmounts, RedeemPromo(b, amount) PROVE TypeOK'
  <2>1. amount \in Nat /\ p.promo_balance + amount \in Nat BY <1>1, InputsAreNaturals
  <2>2. [p EXCEPT !.promo_balance = @ + amount, !.promo_last_activity_at = now] \in Position
    BY <1>1, <2>1 DEF Position
  <2>3. position' \in [Borrowers -> Position] BY <1>3, <2>2 DEF RedeemPromo, TypeOK
  <2>4. promo_vault.unissued - amount \in Nat /\ promo_vault.outstanding + amount \in Nat
    BY <1>3, <2>1 DEF RedeemPromo, TypeOK
  <2>5. promo_vault' \in ledger BY <1>3, <2>4 DEF RedeemPromo, TypeOK
  <2> QED BY <1>3, <2>3, <2>5 DEF RedeemPromo, TypeOK
<1>4. ASSUME ExpirePromo(b) PROVE TypeOK'
  <2>1. p.promo_balance <= promo_vault.outstanding BY <1>4 DEF ExpirePromo, CanRelease
  <2>2. promo_vault' \in ledger BY <1>1, <1>4, <2>1, ReleaseType DEF ExpirePromo
  <2>3. position' \in [Borrowers -> Position] BY <1>2, <1>4 DEF ExpirePromo, TypeOK
  <2> QED BY <1>4, <2>2, <2>3 DEF ExpirePromo, TypeOK
<1>5. ASSUME NEW view \in PriceViews, RevokePromo(b, view) PROVE TypeOK'
  <2>1. p.promo_balance <= promo_vault.outstanding BY <1>5 DEF RevokePromo, CanRelease
  <2>2. promo_vault' \in ledger BY <1>1, <1>5, <2>1, ReleaseType DEF RevokePromo
  <2>3. position' \in [Borrowers -> Position] BY <1>2, <1>5 DEF RevokePromo, TypeOK
  <2> QED BY <1>5, <2>2, <2>3 DEF RevokePromo, TypeOK
<1> QED BY <1>3, <1>4, <1>5 DEF PromoStep

\* The admin's instructions keep every account's type.
LEMMA AdminStepType == ASSUME TypeOK, AdminStep PROVE TypeOK'
<1>1. ASSUME NEW amount \in HarvestAmounts, HarvestReserve(amount) PROVE TypeOK'
  <2>1. amount \in Nat BY InputsAreNaturals
  <2>2. /\ market.protocol_reserve - amount \in Nat /\ market.cash - amount \in Nat
        /\ market_vault - amount \in Nat
    BY <1>1, <2>1 DEF HarvestReserve, TypeOK, Market
  <2>3. market' \in Market BY <1>1, <2>2 DEF HarvestReserve, TypeOK, Market
  <2> QED BY <1>1, <2>2, <2>3 DEF HarvestReserve, TypeOK
<1>2. ASSUME SweepMarketExcess PROVE TypeOK'
  BY <1>2 DEF SweepMarketExcess, TypeOK, Market
<1>3. ASSUME NEW params \in ParamChoices, UpdateMarketParams(params) PROVE TypeOK'
  <2>1. Accrue(market) \in Market BY AccrueType DEF TypeOK
  <2>2. params \in MarketParams BY ParamsAreValid
  <2>3. market' \in Market BY <1>3, <2>1, <2>2 DEF UpdateMarketParams, Market
  <2> QED BY <1>3, <2>3 DEF UpdateMarketParams, TypeOK
<1>4. ASSUME NEW paused \in PauseInputs, SetMarketPaused(paused) PROVE TypeOK'
  <2>1. paused \in BOOLEAN BY InputsAreNaturals
  <2>2. (IF market.paused /\ ~paused THEN now ELSE market.promo_clock_resumed_at) \in Nat
    BY DEF TypeOK, Market
  <2>3. market' \in Market BY <1>4, <2>1, <2>2 DEF SetMarketPaused, TypeOK, Market
  <2> QED BY <1>4, <2>3 DEF SetMarketPaused, TypeOK
<1>5. ASSUME NEW a \in Assets, NEW paused \in AssetPauseInputs, SetCollateralPaused(a, paused)
      PROVE  TypeOK'
  <2>1. paused \in BOOLEAN BY InputsAreNaturals
  <2> QED BY <1>5, <2>1 DEF SetCollateralPaused, TypeOK
<1>6. ASSUME NEW a \in Assets, NEW paused \in BorrowPauseInputs,
             SetCollateralBorrowPaused(a, paused)
      PROVE  TypeOK'
  <2>1. paused \in BOOLEAN BY InputsAreNaturals
  <2> QED BY <1>6, <2>1 DEF SetCollateralBorrowPaused, TypeOK
<1>7. ASSUME NEW a \in Assets, NEW params \in AssetParamChoices,
             UpdateCollateralParams(a, params)
      PROVE  TypeOK'
  <2>1. params \in CollateralParams BY ParamsAreValid
  <2> QED BY <1>7, <2>1 DEF UpdateCollateralParams, TypeOK
<1> QED BY <1>1, <1>2, <1>3, <1>4, <1>5, <1>6, <1>7 DEF AdminStep

\* Time, donations and clawbacks keep every account's type.
LEMMA EnvironmentStepType == ASSUME TypeOK, EnvironmentStep PROVE TypeOK'
<1>1. CASE Tick BY <1>1 DEF Tick, TypeOK
<1>2. ASSUME NEW amount \in DonationAmounts, Donate(amount) PROVE TypeOK'
  <2>1. amount \in Nat BY InputsAreNaturals
  <2> QED BY <1>2, <2>1 DEF Donate, TypeOK
<1>3. ASSUME NEW amount \in ClawbackAmounts, Clawback(amount) PROVE TypeOK'
  <2>1. amount \in Nat BY InputsAreNaturals
  <2> QED BY <1>3, <2>1 DEF Clawback, TypeOK
<1>4. ASSUME NEW amount \in MarketClawbackAmounts, ClawbackMarket(amount) PROVE TypeOK'
  <2>1. amount \in Nat BY InputsAreNaturals
  <2> QED BY <1>4, <2>1 DEF ClawbackMarket, TypeOK
<1> QED BY <1>1, <1>2, <1>3, <1>4 DEF EnvironmentStep

\* TypeOK is inductive.
LEMMA NextTypeOK == TypeOK /\ [Next]_vars => TypeOK'
<1> SUFFICES ASSUME TypeOK, [Next]_vars PROVE TypeOK' OBVIOUS
<1>1. CASE LenderStep
  BY <1>1, DepositLiquidityType, WithdrawLiquidityType DEF LenderStep
<1>2. ASSUME NEW b \in Borrowers, CollateralStep(b) PROVE TypeOK'
  BY <1>2, DepositCollateralType, WithdrawCollateralType DEF CollateralStep
<1>3. ASSUME NEW b \in Borrowers, LoanStep(b) PROVE TypeOK'
  BY <1>3, TakeLoanType, RepayLoanType, LiquidateType, WriteOffLoanType DEF LoanStep
<1>4. CASE BorrowerStep
  BY <1>2, <1>3, <1>4, OpenPositionType, ClosePositionType, PromoStepType DEF BorrowerStep
<1>5. CASE AdminStep BY <1>5, AdminStepType
<1>6. CASE EnvironmentStep BY <1>6, EnvironmentStepType
<1>7. CASE UNCHANGED vars BY <1>7 DEF vars, TypeOK
<1> QED BY <1>1, <1>4, <1>5, <1>6, <1>7 DEF Next

\* In every reachable state every account has its type: no balance, counter or
\* total that the program subtracts from ever goes below zero.
THEOREM TypeCorrect == Spec => []TypeOK
BY InitTypeOK, NextTypeOK, PTL DEF Spec

\* What the market records and what its vault holds move together.
GapKept == market'.cash - market_vault' = market.cash - market_vault

\* The shortfall of the vault grows.
GapWidens ==
  /\ market'.cash - market_vault' > 0
  /\ market'.cash - market_vault' > market.cash - market_vault

\* repay_loan brings in at least what it adds to the reserve.
LEMMA RepayKeepsReserve ==
  ASSUME TypeOK, ReserveIsCash, NEW b \in Borrowers, NEW id \in 0..MaxLoanId,
         NEW amount \in RepayAmounts, RepayLoan(b, id, amount)
  PROVE  ReserveIsCash' /\ GapKept
<1> DEFINE m == Accrue(market)
           loan(i) == position[b].loans[i]
           due(i) == Due(LoanBalance(loan(i), now))
           paid(i) == Min2(amount, Total(LoanBalance(loan(i), now)))
<1>1. PICK i \in LoanSlots :
        /\ paid(i) >= due(i)
        /\ BooksCarry(m, loan(i), paid(i) - due(i))
        /\ market' = SettleLoan(m, loan(i), loan(i).principal, paid(i) - due(i), due(i))
        /\ market_vault' = market_vault + paid(i)
  BY DEF RepayLoan
<1>2. /\ m \in Market /\ m.cash = market.cash /\ m.protocol_reserve = market.protocol_reserve
  BY AccrueType DEF TypeOK
<1>3. loan(i) \in Loan /\ now \in Nat BY DEF TypeOK, Position
<1>4. loan(i).principal \in Nat /\ loan(i).reserve_factor_bps \in 0..BPS BY <1>3 DEF Loan
<1>5. due(i) \in Nat /\ Total(LoanBalance(loan(i), now)) = loan(i).principal + due(i)
  BY <1>3, BalanceType
<1> HIDE DEF m, loan, due
<1>6. paid(i) \in Nat
  <2>1. amount \in Nat BY InputsAreNaturals
  <2> QED BY <1>4, <1>5, <2>1 DEF Min2
<1> HIDE DEF paid
<1>7. paid(i) - due(i) \in Nat BY <1>1, <1>5, <1>6
<1>8. /\ market'.cash = m.cash + (paid(i) - due(i)) + due(i)
      /\ market'.protocol_reserve = m.protocol_reserve
                                      + ReserveShare(due(i), loan(i).reserve_factor_bps)
  BY <1>1, <1>2, <1>3, <1>4, <1>5, <1>7, SettleType
<1>9. /\ ReserveShare(due(i), loan(i).reserve_factor_bps) \in Nat
      /\ ReserveShare(due(i), loan(i).reserve_factor_bps) <= due(i)
  BY <1>4, <1>5, ReserveShareLe
<1>10. market.cash \in Nat /\ market.protocol_reserve \in Nat /\ market_vault \in Nat
  BY DEF TypeOK, Market
<1> QED BY <1>1, <1>2, <1>5, <1>6, <1>7, <1>8, <1>9, <1>10 DEF ReserveIsCash, GapKept

\* liquidate brings in at least what it adds to the reserve.
LEMMA LiquidateKeepsReserve ==
  ASSUME TypeOK, ReserveIsCash, NEW b \in Borrowers, NEW id \in 0..MaxLoanId,
         NEW a \in Assets, NEW amount \in LiquidateAmounts, NEW view \in PriceViews,
         NEW recorded \in BOOLEAN, Liquidate(b, id, a, amount, view, recorded)
  PROVE  ReserveIsCash' /\ GapKept
<1> DEFINE m == Accrue(market)
           p == position[b]
           moved == ForfeitMoves(p)
           funded == [m EXCEPT !.cash = @ + moved]
           loan(i) == p.loans[i]
           balance(i) == Total(LoanBalance(loan(i), now))
           paid(i) == Seizure(p, a, Min2(amount, balance(i)), view).repay_amount
           principalRepaid(i) == PrincipalShare(paid(i), loan(i).principal, balance(i))
           interest(i) == paid(i) - principalRepaid(i)
<1>1. PICK i \in LoanSlots :
        /\ paid(i) > 0
        /\ BooksCarry(m, loan(i), principalRepaid(i))
        /\ market' = SettleLoan(funded, loan(i), principalRepaid(i), principalRepaid(i),
                                interest(i))
        /\ market_vault' = market_vault + moved + paid(i)
  BY DEF Liquidate
<1>2. m \in Market /\ m.cash = market.cash /\ m.protocol_reserve = market.protocol_reserve
  BY AccrueType DEF TypeOK
<1>3. p \in Position /\ loan(i) \in Loan /\ now \in Nat BY DEF TypeOK, Position
<1>4. loan(i).principal \in Nat /\ loan(i).reserve_factor_bps \in 0..BPS BY <1>3 DEF Loan
<1>5. moved \in Nat
  <2>1. CanForfeit(p) BY DEF Liquidate
  <2> QED BY <2>1, ForfeitType
<1>6. balance(i) \in Nat /\ loan(i).principal <= balance(i) BY <1>3, TotalType
<1>7. Min2(amount, balance(i)) \in Nat /\ Min2(amount, balance(i)) <= balance(i)
  BY <1>6, InputsAreNaturals DEF Min2
<1> HIDE DEF m, balance
<1>8. paid(i) \in Nat /\ paid(i) <= balance(i) BY <1>3, <1>6, <1>7, SeizureBounds
<1> HIDE DEF paid
<1>9. principalRepaid(i) \in Nat /\ principalRepaid(i) <= paid(i)
  BY <1>1, <1>4, <1>6, <1>8, PrincipalShareBounds
<1> HIDE DEF principalRepaid
<1>10. interest(i) \in Nat /\ principalRepaid(i) + interest(i) = paid(i) BY <1>8, <1>9
<1> HIDE DEF interest
<1>11. /\ funded \in Market /\ BooksCarry(funded, loan(i), principalRepaid(i))
       /\ funded.cash = m.cash + moved /\ funded.protocol_reserve = m.protocol_reserve
  <2>1. m.cash + moved \in Nat BY <1>2, <1>5 DEF Market
  <2>2. funded \in Market BY <1>2, <2>1 DEF Market
  <2>3. /\ funded.total_borrows = m.total_borrows /\ funded.lp_rate_product = m.lp_rate_product
        /\ funded.cash = m.cash + moved /\ funded.protocol_reserve = m.protocol_reserve
    BY <1>2 DEF Market
  <2> HIDE DEF funded
  <2> QED BY <1>1, <2>2, <2>3 DEF BooksCarry
<1> HIDE DEF funded
<1>12. /\ market'.cash = funded.cash + principalRepaid(i) + interest(i)
       /\ market'.protocol_reserve = funded.protocol_reserve
                                       + ReserveShare(interest(i), loan(i).reserve_factor_bps)
  BY <1>1, <1>3, <1>9, <1>10, <1>11, SettleType
<1>13. /\ ReserveShare(interest(i), loan(i).reserve_factor_bps) \in Nat
       /\ ReserveShare(interest(i), loan(i).reserve_factor_bps) <= interest(i)
  BY <1>4, <1>10, ReserveShareLe
<1>14. market.cash \in Nat /\ market.protocol_reserve \in Nat /\ market_vault \in Nat
  BY DEF TypeOK, Market
<1> HIDE DEF moved, loan
<1> QED BY <1>1, <1>2, <1>5, <1>8, <1>9, <1>10, <1>11, <1>12, <1>13, <1>14 DEF ReserveIsCash, GapKept

\* write_off_loan only lowers the reserve, and adds what is forfeited to cash.
LEMMA WriteOffKeepsReserve ==
  ASSUME TypeOK, ReserveIsCash, NEW b \in Borrowers, NEW id \in 0..MaxLoanId,
         NEW view \in PriceViews, WriteOffLoan(b, id, view)
  PROVE  ReserveIsCash' /\ GapKept
<1> DEFINE m == Accrue(market)
           p == position[b]
           moved == ForfeitMoves(p)
           loss(i) == p.loans[i].principal + AccruedLpInterest(p.loans[i].principal, p.loans[i], now)
           covered(i) == CoveredByReserve(NetLoss(loss(i), moved), m.protocol_reserve)
<1>1. m \in Market /\ m.cash = market.cash /\ m.protocol_reserve = market.protocol_reserve
  BY AccrueType DEF TypeOK
<1>2. PICK i \in LoanSlots :
        /\ market'.cash = m.cash + moved
        /\ market'.protocol_reserve = m.protocol_reserve - covered(i)
  BY <1>1 DEF WriteOffLoan, Market
<1>3. market_vault' = market_vault + moved BY DEF WriteOffLoan
<1>4. moved \in Nat
  <2>1. CanForfeit(p) BY DEF WriteOffLoan
  <2> QED BY <2>1, ForfeitType
<1>5. covered(i) \in Nat
  <2>1. p.loans[i] \in Loan /\ now \in Nat BY DEF TypeOK, Position
  <2>2. p.loans[i].principal \in Nat BY <2>1 DEF Loan
  <2>3. AccruedLpInterest(p.loans[i].principal, p.loans[i], now) \in Nat
    BY <2>1, <2>2, AccruedNat
  <2>4. loss(i) \in Nat BY <2>2, <2>3
  <2> HIDE DEF loss, moved, m
  <2>5. NetLoss(loss(i), moved) \in Nat BY <1>4, <2>4 DEF NetLoss, SatSub
  <2> QED BY <1>1, <2>5 DEF CoveredByReserve, Min2, Market
<1>6. market.cash \in Nat /\ market.protocol_reserve \in Nat /\ market_vault \in Nat
  BY DEF TypeOK, Market
<1> HIDE DEF m, moved, covered
<1> QED BY <1>1, <1>2, <1>3, <1>4, <1>5, <1>6 DEF ReserveIsCash, GapKept

\* Lenders never touch the reserve's part of the cash.
LEMMA LenderKeepsReserve ==
  ASSUME TypeOK, ReserveIsCash, LenderStep PROVE ReserveIsCash' /\ GapKept
<1> DEFINE m == Accrue(market)
<1>1. m \in Market /\ m.cash = market.cash /\ m.protocol_reserve = market.protocol_reserve
  BY AccrueType DEF TypeOK
<1>2. market.cash \in Nat /\ market.protocol_reserve \in Nat /\ market_vault \in Nat
  BY DEF TypeOK, Market
<1>3. ASSUME NEW w \in Lenders, NEW amount \in DepositAmounts, DepositLiquidity(w, amount)
      PROVE  ReserveIsCash' /\ GapKept
  <2>1. amount \in Nat BY InputsAreNaturals
  <2>2. /\ market'.cash = m.cash + amount /\ market'.protocol_reserve = m.protocol_reserve
        /\ market_vault' = market_vault + amount
    BY <1>1, <1>3 DEF DepositLiquidity, Market
  <2> HIDE DEF m
  <2> QED BY <1>1, <1>2, <2>1, <2>2 DEF ReserveIsCash, GapKept
<1>4. ASSUME NEW w \in Lenders, NEW request \in WithdrawAmounts, WithdrawLiquidity(w, request)
      PROVE  ReserveIsCash' /\ GapKept
  <2> DEFINE amount == IF request = U64_MAX
                       THEN Min2(RedeemableAmount(lender[w], m.total_shares, TotalAssets(m)),
                                 AvailableCash(m))
                       ELSE request
  <2>1. /\ market'.cash = m.cash - amount /\ market'.protocol_reserve = m.protocol_reserve
        /\ market_vault' = market_vault - amount
    BY <1>1, <1>4 DEF WithdrawLiquidity, Market
  <2>2. 0 < amount /\ amount <= AvailableCash(m) BY <1>4 DEF WithdrawLiquidity
  <2>3. market_vault' \in Nat /\ market'.cash \in Nat
    BY <1>4, WithdrawLiquidityType DEF TypeOK, Market
  <2>4. AvailableCash(m) = m.cash - m.protocol_reserve
    BY <1>1, <1>2 DEF ReserveIsCash, AvailableCash, SatSub
  <2>5. amount \in Int
    <3>1. RedeemableAmount(lender[w], m.total_shares, TotalAssets(m)) \in Int
      <4>1. TotalAssets(m) \in Nat
        BY <1>1, <1>4 DEF WithdrawLiquidity, AssetsUnderflow, TotalAssets, Market
      <4>2. /\ m.total_shares + VIRTUAL_SHARES \in Nat \ {0}
            /\ TotalAssets(m) + VIRTUAL_ASSETS \in Nat
        BY <1>1, <4>1, ScalesArePositive DEF Market
      <4> HIDE DEF m
      <4>3. RedeemableAmount(lender[w], m.total_shares, TotalAssets(m)) \in Nat
        BY <4>2, FloorNat DEF RedeemableAmount, TypeOK
      <4> QED BY <4>3
    <3>2. request \in Int BY InputsAreNaturals
    <3>3. AvailableCash(m) \in Int BY <1>1, <1>2, <2>4
    <3> HIDE DEF m
    <3> QED BY <3>1, <3>2, <3>3 DEF Min2
  <2> HIDE DEF m, amount
  <2> QED BY <1>1, <1>2, <2>1, <2>2, <2>3, <2>4, <2>5 DEF ReserveIsCash, GapKept
<1> QED BY <1>3, <1>4 DEF LenderStep

\* A loan never touches the reserve's part of the cash.
LEMMA TakeLoanKeepsReserve ==
  ASSUME TypeOK, ReserveIsCash, NEW b \in Borrowers, NEW amount \in LoanAmounts,
         NEW tenure \in Tenures, NEW view \in PriceViews, TakeLoan(b, amount, tenure, view)
  PROVE  ReserveIsCash' /\ GapKept
<1> DEFINE m == Accrue(market)
<1>1. m \in Market /\ m.cash = market.cash /\ m.protocol_reserve = market.protocol_reserve
  BY AccrueType DEF TypeOK
<1>2. market.cash \in Nat /\ market.protocol_reserve \in Nat /\ market_vault \in Nat
  BY DEF TypeOK, Market
<1>3. AvailableCash(m) = m.cash - m.protocol_reserve
  BY <1>1, <1>2 DEF ReserveIsCash, AvailableCash, SatSub
<1>4. amount \in Nat BY InputsAreNaturals
<1>5. amount <= AvailableCash(m) BY DEF TakeLoan
<1>6. /\ market'.cash = m.cash - amount /\ market'.protocol_reserve = m.protocol_reserve
      /\ market_vault' = market_vault - amount
  BY <1>1 DEF TakeLoan, Market
<1> HIDE DEF m
<1> QED BY <1>1, <1>2, <1>3, <1>4, <1>5, <1>6 DEF ReserveIsCash, GapKept

\* Harvest, sweep, donation and the rest keep the reserve in cash; of them only
\* a clawback widens a shortfall of the vault.
LEMMA OutsideKeepsReserve ==
  ASSUME TypeOK, ReserveIsCash, AdminStep \/ EnvironmentStep
  PROVE  /\ ReserveIsCash'
         /\ GapWidens => \E amount \in MarketClawbackAmounts : ClawbackMarket(amount)
<1>1. market \in Market BY DEF TypeOK
<1>2. market.cash \in Nat /\ market.protocol_reserve \in Nat /\ market_vault \in Nat
  BY <1>1 DEF TypeOK, Market
<1>3. ASSUME NEW amount \in HarvestAmounts, HarvestReserve(amount)
      PROVE  ReserveIsCash' /\ ~GapWidens
  <2>1. amount \in Nat BY InputsAreNaturals
  <2>2. /\ market'.cash = market.cash - amount
        /\ market'.protocol_reserve = market.protocol_reserve - amount
        /\ market_vault' = market_vault - amount
    BY <1>1, <1>3 DEF HarvestReserve, Market
  <2> QED BY <1>2, <2>1, <2>2 DEF ReserveIsCash, GapWidens
<1>4. CASE SweepMarketExcess
  <2>1. market' = market /\ market_vault' = market.cash BY <1>4 DEF SweepMarketExcess
  <2> QED BY <1>2, <2>1 DEF ReserveIsCash, GapWidens
<1>5. ASSUME NEW params \in ParamChoices, UpdateMarketParams(params)
      PROVE  ReserveIsCash' /\ ~GapWidens
  <2>1. /\ Accrue(market) \in Market /\ Accrue(market).cash = market.cash
        /\ Accrue(market).protocol_reserve = market.protocol_reserve
    BY AccrueType DEF TypeOK
  <2>2. market'.cash = market.cash /\ market'.protocol_reserve = market.protocol_reserve
    BY <1>5, <2>1 DEF UpdateMarketParams, Market
  <2>3. market_vault' = market_vault BY <1>5 DEF UpdateMarketParams
  <2> QED BY <1>2, <2>2, <2>3 DEF ReserveIsCash, GapWidens
<1>6. ASSUME NEW paused \in PauseInputs, SetMarketPaused(paused)
      PROVE  ReserveIsCash' /\ ~GapWidens
  <2>1. /\ market'.cash = market.cash /\ market'.protocol_reserve = market.protocol_reserve
        /\ market_vault' = market_vault
    BY <1>1, <1>6 DEF SetMarketPaused, Market
  <2> QED BY <1>2, <2>1 DEF ReserveIsCash, GapWidens
<1>7. ASSUME NEW amount \in DonationAmounts, Donate(amount) PROVE ReserveIsCash' /\ ~GapWidens
  <2>1. amount \in Nat BY InputsAreNaturals
  <2>2. market' = market /\ market_vault' = market_vault + amount BY <1>7 DEF Donate
  <2> QED BY <1>2, <2>1, <2>2 DEF ReserveIsCash, GapWidens
<1>8. ASSUME NEW amount \in MarketClawbackAmounts, ClawbackMarket(amount) PROVE ReserveIsCash'
  BY <1>8 DEF ClawbackMarket, ReserveIsCash
<1>9. ASSUME UNCHANGED <<market, market_vault>> PROVE ReserveIsCash' /\ ~GapWidens
  BY <1>2, <1>9 DEF ReserveIsCash, GapWidens
<1>10. ASSUME \/ Tick \/ \E amount \in ClawbackAmounts : Clawback(amount)
              \/ \E a \in Assets, paused \in AssetPauseInputs : SetCollateralPaused(a, paused)
              \/ \E a \in Assets, paused \in BorrowPauseInputs :
                    SetCollateralBorrowPaused(a, paused)
              \/ \E a \in Assets, params \in AssetParamChoices :
                    UpdateCollateralParams(a, params)
       PROVE  UNCHANGED <<market, market_vault>>
  BY <1>10 DEF Tick, Clawback, SetCollateralPaused, SetCollateralBorrowPaused,
               UpdateCollateralParams
<1> QED
  BY <1>3, <1>4, <1>5, <1>6, <1>7, <1>8, <1>9, <1>10 DEF AdminStep, EnvironmentStep

\* ReserveIsCash is inductive relative to TypeOK, and no step but a clawback
\* widens a shortfall.
LEMMA NextReserveIsCash ==
  TypeOK /\ ReserveIsCash /\ [Next]_vars =>
      /\ ReserveIsCash'
      /\ GapWidens => \E amount \in MarketClawbackAmounts : ClawbackMarket(amount)
<1> SUFFICES ASSUME TypeOK, ReserveIsCash, [Next]_vars
             PROVE  /\ ReserveIsCash'
                    /\ GapWidens =>
                          \E amount \in MarketClawbackAmounts : ClawbackMarket(amount)
  OBVIOUS
<1>1. market.cash \in Nat /\ market_vault \in Nat BY DEF TypeOK, Market
<1>2. GapKept => ~GapWidens BY <1>1 DEF GapKept, GapWidens
<1>3. ASSUME UNCHANGED <<market, market_vault>> PROVE ReserveIsCash' /\ GapKept
  BY <1>3 DEF ReserveIsCash, GapKept
<1>4. ASSUME NEW b \in Borrowers, LoanStep(b) PROVE ReserveIsCash' /\ GapKept
  BY <1>4, TakeLoanKeepsReserve, RepayKeepsReserve, LiquidateKeepsReserve, WriteOffKeepsReserve
  DEF LoanStep
<1>5. ASSUME NEW b \in Borrowers,
             OpenPosition(b) \/ ClosePosition(b) \/ CollateralStep(b) \/ PromoStep(b)
      PROVE  UNCHANGED <<market, market_vault>>
  BY <1>5 DEF OpenPosition, ClosePosition, CollateralStep, DepositCollateral,
              WithdrawCollateral, PromoStep, RedeemPromo, ExpirePromo, RevokePromo
<1>6. CASE BorrowerStep BY <1>2, <1>3, <1>4, <1>5, <1>6 DEF BorrowerStep
<1>7. CASE UNCHANGED vars BY <1>2, <1>3, <1>7 DEF vars
<1>8. CASE LenderStep BY <1>2, <1>8, LenderKeepsReserve
<1>9. CASE AdminStep \/ EnvironmentStep BY <1>9, OutsideKeepsReserve
<1> QED BY <1>6, <1>7, <1>8, <1>9 DEF Next

\* In every reachable state the protocol's reserve is backed by recorded cash:
\* lenders, borrowers and write-offs never spend the reserve.
THEOREM ReserveStaysCash == Spec => []ReserveIsCash
<1>1. Init => ReserveIsCash BY DEF Init, ReserveIsCash
<1> QED BY <1>1, TypeCorrect, NextReserveIsCash, PTL DEF Spec

\* The vault comes to hold less than the market records by a clawback alone, and
\* no instruction widens the shortfall: none takes cash it does not pay out or
\* records cash it did not bring.
THEOREM MarketGapsComeFromClawbacks == Spec => OnlyClawbackOpensAMarketGap
<1>1. TypeOK /\ ReserveIsCash /\ [Next]_vars =>
        [ LET gap == market.cash - market_vault
          IN  gap' > 0 /\ gap' > gap =>
                  \E amount \in MarketClawbackAmounts : ClawbackMarket(amount) ]_vars
  BY NextReserveIsCash DEF GapWidens
<1> QED
  BY <1>1, TypeCorrect, ReserveStaysCash, PTL DEF Spec, OnlyClawbackOpensAMarketGap

-----------------------------------------------------------------------------
(* The promo side of the market implements PromoLedger *)

PromoVault == [cash: Nat, outstanding: Nat, unissued: Nat]

\* The ledger before and after a step that releases `amount' of promo.
LEMMA ReleaseStep ==
  ASSUME promo_vault \in PromoVault, NEW amount \in Nat,
         amount > 0 => amount <= promo_vault.outstanding,
         promo_vault' = [promo_vault EXCEPT !.outstanding = @ - amount]
  PROVE  Ledger!Release \/ UNCHANGED promo_vault
<1>1. CASE amount = 0
  BY <1>1 DEF PromoVault
<1>2. CASE amount > 0
  <2>1. promo_vault.outstanding \in Nat /\ amount <= promo_vault.outstanding
    BY <1>2 DEF PromoVault
  <2>2. /\ promo_vault.outstanding - amount \in Nat
        /\ promo_vault.outstanding - amount < promo_vault.outstanding
    BY <1>2, <2>1
  <2>3. /\ promo_vault'.outstanding = promo_vault.outstanding - amount
        /\ promo_vault'.cash = promo_vault.cash
        /\ promo_vault'.unissued = promo_vault.unissued
    BY DEF PromoVault
  <2> QED BY <2>2, <2>3 DEF Ledger!Release
<1> QED BY <1>1, <1>2

\* The ledger before and after a step that forfeits a position's promo.
LEMMA ForfeitStep ==
  ASSUME TypeOK, NEW b \in Borrowers, CanForfeit(position[b]),
         promo_vault' = AfterForfeit(position[b])
  PROVE  Ledger!Forfeit \/ UNCHANGED promo_vault
<1> DEFINE promo == position[b].promo_balance
           moved == ForfeitMoves(position[b])
<1>1. /\ promo \in Nat /\ promo_vault_token \in Nat
      /\ promo_vault \in PromoVault
  BY DEF TypeOK, Position, PromoVault
<1>2. moved \in Nat /\ moved <= promo
  BY <1>1 DEF ForfeitMoves, Min2
<1>3. promo_vault' = [promo_vault EXCEPT !.outstanding = @ - promo, !.cash = @ - moved]
  BY DEF AfterForfeit
<1>4. promo > 0 => promo <= promo_vault.outstanding /\ moved <= promo_vault.cash
  BY DEF CanForfeit, CanRelease
<1> HIDE DEF promo, moved
<1>5. CASE promo = 0
  <2>1. moved = 0 BY <1>2, <1>5
  <2>2. promo_vault' = [promo_vault EXCEPT !.outstanding = @ - 0, !.cash = @ - 0]
    BY <1>3, <1>5, <2>1
  <2>3. promo_vault.outstanding - 0 = promo_vault.outstanding
        /\ promo_vault.cash - 0 = promo_vault.cash
    BY <1>1 DEF PromoVault
  <2>4. promo_vault' = promo_vault
    BY <1>1, <2>2, <2>3 DEF PromoVault
  <2> QED BY <2>4
<1>6. CASE promo > 0
  <2>1. /\ promo_vault'.outstanding = promo_vault.outstanding - promo
        /\ promo_vault'.cash = promo_vault.cash - moved
        /\ promo_vault'.unissued = promo_vault.unissued
    BY <1>1, <1>3 DEF PromoVault
  <2>2. promo_vault.outstanding \in Nat /\ promo_vault.cash \in Nat
    BY <1>1 DEF PromoVault
  <2>3. /\ promo_vault.outstanding - promo \in Nat
        /\ promo_vault.outstanding - promo < promo_vault.outstanding
        /\ promo_vault.outstanding - (promo_vault.outstanding - promo) = promo
    BY <1>1, <1>4, <1>6, <2>2
  <2>4. /\ promo_vault.cash - moved \in Nat
        /\ promo_vault.cash - moved <= promo_vault.cash
        /\ promo_vault.cash - (promo_vault.cash - moved) = moved
    BY <1>2, <1>4, <1>6, <2>2
  <2>5. promo_vault.cash - promo_vault'.cash <= promo_vault.outstanding - promo_vault'.outstanding
    BY <1>2, <2>1, <2>3, <2>4
  <2> QED BY <2>1, <2>3, <2>4, <2>5 DEF Ledger!Forfeit
<1> QED BY <1>1, <1>5, <1>6

\* Lending's promo instructions are steps of the ledger.
LEMMA PromoStepKeepsLedger ==
  ASSUME TypeOK, NEW b \in Borrowers, PromoStep(b)
  PROVE  Ledger!Grant \/ Ledger!Release \/ UNCHANGED promo_vault
<1>1. promo_vault \in PromoVault /\ position[b].promo_balance \in Nat
  BY DEF TypeOK, Position, PromoVault
<1>2. ASSUME NEW amount \in PromoAmounts, RedeemPromo(b, amount) PROVE Ledger!Grant
  <2>1. amount \in Nat BY InputsAreNaturals
  <2>2. amount > 0 /\ amount <= promo_vault.unissued BY <1>2 DEF RedeemPromo
  <2>3. promo_vault.unissued \in Nat /\ promo_vault.outstanding \in Nat BY <1>1 DEF PromoVault
  <2>4. /\ promo_vault'.outstanding = promo_vault.outstanding + amount
        /\ promo_vault'.unissued = promo_vault.unissued - amount
        /\ promo_vault'.cash = promo_vault.cash
    BY <1>1, <1>2 DEF RedeemPromo, PromoVault
  <2>5. /\ promo_vault.unissued - amount \in Nat
        /\ promo_vault.outstanding + amount \in Nat
        /\ promo_vault.outstanding + amount > promo_vault.outstanding
        /\ (promo_vault.outstanding + amount) + (promo_vault.unissued - amount)
              = promo_vault.outstanding + promo_vault.unissued
    BY <2>1, <2>2, <2>3
  <2> QED BY <2>4, <2>5 DEF Ledger!Grant, Ledger!Committed
<1>3. CASE ExpirePromo(b)
  BY <1>1, <1>3, ReleaseStep DEF ExpirePromo, CanRelease
<1>4. ASSUME NEW view \in PriceViews, RevokePromo(b, view)
      PROVE  Ledger!Release \/ UNCHANGED promo_vault
  BY <1>1, <1>4, ReleaseStep DEF RevokePromo, CanRelease
<1> QED BY <1>2, <1>3, <1>4 DEF PromoStep

\* Lending's loan instructions are steps of the ledger.
LEMMA LoanStepKeepsLedger ==
  ASSUME TypeOK, NEW b \in Borrowers, LoanStep(b)
  PROVE  Ledger!Release \/ Ledger!Forfeit \/ UNCHANGED promo_vault
<1>1. promo_vault \in PromoVault /\ position[b].promo_balance \in Nat
  BY DEF TypeOK, Position, PromoVault
<1>2. ASSUME NEW amount \in LoanAmounts, NEW tenure \in Tenures, NEW view \in PriceViews,
             TakeLoan(b, amount, tenure, view)
      PROVE  Ledger!Release \/ UNCHANGED promo_vault
  <2> DEFINE expired == IF PromoDue(position[b]) THEN position[b].promo_balance ELSE 0
  <2>1. promo_vault' = [promo_vault EXCEPT !.outstanding = @ - expired]
    BY <1>2 DEF TakeLoan
  <2>2. expired > 0 => expired <= promo_vault.outstanding
    BY <1>2 DEF TakeLoan, CanRelease
  <2>3. expired \in Nat BY <1>1
  <2> HIDE DEF expired
  <2> QED BY <1>1, <2>1, <2>2, <2>3, ReleaseStep
<1>3. ASSUME NEW id, NEW amount, RepayLoan(b, id, amount) PROVE UNCHANGED promo_vault
  BY <1>3 DEF RepayLoan
<1>4. ASSUME NEW id, NEW a, NEW amount, NEW view, NEW recorded,
             Liquidate(b, id, a, amount, view, recorded)
      PROVE  Ledger!Forfeit \/ UNCHANGED promo_vault
  <2>1. CanForfeit(position[b]) /\ promo_vault' = AfterForfeit(position[b])
    BY <1>4 DEF Liquidate
  <2> QED BY <2>1, ForfeitStep
<1>5. ASSUME NEW id, NEW view, WriteOffLoan(b, id, view)
      PROVE  Ledger!Forfeit \/ UNCHANGED promo_vault
  <2>1. CanForfeit(position[b]) /\ promo_vault' = AfterForfeit(position[b])
    BY <1>5 DEF WriteOffLoan
  <2> QED BY <2>1, ForfeitStep
<1> QED BY <1>2, <1>3, <1>4, <1>5 DEF LoanStep

\* A market starts with a ledger in order.
LEMMA InitKeepsLedger == Init => Ledger!Init
  BY SlotsAndUnits DEF Init, Ledger!Init, Ledger!Backed, Ledger!Committed

\* Every step of Lending is a step of the ledger or a stutter.
LEMMA NextKeepsLedger == TypeOK /\ [Next]_vars => [Ledger!Next]_(Ledger!ledger)
<1> SUFFICES ASSUME TypeOK, [Next]_vars
             PROVE  Ledger!Next \/ UNCHANGED promo_vault
  BY DEF Ledger!ledger
<1>1. promo_vault \in PromoVault
  BY DEF TypeOK, PromoVault
<1>2. CASE LenderStep
  BY <1>2 DEF LenderStep, DepositLiquidity, WithdrawLiquidity
<1>3. ASSUME NEW b \in Borrowers, ClosePosition(b)
      PROVE  Ledger!Release \/ UNCHANGED promo_vault
  <2>1. position[b].promo_balance \in Nat BY DEF TypeOK, Position
  <2> QED BY <1>1, <1>3, <2>1, ReleaseStep DEF ClosePosition, CanRelease
<1>4. ASSUME NEW b \in Borrowers, OpenPosition(b) \/ CollateralStep(b)
      PROVE  UNCHANGED promo_vault
  BY <1>4 DEF OpenPosition, CollateralStep, DepositCollateral, WithdrawCollateral
<1>5. CASE BorrowerStep
  BY <1>3, <1>4, <1>5, PromoStepKeepsLedger, LoanStepKeepsLedger DEF BorrowerStep, Ledger!Next
<1>6. CASE AdminStep
  BY <1>6 DEF AdminStep, HarvestReserve, SweepMarketExcess, UpdateMarketParams,
              SetMarketPaused, SetCollateralPaused, SetCollateralBorrowPaused,
              UpdateCollateralParams
<1>7. CASE EnvironmentStep
  BY <1>7 DEF EnvironmentStep, Tick, Donate, Clawback, ClawbackMarket
<1>8. CASE UNCHANGED vars
  BY <1>8 DEF vars
<1> QED BY <1>2, <1>5, <1>6, <1>7, <1>8 DEF Next

\* The handlers that move a position's promo keep the promise of the vault: what
\* was promised to a position is released or paid out for it, never withdrawn.
THEOREM LendingKeepsTheLedger == Spec => KeepsTheLedger
<1>1. Init => Ledger!Init BY InitKeepsLedger
<1>2. TypeOK /\ [Next]_vars => [Ledger!Next]_(Ledger!ledger) BY NextKeepsLedger
<1> QED BY <1>1, <1>2, TypeCorrect, PTL DEF Spec, KeepsTheLedger, Ledger!Spec

\* Promising less, of no more cash than that frees, keeps what is promised covered.
LEMMA PromisingLess ==
  ASSUME NEW a \in Nat, NEW b \in Nat, NEW c \in Nat, NEW a2 \in Nat, NEW c2 \in Nat,
         a + b <= c, a2 < a, c2 <= c, c - c2 <= a - a2
  PROVE  a2 + b <= c2
  BY SMT

\* Promising less of the same cash keeps what is promised covered.
LEMMA PromisingLessOfTheSame ==
  ASSUME NEW a \in Nat, NEW b \in Nat, NEW c \in Nat, NEW a2 \in Nat, a + b <= c, a2 < a
  PROVE  a2 + b <= c /\ b + a2 <= c
  BY SMT

\* No order of funding, committing, granting, releasing, forfeiting and
\* withdrawing promises more promo than the ledger holds
\* (PromoVault::require_invariant).
THEOREM LedgerStaysBacked == Ledger!Spec => []Ledger!Backed
<1>1. Ledger!Init => Ledger!Backed
  BY DEF Ledger!Init
<1>2. Ledger!Backed /\ [Ledger!Next]_(Ledger!ledger) => Ledger!Backed'
  <2> SUFFICES ASSUME Ledger!Backed, [Ledger!Next]_(Ledger!ledger)
               PROVE  Ledger!Backed'
    OBVIOUS
  <2> USE DEF Ledger!Backed, Ledger!Committed
  <2>1. CASE Ledger!Fund
    BY <2>1 DEF Ledger!Fund
  <2>2. CASE Ledger!TakeFree
    BY <2>2 DEF Ledger!TakeFree
  <2>3. CASE Ledger!Commit
    BY <2>3 DEF Ledger!Commit
  <2>4. CASE Ledger!Return
    <3>1. promo_vault'.unissued \in Nat /\ promo_vault'.unissued < promo_vault.unissued
      BY <2>4 DEF Ledger!Return
    <3>2. promo_vault'.cash = promo_vault.cash /\ promo_vault'.outstanding = promo_vault.outstanding
      BY <2>4 DEF Ledger!Return
    <3>3. promo_vault.unissued + promo_vault.outstanding <= promo_vault.cash
      OBVIOUS
    <3>4. promo_vault.outstanding + promo_vault'.unissued <= promo_vault.cash
      BY <3>1, <3>3, PromisingLessOfTheSame
    <3> QED
      BY <3>1, <3>2, <3>4
  <2>5. CASE Ledger!Grant
    BY <2>5 DEF Ledger!Grant
  <2>6. CASE Ledger!Release
    <3>1. promo_vault'.outstanding \in Nat /\ promo_vault'.outstanding < promo_vault.outstanding
      BY <2>6 DEF Ledger!Release
    <3>2. promo_vault'.cash = promo_vault.cash /\ promo_vault'.unissued = promo_vault.unissued
      BY <2>6 DEF Ledger!Release
    <3>3. promo_vault'.outstanding + promo_vault.unissued <= promo_vault.cash
      BY <3>1, PromisingLessOfTheSame
    <3> QED
      BY <3>1, <3>2, <3>3
  <2>7. CASE Ledger!Forfeit
    <3>1. /\ promo_vault'.outstanding \in Nat
          /\ promo_vault'.outstanding < promo_vault.outstanding
          /\ promo_vault'.cash \in Nat /\ promo_vault'.cash <= promo_vault.cash
          /\ promo_vault.cash - promo_vault'.cash
                <= promo_vault.outstanding - promo_vault'.outstanding
      BY <2>7 DEF Ledger!Forfeit
    <3>2. promo_vault'.unissued = promo_vault.unissued
      BY <2>7 DEF Ledger!Forfeit
    <3>3. promo_vault'.outstanding + promo_vault.unissued <= promo_vault'.cash
      BY <3>1, PromisingLess
    <3> QED
      BY <3>1, <3>2, <3>3
  <2>8. CASE UNCHANGED Ledger!ledger
    BY <2>8 DEF Ledger!ledger
  <2> QED
    BY <2>1, <2>2, <2>3, <2>4, <2>5, <2>6, <2>7, <2>8 DEF Ledger!Next
<1> QED
  BY <1>1, <1>2, PTL DEF Ledger!Spec

\* In every reachable state of the market, what is promised to positions and to
\* campaigns is recorded as held.
THEOREM PromoStaysBacked == Spec => []Ledger!Backed
  BY LedgerStaysBacked, LendingKeepsTheLedger, PTL DEF KeepsTheLedger

-----------------------------------------------------------------------------
(* What a step does to a position's line, promo and credit record *)

\* Dividing more gives at least as much.
LEMMA DivMonotone ==
  ASSUME NEW a \in Nat, NEW b \in Nat, NEW d \in Nat \ {0}, a <= b PROVE a \div d <= b \div d
  BY SMT

\* What a holding is worth is a natural number.
LEMMA HoldingValueNat ==
  ASSUME TypeOK, NEW b \in Borrowers, NEW view \in PriceViews,
         NEW a \in UsedCollateral(position[b])
  PROVE  HoldingValue(CollateralValues(position[b], view)[a]) \in Nat
<1> DEFINE c == CollateralValues(position[b], view)[a]
<1>1. a \in Assets /\ position[b].collateral[a] \in Nat
  BY DEF TypeOK, Position, UsedCollateral
<1>2. /\ c.amount = position[b].collateral[a]
      /\ c.unit = AssetUnit[a]
      /\ c.multiplier = view.asset[a].multiplier
      /\ c.price = view.asset[a]
  BY DEF CollateralValues
<1>3. c.amount \in Nat /\ c.unit \in Nat \ {0} /\ c.multiplier \in Nat
  BY <1>1, <1>2, ParamsAreValid, PricesArePositive
<1>4. c.price.price \in Nat /\ c.price.conf \in Nat
  BY <1>1, <1>2, PricesArePositive
<1> HIDE DEF c
<1>5. MulDivFloor(c.amount, c.multiplier, MULTIPLIER_SCALE) \in Nat
  BY <1>3, FloorNat, ScalesArePositive
<1>6. Lower(c.price) \in Nat
  BY <1>4 DEF Lower, SatSub
<1>7. HoldingValue(c) \in Nat
  BY <1>3, <1>5, <1>6, FloorNat DEF HoldingValue, TokenValue
<1> QED BY <1>7 DEF c

\* The liquidation line looks at what a holding is worth and at its threshold,
\* which it grows with, and at nothing else of a collateral: not at whether it
\* still lends.
LEMMA LineGrowsWithThresholds ==
  ASSUME NEW C, NEW D, NEW promo \in Nat, NEW capBps \in Nat, IsFiniteSet(DOMAIN C),
         DOMAIN D = DOMAIN C,
         \A a \in DOMAIN C :
            /\ HoldingValue(C[a]) \in Nat
            /\ HoldingValue(D[a]) = HoldingValue(C[a])
            /\ C[a].liquidation_threshold_bps \in Nat
            /\ D[a].liquidation_threshold_bps \in Nat
            /\ C[a].liquidation_threshold_bps <= D[a].liquidation_threshold_bps
  PROVE  /\ LiquidationLine(C, promo, capBps) \in Nat
         /\ LiquidationLine(D, promo, capBps) \in Nat
         /\ LiquidationLine(C, promo, capBps) <= LiquidationLine(D, promo, capBps)
<1> DEFINE S == DOMAIN C
           parts(B) == [a \in DOMAIN B |->
                          MulDivFloor(HoldingValue(B[a]), B[a].liquidation_threshold_bps, BPS)]
           caps(B) == [a \in DOMAIN B |-> MulDivFloor(HoldingValue(B[a]), capBps, BPS)]
           none == [a \in S |-> 0]
<1>1. caps(D) = caps(C)
  OBVIOUS
<1>2. \A B : LiquidationLine(B, promo, capBps) =
               SumOver(parts(B), DOMAIN B) + Min2(promo, SumOver(caps(B), DOMAIN B))
  BY DEF LiquidationLine, SumOfParts
<1>3. \A a \in S : /\ parts(C)[a] \in Nat /\ parts(D)[a] \in Nat /\ caps(C)[a] \in Nat
                   /\ parts(C)[a] <= parts(D)[a]
  <2> TAKE a \in S
  <2> DEFINE worth == HoldingValue(C[a])
             old == C[a].liquidation_threshold_bps
             new == D[a].liquidation_threshold_bps
  <2>1. /\ worth \in Nat /\ old \in Nat /\ new \in Nat /\ old <= new
        /\ HoldingValue(D[a]) = worth
    OBVIOUS
  <2>2. /\ parts(C)[a] = MulDivFloor(worth, old, BPS)
        /\ parts(D)[a] = MulDivFloor(worth, new, BPS)
        /\ caps(C)[a] = MulDivFloor(worth, capBps, BPS)
    OBVIOUS
  <2> HIDE DEF worth, old, new, parts, caps
  <2>3. worth * old \in Nat /\ worth * new \in Nat
    BY <2>1, ProductNat
  <2>4. worth * old <= worth * new
    <3>1. new - old \in Nat /\ new = old + (new - old)
      BY <2>1
    <3>2. worth * (new - old) \in Nat
      BY <2>1, <3>1, ProductNat
    <3>3. worth * new = worth * old + worth * (new - old)
      BY <2>1, <3>1
    <3> QED BY <2>3, <3>2, <3>3
  <2>5. MulDivFloor(worth, old, BPS) <= MulDivFloor(worth, new, BPS)
    BY <2>3, <2>4, DivMonotone, ScalesArePositive DEF MulDivFloor
  <2>6. /\ MulDivFloor(worth, old, BPS) \in Nat /\ MulDivFloor(worth, new, BPS) \in Nat
        /\ MulDivFloor(worth, capBps, BPS) \in Nat
    BY <2>1, FloorNat, ScalesArePositive
  <2> QED BY <2>2, <2>5, <2>6
<1>4. \A a \in S : none[a] = 0
  OBVIOUS
<1> HIDE DEF parts, caps, none
<1>5. /\ SumOver(parts(C), S) \in Nat /\ SumOver(parts(D), S) \in Nat
      /\ SumOver(caps(C), S) \in Nat /\ SumOver(none, S) \in Nat
  <2>1. \A a \in S : none[a] \in Nat
    BY <1>4
  <2> QED BY <1>3, <2>1, SumIsNat
<1>6. SumOver(parts(C), S) <= SumOver(parts(D), S) + SumOver(none, S) * 0
  <2>1. \A a \in S : /\ parts(D)[a] \in Nat /\ parts(C)[a] \in Nat /\ none[a] \in Nat
                     /\ parts(C)[a] <= parts(D)[a] + none[a] * 0
    BY <1>3, <1>4
  <2> QED BY <2>1, SumOfDominated
<1>7. SumOver(parts(C), S) <= SumOver(parts(D), S)
  BY <1>5, <1>6
<1>8. Min2(promo, SumOver(caps(C), S)) \in Nat
  BY <1>5 DEF Min2
<1> QED BY <1>1, <1>2, <1>5, <1>7, <1>8

\* At given prices and time, a position left alone is liquidatable after a step
\* only if it was before, unless a threshold of what it holds fell.
LEMMA OnlyThresholdsCount ==
  ASSUME TypeOK, TypeOK', NEW b \in Borrowers, NEW view \in PriceViews,
         now' = now, position'[b] = position[b],
         \A a \in UsedCollateral(position[b]) :
            ~(collateral'[a].params.liquidation_threshold_bps
                 < collateral[a].params.liquidation_threshold_bps),
         LiquidatableAt(b, view)'
  PROVE  LiquidatableAt(b, view)
<1> DEFINE p == position[b]
           C == CollateralValues(p, view)
           promo == TokenValue(p.promo_balance, CNGN_UNIT, Lower(view.ngn))
           debt == TokenValueCeil(TotalDebt(p) + 0, CNGN_UNIT, Upper(view.ngn))
<1>1. LiquidatableAt(b, view) <=> debt > LiquidationLine(C, promo, PROMO_CAP_BPS)
  BY DEF LiquidatableAt, IsLiquidatable, PositionHealth, ComputeHealth
<1>2. debt' > LiquidationLine(C', promo', PROMO_CAP_BPS)
  BY DEF LiquidatableAt, IsLiquidatable, PositionHealth, ComputeHealth
<1>3. debt' = debt /\ promo' = promo
  BY DEF TotalDebt
<1>4. /\ DOMAIN C = UsedCollateral(p)
      /\ DOMAIN C' = DOMAIN C
      /\ \A a \in DOMAIN C :
            /\ HoldingValue(C[a]) \in Nat
            /\ HoldingValue(C'[a]) = HoldingValue(C[a])
  BY HoldingValueNat DEF CollateralValues, HoldingValue, UsedCollateral
<1>5. \A a \in DOMAIN C :
        /\ C[a].liquidation_threshold_bps = collateral[a].params.liquidation_threshold_bps
        /\ C'[a].liquidation_threshold_bps = collateral'[a].params.liquidation_threshold_bps
  BY DEF CollateralValues, UsedCollateral
<1>6. \A a \in Assets :
        /\ collateral[a].params.liquidation_threshold_bps \in Nat
        /\ collateral'[a].params.liquidation_threshold_bps \in Nat
  BY ScalesArePositive DEF TypeOK, CollateralParams
<1>7. UsedCollateral(p) \subseteq Assets /\ IsFiniteSet(UsedCollateral(p))
  BY FiniteParties, FS_Subset DEF UsedCollateral
<1>8. promo \in Nat
  <2>1. p.promo_balance \in Nat
    BY DEF TypeOK, Position
  <2>2. Lower(view.ngn) \in Nat
    BY PricesArePositive DEF Lower, SatSub
  <2> QED BY <2>1, <2>2, FloorNat, SlotsAndUnits DEF TokenValue
<1>9. debt \in Nat
  <2>1. IsFiniteSet(LoanSlots)
    BY FS_Interval, SlotsAndUnits DEF LoanSlots
  <2>2. \A i \in LoanSlots : p.loans[i] \in Loan /\ now \in Nat
    BY DEF TypeOK, Position
  <2>3. \A i \in LoanSlots : (IF p.loans[i].active
                               THEN Total(LoanBalance(p.loans[i], now)) ELSE 0) \in Nat
    BY <2>2, TotalType
  <2>4. TotalDebt(p) \in Nat
    BY <2>1, <2>3, SumIsNat DEF TotalDebt
  <2>5. Upper(view.ngn) \in Nat
    BY PricesArePositive DEF Upper
  <2> QED BY <2>4, <2>5, CeilNat, SlotsAndUnits DEF TokenValueCeil
<1> HIDE DEF C, debt, promo
<1>10. \A a \in DOMAIN C :
        /\ C[a].liquidation_threshold_bps \in Nat
        /\ C'[a].liquidation_threshold_bps \in Nat
        /\ C[a].liquidation_threshold_bps <= C'[a].liquidation_threshold_bps
  BY <1>4, <1>5, <1>6, <1>7
<1>11. /\ LiquidationLine(C, promo, PROMO_CAP_BPS) \in Nat
       /\ LiquidationLine(C', promo, PROMO_CAP_BPS) \in Nat
       /\ LiquidationLine(C, promo, PROMO_CAP_BPS) <= LiquidationLine(C', promo, PROMO_CAP_BPS)
  <2>1. PROMO_CAP_BPS \in Nat
    BY SlotsAndUnits, ScalesArePositive
  <2> QED BY <1>4, <1>7, <1>8, <1>10, <2>1, LineGrowsWithThresholds
<1> QED BY <1>1, <1>2, <1>3, <1>9, <1>11

\* No pause, no change of market terms, no other change of an asset's parameters
\* and no other position's business makes a position liquidatable: with the clock
\* standing still only its own handlers and a lower threshold do.
THEOREM OnlyThresholdsSinkPositions == Spec => OnlyALowerThresholdSinksAPosition
<1>1. TypeOK /\ TypeOK' /\ [Next]_vars =>
        [ \A b \in Borrowers, view \in PriceViews :
            /\ UNCHANGED <<now, position[b]>>
            /\ HasActiveLoans(position[b])
            /\ ~LiquidatableAt(b, view)
            /\ LiquidatableAt(b, view)'
            => \E a \in UsedCollateral(position[b]) :
                  collateral'[a].params.liquidation_threshold_bps
                     < collateral[a].params.liquidation_threshold_bps ]_vars
  BY OnlyThresholdsCount
<1> QED BY <1>1, TypeCorrect, PTL DEF Spec, OnlyALowerThresholdSinksAPosition

-----------------------------------------------------------------------------
(* What a share is worth *)

\* mul_div_ceil rounds up.
LEMMA CeilGe ==
  ASSUME NEW a \in Nat, NEW b \in Nat, NEW d \in Nat \ {0} PROVE a * b <= MulDivCeil(a, b, d) * d
<1> DEFINE n == a * b + d - 1
<1>1. a * b \in Nat BY ProductNat
<1>2. n \in Nat BY <1>1
<1> HIDE DEF n
<1>3. n = (n \div d) * d + (n % d) /\ n % d \in Nat /\ n % d <= d - 1
  BY <1>2, DivMod, ModNat, SMT
<1>4. n \div d \in Nat BY <1>2, DivNat
<1>5. (n \div d) * d \in Nat BY <1>4, ProductNat
<1>6. n = a * b + d - 1 BY DEF n
<1>7. a * b <= (n \div d) * d BY <1>1, <1>3, <1>5, <1>6
<1> QED BY <1>7 DEF MulDivCeil, n

\* Accrual moves the interest and the time of it, and nothing else that counts.
LEMMA AccrueKeeps ==
  ASSUME NEW m \in Market, now \in Nat
  PROVE  /\ Accrue(m).total_borrows = m.total_borrows
         /\ Accrue(m).total_shares = m.total_shares
         /\ Accrue(m).total_bad_debt = m.total_bad_debt
         /\ Accrue(m).last_accrual_ts >= now
<1> DEFINE r == AccrueLpInterest(m.lp_rate_product, now - m.last_accrual_ts, m.accrual_remainder)
<1>1. CASE now <= m.last_accrual_ts
  BY <1>1 DEF Accrue, Market
<1>2. CASE ~(now <= m.last_accrual_ts)
  <2> HIDE DEF r
  <2>1. Accrue(m) = [m EXCEPT !.accrued_interest = @ + r.interest,
                              !.accrual_remainder = r.remainder,
                              !.last_accrual_ts = now]
    BY <1>2 DEF Accrue, r
  <2> QED BY <2>1 DEF Market
<1> QED BY <1>1, <1>2

\* A market brought up to the clock is measured as it is.
LEMMA AssetsWhenCurrent ==
  ASSUME market' \in Market, now' \in Nat, market'.last_accrual_ts >= now'
  PROVE  /\ AssetsOf(market)' = TotalAssets(market') + VIRTUAL_ASSETS
         /\ TotalAssets(market') \in Int /\ AssetsOf(market)' \in Int
<1>1. now' <= market'.last_accrual_ts BY DEF Market
<1>2. Accrue(market)' = market' BY <1>1 DEF Accrue
<1>3. TotalAssets(market') \in Int BY DEF TotalAssets, Market
<1> QED BY <1>2, <1>3, ScalesArePositive DEF AssetsOf, TotalAssets

\* The assets are those of the accrued market, and an integer.
LEMMA AssetsType ==
  ASSUME TypeOK
  PROVE  /\ AssetsOf(market) \in Int
         /\ AssetsOf(market) = TotalAssets(Accrue(market)) + VIRTUAL_ASSETS
         /\ TotalAssets(Accrue(market)) \in Int
         /\ SharesOf(market) \in Nat \ {0}
<1>1. market \in Market /\ Accrue(market) \in Market BY AccrueType DEF TypeOK
<1>2. TotalAssets(Accrue(market)) \in Int
  <2> DEFINE m == Accrue(market)
  <2> HIDE DEF m
  <2>1. m \in Market BY <1>1 DEF m
  <2>2. TotalAssets(m) \in Int BY <2>1 DEF TotalAssets, Market
  <2> QED BY <2>2 DEF m
<1>3. market.total_shares \in Nat BY <1>1 DEF Market
<1> QED BY <1>2, <1>3, ScalesArePositive DEF AssetsOf, SharesOf

\* The property for one step: a share is worth no less.
SharesKeepTheirWorth ==
  ~(AssetsOf(market)' * SharesOf(market) < AssetsOf(market) * SharesOf(market)')

\* Without a trade, shares keep their worth when the assets do not shrink.
LEMMA GrowingAssetsKeepTheWorth ==
  ASSUME TypeOK, market'.total_shares = market.total_shares,
         AssetsOf(market)' \in Int, AssetsOf(market)' >= AssetsOf(market)
  PROVE  SharesKeepTheirWorth
<1> DEFINE a == AssetsOf(market)
           b == AssetsOf(market)'
           s == SharesOf(market)
<1>1. a \in Int /\ s \in Nat BY AssetsType
<1>2. b \in Int OBVIOUS
<1>3. SharesOf(market)' = s BY DEF SharesOf
<1>4. b >= a OBVIOUS
<1> HIDE DEF a, b, s
<1>5. b * s >= a * s /\ b * s \in Int /\ a * s \in Int BY <1>1, <1>2, <1>4, SMT
<1>6. ~(b * s < a * s) BY <1>5
<1> QED BY <1>3, <1>6 DEF a, b, s, SharesKeepTheirWorth

\* The reserve leaves the lenders at least what the part x of a loan's principal
\* accrued to them, if the interest paid covers what that part owes at the loan's rate.
LEMMA ReserveLeavesTheLenders ==
  ASSUME NEW loan \in Loan, NEW x \in Nat, NEW interest \in Nat, now \in Nat,
         x * loan.rate_bps * SecondsBetween(loan.interest_anchor, now) <= interest * (BPS * YEAR)
  PROVE  AccruedLpInterest(x, loan, now)
           <= interest - ReserveShare(interest, loan.reserve_factor_bps)
<1> DEFINE s == SecondsBetween(loan.interest_anchor, now)
           r == loan.rate_bps
           f == loan.reserve_factor_bps
           g == BPS - f
           share == ReserveShare(interest, f)
           left == interest - share
           accrued == AccruedLpInterest(x, loan, now)
<1>1. /\ s \in Nat /\ r \in Nat /\ f \in 0..BPS /\ f \in Nat /\ g \in Nat
      /\ BPS \in Nat \ {0} /\ YEAR \in Nat \ {0}
  <2>1. loan.interest_anchor \in Nat /\ r \in 0..BPS /\ f \in 0..BPS BY DEF Loan
  <2>2. s \in Nat BY <2>1, SecondsNat
  <2> HIDE DEF s, r, f
  <2> QED BY <2>1, <2>2, ScalesArePositive
<1>2. share \in Nat /\ share <= interest /\ share * BPS <= interest * f
  <2>1. interest * f \in Nat BY <1>1, ProductNat
  <2>2. share * BPS <= interest * f
    BY <1>1, <2>1, DivLe DEF ReserveShare, MulDivFloor
  <2> QED BY <1>1, <2>2, ReserveShareLe
<1>3. /\ accrued \in Nat
      /\ accrued * AccrualUnit <= (x * r * g) * s
  <2>1. x * r * g \in Nat /\ (x * r * g) * s \in Nat
    BY <1>1, ProductNat
  <2> QED BY <2>1, AccruedNat, UnitsType, DivLe DEF AccruedLpInterest, MulDivFloor, LpContribution
<1>4. x * r * s <= interest * (BPS * YEAR)
  OBVIOUS
<1> HIDE DEF s, r, f, g, share, accrued
<1>5. left \in Nat BY <1>2
<1>6. interest * g <= left * BPS
  <2>1. interest * g = interest * BPS - interest * f BY <1>1 DEF g
  <2>2. left * BPS = interest * BPS - share * BPS BY <1>1, <1>2
  <2>3. interest * BPS \in Nat /\ interest * f \in Nat /\ share * BPS \in Nat
    BY <1>1, <1>2, ProductNat
  <2> HIDE DEF left
  <2> QED BY <1>2, <2>1, <2>2, <2>3
<1> HIDE DEF left
<1>7. (x * r * g) * s <= (left * BPS) * (BPS * YEAR)
  <2>1. (x * r * g) * s = (x * r * s) * g BY <1>1, SMT
  <2>2. x * r * s \in Nat /\ interest * (BPS * YEAR) \in Nat /\ BPS * YEAR \in Nat
        /\ interest * g \in Nat /\ left * BPS \in Nat
    BY <1>1, <1>5, ProductNat
  <2>3. (x * r * s) * g <= (interest * (BPS * YEAR)) * g
    <3> DEFINE u == x * r * s
               v == interest * (BPS * YEAR)
    <3> HIDE DEF u, v
    <3>1. u \in Nat /\ v \in Nat /\ u <= v /\ g \in Nat BY <1>1, <1>4, <2>2 DEF u, v
    <3>2. u * g <= v * g BY <3>1, SMT
    <3> QED BY <3>2 DEF u, v
  <2>4. (interest * (BPS * YEAR)) * g = (interest * g) * (BPS * YEAR) BY <1>1, SMT
  <2>5. (interest * g) * (BPS * YEAR) <= (left * BPS) * (BPS * YEAR)
    <3> DEFINE u == interest * g
               v == left * BPS
               w == BPS * YEAR
    <3> HIDE DEF u, v, w
    <3>1. u \in Nat /\ v \in Nat /\ u <= v /\ w \in Nat BY <1>6, <2>2 DEF u, v, w
    <3>2. u * w <= v * w BY <3>1, SMT
    <3> QED BY <3>2 DEF u, v, w
  <2> DEFINE a == (x * r * g) * s
             b == (x * r * s) * g
             c == (interest * (BPS * YEAR)) * g
             d == (interest * g) * (BPS * YEAR)
             e == (left * BPS) * (BPS * YEAR)
  <2>6. a = b /\ b <= c /\ c = d /\ d <= e BY <2>1, <2>3, <2>4, <2>5
  <2>7. b \in Nat /\ d \in Nat /\ e \in Nat BY <1>1, <2>2, ProductNat
  <2> HIDE DEF a, b, c, d, e
  <2>8. a <= e BY <2>6, <2>7
  <2> QED BY <2>8 DEF a, e
<1>8. (left * BPS) * (BPS * YEAR) = left * AccrualUnit
  BY <1>1, <1>5, SMT DEF AccrualUnit
<1>9. accrued * AccrualUnit <= left * AccrualUnit
  <2>1. accrued * AccrualUnit \in Nat /\ left * AccrualUnit \in Nat /\ (x * r * g) * s \in Nat
    BY <1>1, <1>3, <1>5, UnitsType, ProductNat
  <2> HIDE DEF AccrualUnit
  <2> QED BY <1>3, <1>7, <1>8, <2>1
<1>10. accrued <= left
  <2> HIDE DEF AccrualUnit
  <2> QED BY <1>3, <1>5, <1>9, UnitsType, SMT
<1> QED BY <1>10 DEF accrued, left, share, f

\* What is due on a loan covers its principal's interest at the loan's rate, before
\* maturity and after.
LEMMA DueCoversTheInterest ==
  ASSUME NEW loan \in Loan, NEW t \in Nat
  PROVE  loan.principal * loan.rate_bps * SecondsBetween(loan.interest_anchor, t)
           <= Due(LoanBalance(loan, t)) * (BPS * YEAR)
<1> DEFINE maturity == loan.originated_at + loan.tenure_seconds
           rated == loan.principal * loan.rate_bps
           s == SecondsBetween(loan.interest_anchor, t)
           s1 == SecondsBetween(loan.interest_anchor, Min2(t, maturity))
           s2 == SecondsBetween(Max2(maturity, loan.interest_anchor), t)
           unit == BPS * YEAR
           interest == MulDivCeil(rated, s1, unit)
           base == (loan.principal + interest) * (loan.rate_bps + loan.penalty_rate_bps)
           penalty == MulDivCeil(base, s2, unit)
<1>1. /\ loan.principal \in Nat /\ loan.rate_bps \in Nat /\ loan.penalty_rate_bps \in Nat
      /\ loan.interest_anchor \in Nat /\ maturity \in Nat
  BY ScalesArePositive DEF Loan
<1>2. rated \in Nat BY <1>1, ProductNat
<1>3. s \in Nat /\ s1 \in Nat /\ s2 \in Nat /\ s <= s1 + s2
  BY <1>1 DEF SecondsBetween, Min2, Max2
<1>4. unit \in Nat \ {0} BY UnitsType
<1>5. Due(LoanBalance(loan, t)) = interest + penalty
  BY DEF LoanBalance, Due
<1> HIDE DEF maturity, s, s1, s2, unit
<1>6. interest \in Nat /\ rated * s1 <= interest * unit
  <2> HIDE DEF rated
  <2> QED BY <1>2, <1>3, <1>4, CeilNat, CeilGe
<1> HIDE DEF interest
<1>7. base \in Nat /\ rated <= base
  <2>1. \A a, b, c, d \in Nat : a * c \in Nat /\ (a + b) * (c + d) \in Nat
                              /\ a * c <= (a + b) * (c + d)
    BY SMT
  <2> QED BY <1>1, <1>6, <2>1
<1> HIDE DEF rated, base
<1>8. penalty \in Nat /\ base * s2 <= penalty * unit
  BY <1>3, <1>4, <1>7, CeilNat, CeilGe
<1> HIDE DEF penalty
<1>9. rated * s <= (interest + penalty) * unit
  <2>1. rated * s2 <= base * s2 BY <1>2, <1>3, <1>7, SMT
  <2>2. rated * s <= rated * s1 + rated * s2
    <3>1. rated * s <= rated * (s1 + s2) BY <1>2, <1>3, SMT
    <3>2. rated * (s1 + s2) = rated * s1 + rated * s2 BY <1>2, <1>3, SMT
    <3> QED BY <3>1, <3>2
  <2>3. (interest + penalty) * unit = interest * unit + penalty * unit
    BY <1>4, <1>6, <1>8, SMT
  <2>4. /\ rated * s \in Nat /\ rated * s1 \in Nat /\ rated * s2 \in Nat /\ base * s2 \in Nat
        /\ interest * unit \in Nat /\ penalty * unit \in Nat
    BY <1>2, <1>3, <1>4, <1>6, <1>7, <1>8, ProductNat
  <2> QED BY <1>6, <1>8, <2>1, <2>2, <2>3, <2>4
<1> QED BY <1>5, <1>9 DEF rated, s, unit

\* Settling a payment whose interest covers what it releases shrinks no assets.
LEMMA SettlingKeepsAssets ==
  ASSUME NEW m \in Market, NEW loan \in Loan, NEW on \in Nat, NEW x \in Nat, NEW interest \in Nat,
         now \in Nat,
         AccruedLpInterest(on, loan, now)
           <= interest - ReserveShare(interest, loan.reserve_factor_bps)
  PROVE  LET s == SettleLoan(m, loan, on, x, interest) IN
         /\ TotalAssets(s) >= TotalAssets(m)
         /\ s.total_shares = m.total_shares
         /\ s.total_bad_debt = m.total_bad_debt
         /\ s.last_accrual_ts = m.last_accrual_ts
<1> DEFINE s == SettleLoan(m, loan, on, x, interest)
           accrued == AccruedLpInterest(on, loan, now)
           share == ReserveShare(interest, loan.reserve_factor_bps)
           c == LpContribution(x, loan.rate_bps, loan.reserve_factor_bps)
<1>1. accrued \in Nat /\ share \in Nat
  <2>1. accrued \in Nat BY AccruedNat
  <2>2. share \in Nat BY ReserveShareLe DEF Loan
  <2> QED BY <2>1, <2>2
<1> HIDE DEF accrued, share, c
<1>2. s = [m EXCEPT !.accrued_interest = SatSub(@, accrued), !.protocol_reserve = @ + share,
                    !.total_borrows = @ - x, !.lp_rate_product = @ - c,
                    !.cash = @ + x + interest]
  BY DEF SettleLoan, accrued, share, c
<1> HIDE DEF s
<1>3. /\ s.cash = m.cash + x + interest
      /\ s.total_borrows = m.total_borrows - x
      /\ s.accrued_interest = SatSub(m.accrued_interest, accrued)
      /\ s.protocol_reserve = m.protocol_reserve + share
      /\ s.total_shares = m.total_shares
      /\ s.total_bad_debt = m.total_bad_debt
      /\ s.last_accrual_ts = m.last_accrual_ts
  BY <1>2 DEF Market
<1>4. /\ m.cash \in Nat /\ m.total_borrows \in Nat /\ m.accrued_interest \in Nat
      /\ m.protocol_reserve \in Nat
  BY DEF Market
<1>5. SatSub(m.accrued_interest, accrued) \in Nat
      /\ SatSub(m.accrued_interest, accrued) >= m.accrued_interest - accrued
  BY <1>1, <1>4 DEF SatSub
<1>6. accrued <= interest - share BY DEF accrued, share
<1>7. TotalAssets(s) >= TotalAssets(m)
  BY <1>1, <1>3, <1>4, <1>5, <1>6 DEF TotalAssets
<1> QED BY <1>3, <1>7 DEF s

\* repay_loan is worth at least what it settles.
LEMMA RepayKeepsTheWorth ==
  ASSUME TypeOK, TypeOK', NEW b \in Borrowers, NEW id \in 0..MaxLoanId,
         NEW amount \in RepayAmounts, RepayLoan(b, id, amount)
  PROVE  SharesKeepTheirWorth
<1> DEFINE m == Accrue(market)
           loan(i) == position[b].loans[i]
           due(i) == Due(LoanBalance(loan(i), now))
           paid(i) == Min2(amount, Total(LoanBalance(loan(i), now)))
<1>1. PICK i \in LoanSlots :
        /\ paid(i) >= due(i)
        /\ market' = SettleLoan(m, loan(i), loan(i).principal, paid(i) - due(i), due(i))
  BY DEF RepayLoan
<1>2. /\ m \in Market /\ m.total_shares = market.total_shares /\ m.last_accrual_ts >= now
      /\ now \in Nat /\ now' = now /\ market' \in Market
  BY AccrueType, AccrueKeeps DEF TypeOK, RepayLoan
<1>3. loan(i) \in Loan BY DEF TypeOK, Position
<1>4. loan(i).principal \in Nat BY <1>3 DEF Loan
<1>5. due(i) \in Nat /\ Total(LoanBalance(loan(i), now)) = loan(i).principal + due(i)
  BY <1>2, <1>3, BalanceType
<1>6. paid(i) \in Nat
  <2>1. amount \in Nat BY InputsAreNaturals
  <2> HIDE DEF loan, due
  <2> QED BY <1>4, <1>5, <2>1 DEF Min2
<1>7. AccruedLpInterest(loan(i).principal, loan(i), now)
        <= due(i) - ReserveShare(due(i), loan(i).reserve_factor_bps)
  BY <1>2, <1>3, <1>4, <1>5, DueCoversTheInterest, ReserveLeavesTheLenders
<1> HIDE DEF m, loan, due, paid
<1>8. paid(i) - due(i) \in Nat BY <1>1, <1>5, <1>6
<1>9. /\ TotalAssets(market') >= TotalAssets(m)
      /\ market'.total_shares = m.total_shares
      /\ market'.last_accrual_ts = m.last_accrual_ts
  BY <1>1, <1>2, <1>3, <1>4, <1>5, <1>7, <1>8, SettlingKeepsAssets
<1>10. AssetsOf(market)' = TotalAssets(market') + VIRTUAL_ASSETS /\ TotalAssets(market') \in Int
       /\ AssetsOf(market)' \in Int
  BY <1>2, <1>9, AssetsWhenCurrent
<1>11. AssetsOf(market) = TotalAssets(m) + VIRTUAL_ASSETS /\ TotalAssets(m) \in Int
  BY AssetsType DEF m
<1>12. AssetsOf(market)' >= AssetsOf(market)
  BY <1>9, <1>10, <1>11, ScalesArePositive
<1> QED BY <1>2, <1>9, <1>10, <1>12, GrowingAssetsKeepTheWorth

\* Of a payment split in the proportion of the principal to the balance, the interest
\* part covers what the principal part owes at the loan's rate.
LEMMA SplitCoversTheInterest ==
  ASSUME NEW principal \in Nat \ {0}, NEW due \in Nat, NEW paid \in Nat, NEW x \in Nat,
         NEW owed \in Nat, NEW unit \in Nat,
         x = PrincipalShare(paid, principal, principal + due), x <= paid,
         principal * owed <= due * unit
  PROVE  x * owed <= (paid - x) * unit
<1> DEFINE interest == paid - x
<1>1. interest \in Nat BY DEF interest
<1>2. x * (principal + due) <= paid * principal
  <2>1. paid * principal \in Nat /\ principal + due \in Nat \ {0} BY ProductNat
  <2> QED BY <2>1, DivLe DEF PrincipalShare, MulDivFloor
<1>3. x * due <= interest * principal
  <2>1. x * (principal + due) = x * principal + x * due BY SMT
  <2>2. interest * principal = paid * principal - x * principal BY SMT
  <2>3. x * principal \in Nat /\ x * due \in Nat /\ paid * principal \in Nat BY ProductNat
  <2> HIDE DEF interest
  <2> QED BY <1>2, <2>1, <2>2, <2>3
<1> HIDE DEF interest
<1>4. principal * (x * owed) <= principal * (interest * unit)
  <2> DEFINE a == x * due
             c == interest * principal
             d == principal * owed
             e == due * unit
  <2>1. a \in Nat /\ c \in Nat /\ d \in Nat /\ e \in Nat BY <1>1, ProductNat
  <2>2. principal * (x * owed) = x * d BY SMT
  <2>3. principal * (interest * unit) = c * unit BY <1>1, SMT
  <2>4. x * e = a * unit BY SMT
  <2>5. d <= e /\ a <= c BY <1>3
  <2> HIDE DEF a, c, d, e
  <2>6. x * d <= x * e /\ x * d \in Nat /\ x * e \in Nat BY <2>1, <2>5, SMT
  <2>7. a * unit <= c * unit /\ a * unit \in Nat /\ c * unit \in Nat BY <2>1, <2>5, SMT
  <2>8. x * d <= c * unit BY <2>4, <2>6, <2>7
  <2> QED BY <2>2, <2>3, <2>8
<1>5. x * owed \in Nat /\ interest * unit \in Nat BY <1>1, ProductNat
<1>6. \A a, c \in Nat : principal * a <= principal * c => a <= c BY SMT
<1> QED BY <1>4, <1>5, <1>6 DEF interest

\* liquidate pays at least what it settles, and brings the forfeited promo on top.
LEMMA LiquidateKeepsTheWorth ==
  ASSUME TypeOK, TypeOK', NEW b \in Borrowers, NEW id \in 0..MaxLoanId,
         NEW a \in Assets, NEW amount \in LiquidateAmounts, NEW view \in PriceViews,
         NEW recorded \in BOOLEAN, Liquidate(b, id, a, amount, view, recorded)
  PROVE  SharesKeepTheirWorth
<1> DEFINE m == Accrue(market)
           p == position[b]
           moved == ForfeitMoves(p)
           funded == [m EXCEPT !.cash = @ + moved]
           loan(i) == p.loans[i]
           due(i) == Due(LoanBalance(loan(i), now))
           balance(i) == Total(LoanBalance(loan(i), now))
           paid(i) == Seizure(p, a, Min2(amount, balance(i)), view).repay_amount
           x(i) == PrincipalShare(paid(i), loan(i).principal, balance(i))
           s(i) == SecondsBetween(loan(i).interest_anchor, now)
<1>1. PICK i \in LoanSlots :
        /\ paid(i) > 0 /\ x(i) > 0
        /\ market' = SettleLoan(funded, loan(i), x(i), x(i), paid(i) - x(i))
  BY DEF Liquidate
<1>2. /\ m \in Market /\ m.total_shares = market.total_shares /\ m.last_accrual_ts >= now
      /\ now \in Nat /\ now' = now /\ market' \in Market
  BY AccrueType, AccrueKeeps DEF TypeOK, Liquidate
<1>3. p \in Position /\ loan(i) \in Loan BY DEF TypeOK, Position
<1>4. /\ loan(i).principal \in Nat /\ loan(i).rate_bps \in Nat
      /\ loan(i).interest_anchor \in Nat
  BY <1>3, ScalesArePositive DEF Loan
<1>5. moved \in Nat
  <2>1. CanForfeit(p) BY DEF Liquidate
  <2> QED BY <2>1, ForfeitType
<1>6. /\ due(i) \in Nat /\ balance(i) = loan(i).principal + due(i)
      /\ balance(i) \in Nat /\ loan(i).principal <= balance(i)
  <2>1. due(i) \in Nat /\ balance(i) = loan(i).principal + due(i) BY <1>2, <1>3, BalanceType
  <2> HIDE DEF due, balance, loan
  <2> QED BY <1>4, <2>1
<1>7. Min2(amount, balance(i)) \in Nat /\ Min2(amount, balance(i)) <= balance(i)
  BY <1>6, InputsAreNaturals DEF Min2
<1>8. s(i) \in Nat /\ loan(i).principal * loan(i).rate_bps * s(i) <= due(i) * (BPS * YEAR)
  BY <1>2, <1>3, <1>4, SecondsNat, DueCoversTheInterest
<1> HIDE DEF m, balance, due, s
<1>9. paid(i) \in Nat /\ paid(i) <= balance(i) BY <1>3, <1>6, <1>7, SeizureBounds
<1> HIDE DEF paid
<1>10. x(i) \in Nat /\ x(i) <= paid(i) /\ x(i) <= loan(i).principal
  BY <1>1, <1>4, <1>6, <1>9, PrincipalShareBounds
<1>11. paid(i) - x(i) \in Nat
  <2> HIDE DEF x
  <2> QED BY <1>9, <1>10
<1>12. x(i) * loan(i).rate_bps * s(i) <= (paid(i) - x(i)) * (BPS * YEAR)
  <2> DEFINE owed == loan(i).rate_bps * s(i)
             P == loan(i).principal
             y == x(i)
             r == loan(i).rate_bps
  <2>1. y = PrincipalShare(paid(i), P, P + due(i)) BY <1>6
  <2>2. r \in Nat /\ P \in Nat /\ y \in Nat /\ y <= P /\ y > 0 /\ y <= paid(i)
    BY <1>1, <1>4, <1>10
  <2>3. P * r * s(i) <= due(i) * (BPS * YEAR) BY <1>8
  <2> HIDE DEF P, y, r, x, loan
  <2>4. r * s(i) \in Nat /\ P * (r * s(i)) = P * r * s(i) /\ y * (r * s(i)) = y * r * s(i)
    BY <1>8, <2>2, ProductNat, SMT
  <2>5. P \in Nat \ {0} BY <2>2
  <2>6. BPS * YEAR \in Nat BY UnitsType
  <2>7. y * (r * s(i)) <= (paid(i) - y) * (BPS * YEAR)
    BY <1>6, <1>9, <2>1, <2>2, <2>3, <2>4, <2>5, <2>6, SplitCoversTheInterest
  <2>8. y * r * s(i) <= (paid(i) - y) * (BPS * YEAR) BY <2>4, <2>7
  <2> QED BY <2>8 DEF y, r
<1> HIDE DEF x, loan
<1>13. AccruedLpInterest(x(i), loan(i), now)
         <= (paid(i) - x(i)) - ReserveShare(paid(i) - x(i), loan(i).reserve_factor_bps)
  BY <1>2, <1>3, <1>10, <1>11, <1>12, ReserveLeavesTheLenders DEF s
<1>14. /\ funded \in Market
       /\ TotalAssets(funded) = TotalAssets(m) + moved /\ TotalAssets(m) \in Int
       /\ funded.total_shares = m.total_shares
       /\ funded.last_accrual_ts = m.last_accrual_ts
  <2> HIDE DEF moved
  <2>1. m.cash + moved \in Nat /\ m.cash \in Nat BY <1>2, <1>5 DEF Market
  <2>2. funded \in Market BY <1>2, <2>1 DEF Market
  <2>3. /\ funded.cash = m.cash + moved /\ funded.total_borrows = m.total_borrows
        /\ funded.accrued_interest = m.accrued_interest
        /\ funded.protocol_reserve = m.protocol_reserve
        /\ funded.total_shares = m.total_shares
        /\ funded.last_accrual_ts = m.last_accrual_ts
    BY <1>2 DEF Market
  <2>4. /\ m.total_borrows \in Nat /\ m.accrued_interest \in Nat /\ m.protocol_reserve \in Nat
    BY <1>2 DEF Market
  <2> HIDE DEF funded
  <2> QED BY <1>5, <2>1, <2>2, <2>3, <2>4 DEF TotalAssets
<1> HIDE DEF funded, moved
<1>15. /\ TotalAssets(market') >= TotalAssets(funded)
       /\ market'.total_shares = funded.total_shares
       /\ market'.last_accrual_ts = funded.last_accrual_ts
  BY <1>1, <1>2, <1>3, <1>10, <1>11, <1>13, <1>14, SettlingKeepsAssets
<1>16. AssetsOf(market)' = TotalAssets(market') + VIRTUAL_ASSETS /\ TotalAssets(market') \in Int
       /\ AssetsOf(market)' \in Int
  BY <1>2, <1>14, <1>15, AssetsWhenCurrent
<1>17. AssetsOf(market) = TotalAssets(m) + VIRTUAL_ASSETS
  BY AssetsType DEF m
<1>18. AssetsOf(market)' >= AssetsOf(market)
  BY <1>5, <1>14, <1>15, <1>16, <1>17, ScalesArePositive
<1>19. market'.total_shares = market.total_shares BY <1>2, <1>14, <1>15
<1> QED BY <1>16, <1>18, <1>19, GrowingAssetsKeepTheWorth

\* write_off_loan books what the lenders lose; a loan that forfeited promo made up for
\* takes nothing from them.
LEMMA WriteOffKeepsTheWorth ==
  ASSUME TypeOK, TypeOK', NEW b \in Borrowers, NEW id \in 0..MaxLoanId,
         NEW view \in PriceViews, WriteOffLoan(b, id, view)
  PROVE  market'.total_bad_debt > market.total_bad_debt \/ SharesKeepTheirWorth
<1> DEFINE m == Accrue(market)
           p == position[b]
           moved == ForfeitMoves(p)
           loan(i) == p.loans[i]
           accrued(i) == AccruedLpInterest(loan(i).principal, loan(i), now)
           netLoss(i) == NetLoss(loan(i).principal + accrued(i), moved)
           covered(i) == CoveredByReserve(netLoss(i), m.protocol_reserve)
           c(i) == LpContribution(loan(i).principal, loan(i).rate_bps,
                                  loan(i).reserve_factor_bps)
<1>1. PICK i \in LoanSlots :
        market' = [m EXCEPT
              !.cash = @ + moved,
              !.accrued_interest = SatSub(@, accrued(i)),
              !.total_borrows = @ - loan(i).principal,
              !.lp_rate_product = @ - c(i),
              !.protocol_reserve = @ - covered(i),
              !.total_bad_debt = @ + netLoss(i)]
  BY DEF WriteOffLoan
<1>2. /\ m \in Market /\ m.total_shares = market.total_shares /\ m.last_accrual_ts >= now
      /\ m.total_bad_debt = market.total_bad_debt
      /\ now \in Nat /\ now' = now /\ market' \in Market
  BY AccrueType, AccrueKeeps DEF TypeOK, WriteOffLoan
<1>3. loan(i) \in Loan BY DEF TypeOK, Position
<1>4. loan(i).principal \in Nat BY <1>3 DEF Loan
<1>5. moved \in Nat
  <2>1. CanForfeit(p) BY DEF WriteOffLoan
  <2> QED BY <2>1, ForfeitType
<1>6. accrued(i) \in Nat BY <1>2, <1>3, <1>4, AccruedNat
<1> HIDE DEF accrued, moved, m, loan
<1>7. netLoss(i) \in Nat /\ netLoss(i) >= loan(i).principal + accrued(i) - moved
  BY <1>4, <1>5, <1>6 DEF NetLoss, SatSub
<1> HIDE DEF netLoss
<1>8. /\ m.cash \in Nat /\ m.total_borrows \in Nat /\ m.accrued_interest \in Nat
      /\ m.protocol_reserve \in Nat /\ m.total_bad_debt \in Nat
  BY <1>2 DEF Market
<1>9. covered(i) \in Nat /\ covered(i) <= netLoss(i) /\ (netLoss(i) = 0 => covered(i) = 0)
  BY <1>7, <1>8 DEF CoveredByReserve, Min2
<1> HIDE DEF covered, c
<1>10. /\ market'.cash = m.cash + moved
       /\ market'.accrued_interest = SatSub(m.accrued_interest, accrued(i))
       /\ market'.total_borrows = m.total_borrows - loan(i).principal
       /\ market'.protocol_reserve = m.protocol_reserve - covered(i)
       /\ market'.total_bad_debt = m.total_bad_debt + netLoss(i)
       /\ market'.total_shares = m.total_shares
       /\ market'.last_accrual_ts = m.last_accrual_ts
  BY <1>1, <1>2 DEF Market
<1>11. CASE netLoss(i) > 0
  <2>1. market'.total_bad_debt > market.total_bad_debt
    BY <1>2, <1>7, <1>8, <1>10, <1>11
  <2> QED BY <2>1
<1>12. CASE netLoss(i) = 0
  <2>1. SatSub(m.accrued_interest, accrued(i)) \in Nat
        /\ SatSub(m.accrued_interest, accrued(i)) >= m.accrued_interest - accrued(i)
    BY <1>6, <1>8 DEF SatSub
  <2>2. moved >= loan(i).principal + accrued(i) /\ covered(i) = 0
    BY <1>4, <1>5, <1>6, <1>7, <1>9, <1>12
  <2>3. TotalAssets(market') >= TotalAssets(m)
    BY <1>4, <1>5, <1>6, <1>8, <1>10, <2>1, <2>2 DEF TotalAssets
  <2>4. /\ AssetsOf(market)' = TotalAssets(market') + VIRTUAL_ASSETS
        /\ TotalAssets(market') \in Int /\ AssetsOf(market)' \in Int
    BY <1>2, <1>10, AssetsWhenCurrent
  <2>5. AssetsOf(market) = TotalAssets(m) + VIRTUAL_ASSETS /\ TotalAssets(m) \in Int
    BY AssetsType DEF m
  <2>6. AssetsOf(market)' >= AssetsOf(market)
    BY <2>3, <2>4, <2>5, ScalesArePositive
  <2>7. market'.total_shares = market.total_shares BY <1>2, <1>10
  <2> QED BY <2>4, <2>6, <2>7, GrowingAssetsKeepTheWorth
<1> QED BY <1>7, <1>11, <1>12

\* take_loan turns cash into a loan of the same worth.
LEMMA TakeLoanKeepsTheWorth ==
  ASSUME TypeOK, TypeOK', NEW b \in Borrowers, NEW amount \in LoanAmounts,
         NEW tenure \in Tenures, NEW view \in PriceViews, TakeLoan(b, amount, tenure, view)
  PROVE  SharesKeepTheirWorth
<1> DEFINE m == Accrue(market)
           loan == NewLoan(position[b].next_loan_id, amount, tenure)
           c == LpContribution(amount, loan.rate_bps, loan.reserve_factor_bps)
<1>1. /\ market' = [m EXCEPT !.total_borrows = @ + amount, !.lp_rate_product = @ + c,
                             !.cash = @ - amount]
      /\ now' = now
  BY DEF TakeLoan
<1>2. /\ m \in Market /\ m.total_shares = market.total_shares /\ m.last_accrual_ts >= now
      /\ now \in Nat /\ market' \in Market
  BY AccrueType, AccrueKeeps DEF TypeOK
<1>3. amount \in Nat BY InputsAreNaturals
<1>4. AssetsOf(market) = TotalAssets(m) + VIRTUAL_ASSETS /\ TotalAssets(m) \in Int
  BY AssetsType
<1> HIDE DEF m, c
<1>5. /\ m.cash \in Nat /\ m.total_borrows \in Nat /\ m.accrued_interest \in Nat
      /\ m.protocol_reserve \in Nat
  BY <1>2 DEF Market
<1>6. /\ market'.cash = m.cash - amount
      /\ market'.total_borrows = m.total_borrows + amount
      /\ market'.accrued_interest = m.accrued_interest
      /\ market'.protocol_reserve = m.protocol_reserve
      /\ market'.total_shares = m.total_shares
      /\ market'.last_accrual_ts = m.last_accrual_ts
  BY <1>1, <1>2 DEF Market
<1>7. TotalAssets(market') = TotalAssets(m) BY <1>3, <1>5, <1>6 DEF TotalAssets
<1>8. /\ AssetsOf(market)' = TotalAssets(market') + VIRTUAL_ASSETS
      /\ AssetsOf(market)' \in Int
  BY <1>1, <1>2, <1>6, AssetsWhenCurrent
<1>9. AssetsOf(market)' >= AssetsOf(market) BY <1>4, <1>7, <1>8, ScalesArePositive
<1> QED BY <1>2, <1>6, <1>8, <1>9, GrowingAssetsKeepTheWorth

\* Shares bought at a rounded-down number, or burned at a rounded-up one, leave every
\* share worth at least what it was.
LEMMA RoundedTradesKeepTheWorth ==
  ASSUME NEW assets \in Nat \ {0}, NEW shares \in Nat \ {0}, NEW amount \in Nat
  PROVE  /\ ~((assets + amount) * shares
                 < assets * (shares + MulDivFloor(amount, shares, assets)))
         /\ ~((assets - amount) * shares
                 < assets * (shares - MulDivCeil(amount, shares, assets)))
<1> DEFINE minted == MulDivFloor(amount, shares, assets)
           burned == MulDivCeil(amount, shares, assets)
<1>1. /\ minted \in Nat /\ minted * assets <= amount * shares
      /\ burned \in Nat /\ amount * shares <= burned * assets
      /\ amount * shares \in Nat
  <2>1. amount * shares \in Nat BY ProductNat
  <2> QED BY <2>1, FloorNat, CeilNat, DivLe, CeilGe DEF MulDivFloor
<1> HIDE DEF minted, burned
<1>2. /\ (assets + amount) * shares = assets * shares + amount * shares
      /\ assets * (shares + minted) = assets * shares + minted * assets
  BY <1>1, SMT
<1>3. /\ (assets - amount) * shares = assets * shares - amount * shares
      /\ assets * (shares - burned) = assets * shares - burned * assets
  BY <1>1, SMT
<1>4. /\ assets * shares \in Nat /\ minted * assets \in Nat /\ burned * assets \in Nat
  BY <1>1, ProductNat
<1>5. ~((assets + amount) * shares < assets * (shares + minted))
  BY <1>1, <1>2, <1>4
<1>6. ~((assets - amount) * shares < assets * (shares - burned))
  BY <1>1, <1>3, <1>4
<1> QED BY <1>5, <1>6 DEF minted, burned

\* What a trade adds to the cash and to the shares it adds to what they are measured by.
LEMMA TradeMovesTheWorth ==
  ASSUME TypeOK, TypeOK', now' = now, ~AssetsUnderflow(Accrue(market)),
         NEW amount \in Int, NEW shares \in Int,
         market' = [Accrue(market) EXCEPT !.cash = @ + amount, !.total_shares = @ + shares]
  PROVE  /\ AssetsOf(market)' = AssetsOf(market) + amount
         /\ SharesOf(market)' = SharesOf(market) + shares
<1> DEFINE m == Accrue(market)
<1>1. /\ m \in Market /\ m.total_shares = market.total_shares /\ m.last_accrual_ts >= now
      /\ now \in Nat /\ market' \in Market
  BY AccrueType, AccrueKeeps DEF TypeOK
<1>2. AssetsOf(market) = TotalAssets(m) + VIRTUAL_ASSETS /\ TotalAssets(m) \in Int
      /\ SharesOf(market) \in Nat \ {0}
  BY AssetsType
<1>3. TotalAssets(m) \in Nat BY <1>2 DEF AssetsUnderflow
<1> HIDE DEF m
<1>5. market' = [m EXCEPT !.cash = @ + amount, !.total_shares = @ + shares] BY DEF m
<1>6. /\ m.cash \in Nat /\ m.total_borrows \in Nat /\ m.accrued_interest \in Nat
      /\ m.protocol_reserve \in Nat /\ m.total_shares \in Nat
  BY <1>1 DEF Market
<1>7. /\ market'.cash = m.cash + amount
      /\ market'.total_borrows = m.total_borrows
      /\ market'.accrued_interest = m.accrued_interest
      /\ market'.protocol_reserve = m.protocol_reserve
      /\ market'.total_shares = m.total_shares + shares
      /\ market'.last_accrual_ts = m.last_accrual_ts
  BY <1>1, <1>5 DEF Market
<1>8. TotalAssets(market') = TotalAssets(m) + amount BY <1>6, <1>7 DEF TotalAssets
<1>9. AssetsOf(market)' = TotalAssets(market') + VIRTUAL_ASSETS
  BY <1>1, <1>7, AssetsWhenCurrent
<1>10. AssetsOf(market)' = AssetsOf(market) + amount
  BY <1>2, <1>3, <1>8, <1>9, ScalesArePositive
<1>11. SharesOf(market)' = SharesOf(market) + shares
  BY <1>1, <1>6, <1>7, ScalesArePositive DEF SharesOf
<1> QED BY <1>10, <1>11

\* deposit_liquidity trades at the assets and shares it finds, the new shares rounded down.
LEMMA DepositTrades ==
  ASSUME TypeOK, TypeOK', NEW w \in Lenders, NEW amount \in DepositAmounts,
         DepositLiquidity(w, amount)
  PROVE  LET shares == MulDivFloor(amount, SharesOf(market), AssetsOf(market)) IN
         /\ amount \in Nat /\ shares \in Nat
         /\ AssetsOf(market) \in Nat \ {0} /\ SharesOf(market) \in Nat \ {0}
         /\ AssetsOf(market)' = AssetsOf(market) + amount
         /\ SharesOf(market)' = SharesOf(market) + shares
         /\ lender' = [lender EXCEPT ![w] = @ + shares]
         /\ market_vault' = market_vault + amount
<1> DEFINE m == Accrue(market)
           shares == SharesForDeposit(amount, m.total_shares, TotalAssets(m))
<1>1. /\ now' = now /\ ~AssetsUnderflow(m)
      /\ market' = [m EXCEPT !.cash = @ + amount, !.total_shares = @ + shares]
      /\ lender' = [lender EXCEPT ![w] = @ + shares]
      /\ market_vault' = market_vault + amount
  BY DEF DepositLiquidity
<1>2. amount \in Nat BY InputsAreNaturals
<1>3. /\ AssetsOf(market) = TotalAssets(m) + VIRTUAL_ASSETS
      /\ TotalAssets(m) \in Int
      /\ SharesOf(market) = m.total_shares + VIRTUAL_SHARES /\ SharesOf(market) \in Nat \ {0}
  BY AssetsType, AccrueKeeps DEF TypeOK, SharesOf
<1>4. AssetsOf(market) \in Nat \ {0} BY <1>1, <1>3, ScalesArePositive DEF AssetsUnderflow
<1>5. shares = MulDivFloor(amount, SharesOf(market), AssetsOf(market))
  BY <1>3 DEF SharesForDeposit
<1>6. shares \in Nat BY <1>2, <1>3, <1>4, <1>5, FloorNat
<1> HIDE DEF shares
<1>7. /\ AssetsOf(market)' = AssetsOf(market) + amount
      /\ SharesOf(market)' = SharesOf(market) + shares
  <2>1. amount \in Int /\ shares \in Int BY <1>2, <1>6
  <2> QED BY <1>1, <2>1, TradeMovesTheWorth
<1> QED BY <1>1, <1>2, <1>3, <1>4, <1>5, <1>6, <1>7

\* withdraw_liquidity too, the burned shares rounded up.
LEMMA WithdrawTrades ==
  ASSUME TypeOK, TypeOK', NEW w \in Lenders, NEW request \in WithdrawAmounts,
         WithdrawLiquidity(w, request)
  PROVE  \E amount \in Nat :
            LET shares == MulDivCeil(amount, SharesOf(market), AssetsOf(market)) IN
            /\ shares \in Nat /\ shares <= market.total_shares
            /\ AssetsOf(market) \in Nat \ {0} /\ SharesOf(market) \in Nat \ {0}
            /\ AssetsOf(market)' = AssetsOf(market) - amount
            /\ SharesOf(market)' = SharesOf(market) - shares
            /\ shares <= lender[w]
            /\ lender' = [lender EXCEPT ![w] = @ - shares]
            /\ market_vault' = market_vault - amount
            /\ amount <= AssetsOf(market)
<1> DEFINE m == Accrue(market)
           redeemable == RedeemableAmount(lender[w], m.total_shares, TotalAssets(m))
           amount == IF request = U64_MAX THEN Min2(redeemable, AvailableCash(m)) ELSE request
           shares == SharesToBurn(amount, m.total_shares, TotalAssets(m))
<1>1. /\ now' = now /\ ~AssetsUnderflow(m)
      /\ amount <= AvailableCash(m) /\ shares <= lender[w] /\ shares <= m.total_shares
      /\ market' = [m EXCEPT !.cash = @ - amount, !.total_shares = @ - shares]
      /\ lender' = [lender EXCEPT ![w] = @ - shares]
      /\ market_vault' = market_vault - amount
  BY DEF WithdrawLiquidity
<1>2. /\ AssetsOf(market) = TotalAssets(m) + VIRTUAL_ASSETS
      /\ TotalAssets(m) \in Int
      /\ SharesOf(market) = m.total_shares + VIRTUAL_SHARES /\ SharesOf(market) \in Nat \ {0}
      /\ m.total_shares = market.total_shares /\ m \in Market
  BY AssetsType, AccrueType, AccrueKeeps DEF TypeOK, SharesOf
<1>3. AssetsOf(market) \in Nat \ {0} BY <1>1, <1>2, ScalesArePositive DEF AssetsUnderflow
<1>4. AvailableCash(m) \in Nat
  <2> HIDE DEF m
  <2> QED BY <1>2 DEF AvailableCash, SatSub, Market
<1>5. amount \in Nat
  <2>1. redeemable \in Nat
    BY <1>2, <1>3, FloorNat DEF RedeemableAmount, TypeOK
  <2>2. request \in Nat BY InputsAreNaturals
  <2> HIDE DEF redeemable, m
  <2> QED BY <1>4, <2>1, <2>2 DEF Min2
<1> HIDE DEF amount
<1>6. shares = MulDivCeil(amount, SharesOf(market), AssetsOf(market))
  BY <1>2 DEF SharesToBurn
<1>7. shares \in Nat BY <1>2, <1>3, <1>5, <1>6, CeilNat
<1> HIDE DEF shares
<1>8. /\ AssetsOf(market)' = AssetsOf(market) - amount
      /\ SharesOf(market)' = SharesOf(market) - shares
  <2>1. market' = [m EXCEPT !.cash = @ + (0 - amount), !.total_shares = @ + (0 - shares)]
    <3> HIDE DEF m
    <3>1. m.cash - amount = m.cash + (0 - amount)
          /\ m.total_shares - shares = m.total_shares + (0 - shares)
      BY <1>2, <1>5, <1>7 DEF Market
    <3> QED BY <1>1, <3>1
  <2>2. 0 - amount \in Int /\ 0 - shares \in Int BY <1>5, <1>7
  <2>3. /\ AssetsOf(market)' = AssetsOf(market) + (0 - amount)
        /\ SharesOf(market)' = SharesOf(market) + (0 - shares)
    BY <1>1, <2>1, <2>2, TradeMovesTheWorth
  <2> QED BY <1>2, <1>3, <1>5, <1>7, <2>3
<1>9. amount <= AssetsOf(market)
  <2> HIDE DEF m
  <2>1. /\ m.cash \in Nat /\ m.total_borrows \in Nat /\ m.accrued_interest \in Nat
        /\ m.protocol_reserve \in Nat
    BY <1>2 DEF Market
  <2>2. TotalAssets(m) >= 0 BY <1>1, <1>2 DEF AssetsUnderflow
  <2>3. AvailableCash(m) <= TotalAssets(m)
    BY <2>1, <2>2 DEF AvailableCash, SatSub, TotalAssets
  <2> QED BY <1>1, <1>2, <1>4, <1>5, <2>3, ScalesArePositive
<1> QED BY <1>1, <1>2, <1>3, <1>5, <1>6, <1>7, <1>8, <1>9

\* Time adds to the assets what the loans accrue, and no less for passing later.
LEMMA TimeGrowsTheAssets ==
  ASSUME market \in Market, market' \in Market, now \in Nat, now' \in Nat, now <= now',
         market'.total_borrows = market.total_borrows,
         market'.lp_rate_product = market.lp_rate_product,
         market'.accrued_interest = market.accrued_interest,
         market'.accrual_remainder = market.accrual_remainder,
         market'.last_accrual_ts = market.last_accrual_ts,
         market'.cash - market'.protocol_reserve = market.cash - market.protocol_reserve
  PROVE  AssetsOf(market)' \in Int /\ AssetsOf(market)' >= AssetsOf(market)
<1> DEFINE last == market.last_accrual_ts
           numerator(t) == market.lp_rate_product * (t - last) + market.accrual_remainder
           gain(t) == IF t <= last THEN 0 ELSE numerator(t) \div AccrualUnit
           base == market.cash + market.total_borrows + market.accrued_interest
                     - market.protocol_reserve + VIRTUAL_ASSETS
<1>1. /\ market.cash \in Nat /\ market.total_borrows \in Nat /\ market.accrued_interest \in Nat
      /\ market.protocol_reserve \in Nat /\ market.lp_rate_product \in Nat
      /\ market.accrual_remainder \in Nat /\ last \in Nat
      /\ market'.cash \in Nat /\ market'.protocol_reserve \in Nat
  BY DEF Market
<1>2. base \in Int BY <1>1, ScalesArePositive
<1>3. ASSUME NEW t \in Nat PROVE gain(t) \in Nat
  <2>1. CASE t <= last BY <2>1
  <2>2. CASE ~(t <= last)
    <3>1. t - last \in Nat BY <1>1, <2>2
    <3>2. market.lp_rate_product * (t - last) \in Nat BY <1>1, <3>1, ProductNat
    <3>3. numerator(t) \in Nat BY <1>1, <3>2
    <3> HIDE DEF numerator
    <3> QED BY <2>2, <3>3, UnitsType, DivNat
  <2> QED BY <2>1, <2>2
<1>4. gain(now) <= gain(now')
  <2>1. CASE now <= last
    <3>1. gain(now) = 0 BY <2>1
    <3>2. gain(now') \in Nat BY <1>3
    <3> HIDE DEF gain
    <3> QED BY <3>1, <3>2
  <2>2. CASE ~(now <= last)
    <3>1. ~(now' <= last) BY <1>1, <2>2
    <3>2. now - last \in Nat /\ now' - last \in Nat /\ now - last <= now' - last
      BY <1>1, <2>2
    <3>3. \A p, x, y, z \in Nat : x <= y =>
             p * x + z \in Nat /\ p * y + z \in Nat /\ p * x + z <= p * y + z
      BY SMT
    <3>4. numerator(now) \in Nat /\ numerator(now') \in Nat /\ numerator(now) <= numerator(now')
      BY <1>1, <3>2, <3>3
    <3> HIDE DEF numerator
    <3>5. numerator(now) \div AccrualUnit <= numerator(now') \div AccrualUnit
      BY <3>4, UnitsType, DivMonotone
    <3> QED BY <2>2, <3>1, <3>5
  <2> QED BY <2>1, <2>2
<1>5. AssetsOf(market) = base + gain(now)
  <2>1. CASE now <= last
    <3>1. Accrue(market) = market BY <2>1 DEF Accrue
    <3>2. gain(now) = 0 BY <2>1
    <3> HIDE DEF gain
    <3> QED BY <1>2, <3>1, <3>2 DEF AssetsOf, TotalAssets
  <2>2. CASE ~(now <= last)
    <3>1. /\ Accrue(market).cash = market.cash
          /\ Accrue(market).total_borrows = market.total_borrows
          /\ Accrue(market).protocol_reserve = market.protocol_reserve
          /\ Accrue(market).accrued_interest = market.accrued_interest + gain(now)
      BY <2>2 DEF Accrue, AccrueLpInterest, Market
    <3>2. gain(now) \in Nat BY <1>3
    <3> HIDE DEF gain
    <3> QED BY <1>1, <3>1, <3>2, ScalesArePositive DEF AssetsOf, TotalAssets
  <2> QED BY <2>1, <2>2
<1>6. AssetsOf(market)' = base + gain(now')
  <2>1. CASE now' <= last
    <3>1. Accrue(market)' = market' BY <2>1 DEF Accrue
    <3>2. gain(now') = 0 BY <2>1
    <3>3. AssetsOf(market)' = market'.cash + market'.total_borrows + market'.accrued_interest
                                - market'.protocol_reserve + VIRTUAL_ASSETS
      BY <3>1 DEF AssetsOf, TotalAssets
    <3> HIDE DEF gain
    <3> QED BY <1>1, <3>2, <3>3, ScalesArePositive
  <2>2. CASE ~(now' <= last)
    <3>1. /\ Accrue(market)'.cash = market'.cash
          /\ Accrue(market)'.total_borrows = market.total_borrows
          /\ Accrue(market)'.protocol_reserve = market'.protocol_reserve
          /\ Accrue(market)'.accrued_interest = market.accrued_interest + gain(now')
      BY <2>2 DEF Accrue, AccrueLpInterest, Market
    <3>2. gain(now') \in Nat BY <1>3
    <3>3. AssetsOf(market)' = Accrue(market)'.cash + Accrue(market)'.total_borrows
                                + Accrue(market)'.accrued_interest
                                - Accrue(market)'.protocol_reserve + VIRTUAL_ASSETS
      BY DEF AssetsOf, TotalAssets
    <3>4. AssetsOf(market)' = market'.cash + market.total_borrows
                                + (market.accrued_interest + gain(now'))
                                - market'.protocol_reserve + VIRTUAL_ASSETS
      BY <3>1, <3>3
    <3>5. \A worth, cash2, cash1, res2, res1, borrows, interest, virtual \in Int : \A g \in Nat :
             worth = cash2 + borrows + (interest + g) - res2 + virtual /\ cash2 - res2 = cash1 - res1
             => worth = cash1 + borrows + interest - res1 + virtual + g
      OBVIOUS
    <3>6. AssetsOf(market)' \in Int BY <1>1, <3>2, <3>4, ScalesArePositive
    <3> HIDE DEF gain
    <3> QED BY <1>1, <3>2, <3>4, <3>5, <3>6, ScalesArePositive
  <2> QED BY <2>1, <2>2
<1>7. gain(now) \in Nat /\ gain(now') \in Nat BY <1>3
<1> HIDE DEF gain, base
<1> QED BY <1>2, <1>4, <1>5, <1>6, <1>7

\* So steps that leave what the assets are measured by alone keep the worth of shares.
LEMMA QuietMarketKeepsTheWorth ==
  ASSUME TypeOK, TypeOK', now <= now',
         market'.total_borrows = market.total_borrows,
         market'.lp_rate_product = market.lp_rate_product,
         market'.accrued_interest = market.accrued_interest,
         market'.accrual_remainder = market.accrual_remainder,
         market'.last_accrual_ts = market.last_accrual_ts,
         market'.total_shares = market.total_shares,
         market'.cash - market'.protocol_reserve = market.cash - market.protocol_reserve
  PROVE  SharesKeepTheirWorth
<1>1. market \in Market /\ market' \in Market /\ now \in Nat /\ now' \in Nat BY DEF TypeOK
<1>2. AssetsOf(market)' \in Int /\ AssetsOf(market)' >= AssetsOf(market)
  BY <1>1, TimeGrowsTheAssets
<1> QED BY <1>2, GrowingAssetsKeepTheWorth

\* Admin steps and the environment take nothing from the lenders: a harvest takes what
\* is the protocol's, new terms accrue first.
LEMMA OutsideKeepsTheWorth ==
  ASSUME TypeOK, TypeOK', AdminStep \/ EnvironmentStep PROVE SharesKeepTheirWorth
<1>1. market \in Market /\ now \in Nat BY DEF TypeOK
<1>2. ASSUME NEW amount \in HarvestAmounts, HarvestReserve(amount) PROVE SharesKeepTheirWorth
  <2>1. amount \in Nat BY InputsAreNaturals
  <2>2. market' = [market EXCEPT !.protocol_reserve = @ - amount, !.cash = @ - amount]
        /\ now' = now
    BY <1>2 DEF HarvestReserve
  <2>3. /\ market'.total_borrows = market.total_borrows
        /\ market'.lp_rate_product = market.lp_rate_product
        /\ market'.accrued_interest = market.accrued_interest
        /\ market'.accrual_remainder = market.accrual_remainder
        /\ market'.last_accrual_ts = market.last_accrual_ts
        /\ market'.total_shares = market.total_shares
        /\ market'.cash = market.cash - amount
        /\ market'.protocol_reserve = market.protocol_reserve - amount
    BY <1>1, <2>2 DEF Market
  <2>4. market.cash \in Nat /\ market.protocol_reserve \in Nat BY <1>1 DEF Market
  <2>5. market'.cash - market'.protocol_reserve = market.cash - market.protocol_reserve
    BY <2>1, <2>3, <2>4
  <2>6. now <= now' BY <1>1, <2>2
  <2> QED BY <2>3, <2>5, <2>6, QuietMarketKeepsTheWorth
<1>3. ASSUME NEW params \in ParamChoices, UpdateMarketParams(params) PROVE SharesKeepTheirWorth
  <2> DEFINE m == Accrue(market)
  <2>1. market' = [m EXCEPT !.params = params] /\ now' = now BY <1>3 DEF UpdateMarketParams
  <2>2. /\ m \in Market /\ m.total_shares = market.total_shares /\ m.last_accrual_ts >= now
        /\ market' \in Market
    BY <1>1, AccrueType, AccrueKeeps DEF TypeOK
  <2>3. AssetsOf(market) = TotalAssets(m) + VIRTUAL_ASSETS /\ TotalAssets(m) \in Int
    BY AssetsType
  <2> HIDE DEF m
  <2>4. /\ market'.cash = m.cash /\ market'.total_borrows = m.total_borrows
        /\ market'.accrued_interest = m.accrued_interest
        /\ market'.protocol_reserve = m.protocol_reserve
        /\ market'.total_shares = m.total_shares
        /\ market'.last_accrual_ts = m.last_accrual_ts
    BY <2>1, <2>2 DEF Market
  <2>5. AssetsOf(market)' = TotalAssets(market') + VIRTUAL_ASSETS /\ AssetsOf(market)' \in Int
    BY <1>1, <2>1, <2>2, <2>4, AssetsWhenCurrent
  <2>6. TotalAssets(market') = TotalAssets(m) BY <2>4 DEF TotalAssets
  <2>7. AssetsOf(market)' >= AssetsOf(market) BY <2>3, <2>5, <2>6, ScalesArePositive
  <2> QED BY <2>2, <2>4, <2>5, <2>7, GrowingAssetsKeepTheWorth
<1>4. ASSUME NEW paused \in PauseInputs, SetMarketPaused(paused) PROVE SharesKeepTheirWorth
  <2>1. /\ market'.total_borrows = market.total_borrows
        /\ market'.lp_rate_product = market.lp_rate_product
        /\ market'.accrued_interest = market.accrued_interest
        /\ market'.accrual_remainder = market.accrual_remainder
        /\ market'.last_accrual_ts = market.last_accrual_ts
        /\ market'.total_shares = market.total_shares
        /\ market'.cash = market.cash
        /\ market'.protocol_reserve = market.protocol_reserve
        /\ now' = now
    BY <1>1, <1>4 DEF SetMarketPaused, Market
  <2>2. now <= now' BY <1>1, <2>1
  <2> QED BY <2>1, <2>2, QuietMarketKeepsTheWorth
<1>5. ASSUME market' = market, now <= now' PROVE SharesKeepTheirWorth
  BY <1>5, QuietMarketKeepsTheWorth
<1>6. CASE AdminStep
  <2>1. now <= now
    BY <1>1
  <2> QED BY <1>2, <1>3, <1>4, <1>5, <1>6, <2>1
          DEF AdminStep, SweepMarketExcess, SetCollateralPaused, SetCollateralBorrowPaused,
              UpdateCollateralParams
<1>7. CASE EnvironmentStep
  <2>1. now <= now /\ now <= now + 1
    BY <1>1
  <2> QED BY <1>5, <1>7, <2>1 DEF EnvironmentStep, Tick, Donate, Clawback, ClawbackMarket
<1> QED BY <1>6, <1>7

\* Trades keep the worth of a share.
LEMMA LendersKeepTheWorth ==
  ASSUME TypeOK, TypeOK', LenderStep PROVE SharesKeepTheirWorth
<1>1. ASSUME NEW w \in Lenders, NEW amount \in DepositAmounts, DepositLiquidity(w, amount)
      PROVE  SharesKeepTheirWorth
  BY <1>1, DepositTrades, RoundedTradesKeepTheWorth DEF SharesKeepTheirWorth
<1>2. ASSUME NEW w \in Lenders, NEW request \in WithdrawAmounts, WithdrawLiquidity(w, request)
      PROVE  SharesKeepTheirWorth
  BY <1>2, WithdrawTrades, RoundedTradesKeepTheWorth DEF SharesKeepTheirWorth
<1> QED BY <1>1, <1>2 DEF LenderStep

\* Every step keeps the worth of a share, or books bad debt.
LEMMA NextKeepsTheWorth ==
  ASSUME TypeOK, TypeOK', [Next]_vars
  PROVE  market'.total_bad_debt > market.total_bad_debt \/ SharesKeepTheirWorth
<1>1. ASSUME NEW b \in Borrowers, LoanStep(b)
      PROVE  market'.total_bad_debt > market.total_bad_debt \/ SharesKeepTheirWorth
  BY <1>1, TakeLoanKeepsTheWorth, RepayKeepsTheWorth, LiquidateKeepsTheWorth,
     WriteOffKeepsTheWorth
  DEF LoanStep
<1>2. ASSUME UNCHANGED <<market, now>> PROVE SharesKeepTheirWorth
  <2>1. now <= now' BY <1>2 DEF TypeOK
  <2> QED BY <1>2, <2>1, QuietMarketKeepsTheWorth
<1>3. ASSUME NEW b \in Borrowers,
             OpenPosition(b) \/ ClosePosition(b) \/ CollateralStep(b) \/ PromoStep(b)
      PROVE  UNCHANGED <<market, now>>
  BY <1>3 DEF OpenPosition, ClosePosition, CollateralStep, DepositCollateral,
              WithdrawCollateral, PromoStep, RedeemPromo, ExpirePromo, RevokePromo
<1>4. CASE BorrowerStep BY <1>1, <1>2, <1>3, <1>4 DEF BorrowerStep
<1>5. CASE UNCHANGED vars BY <1>2, <1>5 DEF vars
<1> QED BY <1>4, <1>5, LendersKeepTheWorth, OutsideKeepsTheWorth DEF Next

\* A lender's share never loses value but by bad debt: not by rounding, by the order of
\* deposits and withdrawals, by a partial repayment, a liquidation or a change of terms.
THEOREM OnlyBadDebtCostsLenders == Spec => SharePriceFallsOnlyOnBadDebt
<1>1. TypeOK /\ TypeOK' /\ [Next]_vars =>
        [ AssetsOf(market)' * SharesOf(market) < AssetsOf(market) * SharesOf(market)'
            => market.total_bad_debt' > market.total_bad_debt ]_vars
  BY NextKeepsTheWorth DEF SharesKeepTheirWorth
<1> QED BY <1>1, TypeCorrect, PTL DEF Spec, SharePriceFallsOnlyOnBadDebt

-----------------------------------------------------------------------------
(***************************************************************************)
(* The books.                                                              *)
(*                                                                         *)
(* Every total is the sum of what single positions hold or owe, so it is   *)
(* enough that each step moves one position at most, and every total by as *)
(* much as that position (MovesWith).  Positions that are closed and slots *)
(* that are free must be empty for that, which BooksInv adds.  What loans  *)
(* accrue is bounded rather than counted: AccrualInv rests on the rate     *)
(* product being the sum of the contributions, and on every settlement     *)
(* rounding in the pool's favour.  What a write-off costs needs besides    *)
(* that the carried remainder is less than a token (RemainderInv), and     *)
(* what a trade is worth that every share is some lender's (SharesInv).    *)
(* The last two theorems are about subtractions the program checks: that   *)
(* none of them can refuse a settlement or a lender's withdrawal.          *)
(***************************************************************************)

-----------------------------------------------------------------------------
(* What one position adds to the totals *)

Contribution(loan) == LpContribution(loan.principal, loan.rate_bps, loan.reserve_factor_bps)

\* The principal of a position's loans, and what they add to the rate product.
Principals(loans) == SumOver([i \in LoanSlots |-> loans[i].principal], LoanSlots)
Contributions(loans) == SumOver([i \in LoanSlots |-> Contribution(loans[i])], LoanSlots)

\* The four totals, by borrower.
OwedBy == [b \in Borrowers |-> Principals(position[b].loans)]
ContributedBy == [b \in Borrowers |-> Contributions(position[b].loans)]
PromoOf == [b \in Borrowers |-> position[b].promo_balance]
HeldOf(a) == [b \in Borrowers |-> position[b].collateral[a]]

\* The four totals match, and what is closed or free is empty.
BooksInv ==
    /\ market.total_borrows = SumOver(OwedBy, Borrowers)
    /\ market.lp_rate_product = SumOver(ContributedBy, Borrowers)
    /\ promo_vault.outstanding = SumOver(PromoOf, Borrowers)
    /\ \A a \in Assets : collateral[a].total_deposited = SumOver(HeldOf(a), Borrowers)
    /\ \A b \in Borrowers :
          /\ ~position[b].open => position[b] = EmptyPosition
          /\ \A i \in LoanSlots :
                ~position[b].loans[i].active => position[b].loans[i].principal = 0

\* A step that moves position b alone, and every total with it.
MovesWith(b) ==
    /\ \A c \in Borrowers \ {b} : position'[c] = position[c]
    /\ market'.total_borrows
         = market.total_borrows + Principals(position'[b].loans) - Principals(position[b].loans)
    /\ market'.lp_rate_product
         = market.lp_rate_product + Contributions(position'[b].loans)
                                  - Contributions(position[b].loans)
    /\ promo_vault'.outstanding
         = promo_vault.outstanding + position'[b].promo_balance - position[b].promo_balance
    /\ \A a \in Assets : collateral'[a].total_deposited
         = collateral[a].total_deposited + position'[b].collateral[a] - position[b].collateral[a]
    /\ ~position'[b].open => position'[b] = EmptyPosition
    /\ \A i \in LoanSlots :
          ~position'[b].loans[i].active => position'[b].loans[i].principal = 0

\* A step that moves no position and no total.
MovesNothing ==
    /\ position' = position
    /\ market'.total_borrows = market.total_borrows
    /\ market'.lp_rate_product = market.lp_rate_product
    /\ promo_vault'.outstanding = promo_vault.outstanding
    /\ \A a \in Assets : collateral'[a].total_deposited = collateral[a].total_deposited

\* The sums run over finite sets.
LEMMA FiniteIndexes == IsFiniteSet(LoanSlots) /\ IsFiniteSet(Borrowers)
  BY SlotsAndUnits, FiniteParties, FS_Interval DEF LoanSlots

\* What a loan adds to the rate product is natural.
LEMMA ContributionIsNat ==
  ASSUME NEW loan \in Loan
  PROVE  loan.principal \in Nat /\ Contribution(loan) \in Nat
  BY ContributionNat DEF Loan, Contribution

\* A position's part of every total is natural.
LEMMA PartsAreNat ==
  ASSUME NEW p \in Position
  PROVE  /\ Principals(p.loans) \in Nat
         /\ Contributions(p.loans) \in Nat
         /\ p.promo_balance \in Nat
         /\ \A a \in Assets : p.collateral[a] \in Nat
<1> DEFINE f == [i \in LoanSlots |-> p.loans[i].principal]
           g == [i \in LoanSlots |-> Contribution(p.loans[i])]
<1>1. \A i \in LoanSlots : p.loans[i] \in Loan
  BY DEF Position
<1>2. \A i \in LoanSlots : f[i] \in Nat /\ g[i] \in Nat
  BY <1>1, ContributionIsNat
<1> HIDE DEF f, g
<1>3. SumOver(f, LoanSlots) \in Nat /\ SumOver(g, LoanSlots) \in Nat
  BY <1>2, FiniteIndexes, SumIsNat
<1> QED  BY <1>3 DEF f, g, Principals, Contributions, Position

\* A step that moves one position with its totals keeps the books.
LEMMA OneMoveKeepsBooks ==
  ASSUME TypeOK, TypeOK', BooksInv, NEW b \in Borrowers, MovesWith(b)
  PROVE  BooksInv'
<1>1. \A c \in Borrowers \ {b} : position'[c] = position[c]
  BY DEF MovesWith
<1>2. \A c \in Borrowers : /\ position[c] \in Position
                           /\ position'[c] \in Position
  BY DEF TypeOK
<1>3. market'.total_borrows = SumOver(OwedBy', Borrowers)
  <2>1. \A c \in Borrowers : /\ OwedBy[c] = Principals(position[c].loans)
                             /\ OwedBy'[c] = Principals(position'[c].loans)
    BY DEF OwedBy
  <2>2. \A c \in Borrowers : OwedBy[c] \in Nat /\ OwedBy'[c] \in Nat
    BY <1>2, <2>1, PartsAreNat
  <2>3. SumOver(OwedBy', Borrowers) = SumOver(OwedBy, Borrowers) + OwedBy'[b] - OwedBy[b]
    BY <1>1, <2>1, <2>2, FiniteIndexes, SumOfOneChange
  <2> QED  BY <2>1, <2>3 DEF MovesWith, BooksInv
<1>4. market'.lp_rate_product = SumOver(ContributedBy', Borrowers)
  <2>1. \A c \in Borrowers : /\ ContributedBy[c] = Contributions(position[c].loans)
                             /\ ContributedBy'[c] = Contributions(position'[c].loans)
    BY DEF ContributedBy
  <2>2. \A c \in Borrowers : ContributedBy[c] \in Nat /\ ContributedBy'[c] \in Nat
    BY <1>2, <2>1, PartsAreNat
  <2>3. SumOver(ContributedBy', Borrowers)
          = SumOver(ContributedBy, Borrowers) + ContributedBy'[b] - ContributedBy[b]
    BY <1>1, <2>1, <2>2, FiniteIndexes, SumOfOneChange
  <2> QED  BY <2>1, <2>3 DEF MovesWith, BooksInv
<1>5. promo_vault'.outstanding = SumOver(PromoOf', Borrowers)
  <2>1. \A c \in Borrowers : /\ PromoOf[c] = position[c].promo_balance
                             /\ PromoOf'[c] = position'[c].promo_balance
    BY DEF PromoOf
  <2>2. SumOver(PromoOf', Borrowers) = SumOver(PromoOf, Borrowers) + PromoOf'[b] - PromoOf[b]
    BY <1>1, <1>2, <2>1, PartsAreNat, FiniteIndexes, SumOfOneChange
  <2> QED  BY <2>1, <2>2 DEF MovesWith, BooksInv
<1>6. ASSUME NEW a \in Assets
      PROVE  collateral'[a].total_deposited = SumOver(HeldOf(a)', Borrowers)
  <2>1. \A c \in Borrowers : /\ HeldOf(a)[c] = position[c].collateral[a]
                             /\ HeldOf(a)'[c] = position'[c].collateral[a]
    BY DEF HeldOf
  <2>2. SumOver(HeldOf(a)', Borrowers)
          = SumOver(HeldOf(a), Borrowers) + HeldOf(a)'[b] - HeldOf(a)[b]
    BY <1>1, <1>2, <2>1, PartsAreNat, FiniteIndexes, SumOfOneChange
  <2> QED  BY <2>1, <2>2 DEF MovesWith, BooksInv
<1>7. \A c \in Borrowers :
         /\ ~position'[c].open => position'[c] = EmptyPosition
         /\ \A i \in LoanSlots :
               ~position'[c].loans[i].active => position'[c].loans[i].principal = 0
  BY DEF MovesWith, BooksInv
<1> QED  BY <1>3, <1>4, <1>5, <1>6, <1>7 DEF BooksInv, EmptyPosition, FreeSlot

\* A step that moves nothing keeps the books.
LEMMA NoMoveKeepsBooks ==
  ASSUME BooksInv, MovesNothing
  PROVE  BooksInv'
  BY DEF BooksInv, MovesNothing, OwedBy, ContributedBy, PromoOf, HeldOf, EmptyPosition,
         FreeSlot, Principals, Contributions

-----------------------------------------------------------------------------
(* Loans *)

\* Changing one slot changes what the position adds by that loan.
LEMMA OneLoanMoves ==
  ASSUME NEW p \in Position, NEW q \in Position, NEW i \in LoanSlots,
         \A j \in LoanSlots : j # i => q.loans[j] = p.loans[j]
  PROVE  /\ Principals(q.loans)
              = Principals(p.loans) + q.loans[i].principal - p.loans[i].principal
         /\ Contributions(q.loans)
              = Contributions(p.loans) + Contribution(q.loans[i]) - Contribution(p.loans[i])
<1>1. \A j \in LoanSlots : p.loans[j] \in Loan /\ q.loans[j] \in Loan
  BY DEF Position
<1>2. Principals(q.loans) = Principals(p.loans) + q.loans[i].principal - p.loans[i].principal
  <2> DEFINE f == [j \in LoanSlots |-> p.loans[j].principal]
             g == [j \in LoanSlots |-> q.loans[j].principal]
  <2>1. /\ \A j \in LoanSlots : f[j] \in Nat /\ g[j] \in Nat
        /\ \A j \in LoanSlots : j # i => f[j] = g[j]
    BY <1>1, ContributionIsNat
  <2>2. f[i] = p.loans[i].principal /\ g[i] = q.loans[i].principal
    OBVIOUS
  <2>3. SumOver(f, LoanSlots) = Principals(p.loans) /\ SumOver(g, LoanSlots) = Principals(q.loans)
    BY DEF Principals
  <2> HIDE DEF f, g
  <2>4. SumOver(g, LoanSlots) = SumOver(f, LoanSlots) + g[i] - f[i]
    BY <2>1, FiniteIndexes, SumOfOneChange
  <2> QED  BY <2>2, <2>3, <2>4
<1>3. Contributions(q.loans)
        = Contributions(p.loans) + Contribution(q.loans[i]) - Contribution(p.loans[i])
  <2> DEFINE f == [j \in LoanSlots |-> Contribution(p.loans[j])]
             g == [j \in LoanSlots |-> Contribution(q.loans[j])]
  <2>1. /\ \A j \in LoanSlots : f[j] \in Nat /\ g[j] \in Nat
        /\ \A j \in LoanSlots : j # i => f[j] = g[j]
    BY <1>1, ContributionIsNat
  <2>2. f[i] = Contribution(p.loans[i]) /\ g[i] = Contribution(q.loans[i])
    OBVIOUS
  <2>3. /\ SumOver(f, LoanSlots) = Contributions(p.loans)
        /\ SumOver(g, LoanSlots) = Contributions(q.loans)
    BY DEF Contributions
  <2> HIDE DEF f, g
  <2>4. SumOver(g, LoanSlots) = SumOver(f, LoanSlots) + g[i] - f[i]
    BY <2>1, FiniteIndexes, SumOfOneChange
  <2> QED  BY <2>2, <2>3, <2>4
<1> QED  BY <1>2, <1>3

\* Paying part of a principal takes that part off what the loan adds.
LEMMA PartPaid ==
  ASSUME NEW loan \in Loan, NEW paid \in Nat, paid <= loan.principal,
         NEW left \in Loan, left.principal = loan.principal - paid,
         paid = loan.principal
           \/ (left.rate_bps = loan.rate_bps /\ left.reserve_factor_bps = loan.reserve_factor_bps)
  PROVE  Contribution(left)
           = Contribution(loan) - LpContribution(paid, loan.rate_bps, loan.reserve_factor_bps)
<1>1. /\ loan.principal \in Nat /\ loan.rate_bps \in Nat
      /\ BPS - loan.reserve_factor_bps \in Nat
      /\ left.rate_bps \in Nat /\ BPS - left.reserve_factor_bps \in Nat
  BY ScalesArePositive DEF Loan
<1>2. CASE paid = loan.principal
  <2>1. left.principal = 0
    BY <1>1, <1>2
  <2>2. Contribution(left) = 0
    BY <1>1, <2>1 DEF Contribution, LpContribution
  <2>3. LpContribution(paid, loan.rate_bps, loan.reserve_factor_bps) = Contribution(loan)
    BY <1>2 DEF Contribution
  <2>4. Contribution(loan) \in Nat
    BY ContributionIsNat
  <2> QED  BY <2>2, <2>3, <2>4
<1>3. CASE left.rate_bps = loan.rate_bps /\ left.reserve_factor_bps = loan.reserve_factor_bps
  <2>1. \A x, y, r, k \in Nat : y <= x => (x - y) * r * k = x * r * k - y * r * k
    OBVIOUS
  <2> QED  BY <1>1, <1>3, <2>1 DEF Contribution, LpContribution
<1> QED  BY <1>2, <1>3

\* Accruing leaves the principal and the rate product alone.
LEMMA AccrueKeepsBooks ==
  ASSUME NEW m \in Market
  PROVE  /\ Accrue(m).total_borrows = m.total_borrows
         /\ Accrue(m).lp_rate_product = m.lp_rate_product
  BY DEF Accrue, Market

\* What a settlement does to them.
LEMMA SettleBooks ==
  ASSUME NEW m \in Market, NEW loan, NEW accruedOn, NEW repaid, NEW interest
  PROVE  LET s == SettleLoan(m, loan, accruedOn, repaid, interest)
         IN  /\ s.total_borrows = m.total_borrows - repaid
             /\ s.lp_rate_product = m.lp_rate_product
                  - LpContribution(repaid, loan.rate_bps, loan.reserve_factor_bps)
             /\ s.accrued_interest
                  = SatSub(m.accrued_interest, AccruedLpInterest(accruedOn, loan, now))
             /\ s.accrual_remainder = m.accrual_remainder
             /\ s.last_accrual_ts = m.last_accrual_ts
  BY DEF SettleLoan, Market

\* A step that pays part of one loan's principal, closing it when that is all of it,
\* moves both books with the position.
LEMMA PaymentMovesBooks ==
  ASSUME NEW p \in Position, NEW q \in Position, NEW i \in LoanSlots, NEW paid \in Nat,
         \A j \in LoanSlots : j # i => q.loans[j] = p.loans[j],
         paid <= p.loans[i].principal,
         paid = p.loans[i].principal => q.loans[i] = FreeSlot,
         paid # p.loans[i].principal =>
            /\ q.loans[i].principal = p.loans[i].principal - paid
            /\ q.loans[i].rate_bps = p.loans[i].rate_bps
            /\ q.loans[i].reserve_factor_bps = p.loans[i].reserve_factor_bps
            /\ q.loans[i].active,
         \A j \in LoanSlots : ~p.loans[j].active => p.loans[j].principal = 0
  PROVE  /\ Principals(q.loans) = Principals(p.loans) - paid
         /\ Contributions(q.loans) = Contributions(p.loans)
              - LpContribution(paid, p.loans[i].rate_bps, p.loans[i].reserve_factor_bps)
         /\ \A j \in LoanSlots : ~q.loans[j].active => q.loans[j].principal = 0
<1>1. PICK loan : loan = p.loans[i]
  OBVIOUS
<1>2. PICK left : left = q.loans[i]
  OBVIOUS
<1>3. loan \in Loan /\ left \in Loan
  BY <1>1, <1>2 DEF Position
<1>4. loan.principal \in Nat /\ Contribution(loan) \in Nat /\ Contribution(left) \in Nat
  BY <1>3, ContributionIsNat
<1>5. /\ paid <= loan.principal
      /\ left.principal = loan.principal - paid
      /\ paid = loan.principal
           \/ (left.rate_bps = loan.rate_bps /\ left.reserve_factor_bps = loan.reserve_factor_bps)
  <2>1. CASE paid = loan.principal
    <3>1. left.principal = 0
      BY <1>1, <1>2, <2>1 DEF FreeSlot
    <3> QED  BY <1>4, <2>1, <3>1
  <2>2. CASE paid # loan.principal
    BY <1>1, <1>2, <2>2
  <2> QED  BY <2>1, <2>2
<1>6. Contribution(left)
        = Contribution(loan) - LpContribution(paid, loan.rate_bps, loan.reserve_factor_bps)
  BY <1>3, <1>5, PartPaid
<1>7. ~left.active => left.principal = 0
  BY <1>1, <1>2 DEF FreeSlot
<1>8. \A j \in LoanSlots : ~q.loans[j].active => q.loans[j].principal = 0
  BY <1>2, <1>7
<1>9. /\ Principals(q.loans) = Principals(p.loans) + left.principal - loan.principal
      /\ Contributions(q.loans) = Contributions(p.loans) + Contribution(left) - Contribution(loan)
  BY <1>1, <1>2, OneLoanMoves
<1>10. /\ Principals(p.loans) \in Nat /\ Contributions(p.loans) \in Nat
       /\ LpContribution(paid, loan.rate_bps, loan.reserve_factor_bps) \in Nat
  <2>1. loan.rate_bps \in 0..BPS /\ loan.reserve_factor_bps \in 0..BPS
    BY <1>3 DEF Loan
  <2> QED  BY <2>1, ContributionNat, PartsAreNat
<1>11. /\ Principals(q.loans) = Principals(p.loans) - paid
       /\ Contributions(q.loans) = Contributions(p.loans)
              - LpContribution(paid, loan.rate_bps, loan.reserve_factor_bps)
  BY <1>4, <1>5, <1>6, <1>9, <1>10
<1> QED  BY <1>1, <1>8, <1>11

-----------------------------------------------------------------------------
(* What the loans have accrued, and the pool that holds it *)

\* Lender interest of a loan, in accrual units, and of a position's loans.
Accrues(loan, T) == Contribution(loan) * SecondsBetween(loan.interest_anchor, T)
Accruals(loans, T) == SumOver([i \in LoanSlots |-> Accrues(loans[i], T)], LoanSlots)
AccrualsBy(T) == [b \in Borrowers |-> Accruals(position[b].loans, T)]

\* What a market holds for it.
Pool(m) == m.accrued_interest * AccrualUnit + m.accrual_remainder

\* The pool is as old as the last accrual and holds what had accrued by then.
AccrualInv ==
    /\ market.last_accrual_ts <= now
    /\ SumOver(AccrualsBy(market.last_accrual_ts), Borrowers) <= Pool(market)

\* A step that takes the pool over, as it is or brought up to now.
PoolStays ==
    /\ now' \in Nat /\ now' >= now
    /\ \E m \in {market, Accrue(market)} :
          /\ market'.accrued_interest = m.accrued_interest
          /\ market'.accrual_remainder = m.accrual_remainder
          /\ market'.last_accrual_ts = m.last_accrual_ts

\* A step by which no position has accrued more than before.
NoneAccruesMore ==
    \A b \in Borrowers, T \in 0..now :
        Accruals(position'[b].loans, T) <= Accruals(position[b].loans, T)

\* A step that pays for the part x of the principal of one of b's loans, and takes the
\* interest of that part out of the pool.
SettlesAccrual(b) ==
    /\ now' = now
    /\ \A c \in Borrowers \ {b} : position'[c] = position[c]
    /\ \E i \in LoanSlots, x \in Nat :
          LET loan == position[b].loans[i]
              left == position'[b].loans[i]
              m == Accrue(market)
          IN  /\ \A j \in LoanSlots : j # i => position'[b].loans[j] = position[b].loans[j]
              /\ market'.accrued_interest
                   = SatSub(m.accrued_interest, AccruedLpInterest(x, loan, now))
              /\ market'.accrual_remainder = m.accrual_remainder
              /\ market'.last_accrual_ts = m.last_accrual_ts
              /\ Accrues(left, now)
                   + LpContribution(x, loan.rate_bps, loan.reserve_factor_bps)
                       * SecondsBetween(loan.interest_anchor, now)
                   <= Accrues(loan, now)

\* A loan accrues a natural number, and nothing before its anchor or without principal.
LEMMA AccruesNat ==
  ASSUME NEW loan \in Loan, NEW T \in Nat
  PROVE  /\ Accrues(loan, T) \in Nat
         /\ T <= loan.interest_anchor \/ loan.principal = 0 => Accrues(loan, T) = 0
<1>1. /\ Contribution(loan) \in Nat
      /\ SecondsBetween(loan.interest_anchor, T) \in Nat
  BY ContributionIsNat, SecondsNat DEF Loan
<1>2. Accrues(loan, T) \in Nat
  BY <1>1, ProductNat DEF Accrues
<1>3. CASE T <= loan.interest_anchor
  <2>1. SecondsBetween(loan.interest_anchor, T) = 0
    BY <1>3 DEF SecondsBetween, Loan
  <2> QED  BY <1>1, <1>2, <2>1 DEF Accrues
<1>4. CASE loan.principal = 0
  <2>1. loan.rate_bps \in Nat /\ BPS - loan.reserve_factor_bps \in Nat
    BY ScalesArePositive DEF Loan
  <2>2. Contribution(loan) = 0
    BY <1>4, <2>1 DEF Contribution, LpContribution
  <2> QED  BY <1>1, <1>2, <2>2 DEF Accrues
<1> QED  BY <1>2, <1>3, <1>4

\* So does a position.
LEMMA AccrualsNat ==
  ASSUME NEW p \in Position, NEW T \in Nat
  PROVE  Accruals(p.loans, T) \in Nat
<1> DEFINE f == [i \in LoanSlots |-> Accrues(p.loans[i], T)]
<1>1. \A i \in LoanSlots : f[i] \in Nat
  BY AccruesNat DEF Position
<1> HIDE DEF f
<1>2. SumOver(f, LoanSlots) \in Nat
  BY <1>1, FiniteIndexes, SumIsNat
<1> QED  BY <1>2 DEF f, Accruals

\* Between two times a position accrues at most its contributions.
LEMMA AccrualsGrow ==
  ASSUME NEW p \in Position, NEW T \in Nat, NEW U \in Nat, T <= U
  PROVE  Accruals(p.loans, U) <= Accruals(p.loans, T) + Contributions(p.loans) * (U - T)
<1> DEFINE f == [i \in LoanSlots |-> Accrues(p.loans[i], T)]
           g == [i \in LoanSlots |-> Accrues(p.loans[i], U)]
           c == [i \in LoanSlots |-> Contribution(p.loans[i])]
           k == U - T
<1>1. k \in Nat
  OBVIOUS
<1>2. ASSUME NEW i \in LoanSlots
      PROVE  /\ f[i] \in Nat /\ g[i] \in Nat /\ c[i] \in Nat
             /\ g[i] <= f[i] + c[i] * k
  <2> DEFINE loan == p.loans[i]
             s == SecondsBetween(loan.interest_anchor, T)
             u == SecondsBetween(loan.interest_anchor, U)
  <2>1. loan \in Loan
    BY DEF Position
  <2>2. Contribution(loan) \in Nat /\ s \in Nat /\ u \in Nat /\ u <= s + k
    BY <2>1, ContributionIsNat DEF SecondsBetween, Loan
  <2>3. f[i] = Contribution(loan) * s /\ g[i] = Contribution(loan) * u /\ c[i] = Contribution(loan)
    BY DEF Accrues
  <2>4. \A x, y, z, w \in Nat : y <= z + w =>
           x * y \in Nat /\ x * z \in Nat /\ x * y <= x * z + x * w
    OBVIOUS
  <2> HIDE DEF f, g, c, k, loan, s, u
  <2> QED  BY <1>1, <2>2, <2>3, <2>4
<1>3. /\ SumOver(f, LoanSlots) = Accruals(p.loans, T)
      /\ SumOver(g, LoanSlots) = Accruals(p.loans, U)
      /\ SumOver(c, LoanSlots) = Contributions(p.loans)
  BY DEF Accruals, Contributions
<1> HIDE DEF f, g, c, k
<1>4. SumOver(g, LoanSlots) <= SumOver(f, LoanSlots) + SumOver(c, LoanSlots) * k
  BY <1>1, <1>2, FiniteIndexes, SumOfDominated
<1> QED  BY <1>3, <1>4 DEF k

\* Changing one slot changes what the position has accrued by that loan.
LEMMA OneLoanAccrues ==
  ASSUME NEW p \in Position, NEW q \in Position, NEW i \in LoanSlots, NEW T \in Nat,
         \A j \in LoanSlots : j # i => q.loans[j] = p.loans[j]
  PROVE  Accruals(q.loans, T)
           = Accruals(p.loans, T) + Accrues(q.loans[i], T) - Accrues(p.loans[i], T)
<1> DEFINE f == [j \in LoanSlots |-> Accrues(p.loans[j], T)]
           g == [j \in LoanSlots |-> Accrues(q.loans[j], T)]
<1>1. /\ \A j \in LoanSlots : f[j] \in Nat /\ g[j] \in Nat
      /\ \A j \in LoanSlots : j # i => f[j] = g[j]
  BY AccruesNat DEF Position
<1>2. f[i] = Accrues(p.loans[i], T) /\ g[i] = Accrues(q.loans[i], T)
  OBVIOUS
<1>3. SumOver(f, LoanSlots) = Accruals(p.loans, T) /\ SumOver(g, LoanSlots) = Accruals(q.loans, T)
  BY DEF Accruals
<1> HIDE DEF f, g
<1>4. SumOver(g, LoanSlots) = SumOver(f, LoanSlots) + g[i] - f[i]
  BY <1>1, FiniteIndexes, SumOfOneChange
<1> QED  BY <1>2, <1>3, <1>4

\* A market's accrual puts the whole product of the time that passed into the pool: what
\* does not divide is carried, not dropped.
LEMMA AccrueFillsThePool ==
  ASSUME NEW m \in Market, now \in Nat, m.last_accrual_ts <= now
  PROVE  /\ Accrue(m).last_accrual_ts = now
         /\ Pool(Accrue(m)) = Pool(m) + m.lp_rate_product * (now - m.last_accrual_ts)
<1> DEFINE elapsed == now - m.last_accrual_ts
           numerator == m.lp_rate_product * elapsed + m.accrual_remainder
           q == numerator \div AccrualUnit
           r == numerator % AccrualUnit
<1>1. /\ elapsed \in Nat /\ m.lp_rate_product \in Nat /\ m.accrual_remainder \in Nat
      /\ m.accrued_interest \in Nat /\ m.last_accrual_ts \in Nat
  BY DEF Market
<1>2. m.lp_rate_product * elapsed \in Nat
  BY <1>1, ProductNat
<1>3. numerator \in Nat
  BY <1>1, <1>2
<1>4. CASE now <= m.last_accrual_ts
  <2>1. elapsed = 0 /\ Accrue(m) = m
    BY <1>1, <1>4 DEF Accrue
  <2>2. m.lp_rate_product * elapsed = 0
    BY <1>1, <2>1
  <2>3. Pool(m) \in Int
    BY <1>1, UnitsType DEF Pool
  <2> QED  BY <1>1, <1>4, <2>1, <2>2, <2>3
<1>5. CASE ~(now <= m.last_accrual_ts)
  <2>1. /\ Accrue(m).accrued_interest = m.accrued_interest + q
        /\ Accrue(m).accrual_remainder = r
        /\ Accrue(m).last_accrual_ts = now
    BY <1>5 DEF Accrue, AccrueLpInterest, Market
  <2>2. q \in Nat /\ r \in Nat /\ numerator = q * AccrualUnit + r
    <3> HIDE DEF numerator
    <3> QED  BY <1>3, UnitsType, DivNat, ModNat, DivMod
  <2> HIDE DEF q, r
  <2>3. (m.accrued_interest + q) * AccrualUnit
          = m.accrued_interest * AccrualUnit + q * AccrualUnit
    BY <1>1, <2>2, UnitsType
  <2>4. m.accrued_interest * AccrualUnit \in Nat /\ q * AccrualUnit \in Nat
    BY <1>1, <2>2, UnitsType, ProductNat
  <2> QED  BY <1>1, <1>2, <2>1, <2>2, <2>3, <2>4 DEF Pool
<1> QED  BY <1>4, <1>5

\* Brought up to now, the pool covers what every loan has accrued by now: the loans grow
\* by their contributions, which are the product the pool grows by.
LEMMA AccrueCovers ==
  ASSUME TypeOK, BooksInv, AccrualInv
  PROVE  /\ Accrue(market).last_accrual_ts = now
         /\ SumOver(AccrualsBy(now), Borrowers) <= Pool(Accrue(market))
<1> DEFINE T == market.last_accrual_ts
           f == AccrualsBy(T)
           g == AccrualsBy(now)
           c == ContributedBy
           k == now - T
<1>1. market \in Market /\ now \in Nat /\ T \in Nat /\ T <= now /\ k \in Nat
  BY DEF TypeOK, Market, AccrualInv
<1>2. ASSUME NEW b \in Borrowers
      PROVE  /\ f[b] \in Nat /\ g[b] \in Nat /\ c[b] \in Nat
             /\ g[b] <= f[b] + c[b] * k
  <2>1. position[b] \in Position
    BY DEF TypeOK
  <2>2. /\ f[b] = Accruals(position[b].loans, T)
        /\ g[b] = Accruals(position[b].loans, now)
        /\ c[b] = Contributions(position[b].loans)
    BY DEF AccrualsBy, ContributedBy
  <2> HIDE DEF f, g, c, T
  <2> QED  BY <1>1, <2>1, <2>2, AccrualsNat, PartsAreNat, AccrualsGrow DEF k
<1> HIDE DEF f, g, c, k
<1>3. SumOver(g, Borrowers) <= SumOver(f, Borrowers) + SumOver(c, Borrowers) * k
  BY <1>1, <1>2, FiniteIndexes, SumOfDominated
<1>4. /\ SumOver(f, Borrowers) \in Nat /\ SumOver(g, Borrowers) \in Nat
      /\ SumOver(c, Borrowers) \in Nat
  BY <1>2, FiniteIndexes, SumIsNat
<1>5. SumOver(f, Borrowers) <= Pool(market) /\ SumOver(c, Borrowers) = market.lp_rate_product
  BY DEF AccrualInv, BooksInv, f, c
<1>6. /\ Accrue(market).last_accrual_ts = now
      /\ Pool(Accrue(market)) = Pool(market) + market.lp_rate_product * k
  BY <1>1, AccrueFillsThePool DEF k
<1>7. Pool(market) \in Int
  BY <1>1, UnitsType DEF Pool, Market
<1>8. SumOver(c, Borrowers) * k \in Nat
  BY <1>1, <1>4, ProductNat
<1> QED  BY <1>3, <1>4, <1>5, <1>6, <1>7, <1>8 DEF g

\* Whatever takes the pool over, and raises no accrual, keeps it covered.
LEMMA StayingKeepsAccrual ==
  ASSUME TypeOK, TypeOK', BooksInv, AccrualInv, PoolStays, NoneAccruesMore
  PROVE  AccrualInv'
<1>1. PICK m \in {market, Accrue(market)} :
         /\ market'.accrued_interest = m.accrued_interest
         /\ market'.accrual_remainder = m.accrual_remainder
         /\ market'.last_accrual_ts = m.last_accrual_ts
  BY DEF PoolStays
<1> DEFINE T == market'.last_accrual_ts
           f == AccrualsBy(T)
           g == [b \in Borrowers |-> Accruals(position'[b].loans, T)]
<1>2. now \in Nat /\ now' \in Nat /\ now <= now' /\ T \in Nat /\ T <= now
  BY <1>1, AccrueCovers DEF TypeOK, Market, PoolStays, AccrualInv
<1>3. SumOver(f, Borrowers) <= Pool(m)
  <2>1. CASE m = market
    BY <1>1, <2>1 DEF AccrualInv
  <2>2. CASE m = Accrue(market)
    BY <1>1, <2>2, AccrueCovers
  <2> QED  BY <2>1, <2>2
<1>4. Pool(market)' = Pool(m)
  BY <1>1 DEF Pool, AccrualUnit
<1>5. ASSUME NEW b \in Borrowers
      PROVE  /\ f[b] \in Nat /\ g[b] \in Nat /\ g[b] <= f[b] + f[b] * 0
  <2>1. position[b] \in Position /\ position'[b] \in Position
    BY DEF TypeOK
  <2>2. f[b] = Accruals(position[b].loans, T) /\ g[b] = Accruals(position'[b].loans, T)
    BY DEF AccrualsBy
  <2>3. g[b] <= f[b]
    BY <1>2, <2>2 DEF NoneAccruesMore
  <2>4. f[b] \in Nat /\ g[b] \in Nat
    BY <1>2, <2>1, <2>2, AccrualsNat
  <2> HIDE DEF f, g
  <2> QED  BY <2>3, <2>4
<1>6. SumOver(AccrualsBy(market.last_accrual_ts), Borrowers)' = SumOver(g, Borrowers)
  BY DEF AccrualsBy
<1> HIDE DEF f, g
<1>7. SumOver(g, Borrowers) <= SumOver(f, Borrowers) + SumOver(f, Borrowers) * 0
  BY <1>5, FiniteIndexes, SumOfDominated
<1>8. SumOver(f, Borrowers) \in Nat /\ SumOver(g, Borrowers) \in Nat
  BY <1>5, FiniteIndexes, SumIsNat
<1>9. Pool(m) \in Int
  <2>1. m \in Market
    BY <1>2, AccrueType DEF TypeOK
  <2> QED  BY <2>1, UnitsType DEF Pool, Market
<1>10. SumOver(g, Borrowers) <= Pool(m)
  BY <1>3, <1>7, <1>8, <1>9
<1> QED  BY <1>2, <1>4, <1>6, <1>10 DEF AccrualInv

\* A settled loan takes no more out of the pool than it has accrued: its interest is
\* rounded down, and where the pool runs out nobody else has accrued anything.
LEMMA SettlingKeepsAccrual ==
  ASSUME TypeOK, TypeOK', BooksInv, AccrualInv, NEW b \in Borrowers, SettlesAccrual(b)
  PROVE  AccrualInv'
<1> DEFINE m == Accrue(market)
           p == position[b]
           q == position'[b]
<1>1. PICK i \in LoanSlots, x \in Nat :
         /\ \A j \in LoanSlots : j # i => q.loans[j] = p.loans[j]
         /\ market'.accrued_interest
              = SatSub(m.accrued_interest, AccruedLpInterest(x, p.loans[i], now))
         /\ market'.accrual_remainder = m.accrual_remainder
         /\ market'.last_accrual_ts = m.last_accrual_ts
         /\ Accrues(q.loans[i], now)
              + LpContribution(x, p.loans[i].rate_bps, p.loans[i].reserve_factor_bps)
                  * SecondsBetween(p.loans[i].interest_anchor, now)
              <= Accrues(p.loans[i], now)
  BY DEF SettlesAccrual
<1> DEFINE loan == p.loans[i]
           c == LpContribution(x, loan.rate_bps, loan.reserve_factor_bps)
                  * SecondsBetween(loan.interest_anchor, now)
           d == AccruedLpInterest(x, loan, now)
           f == AccrualsBy(now)
           g == [a \in Borrowers |-> Accruals(position'[a].loans, now)]
<1>2. /\ now \in Nat /\ now' = now /\ m.last_accrual_ts = now
      /\ SumOver(f, Borrowers) <= Pool(m)
  BY AccrueCovers DEF TypeOK, SettlesAccrual
<1>3. p \in Position /\ q \in Position /\ loan \in Loan /\ q.loans[i] \in Loan /\ m \in Market
  BY <1>2, AccrueType DEF TypeOK, Position
<1>4. c \in Nat /\ d \in Nat /\ d * AccrualUnit <= c
  <2>1. LpContribution(x, loan.rate_bps, loan.reserve_factor_bps) \in Nat
    BY <1>3, ContributionNat DEF Loan
  <2>2. SecondsBetween(loan.interest_anchor, now) \in Nat
    BY <1>2, <1>3, SecondsNat DEF Loan
  <2>3. c \in Nat
    BY <2>1, <2>2, ProductNat
  <2>4. d = c \div AccrualUnit
    BY DEF AccruedLpInterest, MulDivFloor
  <2> HIDE DEF c, d
  <2> QED  BY <2>3, <2>4, UnitsType, DivNat, DivLe
<1>5. Accrues(q.loans[i], now) + c <= Accrues(loan, now)
  BY <1>1
<1>6. /\ Accruals(q.loans, now) = Accruals(p.loans, now) + Accrues(q.loans[i], now)
                                    - Accrues(loan, now)
      /\ Accruals(p.loans, now) \in Nat /\ Accruals(q.loans, now) \in Nat
      /\ Accrues(q.loans[i], now) \in Nat /\ Accrues(loan, now) \in Nat
  BY <1>1, <1>2, <1>3, OneLoanAccrues, AccrualsNat, AccruesNat
<1>7. SumOver(g, Borrowers) = SumOver(f, Borrowers) + g[b] - f[b]
  <2>1. \A a \in Borrowers : /\ f[a] = Accruals(position[a].loans, now)
                             /\ g[a] = Accruals(position'[a].loans, now)
    BY DEF AccrualsBy
  <2>2. \A a \in Borrowers : f[a] \in Nat /\ g[a] \in Nat
    BY <1>2, <2>1, AccrualsNat DEF TypeOK
  <2>3. \A a \in Borrowers : a # b => f[a] = g[a]
    BY <2>1 DEF SettlesAccrual
  <2> HIDE DEF f, g
  <2> QED  BY <2>2, <2>3, FiniteIndexes, SumOfOneChange
<1>8. /\ f[b] = Accruals(p.loans, now) /\ g[b] = Accruals(q.loans, now)
      /\ SumOver(f, Borrowers) \in Nat
  <2>1. \A a \in Borrowers : f[a] \in Nat
    BY <1>2, AccrualsNat DEF TypeOK, AccrualsBy
  <2>2. f[b] = Accruals(p.loans, now) /\ g[b] = Accruals(q.loans, now)
    BY DEF AccrualsBy
  <2> HIDE DEF f, g
  <2> QED  BY <2>1, <2>2, FiniteIndexes, SumIsNat
<1>9. /\ m.accrued_interest \in Nat /\ m.accrual_remainder \in Nat
      /\ market'.accrued_interest = SatSub(m.accrued_interest, d)
      /\ market'.accrual_remainder = m.accrual_remainder
  BY <1>1, <1>3 DEF Market
<1>10. SumOver(AccrualsBy(market.last_accrual_ts), Borrowers)' = SumOver(g, Borrowers)
  <2>1. market'.last_accrual_ts = now
    BY <1>1, <1>2
  <2> QED  BY <2>1 DEF AccrualsBy
<1> HIDE DEF c, d, f, g, m, p, q, loan
<1>11. SumOver(g, Borrowers) + c <= Pool(m)
  <2>1. Pool(m) \in Int
    BY <1>9, UnitsType DEF Pool
  <2> QED  BY <1>2, <1>4, <1>5, <1>6, <1>7, <1>8, <2>1
<1>12. Pool(m) - d * AccrualUnit <= Pool(market)'
  <2>1. /\ Pool(m) = m.accrued_interest * AccrualUnit + m.accrual_remainder
        /\ Pool(market)' = SatSub(m.accrued_interest, d) * AccrualUnit + m.accrual_remainder
    BY <1>9 DEF Pool, AccrualUnit
  <2>2. AccrualUnit \in Nat
    BY UnitsType
  <2>3. CASE m.accrued_interest >= d
    <3>1. (m.accrued_interest - d) * AccrualUnit
            = m.accrued_interest * AccrualUnit - d * AccrualUnit
      BY <1>4, <1>9, <2>2
    <3>2. m.accrued_interest * AccrualUnit \in Nat /\ d * AccrualUnit \in Nat
      BY <1>4, <1>9, <2>2, ProductNat
    <3> QED  BY <1>9, <2>1, <2>3, <3>1, <3>2 DEF SatSub
  <2>4. CASE m.accrued_interest < d
    <3>1. \A x1, y1, z1 \in Nat : x1 < y1 => x1 * z1 <= y1 * z1
      OBVIOUS
    <3>2. m.accrued_interest * AccrualUnit <= d * AccrualUnit
      BY <1>4, <1>9, <2>2, <2>4, <3>1
    <3>3. m.accrued_interest * AccrualUnit \in Nat /\ d * AccrualUnit \in Nat
      BY <1>4, <1>9, <2>2, ProductNat
    <3>4. SatSub(m.accrued_interest, d) * AccrualUnit = 0
      <4>1. SatSub(m.accrued_interest, d) = 0
        BY <1>4, <1>9, <2>4 DEF SatSub
      <4> QED  BY <2>2, <4>1
    <3> QED  BY <1>9, <2>1, <3>2, <3>3, <3>4
  <2> QED  BY <1>4, <1>9, <2>3, <2>4
<1>13. SumOver(g, Borrowers) <= Pool(market)'
  <2>1. Pool(m) \in Int /\ Pool(market)' \in Int /\ SumOver(g, Borrowers) \in Int
    <3>1. market' \in Market
      BY DEF TypeOK
    <3> QED  BY <1>6, <1>7, <1>8, <1>9, <3>1, UnitsType DEF Pool, Market, AccrualUnit
  <2>2. d * AccrualUnit \in Nat
    BY <1>4, UnitsType, ProductNat
  <2> HIDE DEF Pool
  <2> QED  BY <1>4, <1>11, <1>12, <2>1, <2>2
<1>14. market'.last_accrual_ts <= now'
  BY <1>1, <1>2 DEF m
<1> QED  BY <1>10, <1>13, <1>14 DEF AccrualInv

\* What repay_loan, liquidate and write_off_loan share: the part x of a principal is
\* settled, and what is left of the loan is nothing, or starts over, or is the rest of it.
LEMMA PaymentSettles ==
  ASSUME TypeOK, TypeOK', NEW b \in Borrowers, NEW i \in LoanSlots, NEW x \in Nat,
         NEW loan, loan = position[b].loans[i], NEW left, left = position'[b].loans[i],
         now' = now,
         \A c \in Borrowers \ {b} : position'[c] = position[c],
         \A j \in LoanSlots : j # i => position'[b].loans[j] = position[b].loans[j],
         market'.accrued_interest
           = SatSub(Accrue(market).accrued_interest, AccruedLpInterest(x, loan, now)),
         market'.accrual_remainder = Accrue(market).accrual_remainder,
         market'.last_accrual_ts = Accrue(market).last_accrual_ts,
         \/ x = loan.principal /\ (left = FreeSlot \/ left.interest_anchor = now)
         \/ /\ x <= loan.principal /\ left.principal = loan.principal - x
            /\ left.rate_bps = loan.rate_bps
            /\ left.reserve_factor_bps = loan.reserve_factor_bps
            /\ left.interest_anchor = loan.interest_anchor
  PROVE  SettlesAccrual(b)
<1> DEFINE c == LpContribution(x, loan.rate_bps, loan.reserve_factor_bps)
           s == SecondsBetween(loan.interest_anchor, now)
<1>1. loan \in Loan /\ left \in Loan /\ now \in Nat
  BY DEF TypeOK, Position
<1>2. /\ Contribution(loan) \in Nat /\ Contribution(left) \in Nat
      /\ s \in Nat /\ c \in Nat
      /\ Accrues(loan, now) \in Nat /\ Accrues(left, now) \in Nat
  <2>1. s \in Nat /\ c \in Nat
    BY <1>1, SecondsNat, ContributionNat DEF Loan
  <2> QED  BY <1>1, <2>1, ContributionIsNat, AccruesNat
<1>3. Accrues(left, now) + c * s <= Accrues(loan, now)
  <2>1. CASE x = loan.principal /\ (left = FreeSlot \/ left.interest_anchor = now)
    <3>1. Accrues(left, now) = 0
      BY <1>1, <2>1, AccruesNat DEF FreeSlot
    <3>2. c * s = Accrues(loan, now)
      BY <2>1 DEF Accrues, Contribution
    <3> QED  BY <1>2, <3>1, <3>2
  <2>2. CASE /\ x <= loan.principal /\ left.principal = loan.principal - x
             /\ left.rate_bps = loan.rate_bps
             /\ left.reserve_factor_bps = loan.reserve_factor_bps
             /\ left.interest_anchor = loan.interest_anchor
    <3>1. Contribution(left) = Contribution(loan) - c
      BY <1>1, <2>2, PartPaid
    <3>2. Accrues(left, now) = Contribution(left) * s /\ Accrues(loan, now) = Contribution(loan) * s
      BY <2>2 DEF Accrues
    <3> HIDE DEF c, s
    <3>3. \A u, v, w, k \in Nat : u = v - w => u * k + w * k = v * k
      OBVIOUS
    <3>4. Contribution(left) * s + c * s = Contribution(loan) * s
      BY <1>2, <3>1, <3>3
    <3> QED  BY <1>2, <3>2, <3>4
  <2> QED  BY <2>1, <2>2
<1> QED  BY <1>3 DEF SettlesAccrual

-----------------------------------------------------------------------------
(* Every handler moves one position with its totals, or nothing *)

\* A position's loans cost nothing while every slot is empty.
LEMMA EmptyOwesNothing ==
  /\ Principals(EmptyPosition.loans) = 0
  /\ Contributions(EmptyPosition.loans) = 0
<1> DEFINE f == [i \in LoanSlots |-> EmptyPosition.loans[i].principal]
           g == [i \in LoanSlots |-> Contribution(EmptyPosition.loans[i])]
<1>1. \A i \in LoanSlots : EmptyPosition.loans[i] = FreeSlot
  BY DEF EmptyPosition
<1>2. FreeSlot.principal = 0 /\ Contribution(FreeSlot) = 0
  <2>1. BPS - 0 \in Nat
    BY ScalesArePositive
  <2> QED  BY <2>1 DEF FreeSlot, Contribution, LpContribution
<1>3. \A i \in LoanSlots : f[i] = 0 /\ g[i] = 0
  BY <1>1, <1>2
<1>4. SumOver(f, LoanSlots) = Principals(EmptyPosition.loans)
      /\ SumOver(g, LoanSlots) = Contributions(EmptyPosition.loans)
  BY DEF Principals, Contributions
<1> HIDE DEF f, g
<1>5. SumOver(f, LoanSlots) = 0 /\ SumOver(g, LoanSlots) = 0
  BY <1>3, FiniteIndexes, SumOfZeros
<1> QED  BY <1>4, <1>5

\* Nothing is owed by a position without active loans.
LEMMA IdleOwesNothing ==
  ASSUME NEW p \in Position, ~HasActiveLoans(p),
         \A i \in LoanSlots : ~p.loans[i].active => p.loans[i].principal = 0
  PROVE  Principals(p.loans) = 0 /\ Contributions(p.loans) = 0
<1> DEFINE f == [i \in LoanSlots |-> p.loans[i].principal]
           g == [i \in LoanSlots |-> Contribution(p.loans[i])]
<1>1. \A i \in LoanSlots : p.loans[i].principal = 0
  BY DEF HasActiveLoans
<1>2. \A i \in LoanSlots : Contribution(p.loans[i]) = 0
  <2>1. ASSUME NEW i \in LoanSlots PROVE Contribution(p.loans[i]) = 0
    <3>1. p.loans[i].rate_bps \in Nat /\ BPS - p.loans[i].reserve_factor_bps \in Nat
      BY ScalesArePositive DEF Position, Loan
    <3> QED  BY <1>1, <3>1 DEF Contribution, LpContribution
  <2> QED  BY <2>1
<1>3. \A i \in LoanSlots : f[i] = 0 /\ g[i] = 0
  BY <1>1, <1>2
<1>4. SumOver(f, LoanSlots) = Principals(p.loans)
      /\ SumOver(g, LoanSlots) = Contributions(p.loans)
  BY DEF Principals, Contributions
<1> HIDE DEF f, g
<1>5. SumOver(f, LoanSlots) = 0 /\ SumOver(g, LoanSlots) = 0
  BY <1>3, FiniteIndexes, SumOfZeros
<1> QED  BY <1>4, <1>5

\* open_position starts from an account without balances.
LEMMA OpenMoves ==
  ASSUME TypeOK, BooksInv, NEW b \in Borrowers, OpenPosition(b)
  PROVE  MovesWith(b)
<1>1. position[b] = EmptyPosition
  BY DEF OpenPosition, BooksInv
<1>2. position'[b] = [EmptyPosition EXCEPT !.open = TRUE]
  BY DEF OpenPosition, TypeOK
<1>3. /\ position'[b].loans = EmptyPosition.loans
      /\ position'[b].promo_balance = EmptyPosition.promo_balance
      /\ position'[b].collateral = EmptyPosition.collateral
      /\ position'[b].open
  BY <1>2 DEF EmptyPosition
<1>4. /\ \A c \in Borrowers \ {b} : position'[c] = position[c]
      /\ UNCHANGED <<market, collateral, promo_vault>>
  BY DEF OpenPosition, TypeOK
<1>5. \A i \in LoanSlots : EmptyPosition.loans[i].principal = 0
  BY DEF EmptyPosition, FreeSlot
<1>6. /\ market.total_borrows \in Nat /\ market.lp_rate_product \in Nat
      /\ promo_vault.outstanding \in Nat
      /\ \A a \in Assets : collateral[a].total_deposited \in Nat
      /\ position[b] \in Position
  BY DEF TypeOK, Market
<1>7. /\ Principals(position[b].loans) \in Nat /\ Contributions(position[b].loans) \in Nat
      /\ position[b].promo_balance \in Nat
      /\ \A a \in Assets : position[b].collateral[a] \in Nat
  BY <1>6, PartsAreNat
<1> QED  BY <1>1, <1>3, <1>4, <1>5, <1>6, <1>7 DEF MovesWith

\* close_position drops a position that owes and holds nothing but promo.
LEMMA CloseMoves ==
  ASSUME TypeOK, BooksInv, NEW b \in Borrowers, ClosePosition(b)
  PROVE  MovesWith(b)
<1> DEFINE p == position[b]
<1>1. p \in Position /\ ~HasActiveLoans(p) /\ ~HasCollateral(p)
  BY DEF TypeOK, ClosePosition
<1>2. Principals(p.loans) = 0 /\ Contributions(p.loans) = 0
  BY <1>1, IdleOwesNothing DEF BooksInv
<1>3. \A a \in Assets : p.collateral[a] = 0
  BY <1>1 DEF HasCollateral, Position
<1>4. position'[b] = EmptyPosition /\ \A c \in Borrowers \ {b} : position'[c] = position[c]
  BY DEF ClosePosition, TypeOK
<1>5. /\ UNCHANGED <<market, collateral>>
      /\ promo_vault'.outstanding = promo_vault.outstanding - p.promo_balance
  BY DEF ClosePosition, TypeOK
<1>6. /\ EmptyPosition.promo_balance = 0
      /\ \A a \in Assets : EmptyPosition.collateral[a] = 0
      /\ \A i \in LoanSlots : EmptyPosition.loans[i].principal = 0
  BY DEF EmptyPosition, FreeSlot
<1>7. /\ market.total_borrows \in Nat /\ market.lp_rate_product \in Nat
      /\ promo_vault.outstanding \in Nat /\ p.promo_balance \in Nat
      /\ \A a \in Assets : collateral[a].total_deposited \in Nat
  BY <1>1 DEF TypeOK, Market, Position
<1> QED
  BY <1>2, <1>3, <1>4, <1>5, <1>6, <1>7, EmptyOwesNothing DEF MovesWith

\* A step that leaves the loans alone moves with its position if the promo and
\* the collateral do.
LEMMA LoansStay ==
  ASSUME TypeOK, TypeOK', BooksInv, NEW b \in Borrowers,
         \A c \in Borrowers \ {b} : position'[c] = position[c],
         position'[b].loans = position[b].loans, position'[b].open,
         UNCHANGED market,
         promo_vault'.outstanding
           = promo_vault.outstanding + position'[b].promo_balance - position[b].promo_balance,
         \A a \in Assets : collateral'[a].total_deposited
           = collateral[a].total_deposited + position'[b].collateral[a] - position[b].collateral[a]
  PROVE  MovesWith(b)
<1>1. /\ market.total_borrows \in Nat /\ market.lp_rate_product \in Nat
      /\ position[b] \in Position
  BY DEF TypeOK, Market
<1>2. Principals(position[b].loans) \in Nat /\ Contributions(position[b].loans) \in Nat
  BY <1>1, PartsAreNat
<1>3. \A i \in LoanSlots : ~position[b].loans[i].active => position[b].loans[i].principal = 0
  BY DEF BooksInv
<1> QED  BY <1>1, <1>2, <1>3 DEF MovesWith

\* Collateral moves between the wallet and one slot, and the total with it.
LEMMA CollateralMoves ==
  ASSUME TypeOK, TypeOK', BooksInv, NEW b \in Borrowers, CollateralStep(b)
  PROVE  MovesWith(b)
<1> DEFINE p == position[b]
<1>1. PICK a \in Assets, amount \in CollateralAmounts :
         \/ DepositCollateral(b, a, amount)
         \/ \E view \in PriceViews : WithdrawCollateral(b, a, amount, view)
  BY DEF CollateralStep
<1>2. /\ amount \in Nat /\ p \in Position /\ p.open
      /\ \A c \in Assets : p.collateral[c] \in Nat /\ collateral[c].total_deposited \in Nat
      /\ promo_vault.outstanding \in Nat /\ p.promo_balance \in Nat
  BY <1>1, InputsAreNaturals
  DEF TypeOK, Position, DepositCollateral, WithdrawCollateral
<1>3. /\ \A c \in Borrowers \ {b} : position'[c] = position[c]
      /\ UNCHANGED <<market, promo_vault>>
  BY <1>1 DEF TypeOK, DepositCollateral, WithdrawCollateral
<1>4. CASE DepositCollateral(b, a, amount)
  <2>1. /\ position'[b] = [p EXCEPT !.collateral[a] = @ + amount]
        /\ collateral' = [collateral EXCEPT ![a].total_deposited = @ + amount]
    BY <1>4 DEF TypeOK, DepositCollateral
  <2>2. /\ position'[b].loans = p.loans /\ position'[b].open
        /\ position'[b].promo_balance = p.promo_balance
        /\ position'[b].collateral = [p.collateral EXCEPT ![a] = @ + amount]
    BY <1>2, <2>1 DEF Position
  <2>3. ASSUME NEW c \in Assets
        PROVE  collateral'[c].total_deposited
                 = collateral[c].total_deposited + position'[b].collateral[c] - p.collateral[c]
    <3>1. CASE c = a
      <4>1. position'[b].collateral[c] = p.collateral[c] + amount
        BY <1>2, <2>2, <3>1 DEF Position
      <4>2. collateral'[c].total_deposited = collateral[c].total_deposited + amount
        BY <2>1, <3>1 DEF TypeOK
      <4> QED  BY <1>2, <4>1, <4>2
    <3>2. CASE c # a
      <4>1. position'[b].collateral[c] = p.collateral[c]
        BY <1>2, <2>2, <3>2 DEF Position
      <4>2. collateral'[c] = collateral[c]
        BY <2>1, <3>2 DEF TypeOK
      <4> QED  BY <1>2, <4>1, <4>2
    <3> QED  BY <3>1, <3>2
  <2>4. promo_vault'.outstanding
          = promo_vault.outstanding + position'[b].promo_balance - p.promo_balance
    BY <1>2, <1>3, <2>2
  <2> QED  BY <1>3, <2>2, <2>3, <2>4, LoansStay
<1>5. ASSUME NEW view \in PriceViews, WithdrawCollateral(b, a, amount, view)
      PROVE  MovesWith(b)
  <2>1. /\ position'[b] = [p EXCEPT !.collateral[a] = @ - amount]
        /\ collateral' = [collateral EXCEPT ![a].total_deposited = @ - amount]
    BY <1>5 DEF TypeOK, WithdrawCollateral
  <2>2. /\ position'[b].loans = p.loans /\ position'[b].open
        /\ position'[b].promo_balance = p.promo_balance
        /\ position'[b].collateral = [p.collateral EXCEPT ![a] = @ - amount]
    BY <1>2, <2>1 DEF Position
  <2>3. ASSUME NEW c \in Assets
        PROVE  collateral'[c].total_deposited
                 = collateral[c].total_deposited + position'[b].collateral[c] - p.collateral[c]
    <3>1. CASE c = a
      <4>1. position'[b].collateral[c] = p.collateral[c] - amount
        BY <1>2, <2>2, <3>1 DEF Position
      <4>2. collateral'[c].total_deposited = collateral[c].total_deposited - amount
        BY <2>1, <3>1 DEF TypeOK
      <4> QED  BY <1>2, <4>1, <4>2
    <3>2. CASE c # a
      <4>1. position'[b].collateral[c] = p.collateral[c]
        BY <1>2, <2>2, <3>2 DEF Position
      <4>2. collateral'[c] = collateral[c]
        BY <2>1, <3>2 DEF TypeOK
      <4> QED  BY <1>2, <4>1, <4>2
    <3> QED  BY <3>1, <3>2
  <2>4. promo_vault'.outstanding
          = promo_vault.outstanding + position'[b].promo_balance - p.promo_balance
    BY <1>2, <1>3, <2>2
  <2> QED  BY <1>3, <2>2, <2>3, <2>4, LoansStay
<1> QED  BY <1>1, <1>4, <1>5

\* A promo instruction moves one balance and the outstanding promo with it.
LEMMA PromoMoves ==
  ASSUME TypeOK, TypeOK', BooksInv, NEW b \in Borrowers, PromoStep(b)
  PROVE  MovesWith(b)
<1> DEFINE p == position[b]
<1>1. /\ p \in Position /\ p.open /\ p.promo_balance \in Nat
      /\ promo_vault \in PromoVault /\ promo_vault.outstanding \in Nat
      /\ \A a \in Assets : p.collateral[a] \in Nat /\ collateral[a].total_deposited \in Nat
  BY DEF PromoStep, RedeemPromo, ExpirePromo, RevokePromo, TypeOK, Position, PromoVault
<1>2. /\ \A c \in Borrowers \ {b} : position'[c] = position[c]
      /\ UNCHANGED <<market, collateral>>
  BY DEF PromoStep, RedeemPromo, ExpirePromo, RevokePromo, TypeOK
<1>3. /\ position'[b].open
      /\ position'[b].loans = p.loans
      /\ position'[b].collateral = p.collateral
      /\ promo_vault'.outstanding
           = promo_vault.outstanding + position'[b].promo_balance - p.promo_balance
  <2>1. ASSUME NEW amount \in PromoAmounts, RedeemPromo(b, amount) PROVE <1>3
    <3>1. position'[b] = [p EXCEPT !.promo_balance = @ + amount, !.promo_last_activity_at = now]
      BY <2>1 DEF RedeemPromo, TypeOK
    <3>2. promo_vault'.outstanding = promo_vault.outstanding + amount
      BY <1>1, <2>1 DEF RedeemPromo, PromoVault
    <3>3. amount \in Nat
      BY InputsAreNaturals
    <3>4. /\ position'[b].open /\ position'[b].loans = p.loans
          /\ position'[b].collateral = p.collateral
          /\ position'[b].promo_balance = p.promo_balance + amount
      BY <1>1, <3>1 DEF Position
    <3> QED  BY <1>1, <3>2, <3>3, <3>4
  <2>2. ASSUME /\ position' = [position EXCEPT ![b] = [p EXCEPT !.promo_balance = 0]]
               /\ promo_vault' = [promo_vault EXCEPT !.outstanding = @ - p.promo_balance]
        PROVE  <1>3
    <3>1. position'[b] = [p EXCEPT !.promo_balance = 0]
      BY <2>2 DEF TypeOK
    <3>2. promo_vault'.outstanding = promo_vault.outstanding - p.promo_balance
      BY <1>1, <2>2 DEF PromoVault
    <3>3. /\ position'[b].open /\ position'[b].loans = p.loans
          /\ position'[b].collateral = p.collateral
          /\ position'[b].promo_balance = 0
      BY <1>1, <3>1 DEF Position
    <3> QED  BY <1>1, <3>2, <3>3
  <2> QED  BY <2>1, <2>2 DEF PromoStep, ExpirePromo, RevokePromo
<1>4. \A a \in Assets : collateral'[a].total_deposited
        = collateral[a].total_deposited + position'[b].collateral[a] - p.collateral[a]
  BY <1>1, <1>2, <1>3
<1> QED  BY <1>2, <1>3, <1>4, LoansStay

\* take_loan fills a free slot, which owed nothing; the promo it may release
\* leaves the position and the outstanding promo alike.
LEMMA TakeMoves ==
  ASSUME TypeOK, TypeOK', BooksInv, NEW b \in Borrowers, NEW amount \in LoanAmounts,
         NEW tenure \in Tenures, NEW view \in PriceViews, TakeLoan(b, amount, tenure, view)
  PROVE  MovesWith(b) /\ PoolStays /\ NoneAccruesMore
<1> DEFINE m == Accrue(market)
           p == position[b]
           expired == IF PromoDue(p) THEN p.promo_balance ELSE 0
           q == [p EXCEPT !.promo_balance = @ - expired]
           loan == NewLoan(p.next_loan_id, amount, tenure)
<1>1. /\ p \in Position /\ position'[b] \in Position
      /\ p.promo_balance \in Nat /\ expired \in Nat
      /\ promo_vault \in PromoVault /\ promo_vault.outstanding \in Nat
      /\ \A a \in Assets : p.collateral[a] \in Nat /\ collateral[a].total_deposited \in Nat
  BY DEF TypeOK, Position, PromoVault
<1>2. PICK i \in LoanSlots :
         /\ ~p.loans[i].active
         /\ position' = [position EXCEPT ![b] =
                                [q EXCEPT !.next_loan_id = @ + 1,
                                          !.promo_last_activity_at = now,
                                          !.loans[i] = loan]]
  BY DEF TakeLoan, IsFreeLoanIndex
<1>3. /\ p.open
      /\ market' = [m EXCEPT
              !.total_borrows = @ + amount,
              !.lp_rate_product = @ + LpContribution(amount, loan.rate_bps,
                                                     loan.reserve_factor_bps),
              !.cash = @ - amount]
      /\ promo_vault' = [promo_vault EXCEPT !.outstanding = @ - expired]
      /\ UNCHANGED <<now, collateral>>
  BY DEF TakeLoan
<1>4. m \in Market /\ now \in Nat
  BY AccrueType DEF TypeOK
<1>5. loan.principal = amount /\ loan.active /\ loan.interest_anchor = now
  BY DEF NewLoan
<1> HIDE DEF m, expired, loan
<1>6. /\ m.total_borrows = market.total_borrows /\ m.lp_rate_product = market.lp_rate_product
      /\ market.total_borrows \in Nat /\ market.lp_rate_product \in Nat
  BY AccrueKeepsBooks DEF TypeOK, Market, m
<1>7. /\ market'.total_borrows = market.total_borrows + amount
      /\ market'.lp_rate_product = market.lp_rate_product + Contribution(loan)
  BY <1>3, <1>4, <1>5, <1>6 DEF Market, Contribution
<1>8. /\ q \in [open: BOOLEAN, next_loan_id: Nat, promo_balance: Int,
                promo_last_activity_at: Nat, collateral: [Assets -> Nat],
                loans: [LoanSlots -> Loan]]
      /\ q.loans = p.loans /\ q.collateral = p.collateral /\ q.open
      /\ q.promo_balance = p.promo_balance - expired
  BY <1>1, <1>3 DEF Position
<1> HIDE DEF q
<1>9. position'[b] = [q EXCEPT !.next_loan_id = @ + 1, !.promo_last_activity_at = now,
                              !.loans[i] = loan]
  BY <1>2 DEF TypeOK
<1>10. /\ position'[b].loans = [p.loans EXCEPT ![i] = loan]
       /\ position'[b].collateral = p.collateral
       /\ position'[b].promo_balance = p.promo_balance - expired
       /\ position'[b].open
  BY <1>8, <1>9
<1>11. /\ position'[b].loans[i] = loan
       /\ \A j \in LoanSlots : j # i => position'[b].loans[j] = p.loans[j]
  BY <1>1, <1>10 DEF Position
<1>12. p.loans[i].principal = 0 /\ Contribution(p.loans[i]) = 0
  <2>1. p.loans[i].principal = 0
    BY <1>2 DEF BooksInv
  <2>2. p.loans[i].rate_bps \in Nat /\ BPS - p.loans[i].reserve_factor_bps \in Nat
    BY <1>1, ScalesArePositive DEF Position, Loan
  <2> QED  BY <2>1, <2>2 DEF Contribution, LpContribution
<1>13. loan \in Loan
  BY <1>1, <1>11 DEF Position
<1>14. /\ Principals(position'[b].loans) = Principals(p.loans) + amount
       /\ Contributions(position'[b].loans) = Contributions(p.loans) + Contribution(loan)
  <2>1. /\ Principals(position'[b].loans) = Principals(p.loans) + loan.principal - 0
        /\ Contributions(position'[b].loans) = Contributions(p.loans) + Contribution(loan) - 0
    BY <1>1, <1>11, <1>12, OneLoanMoves
  <2>2. /\ Principals(p.loans) \in Nat /\ Contributions(p.loans) \in Nat
        /\ loan.principal \in Nat /\ Contribution(loan) \in Nat
    BY <1>1, <1>13, PartsAreNat, ContributionIsNat
  <2> QED  BY <1>5, <2>1, <2>2
<1>15. /\ Principals(p.loans) \in Nat /\ Contributions(p.loans) \in Nat
       /\ amount \in Nat /\ Contribution(loan) \in Nat
  BY <1>1, <1>13, PartsAreNat, ContributionIsNat, InputsAreNaturals
<1>16. \A j \in LoanSlots :
          ~position'[b].loans[j].active => position'[b].loans[j].principal = 0
  BY <1>5, <1>11 DEF BooksInv
<1>17. promo_vault'.outstanding = promo_vault.outstanding - expired
  BY <1>1, <1>3 DEF PromoVault
<1>18. \A c \in Borrowers \ {b} : position'[c] = position[c]
  BY <1>2 DEF TypeOK
<1>19. market'.total_borrows
          = market.total_borrows + Principals(position'[b].loans) - Principals(p.loans)
  BY <1>6, <1>7, <1>14, <1>15
<1>20. market'.lp_rate_product
          = market.lp_rate_product + Contributions(position'[b].loans) - Contributions(p.loans)
  BY <1>6, <1>7, <1>14, <1>15
<1>21. promo_vault'.outstanding
          = promo_vault.outstanding + position'[b].promo_balance - p.promo_balance
  BY <1>1, <1>10, <1>17
<1>22. \A a \in Assets : collateral'[a].total_deposited
          = collateral[a].total_deposited + position'[b].collateral[a] - p.collateral[a]
  BY <1>1, <1>3, <1>10
<1>23. MovesWith(b)
  BY <1>10, <1>16, <1>18, <1>19, <1>20, <1>21, <1>22 DEF MovesWith
<1>24. PoolStays
  <2>1. /\ market'.accrued_interest = m.accrued_interest
        /\ market'.accrual_remainder = m.accrual_remainder
        /\ market'.last_accrual_ts = m.last_accrual_ts
    BY <1>3, <1>4 DEF Market
  <2> QED  BY <1>3, <1>4, <2>1 DEF PoolStays, m
<1>25. ASSUME NEW c \in Borrowers, NEW T \in 0..now
       PROVE  Accruals(position'[c].loans, T) <= Accruals(position[c].loans, T)
  <2>1. T \in Nat /\ T <= now
    BY <1>4
  <2>2. position[c] \in Position /\ Accruals(position[c].loans, T) \in Nat
    BY <2>1, AccrualsNat DEF TypeOK
  <2>3. CASE c # b
    BY <1>18, <2>2, <2>3
  <2>4. CASE c = b
    <3>1. Accrues(loan, T) = 0 /\ Accrues(p.loans[i], T) = 0
      BY <1>1, <1>5, <1>12, <1>13, <2>1, AccruesNat DEF Position
    <3>2. Accruals(position'[b].loans, T) = Accruals(p.loans, T) + 0 - 0
      BY <1>1, <1>11, <2>1, <3>1, OneLoanAccrues
    <3> QED  BY <2>2, <2>4, <3>2
  <2> QED  BY <2>3, <2>4
<1> QED  BY <1>23, <1>24, <1>25 DEF NoneAccruesMore

\* What repay_loan, liquidate and write_off_loan share: the loan in slot i is paid
\* down by `paid', and both books lose what it stood for.
LEMMA PayingMoves ==
  ASSUME TypeOK, TypeOK', BooksInv, NEW b \in Borrowers, NEW i \in LoanSlots, NEW paid \in Nat,
         \A c \in Borrowers \ {b} : position'[c] = position[c],
         position'[b].open,
         \A j \in LoanSlots : j # i => position'[b].loans[j] = position[b].loans[j],
         paid <= position[b].loans[i].principal,
         paid = position[b].loans[i].principal => position'[b].loans[i] = FreeSlot,
         paid # position[b].loans[i].principal =>
            /\ position'[b].loans[i].principal = position[b].loans[i].principal - paid
            /\ position'[b].loans[i].rate_bps = position[b].loans[i].rate_bps
            /\ position'[b].loans[i].reserve_factor_bps
                 = position[b].loans[i].reserve_factor_bps
            /\ position'[b].loans[i].active,
         market'.total_borrows = market.total_borrows - paid,
         market'.lp_rate_product = market.lp_rate_product
           - LpContribution(paid, position[b].loans[i].rate_bps,
                            position[b].loans[i].reserve_factor_bps),
         promo_vault'.outstanding
           = promo_vault.outstanding + position'[b].promo_balance - position[b].promo_balance,
         \A a \in Assets : collateral'[a].total_deposited
           = collateral[a].total_deposited + position'[b].collateral[a] - position[b].collateral[a]
  PROVE  MovesWith(b)
<1>1. PICK p : p = position[b]
  OBVIOUS
<1>2. PICK q : q = position'[b]
  OBVIOUS
<1>3. PICK c : c = LpContribution(paid, p.loans[i].rate_bps, p.loans[i].reserve_factor_bps)
  OBVIOUS
<1>4. p \in Position /\ q \in Position
  BY <1>1, <1>2 DEF TypeOK
<1>5. \A j \in LoanSlots : ~p.loans[j].active => p.loans[j].principal = 0
  BY <1>1 DEF BooksInv
<1>6. /\ Principals(q.loans) = Principals(p.loans) - paid
      /\ Contributions(q.loans) = Contributions(p.loans) - c
      /\ \A j \in LoanSlots : ~q.loans[j].active => q.loans[j].principal = 0
  BY <1>1, <1>2, <1>3, <1>4, <1>5, PaymentMovesBooks
<1>7. /\ Principals(p.loans) \in Nat /\ Contributions(p.loans) \in Nat
      /\ market.total_borrows \in Nat /\ market.lp_rate_product \in Nat
  BY <1>4, PartsAreNat DEF TypeOK, Market
<1>8. c \in Nat
  <2>1. p.loans[i].rate_bps \in 0..BPS /\ p.loans[i].reserve_factor_bps \in 0..BPS
    BY <1>4 DEF Position, Loan
  <2> QED  BY <1>3, <2>1, ContributionNat
<1>9. /\ market'.total_borrows
           = market.total_borrows + Principals(q.loans) - Principals(p.loans)
      /\ market'.lp_rate_product
           = market.lp_rate_product + Contributions(q.loans) - Contributions(p.loans)
  BY <1>1, <1>3, <1>6, <1>7, <1>8
<1> QED  BY <1>1, <1>2, <1>6, <1>9 DEF MovesWith

\* repay_loan pays down one loan.
LEMMA RepayMoves ==
  ASSUME TypeOK, TypeOK', BooksInv, NEW b \in Borrowers, NEW id \in 0..MaxLoanId,
         NEW amount \in RepayAmounts, RepayLoan(b, id, amount)
  PROVE  MovesWith(b) /\ SettlesAccrual(b)
<1> DEFINE m == Accrue(market)
           p == position[b]
           loan(i) == p.loans[i]
           balance(i) == LoanBalance(loan(i), now)
           principalRepaid(i) == Min2(amount, Total(balance(i))) - Due(balance(i))
           closed(i) == principalRepaid(i) = loan(i).principal
           after(i) == IF closed(i) THEN FreeSlot
                       ELSE [loan(i) EXCEPT !.principal = @ - principalRepaid(i),
                                            !.interest_anchor = now]
           loans(i) == [p.loans EXCEPT ![i] = after(i)]
           idle(i) == closed(i) /\ ~\E j \in LoanSlots : loans(i)[j].active
<1>1. PICK i \in LoanSlots :
        /\ loan(i).active
        /\ Min2(amount, Total(balance(i))) >= Due(balance(i))
        /\ market' = SettleLoan(m, loan(i), loan(i).principal, principalRepaid(i),
                                Due(balance(i)))
        /\ position' = [position EXCEPT ![b] =
                          [p EXCEPT !.loans = loans(i),
                                    !.promo_last_activity_at = IF idle(i) THEN now ELSE @]]
  BY DEF RepayLoan, IsLoanIndex
<1>2. p.open /\ UNCHANGED <<now, collateral, promo_vault>>
  BY DEF RepayLoan
<1>3. /\ m \in Market /\ m.total_borrows = market.total_borrows
      /\ m.lp_rate_product = market.lp_rate_product
  BY AccrueType, AccrueKeepsBooks DEF TypeOK
<1>4. /\ p \in Position /\ loan(i) \in Loan /\ now \in Nat
      /\ \A a \in Assets : p.collateral[a] \in Nat /\ collateral[a].total_deposited \in Nat
      /\ p.promo_balance \in Nat /\ promo_vault.outstanding \in Nat
  BY DEF TypeOK, Position
<1>5. loan(i).principal \in Nat
  BY <1>4 DEF Loan
<1>6. /\ Due(balance(i)) \in Nat
      /\ Total(balance(i)) = loan(i).principal + Due(balance(i))
  BY <1>4, BalanceType
<1>7. amount \in Nat
  BY InputsAreNaturals
<1> HIDE DEF m, balance
<1>8. principalRepaid(i) \in Nat /\ principalRepaid(i) <= loan(i).principal
  BY <1>1, <1>5, <1>6, <1>7 DEF Min2
<1> HIDE DEF principalRepaid
<1>9. /\ market'.total_borrows = market.total_borrows - principalRepaid(i)
      /\ market'.lp_rate_product = market.lp_rate_product
           - LpContribution(principalRepaid(i), loan(i).rate_bps, loan(i).reserve_factor_bps)
      /\ market'.accrued_interest
           = SatSub(m.accrued_interest, AccruedLpInterest(loan(i).principal, loan(i), now))
      /\ market'.accrual_remainder = m.accrual_remainder
      /\ market'.last_accrual_ts = m.last_accrual_ts
  BY <1>1, <1>3, SettleBooks
<1>10. /\ position'[b].loans = loans(i) /\ position'[b].open
       /\ position'[b].promo_balance = p.promo_balance
       /\ position'[b].collateral = p.collateral
  <2>1. position'[b] = [p EXCEPT !.loans = loans(i),
                                 !.promo_last_activity_at = IF idle(i) THEN now ELSE @]
    BY <1>1 DEF TypeOK
  <2> HIDE DEF loans, idle
  <2> QED  BY <1>2, <1>4, <2>1 DEF Position
<1>11. /\ closed(i) => after(i) = FreeSlot
       /\ ~closed(i) => /\ after(i).principal = loan(i).principal - principalRepaid(i)
                        /\ after(i).rate_bps = loan(i).rate_bps
                        /\ after(i).reserve_factor_bps = loan(i).reserve_factor_bps
                        /\ after(i).active = loan(i).active
                        /\ after(i).interest_anchor = now
  BY <1>4 DEF Loan
<1>12. closed(i) <=> principalRepaid(i) = loan(i).principal
  OBVIOUS
<1> HIDE DEF after, closed
<1>13. /\ position'[b].loans[i] = after(i)
       /\ \A j \in LoanSlots : j # i => position'[b].loans[j] = p.loans[j]
  BY <1>4, <1>10 DEF Position
<1>14. \A c \in Borrowers \ {b} : position'[c] = position[c]
  BY <1>1 DEF TypeOK
<1>15. /\ promo_vault'.outstanding
            = promo_vault.outstanding + position'[b].promo_balance - p.promo_balance
       /\ \A a \in Assets : collateral'[a].total_deposited
            = collateral[a].total_deposited + position'[b].collateral[a] - p.collateral[a]
  BY <1>2, <1>4, <1>10
<1>16. /\ principalRepaid(i) = p.loans[i].principal => position'[b].loans[i] = FreeSlot
       /\ principalRepaid(i) # p.loans[i].principal =>
            /\ position'[b].loans[i].principal = p.loans[i].principal - principalRepaid(i)
            /\ position'[b].loans[i].rate_bps = p.loans[i].rate_bps
            /\ position'[b].loans[i].reserve_factor_bps = p.loans[i].reserve_factor_bps
            /\ position'[b].loans[i].active
  BY <1>1, <1>11, <1>12, <1>13
<1>17. MovesWith(b)
  BY <1>8, <1>9, <1>10, <1>13, <1>14, <1>15, <1>16, PayingMoves
<1>18. SettlesAccrual(b)
  <2>1. position'[b].loans[i] = FreeSlot \/ position'[b].loans[i].interest_anchor = now
    BY <1>11, <1>13
  <2> HIDE DEF p
  <2> QED  BY <1>2, <1>5, <1>9, <1>13, <1>14, <2>1, PaymentSettles DEF m, p
<1> QED  BY <1>17, <1>18

\* A forfeited balance leaves the outstanding promo, whatever tokens move.
LEMMA ForfeitBooks ==
  ASSUME TypeOK, NEW b \in Borrowers
  PROVE  AfterForfeit(position[b]).outstanding
           = promo_vault.outstanding - position[b].promo_balance
  BY DEF TypeOK, AfterForfeit

\* liquidate pays down one loan, seizes from one slot and forfeits the promo.
LEMMA LiquidateMoves ==
  ASSUME TypeOK, TypeOK', BooksInv, NEW b \in Borrowers, NEW id \in 0..MaxLoanId,
         NEW a \in Assets, NEW amount \in LiquidateAmounts, NEW view \in PriceViews,
         NEW recorded \in BOOLEAN, Liquidate(b, id, a, amount, view, recorded)
  PROVE  MovesWith(b) /\ SettlesAccrual(b)
<1> DEFINE m == Accrue(market)
           p == position[b]
           moved == ForfeitMoves(p)
           funded == [m EXCEPT !.cash = @ + moved]
           loan(i) == p.loans[i]
           balance(i) == Total(LoanBalance(loan(i), now))
           paid(i) == Seizure(p, a, Min2(amount, balance(i)), view).repay_amount
           seized(i) == Seizure(p, a, Min2(amount, balance(i)), view).seize_amount
           principalRepaid(i) == PrincipalShare(paid(i), loan(i).principal, balance(i))
           closed(i) == principalRepaid(i) = loan(i).principal
           after(i) == IF closed(i) THEN FreeSlot
                       ELSE [loan(i) EXCEPT !.principal = @ - principalRepaid(i)]
<1>1. PICK i \in LoanSlots :
        /\ loan(i).active
        /\ paid(i) > 0
        /\ market' = SettleLoan(funded, loan(i), principalRepaid(i), principalRepaid(i),
                                paid(i) - principalRepaid(i))
        /\ position' = [position EXCEPT ![b] =
                          [p EXCEPT !.promo_balance = 0, !.collateral[a] = @ - seized(i),
                                    !.loans[i] = after(i)]]
        /\ collateral' = [collateral EXCEPT ![a].total_deposited = @ - seized(i)]
  BY DEF Liquidate, IsLoanIndex
<1>2. p.open /\ CanForfeit(p) /\ promo_vault' = AfterForfeit(p) /\ now' = now
  BY DEF Liquidate
<1>3. /\ m \in Market /\ m.total_borrows = market.total_borrows
      /\ m.lp_rate_product = market.lp_rate_product
  BY AccrueType, AccrueKeepsBooks DEF TypeOK
<1>4. /\ p \in Position /\ loan(i) \in Loan /\ now \in Nat
      /\ \A c \in Assets : p.collateral[c] \in Nat /\ collateral[c].total_deposited \in Nat
      /\ p.promo_balance \in Nat /\ promo_vault.outstanding \in Nat
  BY DEF TypeOK, Position
<1>5. loan(i).principal \in Nat
  BY <1>4 DEF Loan
<1>6. moved \in Nat
  BY <1>2, ForfeitType
<1>7. balance(i) \in Nat /\ loan(i).principal <= balance(i)
  BY <1>4, TotalType
<1>8. Min2(amount, balance(i)) \in Nat /\ Min2(amount, balance(i)) <= balance(i)
  BY <1>7, InputsAreNaturals DEF Min2
<1> HIDE DEF balance
<1>9. /\ paid(i) \in Nat /\ paid(i) <= balance(i)
      /\ seized(i) \in Nat /\ seized(i) <= p.collateral[a]
  BY <1>4, <1>7, <1>8, SeizureBounds
<1> HIDE DEF paid, seized
<1>10. principalRepaid(i) \in Nat /\ principalRepaid(i) <= loan(i).principal
  BY <1>1, <1>5, <1>7, <1>9, PrincipalShareBounds
<1> HIDE DEF principalRepaid, m, moved
<1>11. /\ funded \in Market /\ funded.total_borrows = m.total_borrows
       /\ funded.lp_rate_product = m.lp_rate_product
       /\ funded.accrued_interest = m.accrued_interest
       /\ funded.accrual_remainder = m.accrual_remainder
       /\ funded.last_accrual_ts = m.last_accrual_ts
  <2>1. m.cash + moved \in Nat
    BY <1>3, <1>6 DEF Market
  <2> QED  BY <1>3, <2>1 DEF Market
<1> HIDE DEF funded
<1>12. /\ market'.total_borrows = market.total_borrows - principalRepaid(i)
       /\ market'.lp_rate_product = market.lp_rate_product
            - LpContribution(principalRepaid(i), loan(i).rate_bps, loan(i).reserve_factor_bps)
       /\ market'.accrued_interest
            = SatSub(m.accrued_interest, AccruedLpInterest(principalRepaid(i), loan(i), now))
       /\ market'.accrual_remainder = m.accrual_remainder
       /\ market'.last_accrual_ts = m.last_accrual_ts
  BY <1>1, <1>3, <1>11, SettleBooks
<1>13. /\ closed(i) => after(i) = FreeSlot
       /\ ~closed(i) => /\ after(i).principal = loan(i).principal - principalRepaid(i)
                        /\ after(i).rate_bps = loan(i).rate_bps
                        /\ after(i).reserve_factor_bps = loan(i).reserve_factor_bps
                        /\ after(i).active = loan(i).active
                        /\ after(i).interest_anchor = loan(i).interest_anchor
  BY <1>4 DEF Loan
<1>14. closed(i) <=> principalRepaid(i) = loan(i).principal
  OBVIOUS
<1> HIDE DEF after, closed
<1>15. /\ position'[b].loans = [p.loans EXCEPT ![i] = after(i)]
       /\ position'[b].open
       /\ position'[b].promo_balance = 0
       /\ position'[b].collateral = [p.collateral EXCEPT ![a] = @ - seized(i)]
  <2>1. position'[b] = [p EXCEPT !.promo_balance = 0, !.collateral[a] = @ - seized(i),
                                 !.loans[i] = after(i)]
    BY <1>1 DEF TypeOK
  <2> QED  BY <1>2, <1>4, <2>1 DEF Position
<1>16. /\ position'[b].loans[i] = after(i)
       /\ \A j \in LoanSlots : j # i => position'[b].loans[j] = p.loans[j]
  BY <1>4, <1>15 DEF Position
<1>17. \A c \in Borrowers \ {b} : position'[c] = position[c]
  BY <1>1 DEF TypeOK
<1>18. promo_vault'.outstanding
          = promo_vault.outstanding + position'[b].promo_balance - p.promo_balance
  BY <1>2, <1>4, <1>15, ForfeitBooks
<1>19. ASSUME NEW c \in Assets
       PROVE  collateral'[c].total_deposited
                = collateral[c].total_deposited + position'[b].collateral[c] - p.collateral[c]
  <2>1. CASE c = a
    <3>1. position'[b].collateral[c] = p.collateral[c] - seized(i)
      BY <1>4, <1>15, <2>1 DEF Position
    <3>2. collateral'[c].total_deposited = collateral[c].total_deposited - seized(i)
      BY <1>1, <2>1 DEF TypeOK
    <3> QED  BY <1>4, <1>9, <3>1, <3>2
  <2>2. CASE c # a
    <3>1. position'[b].collateral[c] = p.collateral[c]
      BY <1>4, <1>15, <2>2 DEF Position
    <3>2. collateral'[c] = collateral[c]
      BY <1>1, <2>2 DEF TypeOK
    <3> QED  BY <1>4, <3>1, <3>2
  <2> QED  BY <2>1, <2>2
<1>20. /\ principalRepaid(i) = p.loans[i].principal => position'[b].loans[i] = FreeSlot
       /\ principalRepaid(i) # p.loans[i].principal =>
            /\ position'[b].loans[i].principal = p.loans[i].principal - principalRepaid(i)
            /\ position'[b].loans[i].rate_bps = p.loans[i].rate_bps
            /\ position'[b].loans[i].reserve_factor_bps = p.loans[i].reserve_factor_bps
            /\ position'[b].loans[i].active
  BY <1>1, <1>13, <1>14, <1>16
<1>21. MovesWith(b)
  BY <1>10, <1>12, <1>15, <1>16, <1>17, <1>18, <1>19, <1>20, PayingMoves
<1>22. SettlesAccrual(b)
  <2>1. CASE closed(i)
    <3> HIDE DEF p
    <3> QED  BY <1>2, <1>10, <1>12, <1>13, <1>14, <1>16, <1>17, <2>1, PaymentSettles DEF m, p
  <2>2. CASE ~closed(i)
    <3> HIDE DEF p
    <3> QED  BY <1>2, <1>10, <1>12, <1>13, <1>16, <1>17, <2>2, PaymentSettles DEF m, p
  <2> QED  BY <2>1, <2>2
<1> QED  BY <1>21, <1>22

\* write_off_loan pays down one loan in full, without a payment, and forfeits the
\* promo.
LEMMA WriteOffMoves ==
  ASSUME TypeOK, TypeOK', BooksInv, NEW b \in Borrowers, NEW id \in 0..MaxLoanId,
         NEW view \in PriceViews, WriteOffLoan(b, id, view)
  PROVE  MovesWith(b) /\ SettlesAccrual(b)
<1> DEFINE m == Accrue(market)
           p == position[b]
           loan(i) == p.loans[i]
<1>1. PICK i \in LoanSlots :
        /\ market'.total_borrows = m.total_borrows - loan(i).principal
        /\ market'.lp_rate_product = m.lp_rate_product
             - LpContribution(loan(i).principal, loan(i).rate_bps, loan(i).reserve_factor_bps)
        /\ market'.accrued_interest
             = SatSub(m.accrued_interest, AccruedLpInterest(loan(i).principal, loan(i), now))
        /\ market'.accrual_remainder = m.accrual_remainder
        /\ market'.last_accrual_ts = m.last_accrual_ts
        /\ position' = [position EXCEPT ![b] =
                          [p EXCEPT !.promo_balance = 0, !.loans[i] = FreeSlot]]
  <2>1. m \in Market
    BY AccrueType DEF TypeOK
  <2> QED  BY <2>1 DEF WriteOffLoan, Market
<1>2. p.open /\ promo_vault' = AfterForfeit(p) /\ UNCHANGED <<now, collateral>>
  BY DEF WriteOffLoan
<1>3. m.total_borrows = market.total_borrows /\ m.lp_rate_product = market.lp_rate_product
  BY AccrueKeepsBooks DEF TypeOK
<1>4. /\ p \in Position /\ loan(i) \in Loan
      /\ \A c \in Assets : p.collateral[c] \in Nat /\ collateral[c].total_deposited \in Nat
      /\ p.promo_balance \in Nat /\ promo_vault.outstanding \in Nat
  BY DEF TypeOK, Position
<1>5. loan(i).principal \in Nat
  BY <1>4 DEF Loan
<1> HIDE DEF m
<1>6. /\ position'[b].loans = [p.loans EXCEPT ![i] = FreeSlot]
      /\ position'[b].open
      /\ position'[b].promo_balance = 0
      /\ position'[b].collateral = p.collateral
  <2>1. position'[b] = [p EXCEPT !.promo_balance = 0, !.loans[i] = FreeSlot]
    BY <1>1 DEF TypeOK
  <2> QED  BY <1>2, <1>4, <2>1 DEF Position
<1>7. /\ position'[b].loans[i] = FreeSlot
      /\ \A j \in LoanSlots : j # i => position'[b].loans[j] = p.loans[j]
  BY <1>4, <1>6 DEF Position
<1>8. \A c \in Borrowers \ {b} : position'[c] = position[c]
  BY <1>1 DEF TypeOK
<1>9. /\ promo_vault'.outstanding
            = promo_vault.outstanding + position'[b].promo_balance - p.promo_balance
      /\ \A c \in Assets : collateral'[c].total_deposited
            = collateral[c].total_deposited + position'[b].collateral[c] - p.collateral[c]
  BY <1>2, <1>4, <1>6, ForfeitBooks
<1>10. loan(i).principal <= p.loans[i].principal
  BY <1>5
<1>11. MovesWith(b)
  BY <1>1, <1>3, <1>5, <1>6, <1>7, <1>8, <1>9, <1>10, PayingMoves
<1>12. SettlesAccrual(b)
  <2> HIDE DEF p
  <2> QED  BY <1>1, <1>2, <1>5, <1>7, <1>8, PaymentSettles DEF m, p
<1> QED  BY <1>11, <1>12

\* Opening, closing, collateral and promo leave the pool and every loan alone; a position
\* that is closed has none.
LEMMA QuietStepsAccrueNothing ==
  ASSUME TypeOK, TypeOK', BooksInv, NEW b \in Borrowers,
         OpenPosition(b) \/ ClosePosition(b) \/ CollateralStep(b) \/ PromoStep(b)
  PROVE  PoolStays /\ NoneAccruesMore
<1>1. /\ UNCHANGED <<now, market>> /\ now \in Nat
      /\ \A c \in Borrowers \ {b} : position'[c] = position[c]
  BY DEF TypeOK, OpenPosition, ClosePosition, CollateralStep, DepositCollateral,
         WithdrawCollateral, PromoStep, RedeemPromo, ExpirePromo, RevokePromo
<1>2. position[b] \in Position
  BY DEF TypeOK
<1>3. CASE OpenPosition(b) \/ CollateralStep(b) \/ PromoStep(b)
  <2>1. position'[b].loans = position[b].loans
    <3>1. CASE OpenPosition(b)
      BY <3>1 DEF TypeOK, BooksInv, OpenPosition, EmptyPosition
    <3>2. CASE CollateralStep(b)
      BY <1>2, <3>2 DEF TypeOK, Position, CollateralStep, DepositCollateral, WithdrawCollateral
    <3>3. CASE PromoStep(b)
      <4>1. \/ position'[b] = [position[b] EXCEPT !.promo_balance = 0]
            \/ \E amount : position'[b] = [position[b] EXCEPT !.promo_balance = @ + amount,
                                                              !.promo_last_activity_at = now]
        BY <3>3 DEF TypeOK, PromoStep, RedeemPromo, ExpirePromo, RevokePromo
      <4> QED  BY <1>2, <4>1 DEF Position
    <3> QED  BY <1>3, <3>1, <3>2, <3>3
  <2>2. ASSUME NEW c \in Borrowers, NEW T \in 0..now
        PROVE  Accruals(position'[c].loans, T) <= Accruals(position[c].loans, T)
    <3>1. position'[c].loans = position[c].loans /\ T \in Nat
      BY <1>1, <2>1
    <3>2. Accruals(position[c].loans, T) \in Nat
      BY <3>1, AccrualsNat DEF TypeOK
    <3> QED  BY <3>1, <3>2
  <2> QED  BY <1>1, <2>2 DEF PoolStays, NoneAccruesMore
<1>4. CASE ClosePosition(b)
  <2>1. position'[b] = EmptyPosition
    BY <1>4 DEF TypeOK, ClosePosition
  <2>2. ASSUME NEW c \in Borrowers, NEW T \in 0..now
        PROVE  Accruals(position'[c].loans, T) <= Accruals(position[c].loans, T)
    <3>1. T \in Nat /\ position[c] \in Position /\ position'[c] \in Position
      BY <1>1 DEF TypeOK
    <3>2. Accruals(position[c].loans, T) \in Nat
      BY <3>1, AccrualsNat
    <3>3. CASE c # b
      BY <1>1, <3>2, <3>3
    <3>4. CASE c = b
      <4> DEFINE f == [i \in LoanSlots |-> Accrues(position'[c].loans[i], T)]
      <4>1. ASSUME NEW i \in LoanSlots PROVE f[i] = 0
        <5>1. position'[c].loans[i] \in Loan /\ position'[c].loans[i].principal = 0
          BY <2>1, <3>1, <3>4 DEF Position, EmptyPosition, FreeSlot
        <5> QED  BY <3>1, <5>1, AccruesNat
      <4>2. SumOver(f, LoanSlots) = Accruals(position'[c].loans, T)
        BY DEF Accruals
      <4> HIDE DEF f
      <4>3. SumOver(f, LoanSlots) = 0
        BY <4>1, FiniteIndexes, SumOfZeros
      <4> QED  BY <3>2, <4>2, <4>3
    <3> QED  BY <3>3, <3>4
  <2> QED  BY <1>1, <2>2 DEF PoolStays, NoneAccruesMore
<1> QED  BY <1>3, <1>4

-----------------------------------------------------------------------------
(* The invariant *)

\* A market starts with nothing owed, promised or held.
LEMMA InitBooks == Init => BooksInv
<1> SUFFICES ASSUME Init PROVE BooksInv
  OBVIOUS
<1>1. \A b \in Borrowers : position[b] = EmptyPosition
  BY DEF Init
<1>2. \A b \in Borrowers : /\ OwedBy[b] = 0
                           /\ ContributedBy[b] = 0
                           /\ PromoOf[b] = 0
                           /\ \A a \in Assets : HeldOf(a)[b] = 0
  <2>1. /\ EmptyPosition.promo_balance = 0
        /\ \A a \in Assets : EmptyPosition.collateral[a] = 0
    BY DEF EmptyPosition
  <2> QED  BY <1>1, <2>1, EmptyOwesNothing DEF OwedBy, ContributedBy, PromoOf, HeldOf
<1>3. /\ SumOver(OwedBy, Borrowers) = 0
      /\ SumOver(ContributedBy, Borrowers) = 0
      /\ SumOver(PromoOf, Borrowers) = 0
      /\ \A a \in Assets : SumOver(HeldOf(a), Borrowers) = 0
  BY <1>2, FiniteIndexes, SumOfZeros
<1>4. /\ market.total_borrows = 0 /\ market.lp_rate_product = 0
      /\ promo_vault.outstanding = 0
      /\ \A a \in Assets : collateral[a].total_deposited = 0
  BY DEF Init
<1>5. \A b \in Borrowers, i \in LoanSlots : position[b].loans[i].principal = 0
  BY <1>1 DEF EmptyPosition, FreeSlot
<1> QED  BY <1>1, <1>3, <1>4, <1>5 DEF BooksInv

\* What is not about a borrower moves no position and no total; accruing first does
\* not either, and keeps the pool.
LEMMA OthersMoveNothing ==
  ASSUME TypeOK, LenderStep \/ AdminStep \/ EnvironmentStep \/ UNCHANGED vars
  PROVE  MovesNothing /\ PoolStays
<1> DEFINE m == Accrue(market)
<1>1. /\ m \in Market /\ market \in Market /\ now \in Nat
      /\ m.total_borrows = market.total_borrows /\ m.lp_rate_product = market.lp_rate_product
  BY AccrueType, AccrueKeepsBooks DEF TypeOK
<1>2. ASSUME now' \in Nat, now' >= now, NEW n \in {market, m},
             market'.accrued_interest = n.accrued_interest,
             market'.accrual_remainder = n.accrual_remainder,
             market'.last_accrual_ts = n.last_accrual_ts
      PROVE  PoolStays
  BY <1>2 DEF PoolStays
<1> HIDE DEF m
<1>3. CASE LenderStep
  <2>1. PICK w \in Lenders :
           \/ \E amount \in DepositAmounts : DepositLiquidity(w, amount)
           \/ \E amount \in WithdrawAmounts : WithdrawLiquidity(w, amount)
    BY <1>3 DEF LenderStep
  <2>2. UNCHANGED <<now, position, collateral, promo_vault>>
    BY <2>1 DEF DepositLiquidity, WithdrawLiquidity
  <2>3. \E cash, shares : market' = [m EXCEPT !.cash = cash, !.total_shares = shares]
    BY <2>1 DEF DepositLiquidity, WithdrawLiquidity, m
  <2>4. /\ market'.total_borrows = m.total_borrows /\ market'.lp_rate_product = m.lp_rate_product
        /\ market'.accrued_interest = m.accrued_interest
        /\ market'.accrual_remainder = m.accrual_remainder
        /\ market'.last_accrual_ts = m.last_accrual_ts
    BY <1>1, <2>3 DEF Market
  <2> QED  BY <1>1, <1>2, <2>2, <2>4 DEF MovesNothing
<1>4. ASSUME market'.total_borrows = market.total_borrows,
             market'.lp_rate_product = market.lp_rate_product,
             market'.accrued_interest = market.accrued_interest,
             market'.accrual_remainder = market.accrual_remainder,
             market'.last_accrual_ts = market.last_accrual_ts,
             UNCHANGED <<now, position, promo_vault>>,
             \A a \in Assets : collateral'[a].total_deposited = collateral[a].total_deposited
      PROVE  MovesNothing /\ PoolStays
  BY <1>1, <1>2, <1>4 DEF MovesNothing
<1>5. CASE AdminStep
  <2>1. ASSUME NEW amount \in HarvestAmounts, HarvestReserve(amount)
        PROVE  MovesNothing /\ PoolStays
    BY <1>1, <1>4, <2>1 DEF HarvestReserve, Market
  <2>2. CASE SweepMarketExcess
    BY <1>4, <2>2 DEF SweepMarketExcess
  <2>3. ASSUME NEW params \in ParamChoices, UpdateMarketParams(params)
        PROVE  MovesNothing /\ PoolStays
    <3>1. /\ market' = [m EXCEPT !.params = params]
          /\ UNCHANGED <<now, position, collateral, promo_vault>>
      BY <2>3 DEF UpdateMarketParams, m
    <3>2. /\ market'.total_borrows = m.total_borrows /\ market'.lp_rate_product = m.lp_rate_product
          /\ market'.accrued_interest = m.accrued_interest
          /\ market'.accrual_remainder = m.accrual_remainder
          /\ market'.last_accrual_ts = m.last_accrual_ts
      BY <1>1, <3>1 DEF Market
    <3> QED  BY <1>1, <1>2, <3>1, <3>2 DEF MovesNothing
  <2>4. ASSUME NEW paused \in PauseInputs, SetMarketPaused(paused)
        PROVE  MovesNothing /\ PoolStays
    BY <1>1, <1>4, <2>4 DEF SetMarketPaused, Market
  <2>5. ASSUME NEW a \in Assets, NEW paused \in AssetPauseInputs, SetCollateralPaused(a, paused)
        PROVE  MovesNothing /\ PoolStays
    BY <1>4, <2>5 DEF TypeOK, SetCollateralPaused
  <2>6. ASSUME NEW a \in Assets, NEW paused \in BorrowPauseInputs,
               SetCollateralBorrowPaused(a, paused)
        PROVE  MovesNothing /\ PoolStays
    BY <1>4, <2>6 DEF TypeOK, SetCollateralBorrowPaused
  <2>7. ASSUME NEW a \in Assets, NEW params \in AssetParamChoices,
               UpdateCollateralParams(a, params)
        PROVE  MovesNothing /\ PoolStays
    BY <1>4, <2>7 DEF TypeOK, UpdateCollateralParams
  <2> QED  BY <1>5, <2>1, <2>2, <2>3, <2>4, <2>5, <2>6, <2>7 DEF AdminStep
<1>6. CASE EnvironmentStep
  <2>1. /\ UNCHANGED <<market, position, collateral>>
        /\ promo_vault' = promo_vault
        /\ now' = now \/ now' = now + 1
    BY <1>6 DEF EnvironmentStep, Tick, Donate, Clawback, ClawbackMarket
  <2> QED  BY <1>1, <1>2, <2>1 DEF MovesNothing
<1>7. CASE UNCHANGED vars
  BY <1>4, <1>7 DEF vars
<1> QED  BY <1>3, <1>5, <1>6, <1>7

\* BooksInv is inductive relative to TypeOK.
LEMMA NextBooks == TypeOK /\ TypeOK' /\ BooksInv /\ [Next]_vars => BooksInv'
<1> SUFFICES ASSUME TypeOK, TypeOK', BooksInv, [Next]_vars PROVE BooksInv'
  OBVIOUS
<1>1. ASSUME NEW b \in Borrowers, LoanStep(b) PROVE MovesWith(b)
  BY <1>1, TakeMoves, RepayMoves, LiquidateMoves, WriteOffMoves DEF LoanStep
<1>2. CASE BorrowerStep
  <2>1. PICK b \in Borrowers : \/ OpenPosition(b)
                               \/ ClosePosition(b)
                               \/ CollateralStep(b)
                               \/ LoanStep(b)
                               \/ PromoStep(b)
    BY <1>2 DEF BorrowerStep
  <2>2. MovesWith(b)
    BY <1>1, <2>1, OpenMoves, CloseMoves, CollateralMoves, PromoMoves
  <2> QED  BY <2>2, OneMoveKeepsBooks
<1>3. CASE LenderStep \/ AdminStep \/ EnvironmentStep \/ UNCHANGED vars
  BY <1>3, OthersMoveNothing, NoMoveKeepsBooks
<1> QED  BY <1>2, <1>3 DEF Next

\* Together with the types, the totals match in every reachable state.
LEMMA BooksInvHolds == Spec => [](TypeOK /\ BooksInv)
<1>1. Init => BooksInv
  BY InitBooks
<1>2. TypeOK /\ TypeOK' /\ BooksInv /\ [Next]_vars => BooksInv'
  BY NextBooks
<1> QED  BY <1>1, <1>2, TypeCorrect, PTL DEF Spec

\* So is AccrualInv, relative to both.
LEMMA NextAccrual ==
  TypeOK /\ TypeOK' /\ BooksInv /\ AccrualInv /\ [Next]_vars => AccrualInv'
<1> SUFFICES ASSUME TypeOK, TypeOK', BooksInv, AccrualInv, [Next]_vars PROVE AccrualInv'
  OBVIOUS
<1>1. CASE BorrowerStep
  <2>1. PICK b \in Borrowers : \/ OpenPosition(b)
                               \/ ClosePosition(b)
                               \/ CollateralStep(b)
                               \/ LoanStep(b)
                               \/ PromoStep(b)
    BY <1>1 DEF BorrowerStep
  <2>2. CASE LoanStep(b)
    <3>1. ASSUME NEW amount \in LoanAmounts, NEW tenure \in Tenures, NEW view \in PriceViews,
                 TakeLoan(b, amount, tenure, view)
          PROVE  AccrualInv'
      BY <3>1, TakeMoves, StayingKeepsAccrual
    <3>2. ASSUME NEW id \in 0..MaxLoanId, NEW amount \in RepayAmounts, RepayLoan(b, id, amount)
          PROVE  AccrualInv'
      BY <3>2, RepayMoves, SettlingKeepsAccrual
    <3>3. ASSUME NEW id \in 0..MaxLoanId, NEW a \in Assets, NEW amount \in LiquidateAmounts,
                 NEW view \in PriceViews, NEW recorded \in BOOLEAN,
                 Liquidate(b, id, a, amount, view, recorded)
          PROVE  AccrualInv'
      BY <3>3, LiquidateMoves, SettlingKeepsAccrual
    <3>4. ASSUME NEW id \in 0..MaxLoanId, NEW view \in PriceViews, WriteOffLoan(b, id, view)
          PROVE  AccrualInv'
      BY <3>4, WriteOffMoves, SettlingKeepsAccrual
    <3> QED  BY <2>2, <3>1, <3>2, <3>3, <3>4 DEF LoanStep
  <2>3. CASE OpenPosition(b) \/ ClosePosition(b) \/ CollateralStep(b) \/ PromoStep(b)
    BY <2>3, QuietStepsAccrueNothing, StayingKeepsAccrual
  <2> QED  BY <2>1, <2>2, <2>3
<1>2. CASE LenderStep \/ AdminStep \/ EnvironmentStep \/ UNCHANGED vars
  <2>1. MovesNothing /\ PoolStays
    BY <1>2, OthersMoveNothing
  <2>2. ASSUME NEW c \in Borrowers, NEW T \in 0..now
        PROVE  Accruals(position'[c].loans, T) <= Accruals(position[c].loans, T)
    <3>1. position'[c] = position[c] /\ T \in Nat
      BY <2>1 DEF MovesNothing, TypeOK
    <3>2. Accruals(position[c].loans, T) \in Nat
      BY <3>1, AccrualsNat DEF TypeOK
    <3> QED  BY <3>1, <3>2
  <2> QED  BY <2>1, <2>2, StayingKeepsAccrual DEF NoneAccruesMore
<1> QED  BY <1>1, <1>2 DEF Next

\* A market starts with an empty pool and no loans.
LEMMA InitAccrual == Init => AccrualInv
<1> SUFFICES ASSUME Init PROVE AccrualInv
  OBVIOUS
<1> DEFINE f == AccrualsBy(0)
<1>1. \A b \in Borrowers : f[b] = 0
  <2> SUFFICES ASSUME NEW b \in Borrowers PROVE f[b] = 0
    OBVIOUS
  <2> DEFINE g == [i \in LoanSlots |-> Accrues(EmptyPosition.loans[i], 0)]
  <2>1. \A i \in LoanSlots : g[i] = 0
    BY FreeSlotType, AccruesNat DEF EmptyPosition, FreeSlot
  <2>2. f[b] = SumOver(g, LoanSlots)
    BY DEF Init, AccrualsBy, Accruals
  <2> HIDE DEF f, g
  <2> QED  BY <2>1, <2>2, FiniteIndexes, SumOfZeros
<1>2. market.last_accrual_ts = 0 /\ now = 0 /\ Pool(market) = 0
  <2>1. AccrualUnit \in Nat
    BY UnitsType
  <2> QED  BY <2>1 DEF Init, Pool
<1> HIDE DEF f
<1>3. SumOver(f, Borrowers) = 0
  BY <1>1, FiniteIndexes, SumOfZeros
<1> QED  BY <1>2, <1>3 DEF AccrualInv, f

-----------------------------------------------------------------------------
(* The theorems *)

\* total_deposited of a collateral asset is what positions hold of it, through
\* deposits, withdrawals, seizures and closed accounts.
THEOREM DepositsStayInSlots == Spec => []DepositsMatchSlots
<1>1. BooksInv => DepositsMatchSlots
  BY DEF BooksInv, DepositsMatchSlots, HeldOf
<1> QED  BY <1>1, BooksInvHolds, PTL

\* total_borrows and lp_rate_product are the sums over the loans that run, each at
\* its own terms, whatever the order of repayments, partial liquidations, write-offs
\* and parameter changes.
THEOREM BooksStayMatched == Spec => []BooksMatchLoans
<1>1. BooksInv => BooksMatchLoans
  BY DEF BooksInv, BooksMatchLoans, SumOverLoans, LoansOf, OwedBy, ContributedBy,
         Principals, Contributions, Contribution
<1> QED  BY <1>1, BooksInvHolds, PTL

\* The interest pool, with the carried remainder, holds at least what the loans have
\* accrued: every floor of a settlement leaves it with more, and no later settlement
\* is cut short by the saturating subtraction (state/market.rs accrue and settle).
THEOREM AccrualStaysCovered == Spec => []AccrualCoversLoans
<1>1. TypeOK /\ AccrualInv => AccrualCoversLoans
  <2> SUFFICES ASSUME TypeOK, AccrualInv PROVE AccrualCoversLoans
    OBVIOUS
  <2> DEFINE T == market.last_accrual_ts
             total == SumOverLoans(LAMBDA loan :
                        LpContribution(loan.principal, loan.rate_bps, loan.reserve_factor_bps)
                          * SecondsBetween(loan.interest_anchor, T))
  <2>1. total = SumOver(AccrualsBy(T), Borrowers)
    BY DEF SumOverLoans, LoansOf, AccrualsBy, Accruals, Accrues, Contribution
  <2>2. total <= Pool(market)
    BY <2>1 DEF AccrualInv
  <2>3. total \in Nat /\ Pool(market) \in Int
    <3>1. \A b \in Borrowers : AccrualsBy(T)[b] \in Nat
      BY AccrualsNat DEF TypeOK, Market, AccrualsBy
    <3>2. total \in Nat
      BY <2>1, <3>1, FiniteIndexes, SumIsNat
    <3>3. Pool(market) \in Int
      BY UnitsType DEF TypeOK, Market, Pool
    <3> QED  BY <3>2, <3>3
  <2> QED  BY <2>2, <2>3 DEF AccrualCoversLoans, Pool
<1>2. Init => AccrualInv
  BY InitAccrual
<1>3. TypeOK /\ TypeOK' /\ BooksInv /\ AccrualInv /\ [Next]_vars => AccrualInv'
  BY NextAccrual
<1> QED  BY <1>1, <1>2, <1>3, BooksInvHolds, PTL DEF Spec

\* What the promo vault owes is what positions hold, and it is recorded as held.
THEOREM PromoStaysCounted == Spec => []PromoIsBacked
<1>1. BooksInv /\ Ledger!Backed => PromoIsBacked
  BY DEF BooksInv, PromoIsBacked, PromoOf, Ledger!Backed, Ledger!Committed
<1> QED  BY <1>1, BooksInvHolds, PromoStaysBacked, PTL

\* However many tokens were clawed back from the promo vault, forfeiting a
\* position's promo never makes a liquidation or a write-off revert.
THEOREM ForfeitureNeverBlocks == Spec => []ForfeitNeverBlocks
<1>1. TypeOK /\ BooksInv /\ Ledger!Backed => ForfeitNeverBlocks
  <2> SUFFICES ASSUME TypeOK, BooksInv, Ledger!Backed, NEW b \in Borrowers
               PROVE  CanForfeit(position[b])
    BY DEF ForfeitNeverBlocks
  <2> DEFINE promo == position[b].promo_balance
             moved == ForfeitMoves(position[b])
  <2>1. /\ promo \in Nat /\ promo_vault_token \in Nat
        /\ promo_vault.cash \in Nat /\ promo_vault.outstanding \in Nat
        /\ promo_vault.unissued \in Nat
        /\ \A c \in Borrowers : PromoOf[c] \in Nat
    BY DEF TypeOK, Position, PromoOf
  <2>2. promo <= promo_vault.outstanding
    <3>1. PromoOf[b] <= SumOver(PromoOf, Borrowers)
      BY <2>1, FiniteIndexes, SumBoundsItsParts
    <3> QED  BY <3>1 DEF BooksInv, PromoOf
  <2>3. promo_vault.outstanding + promo_vault.unissued <= promo_vault.cash
    BY DEF Ledger!Backed, Ledger!Committed
  <2>4. moved \in Nat /\ moved <= promo /\ moved <= promo_vault_token
    BY <2>1 DEF ForfeitMoves, Min2
  <2> HIDE DEF promo, moved
  <2>5. /\ promo_vault.outstanding - promo + promo_vault.unissued <= promo_vault.cash
        /\ moved <= promo_vault.cash
        /\ promo_vault.outstanding - promo + promo_vault.unissued <= promo_vault.cash - moved
    BY <2>1, <2>2, <2>3, <2>4
  <2> QED  BY <2>2, <2>4, <2>5 DEF CanForfeit, CanRelease, promo, moved
<1> QED  BY <1>1, BooksInvHolds, PromoStaysBacked, PTL

-----------------------------------------------------------------------------
(* What the handlers of a loan do to its slot *)

\* A step changes the active loan in slot i of position b, and no other slot.
SlotMoves(b, i) ==
    /\ position[b].loans[i].active
    /\ position'[b].loans[i] # position[b].loans[i]
    /\ \A j \in LoanSlots \ {i} : position'[b].loans[j] = position[b].loans[j]
    /\ \A c \in Borrowers \ {b} : position'[c] = position[c] /\ credit'[c] = credit[c]

\* repay_loan counts a loan as completed when it closes it, and takes the whole
\* balance in for it.
LEMMA RepayFollowsTheLoan ==
  ASSUME TypeOK, NEW b \in Borrowers, NEW id \in 0..MaxLoanId, NEW amount \in RepayAmounts,
         RepayLoan(b, id, amount)
  PROVE  /\ position'[b].promo_balance = position[b].promo_balance
         /\ credit'[b].loans_defaulted = credit[b].loans_defaulted
         /\ credit' # credit =>
              \E i \in LoanSlots :
                 /\ SlotMoves(b, i) /\ ~position'[b].loans[i].active
                 /\ market_vault' - market_vault = Total(LoanBalance(position[b].loans[i], now))
<1> DEFINE p == position[b]
           loan(i) == p.loans[i]
           due(i) == Due(LoanBalance(loan(i), now))
           total(i) == Total(LoanBalance(loan(i), now))
           paid(i) == Min2(amount, total(i))
           closed(i) == paid(i) - due(i) = loan(i).principal
           loans(i) == [p.loans EXCEPT ![i] =
                              IF closed(i) THEN FreeSlot
                              ELSE [loan(i) EXCEPT !.principal = @ - (paid(i) - due(i)),
                                                   !.interest_anchor = now]]
           idle(i) == closed(i) /\ ~\E j \in LoanSlots : loans(i)[j].active
<1>1. PICK i \in LoanSlots :
        /\ IsLoanIndex(p, id, i)
        /\ position' = [position EXCEPT ![b] =
                          [p EXCEPT !.loans = loans(i),
                                    !.promo_last_activity_at = IF idle(i) THEN now ELSE @]]
        /\ market_vault' = market_vault + paid(i)
        /\ credit' = [credit EXCEPT ![b].loans_completed = IF closed(i) THEN @ + 1 ELSE @]
  BY DEF RepayLoan
<1>2. p \in Position /\ loan(i) \in Loan /\ now \in Nat /\ position \in [Borrowers -> Position]
  BY DEF TypeOK, Position
<1>3. credit \in [Borrowers -> [loans_completed: Nat, loans_defaulted: Nat]] /\ market_vault \in Nat
  BY DEF TypeOK
<1>4. /\ loan(i).principal \in Nat /\ due(i) \in Nat /\ total(i) = loan(i).principal + due(i)
  BY <1>2, BalanceType DEF Loan
<1>5. amount \in Nat BY InputsAreNaturals
<1> HIDE DEF due, total
<1>6. position'[b].loans = loans(i) /\ position'[b].promo_balance = p.promo_balance
  <2> HIDE DEF loans, idle
  <2> QED BY <1>1, <1>2 DEF Position
<1>7. credit'[b].loans_defaulted = credit[b].loans_defaulted
  BY <1>1, <1>3
<1>8. ASSUME credit' # credit PROVE closed(i)
  <2> SUFFICES ASSUME ~closed(i) PROVE FALSE OBVIOUS
  <2>1. credit' = [credit EXCEPT ![b].loans_completed = @] BY <1>1
  <2> HIDE DEF closed
  <2> QED BY <2>1, <1>3, <1>8
<1>9. ASSUME closed(i)
      PROVE  /\ SlotMoves(b, i) /\ ~position'[b].loans[i].active
             /\ market_vault' - market_vault = total(i)
  <2>1. loans(i) = [p.loans EXCEPT ![i] = FreeSlot] BY <1>9
  <2>2. market_vault' - market_vault = total(i)
    <3>1. paid(i) \in Nat BY <1>4, <1>5 DEF Min2
    <3> HIDE DEF paid
    <3>2. paid(i) = total(i) BY <1>4, <1>9, <3>1
    <3> QED BY <1>1, <1>3, <3>1, <3>2
  <2> HIDE DEF loans, closed, idle, paid
  <2>3. /\ position'[b].loans[i] = FreeSlot
        /\ \A j \in LoanSlots \ {i} : position'[b].loans[j] = p.loans[j]
    BY <1>2, <1>6, <2>1 DEF Position
  <2>4. \A c \in Borrowers \ {b} : position'[c] = position[c] /\ credit'[c] = credit[c]
    BY <1>1, <1>2, <1>3
  <2>5. loan(i).active /\ ~FreeSlot.active BY <1>1 DEF IsLoanIndex, FreeSlot
  <2> QED BY <2>2, <2>3, <2>4, <2>5 DEF SlotMoves
<1> QED BY <1>6, <1>7, <1>8, <1>9 DEF total

\* liquidate counts a default only when it closes the loan, out of a position the
\* prices it reads allow to liquidate.
LEMMA LiquidateFollowsTheLoan ==
  ASSUME TypeOK, NEW b \in Borrowers, NEW id \in 0..MaxLoanId, NEW a \in Assets,
         NEW amount \in LiquidateAmounts, NEW view \in PriceViews, NEW recorded \in BOOLEAN,
         Liquidate(b, id, a, amount, view, recorded)
  PROVE  /\ LiquidatableAt(b, view)
         /\ credit'[b].loans_completed = credit[b].loans_completed
         /\ \E i \in LoanSlots :
               /\ SlotMoves(b, i)
               /\ credit' # credit => ~position'[b].loans[i].active
<1> DEFINE p == position[b]
           loan(i) == p.loans[i]
           balance(i) == Total(LoanBalance(loan(i), now))
           paid(i) == Seizure(p, a, Min2(amount, balance(i)), view).repay_amount
           seized(i) == Seizure(p, a, Min2(amount, balance(i)), view).seize_amount
           principalRepaid(i) == PrincipalShare(paid(i), loan(i).principal, balance(i))
           closed(i) == principalRepaid(i) = loan(i).principal
           after(i) == IF closed(i) THEN FreeSlot
                       ELSE [loan(i) EXCEPT !.principal = @ - principalRepaid(i)]
<1>1. PICK i \in LoanSlots :
        /\ IsLoanIndex(p, id, i)
        /\ principalRepaid(i) > 0 /\ paid(i) > 0
        /\ position' = [position EXCEPT ![b] =
                          [p EXCEPT !.promo_balance = 0, !.collateral[a] = @ - seized(i),
                                    !.loans[i] = after(i)]]
        /\ credit' = [credit EXCEPT ![b].loans_defaulted =
                                        IF closed(i) /\ recorded THEN @ + 1 ELSE @]
  BY DEF Liquidate
<1>2. p \in Position /\ loan(i) \in Loan /\ now \in Nat /\ position \in [Borrowers -> Position]
  BY DEF TypeOK, Position
<1>3. credit \in [Borrowers -> [loans_completed: Nat, loans_defaulted: Nat]]
  BY DEF TypeOK
<1>4. principalRepaid(i) \in Nat
  <2>1. loan(i).principal \in Nat /\ balance(i) \in Nat /\ loan(i).principal <= balance(i)
    BY <1>2, TotalType DEF Loan
  <2>2. Min2(amount, balance(i)) \in Nat /\ Min2(amount, balance(i)) <= balance(i)
    BY <2>1, InputsAreNaturals DEF Min2
  <2> HIDE DEF balance
  <2>3. paid(i) \in Nat /\ paid(i) <= balance(i) BY <1>2, <2>1, <2>2, SeizureBounds
  <2> HIDE DEF paid
  <2> QED BY <1>1, <2>1, <2>3, PrincipalShareBounds
<1> HIDE DEF principalRepaid, seized, paid, balance
<1>5. /\ position'[b].loans[i] = after(i)
      /\ \A j \in LoanSlots \ {i} : position'[b].loans[j] = p.loans[j]
  <2> HIDE DEF after
  <2> QED BY <1>1, <1>2 DEF Position
<1>6. \A c \in Borrowers \ {b} : position'[c] = position[c] /\ credit'[c] = credit[c]
  BY <1>1, <1>2, <1>3
<1>7. loan(i).active BY <1>1 DEF IsLoanIndex
<1>8. CASE closed(i)
  <2>1. ~after(i).active BY <1>8 DEF FreeSlot
  <2>2. LiquidatableAt(b, view) BY DEF Liquidate, LiquidatableAt
  <2> HIDE DEF after, closed
  <2>3. credit'[b].loans_completed = credit[b].loans_completed BY <1>1, <1>3
  <2> QED BY <1>5, <1>6, <1>7, <2>1, <2>2, <2>3 DEF SlotMoves
<1>9. CASE ~closed(i)
  <2>1. after(i).principal = loan(i).principal - principalRepaid(i)
    BY <1>2, <1>9 DEF Loan
  <2>2. after(i) # loan(i)
    <3> HIDE DEF after, loan
    <3>1. loan(i).principal \in Nat BY <1>2 DEF Loan
    <3> QED BY <1>1, <1>4, <2>1, <3>1
  <2>3. credit' = [credit EXCEPT ![b].loans_defaulted = @]
    <3> HIDE DEF after, closed
    <3> QED BY <1>1, <1>9
  <2> HIDE DEF after, closed
  <2>4. credit' = credit BY <1>3, <2>3
  <2>5. LiquidatableAt(b, view) BY DEF Liquidate, LiquidatableAt
  <2> QED BY <1>5, <1>6, <1>7, <2>2, <2>4, <2>5 DEF SlotMoves
<1> QED BY <1>8, <1>9

\* write_off_loan frees the slot of the loan it counts as a default.
LEMMA WriteOffFollowsTheLoan ==
  ASSUME TypeOK, NEW b \in Borrowers, NEW id \in 0..MaxLoanId, NEW view \in PriceViews,
         WriteOffLoan(b, id, view)
  PROVE  /\ LiquidatableAt(b, view)
         /\ credit'[b].loans_completed = credit[b].loans_completed
         /\ \E i \in LoanSlots : SlotMoves(b, i) /\ ~position'[b].loans[i].active
<1>1. PICK i \in LoanSlots :
        /\ IsLoanIndex(position[b], id, i)
        /\ position' = [position EXCEPT ![b] =
                          [position[b] EXCEPT !.promo_balance = 0, !.loans[i] = FreeSlot]]
  BY DEF WriteOffLoan
<1>2. /\ credit' = [credit EXCEPT ![b].loans_defaulted = @ + 1]
      /\ LiquidatableAt(b, view)
  BY DEF WriteOffLoan, LiquidatableAt
<1>3. /\ position[b] \in Position /\ position \in [Borrowers -> Position]
      /\ credit \in [Borrowers -> [loans_completed: Nat, loans_defaulted: Nat]]
  BY DEF TypeOK
<1>4. /\ position'[b].loans[i] = FreeSlot
      /\ \A j \in LoanSlots \ {i} : position'[b].loans[j] = position[b].loans[j]
      /\ \A c \in Borrowers \ {b} : position'[c] = position[c]
  BY <1>1, <1>3 DEF Position
<1>5. position[b].loans[i].active /\ ~FreeSlot.active BY <1>1 DEF IsLoanIndex, FreeSlot
<1> QED BY <1>2, <1>3, <1>4, <1>5 DEF SlotMoves

\* What a step does to b's credit record: the property for one borrower.
CreditFollows(b) ==
  LET freed == {i \in LoanSlots : LoansOf(b)[i].active /\ ~LoansOf(b)'[i].active} IN
  /\ credit'[b].loans_completed > credit[b].loans_completed =>
        \E i \in LoanSlots :
            /\ freed = {i}
            /\ market_vault' - market_vault = Total(LoanBalance(LoansOf(b)[i], now))
  /\ credit'[b].loans_defaulted > credit[b].loans_defaulted =>
        /\ \E i \in LoanSlots : freed = {i}
        /\ \E view \in PriceViews : LiquidatableAt(b, view)

\* A slot that moves alone, to a free one, is the only one a step frees.
LEMMA OneSlotIsFreed ==
  ASSUME NEW b \in Borrowers, NEW i \in LoanSlots, SlotMoves(b, i),
         ~position'[b].loans[i].active
  PROVE  {j \in LoanSlots : LoansOf(b)[j].active /\ ~LoansOf(b)'[j].active} = {i}
  BY DEF SlotMoves, LoansOf

\* Steps that leave the credit records alone count nothing.
LEMMA QuietRecordCountsNothing ==
  ASSUME TypeOK, NEW b \in Borrowers, credit'[b] = credit[b] PROVE CreditFollows(b)
<1>1. credit[b].loans_completed \in Nat /\ credit[b].loans_defaulted \in Nat BY DEF TypeOK
<1>2. /\ ~(credit'[b].loans_completed > credit[b].loans_completed)
      /\ ~(credit'[b].loans_defaulted > credit[b].loans_defaulted)
  BY <1>1
<1> QED BY <1>2 DEF CreditFollows

\* Every step follows the loans with the credit records.
LEMMA NextFollowsTheLoan ==
  ASSUME TypeOK, [Next]_vars, NEW b \in Borrowers PROVE CreditFollows(b)
<1>1. credit[b].loans_completed \in Nat /\ credit[b].loans_defaulted \in Nat BY DEF TypeOK
<1>2. ASSUME NEW c \in Borrowers, NEW amount \in LoanAmounts, NEW tenure \in Tenures,
             NEW view \in PriceViews, TakeLoan(c, amount, tenure, view)
      PROVE  CreditFollows(b)
  BY <1>2, QuietRecordCountsNothing DEF TakeLoan
<1>3. ASSUME NEW c \in Borrowers, NEW id \in 0..MaxLoanId, NEW amount \in RepayAmounts,
             RepayLoan(c, id, amount)
      PROVE  CreditFollows(b)
  <2>1. CASE credit'[b] = credit[b] BY <2>1, QuietRecordCountsNothing
  <2>2. CASE credit'[b] # credit[b]
    <3>1. PICK i \in LoanSlots :
            /\ SlotMoves(c, i) /\ ~position'[c].loans[i].active
            /\ market_vault' - market_vault = Total(LoanBalance(position[c].loans[i], now))
      BY <1>3, <2>2, RepayFollowsTheLoan
    <3>2. c = b BY <2>2, <3>1 DEF SlotMoves
    <3>3. {j \in LoanSlots : LoansOf(b)[j].active /\ ~LoansOf(b)'[j].active} = {i}
      BY <3>1, <3>2, OneSlotIsFreed
    <3>4. credit'[b].loans_defaulted = credit[b].loans_defaulted
      BY <1>3, <3>2, RepayFollowsTheLoan
    <3>5. ~(credit'[b].loans_defaulted > credit[b].loans_defaulted) BY <1>1, <3>4
    <3>6. market_vault' - market_vault = Total(LoanBalance(LoansOf(b)[i], now))
      BY <3>1, <3>2 DEF LoansOf
    <3> QED BY <3>3, <3>5, <3>6 DEF CreditFollows
  <2> QED BY <2>1, <2>2
<1>4. ASSUME NEW view \in PriceViews, LiquidatableAt(b, view),
             credit'[b].loans_completed = credit[b].loans_completed,
             NEW i \in LoanSlots, SlotMoves(b, i), ~position'[b].loans[i].active
      PROVE  CreditFollows(b)
  <2>1. {j \in LoanSlots : LoansOf(b)[j].active /\ ~LoansOf(b)'[j].active} = {i}
    BY <1>4, OneSlotIsFreed
  <2>2. ~(credit'[b].loans_completed > credit[b].loans_completed) BY <1>1, <1>4
  <2> QED BY <1>4, <2>1, <2>2 DEF CreditFollows
<1>5. ASSUME NEW c \in Borrowers, NEW id \in 0..MaxLoanId, NEW a \in Assets,
             NEW amount \in LiquidateAmounts, NEW view \in PriceViews, NEW recorded \in BOOLEAN,
             Liquidate(c, id, a, amount, view, recorded)
      PROVE  CreditFollows(b)
  <2>1. CASE credit'[b] = credit[b] BY <2>1, QuietRecordCountsNothing
  <2>2. CASE credit'[b] # credit[b]
    <3>1. PICK i \in LoanSlots : SlotMoves(c, i) /\ ~position'[c].loans[i].active
      BY <1>5, <2>2, LiquidateFollowsTheLoan
    <3>2. c = b BY <2>2, <3>1 DEF SlotMoves
    <3> QED BY <1>4, <1>5, <3>1, <3>2, LiquidateFollowsTheLoan
  <2> QED BY <2>1, <2>2
<1>6. ASSUME NEW c \in Borrowers, NEW id \in 0..MaxLoanId, NEW view \in PriceViews,
             WriteOffLoan(c, id, view)
      PROVE  CreditFollows(b)
  <2>1. CASE c # b
    <3>1. credit' = [credit EXCEPT ![c].loans_defaulted = @ + 1] BY <1>6 DEF WriteOffLoan
    <3> QED BY <2>1, <3>1, QuietRecordCountsNothing DEF TypeOK
  <2>2. CASE c = b
    <3>1. PICK i \in LoanSlots : SlotMoves(b, i) /\ ~position'[b].loans[i].active
      BY <1>6, <2>2, WriteOffFollowsTheLoan
    <3> QED BY <1>4, <1>6, <2>2, <3>1, WriteOffFollowsTheLoan
  <2> QED BY <2>1, <2>2
<1>7. ASSUME NEW c \in Borrowers, LoanStep(c) PROVE CreditFollows(b)
  BY <1>2, <1>3, <1>5, <1>6, <1>7 DEF LoanStep
<1>8. ASSUME credit' = credit PROVE CreditFollows(b)
  BY <1>8, QuietRecordCountsNothing
<1>9. ASSUME NEW c \in Borrowers,
             OpenPosition(c) \/ ClosePosition(c) \/ CollateralStep(c) \/ PromoStep(c)
      PROVE  credit' = credit
  BY <1>9 DEF OpenPosition, ClosePosition, CollateralStep, DepositCollateral,
              WithdrawCollateral, PromoStep, RedeemPromo, ExpirePromo, RevokePromo
<1>10. CASE BorrowerStep BY <1>7, <1>8, <1>9, <1>10 DEF BorrowerStep
<1>11. CASE LenderStep
  BY <1>8, <1>11 DEF LenderStep, DepositLiquidity, WithdrawLiquidity
<1>12. CASE AdminStep
  BY <1>8, <1>12 DEF AdminStep, HarvestReserve, SweepMarketExcess, UpdateMarketParams,
                     SetMarketPaused, SetCollateralPaused, SetCollateralBorrowPaused,
                     UpdateCollateralParams
<1>13. CASE EnvironmentStep
  BY <1>8, <1>13 DEF EnvironmentStep, Tick, Donate, Clawback, ClawbackMarket
<1>14. CASE UNCHANGED vars BY <1>8, <1>14 DEF vars
<1> QED BY <1>10, <1>11, <1>12, <1>13, <1>14 DEF Next

\* A wallet's credit record moves with its loans alone: one more completed when
\* the whole balance of one loan comes in, one more defaulted when one loan of a
\* liquidatable position is closed or given up.
THEOREM CreditIsEarned == Spec => CreditFollowsTheLoan
<1>1. TypeOK /\ [Next]_vars =>
        [ \A b \in Borrowers :
          LET freed == {i \in LoanSlots : LoansOf(b)[i].active /\ ~LoansOf(b)'[i].active} IN
          /\ credit'[b].loans_completed > credit[b].loans_completed =>
                \E i \in LoanSlots :
                    /\ freed = {i}
                    /\ market_vault' - market_vault = Total(LoanBalance(LoansOf(b)[i], now))
          /\ credit'[b].loans_defaulted > credit[b].loans_defaulted =>
                /\ \E i \in LoanSlots : freed = {i}
                /\ \E view \in PriceViews : LiquidatableAt(b, view) ]_vars
  BY NextFollowsTheLoan DEF CreditFollows
<1> QED BY <1>1, TypeCorrect, PTL DEF Spec, CreditFollowsTheLoan

-----------------------------------------------------------------------------
(* What takes promo from a position with loans *)

\* What a step does to b's promo: the property for one borrower.
PromoIsProtected(b) ==
  /\ HasActiveLoans(position[b])
  /\ position'[b].promo_balance < position[b].promo_balance
  => \E view \in PriceViews :
        IF LoansOf(b)' # LoansOf(b) THEN LiquidatableAt(b, view)
        ELSE HealthyAt(b, view)'

\* revoke_promo leaves a position with loans healthy at the prices it read.
LEMMA RevokingLeavesHealthy ==
  ASSUME TypeOK, NEW b \in Borrowers, NEW view \in PriceViews, RevokePromo(b, view),
         HasActiveLoans(position[b])
  PROVE  LoansOf(b)' = LoansOf(b) /\ HealthyAt(b, view)'
<1> DEFINE left == [position[b] EXCEPT !.promo_balance = 0]
<1>1. /\ position' = [position EXCEPT ![b] = left]
      /\ StaysHealthy(left, view)
      /\ now' = now /\ collateral' = collateral
  BY DEF RevokePromo
<1>2. position'[b] = left
  <2> HIDE DEF left
  <2> QED BY <1>1 DEF TypeOK
<1>3. left.loans = position[b].loans BY DEF TypeOK, Position
<1> HIDE DEF left
<1>4. IsHealthy(PositionHealth(left, 0, view))
  BY <1>1, <1>3 DEF StaysHealthy, HasActiveLoans
<1>5. HealthyAt(b, view)' <=> IsHealthy(PositionHealth(left, 0, view))
  <2>1. CollateralValues(position[b], view)' = CollateralValues(left, view)
    BY <1>1, <1>2 DEF CollateralValues, UsedCollateral, OverMultiplierCeiling
  <2>2. TotalDebt(position[b])' = TotalDebt(left)
    BY <1>1, <1>2 DEF TotalDebt
  <2>3. PositionHealth(position[b], 0, view)' = PositionHealth(left, 0, view)
    BY <1>2, <2>1, <2>2 DEF PositionHealth
  <2> QED BY <2>3 DEF HealthyAt, IsHealthy
<1>6. LoansOf(b)' = LoansOf(b) BY <1>2, <1>3 DEF LoansOf
<1>7. HealthyAt(b, view)' BY <1>4, <1>5
<1> QED BY <1>6, <1>7

\* Steps that leave the promo alone take none.
LEMMA QuietPromoIsProtected ==
  ASSUME TypeOK, NEW b \in Borrowers, position'[b].promo_balance = position[b].promo_balance
  PROVE  PromoIsProtected(b)
<1>1. position[b].promo_balance \in Nat BY DEF TypeOK, Position
<1>2. ~(position'[b].promo_balance < position[b].promo_balance) BY <1>1
<1> QED BY <1>2 DEF PromoIsProtected

\* A position without active loans is not what the property is about.
LEMMA IdlePromoIsProtected ==
  ASSUME NEW b \in Borrowers, ~HasActiveLoans(position[b]) PROVE PromoIsProtected(b)
  BY DEF PromoIsProtected

\* Promo steps take promo from a position with loans only if it stays healthy.
LEMMA PromoStepProtects ==
  ASSUME TypeOK, NEW c \in Borrowers, PromoStep(c), NEW b \in Borrowers
  PROVE  PromoIsProtected(b)
<1>1. position \in [Borrowers -> Position] /\ position[b].promo_balance \in Nat
  BY DEF TypeOK, Position
<1>2. ASSUME NEW amount \in PromoAmounts, RedeemPromo(c, amount) PROVE PromoIsProtected(b)
  <2>1. CASE c # b
    BY <1>1, <1>2, <2>1, QuietPromoIsProtected DEF RedeemPromo
  <2>2. CASE c = b
    <3>1. position'[b] = [position[b] EXCEPT !.promo_balance = @ + amount,
                                             !.promo_last_activity_at = now]
      BY <1>1, <1>2, <2>2 DEF RedeemPromo
    <3>2. position'[b].promo_balance = position[b].promo_balance + amount
      BY <1>1, <3>1 DEF Position
    <3>3. amount \in Nat BY InputsAreNaturals
    <3>4. ~(position'[b].promo_balance < position[b].promo_balance) BY <1>1, <3>2, <3>3
    <3> QED BY <3>4 DEF PromoIsProtected
  <2> QED BY <2>1, <2>2
<1>3. CASE ExpirePromo(c)
  <2>1. CASE c # b BY <1>1, <1>3, <2>1, QuietPromoIsProtected DEF ExpirePromo
  <2>2. CASE c = b BY <1>3, <2>2, IdlePromoIsProtected DEF ExpirePromo
  <2> QED BY <2>1, <2>2
<1>4. ASSUME NEW view \in PriceViews, RevokePromo(c, view) PROVE PromoIsProtected(b)
  <2>1. CASE c # b BY <1>1, <1>4, <2>1, QuietPromoIsProtected DEF RevokePromo
  <2>2. CASE c = b
    BY <1>4, <2>2, IdlePromoIsProtected, RevokingLeavesHealthy DEF PromoIsProtected
  <2> QED BY <2>1, <2>2
<1> QED BY <1>2, <1>3, <1>4 DEF PromoStep

\* Loan steps take promo from a position with loans only by forfeiture.
LEMMA LoanStepProtects ==
  ASSUME TypeOK, NEW c \in Borrowers, LoanStep(c), NEW b \in Borrowers
  PROVE  PromoIsProtected(b)
<1>1. position \in [Borrowers -> Position] BY DEF TypeOK
<1>2. ASSUME NEW amount \in LoanAmounts, NEW tenure \in Tenures, NEW view \in PriceViews,
             TakeLoan(c, amount, tenure, view)
      PROVE  PromoIsProtected(b)
  <2> DEFINE p == position[c]
             expired == IF PromoDue(p) THEN p.promo_balance ELSE 0
             q == [p EXCEPT !.promo_balance = @ - expired]
             loan == NewLoan(p.next_loan_id, amount, tenure)
             after(i) == [q EXCEPT !.next_loan_id = @ + 1,
                                   !.promo_last_activity_at = now,
                                   !.loans[i] = loan]
  <2>1. PICK i \in LoanSlots : position' = [position EXCEPT ![c] = after(i)]
    BY <1>2 DEF TakeLoan
  <2>2. CASE c # b
    <3> HIDE DEF after
    <3> QED BY <1>1, <2>1, <2>2, QuietPromoIsProtected
  <2>3. CASE c = b /\ PromoDue(p)
    BY <2>3, IdlePromoIsProtected DEF PromoDue
  <2>4. CASE c = b /\ ~PromoDue(p)
    <3>1. p \in Position /\ p.promo_balance \in Nat BY <1>1 DEF Position
    <3>2. expired = 0 BY <2>4
    <3> HIDE DEF expired, loan
    <3>3. after(i).promo_balance = p.promo_balance
      BY <3>1, <3>2 DEF Position
    <3> HIDE DEF after
    <3>4. position'[b] = after(i) BY <1>1, <2>1, <2>4
    <3> QED BY <2>4, <3>3, <3>4, QuietPromoIsProtected
  <2> QED BY <2>2, <2>3, <2>4
<1>3. ASSUME NEW id \in 0..MaxLoanId, NEW amount \in RepayAmounts, RepayLoan(c, id, amount)
      PROVE  PromoIsProtected(b)
  <2>1. position'[c].promo_balance = position[c].promo_balance BY <1>3, RepayFollowsTheLoan
  <2>2. CASE b # c
    <3>1. position'[b] = position[b] BY <1>1, <1>3, <2>2 DEF RepayLoan
    <3> QED BY <3>1, QuietPromoIsProtected
  <2> QED BY <2>1, <2>2, QuietPromoIsProtected
<1>4. ASSUME NEW view \in PriceViews, LiquidatableAt(c, view),
             NEW i \in LoanSlots, SlotMoves(c, i), ~(b # c /\ position'[b] # position[b])
      PROVE  PromoIsProtected(b)
  <2>1. CASE b # c BY <1>4, <2>1, QuietPromoIsProtected
  <2>2. CASE b = c
    <3>1. LoansOf(b)' # LoansOf(b) BY <1>4, <2>2 DEF LoansOf, SlotMoves
    <3> QED BY <1>4, <2>2, <3>1 DEF PromoIsProtected
  <2> QED BY <2>1, <2>2
<1>5. ASSUME NEW id \in 0..MaxLoanId, NEW a \in Assets, NEW amount \in LiquidateAmounts,
             NEW view \in PriceViews, NEW recorded \in BOOLEAN,
             Liquidate(c, id, a, amount, view, recorded)
      PROVE  PromoIsProtected(b)
  <2>1. PICK i \in LoanSlots : SlotMoves(c, i) BY <1>5, LiquidateFollowsTheLoan
  <2>2. LiquidatableAt(c, view) BY <1>5, LiquidateFollowsTheLoan
  <2> QED BY <1>4, <2>1, <2>2 DEF SlotMoves
<1>6. ASSUME NEW id \in 0..MaxLoanId, NEW view \in PriceViews, WriteOffLoan(c, id, view)
      PROVE  PromoIsProtected(b)
  <2>1. PICK i \in LoanSlots : SlotMoves(c, i) BY <1>6, WriteOffFollowsTheLoan
  <2>2. LiquidatableAt(c, view) BY <1>6, WriteOffFollowsTheLoan
  <2> QED BY <1>4, <2>1, <2>2 DEF SlotMoves
<1> QED BY <1>2, <1>3, <1>5, <1>6 DEF LoanStep

\* Relative to the closed positions being empty, every step protects the promo of
\* positions with loans.
LEMMA NextProtectsPromo ==
  ASSUME TypeOK, BooksInv, [Next]_vars, NEW b \in Borrowers PROVE PromoIsProtected(b)
<1>1. position \in [Borrowers -> Position] BY DEF TypeOK
<1>2. ASSUME position'[b] = position[b] PROVE PromoIsProtected(b)
  BY <1>2, QuietPromoIsProtected
<1>3. ASSUME NEW c \in Borrowers, OpenPosition(c) PROVE PromoIsProtected(b)
  <2>1. CASE b = c
    <3>1. position[b] = EmptyPosition BY <1>3, <2>1 DEF OpenPosition, BooksInv
    <3>2. ~HasActiveLoans(position[b])
      BY <3>1 DEF EmptyPosition, FreeSlot, HasActiveLoans
    <3> QED BY <3>2, IdlePromoIsProtected
  <2>2. CASE b # c BY <1>1, <1>2, <1>3, <2>2 DEF OpenPosition
  <2> QED BY <2>1, <2>2
<1>4. ASSUME NEW c \in Borrowers, ClosePosition(c) PROVE PromoIsProtected(b)
  <2>1. CASE b = c BY <1>4, <2>1, IdlePromoIsProtected DEF ClosePosition
  <2>2. CASE b # c BY <1>1, <1>2, <1>4, <2>2 DEF ClosePosition
  <2> QED BY <2>1, <2>2
<1>5. ASSUME NEW c \in Borrowers, CollateralStep(c) PROVE PromoIsProtected(b)
  <2>1. PICK a \in Assets, amount \in CollateralAmounts :
          \/ position' = [position EXCEPT ![c] = [position[c] EXCEPT !.collateral[a] = @ + amount]]
          \/ position' = [position EXCEPT ![c] = [position[c] EXCEPT !.collateral[a] = @ - amount]]
    BY <1>5 DEF CollateralStep, DepositCollateral, WithdrawCollateral
  <2>2. position'[b].promo_balance = position[b].promo_balance
    BY <1>1, <2>1 DEF Position
  <2> QED BY <2>2, QuietPromoIsProtected
<1>6. CASE BorrowerStep
  BY <1>3, <1>4, <1>5, <1>6, LoanStepProtects, PromoStepProtects DEF BorrowerStep
<1>7. CASE LenderStep
  BY <1>2, <1>7 DEF LenderStep, DepositLiquidity, WithdrawLiquidity
<1>8. CASE AdminStep
  BY <1>2, <1>8 DEF AdminStep, HarvestReserve, SweepMarketExcess, UpdateMarketParams,
                    SetMarketPaused, SetCollateralPaused, SetCollateralBorrowPaused,
                    UpdateCollateralParams
<1>9. CASE EnvironmentStep
  BY <1>2, <1>9 DEF EnvironmentStep, Tick, Donate, Clawback, ClawbackMarket
<1>10. CASE UNCHANGED vars BY <1>2, <1>10 DEF vars
<1> QED BY <1>6, <1>7, <1>8, <1>9, <1>10 DEF Next

\* Promo supports a running loan until the position is liquidated for it, or is
\* healthy without it: it is not expired, revoked or lost to a close under a loan.
THEOREM PromoBacksItsLoans == Spec => PromoProtectsLiveLoans
<1>1. (TypeOK /\ BooksInv) /\ [Next]_vars =>
        [ \A b \in Borrowers :
          /\ HasActiveLoans(position[b])
          /\ position'[b].promo_balance < position[b].promo_balance
          => \E view \in PriceViews :
                IF LoansOf(b)' # LoansOf(b) THEN LiquidatableAt(b, view)
                ELSE HealthyAt(b, view)' ]_vars
  BY NextProtectsPromo DEF PromoIsProtected
<1> QED BY <1>1, BooksInvHolds, PTL DEF Spec, PromoProtectsLiveLoans

-----------------------------------------------------------------------------
(* What a write-off costs *)

\* What the pool carries besides whole tokens is less than one.
RemainderInv == market.accrual_remainder < AccrualUnit

\* Accrual leaves less than a token over.
LEMMA AccrueLeavesLessThanAToken ==
  ASSUME NEW m \in Market, now \in Nat, m.accrual_remainder < AccrualUnit
  PROVE  Accrue(m).accrual_remainder < AccrualUnit
<1> DEFINE numerator == m.lp_rate_product * (now - m.last_accrual_ts) + m.accrual_remainder
<1>1. CASE now <= m.last_accrual_ts
  BY <1>1 DEF Accrue
<1>2. CASE ~(now <= m.last_accrual_ts)
  <2>1. Accrue(m).accrual_remainder = numerator % AccrualUnit
    BY <1>2 DEF Accrue, AccrueLpInterest, Market
  <2>2. numerator \in Nat
    <3>1. now - m.last_accrual_ts \in Nat /\ m.lp_rate_product \in Nat
          /\ m.accrual_remainder \in Nat
      BY <1>2 DEF Market
    <3>2. m.lp_rate_product * (now - m.last_accrual_ts) \in Nat
      BY <3>1, ProductNat
    <3> QED  BY <3>1, <3>2
  <2> HIDE DEF numerator
  <2>3. \A n \in Nat, d \in Nat \ {0} : (n % d) < d
    BY SMT
  <2> QED  BY <2>1, <2>2, <2>3, UnitsType
<1> QED  BY <1>1, <1>2

\* Every step leaves the remainder as it is, or as accrual leaves it.
LEMMA NextRemainder ==
  TypeOK /\ TypeOK' /\ BooksInv /\ RemainderInv /\ [Next]_vars => RemainderInv'
<1> SUFFICES ASSUME TypeOK, TypeOK', BooksInv, RemainderInv, [Next]_vars PROVE RemainderInv'
  OBVIOUS
<1>1. /\ market \in Market /\ now \in Nat
      /\ Accrue(market).accrual_remainder < AccrualUnit
  BY AccrueLeavesLessThanAToken DEF TypeOK, RemainderInv
<1>2. ASSUME PoolStays PROVE RemainderInv'
  BY <1>1, <1>2 DEF PoolStays, RemainderInv, AccrualUnit
<1>3. ASSUME NEW b \in Borrowers, SettlesAccrual(b) PROVE RemainderInv'
  BY <1>1, <1>3 DEF SettlesAccrual, RemainderInv, AccrualUnit
<1>4. ASSUME NEW b \in Borrowers, LoanStep(b) PROVE RemainderInv'
  BY <1>2, <1>3, <1>4, TakeMoves, RepayMoves, LiquidateMoves, WriteOffMoves DEF LoanStep
<1>5. CASE BorrowerStep
  BY <1>2, <1>4, <1>5, QuietStepsAccrueNothing DEF BorrowerStep
<1>6. CASE LenderStep \/ AdminStep \/ EnvironmentStep \/ UNCHANGED vars
  BY <1>2, <1>6, OthersMoveNothing
<1> QED  BY <1>5, <1>6 DEF Next

\* A market starts with nothing left over.
LEMMA RemainderHolds == Spec => []RemainderInv
<1>1. Init => RemainderInv
  BY UnitsType DEF Init, RemainderInv
<1> QED  BY <1>1, NextRemainder, BooksInvHolds, PTL DEF Spec

\* The pool, brought up to now, has what any one loan has accrued: no settlement of it
\* is cut short.
LEMMA PoolHasWhatALoanAccrued ==
  ASSUME TypeOK, BooksInv, AccrualInv, RemainderInv, NEW b \in Borrowers, NEW i \in LoanSlots
  PROVE  LET loan == position[b].loans[i]
         IN  AccruedLpInterest(loan.principal, loan, now) <= Accrue(market).accrued_interest
<1> DEFINE m == Accrue(market)
           loan == position[b].loans[i]
           d == AccruedLpInterest(loan.principal, loan, now)
           f == [j \in LoanSlots |-> Accrues(position[b].loans[j], now)]
<1>1. /\ m \in Market /\ now \in Nat /\ loan \in Loan /\ market \in Market
      /\ position[b] \in Position
  BY AccrueType DEF TypeOK, Position
<1>2. d * AccrualUnit <= Accrues(loan, now) /\ d \in Nat /\ Accrues(loan, now) \in Nat
  <2>1. Accrues(loan, now) \in Nat
    BY <1>1, AccruesNat
  <2>2. d = Accrues(loan, now) \div AccrualUnit
    BY DEF AccruedLpInterest, MulDivFloor, Accrues, Contribution
  <2> HIDE DEF d, loan
  <2> QED  BY <2>1, <2>2, UnitsType, DivNat, DivLe
<1>3. Accrues(loan, now) <= Accruals(position[b].loans, now)
  <2>1. \A j \in LoanSlots : f[j] \in Nat
    BY <1>1, AccruesNat DEF Position
  <2>2. f[i] = Accrues(loan, now) /\ SumOver(f, LoanSlots) = Accruals(position[b].loans, now)
    BY DEF Accruals
  <2> HIDE DEF f, loan
  <2> QED  BY <2>1, <2>2, FiniteIndexes, SumBoundsItsParts
<1>4. Accruals(position[b].loans, now) <= SumOver(AccrualsBy(now), Borrowers)
  <2> DEFINE g == AccrualsBy(now)
  <2>1. \A c \in Borrowers : g[c] \in Nat
    BY <1>1, AccrualsNat DEF TypeOK, AccrualsBy
  <2>2. g[b] = Accruals(position[b].loans, now)
    BY DEF AccrualsBy
  <2> HIDE DEF g
  <2>3. g[b] <= SumOver(g, Borrowers)
    BY <2>1, FiniteIndexes, SumBoundsItsParts
  <2> QED  BY <2>2, <2>3 DEF g
<1>5. SumOver(AccrualsBy(now), Borrowers) <= Pool(m)
  BY AccrueCovers
<1>6. SumOver(AccrualsBy(now), Borrowers) \in Nat /\ Accruals(position[b].loans, now) \in Nat
  <2> DEFINE g == AccrualsBy(now)
  <2>1. \A c \in Borrowers : g[c] \in Nat
    BY <1>1, AccrualsNat DEF TypeOK, AccrualsBy
  <2> HIDE DEF g
  <2>2. SumOver(g, Borrowers) \in Nat
    BY <2>1, FiniteIndexes, SumIsNat
  <2> QED  BY <1>1, <2>2, AccrualsNat DEF g
<1>7. /\ m.accrued_interest \in Nat /\ m.accrual_remainder \in Nat
      /\ m.accrual_remainder < AccrualUnit
  BY <1>1, AccrueLeavesLessThanAToken DEF Market, RemainderInv
<1> HIDE DEF d, m, loan
<1>8. d * AccrualUnit < (m.accrued_interest + 1) * AccrualUnit
  <2>1. m.accrued_interest * AccrualUnit \in Nat /\ d * AccrualUnit \in Nat
    BY <1>2, <1>7, UnitsType, ProductNat
  <2>2. (m.accrued_interest + 1) * AccrualUnit = m.accrued_interest * AccrualUnit + AccrualUnit
    BY <1>7, UnitsType
  <2> QED  BY <1>2, <1>3, <1>4, <1>5, <1>6, <1>7, <2>1, <2>2, UnitsType DEF Pool
<1>9. d <= m.accrued_interest
  <2>1. \A x, y, u \in Nat : x >= y => x * u >= y * u
    OBVIOUS
  <2> QED  BY <1>2, <1>7, <1>8, <2>1, UnitsType
<1> QED  BY <1>9 DEF d, m, loan

\* write_off_loan takes the loan and its interest out of the assets, puts the forfeited
\* promo in, and charges the reserve with its part of what is missing.
LEMMA WriteOffBooksTheLoss ==
  ASSUME TypeOK, TypeOK', BooksInv, AccrualInv, RemainderInv,
         NEW b \in Borrowers, NEW id \in 0..MaxLoanId,
         NEW view \in PriceViews, WriteOffLoan(b, id, view),
         market'.total_bad_debt - market.total_bad_debt > 0
  PROVE  AssetsOf(market)' = AssetsOf(market)
            - (market'.total_bad_debt - market.total_bad_debt)
            + (market.protocol_reserve - market'.protocol_reserve)
<1> DEFINE m == Accrue(market)
           p == position[b]
           moved == ForfeitMoves(p)
           loan(i) == p.loans[i]
           accrued(i) == AccruedLpInterest(loan(i).principal, loan(i), now)
           netLoss(i) == NetLoss(loan(i).principal + accrued(i), moved)
           covered(i) == CoveredByReserve(netLoss(i), m.protocol_reserve)
           c(i) == LpContribution(loan(i).principal, loan(i).rate_bps,
                                  loan(i).reserve_factor_bps)
<1>1. PICK i \in LoanSlots :
        market' = [m EXCEPT
              !.cash = @ + moved,
              !.accrued_interest = SatSub(@, accrued(i)),
              !.total_borrows = @ - loan(i).principal,
              !.lp_rate_product = @ - c(i),
              !.protocol_reserve = @ - covered(i),
              !.total_bad_debt = @ + netLoss(i)]
  BY DEF WriteOffLoan
<1>2. /\ m \in Market /\ m.last_accrual_ts >= now
      /\ m.total_bad_debt = market.total_bad_debt
      /\ now \in Nat /\ now' = now /\ market' \in Market
  BY AccrueType, AccrueKeeps DEF TypeOK, WriteOffLoan
<1>3. m.protocol_reserve = market.protocol_reserve
  BY DEF Accrue, Market, TypeOK
<1>4. loan(i) \in Loan BY DEF TypeOK, Position
<1>5. loan(i).principal \in Nat BY <1>4 DEF Loan
<1>6. moved \in Nat
  <2>1. CanForfeit(p) BY DEF WriteOffLoan
  <2> QED BY <2>1, ForfeitType
<1>7. accrued(i) \in Nat /\ accrued(i) <= m.accrued_interest
  BY <1>2, <1>4, <1>5, AccruedNat, PoolHasWhatALoanAccrued
<1> HIDE DEF accrued, moved, m, loan
<1>8. /\ m.cash \in Nat /\ m.total_borrows \in Nat /\ m.accrued_interest \in Nat
      /\ m.protocol_reserve \in Nat /\ m.total_bad_debt \in Nat
  BY <1>2 DEF Market
<1>9. netLoss(i) \in Nat
  BY <1>5, <1>6, <1>7 DEF NetLoss, SatSub
<1>10. covered(i) \in Nat
  BY <1>8, <1>9 DEF CoveredByReserve, Min2
<1> HIDE DEF covered, c
<1>11. /\ market'.cash = m.cash + moved
       /\ market'.accrued_interest = SatSub(m.accrued_interest, accrued(i))
       /\ market'.total_borrows = m.total_borrows - loan(i).principal
       /\ market'.protocol_reserve = m.protocol_reserve - covered(i)
       /\ market'.total_bad_debt = m.total_bad_debt + netLoss(i)
       /\ market'.last_accrual_ts = m.last_accrual_ts
  BY <1>1, <1>2 DEF Market
<1>12. netLoss(i) > 0
  BY <1>2, <1>8, <1>9, <1>11
<1>13. netLoss(i) = loan(i).principal + accrued(i) - moved
  BY <1>5, <1>6, <1>7, <1>12 DEF NetLoss, SatSub
<1> HIDE DEF netLoss
<1>14. SatSub(m.accrued_interest, accrued(i)) = m.accrued_interest - accrued(i)
  BY <1>7, <1>8 DEF SatSub
<1>15. /\ market'.total_bad_debt - market.total_bad_debt = netLoss(i)
       /\ market.protocol_reserve - market'.protocol_reserve = covered(i)
  BY <1>2, <1>3, <1>8, <1>9, <1>10, <1>11
<1>16. TotalAssets(market') = TotalAssets(m) - netLoss(i) + covered(i)
  BY <1>5, <1>6, <1>7, <1>8, <1>10, <1>11, <1>13, <1>14 DEF TotalAssets
<1>17. /\ AssetsOf(market)' = TotalAssets(market') + VIRTUAL_ASSETS
       /\ TotalAssets(market') \in Int
  BY <1>2, <1>11, AssetsWhenCurrent
<1>18. AssetsOf(market) = TotalAssets(m) + VIRTUAL_ASSETS /\ TotalAssets(m) \in Int
  BY AssetsType DEF m
<1> QED  BY <1>9, <1>10, <1>15, <1>16, <1>17, <1>18, ScalesArePositive

\* Nothing else books bad debt.
LEMMA OnlyWriteOffsBook ==
  ASSUME TypeOK, [Next]_vars,
         ~ \E b \in Borrowers, id \in 0..MaxLoanId, view \in PriceViews : WriteOffLoan(b, id, view)
  PROVE  market'.total_bad_debt = market.total_bad_debt
<1> DEFINE m == Accrue(market)
<1>1. /\ m \in Market /\ market \in Market /\ m.total_bad_debt = market.total_bad_debt
  BY AccrueType, AccrueKeeps DEF TypeOK
<1> HIDE DEF m
<1>2. CASE BorrowerStep
  <2>1. PICK b \in Borrowers : \/ OpenPosition(b)
                               \/ ClosePosition(b)
                               \/ CollateralStep(b)
                               \/ LoanStep(b)
                               \/ PromoStep(b)
    BY <1>2 DEF BorrowerStep
  <2>2. ASSUME NEW amount \in LoanAmounts, NEW tenure \in Tenures, NEW view \in PriceViews,
               TakeLoan(b, amount, tenure, view)
        PROVE  market'.total_bad_debt = market.total_bad_debt
    BY <1>1, <2>2 DEF TakeLoan, m, Market
  <2>3. ASSUME NEW loan, NEW on, NEW x, NEW interest,
               market' = SettleLoan(m, loan, on, x, interest)
        PROVE  market'.total_bad_debt = market.total_bad_debt
    BY <1>1, <2>3 DEF SettleLoan, Market
  <2>4. ASSUME NEW id \in 0..MaxLoanId, NEW amount \in RepayAmounts, RepayLoan(b, id, amount)
        PROVE  market'.total_bad_debt = market.total_bad_debt
    <3>1. \E loan, on, x, interest : market' = SettleLoan(m, loan, on, x, interest)
      BY <2>4 DEF RepayLoan, m
    <3> QED  BY <2>3, <3>1
  <2>5. ASSUME NEW id \in 0..MaxLoanId, NEW a \in Assets, NEW amount \in LiquidateAmounts,
               NEW view \in PriceViews, NEW recorded \in BOOLEAN,
               Liquidate(b, id, a, amount, view, recorded)
        PROVE  market'.total_bad_debt = market.total_bad_debt
    BY <1>1, <2>5 DEF Liquidate, m, SettleLoan, Market
  <2>6. CASE LoanStep(b)
    BY <2>2, <2>4, <2>5, <2>6 DEF LoanStep
  <2>7. CASE OpenPosition(b) \/ ClosePosition(b) \/ CollateralStep(b) \/ PromoStep(b)
    BY <2>7 DEF OpenPosition, ClosePosition, CollateralStep, DepositCollateral,
                WithdrawCollateral, PromoStep, RedeemPromo, ExpirePromo, RevokePromo
  <2> QED  BY <2>1, <2>6, <2>7
<1>3. CASE LenderStep
  <2>1. \E cash, shares : market' = [m EXCEPT !.cash = cash, !.total_shares = shares]
    BY <1>3 DEF LenderStep, DepositLiquidity, WithdrawLiquidity, m
  <2> QED  BY <1>1, <2>1 DEF Market
<1>4. CASE AdminStep
  <2>1. ASSUME NEW amount \in HarvestAmounts, HarvestReserve(amount)
        PROVE  market'.total_bad_debt = market.total_bad_debt
    BY <1>1, <2>1 DEF HarvestReserve, Market
  <2>2. ASSUME NEW params \in ParamChoices, UpdateMarketParams(params)
        PROVE  market'.total_bad_debt = market.total_bad_debt
    BY <1>1, <2>2 DEF UpdateMarketParams, m, Market
  <2>3. ASSUME NEW paused \in PauseInputs, SetMarketPaused(paused)
        PROVE  market'.total_bad_debt = market.total_bad_debt
    BY <1>1, <2>3 DEF SetMarketPaused, Market
  <2> QED  BY <1>4, <2>1, <2>2, <2>3
           DEF AdminStep, SweepMarketExcess, SetCollateralPaused, SetCollateralBorrowPaused,
               UpdateCollateralParams
<1>5. CASE EnvironmentStep
  BY <1>5 DEF EnvironmentStep, Tick, Donate, Clawback, ClawbackMarket
<1>6. CASE UNCHANGED vars
  BY <1>6 DEF vars
<1> QED  BY <1>2, <1>3, <1>4, <1>5, <1>6 DEF Next

\* What a write-off books is what the lenders and the reserve lose by it: the forfeited
\* promo is not counted as lost, and the interest taken out of the pool is all the loan
\* had accrued, as the pool has it.
THEOREM BookedLossIsReal == Spec => BadDebtIsTheLoss
<1>1. TypeOK /\ TypeOK' /\ BooksInv /\ AccrualInv /\ RemainderInv /\ [Next]_vars =>
        [ LET booked  == market'.total_bad_debt - market.total_bad_debt
              covered == market.protocol_reserve - market'.protocol_reserve
          IN  booked > 0 => AssetsOf(market)' = AssetsOf(market) - booked + covered ]_vars
  <2> SUFFICES ASSUME TypeOK, TypeOK', BooksInv, AccrualInv, RemainderInv, [Next]_vars,
                      market'.total_bad_debt - market.total_bad_debt > 0
               PROVE  AssetsOf(market)' = AssetsOf(market)
                         - (market'.total_bad_debt - market.total_bad_debt)
                         + (market.protocol_reserve - market'.protocol_reserve)
    OBVIOUS
  <2>1. market'.total_bad_debt # market.total_bad_debt
    BY DEF TypeOK, Market
  <2> QED  BY <2>1, OnlyWriteOffsBook, WriteOffBooksTheLoss
<1>2. TypeOK /\ TypeOK' /\ BooksInv /\ AccrualInv /\ [Next]_vars => AccrualInv'
  BY NextAccrual
<1> QED  BY <1>1, <1>2, InitAccrual, BooksInvHolds, RemainderHolds, PTL
         DEF Spec, BadDebtIsTheLoss

-----------------------------------------------------------------------------
(* What a trade is worth to the lender *)

\* Every share is some lender's.
SharesInv == market.total_shares = SumOver(lender, Lenders)

\* No step but a trade moves shares.
LEMMA OnlyTradesMoveShares ==
  ASSUME TypeOK, BorrowerStep \/ AdminStep \/ EnvironmentStep \/ UNCHANGED vars
  PROVE  market'.total_shares = market.total_shares /\ lender' = lender
<1> DEFINE m == Accrue(market)
           same == market'.total_shares = market.total_shares
<1>1. /\ m \in Market /\ market \in Market /\ m.total_shares = market.total_shares
  BY AccrueType, AccrueKeeps DEF TypeOK
<1> HIDE DEF m
<1>2. CASE BorrowerStep
  <2>1. PICK b \in Borrowers : \/ OpenPosition(b)
                               \/ ClosePosition(b)
                               \/ CollateralStep(b)
                               \/ LoanStep(b)
                               \/ PromoStep(b)
    BY <1>2 DEF BorrowerStep
  <2>2. ASSUME NEW amount \in LoanAmounts, NEW tenure \in Tenures, NEW view \in PriceViews,
               TakeLoan(b, amount, tenure, view)
        PROVE  same /\ lender' = lender
    BY <1>1, <2>2 DEF TakeLoan, m, Market
  <2>3. ASSUME NEW id \in 0..MaxLoanId, NEW amount \in RepayAmounts, RepayLoan(b, id, amount)
        PROVE  same /\ lender' = lender
    <3>1. /\ \E loan, on, x, interest : market' = SettleLoan(m, loan, on, x, interest)
          /\ lender' = lender
      BY <2>3 DEF RepayLoan, m
    <3> QED  BY <1>1, <3>1 DEF SettleLoan, Market
  <2>4. ASSUME NEW id \in 0..MaxLoanId, NEW a \in Assets, NEW amount \in LiquidateAmounts,
               NEW view \in PriceViews, NEW recorded \in BOOLEAN,
               Liquidate(b, id, a, amount, view, recorded)
        PROVE  same /\ lender' = lender
    BY <1>1, <2>4 DEF Liquidate, m, SettleLoan, Market
  <2>5. ASSUME NEW id \in 0..MaxLoanId, NEW view \in PriceViews, WriteOffLoan(b, id, view)
        PROVE  same /\ lender' = lender
    BY <1>1, <2>5 DEF WriteOffLoan, m, Market
  <2>6. CASE LoanStep(b)
    BY <2>2, <2>3, <2>4, <2>5, <2>6 DEF LoanStep
  <2>7. CASE OpenPosition(b) \/ ClosePosition(b) \/ CollateralStep(b) \/ PromoStep(b)
    BY <2>7 DEF OpenPosition, ClosePosition, CollateralStep, DepositCollateral,
                WithdrawCollateral, PromoStep, RedeemPromo, ExpirePromo, RevokePromo
  <2> QED  BY <2>1, <2>6, <2>7
<1>3. CASE AdminStep
  <2>1. ASSUME NEW amount \in HarvestAmounts, HarvestReserve(amount) PROVE same /\ lender' = lender
    BY <1>1, <2>1 DEF HarvestReserve, Market
  <2>2. ASSUME NEW params \in ParamChoices, UpdateMarketParams(params)
        PROVE  same /\ lender' = lender
    BY <1>1, <2>2 DEF UpdateMarketParams, m, Market
  <2>3. ASSUME NEW paused \in PauseInputs, SetMarketPaused(paused) PROVE same /\ lender' = lender
    BY <1>1, <2>3 DEF SetMarketPaused, Market
  <2> QED  BY <1>3, <2>1, <2>2, <2>3
           DEF AdminStep, SweepMarketExcess, SetCollateralPaused, SetCollateralBorrowPaused,
               UpdateCollateralParams
<1>4. CASE EnvironmentStep
  BY <1>4 DEF EnvironmentStep, Tick, Donate, Clawback, ClawbackMarket
<1>5. CASE UNCHANGED vars
  BY <1>5 DEF vars
<1> QED  BY <1>2, <1>3, <1>4, <1>5

\* A trade adds to the total what it adds to the lender's shares.
LEMMA TradeKeepsShares ==
  ASSUME TypeOK, TypeOK', SharesInv, NEW w \in Lenders, NEW s \in Int,
         lender' = [lender EXCEPT ![w] = @ + s],
         SharesOf(market)' = SharesOf(market) + s
  PROVE  SharesInv'
<1>1. /\ lender \in [Lenders -> Nat] /\ lender' \in [Lenders -> Nat]
      /\ market.total_shares \in Nat /\ market'.total_shares \in Nat
  BY DEF TypeOK, Market
<1>2. SumOver(lender', Lenders) = SumOver(lender, Lenders) + lender'[w] - lender[w]
  <2> DEFINE f == lender
             g == lender'
  <2>1. /\ \A v \in Lenders : f[v] \in Nat /\ g[v] \in Nat
        /\ \A v \in Lenders : v # w => f[v] = g[v]
    BY <1>1
  <2>2. IsFiniteSet(Lenders)
    BY FiniteParties
  <2> HIDE DEF f, g
  <2>3. SumOver(g, Lenders) = SumOver(f, Lenders) + g[w] - f[w]
    BY <2>1, <2>2, SumOfOneChange
  <2> QED  BY <2>3 DEF f, g
<1>3. lender'[w] = lender[w] + s
  BY <1>1
<1>4. market'.total_shares = market.total_shares + s
  BY <1>1, ScalesArePositive DEF SharesOf
<1>5. market'.total_shares = SumOver(lender', Lenders)
  BY <1>1, <1>2, <1>3, <1>4 DEF SharesInv
<1> QED  BY <1>5 DEF SharesInv

\* Shares are counted through every step.
LEMMA NextShares == TypeOK /\ TypeOK' /\ SharesInv /\ [Next]_vars => SharesInv'
<1> SUFFICES ASSUME TypeOK, TypeOK', SharesInv, [Next]_vars PROVE SharesInv'
  OBVIOUS
<1>1. ASSUME NEW w \in Lenders, NEW amount \in DepositAmounts, DepositLiquidity(w, amount)
      PROVE  SharesInv'
  <2>1. PICK s \in Nat : /\ lender' = [lender EXCEPT ![w] = @ + s]
                         /\ SharesOf(market)' = SharesOf(market) + s
    BY <1>1, DepositTrades
  <2>2. s \in Int
    OBVIOUS
  <2> QED  BY <2>1, <2>2, TradeKeepsShares
<1>2. ASSUME NEW w \in Lenders, NEW request \in WithdrawAmounts, WithdrawLiquidity(w, request)
      PROVE  SharesInv'
  <2>1. PICK s \in Nat : /\ lender' = [lender EXCEPT ![w] = @ - s]
                         /\ SharesOf(market)' = SharesOf(market) - s
    BY <1>2, WithdrawTrades
  <2>2. SharesOf(market) \in Nat /\ lender[w] \in Nat
    BY AssetsType DEF TypeOK
  <2>3. SharesOf(market)' = SharesOf(market) + (0 - s) /\ lender[w] - s = lender[w] + (0 - s)
    BY <2>1, <2>2
  <2>4. lender' = [lender EXCEPT ![w] = @ + (0 - s)]
    BY <2>1, <2>3
  <2>5. 0 - s \in Int
    OBVIOUS
  <2> QED  BY <2>3, <2>4, <2>5, TradeKeepsShares
<1>3. CASE LenderStep
  BY <1>1, <1>2, <1>3 DEF LenderStep
<1>4. CASE BorrowerStep \/ AdminStep \/ EnvironmentStep \/ UNCHANGED vars
  BY <1>4, OnlyTradesMoveShares DEF SharesInv
<1> QED  BY <1>3, <1>4 DEF Next

\* A market starts without shares.
LEMMA SharesHold == Spec => []SharesInv
<1>1. Init => SharesInv
  <2> SUFFICES ASSUME Init PROVE SharesInv
    OBVIOUS
  <2>1. \A w \in Lenders : lender[w] = 0
    BY DEF Init
  <2>2. SumOver(lender, Lenders) = 0
    BY <2>1, FiniteParties, SumOfZeros
  <2> QED  BY <2>2 DEF Init, SharesInv
<1> QED  BY <1>1, NextShares, TypeCorrect, PTL DEF Spec

\* Where ds shares change hands for da tokens, and da is at least what they are worth, the
\* claim of fewer than all the shares grows by at most da, rounding included.
LEMMA ClaimGrowsByAtMost ==
  ASSUME NEW A \in Nat \ {0}, NEW S \in Nat \ {0}, NEW L \in Nat, L < S,
         NEW da \in Int, NEW ds \in Int,
         A + da \in Nat, S + ds \in Nat \ {0}, L + ds \in Nat, da * S >= ds * A
  PROVE  MulDivFloor(L + ds, A + da, S + ds) - MulDivFloor(L, A, S) <= da
<1> DEFINE C == MulDivFloor(L, A, S)
           A2 == A + da
           S2 == S + ds
           L2 == L + ds
           C2 == MulDivFloor(L2, A2, S2)
<1>1. A2 \in Nat /\ S2 \in Nat \ {0} /\ L2 \in Nat
  OBVIOUS
<1>2. C \in Nat /\ C2 \in Nat
  BY <1>1, FloorNat
<1>3. L * A + 1 <= (C + 1) * S
  <2> DEFINE n == L * A
  <2>1. n \in Nat
    BY ProductNat
  <2>2. C = n \div S
    BY DEF MulDivFloor
  <2> HIDE DEF n, C
  <2>3. n = C * S + (n % S) /\ (n % S) + 1 <= S /\ (n % S) \in Nat
    BY <2>1, <2>2, DivMod, ModNat, SMT
  <2>4. (C + 1) * S = C * S + S /\ C * S \in Nat
    BY <1>2
  <2> QED  BY <2>1, <2>3, <2>4 DEF n
<1>4. C2 * S2 <= L2 * A2
  <2>1. L2 * A2 \in Nat
    BY <1>1, ProductNat
  <2> HIDE DEF L2, A2, S2
  <2> QED  BY <1>1, <2>1, DivLe DEF MulDivFloor
<1>5. L2 * A2 * S <= (L * A + da * S) * S2
  <2>1. (L * A + da * S) * (S + ds) - (L + ds) * (A + da) * S = (da * S - ds * A) * (S - L)
    BY SMT
  <2>2. da * S - ds * A \in Nat /\ S - L \in Nat
    OBVIOUS
  <2>3. (da * S - ds * A) * (S - L) \in Nat
    BY <2>2, ProductNat
  <2>4. (L * A + da * S) * (S + ds) \in Int /\ (L + ds) * (A + da) * S \in Int
    OBVIOUS
  <2> QED  BY <2>1, <2>3, <2>4
<1> HIDE DEF C, A2, S2, L2, C2
<1>6. (L * A + da * S) * S2 < (C + 1 + da) * S * S2
  <2>1. (C + 1 + da) * S = (C + 1) * S + da * S
    BY <1>2
  <2>2. L * A + da * S < (C + 1 + da) * S
    <3>1. L * A \in Int /\ da * S \in Int /\ (C + 1) * S \in Int
      BY <1>2
    <3> QED  BY <1>3, <2>1, <3>1
  <2>3. \A x, y \in Int, k \in Nat \ {0} : x < y => x * k < y * k
    OBVIOUS
  <2>4. L * A + da * S \in Int /\ (C + 1 + da) * S \in Int
    BY <1>2
  <2> QED  BY <1>1, <2>2, <2>3, <2>4
<1>7. C2 * S2 * S <= L2 * A2 * S
  <2>1. \A x, y \in Int, k \in Nat : x <= y => x * k <= y * k
    OBVIOUS
  <2>2. C2 * S2 \in Int /\ L2 * A2 \in Int
    BY <1>1, <1>2
  <2> QED  BY <1>4, <2>1, <2>2
<1>8. C2 * (S2 * S) < (C + 1 + da) * (S2 * S)
  <2>1. C2 * S2 * S = C2 * (S2 * S) /\ (C + 1 + da) * S * S2 = (C + 1 + da) * (S2 * S)
    BY <1>1, <1>2
  <2>2. C2 * S2 * S \in Int /\ L2 * A2 * S \in Int /\ (L * A + da * S) * S2 \in Int
        /\ (C + 1 + da) * S * S2 \in Int
    BY <1>1, <1>2
  <2> QED  BY <1>5, <1>6, <1>7, <2>1, <2>2
<1>9. C2 < C + 1 + da
  <2>1. \A x, y \in Int, k \in Nat : x >= y => x * k >= y * k
    OBVIOUS
  <2>2. S2 * S \in Nat
    BY <1>1, ProductNat
  <2> HIDE DEF C2
  <2>3. CASE C2 >= C + 1 + da
    <3>1. C2 * (S2 * S) >= (C + 1 + da) * (S2 * S)
      BY <1>2, <2>1, <2>2, <2>3
    <3>2. C2 * (S2 * S) \in Int /\ (C + 1 + da) * (S2 * S) \in Int
      BY <1>2, <2>2
    <3> QED  BY <1>8, <3>1, <3>2
  <2> QED  BY <1>2, <2>3
<1> QED  BY <1>2, <1>9 DEF C, C2, A2, S2, L2

\* So a trade at a number of shares rounded against the lender gains it nothing.
LEMMA TradeGainsNothing ==
  ASSUME TypeOK, TypeOK', SharesInv, NEW w \in Lenders, NEW da \in Int, NEW ds \in Int,
         AssetsOf(market) \in Nat \ {0}, AssetsOf(market) + da \in Nat,
         AssetsOf(market)' = AssetsOf(market) + da,
         SharesOf(market)' = SharesOf(market) + ds,
         lender' = [lender EXCEPT ![w] = @ + ds],
         da * SharesOf(market) >= ds * AssetsOf(market),
         market_vault' = market_vault + da
  PROVE  Claim(w)' - Claim(w) <= market_vault' - market_vault
<1> DEFINE A == AssetsOf(market)
           S == SharesOf(market)
           L == lender[w]
<1>1. /\ lender \in [Lenders -> Nat] /\ lender' \in [Lenders -> Nat]
      /\ market.total_shares \in Nat /\ market'.total_shares \in Nat
      /\ market_vault \in Nat
  BY DEF TypeOK, Market
<1>2. L \in Nat /\ L <= market.total_shares
  <2>1. \A v \in Lenders : lender[v] \in Nat
    BY <1>1
  <2> QED  BY <2>1, FiniteParties, SumBoundsItsParts DEF SharesInv
<1>3. S \in Nat \ {0} /\ L < S
  BY <1>1, <1>2, ScalesArePositive DEF SharesOf
<1>4. SharesOf(market)' \in Nat \ {0}
  BY <1>1, ScalesArePositive DEF SharesOf
<1>5. lender'[w] = L + ds /\ lender'[w] \in Nat
  BY <1>1
<1>6. /\ Claim(w) = MulDivFloor(L, A, S)
      /\ Claim(w)' = MulDivFloor(lender'[w], AssetsOf(market)', SharesOf(market)')
  BY DEF Claim, RedeemableAmount, AssetsOf, SharesOf
<1> HIDE DEF A, S, L
<1>7. A \in Nat \ {0} /\ A + da \in Nat /\ da * S >= ds * A /\ AssetsOf(market)' = A + da
      /\ SharesOf(market)' = S + ds
  BY DEF A, S
<1>8. MulDivFloor(L + ds, A + da, S + ds) - MulDivFloor(L, A, S) <= da
  BY <1>2, <1>3, <1>4, <1>5, <1>7, ClaimGrowsByAtMost
<1>9. market_vault' - market_vault = da
  BY <1>1
<1> QED  BY <1>5, <1>6, <1>7, <1>8, <1>9

\* No step gains the lender that trades more than it brings in.
LEMMA NextGainsNothing ==
  ASSUME TypeOK, TypeOK', SharesInv, [Next]_vars, NEW w \in Lenders, lender'[w] # lender[w]
  PROVE  Claim(w)' - Claim(w) <= market_vault' - market_vault
<1>1. LenderStep
  BY OnlyTradesMoveShares DEF Next
<1>2. ASSUME NEW v \in Lenders, NEW s, lender' = [lender EXCEPT ![v] = s] PROVE v = w
  BY <1>2 DEF TypeOK
<1>3. ASSUME NEW v \in Lenders, NEW amount \in DepositAmounts, DepositLiquidity(v, amount)
      PROVE  Claim(w)' - Claim(w) <= market_vault' - market_vault
  <2> DEFINE A == AssetsOf(market)
             S == SharesOf(market)
             s == MulDivFloor(amount, S, A)
  <2>1. /\ amount \in Nat /\ s \in Nat /\ A \in Nat \ {0} /\ S \in Nat \ {0}
        /\ AssetsOf(market)' = A + amount
        /\ SharesOf(market)' = S + s
        /\ lender' = [lender EXCEPT ![v] = @ + s]
        /\ market_vault' = market_vault + amount
    BY <1>3, DepositTrades
  <2>2. s * A <= amount * S
    <3>1. amount * S \in Nat
      BY <2>1, ProductNat
    <3> HIDE DEF A, S
    <3> QED  BY <2>1, <3>1, DivLe DEF MulDivFloor
  <2>3. v = w
    BY <1>2, <2>1
  <2> HIDE DEF s
  <2>4. amount * S \in Int /\ s * A \in Int
    BY <2>1
  <2>5. amount * S >= s * A
    BY <2>2, <2>4
  <2>6. amount \in Int /\ s \in Int /\ A + amount \in Nat
    BY <2>1
  <2> QED  BY <2>1, <2>3, <2>5, <2>6, TradeGainsNothing
<1>4. ASSUME NEW v \in Lenders, NEW request \in WithdrawAmounts, WithdrawLiquidity(v, request)
      PROVE  Claim(w)' - Claim(w) <= market_vault' - market_vault
  <2> DEFINE A == AssetsOf(market)
             S == SharesOf(market)
             s(amount) == MulDivCeil(amount, S, A)
  <2>1. PICK amount \in Nat :
            /\ s(amount) \in Nat
            /\ A \in Nat \ {0} /\ S \in Nat \ {0}
            /\ AssetsOf(market)' = A - amount
            /\ SharesOf(market)' = S - s(amount)
            /\ lender' = [lender EXCEPT ![v] = @ - s(amount)]
            /\ market_vault' = market_vault - amount
            /\ amount <= A
    BY <1>4, WithdrawTrades
  <2>2. amount * S <= s(amount) * A
    BY <2>1, CeilGe
  <2>3. v = w
    BY <1>2, <2>1
  <2> HIDE DEF s
  <2>4. /\ AssetsOf(market)' = A + (0 - amount)
        /\ SharesOf(market)' = S + (0 - s(amount))
        /\ market_vault' = market_vault + (0 - amount)
        /\ A + (0 - amount) \in Nat
    <3> HIDE DEF A, S
    <3>1. market_vault \in Nat
      BY DEF TypeOK
    <3> QED  BY <2>1, <3>1
  <2>5. lender' = [lender EXCEPT ![v] = @ + (0 - s(amount))]
    <3>1. lender[v] \in Nat
      BY DEF TypeOK
    <3>2. lender[v] - s(amount) = lender[v] + (0 - s(amount))
      BY <2>1, <3>1
    <3> QED  BY <2>1, <3>2
  <2>6. (0 - amount) * S >= (0 - s(amount)) * A
    <3>1. (0 - amount) * S = 0 - amount * S /\ (0 - s(amount)) * A = 0 - s(amount) * A
      BY <2>1
    <3>2. amount * S \in Int /\ s(amount) * A \in Int
      BY <2>1
    <3> QED  BY <2>2, <3>1, <3>2
  <2>7. 0 - amount \in Int /\ 0 - s(amount) \in Int
    BY <2>1
  <2> QED  BY <2>1, <2>3, <2>4, <2>5, <2>6, <2>7, TradeGainsNothing
<1> QED  BY <1>1, <1>3, <1>4 DEF LenderStep

\* A deposit or a withdrawal never leaves its lender better off: it can redeem at most
\* what it put in more, and loses at least what it took out.
THEOREM TradesNeverProfit == Spec => TradingNeverProfits
<1>1. TypeOK /\ TypeOK' /\ SharesInv /\ [Next]_vars =>
        [ \A w \in Lenders :
            lender[w]' # lender[w] => Claim(w)' - Claim(w) <= market_vault' - market_vault ]_vars
  BY NextGainsNothing
<1> QED  BY <1>1, TypeCorrect, SharesHold, PTL DEF Spec, TradingNeverProfits

-----------------------------------------------------------------------------
(* The program's checked subtractions *)

\* Whatever part of an active loan is paid, the market's totals carry it, the pool has
\* the interest to take out, and the listing has the collateral that may be seized.
SettlementsCarry ==
    \A b \in Borrowers, i \in LoanSlots :
        LET loan == position[b].loans[i]
            m == Accrue(market)
        IN  /\ \A x \in 0..loan.principal : BooksCarry(m, loan, x)
            /\ AccruedLpInterest(loan.principal, loan, now) <= m.accrued_interest
            /\ \A a \in Assets : position[b].collateral[a] <= collateral[a].total_deposited

\* The most a lender may ask for, all it can redeem or all the cash there is, burns no
\* more shares than it has, and the assets never come out below nothing.
LendersCanLeave ==
    \A w \in Lenders :
        LET m == Accrue(market)
            most == Min2(RedeemableAmount(lender[w], m.total_shares, TotalAssets(m)),
                         AvailableCash(m))
            burned == SharesToBurn(most, m.total_shares, TotalAssets(m))
        IN  /\ ~AssetsUnderflow(m)
            /\ burned <= lender[w]
            /\ burned <= m.total_shares

\* One loan's part of the totals is no more than the totals.
LEMMA TotalsHoldEveryLoan ==
  ASSUME TypeOK, BooksInv, NEW b \in Borrowers, NEW i \in LoanSlots
  PROVE  /\ position[b].loans[i].principal <= market.total_borrows
         /\ Contribution(position[b].loans[i]) <= market.lp_rate_product
<1> DEFINE p == position[b]
           f == [j \in LoanSlots |-> p.loans[j].principal]
           g == [j \in LoanSlots |-> Contribution(p.loans[j])]
           F == OwedBy
           G == ContributedBy
<1>1. p \in Position /\ \A j \in LoanSlots : p.loans[j] \in Loan
  BY DEF TypeOK, Position
<1>2. \A j \in LoanSlots : f[j] \in Nat /\ g[j] \in Nat
  BY <1>1, ContributionIsNat
<1>3. \A c \in Borrowers : F[c] \in Nat /\ G[c] \in Nat
  BY PartsAreNat DEF TypeOK, OwedBy, ContributedBy
<1>4. /\ f[i] = p.loans[i].principal /\ g[i] = Contribution(p.loans[i])
      /\ SumOver(f, LoanSlots) = F[b] /\ SumOver(g, LoanSlots) = G[b]
  BY DEF OwedBy, ContributedBy, Principals, Contributions
<1>5. SumOver(F, Borrowers) = market.total_borrows /\ SumOver(G, Borrowers) = market.lp_rate_product
  BY DEF BooksInv
<1> HIDE DEF f, g, F, G
<1>6. f[i] <= SumOver(f, LoanSlots) /\ g[i] <= SumOver(g, LoanSlots)
  BY <1>2, FiniteIndexes, SumBoundsItsParts
<1>7. F[b] <= SumOver(F, Borrowers) /\ G[b] <= SumOver(G, Borrowers)
  BY <1>3, FiniteIndexes, SumBoundsItsParts
<1>8. market.total_borrows \in Nat /\ market.lp_rate_product \in Nat
  BY DEF TypeOK, Market
<1> QED  BY <1>2, <1>3, <1>4, <1>5, <1>6, <1>7, <1>8

\* A part of a loan contributes no more than the loan.
LEMMA PartContributesLess ==
  ASSUME NEW loan \in Loan, NEW x \in 0..loan.principal
  PROVE  /\ x \in Nat
         /\ LpContribution(x, loan.rate_bps, loan.reserve_factor_bps) <= Contribution(loan)
<1> DEFINE k == BPS - loan.reserve_factor_bps
<1>1. /\ loan.principal \in Nat /\ loan.rate_bps \in Nat /\ k \in Nat
      /\ x \in Nat /\ x <= loan.principal
  BY ScalesArePositive DEF Loan
<1> HIDE DEF k
<1>2. \A y, z, r \in Nat : y <= z => y * r \in Nat /\ z * r \in Nat /\ y * r <= z * r
  OBVIOUS
<1>3. /\ x * loan.rate_bps \in Nat /\ loan.principal * loan.rate_bps \in Nat
      /\ x * loan.rate_bps <= loan.principal * loan.rate_bps
  BY <1>1, <1>2
<1>4. x * loan.rate_bps * k <= loan.principal * loan.rate_bps * k
  BY <1>1, <1>2, <1>3
<1> QED  BY <1>1, <1>4 DEF LpContribution, Contribution, k

\* The books carry every settlement.
LEMMA BooksCarrySettlements ==
  ASSUME TypeOK, BooksInv, AccrualInv, RemainderInv PROVE SettlementsCarry
<1> SUFFICES ASSUME NEW b \in Borrowers, NEW i \in LoanSlots
             PROVE  LET loan == position[b].loans[i]
                        m == Accrue(market)
                    IN  /\ \A x \in 0..loan.principal : BooksCarry(m, loan, x)
                        /\ AccruedLpInterest(loan.principal, loan, now) <= m.accrued_interest
                        /\ \A a \in Assets :
                              position[b].collateral[a] <= collateral[a].total_deposited
  BY DEF SettlementsCarry
<1> DEFINE loan == position[b].loans[i]
           m == Accrue(market)
<1>1. /\ loan \in Loan /\ market \in Market
      /\ m.total_borrows = market.total_borrows /\ m.lp_rate_product = market.lp_rate_product
      /\ market.total_borrows \in Nat /\ market.lp_rate_product \in Nat
  BY AccrueKeepsBooks DEF TypeOK, Position, Market
<1>2. loan.principal <= market.total_borrows /\ Contribution(loan) <= market.lp_rate_product
  BY TotalsHoldEveryLoan
<1>3. ASSUME NEW x \in 0..loan.principal PROVE BooksCarry(m, loan, x)
  <2>1. /\ x \in Nat
        /\ LpContribution(x, loan.rate_bps, loan.reserve_factor_bps) <= Contribution(loan)
    BY <1>1, PartContributesLess
  <2>2. /\ LpContribution(x, loan.rate_bps, loan.reserve_factor_bps) \in Nat
        /\ Contribution(loan) \in Nat /\ loan.principal \in Nat /\ x <= loan.principal
    BY <1>1, <2>1, ContributionNat, ContributionIsNat DEF Loan
  <2> HIDE DEF m, loan
  <2> QED  BY <1>1, <1>2, <2>1, <2>2 DEF BooksCarry
<1>4. AccruedLpInterest(loan.principal, loan, now) <= m.accrued_interest
  BY PoolHasWhatALoanAccrued
<1>5. ASSUME NEW a \in Assets PROVE position[b].collateral[a] <= collateral[a].total_deposited
  <2> DEFINE h == HeldOf(a)
  <2>1. /\ \A c \in Borrowers : h[c] \in Nat
        /\ h[b] = position[b].collateral[a]
    BY DEF HeldOf, TypeOK, Position
  <2>2. collateral[a].total_deposited = SumOver(h, Borrowers)
    BY DEF BooksInv
  <2> HIDE DEF h
  <2> QED  BY <2>1, <2>2, FiniteIndexes, SumBoundsItsParts
<1> QED  BY <1>3, <1>4, <1>5

\* What shares redeem, rounded down, costs at most those shares, rounded up.
LEMMA RedeemingBurnsWhatIsHeld ==
  ASSUME NEW A \in Nat \ {0}, NEW S \in Nat \ {0}, NEW L \in Nat, NEW x \in Nat,
         x <= MulDivFloor(L, A, S)
  PROVE  MulDivCeil(x, S, A) <= L
<1> DEFINE C == MulDivFloor(L, A, S)
           n == x * S + A - 1
<1>1. C \in Nat /\ L * A \in Nat /\ x * S \in Nat
  BY FloorNat, ProductNat
<1>2. C * S <= L * A
  BY <1>1, DivLe DEF MulDivFloor
<1>3. x * S <= C * S
  <2>1. \A y, z, k \in Nat : y <= z => y * k <= z * k
    OBVIOUS
  <2> HIDE DEF C
  <2>2. x <= C
    BY DEF C
  <2> QED  BY <1>1, <2>1, <2>2
<1> HIDE DEF C
<1>4. C * S \in Nat
  BY <1>1, ProductNat
<1>5. x * S <= L * A
  BY <1>1, <1>2, <1>3, <1>4
<1>6. n \in Nat /\ n < (L + 1) * A
  <2>1. (L + 1) * A = L * A + A
    OBVIOUS
  <2> QED  BY <1>1, <1>5, <2>1
<1> HIDE DEF n
<1>7. (n \div A) * A <= n /\ n \div A \in Nat
  BY <1>6, DivLe, DivNat
<1>8. n \div A <= L
  <2>1. \A y, z, k \in Nat : y >= z => y * k >= z * k
    OBVIOUS
  <2>2. L + 1 \in Nat /\ A \in Nat /\ (L + 1) * A \in Nat /\ (n \div A) * A \in Nat
    BY <1>7, ProductNat
  <2>3. CASE n \div A >= L + 1
    <3>1. (n \div A) * A >= (L + 1) * A
      BY <1>7, <2>1, <2>2, <2>3
    <3> QED  BY <1>6, <1>7, <2>2, <3>1
  <2> QED  BY <1>7, <2>3
<1> QED  BY <1>8 DEF MulDivCeil, n

\* The reserve is in the cash and the shares are counted, so a lender can leave.
LEMMA SharesBuyTheirWayOut ==
  ASSUME TypeOK, SharesInv, ReserveIsCash PROVE LendersCanLeave
<1> SUFFICES ASSUME NEW w \in Lenders
             PROVE  LET m == Accrue(market)
                        most == Min2(RedeemableAmount(lender[w], m.total_shares, TotalAssets(m)),
                                     AvailableCash(m))
                        burned == SharesToBurn(most, m.total_shares, TotalAssets(m))
                    IN  /\ ~AssetsUnderflow(m)
                        /\ burned <= lender[w]
                        /\ burned <= m.total_shares
  BY DEF LendersCanLeave
<1> DEFINE m == Accrue(market)
           A == TotalAssets(m) + VIRTUAL_ASSETS
           S == m.total_shares + VIRTUAL_SHARES
           L == lender[w]
           all == MulDivFloor(L, A, S)
           most == Min2(all, AvailableCash(m))
           burned == MulDivCeil(most, S, A)
<1>1. /\ m \in Market /\ m.total_shares = market.total_shares
      /\ m.protocol_reserve <= m.cash
  <2>1. m \in Market /\ m.total_shares = market.total_shares
    BY AccrueType, AccrueKeeps DEF TypeOK
  <2>2. m.protocol_reserve = market.protocol_reserve /\ m.cash = market.cash
    BY DEF Accrue, TypeOK, Market
  <2> QED  BY <2>1, <2>2 DEF ReserveIsCash
<1>2. L \in Nat /\ L <= m.total_shares /\ m.total_shares \in Nat
  <2>1. \A v \in Lenders : lender[v] \in Nat
    BY DEF TypeOK
  <2>2. L <= SumOver(lender, Lenders)
    BY <2>1, FiniteParties, SumBoundsItsParts
  <2> QED  BY <1>1, <2>1, <2>2 DEF SharesInv, TypeOK, Market
<1> HIDE DEF m
<1>3. /\ m.cash \in Nat /\ m.total_borrows \in Nat /\ m.accrued_interest \in Nat
      /\ m.protocol_reserve \in Nat
  BY <1>1 DEF Market
<1>4. TotalAssets(m) \in Nat /\ AvailableCash(m) \in Nat
  BY <1>1, <1>3 DEF TotalAssets, AvailableCash, SatSub
<1>5. A \in Nat \ {0} /\ S \in Nat \ {0}
  BY <1>2, <1>4, ScalesArePositive
<1> HIDE DEF A, S, L
<1>6. all \in Nat
  BY <1>2, <1>5, FloorNat
<1> HIDE DEF all
<1>7. most \in Nat /\ most <= all
  BY <1>4, <1>6 DEF Min2
<1> HIDE DEF most
<1>8. burned <= L /\ burned \in Nat
  BY <1>2, <1>5, <1>7, RedeemingBurnsWhatIsHeld, CeilNat DEF all
<1> HIDE DEF burned
<1>9. burned <= m.total_shares
  BY <1>2, <1>8
<1>10. ~AssetsUnderflow(m)
  BY <1>4 DEF AssetsUnderflow
<1> QED  BY <1>8, <1>9, <1>10 DEF RedeemableAmount, SharesToBurn, A, S, L, all, most, burned, m

\* The checked subtractions of a repayment, a liquidation and a write-off never fail: no
\* borrower is locked in by books that others' loans and rounding have worn away.
THEOREM SettlementsNeverBlock == Spec => []SettlementsCarry
<1>1. TypeOK /\ TypeOK' /\ BooksInv /\ AccrualInv /\ [Next]_vars => AccrualInv'
  BY NextAccrual
<1>2. TypeOK /\ BooksInv /\ AccrualInv /\ RemainderInv => SettlementsCarry
  BY BooksCarrySettlements
<1> QED  BY <1>1, <1>2, InitAccrual, BooksInvHolds, RemainderHolds, PTL DEF Spec

\* A lender who asks for everything is never refused by the rounding of its shares, nor
\* by a market whose assets would not add up: only for want of cash.
THEOREM RoundingNeverTrapsALender == Spec => []LendersCanLeave
<1>1. TypeOK /\ SharesInv /\ ReserveIsCash => LendersCanLeave
  BY SharesBuyTheirWayOut
<1> QED  BY <1>1, TypeCorrect, SharesHold, ReserveStaysCash, PTL
=============================================================================
