----------------------------- MODULE MCLending -----------------------------
(***************************************************************************)
(* Instances of Lending for TLC: basis points of 10, years of 2 seconds,   *)
(* and prices of a few dollars, so that interest, penalties, shares and    *)
(* seizures all round within a few steps.                                  *)
(***************************************************************************)
EXTENDS Lending, TLC

Terms(rate, penalty, reserve, utilization) ==
    [interest_rate_bps |-> rate, penalty_rate_bps |-> penalty, reserve_factor_bps |-> reserve,
     max_utilization_bps |-> utilization, min_loan_amount |-> 1, max_tenure_seconds |-> 2,
     bad_debt_dust_usd |-> 3, promo_inactivity_seconds |-> 2, max_promo_per_position |-> 2]

\* 100% a year, a 30% penalty on top, half of the interest for the reserve.
MCTerms == Terms(10, 3, 5, 10)

\* Cheaper loans with a smaller reserve share and a tighter cap.
MCOtherTerms == Terms(5, 0, 2, 9)

\* Lenders differ in nothing but their shares.
LenderSymmetry == Permutations(Lenders)

\* So do borrowers, and assets where all have the same parameters and prices.
BorrowerAndAssetSymmetry == Permutations(Borrowers) \cup Permutations(Assets)

MCNoChoices == {}
MCParamChoices == {MCOtherTerms}

\* Dust so low that a holding worth more can be worth less than one unit of principal.
MCDustChoices == {[MCTerms EXCEPT !.bad_debt_dust_usd = 1]}

Risk(ltv, threshold, bonus, cap, ceiling) ==
    [ltv_bps |-> ltv, liquidation_threshold_bps |-> threshold,
     liquidation_bonus_bps |-> bonus, deposit_cap |-> cap, max_multiplier |-> ceiling]

MCUnit == [a \in Assets |-> 1]
MCUnitOfTwo == [a \in Assets |-> 2]

MCAssetParams == [a \in Assets |-> Risk(6, 8, 2, 4, 0)]
MCCappedAssetParams == [a \in Assets |-> Risk(5, 8, 1, 4, 2)]

\* A lower threshold; a lower LTV and multiplier ceiling at the same threshold.
MCAssetParamChoices == {Risk(5, 7, 1, 4, 2), Risk(4, 8, 2, 4, 1)}

View(ngn, conf, price, multiplier) ==
    [ngn |-> [price |-> ngn, conf |-> conf],
     asset |-> [a \in Assets |-> [price |-> price, conf |-> 0, multiplier |-> multiplier]]]

\* One flat view; a good and a crashed price; a scaled multiplier.
MCFlatView == {View(1, 0, 4, 1)}
MCBoomAndBust == {View(1, 0, 4, 1), View(1, 0, 1, 1)}
\* Enough for a fresh loan, too little once interest and penalty have run.
MCThinView == {View(1, 0, 2, 1)}
MCScaledViews == {View(2, 1, 5, 2), View(2, 0, 3, 4)}
=============================================================================
