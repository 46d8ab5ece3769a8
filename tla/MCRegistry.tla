----------------------------- MODULE MCRegistry -----------------------------
(***************************************************************************)
(* Instances of Registry for TLC, with basis points of 10.                 *)
(***************************************************************************)
EXTENDS Registry, TLC

Params(ltv, threshold, bonus, ceiling, deposit_cap) ==
    [ltv_bps |-> ltv, liquidation_threshold_bps |-> threshold,
     liquidation_bonus_bps |-> bonus, max_conf_bps |-> 1, deposit_cap |-> deposit_cap,
     max_multiplier |-> ceiling, source_is_coherent |-> TRUE]

\* No slack at the default cap of 2; room for a cap of 4; none for any promo.  The
\* first admits fewer deposits than the second, so that an update can leave a listing
\* above its deposit cap.
MCTight == Params(7, 9, 1, 0, 2)
MCRoomy == Params(4, 8, 2, 2, 3)
MCNoPromo == Params(8, 8, 0, 0, 3)

MCParamChoices == {MCTight, MCRoomy, MCNoPromo}

Point(price, promo, multiplier) ==
    [price |-> price, promo |-> promo, multiplier |-> multiplier]

MCPoints == {Point(3, 5, 1), Point(3, 9, 3)}
=============================================================================
