------------------------------ MODULE Registry ------------------------------
(***************************************************************************)
(* The collateral registry of the protocol: which mints are listed with    *)
(* which risk parameters, the promo cap they were all checked against, and *)
(* the vaults that hold what borrowers deposited.                          *)
(*                                                                         *)
(* The cap is one number in the configuration; the parameters it must fit  *)
(* are spread over one account per mint.  set_promo_cap cannot enumerate   *)
(* accounts: the caller passes them, and their number is compared with a   *)
(* count that listing and delisting keep.                                  *)
(*                                                                         *)
(* A mint is a natural number, its place in the order of the addresses.    *)
(* Collateral leaves a position here by any amount it has; when it may is  *)
(* Lending's business, and which extensions a mint has MintPolicy's: here  *)
(* the issuer of any mint may hold the permanent delegate that an XStock   *)
(* mint is accepted with, and take tokens out of the vault.  What listing  *)
(* checks of the mint itself is in MintPolicy too.                         *)
(***************************************************************************)
EXTENDS LoanMath, Sequences

CONSTANTS
    Mints,                  \* positive numbers, in the order of the collateral addresses
    Owners,                 \* owners of a position
    MIN_LTV_BPS,
    DEFAULT_PROMO_CAP_BPS,
    MAX_LISTED_COLLATERAL,
    MAX_MULTIPLIER,
    MAX_ACCOUNTS            \* accounts a transaction can carry

\* Inputs of the instructions and of the environment.
CONSTANTS
    ParamChoices,    \* CollateralParams an admin may pass, sound or not
    Caps, DepositAmounts, WithdrawAmounts, DonationAmounts, SeizureAmounts, PauseInputs,
    BorrowPauseInputs,
    PricePoints      \* prices, promo values and multipliers a position may be valued at

CollateralParams ==
    [ltv_bps: Nat, liquidation_threshold_bps: Nat, liquidation_bonus_bps: Nat,
     max_conf_bps: Nat, deposit_cap: Nat, max_multiplier: Nat,
     source_is_coherent: BOOLEAN]  \* its price source's fields are set, the other's zero

ASSUME RegistryConstants ==
    /\ IsFiniteSet(Mints) /\ Mints \subseteq Nat \ {0}
    /\ IsFiniteSet(Owners)
    /\ MIN_LTV_BPS \in Nat
    /\ DEFAULT_PROMO_CAP_BPS \in 0..BPS
    /\ MAX_LISTED_COLLATERAL \in Nat
    /\ MAX_MULTIPLIER \in Nat
    /\ MAX_ACCOUNTS \in Nat
    /\ ParamChoices \subseteq CollateralParams
    /\ UNION {Caps, DepositAmounts, WithdrawAmounts, DonationAmounts, SeizureAmounts}
          \subseteq Nat
    /\ UNION {PauseInputs, BorrowPauseInputs} \subseteq BOOLEAN
    /\ PricePoints \subseteq [price: Nat \ {0}, promo: Nat, multiplier: Nat \ {0}]

VARIABLES
    promo_cap_bps,     \* config.promo_cap_bps
    collateral_count,  \* config.collateral_count
    collateral,        \* [Mints -> CollateralAsset, listed or not]
    vault_token,       \* [Mints -> tokens in the collateral vault]
    held,              \* [Owners -> [Mints -> amount in the position's slot]]
    seized             \* history: [Mints -> deposits the issuer took, not yet sent back]

vars == <<promo_cap_bps, collateral_count, collateral, vault_token, held, seized>>

CollateralAsset ==
    [listed: BOOLEAN, params: CollateralParams, total_deposited: Nat, paused: BOOLEAN,
     borrow_paused: BOOLEAN]

NoParams ==
    [ltv_bps |-> 0, liquidation_threshold_bps |-> 0, liquidation_bonus_bps |-> 0,
     max_conf_bps |-> 0, deposit_cap |-> 0, max_multiplier |-> 0, source_is_coherent |-> FALSE]

NotListed ==
    [listed |-> FALSE, params |-> NoParams, total_deposited |-> 0, paused |-> FALSE,
     borrow_paused |-> FALSE]

Listed == {m \in Mints : collateral[m].listed}

\* Mutant: forgets that promo lifts the borrow limit too.
ValidateWithoutCap(params, cap) ==
    /\ params.source_is_coherent
    /\ params.max_conf_bps <= BPS
    /\ params.ltv_bps >= MIN_LTV_BPS
    /\ params.ltv_bps <= params.liquidation_threshold_bps
    /\ params.liquidation_threshold_bps * (BPS + params.liquidation_bonus_bps) <= BPS * BPS
    /\ params.max_multiplier = 0 \/ params.max_multiplier \in MULTIPLIER_SCALE..MAX_MULTIPLIER

\* CollateralParams::validate
Validate(params, cap) ==
    /\ params.source_is_coherent
    /\ params.max_conf_bps <= BPS
    /\ params.ltv_bps >= MIN_LTV_BPS
    /\ params.ltv_bps + cap <= params.liquidation_threshold_bps
    /\ params.liquidation_threshold_bps * (BPS + params.liquidation_bonus_bps) <= BPS * BPS
    /\ params.max_multiplier = 0 \/ params.max_multiplier \in MULTIPLIER_SCALE..MAX_MULTIPLIER

-----------------------------------------------------------------------------
(* Listing *)

\* The account is created by the instruction, so it must not exist.
IsNew(m) == ~collateral[m].listed

ListCollateral(m, params) ==
    /\ IsNew(m)
    /\ Validate(params, promo_cap_bps)
    /\ collateral_count < MAX_LISTED_COLLATERAL
    /\ collateral' = [collateral EXCEPT ![m] =
                        [NotListed EXCEPT !.listed = TRUE, !.params = params]]
    /\ collateral_count' = collateral_count + 1
    /\ UNCHANGED <<promo_cap_bps, vault_token, held, seized>>

UpdateCollateralParams(m, params) ==
    /\ collateral[m].listed
    /\ Validate(params, promo_cap_bps)
    /\ collateral' = [collateral EXCEPT ![m].params = params]
    /\ UNCHANGED <<promo_cap_bps, collateral_count, vault_token, held, seized>>

\* Closes the account and its vault; the vault must be empty, donations too.
DelistCollateral(m) ==
    /\ collateral[m].listed
    /\ collateral[m].total_deposited = 0
    /\ vault_token[m] = 0
    /\ collateral_count > 0
    /\ collateral' = [collateral EXCEPT ![m] = NotListed]
    /\ collateral_count' = collateral_count - 1
    /\ UNCHANGED <<promo_cap_bps, vault_token, held, seized>>

\* Mutant: the right number of accounts, whichever they are.
AreAccounts(named) == \A i \in 1..Len(named) : named[i] \in Mints

\* The accounts' keys strictly increase.
AreInOrder(named) == \A i \in 2..Len(named) : named[i - 1] < named[i]

CapInRange(cap) == cap <= BPS

\* Every account passed is re-checked at the new cap before it takes effect.
SetPromoCap(cap, named) ==
    /\ CapInRange(cap)
    /\ Len(named) = collateral_count
    /\ AreInOrder(named)
    /\ \A i \in 1..Len(named) :
          /\ collateral[named[i]].listed
          /\ Validate(collateral[named[i]].params, cap)
    /\ promo_cap_bps' = cap
    /\ UNCHANGED <<collateral_count, collateral, vault_token, held, seized>>

SetCollateralPaused(m, paused) ==
    /\ collateral[m].listed
    /\ collateral' = [collateral EXCEPT ![m].paused = paused]
    /\ UNCHANGED <<promo_cap_bps, collateral_count, vault_token, held, seized>>

SetCollateralBorrowPaused(m, paused) ==
    /\ collateral[m].listed
    /\ collateral' = [collateral EXCEPT ![m].borrow_paused = paused]
    /\ UNCHANGED <<promo_cap_bps, collateral_count, vault_token, held, seized>>

-----------------------------------------------------------------------------
(* The vaults *)

DepositCollateral(w, m, amount) ==
    /\ amount > 0
    /\ collateral[m].listed /\ ~collateral[m].paused
    /\ collateral[m].total_deposited + amount <= collateral[m].params.deposit_cap
    /\ collateral' = [collateral EXCEPT ![m].total_deposited = @ + amount]
    /\ held' = [held EXCEPT ![w][m] = @ + amount]
    /\ vault_token' = [vault_token EXCEPT ![m] = @ + amount]
    /\ UNCHANGED <<promo_cap_bps, collateral_count, seized>>

\* withdraw_collateral, and the seizure in liquidate.
TakeCollateral(w, m, amount) ==
    /\ amount > 0
    /\ collateral[m].listed
    /\ amount <= held[w][m]
    /\ amount <= collateral[m].total_deposited
    /\ amount <= vault_token[m]
    /\ collateral' = [collateral EXCEPT ![m].total_deposited = @ - amount]
    /\ held' = [held EXCEPT ![w][m] = @ - amount]
    /\ vault_token' = [vault_token EXCEPT ![m] = @ - amount]
    /\ UNCHANGED <<promo_cap_bps, collateral_count, seized>>

\* Mutant: goes by the cap.
CappedDeposits(m) == Min2(collateral[m].params.deposit_cap, collateral[m].total_deposited)

\* What a sweep leaves in the vault.
RecordedDeposits(m) == collateral[m].total_deposited

SweepCollateralExcess(m) ==
    /\ collateral[m].listed
    /\ vault_token[m] > RecordedDeposits(m)
    /\ vault_token' = [vault_token EXCEPT ![m] = RecordedDeposits(m)]
    /\ UNCHANGED <<promo_cap_bps, collateral_count, collateral, held, seized>>

Excess(m) == SatSub(vault_token[m], collateral[m].total_deposited)

\* Anyone can send tokens straight to a vault, and an issuer back what it took; the
\* instance takes one donation at a time.
Donate(m, amount) ==
    /\ collateral[m].listed
    /\ Excess(m) = 0
    /\ vault_token' = [vault_token EXCEPT ![m] = @ + amount]
    /\ seized' = [seized EXCEPT ![m] = SatSub(@, amount)]
    /\ UNCHANGED <<promo_cap_bps, collateral_count, collateral, held>>

\* A mint's permanent delegate moves tokens out of the vault; those that nobody
\* deposited go first.
Seize(m, amount) ==
    /\ collateral[m].listed
    /\ amount <= vault_token[m]
    /\ vault_token' = [vault_token EXCEPT ![m] = @ - amount]
    /\ seized' = [seized EXCEPT ![m] = @ + SatSub(amount, Excess(m))]
    /\ UNCHANGED <<promo_cap_bps, collateral_count, collateral, held>>

-----------------------------------------------------------------------------

\* initialize
Init ==
    /\ promo_cap_bps = DEFAULT_PROMO_CAP_BPS
    /\ collateral_count = 0
    /\ collateral = [m \in Mints |-> NotListed]
    /\ vault_token = [m \in Mints |-> 0]
    /\ held = [w \in Owners |-> [m \in Mints |-> 0]]
    /\ seized = [m \in Mints |-> 0]

\* The accounts a caller may pass to set_promo_cap, in any order and repeated.
AccountLists == UNION {[1..n -> Mints] : n \in 0..MAX_ACCOUNTS}

ListingStep ==
    \/ \E m \in Mints :
          \/ \E params \in ParamChoices :
                ListCollateral(m, params) \/ UpdateCollateralParams(m, params)
          \/ DelistCollateral(m)
    \/ \E cap \in Caps, named \in AccountLists : SetPromoCap(cap, named)

PauseStep ==
    \E m \in Mints :
        \/ \E paused \in PauseInputs : SetCollateralPaused(m, paused)
        \/ \E paused \in BorrowPauseInputs : SetCollateralBorrowPaused(m, paused)

VaultStep ==
    \E m \in Mints :
        \/ \E w \in Owners :
              \/ \E amount \in DepositAmounts : DepositCollateral(w, m, amount)
              \/ \E amount \in WithdrawAmounts : TakeCollateral(w, m, amount)
        \/ SweepCollateralExcess(m)
        \/ \E amount \in DonationAmounts : Donate(m, amount)
        \/ \E amount \in SeizureAmounts : Seize(m, amount)

Next == ListingStep \/ PauseStep \/ VaultStep

Spec == Init /\ [][Next]_vars

-----------------------------------------------------------------------------
(* Properties *)

\* Every account keeps its type: counts, totals and holdings stay natural.
TypeOK ==
    /\ promo_cap_bps \in 0..BPS
    /\ collateral_count \in Nat
    /\ collateral \in [Mints -> CollateralAsset]
    /\ vault_token \in [Mints -> Nat]
    /\ held \in [Owners -> [Mints -> Nat]]
    /\ seized \in [Mints -> Nat]

\* The count that set_promo_cap compares with is the number of listed assets, and
\* it stays within what one transaction can name.
CountIsTheListing ==
    /\ collateral_count = Cardinality(Listed)
    /\ collateral_count <= MAX_LISTED_COLLATERAL

\* Every listed asset fits the cap in force, whatever accounts were passed when
\* the cap was set and whatever was listed, changed or delisted before and since.
EveryListingFitsTheCap == \A m \in Listed : Validate(collateral[m].params, promo_cap_bps)

\* What positions hold of a mint is what its listing records, also after it was
\* delisted and listed again, and what its vault is short of that is exactly what the
\* issuer seized: no deposit, withdrawal, sweep or delisting opens a gap, or widens or
\* hides the issuer's.
VaultsCoverHoldings ==
    \A m \in Mints :
        /\ collateral[m].total_deposited = SumOver([w \in Owners |-> held[w][m]], Owners)
        /\ SatSub(collateral[m].total_deposited, vault_token[m]) = seized[m]

\* The CollateralValues of a position at a point of prices.
Values(w, point) ==
    [m \in {n \in Mints : held[w][n] > 0} |->
        [amount     |-> held[w][m],
         unit       |-> 1,
         multiplier |-> point.multiplier,
         price      |-> [price |-> point.price, conf |-> 0],
         ltv_bps    |-> collateral[m].params.ltv_bps,
         liquidation_threshold_bps |-> collateral[m].params.liquidation_threshold_bps,
         lends_borrowing_power |->
            /\ ~collateral[m].borrow_paused
            /\ ~(/\ collateral[m].params.max_multiplier # 0
                 /\ point.multiplier > collateral[m].params.max_multiplier)]]

\* math/health.rs: a position borrowed to its limit is not liquidatable the moment
\* the cap changes, nor by a pause or an unpause.  Only a change of the parameters
\* of what it holds, or of its holdings, can do that.
NoCapSinksAHealthyPosition ==
    [][ \A w \in Owners, point \in PricePoints :
          /\ held'[w] = held[w]
          /\ \A m \in Mints : held[w][m] > 0 => collateral'[m].params = collateral[m].params
          => BorrowLimit(Values(w, point), point.promo, promo_cap_bps)
                <= LiquidationLine(Values(w, point), point.promo, promo_cap_bps)' ]_vars
=============================================================================
