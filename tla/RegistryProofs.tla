--------------------------- MODULE RegistryProofs ---------------------------
(***************************************************************************)
(* Proofs about Registry, for every value of its constants that satisfies  *)
(* RegistryConstants:                                                      *)
(*   RegistryTypes          Spec => []TypeOK                               *)
(*   CountStaysTheListing   Spec => []CountIsTheListing                    *)
(*   CapFitsEveryListing    Spec => []EveryListingFitsTheCap               *)
(*   VaultsStayCovered      Spec => []VaultsCoverHoldings                  *)
(*   NoCapSinksAPosition    Spec => NoCapSinksAHealthyPosition             *)
(* The first four are inductive, each together with the ones before it.    *)
(* The third rests on NamedAreTheListing: accounts that strictly increase  *)
(* and are as many as are listed can only be all of the listed ones.  The  *)
(* fourth adds up what positions hold of a mint, one of which a step       *)
(* changes.  The last needs both: what is held is listed, what is listed   *)
(* fits the cap, and so a position's borrow limit, promo lift included, is *)
(* at most what its thresholds alone give, each part rounded down.         *)
(***************************************************************************)
EXTENDS Registry, SumsProofs

\* The constants the instructions take their inputs from.
LEMMA Inputs ==
  /\ ParamChoices \subseteq CollateralParams
  /\ DepositAmounts \subseteq Nat
  /\ WithdrawAmounts \subseteq Nat
  /\ DonationAmounts \subseteq Nat
  /\ SeizureAmounts \subseteq Nat
  /\ Caps \subseteq Nat
  /\ PauseInputs \subseteq BOOLEAN
  /\ BorrowPauseInputs \subseteq BOOLEAN
  BY RegistryConstants

\* A mint that is not listed has an account of zeros.
LEMMA ZeroAccount == NotListed \in CollateralAsset
  BY DEF NotListed, NoParams, CollateralAsset, CollateralParams

\* Comparing neighbours orders a whole list of numbers (set_promo_cap compares each
\* key with the one before it).
LEMMA NeighboursOrderAll ==
  ASSUME NEW n \in Nat, NEW f \in [1..n -> Nat],
         \A i \in 2..n : f[i - 1] < f[i]
  PROVE  \A i, j \in 1..n : i < j => f[i] < f[j]
<1> DEFINE Late == {j \in 1..n : \E i \in 1..n : i < j /\ ~(f[i] < f[j])}
<1>1. SUFFICES ASSUME Late # {} PROVE FALSE
  OBVIOUS
<1>2. Late \subseteq Nat
  OBVIOUS
<1>3. PICK j \in Late : \A k \in Late : ~(<<k, j>> \in OpToRel(<, Nat))
  <2> HIDE DEF Late
  <2> QED  BY <1>1, <1>2, WFMin, NatLessThanWellFounded
<1>4. \A k \in Late : ~(k < j)
  BY <1>2, <1>3 DEF OpToRel
<1>5. PICK i \in 1..n : i < j /\ ~(f[i] < f[j])
  OBVIOUS
<1>6. f[j - 1] < f[j] /\ j - 1 \in 1..n
  BY <1>5
<1>7. i < j - 1
  BY <1>5, <1>6
<1>8. ~(f[i] < f[j - 1])
  BY <1>5, <1>6, <1>7
<1>9. j - 1 \in Late
  BY <1>6, <1>7, <1>8
<1> QED  BY <1>4, <1>9

\* As many strictly increasing numbers of a finite set as it has are all of it.
LEMMA IncreasingListCovers ==
  ASSUME NEW S \in SUBSET Nat, IsFiniteSet(S), NEW n \in Nat, n = Cardinality(S),
         NEW f \in [1..n -> S], \A i \in 2..n : f[i - 1] < f[i]
  PROVE  \A s \in S : \E i \in 1..n : f[i] = s
<1>1. f \in [1..n -> Nat]
  OBVIOUS
<1>2. \A i, j \in 1..n : i < j => f[i] < f[j]
  BY <1>1, NeighboursOrderAll
<1>3. \A i, j \in 1..n : f[i] = f[j] => i = j
  BY <1>1, <1>2
<1>4. f \in Injection(1..n, S)
  BY <1>3 DEF Injection, IsInjective
<1>5. Cardinality(1..n) = n
  BY FS_Interval
<1>6. f \in Surjection(1..n, S)
  BY <1>4, <1>5, FS_Injection
<1> QED  BY <1>6 DEF Surjection

-----------------------------------------------------------------------------
(* Types *)

\* list, update, delist and set_promo_cap keep every account's type.
LEMMA ListingStepType == ASSUME TypeOK, ListingStep PROVE TypeOK'
<1>1. ASSUME NEW m \in Mints, NEW params \in ParamChoices, ListCollateral(m, params)
      PROVE  TypeOK'
  <2>1. params \in CollateralParams
    BY Inputs
  <2>2. [NotListed EXCEPT !.listed = TRUE, !.params = params] \in CollateralAsset
    BY <2>1 DEF NotListed, NoParams, CollateralAsset, CollateralParams
  <2>3. collateral' \in [Mints -> CollateralAsset]
    BY <1>1, <2>2 DEF ListCollateral, TypeOK
  <2> QED  BY <1>1, <2>3 DEF ListCollateral, TypeOK
<1>2. ASSUME NEW m \in Mints, NEW params \in ParamChoices, UpdateCollateralParams(m, params)
      PROVE  TypeOK'
  <2>1. params \in CollateralParams
    BY Inputs
  <2>2. [collateral[m] EXCEPT !.params = params] \in CollateralAsset
    BY <2>1 DEF TypeOK, CollateralAsset
  <2>3. collateral' \in [Mints -> CollateralAsset]
    BY <1>2, <2>2 DEF UpdateCollateralParams, TypeOK
  <2> QED  BY <1>2, <2>3 DEF UpdateCollateralParams, TypeOK
<1>3. ASSUME NEW m \in Mints, DelistCollateral(m)
      PROVE  TypeOK'
  <2>1. collateral' \in [Mints -> CollateralAsset]
    BY <1>3, ZeroAccount DEF DelistCollateral, TypeOK
  <2>2. collateral_count - 1 \in Nat
    BY <1>3 DEF DelistCollateral, TypeOK
  <2> QED  BY <1>3, <2>1, <2>2 DEF DelistCollateral, TypeOK
<1>4. ASSUME NEW cap \in Caps, NEW named \in AccountLists, SetPromoCap(cap, named)
      PROVE  TypeOK'
  <2>1. cap \in 0..BPS
    BY <1>4, Inputs, ScalesArePositive DEF SetPromoCap, CapInRange
  <2> QED  BY <1>4, <2>1 DEF SetPromoCap, TypeOK
<1> QED  BY <1>1, <1>2, <1>3, <1>4 DEF ListingStep

\* The pause switches keep every account's type.
LEMMA PauseStepType == ASSUME TypeOK, PauseStep PROVE TypeOK'
<1>1. ASSUME NEW m \in Mints, NEW paused \in PauseInputs, SetCollateralPaused(m, paused)
      PROVE  TypeOK'
  <2>1. [collateral[m] EXCEPT !.paused = paused] \in CollateralAsset
    BY Inputs DEF TypeOK, CollateralAsset
  <2> QED  BY <1>1, <2>1 DEF SetCollateralPaused, TypeOK
<1>2. ASSUME NEW m \in Mints, NEW paused \in BorrowPauseInputs,
             SetCollateralBorrowPaused(m, paused)
      PROVE  TypeOK'
  <2>1. [collateral[m] EXCEPT !.borrow_paused = paused] \in CollateralAsset
    BY Inputs DEF TypeOK, CollateralAsset
  <2> QED  BY <1>2, <2>1 DEF SetCollateralBorrowPaused, TypeOK
<1> QED  BY <1>1, <1>2 DEF PauseStep

\* Deposits, withdrawals, seizures, sweeps and donations keep every account's type, and
\* so does what the issuer takes.
LEMMA VaultStepType == ASSUME TypeOK, VaultStep PROVE TypeOK'
<1>1. ASSUME NEW m \in Mints, NEW total \in Nat
      PROVE  [collateral[m] EXCEPT !.total_deposited = total] \in CollateralAsset
  BY <1>1 DEF TypeOK, CollateralAsset
<1>2. ASSUME NEW m \in Mints
      PROVE  /\ collateral[m].total_deposited \in Nat /\ vault_token[m] \in Nat
             /\ seized[m] \in Nat
  BY <1>2 DEF TypeOK, CollateralAsset
<1>3. ASSUME NEW m \in Mints, NEW w \in Owners, NEW amount \in DepositAmounts,
             DepositCollateral(w, m, amount)
      PROVE  TypeOK'
  <2>1. amount \in Nat /\ held[w][m] \in Nat
    BY Inputs DEF TypeOK
  <2>2. collateral' \in [Mints -> CollateralAsset]
    <3>1. collateral[m].total_deposited + amount \in Nat
      BY <1>2, <2>1
    <3>2. [collateral[m] EXCEPT !.total_deposited = @ + amount] \in CollateralAsset
      BY <1>1, <3>1
    <3> QED  BY <1>3, <3>2 DEF DepositCollateral, TypeOK
  <2>3. vault_token' \in [Mints -> Nat]
    BY <1>2, <1>3, <2>1 DEF DepositCollateral, TypeOK
  <2>4. held' \in [Owners -> [Mints -> Nat]]
    BY <1>3, <2>1 DEF DepositCollateral, TypeOK
  <2> QED  BY <1>3, <2>2, <2>3, <2>4 DEF DepositCollateral, TypeOK
<1>4. ASSUME NEW m \in Mints, NEW w \in Owners, NEW amount \in WithdrawAmounts,
             TakeCollateral(w, m, amount)
      PROVE  TypeOK'
  <2>1. amount \in Nat /\ held[w][m] \in Nat
    BY Inputs DEF TypeOK
  <2>2. /\ held[w][m] - amount \in Nat
        /\ collateral[m].total_deposited - amount \in Nat
        /\ vault_token[m] - amount \in Nat
    BY <1>2, <1>4, <2>1 DEF TakeCollateral
  <2>3. collateral' \in [Mints -> CollateralAsset]
    BY <1>1, <1>4, <2>2 DEF TakeCollateral, TypeOK
  <2>4. vault_token' \in [Mints -> Nat]
    BY <1>4, <2>2 DEF TakeCollateral, TypeOK
  <2>5. held' \in [Owners -> [Mints -> Nat]]
    BY <1>4, <2>2 DEF TakeCollateral, TypeOK
  <2> QED  BY <1>4, <2>3, <2>4, <2>5 DEF TakeCollateral, TypeOK
<1>5. ASSUME NEW m \in Mints, SweepCollateralExcess(m)
      PROVE  TypeOK'
  <2>1. vault_token' \in [Mints -> Nat]
    BY <1>2, <1>5 DEF SweepCollateralExcess, RecordedDeposits, TypeOK
  <2> QED  BY <1>5, <2>1 DEF SweepCollateralExcess, TypeOK
<1>6. ASSUME NEW m \in Mints, NEW amount \in DonationAmounts, Donate(m, amount)
      PROVE  TypeOK'
  <2>1. amount \in Nat
    BY Inputs
  <2>2. vault_token' \in [Mints -> Nat]
    BY <1>2, <1>6, <2>1 DEF Donate, TypeOK
  <2>3. seized' \in [Mints -> Nat]
    BY <1>2, <1>6, <2>1 DEF Donate, SatSub, TypeOK
  <2> QED  BY <1>6, <2>2, <2>3 DEF Donate, TypeOK
<1>7. ASSUME NEW m \in Mints, NEW amount \in SeizureAmounts, Seize(m, amount)
      PROVE  TypeOK'
  <2>1. amount \in Nat
    BY Inputs
  <2>2. vault_token[m] - amount \in Nat
    BY <1>2, <1>7, <2>1 DEF Seize
  <2>3. seized[m] + SatSub(amount, Excess(m)) \in Nat
    BY <1>2, <2>1 DEF Excess, SatSub
  <2>4. vault_token' \in [Mints -> Nat] /\ seized' \in [Mints -> Nat]
    BY <1>7, <2>2, <2>3 DEF Seize, TypeOK
  <2> QED  BY <1>7, <2>4 DEF Seize, TypeOK
<1> QED  BY <1>3, <1>4, <1>5, <1>6, <1>7 DEF VaultStep

\* Every account keeps its type (state/collateral.rs, config.promo_cap_bps,
\* config.collateral_count).
THEOREM RegistryTypes == Spec => []TypeOK
<1>1. Init => TypeOK
  BY ZeroAccount, RegistryConstants DEF Init, TypeOK
<1>2. TypeOK /\ [Next]_vars => TypeOK'
  <2>1. ASSUME TypeOK, UNCHANGED vars PROVE TypeOK'
    BY <2>1 DEF vars, TypeOK
  <2> QED  BY <2>1, ListingStepType, PauseStepType, VaultStepType DEF Next
<1> QED  BY <1>1, <1>2, PTL DEF Spec

-----------------------------------------------------------------------------
(* The promo cap *)

\* Every step leaves the set of listed mints as it is, adds one mint or removes one,
\* and the count with it.
LEMMA ListedMoves ==
  ASSUME TypeOK, [Next]_vars
  PROVE  \/ Listed' = Listed /\ collateral_count' = collateral_count
         \/ \E m \in Mints \ Listed :
               /\ Listed' = Listed \cup {m}
               /\ collateral_count < MAX_LISTED_COLLATERAL
               /\ collateral_count' = collateral_count + 1
         \/ \E m \in Listed :
               /\ Listed' = Listed \ {m}
               /\ collateral_count' = collateral_count - 1
<1> USE DEF TypeOK, CollateralAsset, Listed
<1>1. ASSUME NEW m \in Mints, NEW params \in ParamChoices, ListCollateral(m, params)
      PROVE  /\ m \in Mints \ Listed
             /\ Listed' = Listed \cup {m}
             /\ collateral_count < MAX_LISTED_COLLATERAL
             /\ collateral_count' = collateral_count + 1
  BY <1>1 DEF ListCollateral, IsNew, NotListed
<1>2. ASSUME NEW m \in Mints, DelistCollateral(m)
      PROVE  /\ m \in Listed
             /\ Listed' = Listed \ {m}
             /\ collateral_count' = collateral_count - 1
  BY <1>2 DEF DelistCollateral, NotListed
<1>3. ASSUME \/ \E m \in Mints, params \in ParamChoices : UpdateCollateralParams(m, params)
             \/ \E cap \in Caps, named \in AccountLists : SetPromoCap(cap, named)
      PROVE  Listed' = Listed /\ collateral_count' = collateral_count
  BY <1>3 DEF UpdateCollateralParams, SetPromoCap
<1>4. CASE PauseStep
  BY <1>4 DEF PauseStep, SetCollateralPaused, SetCollateralBorrowPaused
<1>5. ASSUME VaultStep
      PROVE  Listed' = Listed /\ collateral_count' = collateral_count
  BY <1>5 DEF VaultStep, DepositCollateral, TakeCollateral, SweepCollateralExcess, Donate,
              Seize
<1>6. CASE UNCHANGED vars
  BY <1>6 DEF vars
<1> QED
  BY <1>1, <1>2, <1>3, <1>4, <1>5, <1>6 DEF Next, ListingStep

\* set_promo_cap compares the number of accounts it is passed with a count that is
\* the number of listed assets, at most MAX_LISTED_COLLATERAL.
THEOREM CountStaysTheListing == Spec => []CountIsTheListing
<1>1. Init => CountIsTheListing
  <2> SUFFICES ASSUME Init PROVE CountIsTheListing
    OBVIOUS
  <2>1. Listed = {}
    BY DEF Init, Listed, NotListed
  <2> QED  BY <2>1, FS_EmptySet, RegistryConstants DEF Init, CountIsTheListing
<1>2. CountIsTheListing /\ TypeOK /\ [Next]_vars => CountIsTheListing'
  <2> SUFFICES ASSUME CountIsTheListing, TypeOK, [Next]_vars
               PROVE  CountIsTheListing'
    OBVIOUS
  <2>1. IsFiniteSet(Listed)
    BY FS_Subset, RegistryConstants DEF Listed
  <2>2. collateral_count \in Nat /\ MAX_LISTED_COLLATERAL \in Nat
    BY RegistryConstants DEF TypeOK
  <2>3. CASE Listed' = Listed /\ collateral_count' = collateral_count
    BY <2>3 DEF CountIsTheListing
  <2>4. ASSUME NEW m \in Mints \ Listed, Listed' = Listed \cup {m},
               collateral_count < MAX_LISTED_COLLATERAL,
               collateral_count' = collateral_count + 1
        PROVE  CountIsTheListing'
    <3>1. Cardinality(Listed \cup {m}) = Cardinality(Listed) + 1
      BY <2>1, FS_AddElement
    <3> QED  BY <2>2, <2>4, <3>1 DEF CountIsTheListing
  <2>5. ASSUME NEW m \in Listed, Listed' = Listed \ {m},
               collateral_count' = collateral_count - 1
        PROVE  CountIsTheListing'
    <3>1. Cardinality(Listed \ {m}) = Cardinality(Listed) - 1
      BY <2>1, FS_RemoveElement
    <3> QED  BY <2>2, <2>5, <3>1 DEF CountIsTheListing
  <2> QED  BY <2>3, <2>4, <2>5, ListedMoves
<1> QED  BY <1>1, <1>2, RegistryTypes, PTL DEF Spec

\* Accounts that pass set_promo_cap's checks are all the listed ones.
LEMMA NamedAreTheListing ==
  ASSUME CountIsTheListing, NEW cap, NEW named \in AccountLists, SetPromoCap(cap, named)
  PROVE  \A m \in Listed : \E i \in 1..Len(named) : named[i] = m
<1>1. PICK n \in 0..MAX_ACCOUNTS : named \in [1..n -> Mints]
  BY DEF AccountLists
<1>2. n \in Nat /\ Len(named) = n
  BY <1>1, RegistryConstants
<1>3. Listed \in SUBSET Nat /\ IsFiniteSet(Listed)
  BY FS_Subset, RegistryConstants DEF Listed
<1>4. n = Cardinality(Listed)
  BY <1>2 DEF SetPromoCap, CountIsTheListing
<1>5. named \in [1..n -> Listed]
  BY <1>1, <1>2 DEF SetPromoCap, Listed
<1>6. \A i \in 2..n : named[i - 1] < named[i]
  BY <1>2 DEF SetPromoCap, AreInOrder
<1> QED  BY <1>2, <1>3, <1>4, <1>5, <1>6, IncreasingListCovers

\* Whatever accounts are passed to set_promo_cap, and whatever is listed, changed or
\* delisted around it, every listed asset fits the cap in force
\* (CollateralParams::validate).
THEOREM CapFitsEveryListing == Spec => []EveryListingFitsTheCap
<1>1. Init => EveryListingFitsTheCap
  BY DEF Init, NotListed, Listed, EveryListingFitsTheCap
<1>2. TypeOK /\ CountIsTheListing /\ EveryListingFitsTheCap /\ [Next]_vars
        => EveryListingFitsTheCap'
  <2> SUFFICES ASSUME TypeOK, CountIsTheListing, EveryListingFitsTheCap, [Next]_vars
               PROVE  EveryListingFitsTheCap'
    OBVIOUS
  <2> USE DEF EveryListingFitsTheCap, Listed
  <2>1. ASSUME NEW m \in Mints, NEW params \in ParamChoices,
               \/ ListCollateral(m, params)
               \/ UpdateCollateralParams(m, params)
        PROVE  EveryListingFitsTheCap'
    <3>1. Validate(params, promo_cap_bps)' <=> Validate(params, promo_cap_bps)
      BY <2>1 DEF Validate, ListCollateral, UpdateCollateralParams
    <3>2. promo_cap_bps' = promo_cap_bps /\ Validate(params, promo_cap_bps)
      BY <2>1 DEF ListCollateral, UpdateCollateralParams
    <3>3. \A n \in Mints \ {m} : collateral'[n] = collateral[n]
      BY <2>1 DEF ListCollateral, UpdateCollateralParams, TypeOK
    <3>4. collateral'[m].params = params
      BY <2>1 DEF ListCollateral, UpdateCollateralParams, TypeOK, NotListed, CollateralAsset
    <3> QED  BY <3>2, <3>3, <3>4 DEF Validate
  <2>2. ASSUME NEW m \in Mints, DelistCollateral(m)
        PROVE  EveryListingFitsTheCap'
    <3>1. \A n \in Mints \ {m} : collateral'[n] = collateral[n]
      BY <2>2 DEF DelistCollateral, TypeOK
    <3>2. ~collateral'[m].listed /\ promo_cap_bps' = promo_cap_bps
      BY <2>2 DEF DelistCollateral, TypeOK, NotListed
    <3> QED  BY <3>1, <3>2 DEF Validate
  <2>3. ASSUME NEW cap \in Caps, NEW named \in AccountLists, SetPromoCap(cap, named)
        PROVE  EveryListingFitsTheCap'
    <3>1. \A m \in Listed : Validate(collateral[m].params, cap)
      BY <2>3, NamedAreTheListing DEF SetPromoCap
    <3> QED  BY <2>3, <3>1 DEF SetPromoCap, Validate
  <2>4. ASSUME \A n \in Mints : /\ collateral'[n].listed = collateral[n].listed
                                /\ collateral'[n].params = collateral[n].params,
               promo_cap_bps' = promo_cap_bps
        PROVE  EveryListingFitsTheCap'
    BY <2>4 DEF Validate
  <2>5. CASE PauseStep
    <3>1. ASSUME NEW m \in Mints, NEW paused,
                 SetCollateralPaused(m, paused) \/ SetCollateralBorrowPaused(m, paused)
          PROVE  EveryListingFitsTheCap'
      <4>1. \A n \in Mints : /\ collateral'[n].listed = collateral[n].listed
                             /\ collateral'[n].params = collateral[n].params
        <5>0. collateral \in [Mints -> CollateralAsset]
          BY DEF TypeOK
        <5>1. CASE SetCollateralPaused(m, paused)
          BY <5>0, <5>1 DEF SetCollateralPaused, CollateralAsset
        <5>2. CASE SetCollateralBorrowPaused(m, paused)
          BY <5>0, <5>2 DEF SetCollateralBorrowPaused, CollateralAsset
        <5> QED  BY <3>1, <5>1, <5>2
      <4>2. promo_cap_bps' = promo_cap_bps
        BY <3>1 DEF SetCollateralPaused, SetCollateralBorrowPaused
      <4> QED  BY <2>4, <4>1, <4>2
    <3> QED  BY <2>5, <3>1 DEF PauseStep
  <2>6. CASE VaultStep
    <3>1. ASSUME NEW m \in Mints, NEW w \in Owners, NEW amount,
                 DepositCollateral(w, m, amount) \/ TakeCollateral(w, m, amount)
          PROVE  EveryListingFitsTheCap'
      <4>1. \A n \in Mints : /\ collateral'[n].listed = collateral[n].listed
                             /\ collateral'[n].params = collateral[n].params
        <5>0. collateral \in [Mints -> CollateralAsset]
          BY DEF TypeOK
        <5>1. CASE DepositCollateral(w, m, amount)
          BY <5>0, <5>1 DEF DepositCollateral, CollateralAsset
        <5>2. CASE TakeCollateral(w, m, amount)
          BY <5>0, <5>2 DEF TakeCollateral, CollateralAsset
        <5> QED  BY <3>1, <5>1, <5>2
      <4>2. promo_cap_bps' = promo_cap_bps
        BY <3>1 DEF DepositCollateral, TakeCollateral
      <4> QED  BY <2>4, <4>1, <4>2
    <3>2. ASSUME NEW m \in Mints, NEW amount,
                 SweepCollateralExcess(m) \/ Donate(m, amount) \/ Seize(m, amount)
          PROVE  EveryListingFitsTheCap'
      BY <2>4, <3>2 DEF SweepCollateralExcess, Donate, Seize
    <3> QED  BY <2>6, <3>1, <3>2 DEF VaultStep
  <2>7. CASE UNCHANGED vars
    BY <2>4, <2>7 DEF vars
  <2> QED  BY <2>1, <2>2, <2>3, <2>5, <2>6, <2>7 DEF Next, ListingStep
<1> QED  BY <1>1, <1>2, RegistryTypes, CountStaysTheListing, PTL DEF Spec

-----------------------------------------------------------------------------
(* The vaults *)

\* What the positions hold of a mint, by owner.
HoldingsOf(m) == [w \in Owners |-> held[w][m]]

\* Depositing opens only listed accounts, so a delisted mint has none on record.
UnlistedAreEmpty == \A m \in Mints : ~collateral[m].listed => collateral[m].total_deposited = 0

VaultInv == VaultsCoverHoldings /\ UnlistedAreEmpty

\* Moving an owner's holding and the mint's record by the same amount keeps them
\* matched, for that mint and for the others.
LEMMA OneHoldingMoves ==
  ASSUME TypeOK, TypeOK', VaultInv, NEW m \in Mints, NEW w \in Owners,
         \A v \in Owners, n \in Mints : <<v, n>> # <<w, m>> => held'[v][n] = held[v][n],
         \A n \in Mints : /\ collateral'[n].listed = collateral[n].listed
                          /\ n # m => /\ collateral'[n] = collateral[n]
                                      /\ vault_token'[n] = vault_token[n],
         collateral[m].listed, seized' = seized,
         collateral'[m].total_deposited
           = collateral[m].total_deposited + held'[w][m] - held[w][m],
         vault_token'[m] - collateral'[m].total_deposited
           = vault_token[m] - collateral[m].total_deposited
  PROVE  VaultInv'
<1>1. IsFiniteSet(Owners)
  BY RegistryConstants
<1>2. \A n \in Mints, v \in Owners : HoldingsOf(n)[v] = held[v][n] /\ held[v][n] \in Nat
  BY DEF HoldingsOf, TypeOK
<1>3. \A n \in Mints, v \in Owners : HoldingsOf(n)'[v] = held'[v][n] /\ held'[v][n] \in Nat
  BY DEF HoldingsOf, TypeOK
<1>4. \A n \in Mints : collateral[n].total_deposited = SumOver(HoldingsOf(n), Owners)
  BY DEF VaultInv, VaultsCoverHoldings, HoldingsOf
<1>5. collateral'[m].total_deposited = SumOver(HoldingsOf(m)', Owners)
  <2>1. SumOver(HoldingsOf(m)', Owners)
          = SumOver(HoldingsOf(m), Owners) + HoldingsOf(m)'[w] - HoldingsOf(m)[w]
    BY <1>1, <1>2, <1>3, SumOfOneChange
  <2> QED  BY <1>2, <1>3, <1>4, <2>1
<1>6. ASSUME NEW n \in Mints, n # m
      PROVE  collateral'[n].total_deposited = SumOver(HoldingsOf(n)', Owners)
  <2>1. SumOver(HoldingsOf(n)', Owners) = SumOver(HoldingsOf(n), Owners)
    BY <1>1, <1>2, <1>3, <1>6, SumOfEqualValues
  <2> QED  BY <1>4, <1>6, <2>1
<1>7. \A n \in Mints : collateral'[n].total_deposited = SumOver(HoldingsOf(n)', Owners)
  BY <1>5, <1>6
<1>8. ASSUME NEW n \in Mints
      PROVE  SatSub(collateral'[n].total_deposited, vault_token'[n]) = seized'[n]
  <2>1. /\ collateral[n].total_deposited \in Nat /\ vault_token[n] \in Nat
        /\ collateral'[n].total_deposited \in Nat /\ vault_token'[n] \in Nat
    BY DEF TypeOK, CollateralAsset
  <2>2. SatSub(collateral[n].total_deposited, vault_token[n]) = seized[n]
    BY DEF VaultInv, VaultsCoverHoldings
  <2>3. vault_token'[n] - collateral'[n].total_deposited
          = vault_token[n] - collateral[n].total_deposited
    BY <2>1
  <2> QED  BY <2>1, <2>2, <2>3 DEF SatSub
<1>9. VaultsCoverHoldings'
  BY <1>7, <1>8 DEF VaultsCoverHoldings, HoldingsOf
<1> QED  BY <1>9 DEF VaultInv, UnlistedAreEmpty

\* A step that moves no holding and no record, and leaves what a vault is short of what
\* the issuer seized, keeps them matched.
LEMMA NoHoldingMoves ==
  ASSUME VaultInv, held' = held,
         \A n \in Mints : /\ collateral'[n].total_deposited = collateral[n].total_deposited
                          /\ collateral'[n].listed = collateral[n].listed
                               \/ collateral'[n].total_deposited = 0
                          /\ SatSub(collateral[n].total_deposited, vault_token'[n]) = seized'[n]
  PROVE  VaultInv'
<1>1. VaultsCoverHoldings'
  BY DEF VaultInv, VaultsCoverHoldings
<1> QED  BY <1>1 DEF VaultInv, UnlistedAreEmpty

\* The vaults stay covered, and what is not listed empty.
LEMMA VaultInvHolds == Spec => []VaultInv
<1>1. Init => VaultInv
  <2> SUFFICES ASSUME Init PROVE VaultInv
    OBVIOUS
  <2>1. ASSUME NEW m \in Mints
        PROVE  SumOver([w \in Owners |-> held[w][m]], Owners) = 0
    <3> DEFINE h == [w \in Owners |-> held[w][m]]
    <3>1. \A w \in Owners : h[w] = 0
      BY DEF Init
    <3> HIDE DEF h
    <3>2. SumOver(h, Owners) = 0
      BY <3>1, SumOfZeros, RegistryConstants
    <3> QED  BY <3>2 DEF h
  <2> QED  BY <2>1 DEF Init, NotListed, SatSub, VaultInv, VaultsCoverHoldings, UnlistedAreEmpty
<1>2. TypeOK /\ TypeOK' /\ VaultInv /\ [Next]_vars => VaultInv'
  <2> SUFFICES ASSUME TypeOK, TypeOK', VaultInv, [Next]_vars PROVE VaultInv'
    OBVIOUS
  <2>0. \A n \in Mints : /\ collateral[n].total_deposited \in Nat
                         /\ vault_token[n] \in Nat /\ seized[n] \in Nat
                         /\ SatSub(collateral[n].total_deposited, vault_token[n]) = seized[n]
    BY DEF TypeOK, CollateralAsset, VaultInv, VaultsCoverHoldings
  <2>1. CASE ListingStep
    <3>1. ASSUME NEW m \in Mints, NEW params \in ParamChoices, ListCollateral(m, params)
          PROVE  VaultInv'
      <4>1. collateral[m].total_deposited = 0 /\ collateral'[m].total_deposited = 0
        BY <3>1 DEF ListCollateral, IsNew, NotListed, VaultInv, UnlistedAreEmpty, TypeOK,
                    CollateralAsset
      <4> QED  BY <2>0, <3>1, <4>1, NoHoldingMoves DEF ListCollateral, TypeOK
    <3>2. ASSUME NEW m \in Mints, NEW params \in ParamChoices,
                 UpdateCollateralParams(m, params)
          PROVE  VaultInv'
      BY <2>0, <3>2, NoHoldingMoves DEF UpdateCollateralParams, TypeOK, CollateralAsset
    <3>3. ASSUME NEW m \in Mints, DelistCollateral(m) PROVE VaultInv'
      BY <2>0, <3>3, NoHoldingMoves DEF DelistCollateral, NotListed, TypeOK
    <3>4. ASSUME NEW cap \in Caps, NEW named \in AccountLists, SetPromoCap(cap, named)
          PROVE  VaultInv'
      BY <2>0, <3>4, NoHoldingMoves DEF SetPromoCap
    <3> QED  BY <2>1, <3>1, <3>2, <3>3, <3>4 DEF ListingStep
  <2>2. CASE PauseStep
    BY <2>0, <2>2, NoHoldingMoves DEF PauseStep, SetCollateralPaused,
                   SetCollateralBorrowPaused, TypeOK, CollateralAsset
  <2>3. ASSUME NEW m \in Mints, NEW w \in Owners, NEW amount \in DepositAmounts,
               DepositCollateral(w, m, amount)
        PROVE  VaultInv'
    <3>1. amount \in Nat /\ held[w][m] \in Nat
      BY Inputs DEF TypeOK
    <3>2. held'[w][m] = held[w][m] + amount
      BY <2>3 DEF DepositCollateral, TypeOK
    <3>3. \A v \in Owners, n \in Mints : <<v, n>> # <<w, m>> => held'[v][n] = held[v][n]
      BY <2>3 DEF DepositCollateral, TypeOK
    <3>4. /\ collateral'[m].total_deposited = collateral[m].total_deposited + amount
          /\ vault_token'[m] = vault_token[m] + amount
          /\ collateral[m].listed
      BY <2>3 DEF DepositCollateral, TypeOK, CollateralAsset
    <3>5. \A n \in Mints : /\ collateral'[n].listed = collateral[n].listed
                           /\ n # m => /\ collateral'[n] = collateral[n]
                                       /\ vault_token'[n] = vault_token[n]
      BY <2>3 DEF DepositCollateral, TypeOK, CollateralAsset
    <3>6. /\ collateral'[m].total_deposited
               = collateral[m].total_deposited + held'[w][m] - held[w][m]
          /\ vault_token'[m] - collateral'[m].total_deposited
               = vault_token[m] - collateral[m].total_deposited
      BY <2>0, <3>1, <3>2, <3>4
    <3>7. seized' = seized
      BY <2>3 DEF DepositCollateral
    <3> QED  BY <3>3, <3>4, <3>5, <3>6, <3>7, OneHoldingMoves
  <2>4. ASSUME NEW m \in Mints, NEW w \in Owners, NEW amount \in WithdrawAmounts,
               TakeCollateral(w, m, amount)
        PROVE  VaultInv'
    <3>1. amount \in Nat /\ held[w][m] \in Nat
      BY Inputs DEF TypeOK
    <3>2. held'[w][m] = held[w][m] - amount
      BY <2>4 DEF TakeCollateral, TypeOK
    <3>3. \A v \in Owners, n \in Mints : <<v, n>> # <<w, m>> => held'[v][n] = held[v][n]
      BY <2>4 DEF TakeCollateral, TypeOK
    <3>4. /\ collateral'[m].total_deposited = collateral[m].total_deposited - amount
          /\ vault_token'[m] = vault_token[m] - amount
          /\ collateral[m].listed
      BY <2>4 DEF TakeCollateral, TypeOK, CollateralAsset
    <3>5. \A n \in Mints : /\ collateral'[n].listed = collateral[n].listed
                           /\ n # m => /\ collateral'[n] = collateral[n]
                                       /\ vault_token'[n] = vault_token[n]
      BY <2>4 DEF TakeCollateral, TypeOK, CollateralAsset
    <3>6. /\ collateral'[m].total_deposited
               = collateral[m].total_deposited + held'[w][m] - held[w][m]
          /\ vault_token'[m] - collateral'[m].total_deposited
               = vault_token[m] - collateral[m].total_deposited
      BY <2>0, <3>1, <3>2, <3>4
    <3>7. seized' = seized
      BY <2>4 DEF TakeCollateral
    <3> QED  BY <3>3, <3>4, <3>5, <3>6, <3>7, OneHoldingMoves
  <2>5. ASSUME NEW m \in Mints, SweepCollateralExcess(m) PROVE VaultInv'
    BY <2>0, <2>5, NoHoldingMoves DEF SweepCollateralExcess, RecordedDeposits, SatSub, TypeOK
  <2>6. ASSUME NEW m \in Mints, NEW amount \in DonationAmounts, Donate(m, amount)
        PROVE  VaultInv'
    <3>1. amount \in Nat
      BY Inputs
    <3> QED  BY <2>0, <2>6, <3>1, NoHoldingMoves DEF Donate, Excess, SatSub, TypeOK
  <2>8. ASSUME NEW m \in Mints, NEW amount \in SeizureAmounts, Seize(m, amount)
        PROVE  VaultInv'
    <3>1. amount \in Nat
      BY Inputs
    <3> QED  BY <2>0, <2>8, <3>1, NoHoldingMoves DEF Seize, Excess, SatSub, TypeOK
  <2>7. CASE UNCHANGED vars
    BY <2>0, <2>7, NoHoldingMoves DEF vars
  <2> QED  BY <2>1, <2>2, <2>3, <2>4, <2>5, <2>6, <2>7, <2>8 DEF Next, VaultStep
<1> QED  BY <1>1, <1>2, RegistryTypes, PTL DEF Spec

\* What positions hold of a mint is what its listing records, delisted and listed again
\* included, and what its vault is short of that is exactly what the issuer seized
\* (state/collateral.rs, token/extensions.rs:28-29).
THEOREM VaultsStayCovered == Spec => []VaultsCoverHoldings
<1>1. VaultInv => VaultsCoverHoldings
  BY DEF VaultInv
<1> QED  BY <1>1, VaultInvHolds, PTL

-----------------------------------------------------------------------------
(* The limit and the line of a position *)

\* What a holding may borrow on, promo lift included, fits under its threshold, and so
\* do the parts of it rounded down on their own.
LEMMA PartsFitTheThreshold ==
  ASSUME NEW v \in Nat, NEW ltv \in Nat, NEW cap \in Nat, NEW threshold \in Nat,
         ltv + cap <= threshold
  PROVE  /\ MulDivFloor(v, ltv, BPS) \in Nat /\ MulDivFloor(v, cap, BPS) \in Nat
         /\ MulDivFloor(v, threshold, BPS) \in Nat
         /\ MulDivFloor(v, ltv, BPS) + MulDivFloor(v, cap, BPS) <= MulDivFloor(v, threshold, BPS)
<1> DEFINE x == v * ltv
           y == v * cap
           z == v * threshold
<1>1. x \in Nat /\ y \in Nat /\ z \in Nat
  OBVIOUS
<1>2. x + y <= z
  <2>1. v * (ltv + cap) = x + y
    OBVIOUS
  <2>2. \A a, b, c \in Nat : b <= c => a * b <= a * c
    OBVIOUS
  <2>3. ltv + cap \in Nat
    OBVIOUS
  <2>4. v * (ltv + cap) <= v * threshold
    BY <2>2, <2>3
  <2> QED  BY <2>1, <2>4
<1> HIDE DEF x, y, z
<1>3. \A a, b, c \in Nat, d \in Nat \ {0} : a + b <= c =>
         /\ a \div d \in Nat /\ b \div d \in Nat /\ c \div d \in Nat
         /\ (a \div d) + (b \div d) <= c \div d
  BY SMT
<1>4. /\ x \div BPS \in Nat /\ y \div BPS \in Nat /\ z \div BPS \in Nat
      /\ (x \div BPS) + (y \div BPS) <= z \div BPS
  BY <1>1, <1>2, <1>3, ScalesArePositive
<1> QED  BY <1>4 DEF MulDivFloor, x, y, z

\* The terms of what a position holds fit the cap: nothing is held that is not listed.
LEMMA WhatIsHeldIsListed ==
  ASSUME TypeOK, VaultInv, NEW w \in Owners, NEW m \in Mints, held[w][m] > 0
  PROVE  collateral[m].listed
<1> DEFINE h == [o \in Owners |-> held[o][m]]
<1>1. \A o \in Owners : h[o] \in Nat
  BY DEF TypeOK
<1>2. collateral[m].total_deposited = SumOver(h, Owners) /\ h[w] = held[w][m]
  BY DEF VaultInv, VaultsCoverHoldings
<1>3. collateral[m].total_deposited \in Nat
  BY DEF TypeOK, CollateralAsset
<1> HIDE DEF h
<1>4. h[w] <= SumOver(h, Owners)
  BY <1>1, SumBoundsItsParts, RegistryConstants
<1>5. collateral[m].total_deposited # 0
  BY <1>1, <1>2, <1>3, <1>4
<1> QED  BY <1>5 DEF VaultInv, UnlistedAreEmpty

\* What a holding is worth is natural.
LEMMA HoldingWorth ==
  ASSUME TypeOK, NEW w \in Owners, NEW point \in PricePoints,
         NEW m \in DOMAIN Values(w, point)
  PROVE  HoldingValue(Values(w, point)[m]) \in Nat
<1> DEFINE shown == MulDivFloor(held[w][m], point.multiplier, MULTIPLIER_SCALE)
<1>1. m \in Mints /\ held[w][m] \in Nat
  BY DEF Values, TypeOK
<1>2. point.price \in Nat /\ point.multiplier \in Nat
  BY RegistryConstants
<1>3. \A a, b \in Nat, d \in Nat \ {0} : MulDivFloor(a, b, d) \in Nat
  <2>1. \A a, b \in Nat : a * b \in Nat
    OBVIOUS
  <2>2. \A n \in Nat, d \in Nat \ {0} : n \div d \in Nat
    BY SMT
  <2> QED  BY <2>1, <2>2 DEF MulDivFloor
<1>4. shown \in Nat
  BY <1>1, <1>2, <1>3, ScalesArePositive
<1>5. HoldingValue(Values(w, point)[m]) = MulDivFloor(shown, SatSub(point.price, 0), 1)
  BY DEF Values, HoldingValue, TokenValue, Lower
<1> HIDE DEF shown
<1>6. SatSub(point.price, 0) \in Nat
  BY <1>2 DEF SatSub
<1> QED  BY <1>3, <1>4, <1>5, <1>6

\* Before and after a step that leaves what a position holds and its terms alone, the
\* line is at least the limit: the promo the limit counts fits between the loan-to-value
\* and the threshold of every holding, whatever the cap has become.
LEMMA LineStaysAboveTheLimit ==
  ASSUME TypeOK, TypeOK', VaultInv, EveryListingFitsTheCap,
         NEW w \in Owners, NEW point \in PricePoints,
         held'[w] = held[w],
         \A m \in Mints : held[w][m] > 0 => collateral'[m].params = collateral[m].params
  PROVE  BorrowLimit(Values(w, point), point.promo, promo_cap_bps)
            <= LiquidationLine(Values(w, point), point.promo, promo_cap_bps)'
<1> DEFINE C == Values(w, point)
           D == Values(w, point)'
           S == DOMAIN C
           lends(a, bps) == IF C[a].lends_borrowing_power THEN bps ELSE 0
           f == [a \in S |-> MulDivFloor(HoldingValue(C[a]), lends(a, C[a].ltv_bps), BPS)]
           g == [a \in S |-> MulDivFloor(HoldingValue(C[a]), lends(a, promo_cap_bps), BPS)]
           h == [a \in S |-> MulDivFloor(HoldingValue(C[a]), C[a].liquidation_threshold_bps, BPS)]
           k == [a \in S |-> MulDivFloor(HoldingValue(C[a]), promo_cap_bps', BPS)]
<1>1. /\ S = {m \in Mints : held[w][m] > 0} /\ DOMAIN D = S
      /\ \A a \in S : /\ HoldingValue(D[a]) = HoldingValue(C[a])
                      /\ D[a].liquidation_threshold_bps = C[a].liquidation_threshold_bps
  BY DEF Values, HoldingValue
<1>2. IsFiniteSet(S)
  BY <1>1, FS_Subset, RegistryConstants
<1>3. BorrowLimit(C, point.promo, promo_cap_bps)
        = SumOver(f, S) + Min2(point.promo, SumOver(g, S))
  BY DEF BorrowLimit, SumOfParts
<1>4. LiquidationLine(Values(w, point), point.promo, promo_cap_bps)'
        = SumOver(h, S) + Min2(point.promo, SumOver(k, S))
  <2> DEFINE h2 == [a \in DOMAIN D |-> MulDivFloor(HoldingValue(D[a]),
                                                 D[a].liquidation_threshold_bps, BPS)]
             k2 == [a \in DOMAIN D |-> MulDivFloor(HoldingValue(D[a]), promo_cap_bps', BPS)]
  <2>1. h2 = h /\ k2 = k
    BY <1>1
  <2>2. LiquidationLine(Values(w, point), point.promo, promo_cap_bps)'
          = SumOver(h2, DOMAIN D) + Min2(point.promo, SumOver(k2, DOMAIN D))
    BY DEF LiquidationLine, SumOfParts, HoldingValue
  <2> HIDE DEF h2, k2, h, k, C, D, S
  <2> QED  BY <1>1, <2>1, <2>2
<1>5. ASSUME NEW a \in S
      PROVE  /\ f[a] \in Nat /\ g[a] \in Nat /\ h[a] \in Nat /\ k[a] \in Nat
             /\ f[a] + g[a] <= h[a]
  <2> DEFINE v == HoldingValue(C[a])
             ltv == lends(a, C[a].ltv_bps)
             cap == lends(a, promo_cap_bps)
             threshold == C[a].liquidation_threshold_bps
  <2>1. v \in Nat
    BY HoldingWorth
  <2>2. a \in Mints /\ collateral[a].listed /\ Validate(collateral[a].params, promo_cap_bps)
    BY <1>1, WhatIsHeldIsListed DEF EveryListingFitsTheCap, Listed
  <2>3. /\ C[a].ltv_bps = collateral[a].params.ltv_bps
        /\ threshold = collateral[a].params.liquidation_threshold_bps
    BY DEF Values
  <2>4. /\ C[a].ltv_bps \in Nat /\ threshold \in Nat
        /\ promo_cap_bps \in Nat /\ promo_cap_bps' \in Nat
    BY <2>2, <2>3, ScalesArePositive DEF TypeOK, CollateralAsset, CollateralParams
  <2>5. C[a].ltv_bps + promo_cap_bps <= threshold
    BY <2>2, <2>3 DEF Validate
  <2> HIDE DEF C, v, threshold
  <2>6. ltv \in Nat /\ cap \in Nat /\ ltv + cap <= threshold
    BY <2>4, <2>5
  <2> HIDE DEF ltv, cap
  <2>7. /\ MulDivFloor(v, ltv, BPS) \in Nat /\ MulDivFloor(v, cap, BPS) \in Nat
        /\ MulDivFloor(v, threshold, BPS) \in Nat
        /\ MulDivFloor(v, ltv, BPS) + MulDivFloor(v, cap, BPS) <= MulDivFloor(v, threshold, BPS)
    BY <2>1, <2>4, <2>6, PartsFitTheThreshold
  <2>8. MulDivFloor(v, promo_cap_bps', BPS) \in Nat
    <3>1. ASSUME NEW x \in Nat PROVE MulDivFloor(v, x, BPS) \in Nat
      <4>1. 0 \in Nat /\ 0 + x <= x
        OBVIOUS
      <4> QED  BY <2>1, <4>1, PartsFitTheThreshold
    <3> QED  BY <2>4, <3>1
  <2> QED  BY <2>7, <2>8 DEF v, ltv, cap, threshold
<1> HIDE DEF f, g, h, k, C, D, S
<1>6. SumOver(f, S) + SumOver(g, S) <= SumOver(h, S)
  BY <1>2, <1>5, TwoSumsFit
<1>7. /\ SumOver(f, S) \in Nat /\ SumOver(g, S) \in Nat
      /\ SumOver(h, S) \in Nat /\ SumOver(k, S) \in Nat
  BY <1>2, <1>5, SumIsNat
<1>8. point.promo \in Nat
  BY RegistryConstants
<1>9. SumOver(f, S) + Min2(point.promo, SumOver(g, S))
        <= SumOver(h, S) + Min2(point.promo, SumOver(k, S))
  BY <1>6, <1>7, <1>8 DEF Min2
<1> QED  BY <1>3, <1>4, <1>9 DEF C

\* No change of the promo cap, no pause, no listing or delisting and nobody else's
\* holdings sink a position that is borrowed to its limit (math/health.rs).
THEOREM NoCapSinksAPosition == Spec => NoCapSinksAHealthyPosition
<1>1. /\ TypeOK /\ TypeOK' /\ VaultInv /\ EveryListingFitsTheCap /\ [Next]_vars
      => [ \A w \in Owners, point \in PricePoints :
             /\ held'[w] = held[w]
             /\ \A m \in Mints : held[w][m] > 0 => collateral'[m].params = collateral[m].params
             => BorrowLimit(Values(w, point), point.promo, promo_cap_bps)
                  <= LiquidationLine(Values(w, point), point.promo, promo_cap_bps)' ]_vars
  BY LineStaysAboveTheLimit
<1> QED  BY <1>1, RegistryTypes, VaultInvHolds, CapFitsEveryListing, PTL
         DEF Spec, NoCapSinksAHealthyPosition
=============================================================================
