-------------------------- MODULE MintPolicyProofs --------------------------
(***************************************************************************)
(* Proofs about MintPolicy, for every set of extensions a mint may be      *)
(* created with and every set of amounts:                                  *)
(*   PolicyTypes               Spec => []TypeOK                            *)
(*   CreditStaysCustody        Spec => []CreditIsCustody                   *)
(*   HeldXStockKeepsMultiplier Spec => []HeldXStockHasMultiplier           *)
(* The mint and its vault keep their types; what positions were credited   *)
(* is in the vault or was taken by the issuer; and a deposit under the     *)
(* XStock kind keeps the multiplier it is priced with.                     *)
(***************************************************************************)
EXTENDS MintPolicy, TLAPS

\* The parts of MintPolicyConstants that the proofs use.
LEMMA MintPolicyInputs ==
  /\ \A p \in Profiles : p \subseteq ExtensionTypes
  /\ \A amount \in Amounts : amount \in Nat /\ amount > 0
  /\ \A k \in Kinds : k \in CollateralKinds
  /\ LiveExtensions \subseteq ExtensionTypes
  /\ NotListed \notin CollateralKinds
  BY MintPolicyConstants DEF LiveExtensions, ExtensionTypes, NotListed, CollateralKinds

-----------------------------------------------------------------------------
(* The policy *)

\* Whatever the kind, a mint that may enter charges no fee: all of a transfer arrives.
LEMMA NoFeeOnEntry ==
  ASSUME NEW k, OnEntry(k), NEW amount
  PROVE  ~Carries("TransferFeeConfig") /\ Arrives(amount) = amount
<1>1. "TransferFeeConfig" \notin STANDARD_COLLATERAL_EXTENSIONS
  BY DEF STANDARD_COLLATERAL_EXTENSIONS
<1>2. "TransferFeeConfig" \notin XSTOCK_COLLATERAL_EXTENSIONS
  BY DEF STANDARD_COLLATERAL_EXTENSIONS, XSTOCK_COLLATERAL_EXTENSIONS
<1>3. ~Carries("TransferFeeConfig")
  BY <1>1, <1>2 DEF OnEntry, XStockOnEntry, Carries
<1> QED  BY <1>3 DEF Arrives

\* A mint enters under the XStock kind only with its multiplier.
LEMMA XStockEntersWithMultiplier == OnEntry("XStock") => Carries("ScaledUiAmount")
  BY DEF OnEntry, XStockOnEntry

\* Something may be kept as a fee, never more than was sent.
LEMMA ArrivesIsNatural ==
  ASSUME NEW amount \in Amounts
  PROVE  Arrives(amount) \in Nat
  BY MintPolicyInputs DEF Arrives

-----------------------------------------------------------------------------
(* Types *)

\* The issuer's instructions to the mint keep its type, and each setting changes only on
\* a mint that carries its extension.
LEMMA MintStepTypes ==
  ASSUME TypeOK, NEW on \in BOOLEAN,
         \/ SetHookProgram(on) \/ SetDefaultAccountState(on) \/ SetMintPaused(on)
         \/ \E extension \in LiveExtensions : AttachExtension(extension)
  PROVE  TypeOK'
<1>1. /\ mint.extensions \subseteq ExtensionTypes
      /\ mint.hooked \in BOOLEAN /\ mint.frozen_by_default \in BOOLEAN /\ mint.paused \in BOOLEAN
      /\ mint = [extensions |-> mint.extensions, hooked |-> mint.hooked,
                 frozen_by_default |-> mint.frozen_by_default, paused |-> mint.paused]
  BY DEF TypeOK, Mint
<1> USE DEF TypeOK, Mint, Carries, vaultVars
<1>2. CASE SetHookProgram(on)
  BY <1>1, <1>2 DEF SetHookProgram
<1>3. CASE SetDefaultAccountState(on)
  BY <1>1, <1>3 DEF SetDefaultAccountState
<1>4. CASE SetMintPaused(on)
  BY <1>1, <1>4 DEF SetMintPaused
<1>5. ASSUME NEW extension \in LiveExtensions, AttachExtension(extension)
      PROVE  TypeOK'
  BY <1>1, <1>5, MintPolicyInputs DEF AttachExtension
<1> QED  BY <1>2, <1>3, <1>4, <1>5

\* What moves tokens keeps the types of the vault and leaves the mint alone.
LEMMA TransferTypes ==
  ASSUME TypeOK, NEW amount \in Amounts,
         \/ DepositCollateral(amount) \/ TakeCollateral(amount)
         \/ DelegateTakes(amount) \/ Donate(amount)
  PROVE  TypeOK'
<1>1. /\ vault_token \in Nat /\ total_deposited \in Nat /\ taken \in Nat /\ amount \in Nat
      /\ Arrives(amount) \in Nat
  BY MintPolicyInputs, ArrivesIsNatural DEF TypeOK
<1>2. /\ UNCHANGED <<mint, kind, vault_frozen, leaving>> /\ kind # NotListed
  BY DEF DepositCollateral, TakeCollateral, DelegateTakes, Donate
<1>3. vault_token' \in Nat /\ total_deposited' \in Nat /\ taken' \in Nat
  <2>1. CASE DepositCollateral(amount)
    BY <1>1, <2>1 DEF DepositCollateral
  <2>2. CASE TakeCollateral(amount)
    BY <1>1, <2>2 DEF TakeCollateral
  <2>3. CASE DelegateTakes(amount)
    BY <1>1, <2>3 DEF DelegateTakes
  <2>4. CASE Donate(amount)
    BY <1>1, <2>4 DEF Donate
  <2> QED  BY <2>1, <2>2, <2>3, <2>4
<1> QED  BY <1>2, <1>3 DEF TypeOK, Carries

\* The admin's instructions, and the freezing of the vault, keep the types of the vault.
LEMMA VaultStepTypes ==
  ASSUME TypeOK,
         \/ \E k \in Kinds : ListCollateral(k)
         \/ SweepCollateralExcess \/ DelistCollateral
         \/ \E on \in BOOLEAN : SetVaultFrozen(on)
  PROVE  TypeOK'
<1>1. vault_token \in Nat /\ total_deposited \in Nat /\ taken \in Nat /\ mint \in Mint
  BY DEF TypeOK
<1>2. ASSUME NEW k \in Kinds, ListCollateral(k) PROVE TypeOK'
  <2>1. k \in CollateralKinds /\ k # NotListed /\ mint.frozen_by_default \in BOOLEAN
    BY <1>1, MintPolicyInputs DEF Mint
  <2> QED  BY <1>2, <2>1 DEF TypeOK, ListCollateral, Carries
<1>3. CASE SweepCollateralExcess
  BY <1>1, <1>3 DEF TypeOK, SweepCollateralExcess, Carries
<1>4. CASE DelistCollateral
  BY <1>1, <1>4 DEF TypeOK, DelistCollateral, VaultIsClear, Carries
<1>5. ASSUME NEW on \in BOOLEAN, SetVaultFrozen(on) PROVE TypeOK'
  BY <1>1, <1>5 DEF TypeOK, SetVaultFrozen, Carries
<1> QED  BY <1>2, <1>3, <1>4, <1>5

-----------------------------------------------------------------------------
(* The steps of Next by what they touch *)

MintStep ==
    \E on \in BOOLEAN :
        \/ SetHookProgram(on) \/ SetDefaultAccountState(on) \/ SetMintPaused(on)
        \/ \E extension \in LiveExtensions : AttachExtension(extension)

TransferStep ==
    \E amount \in Amounts :
        \/ DepositCollateral(amount) \/ TakeCollateral(amount)
        \/ DelegateTakes(amount) \/ Donate(amount)

VaultStep ==
    \/ \E k \in Kinds : ListCollateral(k)
    \/ SweepCollateralExcess \/ DelistCollateral
    \/ \E on \in BOOLEAN : SetVaultFrozen(on)

\* Every step touches the mint, moves tokens, is the vault's, or is the depositors' decision.
LEMMA StepSorts == Next => MintStep \/ TransferStep \/ VaultStep \/ DepositorsLeave
  BY Zenon DEF Next, ProgramStep, IssuerStep, MintStep, TransferStep, VaultStep

\* The mint, the vault and the records keep their types, whoever acts.
THEOREM PolicyTypes == Spec => []TypeOK
<1>1. Init => TypeOK
  <2> SUFFICES ASSUME Init PROVE TypeOK
    OBVIOUS
  <2>1. PICK p \in Profiles, h \in BOOLEAN, f \in BOOLEAN :
          mint = [extensions |-> p, hooked |-> h, frozen_by_default |-> f, paused |-> FALSE]
    BY DEF Init
  <2>2. mint \in Mint /\ ~mint.paused
    BY <2>1, MintPolicyInputs DEF Mint
  <2>3. /\ kind = NotListed /\ vault_frozen = FALSE
        /\ vault_token = 0 /\ total_deposited = 0 /\ taken = 0
        /\ mint.hooked => Carries("TransferHook")
        /\ mint.frozen_by_default => Carries("DefaultAccountState")
    BY DEF Init
  <2>4. kind \in CollateralKinds \cup {NotListed} /\ vault_frozen \in BOOLEAN
    BY <2>3
  <2>5. {vault_token, total_deposited, taken} \subseteq Nat
    BY <2>3
  <2>6. mint.paused => Carries("Pausable")
    BY <2>2
  <2> QED  BY <2>2, <2>3, <2>4, <2>5, <2>6 DEF TypeOK
<1>2. TypeOK /\ [Next]_vars => TypeOK'
  <2> SUFFICES ASSUME TypeOK, [Next]_vars PROVE TypeOK'
    OBVIOUS
  <2>1. CASE MintStep
    BY <2>1, MintStepTypes DEF MintStep
  <2>2. CASE TransferStep
    BY <2>2, TransferTypes DEF TransferStep
  <2>3. CASE VaultStep
    BY <2>3, VaultStepTypes DEF VaultStep
  <2>4. CASE DepositorsLeave
    BY <2>4 DEF DepositorsLeave, TypeOK, Carries, vaultVars
  <2>5. CASE UNCHANGED vars
    BY <2>5 DEF vars, TypeOK, Carries
  <2> QED  BY <2>1, <2>2, <2>3, <2>4, <2>5, StepSorts
<1> QED  BY <1>1, <1>2, PTL DEF Spec

-----------------------------------------------------------------------------
(* Custody *)

\* A transfer moves the credit by no more than what the vault holds or gave its issuer.
LEMMA TransferKeepsCustody ==
  ASSUME TypeOK, CreditIsCustody, TransferStep
  PROVE  CreditIsCustody'
<1>1. /\ vault_token \in Nat /\ total_deposited \in Nat /\ taken \in Nat
      /\ total_deposited <= vault_token + taken
  BY DEF TypeOK, CreditIsCustody
<1>2. PICK amount \in Amounts :
        \/ DepositCollateral(amount) \/ TakeCollateral(amount)
        \/ DelegateTakes(amount) \/ Donate(amount)
  BY DEF TransferStep
<1>3. amount \in Nat /\ Arrives(amount) \in Nat
  BY MintPolicyInputs, ArrivesIsNatural
<1>4. CASE DepositCollateral(amount)
  <2>1. Arrives(amount) = amount
    BY <1>4, NoFeeOnEntry DEF DepositCollateral
  <2> QED  BY <1>1, <1>3, <1>4, <2>1 DEF DepositCollateral, CreditIsCustody
<1>5. CASE TakeCollateral(amount)
  BY <1>1, <1>3, <1>5 DEF TakeCollateral, CreditIsCustody
<1>6. CASE DelegateTakes(amount)
  BY <1>1, <1>3, <1>6 DEF DelegateTakes, CreditIsCustody
<1>7. CASE Donate(amount)
  BY <1>1, <1>3, <1>7 DEF Donate, CreditIsCustody
<1> QED  BY <1>2, <1>4, <1>5, <1>6, <1>7

\* What positions were credited is in the vault or its issuer took it: the fee a mint may
\* charge is refused on entry, and the sweep leaves what is credited
\* (deposit_collateral.rs:39-63).
THEOREM CreditStaysCustody == Spec => []CreditIsCustody
<1>1. Init => CreditIsCustody
  BY DEF Init, CreditIsCustody
<1>2. TypeOK /\ CreditIsCustody /\ [Next]_vars => CreditIsCustody'
  <2> SUFFICES ASSUME TypeOK, CreditIsCustody, [Next]_vars PROVE CreditIsCustody'
    OBVIOUS
  <2>1. CASE MintStep
    BY <2>1 DEF MintStep, SetHookProgram, SetDefaultAccountState, SetMintPaused,
                AttachExtension, vaultVars, CreditIsCustody
  <2>2. CASE TransferStep
    BY <2>2, TransferKeepsCustody
  <2>3. CASE VaultStep
    BY <2>3 DEF VaultStep, ListCollateral, SweepCollateralExcess, DelistCollateral,
                VaultIsClear, SetVaultFrozen, CreditIsCustody, TypeOK
  <2>4. CASE DepositorsLeave
    BY <2>4 DEF DepositorsLeave, vaultVars, CreditIsCustody
  <2>5. CASE UNCHANGED vars
    BY <2>5 DEF vars, CreditIsCustody
  <2> QED  BY <2>1, <2>2, <2>3, <2>4, <2>5, StepSorts
<1> QED  BY <1>1, <1>2, PolicyTypes, PTL DEF Spec

-----------------------------------------------------------------------------
(* The multiplier *)

\* A mint that carries its multiplier goes on carrying it.
LEMMA MintStepKeepsMultiplier ==
  ASSUME TypeOK, HeldXStockHasMultiplier, MintStep
  PROVE  HeldXStockHasMultiplier'
<1>1. UNCHANGED <<kind, vaultVars>>
  BY DEF MintStep, SetHookProgram, SetDefaultAccountState, SetMintPaused, AttachExtension
<1>2. mint.extensions \subseteq mint'.extensions
  BY DEF MintStep, SetHookProgram, SetDefaultAccountState, SetMintPaused, AttachExtension,
         TypeOK, Mint
<1> QED  BY <1>1, <1>2 DEF HeldXStockHasMultiplier, Carries, vaultVars

\* A deposit held under the XStock kind can be priced, whatever was attached to its mint
\* or switched on it since it was made (extensions.rs:129).
THEOREM HeldXStockKeepsMultiplier == Spec => []HeldXStockHasMultiplier
<1>1. Init => HeldXStockHasMultiplier
  BY DEF Init, HeldXStockHasMultiplier
<1>2. TypeOK /\ HeldXStockHasMultiplier /\ [Next]_vars => HeldXStockHasMultiplier'
  <2> SUFFICES ASSUME TypeOK, HeldXStockHasMultiplier, [Next]_vars
               PROVE  HeldXStockHasMultiplier'
    OBVIOUS
  <2>1. CASE MintStep
    BY <2>1, MintStepKeepsMultiplier
  <2>2. CASE TransferStep
    <3>1. PICK amount \in Amounts :
            \/ DepositCollateral(amount) \/ TakeCollateral(amount)
            \/ DelegateTakes(amount) \/ Donate(amount)
      BY <2>2 DEF TransferStep
    <3>2. amount \in Nat /\ amount > 0 /\ total_deposited \in Nat
      BY MintPolicyInputs DEF TypeOK
    <3>3. CASE DepositCollateral(amount)
      BY <3>3, XStockEntersWithMultiplier DEF DepositCollateral, HeldXStockHasMultiplier, Carries
    <3>4. CASE TakeCollateral(amount)
      BY <3>2, <3>4 DEF TakeCollateral, HeldXStockHasMultiplier, Carries
    <3>5. CASE DelegateTakes(amount) \/ Donate(amount)
      BY <3>5 DEF DelegateTakes, Donate, HeldXStockHasMultiplier, Carries
    <3> QED  BY <3>1, <3>3, <3>4, <3>5
  <2>3. CASE VaultStep
    BY <2>3 DEF VaultStep, ListCollateral, SweepCollateralExcess, DelistCollateral,
                SetVaultFrozen, NotListed, HeldXStockHasMultiplier, Carries
  <2>4. CASE DepositorsLeave
    BY <2>4 DEF DepositorsLeave, vaultVars, HeldXStockHasMultiplier, Carries
  <2>5. CASE UNCHANGED vars
    BY <2>5 DEF vars, HeldXStockHasMultiplier, Carries
  <2> QED  BY <2>1, <2>2, <2>3, <2>4, <2>5, StepSorts
<1> QED  BY <1>1, <1>2, PolicyTypes, PTL DEF Spec
=============================================================================
