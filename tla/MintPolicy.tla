---------------------------- MODULE MintPolicy ----------------------------
(***************************************************************************)
(* The policy on collateral mints: what a mint may carry when collateral   *)
(* enters, what is still asked when it leaves, and what its issuer can do  *)
(* in between.                                                             *)
(*                                                                         *)
(* The module follows one mint and its vault.  Which extensions a mint     *)
(* carries is settled when the mint is created, but for three that can be  *)
(* written into a live one; the issuer keeps the powers the others give.   *)
(***************************************************************************)
EXTENDS Naturals, FiniteSets

CONSTANTS
    Profiles,    \* sets of extensions the mint may have been created with
    Kinds,       \* kinds the admin may list it under
    Amounts,     \* units deposited, withdrawn, donated or taken in one step
    DEPOSIT_CAP,
    MaxTaken     \* bound: what the delegate takes while the mint is listed

ExtensionTypes ==
    {"MetadataPointer", "TokenMetadata", "PermanentDelegate", "Pausable", "ScaledUiAmount",
     "ConfidentialTransferMint", "TransferHook", "DefaultAccountState",
     "TransferFeeConfig", "TokenGroup", "TokenGroupMember"}

\* Extensions that are written into a live mint.
LiveExtensions == {"TokenMetadata", "TokenGroup", "TokenGroupMember"}

CollateralKinds == {"Standard", "XStock"}
NotListed == "NotListed"

ASSUME MintPolicyConstants ==
    /\ Profiles \subseteq SUBSET ExtensionTypes
    /\ Kinds \subseteq CollateralKinds
    /\ Amounts \subseteq Nat \ {0}
    /\ {DEPOSIT_CAP, MaxTaken} \subseteq Nat

VARIABLES
    mint,             \* the mint: its extensions and what their settings are
    kind,             \* the kind it is listed under, or NotListed
    vault_frozen,     \* the vault's token account is frozen
    vault_token,      \* tokens in the vault
    total_deposited,  \* what positions were credited
    taken,            \* history: tokens the permanent delegate took out of the vault
    leaving           \* every depositor has decided to take its collateral out

vars == <<mint, kind, vault_frozen, vault_token, total_deposited, taken, leaving>>
vaultVars == <<vault_frozen, vault_token, total_deposited, taken>>

Mint == [extensions: SUBSET ExtensionTypes, hooked: BOOLEAN, frozen_by_default: BOOLEAN,
         paused: BOOLEAN]

Carries(extension) == extension \in mint.extensions

STANDARD_COLLATERAL_EXTENSIONS == {"MetadataPointer", "TokenMetadata"}

\* Mutant: fees are let in.
AllowlistWithFees ==
    STANDARD_COLLATERAL_EXTENSIONS \cup
    {"PermanentDelegate", "Pausable", "ScaledUiAmount", "ConfidentialTransferMint",
     "TransferHook", "DefaultAccountState", "TransferFeeConfig"}

XSTOCK_COLLATERAL_EXTENSIONS ==
    STANDARD_COLLATERAL_EXTENSIONS \cup
    {"PermanentDelegate", "Pausable", "ScaledUiAmount", "ConfidentialTransferMint",
     "TransferHook", "DefaultAccountState"}

NoHookProgram == ~mint.hooked

\* Mutant: the multiplier is left to the valuation.
XStockOnEntryUnpriced ==
    /\ mint.extensions \subseteq XSTOCK_COLLATERAL_EXTENSIONS
    /\ NoHookProgram
    /\ ~mint.frozen_by_default

XStockOnEntry ==
    /\ mint.extensions \subseteq XSTOCK_COLLATERAL_EXTENSIONS
    /\ Carries("ScaledUiAmount")
    /\ NoHookProgram
    /\ ~mint.frozen_by_default

OnEntry(k) ==
    \/ k = "Standard" /\ mint.extensions \subseteq STANDARD_COLLATERAL_EXTENSIONS
    \/ k = "XStock" /\ XStockOnEntry

\* Mutant: the entry policy again.
EntryPolicyOnExit == OnEntry(kind)

\* Not keyed on the kind, and narrower: only a hook program is refused.
OnExit == NoHookProgram

\* The token program's own rules for a transfer into or out of the vault.  A hooked
\* transfer fails for want of the hook's accounts.
TransferGoesThrough == ~mint.paused /\ ~vault_frozen /\ ~mint.hooked

\* What arrives of a transfer: a mint with a fee keeps a unit.
Arrives(amount) == IF Carries("TransferFeeConfig") THEN amount - 1 ELSE amount

-----------------------------------------------------------------------------
(* The program *)

\* The vault is created by the instruction, in the default state of the mint.
ListCollateral(k) ==
    /\ kind = NotListed
    /\ OnEntry(k)
    /\ kind' = k
    /\ vault_frozen' = mint.frozen_by_default
    /\ vault_token' = 0 /\ total_deposited' = 0 /\ taken' = 0
    /\ UNCHANGED <<mint, leaving>>

DepositCollateral(amount) ==
    /\ kind # NotListed /\ ~leaving
    /\ total_deposited + amount <= DEPOSIT_CAP
    /\ OnEntry(kind)
    /\ TransferGoesThrough
    /\ total_deposited' = total_deposited + amount
    /\ vault_token' = vault_token + Arrives(amount)
    /\ UNCHANGED <<mint, kind, vault_frozen, taken, leaving>>

\* A withdrawal by its owner or a seizure by a liquidator.
TakeCollateral(amount) ==
    /\ kind # NotListed
    /\ amount <= total_deposited /\ amount <= vault_token
    /\ OnExit
    /\ TransferGoesThrough
    /\ total_deposited' = total_deposited - amount
    /\ vault_token' = vault_token - amount
    /\ UNCHANGED <<mint, kind, vault_frozen, taken, leaving>>

SweepCollateralExcess ==
    /\ kind # NotListed
    /\ OnExit
    /\ vault_token > total_deposited
    /\ TransferGoesThrough
    /\ vault_token' = total_deposited
    /\ UNCHANGED <<mint, kind, vault_frozen, total_deposited, taken, leaving>>

\* Mutant: the record alone is asked.
NothingRecorded == total_deposited = 0

VaultIsClear == total_deposited = 0 /\ vault_token = 0

DelistCollateral ==
    /\ kind # NotListed
    /\ VaultIsClear
    /\ kind' = NotListed
    /\ vault_frozen' = FALSE /\ taken' = 0
    /\ UNCHANGED <<mint, vault_token, total_deposited, leaving>>

-----------------------------------------------------------------------------
(* The issuer and the depositors *)

\* Labels are attached to a live mint.
AttachExtension(extension) ==
    /\ mint' = [mint EXCEPT !.extensions = @ \cup {extension}]
    /\ UNCHANGED <<kind, vaultVars, leaving>>

SetHookProgram(named) ==
    /\ Carries("TransferHook")
    /\ mint' = [mint EXCEPT !.hooked = named]
    /\ UNCHANGED <<kind, vaultVars, leaving>>

SetDefaultAccountState(frozen) ==
    /\ Carries("DefaultAccountState")
    /\ mint' = [mint EXCEPT !.frozen_by_default = frozen]
    /\ UNCHANGED <<kind, vaultVars, leaving>>

SetMintPaused(paused) ==
    /\ Carries("Pausable")
    /\ mint' = [mint EXCEPT !.paused = paused]
    /\ UNCHANGED <<kind, vaultVars, leaving>>

\* A freeze authority is no extension: any mint may have one.
SetVaultFrozen(frozen) ==
    /\ kind # NotListed
    /\ vault_frozen' = frozen
    /\ UNCHANGED <<mint, kind, vault_token, total_deposited, taken, leaving>>

DelegateTakes(amount) ==
    /\ Carries("PermanentDelegate")
    /\ kind # NotListed
    /\ amount <= vault_token /\ taken + amount <= MaxTaken
    /\ vault_token' = vault_token - amount
    /\ taken' = taken + amount
    /\ UNCHANGED <<mint, kind, vault_frozen, total_deposited, leaving>>

\* Bounded: one donation may stand in the vault.
Donate(amount) ==
    /\ kind # NotListed
    /\ TransferGoesThrough
    /\ vault_token + amount <= DEPOSIT_CAP
    /\ vault_token' = vault_token + Arrives(amount)
    /\ UNCHANGED <<mint, kind, vault_frozen, total_deposited, taken, leaving>>

DepositorsLeave ==
    /\ ~leaving
    /\ leaving' = TRUE
    /\ UNCHANGED <<mint, kind, vaultVars>>

Init ==
    /\ mint \in {[extensions |-> p, hooked |-> h, frozen_by_default |-> f, paused |-> FALSE] :
                    p \in Profiles, h \in BOOLEAN, f \in BOOLEAN}
    /\ mint.hooked => Carries("TransferHook")
    /\ mint.frozen_by_default => Carries("DefaultAccountState")
    /\ kind = NotListed
    /\ vault_frozen = FALSE /\ vault_token = 0 /\ total_deposited = 0 /\ taken = 0
    /\ leaving = FALSE

ProgramStep ==
    \/ \E k \in Kinds : ListCollateral(k)
    \/ \E amount \in Amounts : DepositCollateral(amount) \/ TakeCollateral(amount)
    \/ SweepCollateralExcess
    \/ DelistCollateral

IssuerStep ==
    \/ \E extension \in LiveExtensions : AttachExtension(extension)
    \/ \E on \in BOOLEAN :
          \/ SetHookProgram(on) \/ SetDefaultAccountState(on)
          \/ SetMintPaused(on) \/ SetVaultFrozen(on)
    \/ \E amount \in Amounts : DelegateTakes(amount)

Next ==
    \/ ProgramStep
    \/ IssuerStep
    \/ \E amount \in Amounts : Donate(amount)
    \/ DepositorsLeave

Spec == Init /\ [][Next]_vars

\* Depositors who leave keep trying; nothing is assumed of the issuer or the admin.
FairSpec == Spec /\ WF_vars(leaving /\ \E amount \in Amounts : TakeCollateral(amount))

-----------------------------------------------------------------------------
(* Properties *)

\* Every account has its type, the mint only the settings its extensions give it, and no
\* tokens are left where a vault was closed.
TypeOK ==
    /\ mint \in Mint
    /\ mint.hooked => Carries("TransferHook")
    /\ mint.frozen_by_default => Carries("DefaultAccountState")
    /\ mint.paused => Carries("Pausable")
    /\ kind \in CollateralKinds \cup {NotListed}
    /\ kind = NotListed => vault_token = 0 /\ total_deposited = 0
    /\ vault_frozen \in BOOLEAN
    /\ {vault_token, total_deposited, taken} \subseteq Nat

\* What positions were credited is in the vault, or its issuer took it: no listed mint
\* delivers less than a deposit is credited (deposit_collateral.rs:39-63).
CreditIsCustody == total_deposited <= vault_token + taken

\* A deposit held under the XStock kind can be priced, whatever was attached to its mint
\* since: its multiplier is there to be read (extensions.rs:129).
HeldXStockHasMultiplier == kind = "XStock" /\ total_deposited > 0 => Carries("ScaledUiAmount")

\* No setting the token program itself would let through seals the exit: depositors who
\* leave get out, or the issuer stops the transfers or takes the tokens.
NoExitIsSealed ==
    leaving ~> (total_deposited = 0 \/ ~TransferGoesThrough \/ vault_token = 0)
=============================================================================
