---------------------------- MODULE MCMintPolicy ----------------------------
(***************************************************************************)
(* The instance of MintPolicy for TLC.                                     *)
(***************************************************************************)
EXTENDS MintPolicy

\* What a listable mint may or may not carry, a fee included; metadata and confidential
\* transfers make no difference to anything but the allowlist.
MCProfiles ==
    SUBSET {"PermanentDelegate", "Pausable", "ScaledUiAmount", "TransferHook",
            "DefaultAccountState", "TransferFeeConfig"}
    \cup SUBSET {"MetadataPointer", "ConfidentialTransferMint", "ScaledUiAmount"}
=============================================================================
