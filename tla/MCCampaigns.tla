---------------------------- MODULE MCCampaigns ----------------------------
(***************************************************************************)
(* Instances of Campaigns for TLC.                                         *)
(***************************************************************************)
EXTENDS Campaigns, TLC

CONSTANTS alice, bob, oldKey, newKey

Signed(campaignId, owner, amount, nonce, expiry, signer) ==
    [campaign |-> campaignId, owner |-> owner, amount |-> amount, nonce |-> nonce,
     expiry |-> expiry, signer |-> signer]

\* One nonce signed for two wallets and again with a later expiry, and the same
\* nonce in another campaign.
MCReissued ==
    {Signed(1, alice, 1, 7, 1, oldKey), Signed(1, bob, 2, 7, 1, oldKey),
     Signed(1, alice, 1, 7, 2, oldKey), Signed(2, alice, 1, 7, 2, newKey)}
=============================================================================
