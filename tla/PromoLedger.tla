---------------------------- MODULE PromoLedger ----------------------------
(***************************************************************************)
(* What the promo vault promises, without campaigns, vouchers, positions   *)
(* or tokens: cNGN is recorded as held (cash), promised to positions       *)
(* (outstanding) or to campaigns (unissued), and more is never promised    *)
(* than is recorded.  What is promised to a position returns to the vault  *)
(* or is paid out for it; it never goes to anybody else.                   *)
(*                                                                         *)
(* Lending and Campaigns both implement this specification: the first with *)
(* the handlers that move a position's promo, the second with those that   *)
(* fund, commit and grant it.                                              *)
(***************************************************************************)
EXTENDS Integers

VARIABLES
    cash,         \* cNGN the vault records as held
    outstanding,  \* promised to positions
    unissued      \* promised to campaigns, not yet granted

ledger == <<cash, outstanding, unissued>>

Committed == outstanding + unissued

\* The promise itself.
Backed ==
    /\ cash \in Nat
    /\ outstanding \in Nat
    /\ unissued \in Nat
    /\ Committed <= cash

Init == Backed

\* fund_promo_vault
Fund ==
    /\ cash' \in Nat /\ cash' > cash
    /\ UNCHANGED <<outstanding, unissued>>

\* withdraw_promo_vault, reconcile_promo_vault: only what is free goes.
TakeFree ==
    /\ cash' \in Nat /\ cash' < cash
    /\ Committed <= cash'
    /\ UNCHANGED <<outstanding, unissued>>

\* create_campaign
Commit ==
    /\ unissued' \in Nat /\ unissued' > unissued
    /\ outstanding + unissued' <= cash
    /\ UNCHANGED <<cash, outstanding>>

\* close_campaign
Return ==
    /\ unissued' \in Nat /\ unissued' < unissued
    /\ UNCHANGED <<cash, outstanding>>

\* redeem_promo
Grant ==
    /\ outstanding' \in Nat /\ outstanding' > outstanding
    /\ unissued' \in Nat
    /\ Committed' = Committed
    /\ UNCHANGED cash

\* release_promo
Release ==
    /\ outstanding' \in Nat /\ outstanding' < outstanding
    /\ UNCHANGED <<cash, unissued>>

\* forfeit_promo: a position's promo is paid to the lenders, as far as it can be.
Forfeit ==
    /\ outstanding' \in Nat /\ outstanding' < outstanding
    /\ cash' \in Nat
    /\ cash' <= cash
    /\ cash - cash' <= outstanding - outstanding'
    /\ UNCHANGED unissued

Next == Fund \/ TakeFree \/ Commit \/ Return \/ Grant \/ Release \/ Forfeit

Spec == Init /\ [][Next]_ledger
=============================================================================
