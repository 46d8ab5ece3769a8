------------------------------- MODULE Access -------------------------------
(***************************************************************************)
(* Who may do what: the roles of the configuration, the whitelist, the     *)
(* pauses, and the gate every handler of a user puts before its work.      *)
(*                                                                         *)
(* What the gates guard is kept small: a position holds units of one       *)
(* collateral and owes units of one market, a unit of collateral backs a   *)
(* unit of debt, and whether prices have put a position under its          *)
(* liquidation line is the environment's choice.  The amounts are the      *)
(* business of Lending.                                                    *)
(***************************************************************************)
EXTENDS Naturals, FiniteSets

CONSTANTS
    Wallets,         \* users: borrowers, lenders, payers
    Signers,         \* keys that hold a role; they may be users too
    None,            \* no pending admin
    Nominees,        \* keys the admin names in the instance
    InitialConfigs,  \* configurations that initialize may leave
    Borrowers,       \* wallets that open positions in the instance
    Lenders,         \* wallets that deposit liquidity in the instance
    Amounts,         \* units a user moves in one instruction
    MaxUnits,        \* bound: collateral, debt and liquidity of one wallet
    RoleInputs,      \* roles the admin changes in the instance
    PauseInputs      \* what the pauses are set to

Roles == {"Guardian", "Whitelister", "PromoSigner", "Treasury"}

ASSUME AccessConstants ==
    /\ None \notin Signers
    /\ Nominees \subseteq Signers
    /\ InitialConfigs \subseteq [admin: Signers, pending_admin: {None}, role: [Roles -> Signers]]
    /\ UNION {Borrowers, Lenders} \subseteq Wallets
    /\ Amounts \subseteq Nat \ {0}
    /\ MaxUnits \in Nat
    /\ RoleInputs \subseteq Roles
    /\ PauseInputs \subseteq BOOLEAN

VARIABLES
    config,            \* [admin, pending_admin, role]
    access,            \* [Wallets -> the wallet's access account]
    market_paused,
    collateral_paused,
    borrow_paused,
    cash,              \* the lenders' money that is not lent out
    account,           \* [Wallets -> lender and position of the wallet]
    underwater,        \* wallets whose position prices have put under its line
    leaving,           \* wallets that have decided to leave the protocol
    proposal           \* history: who proposed whom last

vars == <<config, access, market_paused, collateral_paused, borrow_paused, cash, account,
          underwater, leaving, proposal>>
roleVars == <<config, proposal>>
gateVars == <<access, market_paused, collateral_paused, borrow_paused>>
userVars == <<cash, account, leaving>>

Config == [admin: Signers, pending_admin: Signers \cup {None}, role: [Roles -> Signers]]
AccessAccount == [created: BOOLEAN, whitelisted: BOOLEAN, blacklisted: BOOLEAN]
Account == [open: BOOLEAN, collateral: Nat, debt: Nat, liquidity: Nat]

NoAccess == [created |-> FALSE, whitelisted |-> FALSE, blacklisted |-> FALSE]
NoAccount == [open |-> FALSE, collateral |-> 0, debt |-> 0, liquidity |-> 0]

\* Access::require_active, on an account that must exist.
Active(w) ==
    /\ access[w].created
    /\ ~access[w].blacklisted
    /\ access[w].whitelisted

-----------------------------------------------------------------------------
(* Roles *)

\* Mutant: a standing proposal is kept.
KeptProposal(new) == IF config.pending_admin = None THEN new ELSE config.pending_admin

\* A new proposal replaces the standing one.
Proposed(new) == new

ProposeAdmin(s, new) ==
    /\ s = config.admin
    /\ config' = [config EXCEPT !.pending_admin = Proposed(new)]
    /\ proposal' = [by |-> s, to |-> new]
    /\ UNCHANGED <<gateVars, userVars, underwater>>

AcceptAdmin(s) ==
    /\ s = config.pending_admin
    /\ config' = [config EXCEPT !.admin = s, !.pending_admin = None]
    /\ UNCHANGED <<gateVars, userVars, underwater, proposal>>

SetRole(s, role, new) ==
    /\ s = config.admin
    /\ config' = [config EXCEPT !.role[role] = new]
    /\ UNCHANGED <<gateVars, userVars, underwater, proposal>>

-----------------------------------------------------------------------------
(* Access accounts *)

Whitelist(s, w) ==
    /\ s \in {config.role["Whitelister"], config.admin}
    /\ ~access[w].blacklisted
    /\ access' = [access EXCEPT ![w].created = TRUE, ![w].whitelisted = TRUE]
    /\ UNCHANGED <<roleVars, market_paused, collateral_paused, borrow_paused, userVars,
                   underwater>>

Barred(entry) == [entry EXCEPT !.created = TRUE, !.whitelisted = FALSE, !.blacklisted = TRUE]

Blacklist(s, w) ==
    /\ s = config.admin
    /\ access' = [access EXCEPT ![w] = Barred(@)]
    /\ UNCHANGED <<roleVars, market_paused, collateral_paused, borrow_paused, userVars,
                   underwater>>

Unblacklist(s, w) ==
    /\ s = config.admin
    /\ access[w].created
    /\ access' = [access EXCEPT ![w].blacklisted = FALSE]
    /\ UNCHANGED <<roleVars, market_paused, collateral_paused, borrow_paused, userVars,
                   underwater>>

-----------------------------------------------------------------------------
(* Pauses *)

\* The guardian or the admin may pause, only the admin may unpause.
MayPause(s, paused) == s = config.admin \/ (paused /\ s = config.role["Guardian"])

SetMarketPaused(s, paused) ==
    /\ MayPause(s, paused)
    /\ market_paused' = paused
    /\ UNCHANGED <<roleVars, access, collateral_paused, borrow_paused, userVars, underwater>>

SetCollateralPaused(s, paused) ==
    /\ MayPause(s, paused)
    /\ collateral_paused' = paused
    /\ UNCHANGED <<roleVars, access, market_paused, borrow_paused, userVars, underwater>>

SetCollateralBorrowPaused(s, paused) ==
    /\ MayPause(s, paused)
    /\ borrow_paused' = paused
    /\ UNCHANGED <<roleVars, access, market_paused, collateral_paused, userVars, underwater>>

-----------------------------------------------------------------------------
(* Users *)

\* Health::is_healthy after the step: without debt nothing is asked.
Healthy(w, collateral, debt) ==
    debt = 0 \/ (~borrow_paused /\ w \notin underwater /\ debt <= collateral)

\* Mutant: an exit that a pause closes.
ExitWhileOpen(w) == Active(w) /\ ~collateral_paused

\* Mutant: whoever is not barred.
NotBarred(w) == ~access[w].blacklisted

\* No pause stands before an exit.
MayExit(w) == Active(w)

OpenPosition(w) ==
    /\ Active(w) /\ w \notin leaving
    /\ ~account[w].open
    /\ account' = [account EXCEPT ![w].open = TRUE]
    /\ UNCHANGED <<roleVars, gateVars, cash, underwater, leaving>>

ClosePosition(w) ==
    /\ MayExit(w)
    /\ account[w].open /\ account[w].collateral = 0 /\ account[w].debt = 0
    /\ account' = [account EXCEPT ![w].open = FALSE]
    /\ UNCHANGED <<roleVars, gateVars, cash, underwater, leaving>>

DepositCollateral(w, amount) ==
    /\ Active(w) /\ w \notin leaving
    /\ ~collateral_paused
    /\ account[w].open /\ account[w].collateral + amount <= MaxUnits
    /\ account' = [account EXCEPT ![w].collateral = @ + amount]
    /\ UNCHANGED <<roleVars, gateVars, cash, underwater, leaving>>

WithdrawCollateral(w, amount) ==
    /\ MayExit(w)
    /\ account[w].open /\ amount <= account[w].collateral
    /\ Healthy(w, account[w].collateral - amount, account[w].debt)
    /\ account' = [account EXCEPT ![w].collateral = @ - amount]
    /\ UNCHANGED <<roleVars, gateVars, cash, underwater, leaving>>

TakeLoan(w, amount) ==
    /\ Active(w) /\ w \notin leaving
    /\ ~market_paused
    /\ account[w].open /\ amount <= cash
    /\ Healthy(w, account[w].collateral, account[w].debt + amount)
    /\ account' = [account EXCEPT ![w].debt = @ + amount]
    /\ cash' = cash - amount
    /\ UNCHANGED <<roleVars, gateVars, underwater, leaving>>

\* The gate is the payer's: anyone active may repay for anyone.
RepayLoan(payer, w, amount) ==
    /\ Active(payer)
    /\ amount <= account[w].debt
    /\ account' = [account EXCEPT ![w].debt = @ - amount]
    /\ cash' = cash + amount
    /\ UNCHANGED <<roleVars, gateVars, underwater, leaving>>

DepositLiquidity(w, amount) ==
    /\ Active(w) /\ w \notin leaving
    /\ ~market_paused
    /\ account[w].liquidity + amount <= MaxUnits
    /\ account' = [account EXCEPT ![w].liquidity = @ + amount]
    /\ cash' = cash + amount
    /\ UNCHANGED <<roleVars, gateVars, underwater, leaving>>

WithdrawLiquidity(w, amount) ==
    /\ MayExit(w)
    /\ amount <= account[w].liquidity /\ amount <= cash
    /\ account' = [account EXCEPT ![w].liquidity = @ - amount]
    /\ cash' = cash - amount
    /\ UNCHANGED <<roleVars, gateVars, underwater, leaving>>

\* Mutant: the borrower's access is asked for.
OnlyOfActive(w) == Active(w) /\ w \in underwater

\* Nobody's access is asked for: the liquidator may be anyone, the borrower barred.
Liquidatable(w) == w \in underwater

Liquidate(w, amount) ==
    /\ Liquidatable(w)
    /\ amount <= account[w].debt /\ amount <= account[w].collateral
    /\ account' = [account EXCEPT ![w].debt = @ - amount, ![w].collateral = @ - amount]
    /\ cash' = cash + amount
    /\ UNCHANGED <<roleVars, gateVars, underwater, leaving>>

-----------------------------------------------------------------------------
(* Outside the program *)

\* Prices move a position under its line or back above it.
PricesMove(w) ==
    /\ \/ w \notin underwater /\ account[w].debt > 0 /\ underwater' = underwater \cup {w}
       \/ w \in underwater /\ underwater' = underwater \ {w}
    /\ UNCHANGED <<roleVars, gateVars, userVars>>

\* A wallet decides to leave: it only repays, withdraws and closes from here on.
Leave(w) ==
    /\ w \notin leaving
    /\ leaving' = leaving \cup {w}
    /\ UNCHANGED <<roleVars, gateVars, cash, account, underwater>>

Init ==
    /\ config \in InitialConfigs
    /\ access = [w \in Wallets |-> NoAccess]
    /\ market_paused = FALSE /\ collateral_paused = FALSE /\ borrow_paused = FALSE
    /\ cash = 0
    /\ account = [w \in Wallets |-> NoAccount]
    /\ underwater = {} /\ leaving = {}
    /\ proposal = [by |-> None, to |-> None]

RoleStep(s) ==
    \/ AcceptAdmin(s)
    \/ \E new \in Nominees : ProposeAdmin(s, new)
    \/ \E role \in RoleInputs, new \in Nominees : SetRole(s, role, new)

AccessStep(s) == \E w \in Wallets : Whitelist(s, w) \/ Blacklist(s, w) \/ Unblacklist(s, w)

PauseStep(s) ==
    \E paused \in PauseInputs :
        \/ SetMarketPaused(s, paused)
        \/ SetCollateralPaused(s, paused)
        \/ SetCollateralBorrowPaused(s, paused)

EntryStep(w) ==
    \/ w \in Borrowers /\ OpenPosition(w)
    \/ \E amount \in Amounts :
          \/ DepositCollateral(w, amount)
          \/ TakeLoan(w, amount)
          \/ w \in Lenders /\ DepositLiquidity(w, amount)

\* What a wallet can do by itself to get its own out.
ExitStep(w) ==
    \/ ClosePosition(w)
    \/ \E amount \in Amounts :
          \/ WithdrawCollateral(w, amount)
          \/ RepayLoan(w, w, amount)
          \/ WithdrawLiquidity(w, amount)

RepayForOthers(w) == \E other \in Wallets \ {w}, amount \in Amounts : RepayLoan(w, other, amount)

LiquidateStep(w) == \E amount \in Amounts : Liquidate(w, amount)

Next ==
    \/ \E s \in Signers : RoleStep(s) \/ AccessStep(s) \/ PauseStep(s)
    \/ \E w \in Wallets :
          \/ EntryStep(w) \/ ExitStep(w) \/ RepayForOthers(w) \/ LiquidateStep(w)
          \/ PricesMove(w) \/ Leave(w)

Spec == Init /\ [][Next]_vars

\* A wallet that leaves goes on until it is out; somebody liquidates what can be.
\* Nothing is assumed of the admin, of the guardian or of wallets that stay.
Fairness ==
    \A w \in Wallets :
        /\ WF_vars(w \in leaving /\ ExitStep(w))
        /\ WF_vars(LiquidateStep(w))

FairSpec == Spec /\ Fairness

-----------------------------------------------------------------------------
(* Properties *)

\* Every account has its type; who is barred is not admitted, and an account that was
\* never created carries no mark.
TypeOK ==
    /\ config \in Config
    /\ access \in [Wallets -> AccessAccount]
    /\ \A w \in Wallets : access[w].blacklisted => ~access[w].whitelisted
    /\ \A w \in Wallets : ~access[w].created => access[w] = NoAccess
    /\ {market_paused, collateral_paused, borrow_paused} \subseteq BOOLEAN
    /\ cash \in Nat
    /\ account \in [Wallets -> Account]
    /\ underwater \in SUBSET Wallets /\ leaving \in SUBSET Wallets
    /\ proposal \in [by: Signers \cup {None}, to: Signers \cup {None}]

\* The admin changes only to the wallet that the admin in office named last: replacing a
\* proposal withdraws it, and nobody takes office on the word of a former admin.
AdminCameByProposal ==
    [][config'.admin # config.admin =>
          proposal = [by |-> config.admin, to |-> config'.admin]]_vars

\* A barred wallet is never active again by one step: lifting the bar does not admit it,
\* and the whitelister, who admits, cannot lift the bar (access_control.rs:49, :74).
NeverBarredToActive == [][\A w \in Wallets : access[w].blacklisted => ~Active(w)']_vars

\* Of a wallet that is not active nothing moves but its debt, down, and the collateral a
\* liquidator takes for it; its liquidity and its position stay where they are.
InactiveWalletsStandStill ==
    [][\A w \in Wallets : ~Active(w) =>
          /\ account'[w].open = account[w].open
          /\ account'[w].liquidity = account[w].liquidity
          /\ account'[w].debt <= account[w].debt
          /\ account[w].collateral - account'[w].collateral \in
                {0, account[w].debt - account'[w].debt}]_vars

\* A borrower who wants to leave gets out whatever is paused and whatever prices do,
\* unless the admin bars it on the way; a lender, unless the money is lent out.
LeavingWalletGetsOut ==
    \A w \in Wallets :
        /\ w \in leaving ~> ~account[w].open \/ ~Active(w)
        /\ w \in leaving ~>
              \/ account[w].liquidity = 0
              \/ ~Active(w)
              \/ \E b \in Wallets : account[b].debt > 0

\* Debt under water does not stay: neither a pause nor a bar on its borrower keeps the
\* liquidators from it.
UnderwaterIsLiquidated ==
    \A w \in Wallets :
        (w \in underwater /\ account[w].debt > 0) ~> (account[w].debt = 0 \/ w \notin underwater)
=============================================================================
