---------------------------- MODULE AccessProofs ----------------------------
(***************************************************************************)
(* Proofs about Access: the accounts keep their types, the admin role goes *)
(* only to the wallet the admin in office named last, no step admits a     *)
(* barred wallet, and what an inactive wallet owns stands still.           *)
(***************************************************************************)
EXTENDS Access, TLAPS

\* A standing proposal is the last one that was made, and its author is still in office:
\* both steps that could part them, a handover and a new proposal, settle it.
StandingProposal ==
    config.pending_admin # None =>
        proposal = [by |-> config.admin, to |-> config.pending_admin]

-----------------------------------------------------------------------------
(* Types *)

\* The configuration keeps its type through every role step.
LEMMA RoleStepTypes ==
  ASSUME TypeOK, NEW s \in Signers, RoleStep(s)
  PROVE  TypeOK'
<1>1. /\ config \in Config /\ None \notin Signers /\ Nominees \subseteq Signers
      /\ RoleInputs \subseteq Roles
  BY AccessConstants DEF TypeOK
<1>2. CASE AcceptAdmin(s)
  BY <1>1, <1>2 DEF TypeOK, AcceptAdmin, Config, gateVars, userVars
<1>3. CASE \E new \in Nominees : ProposeAdmin(s, new)
  BY <1>1, <1>3 DEF TypeOK, ProposeAdmin, Proposed, Config, gateVars, userVars
<1>4. CASE \E role \in RoleInputs, new \in Nominees : SetRole(s, role, new)
  <2>1. PICK role \in RoleInputs, new \in Nominees : SetRole(s, role, new)
    BY <1>4
  <2>2. config' = [config EXCEPT !.role = [config.role EXCEPT ![role] = new]]
    BY <1>1, <2>1 DEF SetRole, Config
  <2>3. [config.role EXCEPT ![role] = new] \in [Roles -> Signers]
    BY <1>1, <2>1 DEF Config
  <2>4. config' \in Config
    BY <1>1, <2>2, <2>3 DEF Config
  <2> QED  BY <2>1, <2>4 DEF TypeOK, SetRole, gateVars, userVars
<1> QED  BY <1>2, <1>3, <1>4 DEF RoleStep

\* An access account keeps its type, and nobody is both admitted and barred.
LEMMA AccessStepTypes ==
  ASSUME TypeOK, NEW s \in Signers, AccessStep(s)
  PROVE  TypeOK'
<1>1. PICK w \in Wallets : Whitelist(s, w) \/ Blacklist(s, w) \/ Unblacklist(s, w)
  BY DEF AccessStep
<1>2. CASE Whitelist(s, w)
  BY <1>2 DEF TypeOK, Whitelist, AccessAccount, NoAccess, roleVars, userVars
<1>3. CASE Blacklist(s, w)
  BY <1>3 DEF TypeOK, Blacklist, Barred, AccessAccount, NoAccess, roleVars, userVars
<1>4. CASE Unblacklist(s, w)
  BY <1>4 DEF TypeOK, Unblacklist, AccessAccount, NoAccess, roleVars, userVars
<1> QED  BY <1>1, <1>2, <1>3, <1>4

\* A pause changes one switch.
LEMMA PauseStepTypes ==
  ASSUME TypeOK, NEW s \in Signers, PauseStep(s)
  PROVE  TypeOK'
<1>1. PICK paused \in PauseInputs :
        \/ SetMarketPaused(s, paused)
        \/ SetCollateralPaused(s, paused)
        \/ SetCollateralBorrowPaused(s, paused)
  BY DEF PauseStep
<1>2. paused \in BOOLEAN
  BY AccessConstants
<1> QED  BY <1>1, <1>2 DEF TypeOK, SetMarketPaused, SetCollateralPaused,
                          SetCollateralBorrowPaused, roleVars, userVars

\* A step of a user or of a liquidator moves cash and accounts alone, each of them down
\* to zero at most.
LEMMA UserStepTypes ==
  ASSUME TypeOK, NEW w \in Wallets,
         EntryStep(w) \/ ExitStep(w) \/ RepayForOthers(w) \/ LiquidateStep(w)
  PROVE  /\ cash' \in Nat
         /\ account' \in [Wallets -> Account]
         /\ UNCHANGED <<roleVars, gateVars, underwater, leaving>>
<1>1. /\ cash \in Nat /\ account \in [Wallets -> Account]
      /\ Amounts \subseteq Nat
      /\ \A u \in Wallets : /\ account[u].open \in BOOLEAN /\ account[u].collateral \in Nat
                            /\ account[u].debt \in Nat /\ account[u].liquidity \in Nat
  BY AccessConstants DEF TypeOK, Account
<1>2. CASE OpenPosition(w) \/ ClosePosition(w)
  BY <1>1, <1>2 DEF OpenPosition, ClosePosition, Account
<1>3. CASE \E amount \in Amounts : DepositCollateral(w, amount) \/ WithdrawCollateral(w, amount)
  BY <1>1, <1>3 DEF DepositCollateral, WithdrawCollateral, Account
<1>4. CASE \E amount \in Amounts : TakeLoan(w, amount)
  BY <1>1, <1>4 DEF TakeLoan, Account
<1>5. CASE \E amount \in Amounts : DepositLiquidity(w, amount) \/ WithdrawLiquidity(w, amount)
  BY <1>1, <1>5 DEF DepositLiquidity, WithdrawLiquidity, Account
<1>6. ASSUME NEW u \in Wallets, NEW amount \in Amounts, RepayLoan(w, u, amount)
      PROVE  /\ cash' \in Nat
             /\ account' \in [Wallets -> Account]
             /\ UNCHANGED <<roleVars, gateVars, underwater, leaving>>
  BY <1>1, <1>6 DEF RepayLoan, Account
<1>7. CASE \E amount \in Amounts : Liquidate(w, amount)
  <2>1. PICK amount \in Amounts : Liquidate(w, amount)
    BY <1>7
  <2>2. account' = [account EXCEPT ![w] = [account[w] EXCEPT
                        !.debt = account[w].debt - amount,
                        !.collateral = account[w].collateral - amount]]
    BY <1>1, <2>1 DEF Liquidate, Account
  <2> QED  BY <1>1, <2>1, <2>2 DEF Liquidate, Account
<1> QED  BY <1>2, <1>3, <1>4, <1>5, <1>6, <1>7
         DEF EntryStep, ExitStep, RepayForOthers, LiquidateStep

\* Every step keeps the types.
LEMMA NextTypes == TypeOK /\ [Next]_vars => TypeOK'
<1> SUFFICES ASSUME TypeOK, [Next]_vars PROVE TypeOK'
  OBVIOUS
<1>1. ASSUME NEW s \in Signers, RoleStep(s) \/ AccessStep(s) \/ PauseStep(s)
      PROVE  TypeOK'
  BY <1>1, RoleStepTypes, AccessStepTypes, PauseStepTypes
<1>2. ASSUME NEW w \in Wallets,
             EntryStep(w) \/ ExitStep(w) \/ RepayForOthers(w) \/ LiquidateStep(w)
      PROVE  TypeOK'
  BY <1>2, UserStepTypes DEF TypeOK, roleVars, gateVars
<1>3. ASSUME NEW w \in Wallets, PricesMove(w) \/ Leave(w)
      PROVE  TypeOK'
  BY <1>3 DEF TypeOK, PricesMove, Leave, roleVars, gateVars, userVars
<1>4. CASE UNCHANGED vars
  BY <1>4 DEF TypeOK, vars
<1> QED  BY <1>1, <1>2, <1>3, <1>4 DEF Next

\* Every account keeps its type, and bars and admissions exclude each other
\* (access_control.rs, roles.rs, admin_transfer.rs).
THEOREM TypesStayCorrect == Spec => []TypeOK
<1>1. Init => TypeOK
  <2> SUFFICES ASSUME Init PROVE TypeOK
    OBVIOUS
  <2>1. config \in Config
    BY AccessConstants DEF Init, Config
  <2>2. /\ access \in [Wallets -> AccessAccount] /\ account \in [Wallets -> Account]
        /\ \A w \in Wallets : access[w] = NoAccess
    BY DEF Init, AccessAccount, NoAccess, Account, NoAccount
  <2> QED  BY <2>1, <2>2 DEF Init, TypeOK, NoAccess
<1> QED  BY <1>1, NextTypes, PTL DEF Spec

-----------------------------------------------------------------------------
(* The admin role *)

\* Steps of anything but a role leave the proposal and the configuration alone.
LEMMA OnlyRoleStepsMoveRoles ==
  ASSUME TypeOK, [Next]_vars, ~ \E s \in Signers : RoleStep(s)
  PROVE  UNCHANGED <<config, proposal>>
<1>1. ASSUME NEW s \in Signers, AccessStep(s) \/ PauseStep(s)
      PROVE  UNCHANGED <<config, proposal>>
  BY <1>1 DEF AccessStep, PauseStep, Whitelist, Blacklist, Unblacklist, SetMarketPaused,
              SetCollateralPaused, SetCollateralBorrowPaused, roleVars
<1>2. ASSUME NEW w \in Wallets,
             EntryStep(w) \/ ExitStep(w) \/ RepayForOthers(w) \/ LiquidateStep(w)
      PROVE  UNCHANGED <<config, proposal>>
  BY <1>2, UserStepTypes DEF roleVars
<1>3. ASSUME NEW w \in Wallets, PricesMove(w) \/ Leave(w)
      PROVE  UNCHANGED <<config, proposal>>
  BY <1>3 DEF PricesMove, Leave, roleVars
<1>4. CASE UNCHANGED vars
  BY <1>4 DEF vars
<1> QED  BY <1>1, <1>2, <1>3, <1>4 DEF Next

\* A standing proposal stays the last word of the admin in office, and a change of admin
\* acts on it.
LEMMA RoleStepsFollowProposals ==
  ASSUME TypeOK, StandingProposal, NEW s \in Signers, RoleStep(s)
  PROVE  /\ StandingProposal'
         /\ config'.admin # config.admin =>
               proposal = [by |-> config.admin, to |-> config'.admin]
<1>1. config \in Config /\ s # None
  BY AccessConstants DEF TypeOK
<1>2. CASE AcceptAdmin(s)
  <2>1. config'.admin = s /\ config'.pending_admin = None /\ config.pending_admin = s
    BY <1>1, <1>2 DEF AcceptAdmin, Config
  <2> QED  BY <1>1, <2>1 DEF StandingProposal
<1>3. CASE \E new \in Nominees : ProposeAdmin(s, new)
  <2>1. PICK new \in Nominees : ProposeAdmin(s, new)
    BY <1>3
  <2>2. /\ config'.admin = config.admin /\ config.admin = s
        /\ config'.pending_admin = new /\ proposal' = [by |-> s, to |-> new]
    BY <1>1, <2>1 DEF ProposeAdmin, Proposed, Config
  <2> QED  BY <2>2 DEF StandingProposal
<1>4. CASE \E role \in RoleInputs, new \in Nominees : SetRole(s, role, new)
  <2>1. /\ config'.admin = config.admin /\ config'.pending_admin = config.pending_admin
        /\ proposal' = proposal
    BY <1>1, <1>4 DEF SetRole, Config
  <2> QED  BY <2>1 DEF StandingProposal
<1> QED  BY <1>2, <1>3, <1>4 DEF RoleStep

\* The two steps of a handover belong together: a proposal that was replaced, or that a
\* former admin made, installs nobody (admin_transfer.rs:28-43).
THEOREM AdminChangesByProposal == Spec => AdminCameByProposal
<1>1. Init => StandingProposal
  BY AccessConstants DEF Init, StandingProposal
<1>2. TypeOK /\ StandingProposal /\ [Next]_vars
        => StandingProposal' /\ [config'.admin # config.admin =>
                                    proposal = [by |-> config.admin, to |-> config'.admin]]_vars
  <2> SUFFICES ASSUME TypeOK, StandingProposal, [Next]_vars
               PROVE  /\ StandingProposal'
                      /\ config'.admin # config.admin =>
                            proposal = [by |-> config.admin, to |-> config'.admin]
    OBVIOUS
  <2>1. CASE \E s \in Signers : RoleStep(s)
    BY <2>1, RoleStepsFollowProposals
  <2>2. CASE ~ \E s \in Signers : RoleStep(s)
    BY <2>2, OnlyRoleStepsMoveRoles DEF StandingProposal
  <2> QED  BY <2>1, <2>2
<1> QED  BY <1>1, <1>2, TypesStayCorrect, PTL DEF Spec, AdminCameByProposal

-----------------------------------------------------------------------------
(* Wallets *)

\* No instruction, nor any prices, admit a wallet that is barred: it takes the admin's
\* unblacklist and a whitelister's whitelist, in this order (access_control.rs:46-91).
THEOREM BarredStayOut == Spec => NeverBarredToActive
<1>1. TypeOK /\ [Next]_vars => [\A w \in Wallets : access[w].blacklisted => ~Active(w)']_vars
  <2> SUFFICES ASSUME TypeOK, [Next]_vars, NEW w \in Wallets, access[w].blacklisted
               PROVE  ~Active(w)'
    OBVIOUS
  <2>1. /\ access \in [Wallets -> AccessAccount] /\ ~access[w].whitelisted /\ ~Active(w)
    BY DEF TypeOK, Active
  <2>2. CASE UNCHANGED access
    BY <2>1, <2>2 DEF Active
  <2>3. ASSUME NEW s \in Signers, AccessStep(s)
        PROVE  ~access'[w].whitelisted
    <3>1. PICK u \in Wallets : Whitelist(s, u) \/ Blacklist(s, u) \/ Unblacklist(s, u)
      BY <2>3 DEF AccessStep
    <3> QED  BY <2>1, <3>1 DEF Whitelist, Blacklist, Barred, Unblacklist, AccessAccount
  <2>4. CASE \E s \in Signers : AccessStep(s)
    BY <2>3, <2>4 DEF Active
  <2>5. CASE ~ \E s \in Signers : AccessStep(s)
    <3>1. ASSUME NEW s \in Signers, RoleStep(s) \/ PauseStep(s)
          PROVE  UNCHANGED access
      BY <3>1 DEF RoleStep, PauseStep, AcceptAdmin, ProposeAdmin, SetRole, SetMarketPaused,
                  SetCollateralPaused, SetCollateralBorrowPaused, gateVars
    <3>2. ASSUME NEW u \in Wallets,
                 EntryStep(u) \/ ExitStep(u) \/ RepayForOthers(u) \/ LiquidateStep(u)
          PROVE  UNCHANGED access
      BY <3>2, UserStepTypes DEF gateVars
    <3>3. ASSUME NEW u \in Wallets, PricesMove(u) \/ Leave(u)
          PROVE  UNCHANGED access
      BY <3>3 DEF PricesMove, Leave, gateVars
    <3>4. CASE UNCHANGED vars
      BY <2>2, <3>4 DEF vars
    <3> QED  BY <2>2, <2>5, <3>1, <3>2, <3>3, <3>4 DEF Next
  <2> QED  BY <2>4, <2>5
<1> QED  BY <1>1, TypesStayCorrect, PTL DEF Spec, NeverBarredToActive

\* What a step may do to the account of a wallet that is not active.
StandsStill(w) ==
    /\ account'[w].open = account[w].open
    /\ account'[w].liquidity = account[w].liquidity
    /\ account'[w].debt <= account[w].debt
    /\ account[w].collateral - account'[w].collateral \in
          {0, account[w].debt - account'[w].debt}

\* Every gate of a user asks for its access; what the gates let others do to it is to pay
\* its debt, and to seize as much collateral as they pay for.
LEMMA GatesHold ==
  ASSUME TypeOK, NEW w \in Wallets, ~Active(w), NEW v \in Wallets,
         EntryStep(v) \/ ExitStep(v) \/ RepayForOthers(v) \/ LiquidateStep(v)
  PROVE  StandsStill(w)
<1>1. /\ account \in [Wallets -> Account] /\ Amounts \subseteq Nat
      /\ account[w].open \in BOOLEAN /\ account[w].collateral \in Nat
      /\ account[w].debt \in Nat /\ account[w].liquidity \in Nat
  BY AccessConstants DEF TypeOK, Account
<1>2. ASSUME account'[w] = account[w]
      PROVE  StandsStill(w)
  BY <1>1, <1>2 DEF StandsStill
<1>3. CASE v # w /\ (EntryStep(v) \/ ExitStep(v))
  <2>1. account'[w] = account[w]
    BY <1>1, <1>3 DEF EntryStep, ExitStep, OpenPosition, ClosePosition, DepositCollateral,
                      WithdrawCollateral, TakeLoan, RepayLoan, DepositLiquidity,
                      WithdrawLiquidity
  <2> QED  BY <1>2, <2>1
<1>4. CASE v = w /\ (EntryStep(v) \/ ExitStep(v))
  BY <1>4 DEF EntryStep, ExitStep, OpenPosition, ClosePosition, DepositCollateral, MayExit,
              WithdrawCollateral, TakeLoan, RepayLoan, DepositLiquidity, WithdrawLiquidity
<1>5. CASE RepayForOthers(v)
  <2>1. PICK u \in Wallets, amount \in Amounts : RepayLoan(v, u, amount)
    BY <1>5 DEF RepayForOthers
  <2>2. CASE u # w
    BY <1>1, <1>2, <2>1, <2>2 DEF RepayLoan
  <2>3. CASE u = w
    <3>1. account'[w] = [account[w] EXCEPT !.debt = account[w].debt - amount]
      BY <1>1, <2>1, <2>3 DEF RepayLoan
    <3>2. /\ account'[w].open = account[w].open
          /\ account'[w].liquidity = account[w].liquidity
          /\ account'[w].collateral = account[w].collateral
          /\ account'[w].debt = account[w].debt - amount
      BY <1>1, <3>1 DEF Account
    <3> QED  BY <1>1, <3>2 DEF StandsStill
  <2> QED  BY <2>2, <2>3
<1>6. CASE LiquidateStep(v)
  <2>1. PICK amount \in Amounts : Liquidate(v, amount)
    BY <1>6 DEF LiquidateStep
  <2>2. CASE v # w
    BY <1>1, <1>2, <2>1, <2>2 DEF Liquidate
  <2>3. CASE v = w
    <3>1. account' = [account EXCEPT ![w] = [account[w] EXCEPT
                          !.debt = account[w].debt - amount,
                          !.collateral = account[w].collateral - amount]]
      BY <1>1, <2>1, <2>3 DEF Liquidate, Account
    <3>2. /\ account'[w].open = account[w].open
          /\ account'[w].liquidity = account[w].liquidity
          /\ account'[w].collateral = account[w].collateral - amount
          /\ account'[w].debt = account[w].debt - amount
      BY <1>1, <3>1 DEF Account
    <3> QED  BY <1>1, <3>2 DEF StandsStill
  <2> QED  BY <2>2, <2>3
<1> QED  BY <1>3, <1>4, <1>5, <1>6

\* A wallet that was never admitted, or is barred, loses nothing but debt and what a
\* liquidator takes for it, whoever acts (state/access.rs:28 in every handler of a user).
THEOREM InactiveStandStill == Spec => InactiveWalletsStandStill
<1>1. TypeOK /\ [Next]_vars => [\A w \in Wallets : ~Active(w) => StandsStill(w)]_vars
  <2> SUFFICES ASSUME TypeOK, Next, NEW w \in Wallets, ~Active(w)
               PROVE  StandsStill(w)
    OBVIOUS
  <2>1. account[w].collateral \in Nat /\ account[w].debt \in Nat
    BY DEF TypeOK, Account
  <2>2. ASSUME UNCHANGED account PROVE StandsStill(w)
    BY <2>1, <2>2 DEF StandsStill
  <2>3. ASSUME NEW s \in Signers, RoleStep(s) \/ AccessStep(s) \/ PauseStep(s)
        PROVE  UNCHANGED account
    BY <2>3 DEF RoleStep, AccessStep, PauseStep, AcceptAdmin, ProposeAdmin, SetRole,
                Whitelist, Blacklist, Unblacklist, SetMarketPaused, SetCollateralPaused,
                SetCollateralBorrowPaused, userVars
  <2>4. ASSUME NEW v \in Wallets, PricesMove(v) \/ Leave(v)
        PROVE  UNCHANGED account
    BY <2>4 DEF PricesMove, Leave, userVars
  <2> QED  BY <2>2, <2>3, <2>4, GatesHold DEF Next
<1> QED  BY <1>1, TypesStayCorrect, PTL DEF Spec, InactiveWalletsStandStill, StandsStill
=============================================================================
