------------------------------ MODULE Clients ------------------------------
(***************************************************************************)
(* The set-up tools: scripts that read the chain, decide, send one         *)
(* transaction per step and wait for it, and that a person runs again      *)
(* after a failure.  A read may be lost, which the scripts take for an     *)
(* absent account or an empty balance; a run may stop anywhere, and the    *)
(* transaction it was waiting for may still land, or expire.               *)
(*                                                                         *)
(* A step is a record:                                                     *)
(*   asks   what it reads: that an account exists, an amount, or nothing   *)
(*   makes  the account its transaction creates, and init, whether the     *)
(*          transaction is refused when the account exists                 *)
(*   fills, draws  the balances it adds to and takes from                  *)
(*   whole  whether it sends Target, or what is missing to Target          *)
(*   needs  the accounts the program asks of its transaction               *)
(***************************************************************************)
EXTENDS Naturals, Sequences, FiniteSets

CONSTANTS
    Scripts,       \* the scripts that are run in the instance, one at a time
    Target,        \* units: what every amount of a script is counted in
    InitialWallet, \* what the token account may hold before the first run
    MaxFaults,     \* bound: lost reads and runs that were given up
    MaxRefusals,   \* bound: borrows refused for a price
    MaxReruns      \* bound: runs after a complete one

Programs == {"setup", "borrower_setup", "prestocks_loan"}
Accounts == {"config", "market", "promo_vault", "collateral", "access", "lender", "wsol", "position"}
Balances == {"lamports", "wallet", "liquidity", "collateral", "debt"}

ASSUME ClientsConstants ==
    /\ Scripts \subseteq Programs
    /\ Target \in Nat \ {0}
    /\ InitialWallet \subseteq Nat
    /\ MaxFaults \in Nat /\ MaxRefusals \in Nat /\ MaxReruns \in Nat

VARIABLES
    program,       \* the script that is run
    chain,         \* [exists: accounts, amount: balances]
    client,        \* [step, phase, amount] of the run; step 0 is no run
    flights,       \* transactions of abandoned runs that may still land
    faults, refusals, reruns  \* history: what the bounds count

vars == <<program, chain, client, flights, faults, refusals, reruns>>

IfAbsent(account, needs) ==
    [asks |-> "exists", makes |-> account, init |-> TRUE, fills |-> "-", draws |-> "-",
     whole |-> TRUE, needs |-> needs]

TopUp(balance, draws, needs) ==
    [asks |-> "amount", makes |-> "-", init |-> FALSE, fills |-> balance, draws |-> draws,
     whole |-> FALSE, needs |-> needs]

Always(balance, draws, needs) == [TopUp(balance, draws, needs) EXCEPT !.asks = "nothing"]

\* deposit_liquidity creates the lender account with init_if_needed, and the
\* script asks for that account and not for what the lender holds.
SeedLiquidity ==
    [IfAbsent("lender", {"market", "access"}) EXCEPT !.init = FALSE, !.fills = "liquidity"]

\* Mutant: the look-up asks for nothing and the deposit is sent on every run.
SetupStepsSeedAlways ==
    << IfAbsent("config", {}), IfAbsent("market", {"config"}), IfAbsent("promo_vault", {"market"}),
       IfAbsent("collateral", {"config"}), IfAbsent("access", {"config"}),
       Always("liquidity", "-", {"market", "access"}), IfAbsent("wsol", {"config"}) >>

SetupSteps ==
    << IfAbsent("config", {}), IfAbsent("market", {"config"}), IfAbsent("promo_vault", {"market"}),
       IfAbsent("collateral", {"config"}), IfAbsent("access", {"config"}), SeedLiquidity,
       IfAbsent("wsol", {"config"}) >>

BorrowerSteps ==
    << TopUp("wallet", "-", {}), IfAbsent("position", {"access"}),
       Always("collateral", "wallet", {"position", "wsol", "access"}) >>

\* Mutant: the position is not looked at before the deposit.
PrestocksStepsDepositAlways ==
    << TopUp("lamports", "-", {}), IfAbsent("access", {"config"}),
       [TopUp("wallet", "-", {}) EXCEPT !.whole = TRUE], IfAbsent("position", {"access"}),
       Always("collateral", "wallet", {"position", "collateral", "access"}),
       Always("debt", "-", {"position", "market", "promo_vault", "access"}) >>

\* The shares are minted whole when the wallet holds less than the target.
PrestocksSteps ==
    << TopUp("lamports", "-", {}), IfAbsent("access", {"config"}),
       [TopUp("wallet", "-", {}) EXCEPT !.whole = TRUE], IfAbsent("position", {"access"}),
       TopUp("collateral", "wallet", {"position", "collateral", "access"}),
       Always("debt", "-", {"position", "market", "promo_vault", "access"}) >>

Steps == CASE program = "setup"          -> SetupSteps
           [] program = "borrower_setup" -> BorrowerSteps
           [] program = "prestocks_loan" -> PrestocksSteps

End == Len(Steps) + 1
Running == client.step \in 1..Len(Steps)
Step == Steps[client.step]
Idle == [step |-> 0, phase |-> "read", amount |-> 0]
At(i) == [Idle EXCEPT !.step = i]

-----------------------------------------------------------------------------
(* What a step reads, and what it makes of it.                             *)

\* The chain's answer; an account that exists is answered with 1.
Answer(s) ==
    CASE s.asks = "exists"  -> IF s.makes \in chain.exists THEN 1 ELSE 0
      [] s.asks = "amount"  -> chain.amount[s.fills]
      [] s.asks = "nothing" -> 0

\* An RPC error counts as an absent account or an empty balance; the look-up
\* of the borrower's lamports ends the run instead.
Told(s) ==
    {Answer(s)} \cup (IF faults < MaxFaults /\ s.fills # "lamports" THEN {0} ELSE {})

\* Mutant: the look-up is made and its answer is not used.
NeverSatisfied(s, told) == FALSE

Satisfied(s, told) ==
    CASE s.asks = "exists"  -> told = 1
      [] s.asks = "amount"  -> told >= Target
      [] s.asks = "nothing" -> FALSE

Sent(s, told) == IF s.whole \/ s.asks = "nothing" THEN Target ELSE Target - told

-----------------------------------------------------------------------------
(* What the program does with the transaction.                             *)

Accepted(s, amount) ==
    /\ s.needs \subseteq chain.exists
    /\ s.init => s.makes \notin chain.exists
    /\ s.draws # "-" => chain.amount[s.draws] >= amount
    /\ s.fills = "debt" => chain.amount["collateral"] > 0

Apply(s, amount) ==
    chain' = [exists |-> chain.exists \cup ({s.makes} \ {"-"}),
              amount |-> [b \in Balances |->
                  chain.amount[b] + (IF b = s.fills THEN amount ELSE 0)
                                  - (IF b = s.draws THEN amount ELSE 0)]]

-----------------------------------------------------------------------------

Found ==
    CASE program = "setup"          -> {}
      [] program = "borrower_setup" -> Accounts \ {"position"}
      [] program = "prestocks_loan" -> Accounts \ {"position", "access"}

Init ==
    /\ program \in Scripts
    /\ \E held \in InitialWallet :
           chain = [exists |-> Found,
                    amount |-> [b \in Balances |-> IF b = "wallet" THEN held ELSE 0]]
    /\ client = Idle
    /\ flights = {}
    /\ faults = 0 /\ refusals = 0 /\ reruns = 0

\* A person starts the script, again after it failed or after it was done.
Run ==
    /\ \/ client.step = 0 /\ UNCHANGED reruns
       \/ client.step = End /\ reruns < MaxReruns /\ reruns' = reruns + 1
    /\ client' = At(1)
    /\ UNCHANGED <<program, chain, flights, faults, refusals>>

\* The script reads, and skips the step or builds its transaction.
Look ==
    /\ Running /\ client.phase = "read"
    /\ \E told \in Told(Step) :
           /\ client' = IF Satisfied(Step, told) THEN At(client.step + 1)
                        ELSE [client EXCEPT !.phase = "confirm", !.amount = Sent(Step, told)]
           /\ faults' = faults + (IF told = Answer(Step) THEN 0 ELSE 1)
    /\ UNCHANGED <<program, chain, flights, refusals, reruns>>

\* send_and_confirm_transaction returns: the transaction landed, or the
\* program refused it and the run ends with its error.
Confirm ==
    /\ Running /\ client.phase = "confirm"
    /\ \/ /\ Accepted(Step, client.amount)
          /\ Apply(Step, client.amount)
          /\ client' = At(client.step + 1)
          /\ UNCHANGED refusals
       \/ /\ ~Accepted(Step, client.amount)
          /\ client' = Idle
          /\ UNCHANGED <<chain, refusals>>
       \/ \* the borrow is refused for a price
          /\ Step.fills = "debt" /\ refusals < MaxRefusals
          /\ client' = Idle
          /\ refusals' = refusals + 1
          /\ UNCHANGED chain
    /\ UNCHANGED <<program, flights, faults, reruns>>

\* The run ends on an RPC error, or is stopped; a transaction that was sent
\* stays in flight.
GiveUp ==
    /\ Running /\ faults < MaxFaults
    /\ faults' = faults + 1
    /\ client' = Idle
    /\ \/ UNCHANGED flights
       \/ /\ client.phase = "confirm"
          /\ flights' = flights \cup
                 {[id |-> faults, step |-> client.step, amount |-> client.amount]}
    /\ UNCHANGED <<program, chain, refusals, reruns>>

\* An abandoned transaction lands, is refused, or its blockhash expires.
FlightEnds ==
    \E f \in flights :
        /\ flights' = flights \ {f}
        /\ \/ Accepted(Steps[f.step], f.amount) /\ Apply(Steps[f.step], f.amount)
           \/ UNCHANGED chain
        /\ UNCHANGED <<program, client, faults, refusals, reruns>>

Next == Run \/ Look \/ Confirm \/ GiveUp \/ FlightEnds

Spec == Init /\ [][Next]_vars

\* The script goes on by itself, and the person runs it until it is done.
Fairness == WF_vars(client.step = 0 /\ Run) /\ WF_vars(Look) /\ WF_vars(Confirm)
FairSpec == Spec /\ Fairness

-----------------------------------------------------------------------------
(* Properties.                                                             *)

\* Run after run, a script gets to its end: no step of an earlier run, and no
\* transaction of one that lands late, leaves the chain in a state the next
\* run trips over (main.rs:8, "safe to re-run").
RunsComplete == []<>(client.step = End)

\* What the script brings in is brought in once, plus at most once for every
\* read that was lost and every run that was given up: the skip of a step
\* that is done is all that keeps a re-run from repeating it.  A complete run
\* of borrower_setup has no such skip and deposits again.
NoExcessWithoutFault ==
    LET filled == IF program = "setup" THEN "liquidity" ELSE "collateral"
        again  == IF program = "borrower_setup" THEN reruns ELSE 0
    IN  chain.amount[filled] <= Target * (1 + faults + again)

=============================================================================
