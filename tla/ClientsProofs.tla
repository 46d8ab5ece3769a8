--------------------------- MODULE ClientsProofs ---------------------------
(***************************************************************************)
(* Proofs about Clients, for any target, any number of faults, refusals    *)
(* and re-runs, and whatever the token account holds at first:             *)
(*   ClientTypes         Spec => []Types                                   *)
(*   ExcessNeedsAFault   Spec => []NoExcessWithoutFault                    *)
(* A transaction in flight and one that is being confirmed will still pay  *)
(* its amount in, so they are counted with what was paid in already.  Each *)
(* flight was charged to the fault that abandoned it; what is being        *)
(* confirmed is paid for by the lost read that caused it, or by the first  *)
(* payment, which every script has free (Slack).                           *)
(***************************************************************************)
EXTENDS Clients, FiniteSetTheorems, TLAPS

-----------------------------------------------------------------------------
(* The scripts *)

StepRecord ==
    [asks: {"exists", "amount", "nothing"}, makes: Accounts \cup {"-"}, init: BOOLEAN,
     fills: Balances \cup {"-"}, draws: Balances \cup {"-"}, whole: BOOLEAN,
     needs: SUBSET Accounts]

\* The balance a script is there to fill.
Filled == IF program = "setup" THEN "liquidity" ELSE "collateral"

\* The three scripts each have one step that pays into it, and none that draws from it.
PayingStep == CASE program = "setup" -> 6 [] program = "borrower_setup" -> 3
                [] program = "prestocks_loan" -> 5

\* What a script is made of.
WellMade(steps, paying, filled) ==
    /\ paying \in 1..Len(steps)
    /\ \A i \in 1..Len(steps) :
          /\ steps[i] \in StepRecord
          /\ steps[i].fills = filled <=> i = paying
          /\ steps[i].draws # filled
          /\ steps[i].draws = "-" \/ steps[i].draws # steps[i].fills
          /\ steps[i].asks = "amount" => steps[i].fills \in Balances

\* main.rs: the deposit is the sixth of seven steps.
LEMMA SetupIsWellMade ==
  /\ WellMade(SetupSteps, 6, "liquidity") /\ Len(SetupSteps) = 7
  /\ SetupSteps[6] = SeedLiquidity
<1>1. Len(SetupSteps) = 7
  BY DEF SetupSteps
<1>2. \A i \in 1..7 : i = 1 \/ i = 2 \/ i = 3 \/ i = 4 \/ i = 5 \/ i = 6 \/ i = 7
  OBVIOUS
<1>3. /\ SetupSteps[1] = IfAbsent("config", {})
      /\ SetupSteps[2] = IfAbsent("market", {"config"})
      /\ SetupSteps[3] = IfAbsent("promo_vault", {"market"})
      /\ SetupSteps[4] = IfAbsent("collateral", {"config"})
      /\ SetupSteps[5] = IfAbsent("access", {"config"})
      /\ SetupSteps[6] = SeedLiquidity
      /\ SetupSteps[7] = IfAbsent("wsol", {"config"})
  BY DEF SetupSteps
<1>4. ASSUME NEW account \in Accounts, NEW needs \in SUBSET Accounts
      PROVE  LET s == IfAbsent(account, needs) IN
             s \in StepRecord /\ s.fills = "-" /\ s.draws = "-" /\ s.asks = "exists"
  BY DEF IfAbsent, StepRecord
<1>5. LET s == SeedLiquidity IN
      s \in StepRecord /\ s.fills = "liquidity" /\ s.draws = "-" /\ s.asks = "exists"
  BY DEF SeedLiquidity, IfAbsent, StepRecord, Accounts, Balances
<1>6. /\ "config" \in Accounts /\ "market" \in Accounts /\ "promo_vault" \in Accounts
      /\ "collateral" \in Accounts /\ "access" \in Accounts /\ "wsol" \in Accounts
  BY DEF Accounts
<1> QED  BY <1>1, <1>2, <1>3, <1>4, <1>5, <1>6 DEF WellMade

\* borrower_setup.rs: the deposit is the last step, and asks for nothing.
LEMMA BorrowerIsWellMade ==
  /\ WellMade(BorrowerSteps, 3, "collateral") /\ Len(BorrowerSteps) = 3
  /\ BorrowerSteps[3].asks = "nothing"
<1>1. Len(BorrowerSteps) = 3
  BY DEF BorrowerSteps
<1>2. \A i \in 1..3 : i = 1 \/ i = 2 \/ i = 3
  OBVIOUS
<1>3. /\ BorrowerSteps[1] = TopUp("wallet", "-", {})
      /\ BorrowerSteps[2] = IfAbsent("position", {"access"})
      /\ BorrowerSteps[3] = Always("collateral", "wallet", {"position", "wsol", "access"})
  BY DEF BorrowerSteps
<1>4. LET s == BorrowerSteps[1] IN
      s \in StepRecord /\ s.fills = "wallet" /\ s.draws = "-"
  BY <1>3 DEF TopUp, StepRecord, Balances
<1>5. LET s == BorrowerSteps[2] IN
      s \in StepRecord /\ s.fills = "-" /\ s.draws = "-" /\ s.asks = "exists"
  BY <1>3 DEF IfAbsent, StepRecord, Accounts
<1>6. LET s == BorrowerSteps[3] IN
      s \in StepRecord /\ s.fills = "collateral" /\ s.draws = "wallet" /\ s.asks = "nothing"
  BY <1>3 DEF Always, TopUp, StepRecord, Balances, Accounts
<1>7. "wallet" \in Balances /\ "collateral" \in Balances
  BY DEF Balances
<1> QED  BY <1>1, <1>2, <1>4, <1>5, <1>6, <1>7 DEF WellMade

\* prestocks_loan.rs: the deposit is the fifth step, a top-up.
LEMMA PrestocksIsWellMade ==
  /\ WellMade(PrestocksSteps, 5, "collateral") /\ Len(PrestocksSteps) = 6
  /\ PrestocksSteps[5].asks = "amount" /\ ~PrestocksSteps[5].whole
<1>1. Len(PrestocksSteps) = 6
  BY DEF PrestocksSteps
<1>2. \A i \in 1..6 : i = 1 \/ i = 2 \/ i = 3 \/ i = 4 \/ i = 5 \/ i = 6
  OBVIOUS
<1>3. /\ PrestocksSteps[1] = TopUp("lamports", "-", {})
      /\ PrestocksSteps[2] = IfAbsent("access", {"config"})
      /\ PrestocksSteps[3] = [TopUp("wallet", "-", {}) EXCEPT !.whole = TRUE]
      /\ PrestocksSteps[4] = IfAbsent("position", {"access"})
      /\ PrestocksSteps[5] = TopUp("collateral", "wallet", {"position", "collateral", "access"})
      /\ PrestocksSteps[6] = Always("debt", "-", {"position", "market", "promo_vault", "access"})
  BY DEF PrestocksSteps
<1>4. LET s == PrestocksSteps[1] IN
      s \in StepRecord /\ s.fills = "lamports" /\ s.draws = "-"
  BY <1>3 DEF TopUp, StepRecord, Balances
<1>5. LET s == PrestocksSteps[2] IN
      s \in StepRecord /\ s.fills = "-" /\ s.draws = "-" /\ s.asks = "exists"
  BY <1>3 DEF IfAbsent, StepRecord, Accounts
<1>6. LET s == PrestocksSteps[3] IN
      s \in StepRecord /\ s.fills = "wallet" /\ s.draws = "-"
  BY <1>3 DEF TopUp, StepRecord, Balances
<1>7. LET s == PrestocksSteps[4] IN
      s \in StepRecord /\ s.fills = "-" /\ s.draws = "-" /\ s.asks = "exists"
  BY <1>3 DEF IfAbsent, StepRecord, Accounts
<1>8. LET s == PrestocksSteps[5] IN
      s \in StepRecord /\ s.fills = "collateral" /\ s.draws = "wallet" /\ s.asks = "amount" /\ ~s.whole
  BY <1>3 DEF TopUp, StepRecord, Balances, Accounts
<1>9. LET s == PrestocksSteps[6] IN
      s \in StepRecord /\ s.fills = "debt" /\ s.draws = "-" /\ s.asks = "nothing"
  BY <1>3 DEF Always, TopUp, StepRecord, Balances, Accounts
<1>10. /\ "wallet" \in Balances /\ "collateral" \in Balances /\ "debt" \in Balances
       /\ "lamports" \in Balances
  BY DEF Balances
<1> QED  BY <1>1, <1>2, <1>4, <1>5, <1>6, <1>7, <1>8, <1>9, <1>10 DEF WellMade

\* The step that pays in, in whichever script is run.
LEMMA StepsAreWellMade ==
  ASSUME program \in Programs
  PROVE  WellMade(Steps, PayingStep, Filled) /\ Filled \in Balances
<1>1. program = "setup" \/ program = "borrower_setup" \/ program = "prestocks_loan"
  BY DEF Programs
<1>2. Filled \in Balances
  BY DEF Filled, Balances
<1>3. CASE program = "setup"
  BY <1>2, <1>3, SetupIsWellMade DEF Steps, PayingStep, Filled
<1>4. CASE program = "borrower_setup"
  BY <1>2, <1>4, BorrowerIsWellMade DEF Steps, PayingStep, Filled
<1>5. CASE program = "prestocks_loan"
  BY <1>2, <1>5, PrestocksIsWellMade DEF Steps, PayingStep, Filled
<1> QED  BY <1>1, <1>3, <1>4, <1>5

-----------------------------------------------------------------------------
(* Types *)

Flight == [id: Nat, step: Nat, amount: Nat]

Types ==
    /\ program \in Programs
    /\ chain \in [exists: SUBSET Accounts, amount: [Balances -> Nat]]
    /\ client \in [step: Nat, phase: {"read", "confirm"}, amount: 0..Target]
    /\ flights \subseteq Flight /\ IsFiniteSet(flights)
    /\ \A f \in flights : f.id < faults /\ f.step \in 1..Len(Steps) /\ f.amount <= Target
    /\ faults \in Nat /\ refusals \in Nat /\ reruns \in Nat

\* The step of the run is one of the script's.
LEMMA RunningStep ==
  ASSUME Types, Running
  PROVE  /\ client.step \in 1..Len(Steps) /\ Step \in StepRecord
         /\ Step.fills = Filled <=> client.step = PayingStep
         /\ Step.draws # Filled /\ (Step.draws = "-" \/ Step.draws # Step.fills)
         /\ Step.asks = "amount" => Step.fills \in Balances
  BY StepsAreWellMade DEF Types, WellMade, Running, Step

\* What a transaction does to the chain, and to the balance the script fills.
LEMMA TransactionsKeepTypes ==
  ASSUME Types, NEW i \in 1..Len(Steps), NEW amount \in Nat,
         Accepted(Steps[i], amount), Apply(Steps[i], amount)
  PROVE  /\ chain' \in [exists: SUBSET Accounts, amount: [Balances -> Nat]]
         /\ chain'.exists = chain.exists \cup ({Steps[i].makes} \ {"-"})
         /\ chain'.amount[Filled]
              = chain.amount[Filled] + (IF i = PayingStep THEN amount ELSE 0)
<1> DEFINE s == Steps[i]
           next(b) == chain.amount[b] + (IF b = s.fills THEN amount ELSE 0)
                                      - (IF b = s.draws THEN amount ELSE 0)
<1>1. /\ s \in StepRecord /\ (s.fills = Filled <=> i = PayingStep) /\ s.draws # Filled
      /\ s.draws = "-" \/ s.draws # s.fills
      /\ Filled \in Balances
  BY StepsAreWellMade DEF Types, WellMade
<1>2. /\ chain.exists \subseteq Accounts /\ \A b \in Balances : chain.amount[b] \in Nat
  BY DEF Types
<1>3. /\ s.makes \in Accounts \cup {"-"} /\ s.draws \in Balances \cup {"-"}
  BY <1>1 DEF StepRecord
<1>4. s.draws # "-" => chain.amount[s.draws] >= amount
  BY DEF Accepted
<1>5. chain' = [exists |-> chain.exists \cup ({s.makes} \ {"-"}),
                amount |-> [b \in Balances |-> next(b)]]
  BY DEF Apply
<1> HIDE DEF s
<1>6. \A b \in Balances : next(b) \in Nat
  <2> SUFFICES ASSUME NEW b \in Balances PROVE next(b) \in Nat
    OBVIOUS
  <2>1. "-" \notin Balances
    BY DEF Balances
  <2>2. b = s.draws => chain.amount[b] >= amount
    BY <1>4, <2>1
  <2> QED  BY <1>1, <1>2, <2>2
<1>7. next(Filled) = chain.amount[Filled] + (IF i = PayingStep THEN amount ELSE 0)
  BY <1>1, <1>2
<1> HIDE DEF next
<1> QED  BY <1>1, <1>2, <1>3, <1>5, <1>6, <1>7 DEF s

\* A script never sends more than its target.
LEMMA SentIsBounded ==
  ASSUME Types, Running, NEW told \in Told(Step), ~Satisfied(Step, told)
  PROVE  Sent(Step, told) \in 0..Target
<1> DEFINE s == Step
<1>1. /\ s \in StepRecord /\ (s.asks = "amount" => s.fills \in Balances)
      /\ \A b \in Balances : chain.amount[b] \in Nat
  BY RunningStep DEF Types
<1>2. s.asks = "exists" \/ s.asks = "amount" \/ s.asks = "nothing"
  BY <1>1 DEF StepRecord
<1>3. Target \in Nat
  BY ClientsConstants
<1>4. told = Answer(s) \/ told = 0
  BY DEF Told
<1> HIDE DEF s
<1>5. told \in Nat /\ (s.asks # "nothing" => told <= Target)
  <2>1. CASE s.asks = "exists"
    <3>1. told \in {0, 1}
      BY <1>4, <2>1 DEF Answer
    <3> QED  BY <2>1, <3>1, ClientsConstants
  <2>2. CASE s.asks = "amount"
    <3>1. told \in Nat
      BY <1>1, <1>4, <2>2 DEF Answer
    <3>2. ~(told >= Target)
      BY <2>2 DEF Satisfied, s
    <3> QED  BY <1>3, <3>1, <3>2
  <2>3. CASE s.asks = "nothing"
    BY <1>4, <2>3 DEF Answer
  <2> QED  BY <1>2, <2>1, <2>2, <2>3
<1> QED  BY <1>3, <1>5 DEF Sent, s

\* An abandoned transaction is a flight of its own: its number is new.
LEMMA FlightsAreCounted ==
  ASSUME Types
  PROVE  /\ Cardinality(flights) \in Nat
         /\ \A i, x \in Nat : LET f == [id |-> faults, step |-> i, amount |-> x] IN
               /\ IsFiniteSet(flights \cup {f})
               /\ Cardinality(flights \cup {f}) = Cardinality(flights) + 1
         /\ \A f \in flights : /\ IsFiniteSet(flights \ {f})
                               /\ Cardinality(flights \ {f}) = Cardinality(flights) - 1
<1>1. ASSUME NEW i \in Nat, NEW x \in Nat
      PROVE  [id |-> faults, step |-> i, amount |-> x] \notin flights
  BY DEF Types
<1>2. IsFiniteSet(flights)
  BY DEF Types
<1>3. Cardinality(flights) \in Nat
  BY <1>2, FS_CardinalityType
<1>4. ASSUME NEW i \in Nat, NEW x \in Nat
      PROVE  LET f == [id |-> faults, step |-> i, amount |-> x] IN
             /\ IsFiniteSet(flights \cup {f})
             /\ Cardinality(flights \cup {f}) = Cardinality(flights) + 1
  <2> DEFINE f == [id |-> faults, step |-> i, amount |-> x]
  <2>1. f \notin flights
    BY <1>1
  <2> HIDE DEF f
  <2>2. IsFiniteSet(flights \cup {f}) /\ Cardinality(flights \cup {f}) = Cardinality(flights) + 1
    BY <1>2, <2>1, FS_AddElement
  <2> QED  BY <2>2 DEF f
<1>5. ASSUME NEW f \in flights
      PROVE  IsFiniteSet(flights \ {f}) /\ Cardinality(flights \ {f}) = Cardinality(flights) - 1
  BY <1>2, FS_RemoveElement
<1> QED  BY <1>3, <1>4, <1>5

\* Before the first run everything has its type.
LEMMA InitTypes == Init => Types
<1> SUFFICES ASSUME Init PROVE Types
  OBVIOUS
<1>1. PICK held \in InitialWallet :
        chain = [exists |-> Found,
                 amount |-> [b \in Balances |-> IF b = "wallet" THEN held ELSE 0]]
  BY DEF Init
<1>2. held \in Nat /\ program \in Programs
  BY ClientsConstants DEF Init
<1>3. Found \subseteq Accounts
  BY <1>2 DEF Found, Programs
<1>4. chain \in [exists: SUBSET Accounts, amount: [Balances -> Nat]]
  BY <1>1, <1>2, <1>3
<1>5. client \in [step: Nat, phase: {"read", "confirm"}, amount: 0..Target]
  BY ClientsConstants DEF Init, Idle
<1> QED  BY <1>2, <1>4, <1>5, FS_EmptySet DEF Init, Types

\* A run at the start of a step, or no run, has nothing sent.
LEMMA Reading ==
  ASSUME NEW i \in Nat
  PROVE  /\ At(i) = [step |-> i, phase |-> "read", amount |-> 0]
         /\ At(i) \in [step: Nat, phase: {"read", "confirm"}, amount: 0..Target]
         /\ Idle = At(0)
  BY ClientsConstants DEF At, Idle

\* Every step keeps the types: the script's own, and a flight's end.
LEMMA NextTypes == Types /\ [Next]_vars => Types'
<1> SUFFICES ASSUME Types, [Next]_vars PROVE Types'
  OBVIOUS
<1> DEFINE Client == [step: Nat, phase: {"read", "confirm"}, amount: 0..Target]
<1>1. program' = program /\ Steps' = Steps
  BY DEF Next, Run, Look, Confirm, GiveUp, FlightEnds, vars, Steps
<1>2. Len(Steps) \in Nat /\ End \in Nat
  <2>1. \A s : WellMade(s, PayingStep, Filled) => PayingStep \in 1..Len(s)
    BY DEF WellMade
  <2>2. Len(Steps) \in Nat
    BY SetupIsWellMade, BorrowerIsWellMade, PrestocksIsWellMade DEF Types, Programs, Steps
  <2> QED  BY <2>2 DEF End
<1>3. CASE Run
  BY <1>1, <1>3, Reading DEF Run, Types
<1>4. CASE Look
  <2>1. client' \in Client
    <3>1. PICK told \in Told(Step) :
            client' = IF Satisfied(Step, told) THEN At(client.step + 1)
                      ELSE [client EXCEPT !.phase = "confirm", !.amount = Sent(Step, told)]
      BY <1>4 DEF Look
    <3>2. CASE Satisfied(Step, told)
      BY <3>1, <3>2, Reading DEF Types
    <3>3. CASE ~Satisfied(Step, told)
      <4>1. Sent(Step, told) \in 0..Target
        BY <1>4, <3>3, SentIsBounded DEF Look
      <4> QED  BY <3>1, <3>3, <4>1 DEF Types
    <3> QED  BY <3>2, <3>3
  <2>2. faults' \in Nat /\ faults' >= faults
    BY <1>4 DEF Look, Types
  <2>3. \A f \in flights : f.id \in Nat
    BY DEF Types, Flight
  <2> QED  BY <1>1, <1>4, <2>1, <2>2, <2>3 DEF Look, Types
<1>5. CASE Confirm
  <2>1. Running /\ client.step \in 1..Len(Steps) /\ client.amount \in Nat /\ client.step \in Nat
    BY <1>5, ClientsConstants DEF Confirm, Running, Types
  <2>2. client' \in Client
    BY <1>5, <2>1, Reading DEF Confirm
  <2>3. chain' \in [exists: SUBSET Accounts, amount: [Balances -> Nat]]
    <3>1. CASE UNCHANGED chain
      BY <3>1 DEF Types
    <3>2. CASE Accepted(Step, client.amount) /\ Apply(Step, client.amount)
      BY <2>1, <3>2, TransactionsKeepTypes DEF Step
    <3> QED  BY <1>5, <3>1, <3>2 DEF Confirm
  <2>4. refusals' \in Nat
    BY <1>5 DEF Confirm, Types
  <2> QED  BY <1>1, <1>5, <2>2, <2>3, <2>4 DEF Confirm, Types
<1>6. CASE GiveUp
  <2>1. client.step \in Nat /\ client.step \in 1..Len(Steps) /\ client.amount \in 0..Target
    BY <1>6 DEF GiveUp, Running, Types
  <2>2. client' \in Client /\ faults' = faults + 1
    BY <1>6, Reading DEF GiveUp
  <2>3. \A f \in flights : f.id \in Nat /\ f.id < faults + 1
    BY DEF Types, Flight
  <2>4. CASE UNCHANGED flights
    BY <1>1, <1>6, <2>2, <2>3, <2>4 DEF GiveUp, Types
  <2>5. CASE flights' = flights \cup
                 {[id |-> faults, step |-> client.step, amount |-> client.amount]}
    <3> DEFINE f == [id |-> faults, step |-> client.step, amount |-> client.amount]
    <3>1. client.amount \in Nat /\ client.amount <= Target /\ faults \in Nat
      BY <2>1, ClientsConstants DEF Types
    <3>2. f \in Flight /\ f.id < faults + 1 /\ f.step \in 1..Len(Steps) /\ f.amount <= Target
      BY <2>1, <3>1 DEF Flight
    <3>3. IsFiniteSet(flights \cup {f})
      BY <2>1, <3>1, FlightsAreCounted
    <3> HIDE DEF f
    <3>4. flights' = flights \cup {f}
      BY <2>5 DEF f
    <3> QED  BY <1>1, <1>6, <2>2, <2>3, <3>2, <3>3, <3>4 DEF GiveUp, Types
  <2> QED  BY <1>6, <2>4, <2>5 DEF GiveUp
<1>7. CASE FlightEnds
  <2>1. PICK f \in flights :
          /\ flights' = flights \ {f}
          /\ \/ Accepted(Steps[f.step], f.amount) /\ Apply(Steps[f.step], f.amount)
             \/ UNCHANGED chain
          /\ UNCHANGED <<program, client, faults, refusals, reruns>>
    BY <1>7 DEF FlightEnds
  <2>2. f.step \in 1..Len(Steps) /\ f.amount \in Nat
    BY DEF Types, Flight
  <2>3. chain' \in [exists: SUBSET Accounts, amount: [Balances -> Nat]]
    <3>1. CASE UNCHANGED chain
      BY <3>1 DEF Types
    <3>2. CASE Accepted(Steps[f.step], f.amount) /\ Apply(Steps[f.step], f.amount)
      BY <2>2, <3>2, TransactionsKeepTypes
    <3> QED  BY <2>1, <3>1, <3>2
  <2>4. IsFiniteSet(flights \ {f})
    BY FlightsAreCounted
  <2> QED  BY <1>1, <2>1, <2>3, <2>4 DEF Types
<1>8. CASE UNCHANGED vars
  BY <1>1, <1>8 DEF vars, Types
<1> QED  BY <1>3, <1>4, <1>5, <1>6, <1>7, <1>8 DEF Next

\* Every variable of the scripts keeps its type, and every transaction still in flight
\* is one step's, of at most the target, and numbered by a fault there was.
THEOREM ClientTypes == Spec => []Types
<1> QED  BY InitTypes, NextTypes, PTL DEF Spec

-----------------------------------------------------------------------------
(* What was brought in, and what pays for it *)

\* The run has sent the transaction that pays in, and waits for it.
Paying == Running /\ client.phase = "confirm" /\ client.step = PayingStep

\* What a top-up will add to what is there; the whole targets the other scripts send
\* are counted in Slack.
Pending == IF Paying /\ program = "prestocks_loan" THEN client.amount ELSE 0

\* The payment that needs no fault: setup's while there is no lender account, one for
\* each run of borrower_setup that got to it, and the topping up of prestocks_loan.
First ==
    CASE program = "setup" -> IF "lender" \in chain.exists \/ Paying THEN 1 ELSE 0
      [] program = "borrower_setup" -> IF client.step = End \/ Paying THEN 1 ELSE 0
      [] program = "prestocks_loan" -> 1

Again == IF program = "borrower_setup" THEN reruns ELSE 0

\* The targets that may have been brought in by now: what is free and what faults
\* account for, less what is still on its way.
Slack ==
    First + Again + faults - Cardinality(flights)
        - (IF Paying /\ program # "prestocks_loan" THEN 1 ELSE 0)

Covered ==
    /\ Cardinality(flights) <= faults
    /\ chain.amount[Filled] + Pending <= Target * Slack

\* A target more for a unit of slack more.
LEMMA SlackPays ==
  ASSUME NEW x \in Int, NEW y \in Int, NEW s \in Int, NEW u \in Int,
         x <= Target * s,
         \/ y <= x /\ s <= u
         \/ y <= x + Target /\ s + 1 <= u
  PROVE  y <= Target * u
<1>1. Target \in Nat
  BY ClientsConstants
<1>2. \A a, b \in Int : a <= b => Target * a <= Target * b
  BY <1>1
<1>3. Target * (s + 1) = Target * s + Target
  BY <1>1
<1>4. Target * s \in Int /\ Target * u \in Int
  BY <1>1
<1>5. CASE y <= x /\ s <= u
  <2>1. Target * s <= Target * u
    BY <1>2, <1>5
  <2> QED  BY <1>4, <1>5, <2>1
<1>6. CASE y <= x + Target /\ s + 1 <= u
  <2>1. s + 1 \in Int
    OBVIOUS
  <2>2. Target * (s + 1) <= Target * u
    BY <1>2, <1>6, <2>1
  <2> QED  BY <1>1, <1>3, <1>4, <1>6, <2>2
<1> QED  BY <1>5, <1>6

\* The parts of what is covered are numbers, and First is one payment at most.
LEMMA CoveredTypes ==
  ASSUME Types
  PROVE  /\ chain.amount[Filled] \in Nat /\ Pending \in 0..Target /\ Target \in Nat
         /\ First \in {0, 1} /\ Again \in Nat /\ Slack \in Int
         /\ Cardinality(flights) \in Nat /\ faults \in Nat
         /\ program \in {"setup", "borrower_setup", "prestocks_loan"}
<1>1. Cardinality(flights) \in Nat
  BY FlightsAreCounted
<1>2. program \in {"setup", "borrower_setup", "prestocks_loan"}
  BY DEF Types, Programs
<1>3. chain.amount[Filled] \in Nat
  BY StepsAreWellMade DEF Types
<1>4. Target \in Nat /\ Pending \in 0..Target
  BY ClientsConstants DEF Types, Pending
<1>5. First \in {0, 1}
  BY <1>2 DEF First
<1>6. Again \in Nat /\ faults \in Nat
  BY DEF Again, Types
<1> QED  BY <1>1, <1>2, <1>3, <1>4, <1>5, <1>6 DEF Slack

\* The lengths of the scripts.
LEMMA Ends ==
  ASSUME Types
  PROVE  /\ End = Len(Steps) + 1 /\ Len(Steps) \in Nat
         /\ PayingStep \in 1..Len(Steps)
         /\ program = "borrower_setup" => End = 4 /\ PayingStep = 3
<1>1. PayingStep \in 1..Len(Steps)
  BY StepsAreWellMade DEF Types, WellMade
<1>2. program \in {"setup", "borrower_setup", "prestocks_loan"}
  BY DEF Types, Programs
<1>3. Len(Steps) \in {3, 6, 7} /\ (program = "borrower_setup" => Len(Steps) = 3)
  BY <1>2, SetupIsWellMade, BorrowerIsWellMade, PrestocksIsWellMade DEF Steps
<1>4. program = "borrower_setup" => PayingStep = 3
  BY DEF PayingStep
<1>5. Len(Steps) \in Nat
  BY <1>3
<1>6. program = "borrower_setup" => Len(Steps) + 1 = 4
  <2>1. 3 + 1 = 4
    OBVIOUS
  <2> QED  BY <1>3, <2>1
<1> QED  BY <1>1, <1>4, <1>5, <1>6 DEF End

\* A step of the specification keeps the script.
LEMMA SameScript ==
  ASSUME [Next]_vars
  PROVE  /\ program' = program /\ Steps' = Steps /\ PayingStep' = PayingStep
         /\ Filled' = Filled /\ End' = End
  BY DEF Next, Run, Look, Confirm, GiveUp, FlightEnds, vars, Steps, PayingStep, Filled, End

\* The same after a step.
LEMMA NextCoveredTypes ==
  ASSUME Types, Types', [Next]_vars
  PROVE  /\ Pending' \in 0..Target /\ First' \in {0, 1} /\ Again' \in Nat /\ Slack' \in Int
         /\ Cardinality(flights') \in Nat /\ faults' \in Nat
<1>1. /\ program' \in {"setup", "borrower_setup", "prestocks_loan"}
      /\ IsFiniteSet(flights') /\ faults' \in Nat /\ reruns' \in Nat
      /\ client'.amount \in 0..Target
  BY DEF Types, Programs
<1>2. Cardinality(flights') \in Nat
  BY <1>1, FS_CardinalityType
<1>3. Pending' \in 0..Target
  BY <1>1, ClientsConstants DEF Pending
<1>4. First' \in {0, 1}
  BY <1>1 DEF First
<1>5. Again' \in Nat
  BY <1>1 DEF Again
<1> QED  BY <1>1, <1>2, <1>3, <1>4, <1>5 DEF Slack

\* No script has brought anything in before it is run.
LEMMA InitCovered == Init => Covered
<1> SUFFICES ASSUME Init PROVE Covered
  OBVIOUS
<1>1. Types
  BY InitTypes
<1>2. Filled \in Balances /\ Filled # "wallet"
  BY <1>1, StepsAreWellMade DEF Filled, Types
<1>3. chain.amount[Filled] = 0
  BY <1>2 DEF Init
<1>4. ~Running /\ ~Paying /\ Pending = 0
  BY DEF Init, Idle, Running, Paying, Pending
<1>5. Cardinality(flights) = 0 /\ faults = 0
  BY FS_EmptySet DEF Init
<1>6. Slack \in Nat /\ Target \in Nat
  BY <1>1, <1>4, <1>5, CoveredTypes DEF Slack
<1>7. 0 <= Target * Slack
  BY <1>6
<1> QED  BY <1>3, <1>4, <1>5, <1>7 DEF Covered

\* Starting a run brings nothing in; a run of borrower_setup after a complete one is
\* entitled to its own deposit instead of the last one's.
LEMMA RunCovered ==
  ASSUME Types, Types', Covered, Run, [Next]_vars
  PROVE  Covered'
<1>1. /\ client' = At(1) /\ UNCHANGED <<program, chain, flights, faults>>
      /\ \/ client.step = 0 /\ reruns' = reruns
         \/ client.step = End /\ reruns' = reruns + 1
  BY DEF Run
<1>2. client'.phase = "read" /\ client'.step = 1
  BY <1>1, Reading
<1>3. ~Running /\ ~Paying
  BY <1>1, Ends DEF Running, Paying
<1>4. ~Paying'
  BY <1>2 DEF Paying
<1>5. Pending = 0 /\ Pending' = 0
  BY <1>3, <1>4 DEF Pending
<1>6. First' + Again' >= First + Again
  <2>1. CASE program = "setup"
    BY <1>1, <1>3, <1>4, <2>1, SameScript DEF First, Again
  <2>2. CASE program = "borrower_setup"
    <3>1. End = 4 /\ client'.step # End'
      BY <1>2, <2>2, Ends, SameScript
    <3>2. reruns \in Nat
      BY DEF Types
    <3> QED  BY <1>1, <1>3, <1>4, <2>2, <3>1, <3>2, SameScript DEF First, Again
  <2>3. CASE program = "prestocks_loan"
    BY <1>1, <2>3, SameScript DEF First, Again
  <2> QED  BY <2>1, <2>2, <2>3, CoveredTypes
<1>7. First' \in {0, 1} /\ Again' \in Nat
  BY NextCoveredTypes
<1>8. Slack' \in Int /\ Slack <= Slack'
  BY <1>1, <1>3, <1>4, <1>6, <1>7, CoveredTypes, NextCoveredTypes DEF Slack
<1>9. chain'.amount[Filled'] = chain.amount[Filled]
  BY <1>1, SameScript
<1>10. chain.amount[Filled] + Pending' <= Target * Slack'
  BY <1>5, <1>8, CoveredTypes, SlackPays DEF Covered
<1> QED  BY <1>1, <1>9, <1>10 DEF Covered

\* A look that leads to a payment has the script's free one, or was told wrong.
LEMMA LookCovered ==
  ASSUME Types, Types', Covered, Look, [Next]_vars
  PROVE  Covered'
<1>1. /\ Running /\ client.phase = "read" /\ UNCHANGED <<program, chain, flights, reruns>>
  BY DEF Look
<1>2. PICK told \in Told(Step) :
         /\ client' = IF Satisfied(Step, told) THEN At(client.step + 1)
                      ELSE [client EXCEPT !.phase = "confirm", !.amount = Sent(Step, told)]
         /\ faults' = faults + (IF told = Answer(Step) THEN 0 ELSE 1)
  BY DEF Look
<1>3. ~Paying /\ Pending = 0
  BY <1>1 DEF Paying, Pending
<1>4. chain'.amount[Filled'] = chain.amount[Filled] /\ Cardinality(flights') = Cardinality(flights)
  BY <1>1, SameScript
<1>5. Cardinality(flights') <= faults' /\ faults' >= faults
  BY <1>2, <1>4, CoveredTypes DEF Covered
<1>6. client.step \in Nat /\ client.step \in 1..Len(Steps)
  BY <1>1 DEF Running, Types
<1>7. client.step # End
  BY <1>6, Ends
<1>8. Again' = Again
  BY <1>1 DEF Again
<1>9. CASE ~Paying'
  <2>1. Pending' = 0
    BY <1>9 DEF Pending
  <2>2. First <= First'
    <3>1. CASE program = "setup"
      BY <1>1, <1>3, <1>9, <3>1 DEF First
    <3>2. CASE program = "borrower_setup"
      <4>1. First = 0
        BY <1>3, <1>7, <3>2 DEF First
      <4> QED  BY <4>1, NextCoveredTypes
    <3>3. CASE program = "prestocks_loan"
      BY <1>1, <3>3 DEF First
    <3> QED  BY <3>1, <3>2, <3>3, CoveredTypes
  <2>3. First' \in {0, 1} /\ Slack' \in Int /\ faults' \in Nat
    BY CoveredTypes, NextCoveredTypes
  <2>4. Slack <= Slack'
    BY <1>3, <1>4, <1>5, <1>8, <1>9, <2>2, <2>3, CoveredTypes DEF Slack
  <2>5. chain.amount[Filled] + Pending' <= Target * Slack'
    BY <1>3, <2>1, <2>3, <2>4, CoveredTypes, SlackPays DEF Covered
  <2> QED  BY <1>4, <1>5, <2>5 DEF Covered
<1>10. CASE Paying'
  <2>1. client' = [client EXCEPT !.phase = "confirm", !.amount = Sent(Step, told)]
    <3>1. At(client.step + 1).phase = "read"
      BY <1>6, Reading
    <3> QED  BY <1>2, <1>10, <3>1 DEF Paying
  <2>2. ~Satisfied(Step, told)
    <3>1. client'.phase = "confirm"
      BY <1>10 DEF Paying
    <3>2. At(client.step + 1).phase = "read"
      BY <1>6, Reading
    <3> QED  BY <1>2, <3>1, <3>2
  <2>3. client.step = PayingStep /\ Step = Steps[PayingStep]
    BY <1>10, <2>1, SameScript DEF Paying, Step, Types
  <2>4. Step.fills = Filled
    BY <1>1, <2>3, RunningStep
  <2>5. told = Answer(Step) \/ told = 0
    BY DEF Told
  <2>6. CASE program = "setup"
    <3>1. Step = SeedLiquidity
      BY <2>3, <2>6, SetupIsWellMade DEF Steps, PayingStep
    <3>2. Step.asks = "exists" /\ Step.makes = "lender"
      BY <3>1 DEF SeedLiquidity, IfAbsent
    <3>3. Pending' = 0 /\ First' = 1
      BY <1>1, <1>10, <2>6 DEF Pending, First
    <3>4. First = (IF "lender" \in chain.exists THEN 1 ELSE 0)
      BY <1>3, <2>6 DEF First
    <3>5. "lender" \in chain.exists => faults' = faults + 1
      <4>1. "lender" \in chain.exists => Answer(Step) = 1
        BY <3>2 DEF Answer
      <4>2. told # 1
        BY <2>2, <3>2 DEF Satisfied
      <4> QED  BY <1>2, <4>1, <4>2
    <3>6. Slack' \in Int /\ faults' \in Nat
      BY CoveredTypes, NextCoveredTypes
    <3>7. Slack <= Slack'
      BY <1>1, <1>3, <1>4, <1>5, <1>8, <1>10, <2>6, <3>3, <3>4, <3>5, <3>6, CoveredTypes DEF Slack
    <3>8. chain.amount[Filled] + Pending' <= Target * Slack'
      BY <1>3, <3>3, <3>6, <3>7, CoveredTypes, SlackPays DEF Covered
    <3> QED  BY <1>4, <1>5, <3>8 DEF Covered
  <2>7. CASE program = "borrower_setup"
    <3>1. Pending' = 0 /\ First' = 1 /\ First = 0
      BY <1>1, <1>3, <1>7, <1>10, <2>7 DEF Pending, First
    <3>2. Slack' \in Int /\ faults' \in Nat
      BY CoveredTypes, NextCoveredTypes
    <3>3. Slack <= Slack'
      BY <1>1, <1>3, <1>4, <1>5, <1>8, <1>10, <2>7, <3>1, <3>2, CoveredTypes DEF Slack
    <3>4. chain.amount[Filled] + Pending' <= Target * Slack'
      BY <1>3, <3>1, <3>2, <3>3, CoveredTypes, SlackPays DEF Covered
    <3> QED  BY <1>4, <1>5, <3>4 DEF Covered
  <2>8. CASE program = "prestocks_loan"
    <3> DEFINE paid == chain.amount[Filled]
    <3>1. Step.asks = "amount" /\ ~Step.whole
      BY <2>3, <2>8, PrestocksIsWellMade DEF Steps, PayingStep
    <3>2. Answer(Step) = paid
      BY <2>4, <3>1 DEF Answer
    <3>3. Pending' = Target - told
      <4>1. Sent(Step, told) = Target - told
        BY <3>1 DEF Sent
      <4>2. client'.amount = Sent(Step, told)
        BY <2>1 DEF Types
      <4> QED  BY <1>1, <1>10, <2>8, <4>1, <4>2 DEF Pending
    <3>4. Slack = 1 + faults - Cardinality(flights) /\ Slack' = 1 + faults' - Cardinality(flights)
      <4>1. First = 1 /\ First' = 1 /\ Again = 0 /\ Again' = 0
        BY <1>1, <2>8 DEF First, Again
      <4>2. /\ Slack = First + Again + faults - Cardinality(flights)
            /\ Slack' = First' + Again' + faults' - Cardinality(flights')
        <5>1. program' = program
          BY <1>1
        <5>2. Slack = First + Again + faults - Cardinality(flights) - 0
          BY <2>8 DEF Slack
        <5>3. Slack' = First' + Again' + faults' - Cardinality(flights') - 0
          BY <2>8, <5>1 DEF Slack
        <5> QED  BY <4>1, <5>2, <5>3, CoveredTypes, NextCoveredTypes
      <4> QED  BY <1>4, <4>1, <4>2, CoveredTypes, NextCoveredTypes
    <3>5. paid \in Nat /\ Target \in Nat /\ Slack \in Int /\ Slack' \in Int /\ Pending' \in 0..Target
      BY CoveredTypes, NextCoveredTypes
    <3>6. CASE told = paid
      <4>1. paid + Pending' <= Target * 1
        BY <3>3, <3>5, <3>6
      <4>2. 1 <= Slack'
        BY <1>4, <1>5, <3>4, CoveredTypes, NextCoveredTypes
      <4>3. paid + Pending' <= Target * Slack'
        BY <3>5, <4>1, <4>2, SlackPays
      <4> QED  BY <1>4, <1>5, <4>3 DEF Covered
    <3>7. CASE told # paid
      <4>1. Slack + 1 <= Slack'
        BY <1>2, <3>2, <3>4, <3>7, CoveredTypes
      <4>2. paid + Pending' <= (paid + Pending) + Target
        BY <1>3, <3>5
      <4>3. paid + Pending <= Target * Slack /\ paid + Pending \in Int
        BY <1>3, <3>5 DEF Covered
      <4>4. paid + Pending' \in Int
        BY <3>5
      <4> HIDE DEF paid
      <4>5. paid + Pending' <= Target * Slack'
        BY <3>5, <4>1, <4>2, <4>3, <4>4, SlackPays
      <4> QED  BY <1>4, <1>5, <4>5 DEF Covered, paid
    <3> QED  BY <3>6, <3>7
  <2> QED  BY <2>6, <2>7, <2>8, CoveredTypes
<1> QED  BY <1>9, <1>10

\* A payment that lands was counted, and one that is refused frees what it counted for.
LEMMA ConfirmCovered ==
  ASSUME Types, Types', Covered, Confirm, [Next]_vars
  PROVE  Covered'
<1>1. /\ Running /\ client.phase = "confirm" /\ UNCHANGED <<program, flights, faults, reruns>>
  BY DEF Confirm
<1>2. client.step \in Nat /\ client.step \in 1..Len(Steps) /\ client.amount \in 0..Target
  BY <1>1 DEF Running, Types
<1>3. client' = At(client.step + 1) \/ client' = Idle
  BY DEF Confirm
<1>4. ~Paying'
  BY <1>2, <1>3, Reading DEF Paying
<1>5. Paying <=> client.step = PayingStep
  BY <1>1 DEF Paying
<1>6. Pending' = 0 /\ Again' = Again /\ Cardinality(flights') = Cardinality(flights)
  BY <1>1, <1>4 DEF Pending, Again
<1>7. client.step # End
  BY <1>2, Ends
<1>8. ~Paying => First <= First'
  <2> SUFFICES ASSUME ~Paying PROVE First <= First'
    OBVIOUS
  <2>1. CASE program = "setup"
    <3>1. chain.exists \subseteq chain'.exists
      <4>1. CASE UNCHANGED chain
        BY <4>1
      <4>2. CASE Accepted(Step, client.amount) /\ Apply(Step, client.amount)
        BY <4>2 DEF Apply
      <4> QED  BY <4>1, <4>2 DEF Confirm
    <3> QED  BY <1>1, <2>1, <3>1 DEF First
  <2>2. CASE program = "borrower_setup"
    <3>1. First = 0
      BY <1>7, <2>2 DEF First
    <3> QED  BY <3>1, NextCoveredTypes
  <2>3. CASE program = "prestocks_loan"
    BY <1>1, <2>3 DEF First
  <2> QED  BY <2>1, <2>2, <2>3, CoveredTypes
<1>9. CASE Accepted(Step, client.amount) /\ Apply(Step, client.amount)
           /\ client' = At(client.step + 1)
  <2>1. /\ chain'.exists = chain.exists \cup ({Step.makes} \ {"-"})
        /\ chain'.amount[Filled] = chain.amount[Filled] + (IF Paying THEN client.amount ELSE 0)
    <3>1. client.amount \in Nat
      BY <1>2, ClientsConstants
    <3> QED  BY <1>2, <1>5, <1>9, <3>1, TransactionsKeepTypes DEF Step
  <2>2. CASE ~Paying
    <3>1. Slack <= Slack'
      BY <1>1, <1>4, <1>6, <1>8, <2>2, CoveredTypes, NextCoveredTypes DEF Slack
    <3>2. Pending = 0 /\ chain'.amount[Filled] = chain.amount[Filled]
      BY <2>1, <2>2, CoveredTypes DEF Pending
    <3>3. chain.amount[Filled] + Pending' <= Target * Slack'
      BY <1>6, <3>1, <3>2, CoveredTypes, NextCoveredTypes, SlackPays DEF Covered
    <3> QED  BY <1>1, <1>6, <3>2, <3>3, SameScript DEF Covered
  <2>3. CASE Paying /\ program = "prestocks_loan"
    <3>1. Pending = client.amount /\ First' = First
      BY <1>1, <2>3 DEF Pending, First
    <3>2. Slack' = Slack
      BY <1>1, <1>6, <2>3, <3>1, CoveredTypes DEF Slack
    <3> QED  BY <1>1, <1>2, <1>6, <2>1, <2>3, <3>1, <3>2, CoveredTypes, SameScript DEF Covered
  <2>4. CASE Paying /\ program # "prestocks_loan"
    <3>1. First = 1 /\ Pending = 0
      BY <2>4, CoveredTypes DEF First, Pending
    <3>2. First' = 1
      <4>1. CASE program = "setup"
        <5>1. Step = SeedLiquidity
          BY <1>5, <2>4, <4>1, SetupIsWellMade DEF Step, Steps, PayingStep
        <5>2. Step.makes = "lender"
          BY <5>1 DEF SeedLiquidity, IfAbsent
        <5> QED  BY <1>1, <2>1, <4>1, <5>2 DEF First
      <4>2. CASE program = "borrower_setup"
        <5>1. client.step + 1 = End
          BY <1>5, <2>4, <4>2, Ends
        <5>2. client'.step = client.step + 1
          BY <1>2, <1>9, Reading
        <5> QED  BY <1>1, <4>2, <5>1, <5>2, SameScript DEF First
      <4> QED  BY <2>4, <4>1, <4>2, CoveredTypes
    <3>3. Slack + 1 <= Slack'
      BY <1>1, <1>4, <1>6, <2>4, <3>1, <3>2, CoveredTypes, NextCoveredTypes DEF Slack
    <3> DEFINE x == chain.amount[Filled]
               y == chain.amount[Filled] + client.amount
    <3>4. x \in Int /\ y \in Int /\ y <= x + Target /\ x <= Target * Slack
      BY <1>2, <3>1, CoveredTypes DEF Covered
    <3> HIDE DEF x, y
    <3>5. y <= Target * Slack'
      BY <3>3, <3>4, CoveredTypes, NextCoveredTypes, SlackPays
    <3> QED  BY <1>1, <1>2, <1>6, <2>1, <2>4, <3>5, CoveredTypes, SameScript DEF Covered, y
  <2> QED  BY <2>2, <2>3, <2>4
<1>10. CASE UNCHANGED chain
  <2> DEFINE x == chain.amount[Filled]
  <2>1. Slack <= Slack'
    <3>1. CASE Paying /\ program # "prestocks_loan"
      <4>1. First <= 1 /\ First' >= 0
        BY CoveredTypes, NextCoveredTypes
      <4> QED  BY <1>1, <1>4, <1>6, <3>1, <4>1, CoveredTypes, NextCoveredTypes DEF Slack
    <3>2. CASE program = "prestocks_loan"
      <4>1. First' = First
        BY <1>1, <3>2 DEF First
      <4> QED  BY <1>1, <1>6, <3>2, <4>1, CoveredTypes, NextCoveredTypes DEF Slack
    <3>3. CASE ~Paying
      BY <1>1, <1>4, <1>6, <1>8, <3>3, CoveredTypes, NextCoveredTypes DEF Slack
    <3> QED  BY <3>1, <3>2, <3>3
  <2>2. x + Pending' <= x + Pending /\ x + Pending' \in Int /\ x + Pending \in Int
        /\ x + Pending <= Target * Slack
    BY <1>6, CoveredTypes DEF Covered
  <2> HIDE DEF x
  <2>3. x + Pending' <= Target * Slack'
    BY <2>1, <2>2, CoveredTypes, NextCoveredTypes, SlackPays
  <2> QED  BY <1>1, <1>6, <1>10, <2>3, SameScript DEF Covered, x
<1> QED  BY <1>9, <1>10 DEF Confirm

\* A run that is given up is a fault, which pays for the flight it may leave.
LEMMA GiveUpCovered ==
  ASSUME Types, Types', Covered, GiveUp, [Next]_vars
  PROVE  Covered'
<1>1. /\ Running /\ client' = Idle /\ faults' = faults + 1
      /\ UNCHANGED <<program, chain, refusals, reruns>>
  BY DEF GiveUp
<1>2. client.step \in Nat /\ client.step \in 1..Len(Steps) /\ client.amount \in Nat
  BY <1>1, ClientsConstants DEF Running, Types
<1>3. Cardinality(flights') \in {Cardinality(flights), Cardinality(flights) + 1}
  BY <1>2, FlightsAreCounted DEF GiveUp
<1>4. ~Paying' /\ Pending' = 0 /\ Again' = Again
  <2>1. Idle.phase = "read"
    BY DEF Idle
  <2> QED  BY <1>1, <2>1 DEF Paying, Pending, Again
<1>5. client.step # End
  BY <1>2, Ends
<1>6. Slack <= Slack'
  <2>1. CASE program = "prestocks_loan"
    <3>1. First' = First
      BY <1>1, <2>1 DEF First
    <3> QED  BY <1>1, <1>3, <1>4, <2>1, <3>1, CoveredTypes, NextCoveredTypes DEF Slack
  <2>2. CASE Paying /\ program # "prestocks_loan"
    <3>1. First <= 1 /\ First' >= 0
      BY CoveredTypes, NextCoveredTypes
    <3> QED  BY <1>1, <1>3, <1>4, <2>2, <3>1, CoveredTypes, NextCoveredTypes DEF Slack
  <2>3. CASE ~Paying /\ program # "prestocks_loan"
    <3>1. First <= First'
      <4>1. CASE program = "setup"
        BY <1>1, <2>3, <4>1 DEF First
      <4>2. CASE program = "borrower_setup"
        <5>1. First = 0
          BY <1>5, <2>3, <4>2 DEF First
        <5> QED  BY <5>1, NextCoveredTypes
      <4> QED  BY <2>3, <4>1, <4>2, CoveredTypes
    <3> QED  BY <1>1, <1>3, <1>4, <2>3, <3>1, CoveredTypes, NextCoveredTypes DEF Slack
  <2> QED  BY <2>1, <2>2, <2>3
<1> DEFINE x == chain.amount[Filled]
<1>7. x + Pending' <= x + Pending /\ x + Pending' \in Int /\ x + Pending \in Int
      /\ x + Pending <= Target * Slack
  BY <1>4, CoveredTypes DEF Covered
<1>8. Cardinality(flights') <= faults'
  BY <1>1, <1>3, CoveredTypes DEF Covered
<1> HIDE DEF x
<1>9. x + Pending' <= Target * Slack'
  BY <1>6, <1>7, CoveredTypes, NextCoveredTypes, SlackPays
<1> QED  BY <1>1, <1>8, <1>9, SameScript DEF Covered, x

\* A flight that ends is no longer counted, and brings in a target at most.
LEMMA FlightEndsCovered ==
  ASSUME Types, Types', Covered, FlightEnds, [Next]_vars
  PROVE  Covered'
<1>1. PICK f \in flights :
        /\ flights' = flights \ {f}
        /\ \/ Accepted(Steps[f.step], f.amount) /\ Apply(Steps[f.step], f.amount)
           \/ UNCHANGED chain
        /\ UNCHANGED <<program, client, faults, refusals, reruns>>
  BY DEF FlightEnds
<1>2. f.step \in 1..Len(Steps) /\ f.amount \in Nat /\ f.amount <= Target
  BY DEF Types, Flight
<1>3. Cardinality(flights') = Cardinality(flights) - 1
  BY <1>1, FlightsAreCounted
<1>4. /\ chain.exists \subseteq chain'.exists
      /\ chain'.amount[Filled] \in Nat
      /\ chain'.amount[Filled] <= chain.amount[Filled] + Target
  <2>1. CASE UNCHANGED chain
    BY <2>1, CoveredTypes
  <2>2. CASE Accepted(Steps[f.step], f.amount) /\ Apply(Steps[f.step], f.amount)
    <3>1. /\ chain'.exists = chain.exists \cup ({Steps[f.step].makes} \ {"-"})
          /\ chain'.amount[Filled]
               = chain.amount[Filled] + (IF f.step = PayingStep THEN f.amount ELSE 0)
      BY <1>2, <2>2, TransactionsKeepTypes
    <3> QED  BY <1>2, <3>1, CoveredTypes
  <2> QED  BY <1>1, <2>1, <2>2
<1>5. (Paying' <=> Paying) /\ Pending' = Pending /\ Again' = Again
  BY <1>1, SameScript DEF Paying, Pending, Again, Running
<1>6. First <= First'
  <2>1. CASE program = "setup"
    BY <1>1, <1>4, <1>5, <2>1 DEF First
  <2>2. CASE program = "borrower_setup"
    BY <1>1, <1>5, <2>2, SameScript DEF First
  <2>3. CASE program = "prestocks_loan"
    BY <1>1, <2>3 DEF First
  <2> QED  BY <2>1, <2>2, <2>3, CoveredTypes
<1>7. Slack + 1 <= Slack'
  BY <1>1, <1>3, <1>5, <1>6, CoveredTypes, NextCoveredTypes DEF Slack
<1> DEFINE x == chain.amount[Filled] + Pending
           y == chain'.amount[Filled] + Pending'
<1>8. x \in Int /\ y \in Int /\ y <= x + Target /\ x <= Target * Slack
  BY <1>4, <1>5, CoveredTypes DEF Covered
<1>9. Cardinality(flights') <= faults'
  BY <1>1, <1>3, CoveredTypes DEF Covered
<1> HIDE DEF x, y
<1>10. y <= Target * Slack'
  BY <1>7, <1>8, CoveredTypes, NextCoveredTypes, SlackPays
<1> QED  BY <1>9, <1>10, SameScript DEF Covered, y

\* Every step keeps what was brought in covered.
LEMMA NextCovered == Types /\ Types' /\ Covered /\ [Next]_vars => Covered'
<1> SUFFICES ASSUME Types, Types', Covered, [Next]_vars PROVE Covered'
  OBVIOUS
<1>1. CASE UNCHANGED vars
  BY <1>1 DEF vars, Covered, Pending, Slack, Paying, First, Again, Filled, PayingStep, Running,
              Steps, End
<1> QED  BY <1>1, RunCovered, LookCovered, ConfirmCovered, GiveUpCovered, FlightEndsCovered
         DEF Next

\* What is covered is no more than the property allows.
LEMMA CoveredIsNoExcess ==
  ASSUME Types, Covered
  PROVE  NoExcessWithoutFault
<1> DEFINE x == chain.amount[Filled] + Pending
           allowed == 1 + faults + Again
<1>1. Slack <= allowed /\ allowed \in Int
  <2>1. Slack <= First + Again + faults - Cardinality(flights)
    BY CoveredTypes DEF Slack
  <2> QED  BY <2>1, CoveredTypes
<1>2. x <= Target * allowed
  <2>1. x \in Int /\ x <= Target * Slack
    BY CoveredTypes DEF Covered
  <2>2. Slack \in Int
    BY CoveredTypes
  <2> HIDE DEF x, allowed
  <2>3. x <= x /\ Slack <= allowed
    BY <1>1, <2>1
  <2> QED  BY <1>1, <2>1, <2>2, <2>3, SlackPays
<1>3. chain.amount[Filled] <= x
  BY CoveredTypes
<1>4. Target * allowed \in Int
  BY <1>1, CoveredTypes
<1>5. chain.amount[Filled] <= Target * allowed
  <2> HIDE DEF allowed
  <2> QED  BY <1>2, <1>3, <1>4, CoveredTypes
<1> QED  BY <1>5 DEF NoExcessWithoutFault, Filled, Again

\* Whatever reads are lost, runs given up and transactions landing late in whatever
\* order: what a script brings in is brought in once, and once more for every fault.
THEOREM ExcessNeedsAFault == Spec => []NoExcessWithoutFault
<1>1. Types /\ Covered => NoExcessWithoutFault
  BY CoveredIsNoExcess
<1> QED  BY <1>1, ClientTypes, InitCovered, NextCovered, PTL DEF Spec
=============================================================================
