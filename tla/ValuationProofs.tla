-------------------------- MODULE ValuationProofs --------------------------
(***************************************************************************)
(* Proofs about Valuation, for any mints, terms, positions and lists of    *)
(* accounts, of any length:                                                *)
(*   AcceptedListStaysTheSlots  Spec => []AcceptedListIsTheSlots           *)
(*   PricesStayOwnAndFresh      Spec => []PricesAreOwnAndFresh             *)
(*   MultiplierStaysInForce     Spec => []MultiplierIsInForce              *)
(*   PinnedLeavesNoChoice       Spec => []CallerCannotChoosePinned         *)
(*   RoundingStaysBounded       Spec => []RoundingIsBounded                *)
(* Two things carry them.  The walk in closed form: a list that comes      *)
(* through has every slot accepted at the place that the strides of the    *)
(* slots before it give (AcceptedListInClosedForm), so that each fact      *)
(* about an accepted list is one about single slots.  And the invariant    *)
(* IInv: the outcome is what the supplied accounts are valued at now, a    *)
(* quote is of the feed whose name it carries, and the multiplier that a   *)
(* reader computes is the one in force.                                    *)
(***************************************************************************)
EXTENDS Valuation, NaturalsInduction, FiniteSetTheorems, SequenceTheorems, TLAPS

-----------------------------------------------------------------------------
(* The walk in closed form *)

\* Induction up to n, over a set.
LEMMA UpTo ==
  ASSUME NEW n \in Nat, NEW S, 0 \in S, \A i \in 0..(n - 1) : i \in S => i + 1 \in S
  PROVE  \A i \in 0..n : i \in S
<1> DEFINE B == {i \in 0..n : i \notin S}
           Less == {ss \in Nat \X Nat : ss[1] < ss[2]}
<1> SUFFICES ASSUME B # {} PROVE FALSE
  OBVIOUS
<1>1. IsWellFoundedOn(Less, Nat)
  BY NatLessThanWellFounded DEF OpToRel
<1>2. PICK i \in B : \A j \in B : ~(<<j, i>> \in Less)
  <2>1. B \subseteq Nat
    OBVIOUS
  <2> HIDE DEF B, Less
  <2> QED  BY <1>1, <2>1, WFMin
<1>3. i # 0 /\ i - 1 \in 0..(n - 1) /\ i - 1 < i /\ i = (i - 1) + 1
  OBVIOUS
<1>4. i - 1 \in S
  <2>1. <<i - 1, i>> \in Less /\ i - 1 \in 0..n
    BY <1>3
  <2> QED  BY <1>2, <2>1
<1> QED  BY <1>3, <1>4

\* Every slot takes its stride.
LEMMA BeforeAdvances ==
  ASSUME position \in Seq(Mints), NEW i \in 1..Len(position)
  PROVE  /\ Before(1) = 0 /\ Before(i) \in Nat
         /\ Before(i + 1) = Before(i) + Stride(position[i])
<1> DEFINE scaled(k) == {j \in 1..(k - 1) : Asset[position[j]].kind = "XStock"}
<1>1. i \in Nat /\ i + 1 - 1 = i /\ i >= 1
  OBVIOUS
<1>2. IsFiniteSet(scaled(i))
  <2>1. IsFiniteSet(1..(i - 1)) /\ scaled(i) \subseteq 1..(i - 1)
    BY FS_Interval
  <2> QED  BY <2>1, FS_Subset
<1>3. Cardinality(scaled(i)) \in Nat
  BY <1>2, FS_CardinalityType
<1>4. ASSUME Asset[position[i]].kind = "XStock"
      PROVE  Before(i + 1) = Before(i) + Stride(position[i])
  <2>1. scaled(i + 1) = scaled(i) \cup {i} /\ i \notin scaled(i)
    BY <1>4
  <2>2. Cardinality(scaled(i + 1)) = Cardinality(scaled(i)) + 1
    BY <1>2, <2>1, FS_AddElement
  <2>3. Before(i + 1) = Before(i) + 3
    BY <1>1, <1>3, <2>2 DEF Before
  <2> QED  BY <1>4, <2>3 DEF Stride
<1>5. ASSUME Asset[position[i]].kind # "XStock"
      PROVE  Before(i + 1) = Before(i) + Stride(position[i])
  <2>1. scaled(i + 1) = scaled(i)
    BY <1>5
  <2>2. Before(i + 1) = Before(i) + 2
    <3>1. Cardinality(scaled(i + 1)) = Cardinality(scaled(i))
      BY <2>1
    <3> QED  BY <1>1, <1>3, <3>1 DEF Before
  <2> QED  BY <1>5, <2>2 DEF Stride
<1>6. Before(1) = 0
  <2>1. scaled(1) = {}
    OBVIOUS
  <2> QED  BY <2>1, FS_EmptySet DEF Before
<1>7. Before(i) \in Nat
  BY <1>1, <1>3 DEF Before
<1> QED  BY <1>4, <1>5, <1>6, <1>7

\* w is the walk over the first n slots.
IsWalk(list, n, w) ==
    w = [i \in 0..n |-> IF i = 0 THEN [ok |-> TRUE, cursor |-> 1, values |-> <<>>]
                                 ELSE VisitSlot(list, w[i - 1], position[i])]

\* The walk over every number of slots exists.
LEMMA WalkExists ==
  ASSUME NEW list, NEW n \in Nat
  PROVE  \E w : IsWalk(list, n, w)
<1> DEFINE S == {k \in 0..n : \E w : IsWalk(list, k, w)}
           start == [ok |-> TRUE, cursor |-> 1, values |-> <<>>]
<1>1. 0 \in S
  <2>1. IsWalk(list, 0, [i \in 0..0 |-> start])
    BY DEF IsWalk
  <2> QED  BY <2>1
<1>2. ASSUME NEW k \in 0..(n - 1), k \in S PROVE k + 1 \in S
  <2>1. PICK w : IsWalk(list, k, w)
    BY <1>2
  <2> DEFINE x == [i \in 0..(k + 1) |-> IF i = k + 1 THEN VisitSlot(list, w[k], position[k + 1]) ELSE w[i]]
  <2>2. ASSUME NEW i \in 0..(k + 1), i # 0
        PROVE  x[i] = VisitSlot(list, x[i - 1], position[i])
    <3>1. CASE i = k + 1
      BY <3>1
    <3>2. CASE i # k + 1
      <4>1. i \in 0..k /\ i - 1 \in 0..k /\ i - 1 # k + 1
        BY <2>2, <3>2
      <4>2. w[i] = VisitSlot(list, w[i - 1], position[i])
        BY <2>1, <2>2, <4>1 DEF IsWalk
      <4> QED  BY <4>1, <4>2
    <3> QED  BY <3>1, <3>2
  <2>3. x[0] = start
    <3>1. w[0] = start
      BY <2>1 DEF IsWalk
    <3> QED  BY <3>1
  <2>4. x = [i \in 0..(k + 1) |-> x[i]]
    OBVIOUS
  <2> HIDE DEF x
  <2>5. IsWalk(list, k + 1, x)
    BY <2>2, <2>3, <2>4 DEF IsWalk
  <2> QED  BY <2>5
<1> HIDE DEF S
<1>3. n \in S
  BY <1>1, <1>2, UpTo
<1> QED  BY <1>3 DEF S

\* What the walk over n slots has valued when it accepted them all.
Visited(list, i) == [j \in 1..i |-> SlotValue(list, Before(j) + 1, position[j])]

\* Appending the next value of a sequence of them.
LEMMA AppendNext ==
  ASSUME NEW i \in Nat, NEW f
  PROVE  Append([j \in 1..i |-> f[j]], f[i + 1]) = [j \in 1..(i + 1) |-> f[j]]
<1> DEFINE S == {f[j] : j \in 1..(i + 1)}
           s == [j \in 1..i |-> f[j]]
<1>1. s \in Seq(S) /\ Len(s) = i /\ f[i + 1] \in S
  BY IsASeq
<1> QED  BY <1>1, AppendProperties

\* A walk that refused nothing stands before the next slot, and has accepted and valued
\* each slot so far at its own place.
LEMMA WalkSoFar ==
  ASSUME position \in Seq(Mints), NEW list, NEW w, IsWalk(list, Len(position), w)
  PROVE  \A i \in 0..Len(position) :
            w[i].ok => /\ w[i].cursor = Before(i + 1) + 1
                       /\ w[i].values = Visited(list, i)
                       /\ \A j \in 1..i : SlotAccepted(list, Before(j) + 1, position[j])
<1> DEFINE n == Len(position)
           Claim(i) == w[i].ok => /\ w[i].cursor = Before(i + 1) + 1
                                  /\ w[i].values = Visited(list, i)
                                  /\ \A j \in 1..i : SlotAccepted(list, Before(j) + 1, position[j])
           S == {i \in 0..n : Claim(i)}
<1>1. n \in Nat /\ Before(1) = 0
  BY FS_EmptySet DEF Before
<1>2. 0 \in S
  <2>1. w[0] = [ok |-> TRUE, cursor |-> 1, values |-> <<>>]
    BY <1>1 DEF IsWalk
  <2>2. Visited(list, 0) = <<>>
    BY DEF Visited
  <2> QED  BY <1>1, <2>1, <2>2
<1>3. ASSUME NEW i \in 0..(n - 1), i \in S PROVE i + 1 \in S
  <2>1. /\ i + 1 \in 1..n /\ i + 1 \in 0..n /\ i + 1 # 0 /\ (i + 1) - 1 = i
        /\ Claim(i)
    BY <1>1, <1>3
  <2> SUFFICES ASSUME w[i + 1].ok
               PROVE  /\ w[i + 1].cursor = Before((i + 1) + 1) + 1
                      /\ w[i + 1].values = Visited(list, i + 1)
                      /\ \A j \in 1..(i + 1) : SlotAccepted(list, Before(j) + 1, position[j])
    BY <2>1
  <2>2. w[i + 1] = VisitSlot(list, w[i], position[i + 1])
    BY <2>1 DEF IsWalk
  <2>3. w[i].ok /\ SlotAccepted(list, w[i].cursor, position[i + 1])
    BY <2>2 DEF VisitSlot, Refused
  <2>4. w[i + 1] = [ok |-> TRUE, cursor |-> w[i].cursor + Stride(position[i + 1]),
                    values |-> Append(w[i].values, SlotValue(list, w[i].cursor, position[i + 1]))]
    BY <2>2, <2>3 DEF VisitSlot
  <2>5. /\ w[i].cursor = Before(i + 1) + 1 /\ w[i].values = Visited(list, i)
        /\ \A j \in 1..i : SlotAccepted(list, Before(j) + 1, position[j])
    BY <2>1, <2>3
  <2>6. w[i + 1].cursor = Before((i + 1) + 1) + 1
    <3>1. Before((i + 1) + 1) = Before(i + 1) + Stride(position[i + 1]) /\ Before(i + 1) \in Nat
      BY <2>1, BeforeAdvances
    <3>2. Stride(position[i + 1]) \in Nat
      BY DEF Stride
    <3> QED  BY <2>4, <2>5, <3>1, <3>2
  <2>7. w[i + 1].values = Visited(list, i + 1)
    <3> DEFINE f == [j \in 1..n |-> SlotValue(list, Before(j) + 1, position[j])]
    <3>1. w[i + 1].values = Append(Visited(list, i), SlotValue(list, Before(i + 1) + 1, position[i + 1]))
      BY <2>4, <2>5
    <3>2. /\ Visited(list, i) = [j \in 1..i |-> f[j]]
          /\ Visited(list, i + 1) = [j \in 1..(i + 1) |-> f[j]]
          /\ SlotValue(list, Before(i + 1) + 1, position[i + 1]) = f[i + 1]
      BY <1>1, <2>1 DEF Visited
    <3> HIDE DEF f
    <3> QED  BY <1>1, <3>1, <3>2, AppendNext
  <2>8. \A j \in 1..(i + 1) : SlotAccepted(list, Before(j) + 1, position[j])
    BY <2>3, <2>5
  <2> QED  BY <2>6, <2>7, <2>8
<1> HIDE DEF S
<1>4. \A i \in 0..n : i \in S
  BY <1>1, <1>2, <1>3, UpTo
<1> QED  BY <1>4 DEF S

\* What an accepted list is: the slots' groups one after another, and nothing else.
LEMMA AcceptedListInClosedForm ==
  ASSUME position \in Seq(Mints), NEW list \in Seq(SuppliedAccount), Valued(list).accepted
  PROVE  /\ Valued(list) = [accepted |-> TRUE, values |-> Visited(list, Len(position)),
                            ngn |-> Scaled(price_data[Market.ngn_feed].quote)]
         /\ Len(list) = Before(Len(position) + 1)
         /\ \A j \in 1..Len(position) : SlotAccepted(list, Before(j) + 1, position[j])
         /\ ReadNgnPrice
<1> DEFINE n == Len(position)
           w == CHOOSE x : IsWalk(list, n, x)
<1>1. n \in Nat /\ Len(list) \in Nat
  OBVIOUS
<1>2. IsWalk(list, n, w)
  BY <1>1, WalkExists
<1>3. Walk(list) = w[n]
  BY DEF Walk, IsWalk
<1> HIDE DEF w
<1>4. Walk(list).ok /\ AllConsumed(list, Walk(list)) /\ ReadNgnPrice
  BY DEF Valued, NoOutcome
<1>5. /\ w[n].cursor = Before(n + 1) + 1 /\ w[n].values = Visited(list, n)
      /\ \A j \in 1..n : SlotAccepted(list, Before(j) + 1, position[j])
  BY <1>1, <1>2, <1>3, <1>4, WalkSoFar
<1>6. Before(n + 1) \in Int
  <2>1. IsFiniteSet({j \in 1..n : Asset[position[j]].kind = "XStock"})
    <3>1. {j \in 1..n : Asset[position[j]].kind = "XStock"} \subseteq 1..n /\ IsFiniteSet(1..n)
      BY <1>1, FS_Interval
    <3> QED  BY <3>1, FS_Subset
  <2>2. Cardinality({j \in 1..n : Asset[position[j]].kind = "XStock"}) \in Nat
    BY <2>1, FS_CardinalityType
  <2>3. (n + 1) - 1 = n
    BY <1>1
  <2> QED  BY <1>1, <2>2, <2>3 DEF Before
<1>7. Len(list) = Before(n + 1)
  BY <1>1, <1>3, <1>4, <1>5, <1>6 DEF AllConsumed
<1> QED  BY <1>3, <1>4, <1>5, <1>7 DEF Valued

-----------------------------------------------------------------------------
(* The invariant *)

ScaledUi == [multiplier: Nat, new_multiplier: Nat, effective: Nat]

Types ==
    /\ now \in Nat
    /\ price_data \in [PriceAccounts -> PriceData]
    /\ scaled_ui \in [Mints -> ScaledUi]
    /\ position \in Positions
    /\ remaining \in Seq(SuppliedAccount)

\* While a transaction runs, its outcome is what its accounts are valued at.
OutcomeIsValued == outcome = NoOutcome \/ (outcome.accepted /\ outcome = Valued(remaining))

QuotesAreOwn == \A a \in PriceAccounts : QuoteIsOwn(price_data[a])

\* The multiplier a reader computes is the one in force.
MultiplierIsSeen == in_force = [m \in Mints |-> ReadMultiplier(m)]

IInv == Types /\ OutcomeIsValued /\ QuotesAreOwn /\ MultiplierIsSeen

\* A valuation reads the clock, the price accounts, the mints and the position only.
LEMMA ValuedStands ==
  ASSUME UNCHANGED <<now, price_data, scaled_ui, position>>, NEW list
  PROVE  Valued(list)' = Valued(list)
  BY DEF Valued, AllConsumed, Walk, VisitSlot, Refused, SlotAccepted, SlotValue, Stride, Multiplier,
         Supplied, IsPinned, ReadPythPrice, ReadCollateralPrice, ReadNgnPrice, ReadPullFeed,
         BoundHash, IsFresh, MultiplierIsUsable, ReadMultiplier, NoOutcome

\* The reader of a multiplier and its holders agree before and after a second passes.
LEMMA TickKeepsMultiplier ==
  ASSUME Types, MultiplierIsSeen, Tick
  PROVE  MultiplierIsSeen'
<1> SUFFICES ASSUME NEW m \in Mints
             PROVE  in_force'[m] = ReadMultiplier(m)'
  BY DEF MultiplierIsSeen, Tick
<1>1. /\ scaled_ui[m].effective \in Nat /\ now \in Nat
  BY DEF Types, ScaledUi
<1>2. in_force[m] = ReadMultiplier(m)
  BY DEF MultiplierIsSeen
<1>3. /\ now' = now + 1 /\ scaled_ui' = scaled_ui
      /\ in_force'[m] = IF scaled_ui[m].effective = now + 1 THEN scaled_ui[m].new_multiplier
                                                           ELSE in_force[m]
  BY DEF Tick
<1> QED  BY <1>1, <1>2, <1>3 DEF ReadMultiplier

\* They agree before and after a change is scheduled.
LEMMA ScheduleKeepsMultiplier ==
  ASSUME Types, MultiplierIsSeen, NEW n \in Mints, NEW new \in Multipliers,
         NEW effective \in now..MaxTime, ScheduleMultiplier(n, new, effective)
  PROVE  MultiplierIsSeen' /\ scaled_ui' \in [Mints -> ScaledUi]
<1>1. new \in Nat /\ effective \in Nat /\ now \in Nat /\ effective >= now
  BY ValuationConstants DEF Types
<1>2. \A m \in Mints : in_force[m] \in Nat /\ in_force[m] = ReadMultiplier(m)
  BY DEF MultiplierIsSeen, ReadMultiplier, Types, ScaledUi
<1>3. now' = now
  BY DEF ScheduleMultiplier
<1>4. scaled_ui' = [scaled_ui EXCEPT ![n] =
          [multiplier |-> IF effective <= now THEN new ELSE in_force[n],
           new_multiplier |-> new, effective |-> effective]]
  BY DEF ScheduleMultiplier
<1>5. scaled_ui' \in [Mints -> ScaledUi]
  BY <1>1, <1>2, <1>4 DEF Types, ScaledUi
<1>6. in_force' = [in_force EXCEPT ![n] = IF effective <= now THEN new ELSE @]
  BY DEF ScheduleMultiplier
<1>7. ASSUME NEW m \in Mints PROVE in_force'[m] = ReadMultiplier(m)'
  <2>1. CASE m = n
    <3>1. scaled_ui'[m] = [multiplier |-> IF effective <= now THEN new ELSE in_force[n],
                           new_multiplier |-> new, effective |-> effective]
      BY <1>4, <2>1 DEF Types
    <3>2. in_force'[m] = IF effective <= now THEN new ELSE in_force[n]
      BY <1>6, <2>1 DEF MultiplierIsSeen
    <3> QED  BY <1>1, <1>3, <3>1, <3>2 DEF ReadMultiplier
  <2>2. CASE m # n
    BY <1>2, <1>3, <1>4, <1>6, <2>2 DEF ReadMultiplier, Types, MultiplierIsSeen
  <2> QED  BY <2>1, <2>2
<1>8. in_force' \in [Mints -> Nat] /\ DOMAIN in_force' = Mints
  BY <1>1, <1>2, <1>6 DEF MultiplierIsSeen
<1> QED  BY <1>5, <1>7, <1>8 DEF MultiplierIsSeen

\* Whoever posts, cranks or repoints, the price accounts keep their types, and a quote is
\* of the feed its account names, or the account was turned since.
LEMMA OracleStepKeepsQuotes ==
  ASSUME Types, QuotesAreOwn,
         \/ \E post \in Posts, time \in 1..now : PostUpdate(post, time)
         \/ \E crank \in Cranks : Crank(crank)
         \/ \E pointing \in Repoints : Repoint(pointing)
  PROVE  price_data' \in [PriceAccounts -> PriceData] /\ QuotesAreOwn'
<1>1. price_data \in [PriceAccounts -> PriceData] /\ now \in Nat
  BY DEF Types
<1>2. ASSUME NEW post \in Posts, NEW time \in 1..now, PostUpdate(post, time)
      PROVE  price_data' \in [PriceAccounts -> PriceData] /\ QuotesAreOwn'
  <2> DEFINE new == [program |-> "Pyth", feed |-> post.feed,
                     of |-> IF post.full THEN post.feed ELSE Stray, turned |-> FALSE,
                     quote |-> post.quote, time |-> time, full |-> post.full, samples |-> 0]
  <2>1. post \in Post /\ post.account \in PriceAccounts
    BY ValuationConstants DEF Post, PriceAccounts
  <2>2. new \in PriceData /\ QuoteIsOwn(new)
    BY <1>1, <2>1, ValuationConstants DEF Post, PriceData, QuoteIsOwn
  <2>3. price_data' = [price_data EXCEPT ![post.account] = new]
    BY <1>2 DEF PostUpdate
  <2> HIDE DEF new
  <2> QED  BY <1>1, <2>1, <2>2, <2>3 DEF QuotesAreOwn
<1>3. ASSUME NEW crank \in Cranks, Crank(crank)
      PROVE  price_data' \in [PriceAccounts -> PriceData] /\ QuotesAreOwn'
  <2> DEFINE old == price_data[crank.account]
             new == [old EXCEPT !.of = old.feed, !.turned = FALSE, !.quote = crank.quote,
                                !.time = now, !.samples = crank.samples]
  <2>1. crank \in CrankResult /\ crank.account \in PriceAccounts
    BY ValuationConstants DEF CrankResult, PriceAccounts
  <2>2. old \in PriceData
    BY <1>1, <2>1
  <2>3. new \in PriceData /\ new.of = new.feed
    BY <1>1, <2>1, <2>2 DEF CrankResult, PriceData
  <2>4. price_data' = [price_data EXCEPT ![crank.account] = new]
    BY <1>3 DEF Crank
  <2> HIDE DEF old, new
  <2> QED  BY <1>1, <2>1, <2>3, <2>4 DEF QuotesAreOwn, QuoteIsOwn
<1>4. ASSUME NEW pointing \in Repoints, Repoint(pointing)
      PROVE  price_data' \in [PriceAccounts -> PriceData] /\ QuotesAreOwn'
  <2> DEFINE old == price_data[pointing.account]
             new == [old EXCEPT !.feed = pointing.feed, !.turned = TRUE]
  <2>1. pointing \in Pointing /\ pointing.account \in PriceAccounts
    BY ValuationConstants DEF Pointing, PriceAccounts
  <2>2. old \in PriceData /\ QuoteIsOwn(old)
    BY <1>1, <2>1 DEF QuotesAreOwn
  <2>3. new \in PriceData /\ new.turned /\ new.program = old.program
    BY <2>1, <2>2 DEF Pointing, PriceData
  <2>4. /\ price_data' = [price_data EXCEPT ![pointing.account] = new]
        /\ old.program = "Switchboard"
    BY <1>4 DEF Repoint
  <2> HIDE DEF old, new
  <2> QED  BY <1>1, <2>1, <2>3, <2>4 DEF QuotesAreOwn, QuoteIsOwn
<1> QED  BY <1>2, <1>3, <1>4

\* A mint starts with its multiplier in force, and price accounts with their own quotes.
LEMMA InitIInv == Init => IInv
<1> SUFFICES ASSUME Init PROVE IInv
  OBVIOUS
<1>1. Types
  BY ValuationConstants, ScalesArePositive DEF Init, Types, ScaledUi
<1>2. QuotesAreOwn
  BY ValuationConstants DEF Init, QuotesAreOwn
<1>3. MultiplierIsSeen
  BY DEF Init, MultiplierIsSeen, ReadMultiplier
<1> QED  BY <1>1, <1>2, <1>3 DEF Init, OutcomeIsValued, IInv

\* Every step keeps the invariant.
LEMMA NextIInv == IInv /\ [Next]_vars => IInv'
<1> SUFFICES ASSUME IInv, [Next]_vars PROVE IInv'
  OBVIOUS
<1>1. Types /\ OutcomeIsValued /\ QuotesAreOwn /\ MultiplierIsSeen
  BY DEF IInv
<1>2. ASSUME NEW list \in Lists[position], ~outcome.accepted, LoadValuation(list) PROVE IInv'
  <2>1. /\ UNCHANGED <<now, price_data, scaled_ui, position, in_force>>
        /\ remaining' = list /\ outcome' = Valued(list) /\ Valued(list).accepted
    BY <1>2 DEF LoadValuation
  <2>2. list \in Seq(SuppliedAccount)
    BY <1>1, ValuationConstants DEF Types
  <2>3. Valued(list)' = Valued(list)
    BY <2>1, ValuedStands
  <2>4. Valued(remaining)' = Valued(list)
    BY <2>1, <2>3
  <2> QED  BY <1>1, <2>1, <2>2, <2>4
           DEF IInv, Types, OutcomeIsValued, QuotesAreOwn, MultiplierIsSeen, ReadMultiplier
<1>3. CASE TransactionEnds
  <2>1. /\ UNCHANGED <<now, price_data, scaled_ui, position, in_force>>
        /\ remaining' = <<>> /\ outcome' = NoOutcome
    BY <1>3 DEF TransactionEnds
  <2> QED  BY <1>1, <2>1
           DEF IInv, Types, OutcomeIsValued, QuotesAreOwn, MultiplierIsSeen, ReadMultiplier
<1>4. CASE EnvironmentStep
  <2>1. UNCHANGED <<remaining, outcome, position>> /\ ~outcome.accepted
    BY <1>4 DEF EnvironmentStep, PostUpdate, Crank, Repoint, ScheduleMultiplier, Tick,
                BetweenTransactions
  <2>2. OutcomeIsValued'
    BY <1>1, <2>1 DEF OutcomeIsValued, NoOutcome
  <2>3. CASE \/ \E post \in Posts, time \in 1..now : PostUpdate(post, time)
             \/ \E crank \in Cranks : Crank(crank)
             \/ \E pointing \in Repoints : Repoint(pointing)
    <3>1. UNCHANGED <<now, scaled_ui, in_force>>
      BY <2>3 DEF PostUpdate, Crank, Repoint
    <3>2. price_data' \in [PriceAccounts -> PriceData] /\ QuotesAreOwn'
      BY <1>1, <2>3, OracleStepKeepsQuotes
    <3> QED  BY <1>1, <2>1, <2>2, <3>1, <3>2 DEF IInv, Types, MultiplierIsSeen, ReadMultiplier
  <2>4. ASSUME NEW m \in Mints, NEW new \in Multipliers, NEW effective \in now..MaxTime,
               ScheduleMultiplier(m, new, effective)
        PROVE  IInv'
    <3>1. UNCHANGED <<now, price_data>>
      BY <2>4 DEF ScheduleMultiplier
    <3>2. MultiplierIsSeen' /\ scaled_ui' \in [Mints -> ScaledUi]
      BY <1>1, <2>4, ScheduleKeepsMultiplier
    <3> QED  BY <1>1, <2>1, <2>2, <3>1, <3>2 DEF IInv, Types, QuotesAreOwn
  <2>5. CASE Tick
    <3>1. UNCHANGED <<price_data, scaled_ui>> /\ now' \in Nat
      BY <1>1, <2>5 DEF Tick, Types
    <3>2. MultiplierIsSeen'
      BY <1>1, <2>5, TickKeepsMultiplier
    <3> QED  BY <1>1, <2>1, <2>2, <3>1, <3>2 DEF IInv, Types, QuotesAreOwn
  <2> QED  BY <1>4, <2>3, <2>4, <2>5 DEF EnvironmentStep
<1>5. CASE UNCHANGED vars
  <2>1. UNCHANGED <<now, price_data, scaled_ui, position, in_force, remaining, outcome>>
    BY <1>5 DEF vars
  <2>2. Valued(remaining)' = Valued(remaining)
    BY <2>1, ValuedStands
  <2> QED  BY <1>1, <2>1, <2>2
           DEF IInv, Types, OutcomeIsValued, QuotesAreOwn, MultiplierIsSeen, ReadMultiplier
<1> QED  BY <1>2, <1>3, <1>4, <1>5 DEF Next

\* The invariant holds throughout.
LEMMA InvariantHolds == Spec => []IInv
  BY InitIInv, NextIInv, PTL DEF Spec

-----------------------------------------------------------------------------
(* What an accepted valuation is made of *)

\* The parts of an accepted valuation, slot by slot.
LEMMA OutcomeInClosedForm ==
  ASSUME IInv, outcome.accepted
  PROVE  /\ position \in Seq(Mints) /\ remaining \in Seq(SuppliedAccount)
         /\ outcome.values = Visited(remaining, Len(position))
         /\ outcome.ngn = Scaled(price_data[Market.ngn_feed].quote)
         /\ Len(remaining) = Before(Len(position) + 1)
         /\ \A j \in 1..Len(position) : SlotAccepted(remaining, Before(j) + 1, position[j])
         /\ ReadNgnPrice
<1>1. position \in Seq(Mints) /\ remaining \in Seq(SuppliedAccount)
  BY ValuationConstants DEF IInv, Types
<1>2. outcome = Valued(remaining) /\ Valued(remaining).accepted
  BY DEF IInv, OutcomeIsValued, NoOutcome
<1>3. /\ Valued(remaining) = [accepted |-> TRUE, values |-> Visited(remaining, Len(position)),
                              ngn |-> Scaled(price_data[Market.ngn_feed].quote)]
      /\ Len(remaining) = Before(Len(position) + 1)
      /\ \A j \in 1..Len(position) : SlotAccepted(remaining, Before(j) + 1, position[j])
      /\ ReadNgnPrice
  BY <1>1, <1>2, AcceptedListInClosedForm
<1> QED  BY <1>1, <1>2, <1>3

\* Two consecutive elements of a sequence.
LEMMA TwoOf ==
  ASSUME NEW S, NEW s \in Seq(S), NEW b \in Nat, b + 2 \in 1..Len(s)
  PROVE  SubSeq(s, b + 1, b + 2) = <<s[b + 1], s[b + 2]>>
<1> DEFINE t == SubSeq(s, b + 1, b + 2)
<1>1. \A i \in (b + 1)..(b + 2) : s[i] \in S
  OBVIOUS
<1>2. /\ t \in Seq(S) /\ Len(t) = 2
      /\ \A i \in 1..2 : t[i] = s[(b + 1) + i - 1]
  BY <1>1, SubSeqProperties
<1>3. t[1] = s[b + 1] /\ t[2] = s[b + 2]
  BY <1>2
<1> HIDE DEF t
<1>4. t = <<s[b + 1], s[b + 2]>>
  BY <1>2, <1>3
<1> QED  BY <1>4 DEF t

\* Three consecutive elements of a sequence.
LEMMA ThreeOf ==
  ASSUME NEW S, NEW s \in Seq(S), NEW b \in Nat, b + 3 \in 1..Len(s)
  PROVE  SubSeq(s, b + 1, b + 3) = <<s[b + 1], s[b + 2], s[b + 3]>>
<1> DEFINE t == SubSeq(s, b + 1, b + 3)
<1>1. \A i \in (b + 1)..(b + 3) : s[i] \in S
  OBVIOUS
<1>2. /\ t \in Seq(S) /\ Len(t) = 3
      /\ \A i \in 1..3 : t[i] = s[(b + 1) + i - 1]
  BY <1>1, SubSeqProperties
<1>3. t[1] = s[b + 1] /\ t[2] = s[b + 2] /\ t[3] = s[b + 3]
  BY <1>2
<1> HIDE DEF t
<1>4. t = <<s[b + 1], s[b + 2], s[b + 3]>>
  BY <1>2, <1>3
<1> QED  BY <1>4 DEF t

\* A pair and one more.
LEMMA ThirdOfThree ==
  ASSUME NEW x, NEW y, NEW z
  PROVE  <<x, y>> \o <<z>> = <<x, y, z>>
<1> DEFINE s == <<x, y>> \o <<z>>
<1>1. <<x, y>> \in Seq({x, y, z}) /\ <<z>> \in Seq({x, y, z})
  OBVIOUS
<1>2. s \in Seq({x, y, z}) /\ Len(s) = 3 /\ s[1] = x /\ s[2] = y /\ s[3] = z
  BY <1>1, ConcatProperties
<1> HIDE DEF s
<1>3. s = <<x, y, z>>
  BY <1>2
<1> QED  BY <1>3 DEF s

\* The accounts of one accepted slot are the group of its mint and its price account.
LEMMA SlotIsItsGroup ==
  ASSUME NEW list \in Seq(SuppliedAccount), NEW b \in Nat, NEW m \in Mints,
         SlotAccepted(list, b + 1, m)
  PROVE  /\ list[b + 2].of \in PriceAccounts
         /\ b + Stride(m) \in 0..Len(list)
         /\ SubSeq(list, b + 1, b + Stride(m)) = Group(m, list[b + 2].of)
<1> DEFINE a == list[b + 2].of
           sub == SubSeq(list, b + 1, b + Stride(m))
<1>1. /\ Len(list) \in Nat /\ (b + 1) + 1 = b + 2 /\ (b + 1) + 2 = b + 3
      /\ \A i \in 1..Len(list) : list[i] \in SuppliedAccount
  OBVIOUS
<1>2. /\ b + 1 \in 1..Len(list) /\ list[b + 1].role = "asset" /\ list[b + 1].of = m
      /\ b + 2 \in 1..Len(list) /\ list[b + 2].role = "price"
  BY <1>1 DEF SlotAccepted, Supplied
<1>3. list[b + 1] = AssetAccount(m)
  BY <1>1, <1>2 DEF SuppliedAccount, AssetAccount
<1>4. a \in PriceAccounts /\ list[b + 2] = PriceAccount(a)
  BY <1>1, <1>2 DEF SuppliedAccount, PriceAccount
<1>5. CASE Asset[m].kind = "XStock"
  <2>1. b + 3 \in 1..Len(list) /\ list[b + 3].role = "mint" /\ list[b + 3].of = m
    BY <1>1, <1>5 DEF SlotAccepted, Supplied
  <2>2. list[b + 3] = MintAccount(m)
    BY <1>1, <2>1 DEF SuppliedAccount, MintAccount
  <2>3. Stride(m) = 3
    BY <1>5 DEF Stride
  <2>4. sub = <<list[b + 1], list[b + 2], list[b + 3]>>
    BY <2>1, <2>3, ThreeOf
  <2>5. Group(m, a) = <<AssetAccount(m), PriceAccount(a), MintAccount(m)>>
    <3>1. Group(m, a) = <<AssetAccount(m), PriceAccount(a)>> \o <<MintAccount(m)>>
      BY <1>5 DEF Group
    <3> QED  BY <3>1, ThirdOfThree
  <2> QED  BY <1>1, <1>3, <1>4, <2>1, <2>2, <2>3, <2>4, <2>5
<1>6. CASE Asset[m].kind # "XStock"
  <2>1. Stride(m) = 2
    BY <1>6 DEF Stride
  <2>2. sub = <<list[b + 1], list[b + 2]>>
    BY <1>2, <2>1, TwoOf
  <2>3. Group(m, a) = <<AssetAccount(m), PriceAccount(a)>>
    <3>1. Group(m, a) = <<AssetAccount(m), PriceAccount(a)>> \o << >>
      BY <1>6 DEF Group
    <3> HIDE DEF a
    <3> QED  BY <3>1
  <2> QED  BY <1>1, <1>2, <1>3, <1>4, <2>1, <2>2, <2>3
<1> QED  BY <1>5, <1>6

\* The accounts a valuation accepts are exactly the groups of the used slots, in slot
\* order, and each slot is valued once at the price its group names (valuation.rs:27-32).
THEOREM AcceptedListStaysTheSlots == Spec => []AcceptedListIsTheSlots
<1>1. IInv => AcceptedListIsTheSlots
  <2> SUFFICES ASSUME IInv, outcome.accepted
               PROVE  /\ Len(remaining) = Before(Len(position) + 1)
                      /\ Len(outcome.values) = Len(position)
                      /\ \A i \in DOMAIN position : \E a \in PriceAccounts :
                            /\ SubSeq(remaining, Before(i) + 1, Before(i + 1)) = Group(position[i], a)
                            /\ outcome.values[i].mint = position[i]
                            /\ outcome.values[i].price = Scaled(price_data[a].quote)
    BY DEF AcceptedListIsTheSlots
  <2>1. /\ position \in Seq(Mints) /\ remaining \in Seq(SuppliedAccount)
        /\ outcome.values = Visited(remaining, Len(position))
        /\ Len(remaining) = Before(Len(position) + 1)
        /\ \A j \in 1..Len(position) : SlotAccepted(remaining, Before(j) + 1, position[j])
    BY OutcomeInClosedForm
  <2>2. Len(outcome.values) = Len(position)
    BY <2>1 DEF Visited
  <2>3. ASSUME NEW i \in DOMAIN position
        PROVE  \E a \in PriceAccounts :
                  /\ SubSeq(remaining, Before(i) + 1, Before(i + 1)) = Group(position[i], a)
                  /\ outcome.values[i].mint = position[i]
                  /\ outcome.values[i].price = Scaled(price_data[a].quote)
    <3>1. i \in 1..Len(position) /\ position[i] \in Mints
      BY <2>1
    <3>2. Before(i) \in Nat /\ Before(i + 1) = Before(i) + Stride(position[i])
      BY <2>1, <3>1, BeforeAdvances
    <3>3. SlotAccepted(remaining, Before(i) + 1, position[i])
      BY <2>1, <3>1
    <3>4. /\ remaining[Before(i) + 2].of \in PriceAccounts
          /\ SubSeq(remaining, Before(i) + 1, Before(i) + Stride(position[i]))
                = Group(position[i], remaining[Before(i) + 2].of)
      BY <2>1, <3>1, <3>2, <3>3, SlotIsItsGroup
    <3>5. outcome.values[i] = SlotValue(remaining, Before(i) + 1, position[i])
      BY <2>1, <3>1 DEF Visited
    <3>6. /\ outcome.values[i].mint = position[i]
          /\ outcome.values[i].price = Scaled(price_data[remaining[(Before(i) + 1) + 1].of].quote)
      BY <3>5 DEF SlotValue
    <3>7. (Before(i) + 1) + 1 = Before(i) + 2
      BY <3>2
    <3> QED  BY <3>2, <3>4, <3>6, <3>7
  <2> QED  BY <2>1, <2>2, <2>3
<1> QED  BY <1>1, InvariantHolds, PTL

\* What an accepted valuation read for one slot.
LEMMA SlotFacts ==
  ASSUME IInv, outcome.accepted, NEW i \in DOMAIN position
  PROVE  /\ position[i] \in Mints
         /\ UsedAccount(i) \in PriceAccounts
         /\ IsPinned(Asset[position[i]], UsedAccount(i))
         /\ \/ /\ Asset[position[i]].price_source = "Pyth"
               /\ ReadPythPrice(UsedAccount(i), Asset[position[i]])
            \/ /\ Asset[position[i]].price_source = "Switchboard"
               /\ ReadCollateralPrice(UsedAccount(i), Asset[position[i]])
         /\ outcome.values[i] = SlotValue(remaining, Before(i) + 1, position[i])
         /\ outcome.values[i].mint = position[i]
         /\ outcome.values[i].price = Scaled(price_data[UsedAccount(i)].quote)
<1>1. /\ position \in Seq(Mints) /\ remaining \in Seq(SuppliedAccount)
      /\ outcome.values = Visited(remaining, Len(position))
      /\ \A j \in 1..Len(position) : SlotAccepted(remaining, Before(j) + 1, position[j])
  BY OutcomeInClosedForm
<1>2. i \in 1..Len(position) /\ position[i] \in Mints
  BY <1>1
<1>3. Before(i) \in Nat
  BY <1>1, <1>2, BeforeAdvances
<1>4. (Before(i) + 1) + 1 = Before(i) + 2 /\ remaining[(Before(i) + 1) + 1].of = UsedAccount(i)
  BY <1>3 DEF UsedAccount
<1>5. SlotAccepted(remaining, Before(i) + 1, position[i])
  BY <1>1, <1>2
<1>6. UsedAccount(i) \in PriceAccounts
  BY <1>1, <1>2, <1>3, <1>5, SlotIsItsGroup DEF UsedAccount
<1>7. /\ IsPinned(Asset[position[i]], UsedAccount(i))
      /\ CASE Asset[position[i]].price_source = "Pyth" ->
                ReadPythPrice(UsedAccount(i), Asset[position[i]])
           [] Asset[position[i]].price_source = "Switchboard" ->
                ReadCollateralPrice(UsedAccount(i), Asset[position[i]])
  BY <1>4, <1>5 DEF SlotAccepted
<1>8. Asset[position[i]].price_source \in {"Pyth", "Switchboard"}
  BY <1>2, ValuationConstants DEF Terms
<1>9. outcome.values[i] = SlotValue(remaining, Before(i) + 1, position[i])
  BY <1>1, <1>2 DEF Visited
<1>10. /\ outcome.values[i].mint = position[i]
       /\ outcome.values[i].price = Scaled(price_data[UsedAccount(i)].quote)
  BY <1>4, <1>9 DEF SlotValue
<1> QED  BY <1>2, <1>6, <1>7, <1>8, <1>9, <1>10

-----------------------------------------------------------------------------
(* Prices *)

\* A time within its window is at most that old.
LEMMA FreshIsYoung ==
  ASSUME now \in Nat, NEW time \in Nat, NEW window \in Nat, IsFresh(time, window)
  PROVE  now - time <= window
  BY DEF IsFresh, SatSub

\* Every price a valuation uses is no older than the asset allows, the NGN price too, and a
\* quote of the asset's own feed, whoever posted or withheld what.  The hash that binds a
\* pull feed is compared when it is read (switchboard.rs:103-106), so it settles whose job
\* the result is unless the account was pointed away and back since that result.
THEOREM PricesStayOwnAndFresh == Spec => []PricesAreOwnAndFresh
<1>1. IInv => PricesAreOwnAndFresh
  <2> SUFFICES ASSUME IInv, outcome.accepted PROVE PricesAreOwnAndFresh
    BY DEF PricesAreOwnAndFresh
  <2>1. now \in Nat /\ price_data \in [PriceAccounts -> PriceData] /\ QuotesAreOwn
    BY DEF IInv, Types
  <2>2. ASSUME NEW i \in DOMAIN position
        PROVE  LET t == Asset[position[i]]
                   data == price_data[UsedAccount(i)]
               IN IF t.price_source = "Pyth"
                  THEN data.of = t.pyth_feed_id /\ now - data.time <= t.max_price_age_seconds
                  ELSE /\ data.of = t.sb_feed_hash \/ data.turned
                       /\ now - data.time <= t.sb_max_stale_slots
    <3> DEFINE t == Asset[position[i]]
               a == UsedAccount(i)
    <3>1. /\ position[i] \in Mints /\ a \in PriceAccounts
          /\ \/ t.price_source = "Pyth" /\ ReadPythPrice(a, t)
             \/ t.price_source = "Switchboard" /\ ReadCollateralPrice(a, t)
      BY SlotFacts
    <3>2. /\ t \in Terms /\ SourceIsCoherent(t)
          /\ price_data[a] \in PriceData /\ QuoteIsOwn(price_data[a])
      BY <2>1, <3>1, ValuationConstants DEF QuotesAreOwn
    <3>3. /\ price_data[a].time \in Nat
          /\ t.max_price_age_seconds \in Nat /\ t.sb_max_stale_slots \in Nat
      BY <3>2 DEF Terms, PriceData
    <3> HIDE DEF a, t
    <3>4. CASE t.price_source = "Pyth"
      <4>1. ReadPythPrice(a, t)
        BY <3>1, <3>4
      <4>2. price_data[a].of = t.pyth_feed_id
        BY <3>2, <3>4, <4>1 DEF ReadPythPrice, QuoteIsOwn, SourceIsCoherent
      <4>3. now - price_data[a].time <= t.max_price_age_seconds
        BY <2>1, <3>3, <4>1, FreshIsYoung DEF ReadPythPrice
      <4> QED  BY <3>4, <4>2, <4>3 DEF a, t
    <3>5. CASE t.price_source # "Pyth"
      <4>1. ReadCollateralPrice(a, t) /\ t.price_source = "Switchboard"
        BY <3>1, <3>5
      <4>2. /\ price_data[a].program = "Switchboard"
            /\ price_data[a].feed = t.sb_feed_hash
            /\ IsFresh(price_data[a].time, t.sb_max_stale_slots)
        BY <4>1 DEF ReadCollateralPrice, ReadPullFeed, BoundHash
      <4>3. price_data[a].of = t.sb_feed_hash \/ price_data[a].turned
        BY <3>2, <4>1, <4>2 DEF QuoteIsOwn, SourceIsCoherent
      <4>4. now - price_data[a].time <= t.sb_max_stale_slots
        BY <2>1, <3>3, <4>2, FreshIsYoung
      <4> QED  BY <3>5, <4>3, <4>4 DEF a, t
    <3> QED  BY <3>4, <3>5
  <2>3. now - price_data[Market.ngn_feed].time <= Market.ngn_max_stale_slots
    <3>1. ReadNgnPrice
      BY OutcomeInClosedForm
    <3>2. IsFresh(price_data[Market.ngn_feed].time, Market.ngn_max_stale_slots)
      BY <3>1 DEF ReadNgnPrice, ReadPullFeed
    <3>3. price_data[Market.ngn_feed].time \in Nat /\ Market.ngn_max_stale_slots \in Nat
      BY <2>1, ValuationConstants DEF PriceData
    <3> QED  BY <2>1, <3>2, <3>3, FreshIsYoung
  <2> QED  BY <2>2, <2>3 DEF PricesAreOwnAndFresh
<1> QED  BY <1>1, InvariantHolds, PTL

\* A scaled mint is valued at the multiplier its holders see, at the second a scheduled
\* change takes effect and after further changes are scheduled (scaled_ui.rs:13-16).
THEOREM MultiplierStaysInForce == Spec => []MultiplierIsInForce
<1>1. IInv => MultiplierIsInForce
  <2> SUFFICES ASSUME IInv, outcome.accepted, NEW i \in DOMAIN outcome.values,
                      Asset[outcome.values[i].mint].kind = "XStock"
               PROVE  outcome.values[i].multiplier = in_force[outcome.values[i].mint]
    BY DEF MultiplierIsInForce
  <2>1. i \in DOMAIN position
    BY OutcomeInClosedForm DEF Visited
  <2>2. /\ position[i] \in Mints /\ outcome.values[i].mint = position[i]
        /\ outcome.values[i] = SlotValue(remaining, Before(i) + 1, position[i])
    BY <2>1, SlotFacts
  <2>3. outcome.values[i].multiplier = ReadMultiplier(position[i])
    BY <2>2 DEF SlotValue, Multiplier
  <2> QED  BY <2>2, <2>3 DEF IInv, MultiplierIsSeen
<1> QED  BY <1>1, InvariantHolds, PTL

\* Where every used asset is pinned, the caller has no choice: all lists a valuation
\* accepts give the same values (valuation.rs:31-32).
THEOREM PinnedLeavesNoChoice == Spec => []CallerCannotChoosePinned
<1>1. IInv => CallerCannotChoosePinned
  <2> SUFFICES ASSUME IInv, outcome.accepted,
                      \A i \in DOMAIN position : Asset[position[i]].price_account # NoPin,
                      NEW list \in Lists[position], Valued(list).accepted
               PROVE  Valued(list) = outcome
    BY DEF CallerCannotChoosePinned, Valued
  <2>1. /\ position \in Seq(Mints) /\ remaining \in Seq(SuppliedAccount)
        /\ list \in Seq(SuppliedAccount)
    BY ValuationConstants DEF IInv, Types
  <2>2. outcome = Valued(remaining) /\ Valued(remaining).accepted
    BY DEF IInv, OutcomeIsValued, NoOutcome
  <2> DEFINE n == Len(position)
             ngn == Scaled(price_data[Market.ngn_feed].quote)
  <2>3. /\ Valued(list) = [accepted |-> TRUE, values |-> Visited(list, n), ngn |-> ngn]
        /\ \A j \in 1..n : SlotAccepted(list, Before(j) + 1, position[j])
    BY <2>1, AcceptedListInClosedForm
  <2>4. /\ outcome = [accepted |-> TRUE, values |-> Visited(remaining, n), ngn |-> ngn]
        /\ \A j \in 1..n : SlotAccepted(remaining, Before(j) + 1, position[j])
    BY <2>1, <2>2, AcceptedListInClosedForm
  <2>5. ASSUME NEW j \in 1..n
        PROVE  SlotValue(list, Before(j) + 1, position[j])
                  = SlotValue(remaining, Before(j) + 1, position[j])
    <3>1. /\ IsPinned(Asset[position[j]], list[(Before(j) + 1) + 1].of)
          /\ IsPinned(Asset[position[j]], remaining[(Before(j) + 1) + 1].of)
      BY <2>3, <2>4 DEF SlotAccepted
    <3>2. Asset[position[j]].price_account # NoPin
      BY <2>1
    <3>3. list[(Before(j) + 1) + 1].of = remaining[(Before(j) + 1) + 1].of
      BY <3>1, <3>2 DEF IsPinned
    <3> QED  BY <3>3 DEF SlotValue
  <2>6. Visited(list, n) = Visited(remaining, n)
    BY <2>5 DEF Visited
  <2> QED  BY <2>3, <2>4, <2>6
<1> QED  BY <1>1, InvariantHolds, PTL

-----------------------------------------------------------------------------
(* Rounding: math/price.rs *)

\* What a floor drops, and what a ceiling adds, is less than one divisor.
LEMMA DivisionBounds ==
  ASSUME NEW a \in Nat, NEW d \in Nat \ {0}
  PROVE  /\ a \div d \in Nat
         /\ (a \div d) * d <= a
         /\ a < (a \div d) * d + d
<1>1. a = (a \div d) * d + (a % d) /\ a \div d \in Nat
  BY SMT
<1>2. a % d \in 0..(d - 1)
  BY SMT
<1>3. (a \div d) * d \in Nat
  BY <1>1, SMT
<1> DEFINE q == (a \div d) * d
           r == a % d
<1> HIDE DEF q, r
<1>4. a = q + r /\ r \in 0..(d - 1) /\ q \in Nat
  BY <1>1, <1>2, <1>3 DEF q, r
<1>5. q <= a /\ a < q + d
  BY <1>4
<1> QED  BY <1>1, <1>5 DEF q

\* What rounding up gives, from below and from above.
LEMMA CeilingBounds ==
  ASSUME NEW a \in Nat, NEW d \in Nat \ {0}
  PROVE  /\ MulDivCeil(a, 1, d) \in Nat
         /\ a <= MulDivCeil(a, 1, d) * d
<1> DEFINE c == (a * 1 + d - 1) \div d
           b == a * 1 + d - 1
<1>1. b \in Nat /\ b = a + d - 1
  OBVIOUS
<1>2. b \div d \in Nat /\ b < (b \div d) * d + d
  BY <1>1, DivisionBounds
<1> DEFINE q == (b \div d) * d
<1>3. q \in Nat
  BY <1>2, SMT
<1> HIDE DEF q, b
<1>4. b < q + d
  BY <1>2 DEF q
<1>5. a <= q
  BY <1>1, <1>3, <1>4
<1> QED  BY <1>2, <1>5 DEF MulDivCeil, q, b

\* A usable quote with a narrow enough spread scales to a price its spread stays below.
LEMMA ScaledParts ==
  ASSUME NEW quote \in Quote, Usable(quote)
  PROVE  /\ quote.price \in Nat /\ quote.conf \in Nat
         /\ Shift(quote.exponent) >= 0 =>
              /\ Pow10[Shift(quote.exponent)] \in Nat \ {0}
              /\ Scaled(quote).price = quote.price * Pow10[Shift(quote.exponent)]
              /\ Scaled(quote).conf = quote.conf * Pow10[Shift(quote.exponent)]
         /\ ~(Shift(quote.exponent) >= 0) =>
              /\ Pow10[-Shift(quote.exponent)] \in Nat \ {0}
              /\ Scaled(quote).price = quote.price \div Pow10[-Shift(quote.exponent)]
              /\ Scaled(quote).conf = MulDivCeil(quote.conf, 1, Pow10[-Shift(quote.exponent)])
<1> DEFINE s == Shift(quote.exponent)
<1>1. quote.price \in Nat /\ quote.conf \in Nat
  BY DEF Quote, Usable
<1>2. s \in -MAX_POW10..MAX_POW10 /\ MAX_POW10 \in Nat /\ s \in Int
  BY Pow10Constants, ValuationConstants DEF Usable, Rescalable, Shift, Quote
<1> HIDE DEF s
<1>3. s >= 0 => Pow10[s] \in Nat \ {0}
  BY <1>2, Pow10Constants
<1>4. ~(s >= 0) => Pow10[-s] \in Nat \ {0}
  <2>1. ~(s >= 0) => -s \in 0..MAX_POW10
    BY <1>2
  <2> QED  BY <2>1, Pow10Constants
<1> QED  BY <1>1, <1>3, <1>4 DEF s, Scaled, Rescale, RescaleCeil

\* The confidence check keeps the spread at or below the price.
LEMMA SpreadIsBelowPrice ==
  ASSUME NEW price \in Nat, NEW conf \in Nat, NEW bps \in 0..BPS, conf * BPS <= price * bps
  PROVE  conf <= price
<1>1. BPS \in Nat \ {0}
  BY ScalesArePositive
<1>2. price * bps <= price * BPS
  BY <1>1, SMT
<1>3. conf * BPS \in Nat /\ price * bps \in Nat /\ price * BPS \in Nat
  BY <1>1, SMT
<1>4. conf * BPS <= price * BPS
  BY <1>2, <1>3
<1>5. ASSUME conf > price PROVE FALSE
  <2>1. conf >= price + 1
    BY <1>5
  <2>2. conf * BPS >= (price + 1) * BPS
    BY <1>1, <2>1, SMT
  <2>3. (price + 1) * BPS = price * BPS + BPS
    BY <1>1, SMT
  <2> QED  BY <1>1, <1>3, <1>4, <2>2, <2>3
<1> QED  BY <1>5

\* The floor of the price less the ceiling of its spread is at most what the quote says.
LEMMA LowerIsBounded ==
  ASSUME NEW quote \in Quote, Usable(quote), NEW bps \in 0..BPS,
         RequireConfidence(Scaled(quote), bps)
  PROVE  AtMost(Lower(Scaled(quote)), quote.price - quote.conf, quote.exponent)
<1> DEFINE p == quote.price
           c == quote.conf
           sp == Scaled(quote).price
           sc == Scaled(quote).conf
           s == Shift(quote.exponent)
<1>1. p \in Nat /\ c \in Nat
  BY ScaledParts
<1>2. CASE s >= 0
  <2> DEFINE d == Pow10[s]
  <2>1. d \in Nat \ {0} /\ sp = p * d /\ sc = c * d
    BY <1>2, ScaledParts
  <2>2. sp \in Nat /\ sc \in Nat
    BY <1>1, <2>1, SMT
  <2>3. sc <= sp
    BY <2>2, SpreadIsBelowPrice DEF RequireConfidence
  <2>4. Lower(Scaled(quote)) = sp - sc
    BY <2>3 DEF Lower, SatSub
  <2> HIDE DEF p, c, sp, sc, d
  <2>5. (p - c) * d = p * d - c * d
    BY <1>1, <2>1, SMT
  <2>6. Lower(Scaled(quote)) <= (p - c) * d
    BY <2>1, <2>2, <2>4, <2>5
  <2> QED  BY <1>2, <2>6 DEF AtMost, p, c, d
<1>3. CASE ~(s >= 0)
  <2> DEFINE d == Pow10[-s]
  <2>1. d \in Nat \ {0} /\ sp = p \div d /\ sc = MulDivCeil(c, 1, d)
    BY <1>3, ScaledParts
  <2>2. sp \in Nat /\ sc \in Nat /\ sp * d <= p /\ c <= sc * d
    BY <1>1, <2>1, DivisionBounds, CeilingBounds
  <2>3. sc <= sp
    BY <2>2, SpreadIsBelowPrice DEF RequireConfidence
  <2>4. Lower(Scaled(quote)) = sp - sc
    BY <2>3 DEF Lower, SatSub
  <2> HIDE DEF p, c, sp, sc, d
  <2>5. (sp - sc) * d = sp * d - sc * d /\ sp * d \in Nat /\ sc * d \in Nat
    BY <2>1, <2>2, SMT
  <2>6. Lower(Scaled(quote)) * d <= p - c
    BY <1>1, <2>2, <2>4, <2>5
  <2> QED  BY <1>3, <2>6 DEF AtMost, p, c, d
<1> QED  BY <1>2, <1>3

\* A unit more than the floor and the ceiling together is more than what the quote says.
LEMMA UpperIsBounded ==
  ASSUME NEW quote \in Quote, Usable(quote)
  PROVE  MoreThan(Upper(Scaled(quote)) + 1, quote.price + quote.conf, quote.exponent)
<1> DEFINE p == quote.price
           c == quote.conf
           sp == Scaled(quote).price
           sc == Scaled(quote).conf
           s == Shift(quote.exponent)
<1>1. p \in Nat /\ c \in Nat /\ Upper(Scaled(quote)) = sp + sc
  BY ScaledParts DEF Upper
<1>2. CASE s >= 0
  <2> DEFINE d == Pow10[s]
  <2>1. d \in Nat \ {0} /\ sp = p * d /\ sc = c * d
    BY <1>2, ScaledParts
  <2>2. (p + c) * d = p * d + c * d /\ p * d \in Nat /\ c * d \in Nat
    BY <1>1, <2>1, SMT
  <2> HIDE DEF p, c, sp, sc, d
  <2>3. (sp + sc) + 1 > (p + c) * d
    BY <2>1, <2>2
  <2> QED  BY <1>1, <1>2, <2>3 DEF MoreThan, p, c, d
<1>3. CASE ~(s >= 0)
  <2> DEFINE d == Pow10[-s]
  <2>1. d \in Nat \ {0} /\ sp = p \div d /\ sc = MulDivCeil(c, 1, d)
    BY <1>3, ScaledParts
  <2>2. sp \in Nat /\ sc \in Nat /\ p < sp * d + d /\ c <= sc * d
    BY <1>1, <2>1, DivisionBounds, CeilingBounds
  <2> HIDE DEF p, c, sp, sc, d
  <2>3. /\ ((sp + sc) + 1) * d = sp * d + sc * d + d
        /\ sp * d \in Nat /\ sc * d \in Nat
    BY <2>1, <2>2, SMT
  <2>4. ((sp + sc) + 1) * d > p + c
    BY <1>1, <2>1, <2>2, <2>3
  <2> QED  BY <1>1, <1>3, <2>4 DEF MoreThan, p, c, d
<1> QED  BY <1>2, <1>3

\* Rounding never counts collateral above what its quote less its confidence says, and
\* debt at less than a unit below what the NGN quote with its spread says.
THEOREM RoundingStaysBounded == Spec => []RoundingIsBounded
<1>1. IInv => RoundingIsBounded
  <2> SUFFICES ASSUME IInv, outcome.accepted PROVE RoundingIsBounded
    BY DEF RoundingIsBounded
  <2>1. \A a \in PriceAccounts : price_data[a].quote \in Quote
    BY DEF IInv, Types, PriceData
  <2>2. ASSUME NEW i \in DOMAIN position
        PROVE  LET quote == price_data[UsedAccount(i)].quote IN
               AtMost(Lower(outcome.values[i].price), quote.price - quote.conf, quote.exponent)
    <3> DEFINE quote == price_data[UsedAccount(i)].quote
               bps == Asset[position[i]].max_conf_bps
    <3>1. /\ position[i] \in Mints /\ UsedAccount(i) \in PriceAccounts
          /\ outcome.values[i].price = Scaled(quote)
          /\ \/ ReadPythPrice(UsedAccount(i), Asset[position[i]])
             \/ ReadCollateralPrice(UsedAccount(i), Asset[position[i]])
      BY SlotFacts
    <3>2. Usable(quote) /\ RequireConfidence(Scaled(quote), bps)
      BY <3>1 DEF ReadPythPrice, ReadCollateralPrice, ReadPullFeed
    <3>3. quote \in Quote /\ bps \in 0..BPS
      BY <2>1, <3>1, ValuationConstants DEF Terms
    <3> HIDE DEF quote, bps
    <3>4. AtMost(Lower(Scaled(quote)), quote.price - quote.conf, quote.exponent)
      BY <3>2, <3>3, LowerIsBounded
    <3> QED  BY <3>1, <3>4 DEF quote
  <2>3. LET quote == price_data[Market.ngn_feed].quote IN
        MoreThan(Upper(outcome.ngn) + 1, quote.price + quote.conf, quote.exponent)
    <3> DEFINE quote == price_data[Market.ngn_feed].quote
    <3>1. ReadNgnPrice /\ outcome.ngn = Scaled(quote)
      BY OutcomeInClosedForm
    <3>2. Usable(quote) /\ quote \in Quote
      BY <2>1, <3>1, ValuationConstants DEF ReadNgnPrice, ReadPullFeed
    <3> HIDE DEF quote
    <3>3. MoreThan(Upper(Scaled(quote)) + 1, quote.price + quote.conf, quote.exponent)
      BY <3>2, UpperIsBounded
    <3> QED  BY <3>1, <3>3 DEF quote
  <2> QED  BY <2>2, <2>3 DEF RoundingIsBounded
<1> QED  BY <1>1, InvariantHolds, PTL
=============================================================================
