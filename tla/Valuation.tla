----------------------------- MODULE Valuation -----------------------------
(***************************************************************************)
(* How a position is priced: the walk over the accounts a caller supplies, *)
(* the two oracle sources, and the multiplier of a scaled mint.            *)
(*                                                                         *)
(* A valuation changes nothing.  What moves is around it: price accounts   *)
(* are posted, cranked and repointed, multipliers are scheduled, time      *)
(* passes, and whoever calls chooses the accounts.  Slots and seconds are  *)
(* one clock here.  Lending takes the outcome of a valuation as an input.  *)
(***************************************************************************)
EXTENDS LoanMath, Sequences

CONSTANTS
    Mints,           \* listed mints
    Asset,           \* [Mints -> the asset's terms]
    Market,          \* the market's terms for its NGN feed
    PythAccounts,    \* accounts of the Pyth receiver
    PullFeeds,       \* accounts of the Switchboard program
    Stray,           \* a feed nobody lists
    NoPin,           \* an asset that is pinned to no price account
    Positions,       \* the used slots of a position, in slot order
    USD_DECIMALS,
    MAX_POW10,       \* the greatest power of ten that fits the integers of the code
    Pow10,           \* [0..MAX_POW10 -> the powers of ten]
    MAX_MULTIPLIER

\* Inputs of the environment.
CONSTANTS
    Lists,           \* [Positions -> account lists a caller supplies]
    Posts,           \* updates that may be posted
    Cranks,          \* results that oracles may write
    Repoints,        \* jobs that a pull feed's authority may point it at, away and back
    Multipliers,     \* multipliers an issuer may schedule, at MULTIPLIER_SCALE
    InitialData,     \* [price accounts -> data]
    MaxTime          \* bound: the clock

PriceAccounts == PythAccounts \cup PullFeeds

Quote == [price: Int, conf: Int, exponent: Int]

\* History that no reader sees: "of" is the feed the quote is really of, "turned" whether a
\* pull feed was pointed at another job since its last result.
PriceData ==
    [program: {"Pyth", "Switchboard", "Other"}, feed: STRING, of: STRING, turned: BOOLEAN,
     quote: Quote, time: Nat, full: BOOLEAN, samples: Nat]

Post == [account: PythAccounts, feed: STRING, quote: Quote, full: BOOLEAN]
CrankResult == [account: PullFeeds, quote: Quote, samples: Nat]
Pointing == [account: PullFeeds, feed: STRING]

\* A copy is an asset account that is not at its own address.
SuppliedAccount ==
    [role: {"asset", "mint", "copy"}, of: Mints] \cup [role: {"price"}, of: PriceAccounts]

Terms ==
    [kind: {"Standard", "XStock"}, price_source: {"Pyth", "Switchboard"},
     pyth_feed_id: STRING, max_price_age_seconds: Nat, sb_feed_hash: STRING,
     sb_max_stale_slots: Nat, sb_min_samples: Nat, price_account: PriceAccounts \cup {NoPin},
     max_conf_bps: 0..BPS, max_multiplier: Nat, borrow_paused: BOOLEAN]

\* Incoherent terms are refused when an asset is listed or updated: each source has its
\* identity and its freshness bound, and a pull feed, which proves nothing, is pinned.
SourceIsCoherent(t) ==
    \/ /\ t.price_source = "Pyth"
       /\ t.pyth_feed_id # Stray
       /\ t.max_price_age_seconds > 0
    \/ /\ t.price_source = "Switchboard"
       /\ t.sb_feed_hash # Stray
       /\ t.price_account # NoPin
       /\ t.sb_max_stale_slots > 0
       /\ t.sb_min_samples >= 1

\* The data of an account carries a feed's name only if the quote is that feed's, unless
\* it is an update that was not fully verified or a pull feed turned since its result.
QuoteIsOwn(data) ==
    data.feed # Stray =>
        CASE data.program = "Pyth" -> data.full => data.of = data.feed
          [] data.program = "Switchboard" -> data.turned \/ data.of = data.feed
          [] OTHER -> TRUE

ASSUME ValuationConstants ==
    /\ PythAccounts \cap PullFeeds = {}
    /\ NoPin \notin PriceAccounts /\ Stray \in STRING
    /\ Asset \in [Mints -> Terms]
    /\ \A m \in Mints : SourceIsCoherent(Asset[m])
    /\ Positions \subseteq Seq(Mints)
    /\ \A p \in Positions : Lists[p] \subseteq Seq(SuppliedAccount)
    /\ Market.ngn_feed \in PriceAccounts /\ Market.ngn_max_stale_slots \in Nat
    /\ Market.ngn_max_spread_bps \in 0..BPS
    /\ {USD_DECIMALS, MAX_MULTIPLIER, MaxTime} \subseteq Nat
    /\ Multipliers \subseteq Nat
    /\ Posts \subseteq Post /\ Cranks \subseteq CrankResult /\ Repoints \subseteq Pointing
    /\ InitialData \in [PriceAccounts -> PriceData]
    /\ \A a \in PriceAccounts : QuoteIsOwn(InitialData[a])

ASSUME Pow10Constants ==
    /\ MAX_POW10 \in Nat
    /\ Pow10 \in [0..MAX_POW10 -> Nat \ {0}]
    /\ Pow10[0] = 1 /\ \A n \in 1..MAX_POW10 : Pow10[n] = 10 * Pow10[n - 1]

VARIABLES
    now,
    price_data,      \* [PriceAccounts -> what the account holds]
    scaled_ui,       \* [Mints -> multiplier, new_multiplier, effective]
    position,        \* used slots of the position that is valued
    remaining,       \* the accounts the caller supplied
    outcome,         \* what the transaction's valuation gave
    in_force         \* history: the multiplier holders of the mint see

vars == <<now, price_data, scaled_ui, position, remaining, outcome, in_force>>

NoOutcome == [accepted |-> FALSE, values |-> <<>>, ngn |-> [price |-> 0, conf |-> 0]]

-----------------------------------------------------------------------------
(* Reading one price: math/price.rs and oracle/ *)

Shift(exponent) == exponent + USD_DECIMALS

\* An exponent beyond the powers of ten is refused.
Rescalable(exponent) == Shift(exponent) \in -MAX_POW10..MAX_POW10

Rescale(value, exponent) ==
    IF Shift(exponent) >= 0 THEN value * Pow10[Shift(exponent)]
                            ELSE value \div Pow10[-Shift(exponent)]

\* Mutant: rounded as the price is.
RescaleDown(value, exponent) == Rescale(value, exponent)

\* The uncertainty is rounded up.
RescaleCeil(value, exponent) ==
    IF Shift(exponent) >= 0 THEN value * Pow10[Shift(exponent)]
                            ELSE MulDivCeil(value, 1, Pow10[-Shift(exponent)])

Scaled(quote) ==
    [price |-> Rescale(quote.price, quote.exponent), conf |-> RescaleCeil(quote.conf, quote.exponent)]

Usable(quote) ==
    /\ quote.price > 0 /\ quote.conf >= 0
    /\ Rescalable(quote.exponent)
    /\ Scaled(quote).price > 0

RequireConfidence(price, max_bps) == price.conf * BPS <= price.price * max_bps

\* An age is a saturating difference: a time ahead of the clock is fresh.
IsFresh(time, window) == SatSub(now, time) <= window

ReadPythPrice(a, t) ==
    LET data == price_data[a] IN
    /\ data.program = "Pyth"
    /\ data.full
    /\ data.feed = t.pyth_feed_id
    /\ IsFresh(data.time, t.max_price_age_seconds)
    /\ Usable(data.quote)
    /\ RequireConfidence(Scaled(data.quote), t.max_conf_bps)

ReadPullFeed(a, expected_key, hashes, max_stale_slots, min_samples, max_spread_bps) ==
    LET data == price_data[a] IN
    /\ a = expected_key
    /\ data.program = "Switchboard"
    /\ data.feed \in hashes
    /\ data.time > 0 /\ IsFresh(data.time, max_stale_slots)
    /\ data.samples >= min_samples
    /\ Usable(data.quote)
    /\ RequireConfidence(Scaled(data.quote), max_spread_bps)

\* Mutant: the address alone identifies the feed.
AnyHash(t) == {t.sb_feed_hash, Stray}

BoundHash(t) == {t.sb_feed_hash}

ReadCollateralPrice(a, t) ==
    ReadPullFeed(a, t.price_account, BoundHash(t), t.sb_max_stale_slots, t.sb_min_samples,
                 t.max_conf_bps)

\* The NGN feed is bound by its address only.
ReadNgnPrice ==
    ReadPullFeed(Market.ngn_feed, Market.ngn_feed, {price_data[Market.ngn_feed].feed},
                 Market.ngn_max_stale_slots, Market.ngn_min_samples, Market.ngn_max_spread_bps)

\* Mutant: the field alone.
StoredMultiplier(m) == scaled_ui[m].multiplier

ReadMultiplier(m) ==
    IF now >= scaled_ui[m].effective THEN scaled_ui[m].new_multiplier ELSE scaled_ui[m].multiplier

\* What cannot price collateral scales to nothing, or past the ceiling of all mints.
MultiplierIsUsable(m) == ReadMultiplier(m) \in 1..MAX_MULTIPLIER

-----------------------------------------------------------------------------
(* The walk: valuation.rs *)

\* Mutant: any account of the right feed will do.
Unpinned(t, a) == TRUE

IsPinned(t, a) == t.price_account = NoPin \/ a = t.price_account

Supplied(list, i, role) == i \in 1..Len(list) /\ list[i].role = role

OverMultiplierCeiling(t, multiplier) == t.max_multiplier # 0 /\ multiplier > t.max_multiplier

Stride(m) == IF Asset[m].kind = "XStock" THEN 3 ELSE 2

Multiplier(m) == IF Asset[m].kind = "XStock" THEN ReadMultiplier(m) ELSE MULTIPLIER_SCALE

\* The accounts from the cursor on are this slot's: the listed asset at its own address,
\* a price account its terms accept, and the mint itself if it is scaled.
SlotAccepted(list, cursor, m) ==
    LET t == Asset[m] IN
    /\ Supplied(list, cursor, "asset") /\ list[cursor].of = m
    /\ Supplied(list, cursor + 1, "price")
    /\ LET a == list[cursor + 1].of IN
       /\ IsPinned(t, a)
       /\ CASE t.price_source = "Pyth" -> ReadPythPrice(a, t)
            [] t.price_source = "Switchboard" -> ReadCollateralPrice(a, t)
    /\ t.kind = "XStock" =>
          /\ Supplied(list, cursor + 2, "mint") /\ list[cursor + 2].of = m
          /\ MultiplierIsUsable(m)

SlotValue(list, cursor, m) ==
    [mint                  |-> m,
     multiplier            |-> Multiplier(m),
     price                 |-> Scaled(price_data[list[cursor + 1].of].quote),
     lends_borrowing_power |-> /\ ~Asset[m].borrow_paused
                               /\ ~OverMultiplierCeiling(Asset[m], Multiplier(m))]

Refused == [ok |-> FALSE, cursor |-> 0, values |-> <<>>]

VisitSlot(list, walk, m) ==
    IF walk.ok /\ SlotAccepted(list, walk.cursor, m)
    THEN [ok |-> TRUE, cursor |-> walk.cursor + Stride(m),
          values |-> Append(walk.values, SlotValue(list, walk.cursor, m))]
    ELSE Refused

\* One pass over the used slots of the position.
Walk(list) ==
    LET walk[i \in 0..Len(position)] ==
            IF i = 0 THEN [ok |-> TRUE, cursor |-> 1, values |-> <<>>]
                     ELSE VisitSlot(list, walk[i - 1], position[i])
    IN  walk[Len(position)]

\* Mutant: what is left over is ignored.
AnyLeftover(list, walk) == TRUE

\* Every account supplied was consumed.
AllConsumed(list, walk) == walk.cursor = Len(list) + 1

\* load_valuation of the position with the accounts of list.
Valued(list) ==
    LET walk == Walk(list) IN
    IF walk.ok /\ AllConsumed(list, walk) /\ ReadNgnPrice
    THEN [accepted |-> TRUE, values |-> walk.values,
          ngn |-> Scaled(price_data[Market.ngn_feed].quote)]
    ELSE NoOutcome

\* A transaction whose valuation is refused leaves nothing.
LoadValuation(list) ==
    /\ Valued(list).accepted
    /\ remaining' = list
    /\ outcome' = Valued(list)
    /\ UNCHANGED <<now, price_data, scaled_ui, position, in_force>>

-----------------------------------------------------------------------------
(* Around the program: nothing moves within a transaction *)

TransactionEnds ==
    /\ outcome.accepted
    /\ remaining' = <<>> /\ outcome' = NoOutcome
    /\ UNCHANGED <<now, price_data, scaled_ui, position, in_force>>

BetweenTransactions == ~outcome.accepted /\ UNCHANGED <<remaining, outcome>>

\* Anybody posts a verified update; a partially verified one proves nothing.
PostUpdate(post, time) ==
    /\ price_data' = [price_data EXCEPT ![post.account] =
          [program |-> "Pyth", feed |-> post.feed, of |-> IF post.full THEN post.feed ELSE Stray,
           turned |-> FALSE, quote |-> post.quote, time |-> time, full |-> post.full,
           samples |-> 0]]
    /\ BetweenTransactions
    /\ UNCHANGED <<now, scaled_ui, position, in_force>>

\* Oracles run the feed's job and write its result.
Crank(crank) ==
    /\ price_data' = [price_data EXCEPT
          ![crank.account] = [@ EXCEPT !.of = price_data[crank.account].feed, !.turned = FALSE,
                                       !.quote = crank.quote, !.time = now,
                                       !.samples = crank.samples]]
    /\ BetweenTransactions
    /\ UNCHANGED <<now, scaled_ui, position, in_force>>

\* The feed's authority points the account at another job, or back; the result of the job
\* before stays in the account until the next crank.
Repoint(pointing) ==
    /\ price_data[pointing.account].program = "Switchboard"
    /\ price_data[pointing.account].feed # pointing.feed
    /\ price_data' = [price_data EXCEPT
          ![pointing.account] = [@ EXCEPT !.feed = pointing.feed, !.turned = TRUE]]
    /\ BetweenTransactions
    /\ UNCHANGED <<now, scaled_ui, position, in_force>>

\* A change in the past takes effect at once; one that took effect is folded in first.
ScheduleMultiplier(m, new, effective) ==
    /\ scaled_ui' = [scaled_ui EXCEPT ![m] =
          [multiplier |-> IF effective <= now THEN new ELSE in_force[m],
           new_multiplier |-> new, effective |-> effective]]
    /\ in_force' = [in_force EXCEPT ![m] = IF effective <= now THEN new ELSE @]
    /\ BetweenTransactions
    /\ UNCHANGED <<now, price_data, position>>

Tick ==
    /\ now < MaxTime
    /\ now' = now + 1
    /\ in_force' = [m \in Mints |->
          IF scaled_ui[m].effective = now + 1 THEN scaled_ui[m].new_multiplier ELSE in_force[m]]
    /\ BetweenTransactions
    /\ UNCHANGED <<price_data, scaled_ui, position>>

Init ==
    /\ now = 1
    /\ price_data = InitialData
    /\ scaled_ui = [m \in Mints |-> [multiplier |-> MULTIPLIER_SCALE,
                                     new_multiplier |-> MULTIPLIER_SCALE, effective |-> 0]]
    /\ in_force = [m \in Mints |-> MULTIPLIER_SCALE]
    /\ position \in Positions
    /\ remaining = <<>> /\ outcome = NoOutcome

EnvironmentStep ==
    \/ \E post \in Posts, time \in 1..now : PostUpdate(post, time)
    \/ \E crank \in Cranks : Crank(crank)
    \/ \E pointing \in Repoints : Repoint(pointing)
    \/ \E m \in Mints, new \in Multipliers, effective \in now..MaxTime :
          Asset[m].kind = "XStock" /\ ScheduleMultiplier(m, new, effective)
    \/ Tick

Next ==
    \/ ~outcome.accepted /\ \E list \in Lists[position] : LoadValuation(list)
    \/ TransactionEnds
    \/ EnvironmentStep

Spec == Init /\ [][Next]_vars

-----------------------------------------------------------------------------
(* Properties *)

AssetAccount(m) == [role |-> "asset", of |-> m]
PriceAccount(a) == [role |-> "price", of |-> a]
MintAccount(m) == [role |-> "mint", of |-> m]

Group(m, a) ==
    <<AssetAccount(m), PriceAccount(a)>>
        \o (IF Asset[m].kind = "XStock" THEN <<MintAccount(m)>> ELSE <<>>)

\* The accounts of the slots before slot i.
Before(i) == 2 * (i - 1) + Cardinality({j \in 1..(i - 1) : Asset[position[j]].kind = "XStock"})

\* The accounts a valuation accepts are exactly the groups of the used slots, in slot
\* order, and each slot is valued once at the price its group names: no list leaves
\* collateral out, counts it twice or shifts a price to a neighbour (valuation.rs:27-32).
AcceptedListIsTheSlots ==
    outcome.accepted =>
        /\ Len(remaining) = Before(Len(position) + 1)
        /\ Len(outcome.values) = Len(position)
        /\ \A i \in DOMAIN position : \E a \in PriceAccounts :
              /\ SubSeq(remaining, Before(i) + 1, Before(i + 1)) = Group(position[i], a)
              /\ outcome.values[i].mint = position[i]
              /\ outcome.values[i].price = Scaled(price_data[a].quote)

\* The price account a valuation used for slot i: the second of its group.
UsedAccount(i) == remaining[Before(i) + 2].of

\* Every price a valuation uses is no older than the asset allows, the NGN price too, and a
\* quote of the asset's own feed, whoever posted or withheld what.  The hash that binds a
\* pull feed is compared when it is read (switchboard.rs:103-106), so it settles whose job
\* the result is unless the account was pointed away and back since that result.
PricesAreOwnAndFresh ==
    outcome.accepted =>
        /\ \A i \in DOMAIN position :
              LET t == Asset[position[i]]
                  data == price_data[UsedAccount(i)]
              IN IF t.price_source = "Pyth"
                 THEN data.of = t.pyth_feed_id /\ now - data.time <= t.max_price_age_seconds
                 ELSE /\ data.of = t.sb_feed_hash \/ data.turned
                      /\ now - data.time <= t.sb_max_stale_slots
        /\ now - price_data[Market.ngn_feed].time <= Market.ngn_max_stale_slots

\* Where every used asset is pinned, the caller has no choice: all lists a valuation
\* accepts give the same values (valuation.rs:31-32).
CallerCannotChoosePinned ==
    outcome.accepted /\ (\A i \in DOMAIN position : Asset[position[i]].price_account # NoPin) =>
        \A list \in Lists[position] : Valued(list) \in {outcome, NoOutcome}

\* A scaled mint is valued at the multiplier its holders see, at the second a scheduled
\* change takes effect and after further changes are scheduled (scaled_ui.rs:13-16).
MultiplierIsInForce ==
    outcome.accepted =>
        \A i \in DOMAIN outcome.values :
            Asset[outcome.values[i].mint].kind = "XStock" =>
                outcome.values[i].multiplier = in_force[outcome.values[i].mint]

\* A scaled amount is at most, at least, what the raw amount is worth at its exponent.
AtMost(scaled, raw, exponent) ==
    IF Shift(exponent) >= 0 THEN scaled <= raw * Pow10[Shift(exponent)]
                            ELSE scaled * Pow10[-Shift(exponent)] <= raw
MoreThan(scaled, raw, exponent) ==
    IF Shift(exponent) >= 0 THEN scaled > raw * Pow10[Shift(exponent)]
                            ELSE scaled * Pow10[-Shift(exponent)] > raw

\* Rounding never counts collateral above what its quote less its confidence says, and
\* debt at less than a unit below what the NGN quote with its spread says: the floor that
\* is right for collateral is given back by the spread's ceiling, or taken once.
RoundingIsBounded ==
    outcome.accepted =>
        /\ \A i \in DOMAIN position :
              LET quote == price_data[UsedAccount(i)].quote IN
              AtMost(Lower(outcome.values[i].price), quote.price - quote.conf, quote.exponent)
        /\ LET quote == price_data[Market.ngn_feed].quote IN
           MoreThan(Upper(outcome.ngn) + 1, quote.price + quote.conf, quote.exponent)
=============================================================================
