----------------------------- MODULE MCValuation -----------------------------
(***************************************************************************)
(* Instances of Valuation for TLC: "stock" is scaled and pinned to one     *)
(* Pyth account, "sol" takes any Pyth account of its feed, "gold" is       *)
(* priced by a pull feed.  Prices have one decimal.                        *)
(***************************************************************************)
EXTENDS Valuation, TLC

LOCAL INSTANCE SequencesExt

MCMints == {"stock", "sol", "gold"}

Listed == [kind |-> "Standard", price_source |-> "Pyth", pyth_feed_id |-> "Stray",
           price_account |-> "NoPin", max_price_age_seconds |-> 0, sb_feed_hash |-> "Stray",
           sb_max_stale_slots |-> 0, sb_min_samples |-> 0, max_conf_bps |-> 2,
           max_multiplier |-> 0, borrow_paused |-> FALSE]

MCAsset ==
    "stock" :> [Listed EXCEPT !.kind = "XStock", !.pyth_feed_id = "AAPL", !.price_account = "p1",
                              !.max_price_age_seconds = 1, !.max_multiplier = 2]
    @@ "sol" :> [Listed EXCEPT !.pyth_feed_id = "SOL", !.max_price_age_seconds = 1]
    @@ "gold" :> [Listed EXCEPT !.price_source = "Switchboard", !.sb_feed_hash = "XAU",
                                !.price_account = "f1", !.sb_max_stale_slots = 1,
                                !.sb_min_samples = 2]

MCPow10 == [n \in 0..MAX_POW10 |-> 10^n]

MCMarket == [ngn_feed |-> "ngn", ngn_max_stale_slots |-> 2, ngn_min_samples |-> 1,
             ngn_max_spread_bps |-> 3]

Raw(price, conf, exponent) == [price |-> price, conf |-> conf, exponent |-> exponent]

Data(program, feed, quote) ==
    [program |-> program, feed |-> feed, of |-> feed, turned |-> FALSE, quote |-> quote,
     time |-> 1, full |-> TRUE, samples |-> 2]

MCInitialData ==
    "p1" :> Data("Pyth", "AAPL", Raw(30, 5, 0))
    @@ "p2" :> Data("Pyth", "SOL", Raw(20, 3, 0))
    @@ "f1" :> Data("Switchboard", "XAU", Raw(2005, 400, -2))
    @@ "ngn" :> Data("Switchboard", "NGN", Raw(105, 11, -1))

Elements ==
    {AssetAccount(m) : m \in MCMints} \cup {MintAccount("stock"), MintAccount("sol")}
    \cup {PriceAccount(a) : a \in {"p1", "p2", "f1"}} \cup {[role |-> "copy", of |-> "sol"]}

\* A list that lost an account, gained one anywhere, or has two that changed places.
Slips(list) ==
    {RemoveAt(list, i) : i \in DOMAIN list}
    \cup {InsertAt(list, i, e) : i \in 1..(Len(list) + 1), e \in Elements}
    \cup {[list EXCEPT ![i] = list[j], ![j] = list[i]] : i, j \in DOMAIN list}

Groups(p, chosen) == FlattenSeq([i \in DOMAIN p |-> Group(p[i], chosen[i])])

\* No slot, one and two; the right groups with any price account in each, and around the
\* first of those every slip.
MCPositions == {<<>>, <<"sol">>, <<"gold", "stock">>}
MCLists ==
    [p \in MCPositions |->
        {Groups(p, chosen) : chosen \in [DOMAIN p -> {"p1", "p2", "f1"}]}
        \cup Slips(Groups(p, [i \in DOMAIN p |->
                 CASE p[i] = "stock" -> "p1" [] p[i] = "sol" -> "p2" [] p[i] = "gold" -> "f1"]))]

Update(account, feed, quote, full) ==
    [account |-> account, feed |-> feed, quote |-> quote, full |-> full]

MCPosts ==
    {Update("p1", "AAPL", Raw(3141, 59, -2), TRUE), Update("p2", "AAPL", Raw(4, 0, 1), TRUE),
     Update("p2", "SOL", Raw(27, 9, -1), TRUE), Update("p2", "SOL", Raw(9, 1, 1), FALSE),
     Update("p2", "SOL", Raw(2, 0, 3), TRUE)}

MCCranks ==
    {[account |-> "f1", quote |-> Raw(1999, 123, -2), samples |-> 2],
     [account |-> "ngn", quote |-> Raw(1019, 105, -2), samples |-> 1]}

\* A feed is pointed at a job nobody lists, and the collateral's also back.
MCRepoints ==
    {[account |-> "f1", feed |-> "Stray"], [account |-> "f1", feed |-> "XAU"],
     [account |-> "ngn", feed |-> "Stray"]}
==============================================================================
