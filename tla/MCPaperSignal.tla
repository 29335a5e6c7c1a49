--------------------------- MODULE MCPaperSignal ---------------------------
(* Finite instances of PaperSignal.                                         *)
EXTENDS PaperSignal

CONSTANTS t1, t2, t3, t4

T(market, category, side, at, gain) ==
    [market |-> market, event |-> market, day |-> at, category |-> category,
     side |-> side, outcome |-> "yes", at |-> at, gain |-> gain]

\* Three buys in three markets, two of one category and with equal gains, and
\* a sell back in the first market, which makes the wallet two-sided there.
MCTrade ==
    (t1 :> T("m1", "sports", "BUY", 10, 1)) @@
    (t2 :> T("m2", "sports", "BUY", 20, 1)) @@
    (t3 :> T("m3", None, "BUY", 30, 2)) @@
    (t4 :> T("m1", "sports", "SELL", 40, 1))

MCRules ==
    [walletMarkets |-> 3, walletDays |-> 3, walletEvents |-> 3,
     categoryMarkets |-> 2, categoryEvents |-> 2, categoryDays |-> 2,
     dominantTrades |-> 1, dominantPercent |-> 80,
     minTrades |-> 2, hftTrades |-> 5, hftInterval |-> 5,
     makerMarkets |-> 2, makerTradesPerMarket |-> 2,
     arbWindow |-> 5, burstMarkets |-> 3, mixedMarkets |-> 1, minFill |-> 80]

MCWalletScore(e, cat) ==
    IF e.wins = e.resolved THEN 80 ELSE IF 2 * e.wins >= e.resolved THEN 60 ELSE 40
MCCategoryScore(e, overall) == IF 2 * e.wins >= e.resolved THEN 80 ELSE 60
MCTradeScore(c, fill) == IF fill >= 50 THEN 80 ELSE 55

C(trade) ==
    [trade |-> trade, snapshot |-> TRUE, cutoff |-> 50, depth |-> "ok",
     asks |-> <<2, 3>>, stake |-> 5, life |-> "days", missing |-> {}]

\* A candidate that can be copied, one without a snapshot, and one whose
\* trade has no category.
MCCandidates == {C(t1), [C(t1) EXCEPT !.snapshot = FALSE], C(t3)}

\* The two buys of the category are settled, the third is open, the sell has
\* not been seen.
MCStarts ==
    {(t1 :> "won") @@ (t2 :> "won") @@ (t3 :> "open") @@ (t4 :> "absent")}
=============================================================================
