---------------------------- MODULE ScoringRules ----------------------------
(***************************************************************************)
(* The pure half of the paper-signal pipeline (src/polycopy/scoring): what *)
(* a wallet's source trades say as evidence, the evidence gates, the       *)
(* incomplete-verdict guard, the wallet, category and trade verdicts, the  *)
(* behaviour class, and the decision table that turns them into the        *)
(* verdict of a paper signal.                                              *)
(*                                                                         *)
(* A `rows' value is what a SELECT over source_trades returns: a function  *)
(* from the trades that are stored to "open", "won" or "lost".  What never *)
(* changes about a trade is in the constant Trade.  The weighted score     *)
(* components are constant operators: any function of the same evidence.   *)
(***************************************************************************)
EXTENDS Integers, Sequences, FiniteSetsExt, SequencesExt

CONSTANTS
    Trades,          \* source trades of the one wallet under evaluation
    Trade,           \* trade -> [market, event, day, category, side, outcome,
                     \*           at, gain]; event and category may be None
    None,
    Rules,           \* the frozen thresholds, as a record (scaled down)
    WalletScore(_, _),   \* wallet evidence, category evidence -> 0..100
    CategoryScore(_, _), \* category evidence, buy trades of the wallet -> 0..100
    TradeScore(_, _)     \* candidate, fill percentage -> 0..100

ASSUME TradeAssumption ==
    \A t \in Trades : /\ Trade[t].side \in {"BUY", "SELL"}
                      /\ Trade[t].gain \in Nat \ {0}
                      /\ Trade[t].at \in Nat

-----------------------------------------------------------------------------
(* Evidence.                                                                *)

\* A settled buy pays its gain or loses its stake of one.
Pnl(rows, t) == IF rows[t] = "won" THEN Trade[t].gain ELSE -1

Buys(rows) == {t \in DOMAIN rows : Trade[t].side = "BUY"}
Resolved(rows) == {t \in Buys(rows) : rows[t] \in {"won", "lost"}}

InCategory(rows, label) ==
    [t \in {u \in DOMAIN rows : Trade[u].category = label} |-> rows[t]]

\* One aggregate serves the wallet and, on the rows of one category, the
\* category.  The Sharpe ratio needs two different realised results, the
\* drawdown needs two results.
Aggregate(rows) ==
    LET resolved == Resolved(rows)
        pnls     == {Pnl(rows, t) : t \in resolved}
    IN  [buys     |-> Cardinality(Buys(rows)),
         resolved |-> Cardinality(resolved),
         wins     |-> Cardinality({t \in resolved : rows[t] = "won"}),
         markets  |-> Cardinality({Trade[t].market : t \in resolved}),
         events   |-> Cardinality({Trade[t].event : t \in resolved} \ {None}),
         days     |-> Cardinality({Trade[t].day : t \in Buys(rows)}),
         sharpe   |-> Cardinality(pnls) >= 2,
         drawdown |-> Cardinality(resolved) >= 2]

\* The function written out pair by pair, so that it is evaluated only once.
Table(f) == f @@ [x \in {} |-> x]

\* The aggregate of every result a SELECT may return.
AllRows == UNION {[S -> {"open", "won", "lost"}] : S \in SUBSET Trades}
Evidence == Table([rows \in AllRows |-> Aggregate(rows)])

\* The label with the most trades; a tie goes to the label met first.
DominantCategory(rows) ==
    LET labels == {Trade[t].category : t \in DOMAIN rows} \ {None}
        Count(l) == Cardinality(DOMAIN InCategory(rows, l))
        First(l) == Min({Trade[t].at : t \in DOMAIN InCategory(rows, l)})
        Before(l, k) == \/ Count(l) > Count(k)
                        \/ Count(l) = Count(k) /\ First(l) <= First(k)
    IN  IF labels = {} THEN None
        ELSE CHOOSE l \in labels : \A k \in labels : Before(l, k)

Dominant == Table([rows \in AllRows |-> DominantCategory(rows)])

-----------------------------------------------------------------------------
(* Gates, guard and the verdicts of the wallet and of its category.         *)

WalletEvidenceGates(ev) ==
    /\ ev.markets >= Rules.walletMarkets
    /\ ev.days >= Rules.walletDays
    /\ ev.events >= Rules.walletEvents

CategoryEvidenceGates(ev) ==
    /\ ev.markets >= Rules.categoryMarkets
    /\ ev.events >= Rules.categoryEvents
    /\ ev.days >= Rules.categoryDays

\* Missing category evidence fails the wallet's category gates.
WalletCategoryGates(cat) == cat # None /\ CategoryEvidenceGates(cat)

LacksResolution(ev, cat) == ev.markets = 0 \/ cat = None \/ cat.markets = 0
MissingEssentials(ev) == ~ev.sharpe \/ ~ev.drawdown

\* derive_wallet_verdict_from_evidence: Rule 1a, then Rule 1b.
GuardWallet(verdict, ev, cat) ==
    IF LacksResolution(ev, cat) \/ MissingEssentials(ev)
    THEN "incomplete" ELSE verdict

\* derive_category_verdict_from_evidence: the same two rules for a category.
GuardCategory(verdict, ev) ==
    IF ev.markets = 0 \/ MissingEssentials(ev) THEN "incomplete" ELSE verdict

ScoreBand(score) ==
    IF score >= 75 THEN "copy_candidate"
    ELSE IF score >= 55 THEN "watchlist" ELSE "skip"

Result(score, verdict) == [score |-> score, verdict |-> verdict]

WalletResult(ev, cat) ==
    IF ev.resolved = 0 THEN Result(0, "incomplete")
    ELSE LET score == WalletScore(ev, cat)
             gated == IF WalletEvidenceGates(ev) /\ WalletCategoryGates(cat)
                      THEN ScoreBand(score) ELSE "incomplete"
         IN  Result(score, GuardWallet(gated, ev, cat))

\* The category result is not guarded here: only the stored row is.
CategoryResult(ev, overallBuys) ==
    IF ev.resolved = 0 THEN Result(0, "incomplete")
    ELSE LET score == CategoryScore(ev, overallBuys)
         IN  Result(score, IF CategoryEvidenceGates(ev) THEN ScoreBand(score)
                           ELSE "incomplete")

-----------------------------------------------------------------------------
(* Behaviour: what the trades' sides, markets and times say of the wallet.  *)

SidesIn(seen, market, side) ==
    Cardinality({t \in seen : Trade[t].market = market /\ Trade[t].side = side})

TwoSidedMarkets(seen) ==
    {m \in {Trade[t].market : t \in seen} :
        SidesIn(seen, m, "BUY") > 0 /\ SidesIn(seen, m, "SELL") > 0}

DominantMarkets(seen) ==
    {m \in {Trade[t].market : t \in seen} :
        LET buy == SidesIn(seen, m, "BUY")  sell == SidesIn(seen, m, "SELL")
        IN  /\ buy + sell >= Rules.dominantTrades
            /\ 100 * Max({buy, sell}) >= Rules.dominantPercent * (buy + sell)}

HighFrequency(seen) ==
    /\ Cardinality(seen) >= Rules.hftTrades
    /\ Cardinality(seen) >= 2
    /\ LET at == {Trade[t].at : t \in seen}
       IN  Max(at) - Min(at) < Rules.hftInterval * (Cardinality(seen) - 1)

MarketMaker(seen) ==
    LET markets == Cardinality({Trade[t].market : t \in seen})
        twoSided == Cardinality(TwoSidedMarkets(seen))
    IN  /\ twoSided >= Rules.makerMarkets
        /\ Cardinality(seen) >= Rules.makerTradesPerMarket * markets
        /\ 2 * twoSided >= markets

OpposingOutcomes(seen) ==
    \E t, u \in seen : /\ Trade[t].market = Trade[u].market
                       /\ Trade[t].outcome # Trade[u].outcome
                       /\ Trade[u].at - Trade[t].at \in 0 .. Rules.arbWindow

MarketBurst(seen) ==
    \E last \in seen :
        Cardinality({Trade[t].market : t \in {u \in seen :
            Trade[last].at - Trade[u].at \in 0 .. Rules.arbWindow}})
          >= Rules.burstMarkets

BehaviorOf(seen) ==
    CASE Cardinality(seen) < Rules.minTrades -> "unknown"
      [] OTHER ->
         IF HighFrequency(seen) THEN "high_frequency_bot"
         ELSE IF MarketMaker(seen) THEN "market_maker_lp"
         ELSE IF OpposingOutcomes(seen) \/ MarketBurst(seen)
              THEN "arbitrage_multi_leg"
         ELSE IF /\ Cardinality(TwoSidedMarkets(seen)) >= Rules.mixedMarkets
                 /\ Cardinality(DominantMarkets(seen)) >= Rules.mixedMarkets
              THEN "mixed"
         ELSE IF DominantMarkets(seen) = {} THEN "unknown"
         ELSE "directional"

Behavior == Table([seen \in SUBSET Trades |-> BehaviorOf(seen)])

SkipBehaviors == {"high_frequency_bot", "market_maker_lp", "arbitrage_multi_leg"}

-----------------------------------------------------------------------------
(* Trade copyability.  A candidate is a record: trade (or None), snapshot   *)
(* (taken or not), depth ("ok", "none", "malformed"), asks (the notional of *)
(* each ask level), stake, life (the time to the market's end, as one of    *)
(* the buckets the rules tell apart) and missing (the optional snapshot     *)
(* fields that were not captured).                                          *)

\* Buying walks the asks and never past the stored levels.
FillPercent(c) ==
    LET offered == FoldLeft(LAMBDA sum, notional : sum + notional, 0, c.asks)
    IN  (100 * Min({offered, c.stake})) \div c.stake

WalkPossible(c) == c.depth = "ok" /\ c.asks # <<>> /\ "stake" \notin c.missing

DepthUnusable(c) == c.depth \in {"none", "malformed"}

\* Short crypto markets, and markets that end too soon or too late.
DurationExcluded(c) ==
    \/ Trade[c.trade].category = "crypto" /\ c.life \in {"under15m", "under6h"}
    \/ c.life \in {"under15m", "over45d"}

EssentialMissing(c) ==
    \/ ~WalkPossible(c)
    \/ c.missing \cap {"stake", "spread", "age", "active", "deterioration"} # {}
    \/ c.life = "unknown"

TradeBand(score) ==
    IF score >= 70 THEN "copy_candidate"
    ELSE IF score >= 50 THEN "watchlist" ELSE "skip"

\* A severe partial fill is capped at WATCHLIST and keeps its score.
CapPartialFill(verdict, fill) ==
    IF verdict = "copy_candidate" /\ fill < Rules.minFill
    THEN "watchlist" ELSE verdict

TradeResult(c) ==
    CASE Trade[c.trade].side = "SELL" -> Result(0, "skip")
      [] OTHER ->
         IF DepthUnusable(c) THEN Result(0, "incomplete")
         ELSE IF DurationExcluded(c) THEN Result(0, "skip")
         ELSE IF EssentialMissing(c) THEN Result(0, "incomplete")
         ELSE LET score == TradeScore(c, FillPercent(c))
              IN  Result(score, CapPartialFill(TradeBand(score), FillPercent(c)))

-----------------------------------------------------------------------------
(* The decision table of generate_signal_verdict; the first rule that       *)
(* applies decides.  A wallet below 55 is skipped, below 75 it is watched.  *)

SignalVerdict(wallet, category, trade, behavior) ==
    IF \/ wallet.verdict = "incomplete"
       \/ category = None
       \/ category.verdict = "incomplete"
       \/ trade.verdict = "incomplete"          THEN "incomplete"
    ELSE IF behavior \in SkipBehaviors          THEN "skip"
    ELSE IF wallet.score < 55                   THEN "skip"
    ELSE IF wallet.score < 75                   THEN "watchlist"
    ELSE IF trade.score < 70                    THEN "skip"
    ELSE IF category.verdict # "copy_candidate" THEN "watchlist"
    ELSE IF behavior # "directional"            THEN "watchlist"
    ELSE "copy_candidate"

=============================================================================
