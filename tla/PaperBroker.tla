----------------------------- MODULE PaperBroker -----------------------------
(***************************************************************************)
(* The in-memory paper broker (adapters/paper_broker.py) with the parts it  *)
(* is built from: the risk gates, the fill model and the review delay, the  *)
(* FIFO profit-and-loss tracker and the settlement engine (risk/).          *)
(*                                                                         *)
(* Quantities and quoted prices are integers; an average price is a ratio   *)
(* of two integers, never rounded.  Fees, marks, a position's own realized  *)
(* sum and reports are left out: no decision of the broker reads them.  An  *)
(* outcome's name is not a prefix of another's, so the substring tests on   *)
(* the keys of the book select exactly the market, the wallet or the        *)
(* outcome they name.  A call that raises changes nothing and is a step not *)
(* taken.                                                                   *)
(***************************************************************************)
EXTENDS Integers, SequencesExt

CONSTANTS
    Keys,        \* the <<market, wallet, outcome>> that are traded
    Quantities, Prices,
    Books,       \* depth snapshots: [best, levels: sequence of [price, volume]]
    NoBook,
    Evidence,    \* resolution evidence: [hash, outcome], outcome in upper case
    Upper,       \* the upper-case form of each outcome's name
    Modes,       \* the paper modes a broker may be created with
    Limits,      \* [order, market, wallet, outcome, global]; 0 is no limit
    ReviewDelay,
    MaxOrders, MaxClock   \* bounds on the orders placed and on the clock

MarketOf(k) == k[1]
WalletOf(k) == k[2]
OutcomeOf(k) == k[3]

ASSUME BrokerAssumption ==
    /\ Quantities \subseteq Nat \ {0} /\ Prices \subseteq Nat \ {0}
    /\ NoBook \notin Books
    /\ Books \subseteq [best: Nat, levels: Seq([price: Nat, volume: Nat])]
    /\ Modes \subseteq {"research_only", "paper_manual", "paper_auto"}
    /\ Limits \in [order: Nat, market: Nat, wallet: Nat, outcome: Nat, global: Nat]
    /\ ReviewDelay \in Nat /\ MaxOrders \in Nat /\ MaxClock \in Nat

VARIABLES
    mode, killed,  \* the paper mode and the kill switch
    clock,
    depth,         \* depth[k]: the book last set for k's market and outcome
    orders,        \* every order, in the order they were placed
    positions,     \* the book: key -> position
    lots,          \* open FIFO lots of each key, oldest first
    sold,          \* realized events of each key
    settled        \* settlement results by <<position, evidence hash>>

vars == <<mode, killed, clock, depth, orders, positions, lots, sold, settled>>

-----------------------------------------------------------------------------
(* Ratios.                                                                 *)

Whole(n) == <<n, 1>>
Plus(a, b) == IF a[2] = b[2] THEN <<a[1] + b[1], a[2]>>
              ELSE <<a[1] * b[2] + b[1] * a[2], a[2] * b[2]>>
Times(n, a) == <<n * a[1], a[2]>>
More(a, b) == a[1] * b[2] > b[1] * a[2]

Smaller(a, b) == IF a <= b THEN a ELSE b

TotalRatio(q) ==
    LET sum[i \in 0..Len(q)] == IF i = 0 THEN Whole(0) ELSE Plus(sum[i - 1], q[i])
    IN sum[Len(q)]

-----------------------------------------------------------------------------
(* The book and its exposures.                                             *)

CostBasis(k) == Times(positions[k].quantity, positions[k].avg)

MarketKeys(m) == {k \in DOMAIN positions : MarketOf(k) = m}

(* The positions that count against one of k's limits. *)
Counted(d, k) ==
    CASE d = "market"  -> MarketKeys(MarketOf(k))
      [] d = "wallet"  -> {j \in DOMAIN positions : WalletOf(j) = WalletOf(k)}
      [] d = "outcome" -> {j \in MarketKeys(MarketOf(k)) : OutcomeOf(j) = OutcomeOf(k)}
      [] d = "global"  -> DOMAIN positions

Exposure(d, k) ==
    LET held == SetToSeq(Counted(d, k)) IN
    TotalRatio([i \in DOMAIN held |-> CostBasis(held[i])])

Dimensions == {"market", "wallet", "outcome", "global"}

Exceeded(total, limit) == limit > 0 /\ More(total, Whole(limit))

FaultyWithinExposureLimits(k, notional) ==      \* the market's limit forgotten
    /\ ~Exceeded(notional, Limits.order)
    /\ \A d \in Dimensions \ {"market"} : ~Exceeded(Plus(Exposure(d, k), notional), Limits[d])

WithinExposureLimits(k, notional) ==
    /\ ~Exceeded(notional, Limits.order)
    /\ \A d \in Dimensions : ~Exceeded(Plus(Exposure(d, k), notional), Limits[d])

GateAllows(k, notional) ==
    /\ ~killed
    /\ mode # "research_only"
    /\ WithinExposureLimits(k, notional)

-----------------------------------------------------------------------------
(* The fill model: walk the levels until the quantity is met.              *)

TakeLevel(w, level) ==
    LET take == Smaller(w.remaining, level.volume) IN
    [remaining |-> w.remaining - take,
     notional  |-> w.notional + take * level.price,
     fillable  |-> w.fillable + take]

Walk(levels, quantity) ==
    LET walk[i \in 0..Len(levels)] ==
            IF i = 0 THEN [remaining |-> quantity, notional |-> 0, fillable |-> 0]
            ELSE TakeLevel(walk[i - 1], levels[i])
    IN walk[Len(levels)]

Quote(k, quantity, price) ==
    IF depth[k] = NoBook THEN [price |-> Whole(price), fillable |-> quantity]
    ELSE LET w == Walk(depth[k].levels, quantity) IN
         [price    |-> IF w.fillable = 0 THEN Whole(depth[k].best)
                       ELSE <<w.notional, w.fillable>>,
          fillable |-> w.fillable]

-----------------------------------------------------------------------------
(* The FIFO tracker.  A sale takes the oldest lots first and realizes one   *)
(* event for each lot it touches; what exceeds the lots is dropped.         *)

FaultyConsumeLot(s, lot, price) ==      \* a lot sold in part stays whole
    LET take == Smaller(s.remaining, lot.quantity) IN
    [remaining |-> s.remaining - take,
     events    |-> IF take = 0 THEN s.events
                   ELSE Append(s.events, [quantity |-> take, cost |-> lot.price,
                                          proceeds |-> price]),
     kept      |-> IF take = lot.quantity THEN s.kept ELSE Append(s.kept, lot)]

ConsumeLot(s, lot, price) ==
    LET take == Smaller(s.remaining, lot.quantity) IN
    [remaining |-> s.remaining - take,
     events    |-> IF take = 0 THEN s.events
                   ELSE Append(s.events, [quantity |-> take, cost |-> lot.price,
                                          proceeds |-> price]),
     kept      |-> IF take = lot.quantity THEN s.kept
                   ELSE Append(s.kept, [lot EXCEPT !.quantity = @ - take])]

SellFromLots(queue, quantity, price) ==
    LET sale[i \in 0..Len(queue)] ==
            IF i = 0 THEN [remaining |-> quantity, events |-> <<>>, kept |-> <<>>]
            ELSE ConsumeLot(sale[i - 1], queue[i], price)
    IN sale[Len(queue)]

-----------------------------------------------------------------------------
(* Filling an order: the position and the lots move with it.               *)

Without(f, k) == [j \in DOMAIN f \ {k} |-> f[j]]
With(f, k, x) == [j \in DOMAIN f \cup {k} |-> IF j = k THEN x ELSE f[j]]

Bought(k, id, quantity, price) ==
    /\ lots' = [lots EXCEPT ![k] = Append(@, [quantity |-> quantity, price |-> price])]
    /\ positions' =
         IF k \notin DOMAIN positions
         THEN With(positions, k, [id |-> id, quantity |-> quantity, avg |-> price])
         ELSE LET total == positions[k].quantity + quantity
                  cost  == Plus(CostBasis(k), Times(quantity, price))
              IN [positions EXCEPT ![k].quantity = total,
                                   ![k].avg = <<cost[1], cost[2] * total>>]
    /\ UNCHANGED sold

Sold(k, quantity, price) ==
    LET sale == SellFromLots(lots[k], quantity, price) IN
    /\ lots' = [lots EXCEPT ![k] = sale.kept]
    /\ sold' = [sold EXCEPT ![k] = @ \o sale.events]
    /\ positions' =
         IF k \notin DOMAIN positions THEN positions
         ELSE IF positions[k].quantity <= quantity THEN Without(positions, k)
         ELSE [positions EXCEPT ![k].quantity = @ - quantity]

Fill(k, side, id, quantity, price) ==
    \/ quantity = 0 /\ UNCHANGED <<lots, sold, positions>>
    \/ quantity > 0 /\ side = "buy" /\ Bought(k, id, quantity, price)
    \/ quantity > 0 /\ side = "sell" /\ Sold(k, quantity, price)

-----------------------------------------------------------------------------
(* The operations of the broker.                                           *)

NewOrder(k, side, quantity, price, status, filled) ==
    [key |-> k, side |-> side, quantity |-> quantity, price |-> price,
     status |-> status, filled |-> filled,
     since |-> IF status = "pending" THEN clock ELSE 0]  \* read only while it waits

(* A gate refused: the order is kept as rejected. *)
Reject(k, side, quantity, price) ==
    /\ ~GateAllows(k, Whole(price * quantity))
    /\ orders' = Append(orders, NewOrder(k, side, quantity, Whole(price), "rejected", 0))
    /\ UNCHANGED <<positions, lots, sold>>

(* paper_manual: the whole quantity waits, at the price just quoted. *)
HoldForReview(k, side, quantity, price) ==
    /\ GateAllows(k, Whole(price * quantity))
    /\ mode = "paper_manual"
    /\ orders' = Append(orders, NewOrder(k, side, quantity, Quote(k, quantity, price).price,
                                         "pending", 0))
    /\ UNCHANGED <<positions, lots, sold>>

(* paper_auto: filled at once, with what the depth can give. *)
FillAtOnce(k, side, quantity, price) ==
    LET quote == Quote(k, quantity, price) IN
    /\ GateAllows(k, Whole(price * quantity))
    /\ mode = "paper_auto"
    /\ orders' = Append(orders, NewOrder(k, side, quantity, quote.price, "filled", quote.fillable))
    /\ Fill(k, side, Len(orders) + 1, quote.fillable, quote.price)

PlaceOrder(k, side, quantity, price) ==
    /\ Len(orders) < MaxOrders
    /\ \/ Reject(k, side, quantity, price)
       \/ HoldForReview(k, side, quantity, price)
       \/ FillAtOnce(k, side, quantity, price)
    /\ UNCHANGED <<mode, killed, clock, depth, settled>>

Eligible(i) == clock - orders[i].since >= ReviewDelay

FaultyConfirmable(i) == orders[i].status \in {"pending", "filled"}

Confirmable(i) == orders[i].status = "pending"

(* A confirmation fills the whole order; no gate is asked again. *)
ConfirmAndFill(i) ==
    /\ Confirmable(i)
    /\ Eligible(i)
    /\ orders' = [orders EXCEPT ![i].status = "filled", ![i].filled = orders[i].quantity,
                                ![i].since = 0]
    /\ Fill(orders[i].key, orders[i].side, i, orders[i].quantity, orders[i].price)
    /\ UNCHANGED <<mode, killed, clock, depth, settled>>

CancelOrder(i) ==
    /\ orders[i].status = "pending"
    /\ orders' = [orders EXCEPT ![i].status = "cancelled", ![i].since = 0]
    /\ UNCHANGED <<mode, killed, clock, depth, positions, lots, sold, settled>>

(* Settlement.  The result is kept under the position and the evidence's    *)
(* hash; the position stays in the book.                                    *)
Result(k, evidence) ==
    [outcome |-> OutcomeOf(k),
     payout  |-> IF Upper[OutcomeOf(k)] = evidence.outcome /\ evidence.outcome \in {"YES", "NO"}
                 THEN positions[k].quantity ELSE 0]

Over(f, g) == [x \in DOMAIN f \cup DOMAIN g |-> IF x \in DOMAIN f THEN f[x] ELSE g[x]]

FaultyRemember(results) == Over(results, settled)   \* a replay is computed again

Remember(results) == Over(settled, results)

SettleMarket(m, evidence) ==
    LET due == {<<positions[k].id, evidence.hash>> : k \in MarketKeys(m)}
        KeyOf(id) == CHOOSE k \in MarketKeys(m) : positions[k].id = id
    IN
    /\ settled' = Remember([x \in due |-> Result(KeyOf(x[1]), evidence)])
    /\ UNCHANGED <<mode, killed, clock, depth, orders, positions, lots, sold>>

SetDepth(m, o, book) ==
    /\ depth' = [k \in Keys |-> IF MarketOf(k) = m /\ OutcomeOf(k) = o THEN book ELSE depth[k]]
    /\ UNCHANGED <<mode, killed, clock, orders, positions, lots, sold, settled>>

SetKillSwitch(on) ==
    /\ killed' = on
    /\ UNCHANGED <<mode, clock, depth, orders, positions, lots, sold, settled>>

Tick ==
    /\ clock < MaxClock
    /\ clock' = clock + 1
    /\ UNCHANGED <<mode, killed, depth, orders, positions, lots, sold, settled>>

BrokerInit ==
    /\ mode \in Modes
    /\ killed = FALSE
    /\ clock = 0
    /\ depth = [k \in Keys |-> NoBook]
    /\ orders = <<>>
    /\ positions = <<>>
    /\ lots = [k \in Keys |-> <<>>]
    /\ sold = [k \in Keys |-> <<>>]
    /\ settled = <<>>

BrokerNext ==
    \/ \E k \in Keys, side \in {"buy", "sell"}, q \in Quantities, p \in Prices :
          PlaceOrder(k, side, q, p)
    \/ \E i \in DOMAIN orders : ConfirmAndFill(i) \/ CancelOrder(i)
    \/ \E k \in Keys, e \in Evidence : SettleMarket(MarketOf(k), e)
    \/ \E k \in Keys, b \in Books : SetDepth(MarketOf(k), OutcomeOf(k), b)
    \/ \E on \in BOOLEAN : SetKillSwitch(on)
    \/ Tick

BrokerSpec == BrokerInit /\ [][BrokerNext]_vars

-----------------------------------------------------------------------------
(* Properties.                                                             *)

(* The total of a sequence of numbers.                                     *)
Total(q) ==
    LET sum[i \in 0..Len(q)] == IF i = 0 THEN 0 ELSE sum[i - 1] + q[i]
    IN sum[Len(q)]

(* The broker keeps what is open twice: as positions, which _update_position  *)
(* averages, and as FIFO lots, which the P&L tracker consumes.  Whatever is   *)
(* bought, sold in part, oversold or reopened, both say the same quantity.    *)
BookMatchesLots ==
    \A k \in Keys :
        Total([i \in DOMAIN lots[k] |-> lots[k][i].quantity]) =
            IF k \in DOMAIN positions THEN positions[k].quantity ELSE 0

(* What the filled buys of k brought in at one price, what of it is open, and *)
(* what the realized events took out at that cost.                            *)
BoughtAt(k, price) ==
    Total([i \in DOMAIN orders |->
             IF /\ orders[i].key = k /\ orders[i].side = "buy"
                /\ orders[i].status = "filled" /\ orders[i].price = price
             THEN orders[i].filled ELSE 0])

OpenAt(k, price) ==
    Total([i \in DOMAIN lots[k] |->
             IF lots[k][i].price = price THEN lots[k][i].quantity ELSE 0])

RealizedAt(k, price) ==
    Total([i \in DOMAIN sold[k] |->
             IF sold[k][i].cost = price THEN sold[k][i].quantity ELSE 0])

PricesOf(k) ==
    {orders[i].price : i \in DOMAIN orders}
        \cup {lots[k][i].price : i \in DOMAIN lots[k]}
        \cup {sold[k][i].cost : i \in DOMAIN sold[k]}

(* No cost appears or is lost: at every price, the quantity the filled buys of *)
(* a key brought in is what the open lots still hold at that price plus what   *)
(* the realized events took out of it.  An order confirmed twice, or a lot     *)
(* consumed by other than its quantity, breaks it.                             *)
CostConserved ==
    \A k \in Keys : \A price \in PricesOf(k) :
        BoughtAt(k, price) = OpenAt(k, price) + RealizedAt(k, price)

OverLimit(d, k) == Exceeded(Exposure(d, k), Limits[d])

Confirmed == \E i \in DOMAIN orders : orders[i].status = "pending" /\ orders'[i].status = "filled"

FilledFromBook ==
    Len(orders') > Len(orders) /\ depth[orders'[Len(orders')].key] # NoBook

(* What the exposure gates are worth: an exposure goes over its limit only   *)
(* when a reviewed order is confirmed, which no gate sees again, or when     *)
(* depth fills an order at a price the gate did not know.  Every other order *)
(* leaves each of the four sums within its limit.                            *)
GatesHoldWithoutReview ==
    [][positions' # positions /\ ~Confirmed /\ ~FilledFromBook
          => \A d \in Dimensions, k \in Keys : OverLimit(d, k)' => OverLimit(d, k)]_vars

(* A settlement result, once given for a position and a piece of evidence,   *)
(* is what every later call with them returns, although the position stays   *)
(* in the book and goes on being bought and sold.                            *)
SettlementKept ==
    [][\A x \in DOMAIN settled : x \in DOMAIN settled' /\ settled'[x] = settled[x]]_vars
=============================================================================
