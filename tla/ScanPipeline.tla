----------------------------- MODULE ScanPipeline -----------------------------
(***************************************************************************)
(* The scan of the timer (scripts/run_scan.py with its wiring in           *)
(* scripts/scan_pipeline_wiring.py): fetch the trades of every market,     *)
(* discover wallets, choose a bounded slice of the known wallets, store a  *)
(* score decision for each wallet of the slice, copy candidates for the    *)
(* trades just fetched, and the audit rows of the new decisions.           *)
(*                                                                         *)
(* The operational lock keeps the other jobs out while a scan runs, so     *)
(* they write between scans only; time passes, trades are executed and     *)
(* markets close at any moment.  Every row is committed on its own, and a  *)
(* crash keeps what was committed.  The paper signals of step 7 are in     *)
(* PaperSignal; here the evaluators are one source of decisions more.      *)
(* Step 5c is given no category and stores nothing; the steps that only    *)
(* count (trade detection, related wallets) are left out.                  *)
(***************************************************************************)
EXTENDS Integers, FiniteSets, FiniteSetsExt

CONSTANTS
    Wallets,         \* naturals in the order of their addresses
    Trades,
    Trade,           \* trade -> [wallet, market, at, wins, valid, resolution]
    Cap,             \* max_wallet_scores
    MaxCandidates,   \* max_paper_candidates
    MaxPerWallet,    \* max_trades_per_wallet
    MinTrades,       \* trades below which there is no Sharpe estimate
    Evaluated,       \* bound: wallets other evaluators score
    MaxClock,        \* bound
    MaxFaults        \* bound: crashes, failed fetches and failed writes

Markets == {Trade[t].market : t \in Trades}

ASSUME ScanAssumption ==
    /\ Wallets \subseteq Nat /\ IsFiniteSet(Wallets)
    /\ \A t \in Trades : Trade[t].wallet \in Wallets
    /\ Cap \in Nat \ {0}

VARIABLES
    clock,
    closed,          \* markets that are closed
    stored,          \* source_trades
    wallets,         \* wallets with a row
    decisions,       \* wallet_score_decisions
    verdicts,        \* wallets with a decision_verdicts row
    components,      \* decisions with score_component_inputs rows
    candidates,      \* copy_candidates
    scan,            \* the running scan: its step and its locals
    faults,
    cut,             \* history: wallets whose audit a crash cut off
    unsaved          \* history: wallets a decision could not be written for

world == <<clock, closed>>
tables == <<stored, wallets, decisions, verdicts, components, candidates>>
bounds == <<faults, cut, unsaved>>
vars == <<world, tables, scan, bounds>>

Idle == [pc |-> "idle"]

Init ==
    /\ clock = 1 /\ closed = {}
    /\ stored = {} /\ wallets = {} /\ decisions = {}
    /\ verdicts = {} /\ components = {} /\ candidates = {}
    /\ scan = Idle
    /\ faults = 0 /\ cut = {} /\ unsaved = {}

At(pc) == scan.pc = pc

-----------------------------------------------------------------------------
(* What the scan reads of a wallet.                                         *)

Own(w) == {t \in stored : Trade[t].wallet = w}

\* _compute_wallet_metrics: over every stored trade, whatever its time.
Metrics(w) ==
    LET times == {Trade[t].at : t \in Own(w)}
    IN  [count   |-> Cardinality(Own(w)),
         wins    |-> Cardinality({t \in Own(w) : Trade[t].wins}),
         markets |-> Cardinality({Trade[t].market : t \in Own(w)}),
         first   |-> Min(times), latest |-> Max(times)]

\* The score is 100 times the Sharpe estimate wins / sqrt(count) / 2, which
\* is rounded to three places, against the thresholds 70 and 50.
LegacyVerdict(m) ==
    LET Reaches(square) == 1000000 * m.wins * m.wins >= square * m.count
    IN  IF m.count < MinTrades THEN "incomplete"
        ELSE IF Reaches(1957201) THEN "copy_candidate"
        ELSE IF Reaches(998001) THEN "watchlist" ELSE "skip"

DecisionsOf(w) == {d \in decisions : d.wallet = w}

HasDecision(w, m) ==
    \E d \in DecisionsOf(w) : d.kind = "scan" /\ d.metrics = m

Fresh(w) == DecisionsOf(w) = {}

\* The cheap test for new material: the last trade is later than the time of
\* the last decision, by whomever it was written.
MaterialChanged(w) ==
    /\ ~Fresh(w) /\ Own(w) # {}
    /\ Max({Trade[t].at : t \in Own(w)}) > Max({d.at : d \in DecisionsOf(w)})

NeedsWork(w) == Fresh(w) \/ MaterialChanged(w)

FirstOf(n, S) == {w \in S : Cardinality({v \in S : v < w}) < n}

\* A slice of the first addresses, whatever their state.
FaultySlice(known) == FirstOf(Cap, known)

\* Fresh and changed wallets first, wallets already scored in what is left.
Slice(known) ==
    LET work == FirstOf(Cap, {w \in known : NeedsWork(w)})
        rest == {w \in known : ~NeedsWork(w)}
    IN  work \cup FirstOf(Cap - Cardinality(work), rest)

-----------------------------------------------------------------------------
(* The world and the other jobs.                                            *)

Tick ==
    /\ clock < MaxClock /\ clock' = clock + 1
    /\ UNCHANGED <<closed, tables, scan, bounds>>

CloseMarket(m) ==
    /\ m \notin closed /\ closed' = closed \cup {m}
    /\ UNCHANGED <<clock, tables, scan, bounds>>

\* The collectors store a trade of a wallet, which may be an old one.
Collect(t) ==
    /\ At("idle") /\ t \notin stored /\ Trade[t].at <= clock
    /\ stored' = stored \cup {t}
    /\ wallets' = wallets \cup {Trade[t].wallet}
    /\ UNCHANGED <<world, decisions, verdicts, components, candidates,
                   scan, bounds>>

\* Research discovery stores a wallet none of whose trades is known.
DiscoverElsewhere(w) ==
    /\ At("idle") /\ w \notin wallets
    /\ wallets' = wallets \cup {w}
    /\ UNCHANGED <<world, stored, decisions, verdicts, components, candidates,
                   scan, bounds>>

InsertOrIgnore(d) ==
    IF \E e \in decisions : /\ e.wallet = d.wallet /\ e.kind = d.kind
                            /\ e.metrics = d.metrics
    THEN decisions ELSE decisions \cup {d}

\* An evaluator of signals or evidence stores a decision in the same table,
\* from the trades up to its cutoff.
EvaluateElsewhere(w) ==
    /\ At("idle") /\ w \in wallets \cap Evaluated /\ Own(w) # {}
    /\ decisions' = InsertOrIgnore([wallet |-> w, kind |-> "evidence",
                                    metrics |-> Metrics(w), at |-> clock])
    /\ UNCHANGED <<world, stored, wallets, verdicts, components, candidates,
                   scan, bounds>>

-----------------------------------------------------------------------------
(* Steps 1 to 3: load the wallets, fetch, store, discover.                  *)

Begin ==
    /\ At("idle")
    /\ scan' = [pc |-> "fetch", now |-> clock, known |-> wallets,
                left |-> Markets, fetched |-> {}, found |-> {}]
    /\ UNCHANGED <<world, tables, bounds>>

\* A complete fetch stores its trades.  A trade that cannot be stored is left
\* out of all that follows.
FetchComplete(m) ==
    LET seen == {t \in Trades : Trade[t].market = m /\ Trade[t].at <= clock}
    IN  /\ At("fetch") /\ m \in scan.left /\ scan.found = {}
        /\ \E lost \in {{}} \cup {{t} : t \in seen} :
              /\ faults' = faults + Cardinality(lost)
              /\ faults' <= MaxFaults
              /\ stored' = stored \cup (seen \ lost)
              /\ scan' = [scan EXCEPT
                    !.left = @ \ {m}, !.fetched = @ \cup (seen \ lost),
                    !.found = {Trade[t].wallet : t \in seen \ lost}]
        /\ UNCHANGED <<world, wallets, decisions, verdicts, components,
                       candidates, cut, unsaved>>

\* A failed fetch has nothing, of a partial one the prefix is discarded.
FetchIncomplete(m) ==
    /\ At("fetch") /\ m \in scan.left /\ scan.found = {}
    /\ faults < MaxFaults /\ faults' = faults + 1
    /\ scan' = [scan EXCEPT !.left = @ \ {m}]
    /\ UNCHANGED <<world, tables, cut, unsaved>>

\* The wallet's row comes first: without it the wallet is not registered.
Discover(w) ==
    /\ At("fetch") /\ w \in scan.found
    /\ \/ /\ wallets' = wallets \cup {w}
          /\ scan' = [scan EXCEPT !.found = @ \ {w}, !.known = @ \cup {w}]
          /\ UNCHANGED faults
       \/ /\ faults < MaxFaults /\ faults' = faults + 1
          /\ scan' = [scan EXCEPT !.found = @ \ {w}]
          /\ UNCHANGED wallets
    /\ UNCHANGED <<world, stored, decisions, verdicts, components, candidates,
                   cut, unsaved>>

-----------------------------------------------------------------------------
(* Steps 5 and 5b: the slice and its decisions.                             *)

\* A wallet of the slice without a stored trade has no metrics and drops out.
SelectSlice ==
    /\ At("fetch") /\ scan.left = {} /\ scan.found = {}
    /\ LET measured == {w \in Slice(scan.known) : Own(w) # {}}
       IN scan' = [pc |-> "score", now |-> scan.now, fetched |-> scan.fetched,
                   metrics |-> [w \in measured |-> Metrics(w)],
                   left |-> measured, fresh |-> {}]
    /\ UNCHANGED <<world, tables, bounds>>

IsFirst(w, S) == w \in S /\ \A v \in S : w <= v

\* A budget that is one too small.
FaultyBudget == Cap - 1

\* The inserts a scan may make.
Budget == Cap

\* The next wallet: its decision is there, or the budget is spent, or the
\* write fails, or it is written and committed.
Score(w) ==
    LET m == scan.metrics[w]
    IN  /\ At("score") /\ IsFirst(w, scan.left)
        /\ IF HasDecision(w, m) \/ Cardinality(scan.fresh) >= Budget
           THEN /\ scan' = [scan EXCEPT !.left = @ \ {w}]
                /\ UNCHANGED <<decisions, faults, unsaved>>
           ELSE \/ /\ decisions' = InsertOrIgnore(
                          [wallet |-> w, kind |-> "scan", metrics |-> m,
                           at |-> scan.now])
                   /\ scan' = [scan EXCEPT !.left = @ \ {w},
                                           !.fresh = @ \cup {w}]
                   /\ UNCHANGED <<faults, unsaved>>
                \/ /\ faults < MaxFaults /\ faults' = faults + 1
                   /\ unsaved' = unsaved \cup {w}
                   /\ scan' = [scan EXCEPT !.left = @ \ {w}]
                   /\ UNCHANGED decisions
        /\ UNCHANGED <<world, stored, wallets, verdicts, components,
                       candidates, cut>>

-----------------------------------------------------------------------------
(* Step 5d: copy candidates.                                                *)

TradeInvalid(t) == ~Trade[t].valid
TradeOfAnother(w, t) == Trade[t].wallet # w
WalletNotToBeCopied(m) == LegacyVerdict(m) # "copy_candidate"
OutcomeUnresolved(t) == Trade[t].resolution # "ok"
MarketShut(t) == Trade[t].market \in closed

\* The first reason to reject the trade decides.
CandidateStatus(w, m, t) ==
    IF TradeInvalid(t) THEN "rejected_invalid_trade"
    ELSE IF TradeOfAnother(w, t) THEN "rejected_wallet_trade_mismatch"
    ELSE IF WalletNotToBeCopied(m) THEN "rejected_wallet"
    ELSE IF OutcomeUnresolved(t) THEN Trade[t].resolution
    ELSE IF MarketShut(t) THEN "rejected_market_closed"
    ELSE "pending_price_check"

BeginCandidates ==
    /\ At("score") /\ scan.left = {}
    /\ scan' = [pc |-> "candidates", now |-> scan.now, tried |-> {},
                metrics |-> scan.metrics, fetched |-> scan.fetched,
                fresh |-> scan.fresh, persisted |-> 0]
    /\ UNCHANGED <<world, tables, bounds>>

\* The trades of a wallet this step still considers.
Offered(w) ==
    LET own == {t \in scan.fetched : Trade[t].wallet = w}
    IN  IF Cardinality(own \cap scan.tried) < MaxPerWallet
        THEN own \ scan.tried ELSE {}

Unoffered == {w \in DOMAIN scan.metrics : Offered(w) # {}}

\* Wallet by wallet, trade by trade as they were fetched.  A candidate that
\* is there keeps its row and counts against the bound like a new one.
StoreCandidate(t) ==
    /\ At("candidates") /\ scan.persisted < MaxCandidates
    /\ LET w == Trade[t].wallet
           m == scan.metrics[w]
       IN  /\ IsFirst(w, Unoffered) /\ t \in Offered(w)
           /\ \/ /\ candidates' =
                       IF \E c \in candidates : c.wallet = w /\ c.trade = t
                       THEN candidates
                       ELSE candidates \cup
                            {[wallet |-> w, trade |-> t, metrics |-> m,
                              status |-> CandidateStatus(w, m, t)]}
                 /\ scan' = [scan EXCEPT !.tried = @ \cup {t}, !.persisted = @ + 1]
                 /\ UNCHANGED faults
              \/ /\ faults < MaxFaults /\ faults' = faults + 1
                 /\ scan' = [scan EXCEPT !.tried = @ \cup {t}]
                 /\ UNCHANGED candidates
    /\ UNCHANGED <<world, stored, wallets, decisions, verdicts, components,
                   cut, unsaved>>

-----------------------------------------------------------------------------
(* Step 5e: the audit rows.                                                 *)

\* Audit only wallets that were never audited.
FaultyAudited == scan.fresh \ verdicts

\* The wallets that received a decision in this scan.
Audited == scan.fresh

\* One verdict row to a wallet, whichever of its decisions comes first.
AuditVerdicts ==
    /\ At("candidates")
    /\ Unoffered = {} \/ scan.persisted >= MaxCandidates
    /\ verdicts' = verdicts \cup Audited
    /\ scan' = [pc |-> "audit", fresh |-> scan.fresh]
    /\ UNCHANGED <<world, stored, wallets, decisions, components, candidates,
                   bounds>>

\* Component rows for every decision of those wallets that has none; the
\* scan then ends.
AuditComponents ==
    /\ At("audit")
    /\ components' = components \cup {d \in decisions : d.wallet \in Audited}
    /\ scan' = Idle
    /\ UNCHANGED <<world, stored, wallets, decisions, verdicts, candidates,
                   bounds>>

Crash ==
    /\ ~At("idle") /\ faults < MaxFaults
    /\ faults' = faults + 1
    /\ cut' = cut \cup (IF At("fetch") THEN {} ELSE scan.fresh)
    /\ scan' = Idle
    /\ UNCHANGED <<world, tables, unsaved>>

ScanStep ==
    \/ Begin \/ SelectSlice \/ BeginCandidates
    \/ AuditVerdicts \/ AuditComponents
    \/ \E m \in Markets : FetchComplete(m) \/ FetchIncomplete(m)
    \/ \E w \in Wallets : Discover(w) \/ Score(w)
    \/ \E t \in Trades : StoreCandidate(t)

Next ==
    \/ ScanStep \/ Crash \/ Tick
    \/ \E m \in Markets : CloseMarket(m)
    \/ \E t \in Trades : Collect(t)
    \/ \E w \in Wallets : DiscoverElsewhere(w) \/ EvaluateElsewhere(w)

\* The timer starts the scan again and again and a started scan proceeds.
Spec == Init /\ [][Next]_vars /\ WF_vars(ScanStep)

-----------------------------------------------------------------------------
(* Properties.                                                              *)

\* Every decision a scan stored has its component rows, and its wallet a
\* verdict row, when no scan is running, unless a crash cut that audit off:
\* the next scan takes the decision for done and does not repeat the audit.
AuditComplete ==
    At("idle") =>
        \A d \in decisions : d.kind = "scan" /\ d.wallet \notin cut =>
            d \in components /\ d.wallet \in verdicts

\* A copy candidate was judged on the metrics of a stored decision of its
\* wallet, whatever was ingested since and however often the scan was cut
\* short, unless the write of that decision failed.
CandidateRestsOnDecision ==
    \A c \in candidates :
        c.wallet \in unsaved \/ HasDecision(c.wallet, c.metrics)

\* The visit of a wallet that would change nothing but takes a slot as work:
\* it has no trade to be measured by, or its last trade is later than the
\* start of the scan that has already scored it.
Idling(w) ==
    /\ w \in wallets /\ NeedsWork(w)
    /\ Own(w) = {} \/ HasDecision(w, Metrics(w))

Due(w) == w \in wallets /\ NeedsWork(w) /\ ~Idling(w)

\* Every wallet with work for the scan is reached in the end.
ScanRotates == \A w \in Wallets : Due(w) ~> ~Due(w)

\* As long as the wallets that take a slot for nothing do not fill the cap,
\* every wallet with work for the scan is reached in the end.
DueWalletsReached ==
    <>[](Cardinality({w \in Wallets : Idling(w)}) < Cap) => ScanRotates

=============================================================================
