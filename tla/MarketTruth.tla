------------------------------ MODULE MarketTruth ------------------------------
(***************************************************************************)
(* How a stored source trade learns whether it won.  Three commands settle *)
(* source_trades, one at a time under the operational lock: the scheduled  *)
(* refresh of watched markets, with a retry schedule per market            *)
(* (refresh_specialist_market_truth.py), the bounded resolver of all trades*)
(* (resolve_source_trades.py), and the backfill from the markets table     *)
(* (backfill_resolution_truth.py).  Beside them Gamma decides and corrects *)
(* outcomes, days pass, and the history ingestion stores trades without    *)
(* the lock.                                                               *)
(***************************************************************************)
EXTENDS Integers, FiniteSets, Sequences

CONSTANTS
    Trades,         \* BUY trades the ingestion may store
    Stored,         \* those it has stored before
    Eligible,       \* those of the two accepted sources, not samples
    Watched,        \* eligible trades of the cohort that is refreshed
    MarketOf,       \* MarketOf[t]: its market
    TokenOf,        \* TokenOf[t]: the outcome token bought
    Markets,        \* markets, naturals in the order of their ids
    Outcomes,       \* Outcomes[m]: sequence of [label, token]
    Declares,       \* Declares[m]: the labels Gamma declares, the later ones corrections
    Failures,       \* how a lookup may fail, as the statuses it then gets
    None,           \* an absent value
    Never,          \* the check time 9999-12-31
    LimitMarkets,   \* the largest --limit-markets
    MaxAttempts,    \* MAX_REFRESH_ATTEMPTS
    RetryDays,      \* the delay after an unresolved market or an error
    UnavailableDays,\* the delay after an unavailable market
    MaxCommands,    \* bound: commands started by an operator
    MaxFaults       \* bound: crashes and failed statements

VARIABLES
    declared,   \* declared[m]: how many of its labels Gamma has declared
    db,         \* the database as committed
    work,       \* the database as the connection of the running command sees it
    tx,         \* that connection has a transaction open
    job,        \* the command that holds the operational lock
    commands,   \* operator commands started
    faults      \* crashes and failures so far

ASSUME TruthAssumption ==
    /\ Watched \subseteq Eligible /\ Eligible \subseteq Trades /\ Stored \subseteq Trades
    /\ Markets \subseteq Nat /\ LimitMarkets > 0
    /\ MarketOf \in [Trades -> Markets] /\ Declares \in [Markets -> Seq(STRING)]
    /\ MaxAttempts \in Nat /\ RetryDays \in Nat /\ UnavailableDays \in Nat
    /\ Failures \subseteq STRING \ {"resolved"}
    /\ None \notin {"refresh", "resolver", "backfill"} /\ None \notin Markets

store == <<db, work, tx>>
vars == <<declared, store, job, commands, faults>>

NoState == [status |-> None, conflict |-> FALSE, attempts |-> 0, wait |-> 0]
Open == [status |-> "unresolved", winner |-> None, by |-> None]
IdleJob == [kind |-> "idle", pc |-> "idle", todo |-> {}, market |-> None, rows |-> {},
            answer |-> None, plan |-> {}, read |-> [m \in Markets |-> {}]]

Init ==
    /\ declared = [m \in Markets |-> 0]
    /\ db = [trades |-> [t \in Stored |-> Open],
             state |-> [m \in Markets |-> NoState],
             before |-> {},
             market |-> [m \in Markets |->
                           [resolved |-> FALSE, label |-> None, winner |-> None]]]
    /\ work = db
    /\ tx = FALSE
    /\ job = IdleJob
    /\ commands = 0
    /\ faults = 0

-----------------------------------------------------------------------------
(* Verdicts.                                                                *)

\* The outcomes that carry the label, and the tokens they have.
LabelledBy(m, label) ==
    {i \in DOMAIN Outcomes[m] : label # None /\ Outcomes[m][i].label = label
                                             /\ Outcomes[m][i].token # None}

\* derive_winner_from_market_payload and _check_one_market: the declared label
\* must name one outcome; two are ambiguous even with the same token.
TruthOf(m, label) ==
    LET named == LabelledBy(m, label)
    IN  IF label = None THEN [status |-> "unresolved", winner |-> None]
        ELSE IF named = {} THEN [status |-> "missing_winning_token", winner |-> None]
        ELSE IF Cardinality(named) > 1 THEN [status |-> "ambiguous", winner |-> None]
        ELSE [status |-> "resolved", winner |-> Outcomes[m][CHOOSE i \in named : TRUE].token]

\* The label Gamma shows, None while the market is open.
Gamma(m) == IF declared[m] = 0 THEN None ELSE Declares[m][declared[m]]

\* Every lookup may also find nothing or fail.
Answers(m) ==
    {TruthOf(m, Gamma(m))} \cup {[status |-> s, winner |-> None] : s \in Failures}

\* settle_source_trade_against_truth: the flag and the P/L follow from status.
Settlement(t, winner, by) ==
    [status |-> IF TokenOf[t] = None THEN "unknown"
                ELSE IF TokenOf[t] = winner THEN "won" ELSE "lost",
     winner |-> winner, by |-> by]

RowsOf(d, m) == {t \in DOMAIN d.trades : MarketOf[t] = m}
Unsettled(d) == {t \in DOMAIN d.trades : d.trades[t].status = "unresolved"}

-----------------------------------------------------------------------------
(* The retry schedule of a market.                                          *)

Clean(s) == s.status = "resolved" /\ ~s.conflict
Failure(s) == s.status \notin {None, "unresolved"} /\ ~Clean(s)

\* A failure after anything else starts a new budget.  The count kept for an
\* unresolved market is left out: nothing reads it.
Attempts(prior, now) ==
    IF ~(Failure(now) /\ Failure(prior)) THEN 1
    ELSE IF prior.attempts >= MaxAttempts THEN MaxAttempts ELSE prior.attempts + 1

\* _upsert_bookkeeping: next_check_after as the days that are left to it, and
\* last_checked_at by the pairs of markets whose first was checked before the
\* second, or never.
Booked(d, m, status, conflict) ==
    LET prior == d.state[m]
        now == [status |-> status, conflict |-> conflict]
        attempts == Attempts(prior, now)
        wait == IF Clean(now) \/ (Failure(now) /\ attempts = MaxAttempts) THEN Never
                ELSE IF status = "unavailable" THEN UnavailableDays ELSE RetryDays
    IN  [d EXCEPT !.state[m] = [status |-> status, conflict |-> conflict,
                                attempts |-> attempts, wait |-> wait],
                  !.before = (@ \ ({m} \X Markets)) \cup ((Markets \ {m}) \X {m})]

\* select_markets_for_refresh: a watched trade is not terminal, or the market
\* is in conflict; the budget is not used up; the check time has come.
Due(m) ==
    LET s == db.state[m]
        open == \E t \in RowsOf(db, m) \cap Watched : db.trades[t].status \notin {"won", "lost"}
        any == RowsOf(db, m) \cap Watched # {}
    IN  /\ open \/ (any /\ s.status = "resolved" /\ s.conflict)
        /\ Failure(s) => s.attempts < MaxAttempts
        /\ s.wait = 0

\* By their ids alone.
FaultyOlder(k, m) == k < m

\* Markets never checked first, in the order of their ids, then the ones
\* checked longest ago.
Older(k, m) ==
    \/ <<k, m>> \in db.before
    \/ <<m, k>> \notin db.before /\ k < m

Selected(limit) ==
    {m \in Markets : Due(m) /\ Cardinality({k \in Markets : Due(k) /\ Older(k, m)}) < limit}

-----------------------------------------------------------------------------
(* The world.                                                               *)

\* A market closes under a label, or its outcome is corrected.
GammaDeclares(m) ==
    /\ declared[m] < Len(Declares[m])
    /\ declared' = [declared EXCEPT ![m] = @ + 1]
    /\ UNCHANGED <<store, job, commands, faults>>

\* An open transaction of the running command that has written keeps others out.
Writing == tx \/ work # db

\* The history ingestion, which takes no operational lock while it writes.
StoreTrade(t) ==
    /\ ~Writing
    /\ t \notin DOMAIN db.trades
    /\ db' = [db EXCEPT !.trades = [u \in DOMAIN @ \cup {t} |-> IF u = t THEN Open ELSE @[u]]]
    /\ work' = db'
    /\ UNCHANGED <<declared, tx, job, commands, faults>>

Sooner(wait) == IF wait = Never \/ wait = 0 THEN wait ELSE wait - 1

\* A day passes; no command takes that long.
Day ==
    /\ job = IdleJob
    /\ \E m \in Markets : Sooner(db.state[m].wait) # db.state[m].wait
    /\ db' = [db EXCEPT !.state = [m \in Markets |->
                [db.state[m] EXCEPT !.wait = Sooner(db.state[m].wait)]]]
    /\ work' = db'
    /\ UNCHANGED <<declared, tx, job, commands, faults>>

\* persist_market_preserving_identity, of collections and scans that hold the
\* lock: the outcomes are written anew, the winning token stays.
PersistMarket(m) ==
    /\ job = IdleJob
    /\ LET row == [db.market[m] EXCEPT !.resolved = Gamma(m) # None, !.label = Gamma(m)]
       IN  /\ row # db.market[m]
           /\ db' = [db EXCEPT !.market[m] = row]
    /\ work' = db'
    /\ UNCHANGED <<declared, tx, job, commands, faults>>

-----------------------------------------------------------------------------
(* The refresh.                                                             *)

\* A pass over the cohort, of at most so many markets.
StartRefresh(limit) ==
    /\ job = IdleJob
    /\ Selected(limit) # {}
    /\ job' = [IdleJob EXCEPT !.kind = "refresh", !.pc = "ask", !.todo = Selected(limit)]
    /\ UNCHANGED <<declared, store, commands, faults>>

OperatorStarts(new) ==
    /\ job = IdleJob
    /\ commands < MaxCommands
    /\ commands' = commands + 1
    /\ job' = new
    /\ UNCHANGED <<declared, store, faults>>

\* --market-source-id: the schedule is bypassed.
RecheckMarket(m) ==
    /\ RowsOf(db, m) \cap Eligible # {}
    /\ OperatorStarts([IdleJob EXCEPT !.kind = "refresh", !.pc = "ask", !.todo = {m}])

\* The next market in the order in which they were selected.
Asking(m) ==
    /\ job.kind = "refresh" /\ job.pc = "ask"
    /\ m \in job.todo /\ \A k \in job.todo \ {m} : Older(m, k)

\* Every unsettled trade is settled, whatever the others were settled to.
FaultyConflicting(rows, winner) ==
    /\ rows \cap Unsettled(work) = {}
    /\ \E t \in rows : work.trades[t] # Settlement(t, winner, "refresh")

\* A settled trade must be what this pass would make of it, its source included.
Conflicting(rows, winner) ==
    \E t \in rows \ Unsettled(work) : work.trades[t] # Settlement(t, winner, "refresh")

\* One lookup.  With a winner every eligible trade of the market is read.
AskMarket(m) ==
    /\ Asking(m)
    /\ \E answer \in Answers(m) :
         LET rows == IF answer.status = "resolved" THEN RowsOf(work, m) \cap Eligible ELSE {}
             conflict == Conflicting(rows, answer.winner)
         IN  job' = [job EXCEPT !.pc = IF answer.status # "resolved" THEN "book"
                                       ELSE IF conflict THEN "conflict" ELSE "settle",
                                !.market = m,
                                !.answer = answer,
                                !.rows = IF conflict THEN {} ELSE rows \cap Unsettled(work),
                                !.read[m] = rows]
    /\ UNCHANGED <<declared, store, commands, faults>>

\* Each UPDATE is a transaction of its own.
FaultySettleTrade(t) ==
    /\ job.pc = "settle"
    /\ t \in job.rows
    /\ work' = [work EXCEPT !.trades[t] = Settlement(t, job.answer.winner, "refresh")]
    /\ db' = work'
    /\ job' = [job EXCEPT !.rows = @ \ {t}]
    /\ UNCHANGED <<declared, tx, commands, faults>>

\* The UPDATEs under the market's savepoint, one by one.
SettleTrade(t) ==
    /\ job.pc = "settle"
    /\ t \in job.rows
    /\ work' = [work EXCEPT !.trades[t] = Settlement(t, job.answer.winner, "refresh")]
    /\ job' = [job EXCEPT !.rows = @ \ {t}]
    /\ UNCHANGED <<declared, db, tx, commands, faults>>

NextMarket == [job EXCEPT !.pc = "ask", !.todo = @ \ {job.market}, !.market = None,
                          !.answer = None]

\* The bookkeeping and the release of the savepoint, which commits unless an
\* earlier market of the pass has left a transaction open.
BookSettled ==
    /\ job.pc \in {"settle", "conflict"} /\ job.rows = {}
    /\ work' = Booked(work, job.market, "resolved", job.pc = "conflict")
    /\ db' = IF tx THEN db ELSE work'
    /\ job' = NextMarket
    /\ UNCHANGED <<declared, tx, commands, faults>>

\* Without a winner the bookkeeping is written outside of any savepoint, and
\* the transaction it opens stays open during the lookups that follow.
BookUnsettled ==
    /\ job.pc = "book"
    /\ work' = Booked(work, job.market, job.answer.status, FALSE)
    /\ tx' = TRUE
    /\ job' = NextMarket
    /\ UNCHANGED <<declared, db, commands, faults>>

Finish ==
    /\ db' = work
    /\ tx' = FALSE
    /\ job' = IdleJob
    /\ UNCHANGED <<declared, work, commands, faults>>

FinishRefresh == job.kind = "refresh" /\ job.todo = {} /\ Finish

-----------------------------------------------------------------------------
(* The resolver: all unsettled trades, whatever their source.               *)

StartResolver ==
    /\ Unsettled(db) # {}
    /\ OperatorStarts([IdleJob EXCEPT !.kind = "resolver", !.pc = "ask",
                                      !.rows = Unsettled(db)])

\* One lookup for all trades of a market; only a winner leads to an update.
ResolveMarket(m) ==
    /\ job.kind = "resolver"
    /\ LET rows == {t \in job.rows : MarketOf[t] = m}
       IN  /\ rows # {}
           /\ \E answer \in Answers(m) :
                job' = [job EXCEPT !.rows = @ \ rows,
                          !.plan = IF answer.status # "resolved" THEN @
                                   ELSE @ \cup {<<t, Settlement(t, answer.winner, "resolver")>> :
                                                  t \in rows}]
    /\ UNCHANGED <<declared, store, commands, faults>>

Applied(d, plan) ==
    [d EXCEPT !.trades = [t \in DOMAIN @ |->
        IF \E p \in plan : p[1] = t THEN (CHOOSE p \in plan : p[1] = t)[2] ELSE @[t]]]

\* The updates of trades still unresolved and the commit.
FinishResolver ==
    /\ job.kind = "resolver" /\ job.rows = {}
    /\ db' = Applied(work, {p \in job.plan : p[1] \in Unsettled(work)})
    /\ work' = db'
    /\ job' = IdleJob
    /\ UNCHANGED <<declared, tx, commands, faults>>

-----------------------------------------------------------------------------
(* The backfill from the markets table.                                     *)

StartBackfill ==
    LET resolved == {m \in Markets : db.market[m].resolved}
    IN  /\ resolved # {}
        /\ OperatorStarts([IdleJob EXCEPT !.kind = "backfill", !.pc = "truth",
                                          !.todo = resolved])

\* plan_truth_for_market: a winner once stored is preferred to the label.
StoredWinner(m) ==
    LET named == {Outcomes[m][i].token : i \in LabelledBy(m, work.market[m].label)}
    IN  IF work.market[m].winner # None THEN work.market[m].winner
        ELSE IF Cardinality(named) = 1 THEN CHOOSE k \in named : TRUE ELSE None

\* Trades with a token, settled ones included.
FaultyToBackfill(m) == {t \in RowsOf(work, m) : TokenOf[t] # None}

\* Unsettled trades of any source that have a token.
ToBackfill(m) == {t \in RowsOf(work, m) \cap Unsettled(work) : TokenOf[t] # None}

\* apply_resolution_truth_to_market: no winner makes the market unresolved, a
\* winner of two outcomes leaves it as it is.  Outside of a transaction this
\* is one of its own.  The trades were planned before.
WriteTruth(m) ==
    LET winner == StoredWinner(m)
        won == {i \in DOMAIN Outcomes[m] : winner # None /\ Outcomes[m][i].token = winner}
        ambiguous == Cardinality(won) > 1
    IN  /\ job.kind = "backfill" /\ job.pc = "truth"
        /\ m \in job.todo /\ \A k \in job.todo : m <= k
        /\ work' = CASE ambiguous -> work
                     [] ~ambiguous /\ winner = None ->
                          [work EXCEPT !.market[m].resolved = FALSE]
                     [] OTHER ->
                          [work EXCEPT !.market[m].winner = winner]
        /\ job' = [job EXCEPT !.pc = "trades", !.todo = @ \ {m},
                     !.plan = IF winner = None THEN {}
                              ELSE {<<t, IF ambiguous
                                         THEN [status |-> "ambiguous", winner |-> winner,
                                               by |-> "backfill"]
                                         ELSE Settlement(t, winner, "backfill")>> :
                                      t \in ToBackfill(m)}]
        /\ db' = IF tx THEN db ELSE work'
        /\ UNCHANGED <<declared, tx, commands, faults>>

\* The UPDATEs of the market's trades open a transaction that stays open.
WriteTrades ==
    /\ job.kind = "backfill" /\ job.pc = "trades"
    /\ work' = Applied(work, job.plan)
    /\ tx' = (tx \/ job.plan # {})
    /\ job' = [job EXCEPT !.pc = "truth", !.plan = {}]
    /\ UNCHANGED <<declared, db, commands, faults>>

FinishBackfill == job.kind = "backfill" /\ job.pc = "truth" /\ job.todo = {} /\ Finish

-----------------------------------------------------------------------------
\* A statement fails or the process dies: what is not committed is gone, and
\* the lock is free.
Fail ==
    /\ job # IdleJob
    /\ faults < MaxFaults
    /\ faults' = faults + 1
    /\ work' = db
    /\ tx' = FALSE
    /\ job' = IdleJob
    /\ UNCHANGED <<declared, db, commands>>

Step ==
    \/ \E m \in Markets : AskMarket(m) \/ ResolveMarket(m) \/ WriteTruth(m)
    \/ \E t \in job.rows : SettleTrade(t)
    \/ BookSettled \/ BookUnsettled \/ FinishRefresh
    \/ FinishResolver
    \/ WriteTrades \/ FinishBackfill

Next ==
    \/ \E m \in Markets : GammaDeclares(m) \/ PersistMarket(m) \/ RecheckMarket(m)
    \/ \E t \in Trades : StoreTrade(t)
    \/ \E limit \in 1 .. LimitMarkets : StartRefresh(limit)
    \/ Day \/ StartResolver \/ StartBackfill
    \/ Step \/ Fail

\* Days pass, a refresh is started as long as a market is due, and a command
\* that runs goes on.
Fairness ==
    /\ WF_vars(Day)
    /\ WF_vars(\E limit \in 1 .. LimitMarkets : StartRefresh(limit))
    /\ WF_vars(Step)

Spec == Init /\ [][Next]_vars /\ Fairness

-----------------------------------------------------------------------------
(* Properties.                                                              *)

\* A verdict is final: whichever command gave it and whatever Gamma says later,
\* no command rewrites the status, winner or source of a settled trade.
SettledStays ==
    [][\A t \in DOMAIN db.trades :
         /\ t \in DOMAIN db'.trades
         /\ db.trades[t].status # "unresolved" => db'.trades[t] = db.trades[t]]_vars

\* _with_savepoint: the verdicts and the bookkeeping of a market become durable
\* together.  A commit that settles a trade by the refresh, or marks the market
\* as done, does both, for every trade the pass has read.
RefreshLandsWhole ==
    [][\A m \in Markets :
         LET settled == {t \in RowsOf(db, m) \cap Unsettled(db) :
                            db'.trades[t].by = "refresh"}
             marked == Clean(db'.state[m]) /\ ~Clean(db.state[m])
         IN  settled # {} \/ marked =>
               /\ Clean(db'.state[m])
               /\ \A t \in job.read[m] : db'.trades[t].status # "unresolved"]_vars

\* Although Gamma corrects outcomes between two passes, all trades of a market
\* that the refresh settled name one winner: a trade that is stored late is not
\* settled against the others (resolve_selected_markets stops at a conflict).
RefreshNamesOneWinner ==
    \A t, u \in DOMAIN db.trades :
        MarketOf[t] = MarketOf[u] /\ db.trades[t].by = "refresh" /\ db.trades[u].by = "refresh"
        => db.trades[t].winner = db.trades[u].winner

\* A watched trade of a closed market is settled in the end, or its market is
\* one that the schedule has given up or is done with: no market starves behind
\* others, and no crash or failure loses its turn for good.
TruthArrives ==
    \A t \in Watched :
        LET m == MarketOf[t]
            waiting == t \in Unsettled(db)
        IN  waiting /\ Gamma(m) # None ~> ~waiting \/ db.state[m].wait = Never

\* source_trade_resolution.py:846: "Bookkeeping cannot suppress an inconsistent
\* canonical unresolved row".
BookkeepingNeverSuppresses ==
    \A t \in Watched \cap Unsettled(db) :
        LET s == db.state[MarketOf[t]] IN Clean(s) => s.wait # Never

\* source_trade_resolution.py:80: "excluded from the idempotency/conflict
\* comparison (only resolution *facts* are compared)".
OnlyFactsConflict ==
    job.pc = "conflict" =>
        \E t \in job.read[job.market] \ Unsettled(work) :
            LET facts == Settlement(t, job.answer.winner, "refresh")
            IN  \/ work.trades[t].status # facts.status
                \/ work.trades[t].winner # facts.winner
=============================================================================
