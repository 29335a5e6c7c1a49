---------------------------- MODULE EvidenceCohort ----------------------------
(***************************************************************************)
(* The bounded collection of evidence for a cohort of watched wallets      *)
(* (ingestion/specialist_evidence_cohort.py and what it calls): pages of   *)
(* trades are fetched, named, looked up at Gamma and inserted, each stored *)
(* trade is enriched under a savepoint of its own, and the cohort commits  *)
(* or rolls back at its end.  Beside it run the history ingestion, which   *)
(* writes source_trades without the operational lock, and the enrichment   *)
(* of one trade, which takes it.                                           *)
(***************************************************************************)
EXTENDS Integers, FiniteSets, Sequences

CONSTANTS
    Watches,        \* watch ids, in the order of sorted(): naturals
    Trades,         \* Trades[w]: the trades of the watched wallet, oldest first
    Made,           \* Made[w]: how many of them it has made at the start
    Markets,
    Evidence,       \* the market evidence Gamma may answer: category, closed
    None,           \* an absent value
    Missing,        \* Gamma does not know the market
    Unasked,        \* no answer in the cache of the cohort
    NoRow,          \* no provenance row
    RecordLimit,    \* the largest max_total_new_trades
    PerWatchLimit,  \* max_new_trades_per_wallet
    GammaLimit,     \* max_gamma_requests
    HistoryLimit,   \* max_records of the history ingestion
    MaxJobs,        \* bound: cohorts started
    MaxMoves        \* bound: changes of Gamma's answers and of the watch list

VARIABLES
    shown,      \* shown[w]: how many of its trades the wallet has made
    gamma,      \* gamma[m]: what Gamma answers for a market
    moves,      \* changes of gamma and status so far
    status,     \* status[w] of the watch
    db,         \* the database as committed
    work,       \* the database as the connection of the cohort sees it
    tx,         \* that connection has an implicit transaction open
    job,        \* the cohort
    jobs,       \* cohorts started
    base,       \* the database without what this cohort did
    imported    \* trades the history ingestion inserted

Audits == [status : {"complete", "incomplete", "conflict", "unavailable"},
           category : {e.category : e \in Evidence} \cup {None}, found : BOOLEAN]

ASSUME CohortAssumption ==
    /\ NoRow \notin Audits
    /\ \A e \in Evidence : e = [category |-> e.category, closed |-> e.closed]

world == <<shown, gamma, moves>>
store == <<db, work, base, imported>>
vars == <<world, status, store, tx, job, jobs>>

NoMetadata == [category |-> None, closed |-> None]

TradeOf(r) == Trades[r[1]][r[2]]
MarketsOf(ids) == {TradeOf(r).market : r \in ids}
Buys(ids) == {r \in ids : TradeOf(r).side = "BUY"}

\* A source-provided id names the trade wherever it is found; a transaction
\* hash is completed by the position in the fetched page.
SourceTradeId(w, n, position) ==
    <<w, n, IF Trades[w][n].hashed THEN position ELSE 0>>

\* The newest trades come first.
FetchedPage(w, limit) ==
    {SourceTradeId(w, shown[w] + 1 - i, i) : i \in {i \in 1 .. shown[w] : i <= limit}}

IdleJob == [pc |-> "idle", outcome |-> "none", resolve |-> FALSE, todo |-> {},
            watch |-> None, page |-> {}, fresh |-> {}, rows |-> {}, records |-> 0,
            calls |-> 0, cache |-> [m \in Markets |-> Unasked], changed |-> FALSE]

Init ==
    /\ shown = Made
    /\ gamma = [m \in Markets |-> Missing]
    /\ moves = 0
    /\ status = [w \in Watches |-> "active"]
    /\ db = [trades |-> [r \in {} |-> NoRow], collected |-> [w \in Watches |-> 0]]
    /\ work = db
    /\ base = db
    /\ imported = {}
    /\ tx = FALSE
    /\ job = IdleJob
    /\ jobs = 0

-----------------------------------------------------------------------------
(* Metadata and provenance of a trade.                                      *)

\* build_metadata_from_gamma_market, or the all-null metadata of the trade.
InitialMetadata(answer) == IF answer \in Evidence THEN answer ELSE NoMetadata

\* An official category once accepted is not replaced; the lifecycle is.
Conflicts(meta, answer) ==
    /\ meta.category # None /\ answer.category # None
    /\ meta.category # answer.category

\* The last answer wins.
FaultyMerged(meta, answer) == IF answer \in Evidence THEN answer ELSE meta

\* merge_canonical_metadata: what the trade's metadata becomes.  On conflict
\* and without an answer it is kept as it was.
Merged(meta, answer) ==
    IF answer \notin Evidence \/ Conflicts(meta, answer) THEN meta
    ELSE [category |-> IF meta.category = None THEN answer.category ELSE meta.category,
          closed |-> answer.closed]

\* The audit row of what Gamma said, whatever became of it.
FaultyPayload(meta, answer) ==
    LET category == IF answer \in Evidence THEN answer.category ELSE None
    IN  [status |-> IF category # None THEN "complete" ELSE "incomplete",
         category |-> category,
         found |-> answer \in Evidence]

\* build_provenance_payload.
Payload(meta, answer) ==
    LET known == answer \in Evidence
        conflict == known /\ Conflicts(meta, answer)
        category == IF known /\ ~conflict THEN Merged(meta, answer).category ELSE None
    IN  [status |-> IF conflict THEN "conflict"
                    ELSE IF ~known THEN "unavailable"
                    ELSE IF category # None THEN "complete" ELSE "incomplete",
         category |-> category,
         found |-> known]

\* enrich_source_trade: metadata and the one current provenance row.
Enriched(row, answer) ==
    [meta |-> Merged(row.meta, answer), prov |-> Payload(row.meta, answer)]

\* INSERT OR IGNORE of rows, a function of ids.
Inserted(d, rows) ==
    [d EXCEPT !.trades = [r \in DOMAIN d.trades \cup DOMAIN rows |->
                            IF r \in DOMAIN d.trades THEN d.trades[r] ELSE rows[r]]]

WithRow(d, r, row) == [d EXCEPT !.trades[r] = row]

-----------------------------------------------------------------------------
(* The world: wallets trade, Gamma reclassifies and closes markets.         *)

WalletTrades(w) ==
    /\ shown[w] < Len(Trades[w])
    /\ shown' = [shown EXCEPT ![w] = @ + 1]
    /\ UNCHANGED <<gamma, moves, status, store, tx, job, jobs>>

GammaMoves(m) ==
    /\ moves < MaxMoves
    /\ moves' = moves + 1
    /\ \E answer \in Evidence \ {gamma[m]} : gamma' = [gamma EXCEPT ![m] = answer]
    /\ UNCHANGED <<shown, status, store, tx, job, jobs>>

-----------------------------------------------------------------------------
(* Commands that hold the operational lock, so never during a cohort.       *)

SetStatus(w, to) ==
    /\ job.pc = "idle"
    /\ status[w] # to
    /\ moves < MaxMoves
    /\ moves' = moves + 1
    /\ status' = [status EXCEPT ![w] = to]
    /\ UNCHANGED <<shown, gamma, store, tx, job, jobs>>

PauseWatch(w) == SetStatus(w, "paused")
RetireWatch(w) == SetStatus(w, "retired")
ResumeWatch(w) == status[w] = "paused" /\ SetStatus(w, "active")

\* enrich_approved_source_trade.py --write --allow-live: one trade, committed.
EnrichOne(r) ==
    /\ job.pc = "idle"
    /\ r \in Buys(DOMAIN db.trades)
    /\ LET row == Enriched(db.trades[r], gamma[TradeOf(r).market])
       IN  /\ row # db.trades[r]
           /\ db' = WithRow(db, r, row)
           /\ work' = WithRow(work, r, row)
           /\ base' = WithRow(base, r, row)
    /\ UNCHANGED <<world, status, imported, tx, job, jobs>>

\* ingest_wallet_evidence_history.py: buys and sells, without Gamma and, for
\* its one writing transaction, without the operational lock.  A cohort with
\* a transaction open keeps it out.
IngestHistory(w) ==
    LET new == FetchedPage(w, HistoryLimit) \ DOMAIN db.trades
        rows == [r \in new |-> [meta |-> NoMetadata, prov |-> NoRow]]
    IN  /\ ~tx
        /\ new # {}
        /\ db' = Inserted(db, rows)
        /\ work' = Inserted(work, rows)
        /\ base' = Inserted(base, rows)
        /\ imported' = imported \cup new
        /\ UNCHANGED <<world, status, tx, job, jobs>>

-----------------------------------------------------------------------------
(* The cohort.                                                              *)

\* Every watch id given must be active, or the run is refused as a whole.
StartCohort(chosen, limit, resolve) ==
    /\ job.pc = "idle"
    /\ jobs < MaxJobs
    /\ \A w \in chosen : status[w] = "active"
    /\ jobs' = jobs + 1
    /\ job' = [IdleJob EXCEPT !.pc = "next", !.resolve = resolve, !.todo = chosen,
                              !.records = limit]
    /\ base' = db
    /\ UNCHANGED <<world, status, db, work, imported, tx>>

\* The watches in the order of their ids, each with what is left of the budget.
\* A provider error is swallowed by the adapter: the page is empty.
Fetch(w) ==
    /\ job.pc = "next" /\ job.records > 0
    /\ w \in job.todo /\ \A v \in job.todo : w <= v
    /\ LET limit == IF job.records < PerWatchLimit THEN job.records ELSE PerWatchLimit
       IN  \E page \in {FetchedPage(w, limit), {}} :
             job' = [job EXCEPT !.pc = "ingest", !.todo = @ \ {w}, !.watch = w,
                                !.page = page, !.changed = FALSE]
    /\ UNCHANGED <<world, status, store, tx, jobs>>

\* Markets that some record of the page, sold or bought, still has to look up.
Wanted == IF job.resolve THEN {m \in MarketsOf(job.page) : job.cache[m] = Unasked} ELSE {}

\* One request, charged to the budget of the whole cohort and remembered.
Lookup(m) ==
    /\ job.pc = "ingest"
    /\ m \in Wanted
    /\ job.calls < GammaLimit
    /\ job' = [job EXCEPT !.calls = @ + 1, !.cache[m] = gamma[m]]
    /\ UNCHANGED <<world, status, store, tx, jobs>>

\* Only the buys are accepted; those not stored yet go to the writer.
Preflight ==
    /\ job.pc = "ingest"
    /\ Wanted = {}
    /\ job' = [job EXCEPT !.pc = "write", !.page = {}, !.rows = Buys(job.page),
                          !.fresh = Buys(job.page) \ DOMAIN work.trades]
    /\ UNCHANGED <<world, status, store, tx, jobs>>

\* A connection in autocommit mode.
FaultyOpensTransaction == FALSE

\* Any INSERT, even an ignored one, opens the implicit transaction.
OpensTransaction == job.fresh # {}

\* INSERT OR IGNORE of the fresh rows; what was inserted is off the budget.
WriteRows ==
    /\ job.pc = "write"
    /\ LET new == job.fresh \ DOMAIN work.trades
           rows == [r \in new |-> [meta |-> InitialMetadata(job.cache[TradeOf(r).market]),
                                   prov |-> NoRow]]
       IN  /\ work' = Inserted(work, rows)
           /\ job' = [job EXCEPT !.pc = "enrich", !.fresh = {}, !.changed = new # {},
                                 !.records = @ - Cardinality(new)]
    /\ tx' = (tx \/ OpensTransaction)
    /\ UNCHANGED <<world, status, db, base, imported, jobs>>

\* The collector counts a row created or updated, unless what it records is a
\* conflict: that counts as nothing done, although the row is written.
Reported(row, before) == row.prov.status # "conflict" /\ row.prov # before.prov

\* SAVEPOINT opens no implicit transaction, so without one the RELEASE of this
\* savepoint, the outermost, commits.
EnrichRow(r) ==
    /\ job.pc = "enrich"
    /\ r \in job.rows
    /\ LET row == Enriched(work.trades[r], job.cache[TradeOf(r).market])
       IN  /\ work' = WithRow(work, r, row)
           /\ job' = [job EXCEPT !.rows = @ \ {r},
                                 !.changed = @ \/ Reported(row, work.trades[r])]
    /\ db' = IF tx THEN db ELSE work'
    /\ UNCHANGED <<world, status, base, imported, tx, jobs>>

\* last_collection_at, only if a trade was inserted or a change reported.
FinishWatch ==
    /\ job.pc = "enrich"
    /\ job.rows = {}
    /\ work' = IF job.changed THEN [work EXCEPT !.collected[job.watch] = jobs] ELSE work
    /\ tx' = (tx \/ job.changed)
    /\ job' = [job EXCEPT !.pc = "next", !.watch = None, !.changed = FALSE]
    /\ UNCHANGED <<world, status, db, base, imported, jobs>>

\* The budget is asked after the rows of a watch are written.
FaultyDone == job.pc \in {"enrich", "next"} /\ (job.todo = {} \/ job.records = 0)

\* All watches done, or the record budget used up.
Done == job.pc = "next" /\ (job.todo = {} \/ job.records = 0)

\* What was staged is kept.
Commit ==
    /\ Done
    /\ db' = work
    /\ base' = work
    /\ tx' = FALSE
    /\ job' = [IdleJob EXCEPT !.outcome = "committed"]
    /\ UNCHANGED <<world, status, work, imported, jobs>>

\* An error of the provider, Gamma, the database or the commit, a spent Gamma
\* budget, the deadline, the memory limit, a crash: the connection rolls back.
Fail ==
    /\ job.pc # "idle"
    /\ work' = db
    /\ tx' = FALSE
    /\ job' = [IdleJob EXCEPT !.outcome = "rolled_back"]
    /\ UNCHANGED <<world, status, db, base, imported, jobs>>

Next ==
    \/ \E w \in Watches :
          \/ WalletTrades(w) \/ PauseWatch(w) \/ RetireWatch(w) \/ ResumeWatch(w)
          \/ IngestHistory(w) \/ Fetch(w)
    \/ \E m \in Markets : GammaMoves(m) \/ Lookup(m)
    \/ \E r \in DOMAIN db.trades : EnrichOne(r)
    \/ \E chosen \in SUBSET Watches \ {{}}, limit \in 1 .. RecordLimit, resolve \in BOOLEAN :
          StartCohort(chosen, limit, resolve)
    \/ \E r \in job.rows : EnrichRow(r)
    \/ Preflight \/ WriteRows \/ FinishWatch \/ Commit \/ Fail

Spec == Init /\ [][Next]_vars

-----------------------------------------------------------------------------
(* Properties.                                                              *)

\* Until a cohort commits, and for good when it reports rolled_back, neither a
\* trade it inserted nor its last_collection_at is in the database.
NoFreshRowOutlivesRollback ==
    job.pc # "idle" \/ job.outcome = "rolled_back" =>
        /\ DOMAIN db.trades = DOMAIN base.trades
        /\ db.collected = base.collected

\* A cohort never commits a trade without the audit row of its enrichment,
\* not even when a later watch fails or the budget ends it early.
CommittedRowsAudited ==
    \A r \in DOMAIN db.trades : db.trades[r].prov = NoRow => r \in imported

\* Dispatch goes by the audit row, scoring by the metadata: an audit row that
\* says complete names the category the scorer reads, any other names none.
CompleteMatchesCategory ==
    \A r \in DOMAIN db.trades :
        LET row == db.trades[r]
        IN  row.prov # NoRow =>
              /\ row.prov.status = "complete" <=> row.prov.category # None
              /\ row.prov.category # None => row.prov.category = row.meta.category

\* A stored trade stays, and the category it was given is never replaced or
\* erased, however often Gamma changes its mind and whoever enriches it.
CategoryIsFinal ==
    [][\A r \in DOMAIN db.trades :
         /\ r \in DOMAIN db'.trades
         /\ db.trades[r].meta.category # None =>
               db'.trades[r].meta.category = db.trades[r].meta.category]_vars

\* specialist_evidence_cohort.py:14: "commits or rolls back the ENTIRE cohort
\* as one SQLite transaction".
CohortAtomic ==
    job.outcome = "rolled_back" => db = base

\* collect_evidence: "idempotently ... Replayed runs add 0 rows".
OneRowPerFill ==
    \A r, q \in DOMAIN db.trades : r[1] = q[1] /\ r[2] = q[2] => r = q
=============================================================================
