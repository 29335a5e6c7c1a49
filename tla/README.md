# A TLA+ model of Polycopy

Polycopy is a paper copy-trading harness for Polymarket: it watches wallets that
a person has approved, turns their trades into candidates and paper signals, and
executes the signals a person has authorised against a simulated book. It is a
set of Python commands, started by operators and by timers, that share one SQLite
database, a few lock files and some JSON control files. Nothing trades for real.

The commands are separate processes with no coordinator, and most of what can go
wrong lies between them: two of them at one row, one killed half-way, a fact read
at the start and used at the end. That is what these modules are about. They
model the control flow of the code (every state change, guard, early return and
failure, in order) and abstract its data.

Paths below are relative to the repository. Definitions named `Faulty...` are
variants with a plausible bug, used to test that a property notices it; no
specification uses them.

## The system

| Part | State | Operations | Modelled |
|---|---|---|---|
| Specialist approvals, `execution/specialist_approval.py` | `specialist_approvals` rows | issue, enable or disable, revoke | `SpecialistApproval` |
| Execution spine, `execution/specialist_spine.py`, `scripts/execute_authorized_specialist_signals.py`, `scripts/manage_paper_signal_authorizations.py` | authorizations, risk decisions, orders, fills, positions, lots | authorize, revoke, execute (or dry run), mark | `SpecialistSpine`, marks left out |
| Specialist settlement, `scripts/settle_specialist_paper_positions.py` | settlement rows, position status | settle | `SpecialistSettlement` |
| Dispatcher, `engine/approved_specialist_dispatcher.py`, with `ingestion/source_trade_enrichment.py` and `engine/approved_wallet_trade_bridge.py` | dispatch rows, enrichments, candidates, signals | dispatch one trade of an approved wallet | `SpecialistDispatch` |
| Bounded observation, `observation/bounded_observation.py`, `scripts/manage_bounded_observation.py` | manifest, state file, pointer | plan, activate, stop, confirm, checkpoint, extend, complete, gate | `BoundedObservation` |
| Control-plane lock, `observation/control_lock.py` | a lock file | acquire, release | `ControlLock`, `LockFile`, `Mutex` |
| File lock, `utils/concurrency.py`, and operational job locks, `runtime/locks.py` | lock files that are unlinked | acquire, release | `FileLock`, `LockFile` |
| Paper broker, `adapters/paper_broker.py`, with `risk/` gates, fill model, P&L, settlement | orders, positions, FIFO lots, settlements in memory | place, confirm, cancel, settle, kill switch | `PaperBroker` |
| Database, `db/` | schema version, tables, indexes | migrate, reconcile | `MigrationRunner`, `SchemaStatements`; its transaction rules everywhere |
| Signal evaluation, `scoring/paper_signal.py` with the rest of `scoring/` | score decisions, signals, shadow rows, exit tracks | evaluate a candidate | `PaperSignal`, `ScoringRules` |
| Scan, `scripts/run_scan.py`, `scripts/scan_pipeline_wiring.py`, `db/copy_candidate_persistence.py` | source trades, wallets, decisions, candidates, audit rows | one scan, again and again | `ScanPipeline` |
| Idempotency store, `risk/idempotency.py` | `idempotency_keys` | check and store, clean up | no: nothing calls it |
| Collector and monitor of approved wallets | source trades, cursors | collect, report | planned |
| Evidence collection, `ingestion/specialist_evidence_cohort.py`, with the writer, the metadata merge, the provenance and the history ingestion of `ingestion/` | watch list, source trades, their metadata and audit rows | collect a cohort, pause, resume, retire, ingest history, enrich one trade | `EvidenceCohort` |
| Outcomes of source trades, `scripts/refresh_specialist_market_truth.py`, `scripts/resolve_source_trades.py`, `scripts/backfill_resolution_truth.py`, with `ingestion/source_trade_resolution.py` and `db/market_persistence.py` | resolution columns of source trades, refresh state per market, `markets` rows | refresh due markets, recheck one, resolve, backfill | `MarketTruth` |
| Parsing, discovery, adapters, reports, API, frontend | | | no: see below |

How they interact. The collector stores trades of approved wallets; the
dispatcher enriches one, checks its category against the approval's and calls the
bridge, which writes a candidate and has it scored into a paper signal; a
reviewer authorises a signal; the execution command turns it into an order, a
fill, a position and a lot; the settlement command closes the position with
resolution evidence. All of that goes through rows of one database. The database
runs in WAL mode with Python's implicit transactions: SELECTs outside a
transaction see what is committed at that moment, the first INSERT or UPDATE
takes the one write lock, and a connection that is closed or lost rolls back.
Operational jobs exclude each other with `FileLock`; the execution, authorization,
approval and settlement commands take no such lock. The scan of the timer
stores trades, wallets, decisions and candidates and ends in the evaluation of
the candidates; the bridge of the dispatcher runs the same evaluator, so two
evaluators may meet at one candidate. Evidence about wallets that are not yet
approved is collected in cohorts of watched wallets; the history ingestion adds
trades of a wallet beside them. What these trades won is asked of Gamma, market by
market, or taken from the `markets` table; the evaluation rests on it. Every command opens the database and
thereby migrates it. The paper broker lives in the memory of one process and is
reached by tests and, for its parts, by the previews of the API. The observation's
control files have a lock of their own and no connection to the rest: the gate they
provide is not wired to any job yet.

What makes each part correct:

- approvals: one active approval per (wallet, category, formula); revocation is final;
- spine: one order per signal; an order, its audit record and its spent
  authorization come together or not at all; no order without an authorization
  active at that moment; exposure limits; refusals are on record; revocation works;
- settlement: rows and status flags agree; the same evidence counts once; what a
  settler reported stays true; a position is settled once;
- dispatcher: a trade is dispatched once per approval and never reopened; a row
  that awaits execution names a signal that exists; no signal without a live approval;
- observation: stored state always validates; history only grows; a stop can
  always be requested and is final; a failed plan leaves nothing behind;
- broker: positions, lots and cost agree; limits hold for what is filled at once;
  a settlement is not taken back;
- migrations: the stored version never runs ahead of the tables, and a migration
  that is retried completes;
- evaluation: the verdict acted on is the one stored; a COPY_CANDIDATE rests on
  evidence that passes the gates; the final evidence is decided in the end;
- scan: every new decision is audited; a candidate rests on a stored decision;
  every wallet with new trades is scored in the end;
- evidence: a cohort that is rolled back leaves no row of its own; every trade it
  commits has its audit row; audit and metadata name the same category, and a
  category once accepted stays;
- outcomes: a verdict is final; the verdicts of a market agree, and become durable
  together with its bookkeeping; no closed market waits for ever;
- locks: exclusive, never orphaned, and waiting for one ends.

The hard behaviours are listed with their lines in `PROJECT.json` under
`hazards`: overlapping runs, reads long before writes, crashes between two
commits or two file operations, stale clocks, retries of what was done.

## The modules

    Mutex                      what a lock promises
      ^ implemented by           ^ used by
    ControlLock                BoundedObservation
      |  EXTENDS
    LockFile   <---- FileLock
    SignalLifecycle            what paper execution promises
      ^ implemented by
    SpecialistSpine ----> SpecialistApproval <---- SpecialistDispatch
      `-----------------> SpecialistSettlement
    PaperBroker
    SchemaStatements <---- MigrationRunner
    ScoringRules <---- PaperSignal                 ScanPipeline
    EvidenceCohort                                 MarketTruth
    MC*                                            values for TLC
    *Proofs                                        theorems

**`SpecialistApproval`.** `approval` maps each approval id to its row. One action
per function of the source. The partial unique index is `ActiveIndexAdmits`; a
statement it rejects raises and changes nothing, so it is a step not taken.

**`SpecialistSpine`.** A run of the execution command is a process `e` of
`Executions`; `exec[e].pc` is its place in `consume_eligible_signal`: `auth` and
`approval` (step 3), `evidence` (steps 2 and 4 to 9), `existing` (step 10),
`exposure` (three SELECTs of `_current_exposure`, one step each), `persist` (the
INSERT of the risk decision, which opens the transaction and takes `writer`),
`write` (order, fill, position, lot, `consume_authorization`, COMMIT), `close` (the
end of `_cmd_execute` and of the connection). Each step reads what is committed
then. `staged` is the uncommitted risk decision. Orders, positions, fills and
lots are one row each of one transaction of one run, so the run names them all
(`orders`). The branch of `write` where the unique index rejects the order is the
handler's rollback. Evidence (verdicts, snapshot age, market state) is one value
per signal that other stages change; as in the code, a stale snapshot never
becomes fresh again. A sum of exposure (`Notional`) counts the units of the positions:
a position of cost 3 has three. `Cost` stands for the capped quantity at the quoted price,
`Thin` for signals whose depth cannot fill it. Reviewer processes run `authorize`
(validation, the SELECT, the INSERT with COMMIT) and `revoke` (the SELECT, the
UPDATE that names columns the table lacks).

**`SpecialistSettlement`.** A settler is a process: find the position, look up the
latest settlement (a SELECT), and insert with the status UPDATE and COMMIT (one
transaction). `Norm` is the synonym folding of the replay comparison, `HasEvidence`
the unique index. The spine composes it with the executions whose positions it
settles; `ledger` feeds `Unsettled`, and so the exposure sums.

**`SignalLifecycle`.** What the spine promises, with each command as one step: a
signal is authorized at most once; an order spends a live authorization and leaves one
position, in one step; the position is settled; nothing is taken back. The spine
refines it (`ImplementsLifecycle`): authorizations are the rows of `auth`, a signal's
positions are `OrdersOf` it, and `settledFlag` the settled ones.

**`SpecialistDispatch`.** A run is one call of `dispatch_one`; each of its commits
is a step. What the network and the scoring say is chosen freely. A pair that has
a dispatch row is returned as it stands. The bridge's Phase A (candidate,
snapshot, levels) and Phase B (signal, unique per candidate and evidence) are two
transactions. `CrashRun` is a kill or an exception anywhere.

**`BoundedObservation`.** Each command reads the clock (`ReadClock`) and only then
takes the lock, with no waiting. A transition loads, validates, stamps, validates
again and replaces one file under the lock: one step. `create_plan` publishes
three files and, on failure, unlinks them in reverse, each a step; a write may
fail before its rename or after it. `ValidRecord` is `validate_state`. Time is in
whole units, a day of the code each. `activate_observation` has no subcommand in
the script; it is modelled as the library function it is. No code enters
`failed_closed`.

**`LockFile`, `ControlLock`, `FileLock`, `Mutex`.** `LockFile` is the kernel's side
(inodes, directory entry, descriptors, flock) and is external. `ControlLock` never
unlinks its path; `FileLock` closes, then unlinks. `ControlLock` is shown to
implement `Mutex`, and `BoundedObservation` uses `Mutex` through `INSTANCE`.

**`PaperBroker`.** One process; an action is a call of the broker or of an object
it was given (`SetDepth`, `SetKillSwitch`), and `mode` is its execution mode.
`PlaceOrder` follows the early returns of `place_order`: kill switch, gates, then
a pending order in manual mode or a fill. `Walk` and `Quote` walk the book,
`SellFromLots` is the FIFO consumption of `record_sell` (`ConsumeLot`,
one lot at a time, as `TakeLevel` is one level of `Walk`), `Bought` and `Sold` the
two halves of `_update_position`. Exposure counts what the code counts: filled
positions, and no pending order. `SettleMarket` hands each position to
`SettlementEngine` (`Remember`), whose idempotency key contains the evidence.

**`SchemaStatements`, `MigrationRunner`.** A statement of a migration is a record
(create a table or index, add a column, copy, drop, rename, write); the versions
are sequences of them, each named `V<n>` and translated from the schema module of
that number. `MigrationRunner` executes them: an opener reads the version, does
the pre-flight (`PhysicalSchemaAtTarget`), then statement after statement, each
in the commit or transaction sqlite3 gives it (`OpensTransaction`: a statement
that writes rows opens one, DDL does not), and the version number. A killed or
failed opener is retried. Of the columns of version 11, version 10 creates one with its
table (`slippage`, `schema_v10.py:218`); the other twelve are ALTERs that a fresh
database executes too. `schema_v11.py:16` and `database.py:488` say that version 10
declares all of them; the model follows the statements.

**`ScoringRules`, `PaperSignal`.** `ScoringRules` is the pure half: what the rows
of a SELECT amount to as evidence, gates, guard, behaviour class, depth walk,
decision table. The weighted scores are constant operators: the model holds for
any function of the same evidence that an instance gives. `PaperSignal` is the
evaluator: `ev[e].pc` is its place, and each SELECT and each committed row is a
step, in the order of `_evaluate_paper_signals_for_candidate_inner`: behaviour,
three reads of wallet evidence, the wallet row, category reads and row, the trade
row, shadow rows (scan only), the signal, the exit tracks (scan only). A row is
identified by its idempotency key, and `INSERT OR IGNORE` keeps the first.

**`ScanPipeline`.** `scan` is the running scan with its step and its locals: fetch
each market, register wallets, choose the slice (`Slice`, with
`_classify_wallet_state` as `Fresh` and `MaterialChanged`; wallets are numbers in the
order of their addresses, which breaks ties), score wallet by
wallet within the budget, candidates, audit rows. The operational lock keeps
collectors and evaluators out of a running scan, so they act between scans.

**`EvidenceCohort`.** `db` is the committed database, `work` what the connection of
the cohort sees, `tx` whether it has an implicit transaction open. `job.pc` is the
place of the cohort: `next` (the loop over the watches), `ingest` (one page is
fetched, its markets are looked up), `write` (INSERT OR IGNORE, which opens the
transaction if there is a row to insert), `enrich` (one trade per step, each under
a savepoint; without `tx` its RELEASE commits), and `Commit` or `Fail`. What the
collector counts as changed decides whether it stamps the watch, and with that opens a
transaction; a provenance row that records a conflict does not count (`Reported`). A trade is
its wallet and number with the position its identity depends on
(`SourceTradeId`); its metadata keeps the two kinds of fact the merge
tells apart, `category` (never replaced) and `closed` (refreshed). `base` is the
database without this cohort, which other commands also advance: the history
ingestion takes no operational lock while it writes and enters wherever SQLite
lets it; the commands that hold the lock act between cohorts.

**`MarketTruth`.** `db` and `work` are again the committed database and what the
connection of the running command sees, `tx` whether it has a transaction open, `job`
the command. The refresh takes the due markets (`Due`), asks Gamma for each,
the one looked at longest ago first (`before` relates the times of the last looks)
(`AskMarket`), and writes verdicts and bookkeeping under a savepoint (`SettleTrade`,
`BookSettled`), whose RELEASE commits unless the bookkeeping of an unresolved market
(`BookUnsettled`, outside of any savepoint) has opened a transaction before. Attempts
and waiting times are those of `_upsert_bookkeeping`, with days for hours. The resolver
plans all updates before it writes any; the backfill commits a market's truth at once
while it has no trade to write. The three hold the operational lock and so exclude
each other; Gamma, days and the history ingestion go on beside them. A trade is a BUY
with its market and token; a verdict is its status, winner and source, from which the
flag and the profit follow.

## What TLC checks

| Run | Instance | Shows |
|---|---|---|
| `SpineExecution` | 2 executions, 2 signals of one wallet and market, 1 approval, 1 reviewer | one order per signal, whole transactions, refinement of `SignalLifecycle`, limits without overlap |
| `SpineSettlement` | 1 execution, 1 signal with changing evidence, 2 settlers, labels YES, WON (a synonym) and NO | flags, rows and reports agree; every command ends, the reviewer that waits behind an open transaction included |
| `ControlLock` | 3 processes, 4 inodes, one more poll after a failed attempt | exclusion, no orphan, refinement of `Mutex`, acquire ends |
| `Dispatch` | 2 runs, 1 trade, 2 approvals of one slot, 2 categories | rows, runs and signals agree; one active approval; ended rows are final |
| `Observation` | 2 commands, a 2-day window, 2 checkpoints, 1-day extension, clock 0 to 4 | valid files, growing history, a stop that is never refused, a gate that stays closed |
| `PaperBroker` | 2 wallets, one market and outcome, quantity 3, two books, 3 orders, delay 1, two contradicting resolutions | book, lots and cost agree; immediate fills keep the limits; settlements stay |
| `Migration` | version 0; 10 with two openers that are not killed; 18 with two openers; 19; two databases whose version lags behind their tables; 1 kill each | the version is never ahead of the tables; a retried migration completes |
| `PaperSignal` | scan and bridge, 4 trades of one wallet, 3 candidates, 2 changes, 1 crash | stored and reported verdicts agree, gates hold, the final evidence is decided |
| `Scan` | 3 wallets, 2 slots, 3 trades, clock to 2, 1 fault | audit complete, candidates rest on decisions, due wallets are reached |
| `Cohort` | 2 watches, 3 trades in 2 markets, 2 cohorts with a budget of 1 or 2, 1 Gamma request, 2 changes of Gamma or the watch list | no fresh row outlives a rollback; committed rows are audited; audit and metadata agree; a category stays |
| `MarketTruth` | 2 markets, one of which lists a token twice, 3 trades, one stored late, a correction, passes of 1 or 2 markets, 2 attempts, 1 operator command, 1 fault | verdicts are final and agree, land with their bookkeeping, and every closed market gets its turn |

One run finds a promise of a docstring broken; it is quoted in `PROJECT.json` under
`findings`:

| Run | What happens |
|---|---|
| `FileLock` | unlinking after unlocking lets two processes hold the lock |

### Further counterexamples

Twelve more configurations check properties that TLC refutes, one each but the one of
`MarketGivenUp` (`tlc -continue` shows both of its). They are kept beside the runs;
`tlc -config <name>.cfg <module>` shows the behaviour.

- `SpineMarketLimit` (`MCSpecialistSpine`, `MarketLimitHolds`). The per-market sum
  also filters on the wallet (`specialist_spine.py:280-286`), so two wallets exceed
  the limit one after the other; `config/settings.py:245` calls it a limit "per
  market".
- `SpineBlockedRecord` (`MCSpecialistSpine`, `BlockedIsOnRecord`). A blocked
  decision is inserted, the command commits only executed statuses
  (`execute_authorized_specialist_signals.py:204-205`), and closing rolls it back;
  "Every revalidation failure persists a ``blocked`` execution-risk decision"
  (`specialist_spine.py:20`).
- `SpineRevocation` (`MCSpecialistSpine`, `RevocationTakesEffect`). Revoking an
  unused authorization updates columns the table lacks
  (`manage_paper_signal_authorizations.py:255`), raises and leaves it active.
- `SpineSettledOnce` (`MCSpecialistSpine`, `SettledAtMostOnce`). Two settlers with
  different evidence settle one position twice: the look-up (`:843`) is outside the
  transaction that inserts; "Settle one specialist paper position exactly once."
- `StaleApproval` (`MCSpecialistDispatch`, `NoStaleSignal`). An approval revoked
  during enrichment still leads to a signal; "a stale approval can never mint a
  signal" (`approved_specialist_dispatcher.py:207-209`).
- `PlanRollback` (`BoundedObservation`, `FailedPlanLeavesNothing`). When the sync of
  the directory fails after the rename, the undo misses the file just renamed.
- `MigrationRebuild` (`MCMigrationRunner`, `OrdersSurviveRebuild`). Version 20
  rebuilds `execution_risk_decisions` by copy, drop and rename. With
  `foreign_keys=ON` (`database.py:86`) a paper order that refers to a decision
  makes the drop fail and the database stays at 19, although the docstring of
  `schema_v20.py` says existing rows "keep their FK into execution_risk_decisions".
- `SignalIncomplete` (`MCPaperSignal`, `NamedDecisionsComplete`). When all settled
  trades of a category paid the same it has no Sharpe ratio; the guard stores it as
  INCOMPLETE ("guarantee no SKIP / WATCHLIST / COPY_CANDIDATE is persisted without
  sufficient required evidence", `score_serialization.py:649`), and the signal that
  names it is decided on the unguarded result (`wallet_evidence.py:461-478`).
- `ScanRotation` (`MCScanPipeline`, `ScanRotates`). A wallet that can never be scored,
  or whose last trade is later than the time its scan began, keeps the first slots of
  every slice, and those behind it starve; the budget "naturally rotates through
  previously- deferred wallets" (`scan_pipeline_wiring.py:711`).
- `CohortAtomic` (`MCEvidenceCohort`). The enrichment of a trade is a savepoint whose
  commit is left to the caller (`source_trade_enrichment.py:503-520`). sqlite3 opens a
  transaction only before a DML statement, so in a cohort whose first watch only replays
  stored trades each RELEASE commits, and a later failure reports `rolled_back` over
  changed rows; the module "commits or rolls back the ENTIRE cohort as one SQLite
  transaction" (`specialist_evidence_cohort.py:14`).
- `MarketGivenUp` (`MCMarketTruth`, `BookkeepingNeverSuppresses`). A clean market is
  not due again before the year 9999, so an unresolved trade stored later is looked at
  by no pass; "Bookkeeping cannot suppress an inconsistent canonical unresolved row"
  (`source_trade_resolution.py:846`).
- `MarketGivenUp` (`MCMarketTruth`, `OnlyFactsConflict`). "Only resolution *facts* are
  compared", and the name of the tool counts as one: a trade that the resolver settled,
  with the same status and winner, is a conflict for the refresh; the market is asked
  again and given up, its other trades unsettled.
- `OneRowPerFill` (`MCEvidenceCohort`). Without an id of its own a trade is named by
  its transaction hash and its position in the fetched page
  (`normalized_source_trade.py:318`); a newer trade moves the position, and the same
  fill is stored twice. "Replayed runs add 0 rows" (`specialist_evidence_collector.py:268`).

**Bounds.** Two processes of a kind suffice for every race of the listed kind:
each of these is between two reads and two writes. `SpineExecution` lets both runs
choose the same or different signals; the limit of 3 against a cost of 2 makes any
two open positions one too many, so `LimitsHoldWithoutOverlap` is not vacuous: the
second of two successive runs is refused, two overlapping ones are not. Three
processes in the lock runs let one release while two others hold an old and a new
descriptor. The observation's clock runs past the extended end; the two starts
let a new plan meet what another left. `Volatile`, `MaxClock` and `MaxPolls` are
the bounds of the models; `Volatile` only limits which evidence may change.
`PaperBroker` runs all three modes; its limits (3 an order, 8 a market, 6 a wallet)
let two orders of one wallet fit and a third not, a book with two price levels
makes one order span two lots, and three orders suffice for buy, partial sell and
buy again. `Migration` starts from every kind of database the runner tells apart;
two openers race from version 10, where every version that adds columns to a table of
old lies ahead (both look for the column before either adds it, and one raises and is
started again), and from 18, where one of them may also be killed and paper orders may
hold the rebuild. `PaperSignal` starts with two of the category's trades settled,
so that each of the two changes (`MaxChanges`) crosses a gate or the dominant
category; `MaxExtra` and `MaxCrashes` bound the bridge's evaluations and the
crashes. `Scan` gives three wallets two slots, one wallet that can never be
measured and one that has a trade while the scan runs; `MaxFaults` bounds crashes
and failures together. `Cohort` has two wallets that buy in one market and one
that then sells in another; one Gamma request makes the second market one too many,
a record budget of 1 ends before the second watch, and two cohorts let the second
replay what the first stored after Gamma has changed its mind (`MaxMoves`).
`MarketTruth` has two markets and passes of one or two, so that one can starve behind
the other and an open transaction can reach from one to the next; market 1 is
corrected once, and its second trade is stored late; two attempts stand for the
three of `MAX_REFRESH_ATTEMPTS` and a day for each retry delay; `MaxCommands` and
`MaxFaults` bound commands of an operator and crashes.

**Fairness.** `Fairness` of the spine: a command that runs executes its next
statement, and one that waits for the database's write lock gets it once it is
free often enough (SQLite polls under its 30 s timeout; giving up is the crash).
`ControlLock`: a process inside `acquire` executes its next statement; the holder
is not assumed ever to leave. `Migration`: an opener that was started proceeds and a
failed one is started again, as the timers do; openers held by the documented
dead end of version 5 are exempt. `PaperSignal` and `Scan`: the timer starts the
scan for ever and a started scan takes its next step; nothing is assumed of the
bridge, the collectors, or of markets and trades. `MarketTruth`: days pass, a running
command goes on, and the refresh is started again and again while a market is due, with
a limit of its own each time. The repository ships the refresh with a six-hour timer
that is disabled and a service that only does a dry run (`systemd/`): `TruthArrives` says
what the schedule of the code gives a deployment that enables it to write. No fairness makes an operator
start, authorise, approve or settle anything.

**Stopping.** `SpineExecution` and `SpineSettlement` switch deadlock checking off:
with the bounded set of runs the commands are done and the system may be quiet.
So do the runs of the new modules: the orders are used up, the database is
migrated, the cohorts are used up, or the bounds on the environment are reached
while nothing runs.

**Types.** The modules state their type invariants (`SpineTypeOK`, `TypeOK`,
`DispatchTypeOK`, `ObservationTypeOK`); those of the spine, the lock, the approvals,
the dispatcher, the observation and the cohort are proved, and so are those of the
outcomes and the scan, which `MarketTruthProofs` (`TruthTypeOK`) and
`ScanPipelineProofs` (`ScanFits`) state. No run repeats them.

## What is proved

The TLAPS proofs hold for every value of the constants, under the assumptions
stated in the modules: `SlotAssumption`, `SettlementAssumption`, `SpineAssumption`,
`DispatchAssumption`, `SignalAssumption`, `LockFileAssumption`, `PollsAssumption`,
`ObservationAssumption`, `RecordAssumption`, `CohortAssumption`, `TruthAssumption`,
`ScanAssumption` and `BrokerAssumption`. These only say that constants have their types, that the "none"
values are not members of the sets they complete, and that there is at least one run,
source and label. The proofs about the evaluation of signals assume nothing: they hold
for any thresholds and any weighted formulas.

Each theorem rests on an inductive invariant. TLC checked every one of these on the
instance of the module's run before it was proved (that of the outcomes without its
types, which are infinite sets).

- `ControlLockProofs`. Invariant: types; `OpenersAgree`, every process past
  `open` has the one inode the path names (the path is never unlinked);
  `HoldersLock`, a holder owns the flock of what it has open; `NoOrphanedLock`.
  Exclusion follows: two holders own the flock of one inode. `Implements` maps
  each step to `Acquire`, `Release` or a stutter of `Mutex`.
- `SpecialistProofs`, executions. `OneOrderPerSignal` is the work of an index, and so
  inductive at once, but `UsedIffOrdered` and `AuthorityAtCommit` are not. An
  execution consumes an authorization it read many steps before by an UPDATE that
  does not look at its status. `AuthorityRead` carries the argument: a run past
  the read, with nothing to block it, has the approval of a row that is still the
  row it read, or one that was spent, in which case the order index rejects it;
  that needs `IssuedRows` (a row is issued once and its approval never changes,
  because only `NeverAuthorized` signals are inserted) and that revocation
  changes nothing. `Transactions` ties `staged`, `writer` and `pc`; `OrdersDone`
  keeps runs with an order at their end, so the signal an order belongs to never
  changes. Together with the types they are `IInv`.
- `SpecialistProofs`, settlement. `SettlersKnowPosition`: a settler past its first
  step has found a position that exists, and orders are never removed. A report stays
  true because rows are only appended (`RowsStay`): the row a settler matched, or
  inserted, is still there, whatever others inserted since (`ReporterMatches`).
- `SpecialistProofs`, limits. A run compares its limits with sums it read long before
  it writes. `LimitInv` says that every set of positions whose runs did not overlap is
  within the limits, settled positions included (a settlement leaves a subset), and that a
  run about to write is within them for every part of what it counted. The step that
  matters is its commit: a run still to write is in no other run's sums, so if it does
  not overlap with the runs of a set, it counted all of them. The sums are cardinalities
  of sets of units, so that the library's facts about finite sets replace induction.
- `SpecialistProofs`, refinement. `SpineImplements`: the commits of a reviewer, a run
  and a settler are the three steps of `SignalLifecycle`; all their other steps, crashes
  and rollbacks are stutters. It needs `IInv` for the state of the authorization at the
  commit, and `SettlementInv` for the position a settler works on. `SpineKeepsApprovals`:
  the approval table changes only as `SpecialistApproval` says.
- `SpecialistProofs`, approvals and dispatcher. First the approvals by themselves: one
  active per slot, and revoked rows stay, so revocation is final; the dispatcher and the
  spine write no approval, so they inherit both. Then the dispatch rows, which a run changes over many commits: `RowsOwned`
  (the index lets one run insert the row of a pair, and only its owner updates it),
  `RowFits` (what the row says at each place of the owner), `RunFits` and `SignalsHeld` (a
  stored signal is in the hands of the run that stored it). A row that has ended belongs
  to a run that is done, and nothing else writes it.
- `BoundedObservationProofs`. `PublishersHoldLock` makes the publication of a plan a
  monologue, so that `FilesFit` can say what each step of it finds; `NothingAhead` says
  that clock readings and stored instants are past. A stop is valid in every stored record
  because its instant is not before any event (`StopIsValid`). `Grows` is shared by all
  transitions: `HistoryOnlyGrows` and `GateStaysClosed` follow from it.
- `EvidenceCohortProofs`. None of the four properties is inductive: what the cohort
  will commit is in `work`, not in `db`. `Transactions` says that without an open
  transaction `work` is `db`, and that an idle cohort has none. `Pending` says what an
  uncommitted row may be at each place: a trade without an audit row was imported or
  is still among the rows to enrich. `Keeps` carries `CategoryIsFinal` from `db` to
  `work`, so that a commit keeps the categories the database had; `AllMatch` is
  `CompleteMatchesCategory` for both. That savepoints may commit on their own
  (`CohortAtomic`) does no harm to the four, because without a transaction the cohort
  has inserted nothing.
- `MarketTruthProofs`. The invariant follows the connection of the command ahead of the
  database: it never rewrites a verdict (`WorkExtends`), gives the trades of a market one
  winner (`OneWinner`), of those the refresh signed (`Signed`). `HeldBack` are the trades
  of a market settled and not committed; `MarketsWhole` and `RefreshFits` say that they are
  all of what was read of it, and marked as done in the same transaction, once the
  refresh has left it. `PlanFits` keeps the other two commands from signing for it.
- `ScanPipelineProofs`. `ScanFits` says what the scan keeps at each step; `SliceFits`, that
  the wallets scored so far have their decisions and that the slice is never larger than the
  budget, so that none of it is passed over; `AuditFits`, that a decision is audited, or
  about to be, or was cut off by a crash.
- `PaperSignalProofs`. The reads of an evaluation are of different moments, so the
  invariant never speaks of the trades as they are. `KeysTell`: a row's key tells its
  contents, so the row that INSERT OR IGNORE keeps says what the new one would have;
  `HandFits`: what an evaluation has in hand at each place is what it committed, with
  evidence that passes the gates when it is a verdict.
- `PaperBrokerProofs`. The broker keeps what is open as positions and as FIFO lots, and
  what was bought as orders; each is a sum over a sequence of any length, and a sale walks
  the lots one by one. The module first derives `Induction` and `Recursion` in the form
  the provers can use: not for a predicate but for the set of the numbers it holds of,
  from the well-founded order of the naturals. On them rest the facts of the totals
  (`TotalExtends`, `TotalJoin`, `TotalReplace`), of the walk through the depth
  (`WalkType`) and of a sale (`SellFacts`: what is taken from the sale is taken from the
  lots, at every price, and only a sale larger than all of them leaves a rest).
  `BrokerInv` is the types, `BookMatchesLots`, and `CostConserved` at every price there
  is, not only at those some order, lot or event has; that makes it inductive. An order
  confirmed was pending, so what it brings in is counted once (`ConfirmKeepsInvariant`).
  The gates (`GatesHold`, the property `GatesHoldWithoutReview`) compare exposures, which
  are sums of ratios with unlike denominators in whatever order the members of a set are
  listed. Three facts make them numbers: the order does not matter (`OrderIrrelevant`,
  a permutation taken apart one element at a time); the positions are finitely many
  (`FinitePositions`); so their averages have one denominator (`CommonDenominator`), over
  which a cost is a number of parts and an exposure the total of those numbers
  (`CostParts`). A step of the broker then changes one key (`ExposureSplit`): a sale
  lessens it (`SaleStaysWithin`), and a buy adds what the gate was asked about, whatever
  the new average is (`BuyStaysWithin`). A limit is exceeded after a fill only if it was
  before (`FillStaysWithin`). The property excepts two fills, as the code makes them past
  the gates: an order confirmed after review, which no gate sees again, and one the book
  fills at a price the gate did not know.

Note what `AuthorityHolds` and `SpineImplements` rest on: revocation does not work (see
`SpineRevocation`). Once it does, a revocation between the read and the commit
makes `Consumed` overwrite it unless the UPDATE also asks for `status='active'`.

Only model-checked:

- all liveness (`CommandsFinish`, `AcquireEnds`, `MigrationCompletes`,
  `EvaluationSettles`, `DueWalletsReached`, `TruthArrives`): the prover has no rules for
  fairness here;
- `TablesMatchVersion` of `MigrationRunner`: it holds from the databases of `Starts`, not
  from every one (see below), and its data are the concrete statements of the repository.

## What is not modelled

- `mark_specialist_position` appends a row that nothing on these paths reads.
- The weighted formulas of the scores, marks and counterfactuals: float
  computations; an instance gives any function in their place.
- Discovery, taxonomy, policy: classifications of public data in batches.
- Of ingestion the parsing of payloads is left out: a trade is its side, market and
  kind of id. In `PaperSignal` and `ScanPipeline` trades settle at any moment.
- Of the three commands that settle source trades: SELL rows (the resolver counts
  them, the refresh leaves them out), dry runs, `--all-statuses`, and the filters by
  wallet; of the statuses of a failed look-up the instance has one.
- Dry runs, adding a watch and the single-watch command of the evidence collection:
  the last passes a time that cannot be converted and never collects live.
- Adapters, ingestion parsers, providers: HTTP and parsing. API and frontend:
  read-mostly views. Reports and audits: read-only.
- The idempotency store: no production code calls `check_and_store`.
- One-off data migrations and the deployment files.

Seen while modelling, without a run of its own:

- overlapping runs exceed the wallet and global limits, since the sums are read
  before the write lock is taken;
- the execution command sets its kill switch to off in `_build_runtime`;
- an approval revoked after step 3 of the gate, or after the reviewer's
  validation, does not stop the order or the authorization;
- a blocked result for an unknown signal inserts a decision that violates NOT
  NULL and foreign keys, so it raises instead of recording;
- the conflict branch after `SettlementEngine` in `settle_specialist_position`
  cannot be reached, since the engine is fresh each time;
- a dispatch left `pending` or `ready_for_bridge` by a crash is never resumed, and
  `enrichment_incomplete` is never retried; `attempt_count` is read by nothing;
- an approval revoked and issued again dispatches an old trade again and may mint
  a second signal if the evidence has changed;
- an extension authorised with a clock read before the end can be stored after it;
- the paper broker asks no gate again when an order is confirmed, does not count
  pending orders as exposure, and leaves settled positions in the book, where
  they can be settled a second time under other evidence: the conflict its
  settlement docstring promises to report cannot be reached;
- version 21 interrupted between its two market-refresh indexes is taken for
  complete at the next start, and the second index is never created; a crash
  between the reconciled version and the missing v13 indexes loses those; an
  opener that read the version long ago can replay version 20 over a newer
  database; two openers of an empty database can lose a column of version 7;
- exit tracks are scheduled from the time of the run that registers them, not
  from the stored signal's; outcomes learned after the snapshot enter the
  evidence "as of" the snapshot; a severe partial fill lowers the trade verdict
  and keeps its score; a snapshot taken after the candidate was created is never
  eligible;
- an old trade stored late leaves its wallet marked as scored although its metrics
  changed; the audit verdict of a wallet is the first one for ever; the bound on
  candidates counts rows that were there already; nothing ever updates the
  status of a copy candidate; a crash between decisions and candidates leaves the
  fetched trades of the scored wallets without candidates;
- a retired watch can be paused and then resumed, although the comment says it
  stays retired; the adapter answers a provider error with an empty page; a replay
  without `--resolve-gamma` turns a complete audit row into an unavailable one; a
  refresh of metadata alone counts as nothing done; one conflicting field makes the
  merge drop all others, although `docs/ingestion_market_evidence_snapshot.md` says
  independent fields are accepted; the collector of approved wallets refuses the
  position-based identities that the evidence collector accepts;
- `_run` says that the connection is committed once for all markets
  (`refresh_specialist_market_truth.py:227-229`), but each outermost RELEASE commits;
  after a market that is not resolved the write transaction stays open during the
  look-ups that follow; the backfill settles SELL rows as if they were bought, sets
  `resolved` to 0 for a market whose label names no outcome or two, and prefers the
  winner it stored to a label that was corrected since, so that the refresh and the
  backfill may name two winners of one market.

## Plan

The core came first: the path on which a paper order comes to exist, then what
guards it, then what feeds it: the broker, the migrations, the evaluation of
signals, the scan, the collection of evidence, the outcomes of trades. Every safety and
action property of the runs has since been proved but those named above. Next, in this
order:

1. the dispatcher composed with the spine: at most one order per source trade,
   and when that fails; an abstract specification of both, from trade to settlement;
2. the collector of approved wallets and its cursors.
