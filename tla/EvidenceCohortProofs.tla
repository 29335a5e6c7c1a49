-------------------------- MODULE EvidenceCohortProofs --------------------------
(***************************************************************************)
(* What holds of the evidence cohort for every set of watches, trades and  *)
(* answers: rows that were committed are audited, audit rows and metadata  *)
(* agree, categories are final, and a cohort that was rolled back leaves   *)
(* none of the trades it inserted.                                         *)
(***************************************************************************)
EXTENDS EvidenceCohort, TLAPS

Closings == {e.closed : e \in Evidence} \cup {None}
Labels == {e.category : e \in Evidence} \cup {None}
Metas == [category : Labels, closed : Closings]
Rows == [meta : Metas, prov : Audits \cup {NoRow}]

IsDatabase(d) ==
    /\ d = [trades |-> d.trades, collected |-> d.collected]
    /\ d.trades \in [DOMAIN d.trades -> Rows]

IsJob(j) ==
    j = [pc |-> j.pc, outcome |-> j.outcome, resolve |-> j.resolve, todo |-> j.todo,
         watch |-> j.watch, page |-> j.page, fresh |-> j.fresh, rows |-> j.rows,
         records |-> j.records, calls |-> j.calls, cache |-> j.cache,
         changed |-> j.changed]

Types == IsDatabase(db) /\ IsDatabase(work) /\ IsDatabase(base) /\ IsJob(job)

\* The connection of the cohort sees what is committed, and between two
\* cohorts there is no transaction.
Transactions ==
    /\ ~tx => work = db
    /\ job.pc = "idle" => ~tx

\* d keeps the trades of c and the categories they have.
Keeps(c, d) ==
    \A r \in DOMAIN c.trades :
        /\ r \in DOMAIN d.trades
        /\ c.trades[r].meta.category # None =>
              d.trades[r].meta.category = c.trades[r].meta.category

Matches(row) ==
    row.prov # NoRow =>
        /\ row.prov.status = "complete" <=> row.prov.category # None
        /\ row.prov.category # None => row.prov.category = row.meta.category

AllMatch(d) == \A r \in DOMAIN d.trades : Matches(d.trades[r])

\* The rows to enrich are stored or about to be, and a row without an audit
\* row was imported, or waits to be enriched.
Pending ==
    /\ job.pc = "write" =>
          job.fresh \subseteq job.rows /\ job.rows \subseteq DOMAIN work.trades \cup job.fresh
    /\ job.pc = "enrich" => job.rows \subseteq DOMAIN work.trades
    /\ \A r \in DOMAIN work.trades :
          work.trades[r].prov = NoRow =>
              r \in imported \/ (job.pc = "enrich" /\ r \in job.rows)

IInv ==
    /\ Types
    /\ Transactions
    /\ Keeps(db, work)
    /\ AllMatch(db) /\ AllMatch(work)
    /\ Pending
    /\ CommittedRowsAudited
    /\ NoFreshRowOutlivesRollback

-----------------------------------------------------------------------------
(* Rows.                                                                    *)

\* A merge keeps a category that is there, and yields metadata.
LEMMA MergeKeepsCategory ==
    ASSUME NEW meta \in Metas, NEW answer
    PROVE  /\ Merged(meta, answer) \in Metas
           /\ meta.category # None => Merged(meta, answer).category = meta.category
BY CohortAssumption DEF Metas, Labels, Closings, Merged, Conflicts

\* The metadata of a new row.
LEMMA InitialMetadataType ==
    ASSUME NEW answer
    PROVE  InitialMetadata(answer) \in Metas /\ NoMetadata \in Metas
BY CohortAssumption DEF InitialMetadata, NoMetadata, Metas, Labels, Closings

\* An enriched row is audited, its two parts agree, and its category is kept.
LEMMA EnrichedRow ==
    ASSUME NEW row \in Rows, NEW answer
    PROVE  /\ Enriched(row, answer) \in Rows
           /\ Enriched(row, answer).prov # NoRow
           /\ Matches(Enriched(row, answer))
           /\ row.meta.category # None =>
                 Enriched(row, answer).meta.category = row.meta.category
<1>1. row.meta \in Metas
  BY DEF Rows
<1> DEFINE merged == Merged(row.meta, answer)
           payload == Payload(row.meta, answer)
<1>2. merged \in Metas /\ (row.meta.category # None => merged.category = row.meta.category)
  BY <1>1, MergeKeepsCategory
<1>3. /\ payload \in Audits
      /\ payload.status = "complete" <=> payload.category # None
      /\ payload.category # None => payload.category = merged.category
  BY <1>2 DEF Payload, Audits, Metas, Labels
<1>4. Enriched(row, answer) = [meta |-> merged, prov |-> payload]
  BY DEF Enriched
<1> HIDE DEF merged, payload
<1> QED
  BY <1>2, <1>3, <1>4, CohortAssumption DEF Rows, Matches

\* INSERT OR IGNORE adds the rows that are new and leaves the others.
LEMMA InsertedRows ==
    ASSUME NEW d, IsDatabase(d), NEW rows, rows \in [DOMAIN rows -> Rows]
    PROVE  LET e == Inserted(d, rows)
           IN  /\ IsDatabase(e)
               /\ DOMAIN e.trades = DOMAIN d.trades \cup DOMAIN rows
               /\ e.collected = d.collected
               /\ \A r \in DOMAIN d.trades : e.trades[r] = d.trades[r]
               /\ \A r \in DOMAIN rows \ DOMAIN d.trades : e.trades[r] = rows[r]
<1> DEFINE all == [r \in DOMAIN d.trades \cup DOMAIN rows |->
                     IF r \in DOMAIN d.trades THEN d.trades[r] ELSE rows[r]]
<1>1. Inserted(d, rows) = [trades |-> all, collected |-> d.collected]
  BY DEF Inserted, IsDatabase
<1>2. all \in [DOMAIN all -> Rows] /\ DOMAIN all = DOMAIN d.trades \cup DOMAIN rows
  BY DEF IsDatabase
<1>3. \A r \in DOMAIN all : all[r] = IF r \in DOMAIN d.trades THEN d.trades[r] ELSE rows[r]
  OBVIOUS
<1> HIDE DEF all
<1> QED
  BY <1>1, <1>2, <1>3 DEF IsDatabase

\* An UPDATE of one row.
LEMMA UpdatedRow ==
    ASSUME NEW d, IsDatabase(d), NEW r, NEW row \in Rows
    PROVE  LET e == WithRow(d, r, row)
           IN  /\ IsDatabase(e)
               /\ DOMAIN e.trades = DOMAIN d.trades
               /\ e.collected = d.collected
               /\ \A q \in DOMAIN d.trades :
                     e.trades[q] = IF q = r THEN row ELSE d.trades[q]
<1> DEFINE all == [d.trades EXCEPT ![r] = row]
<1>1. WithRow(d, r, row) = [trades |-> all, collected |-> d.collected]
  BY DEF WithRow, IsDatabase
<1>2. all \in [DOMAIN all -> Rows] /\ DOMAIN all = DOMAIN d.trades
  BY DEF IsDatabase
<1>3. \A q \in DOMAIN d.trades : all[q] = IF q = r THEN row ELSE d.trades[q]
  BY DEF IsDatabase
<1> HIDE DEF all
<1> QED
  BY <1>1, <1>2, <1>3 DEF IsDatabase

-----------------------------------------------------------------------------
(* The invariant.                                                           *)

\* It holds of an empty database.
LEMMA InitInvariant == Init => IInv
<1> SUFFICES ASSUME Init PROVE IInv
  OBVIOUS
<1>1. IsDatabase(db) /\ DOMAIN db.trades = {}
  BY DEF Init, IsDatabase
<1>2. IsJob(job)
  BY DEF Init, IdleJob, IsJob
<1> QED
  BY <1>1, <1>2 DEF Init, IdleJob, IInv, Types, Transactions, Keeps, AllMatch, Pending,
     CommittedRowsAudited, NoFreshRowOutlivesRollback

\* What the invariant and the action property need of the steps that only
\* change the world, the watch list, or the place of the cohort.
LEMMA QuietStep ==
    ASSUME IInv, UNCHANGED <<store, tx>>, IsJob(job'),
           job'.pc = "idle" => job.pc = "idle" /\ job'.outcome = job.outcome,
           job.pc = "idle" => job'.pc = "idle",
           job'.pc = "write" =>
               /\ job'.fresh \subseteq job'.rows
               /\ job'.rows \subseteq DOMAIN work.trades \cup job'.fresh,
           job'.pc = "enrich" <=> job.pc = "enrich",
           job'.pc = "enrich" => job'.rows = job.rows
    PROVE  IInv'
BY DEF IInv, Types, Transactions, Keeps, AllMatch, Matches, Pending, CommittedRowsAudited,
       NoFreshRowOutlivesRollback, store, IsDatabase

\* A row is enriched on its own and committed.
LEMMA EnrichOneStep ==
    ASSUME IInv, NEW r, EnrichOne(r)
    PROVE  IInv' /\ Keeps(db, db')
<1> DEFINE row == Enriched(db.trades[r], gamma[TradeOf(r).market])
<1>1. work = db /\ r \in DOMAIN db.trades /\ ~tx /\ job.pc = "idle"
  BY DEF EnrichOne, IInv, Transactions, Buys
<1>2. IsDatabase(db) /\ IsDatabase(base) /\ db.trades[r] \in Rows
  BY <1>1 DEF IInv, Types, IsDatabase
<1>3. /\ row \in Rows /\ row.prov # NoRow /\ Matches(row)
      /\ db.trades[r].meta.category # None => row.meta.category = db.trades[r].meta.category
  BY <1>2, EnrichedRow
<1>4. /\ db' = WithRow(db, r, row) /\ work' = db' /\ base' = WithRow(base, r, row)
      /\ UNCHANGED <<imported, tx, job, jobs>>
  BY <1>1 DEF EnrichOne
<1> HIDE DEF row
<1>5. /\ IsDatabase(db') /\ DOMAIN db'.trades = DOMAIN db.trades
      /\ db'.collected = db.collected
      /\ \A q \in DOMAIN db.trades : db'.trades[q] = IF q = r THEN row ELSE db.trades[q]
  BY <1>2, <1>3, <1>4, UpdatedRow
<1>6. /\ IsDatabase(base') /\ DOMAIN base'.trades = DOMAIN base.trades
      /\ base'.collected = base.collected
  BY <1>2, <1>3, <1>4, UpdatedRow
<1>7. Types' /\ Transactions'
  BY <1>1, <1>4, <1>5, <1>6 DEF IInv, Types, Transactions, IsDatabase, IsJob
<1>8. Keeps(db, db') /\ Keeps(db, work)'
  BY <1>3, <1>4, <1>5 DEF Keeps
<1>9. AllMatch(db)' /\ AllMatch(work)'
  BY <1>3, <1>4, <1>5 DEF IInv, AllMatch
<1>10. Pending' /\ CommittedRowsAudited'
  BY <1>1, <1>3, <1>4, <1>5 DEF IInv, Pending, CommittedRowsAudited
<1>11. NoFreshRowOutlivesRollback'
  BY <1>4, <1>5, <1>6 DEF IInv, NoFreshRowOutlivesRollback
<1> QED
  BY <1>7, <1>8, <1>9, <1>10, <1>11 DEF IInv

\* The history ingestion adds rows without audit rows.
LEMMA IngestHistoryStep ==
    ASSUME IInv, NEW w \in Watches, IngestHistory(w)
    PROVE  IInv' /\ Keeps(db, db')
<1> DEFINE new == FetchedPage(w, HistoryLimit) \ DOMAIN db.trades
           rows == [r \in new |-> [meta |-> NoMetadata, prov |-> NoRow]]
<1>1. ~tx /\ work = db
  BY DEF IngestHistory, IInv, Transactions
<1>2. /\ db' = Inserted(db, rows) /\ work' = db' /\ base' = Inserted(base, rows)
      /\ imported' = imported \cup new /\ UNCHANGED <<tx, job, jobs>>
  BY <1>1 DEF IngestHistory
<1>3. /\ rows \in [DOMAIN rows -> Rows] /\ DOMAIN rows = new /\ new \cap DOMAIN db.trades = {}
      /\ \A r \in new : rows[r] = [meta |-> NoMetadata, prov |-> NoRow]
  BY InitialMetadataType DEF Rows
<1> HIDE DEF new, rows
<1>4. /\ IsDatabase(db') /\ DOMAIN db'.trades = DOMAIN db.trades \cup new
      /\ db'.collected = db.collected
      /\ \A r \in DOMAIN db.trades : db'.trades[r] = db.trades[r]
      /\ \A r \in new : db'.trades[r] = rows[r]
  BY <1>2, <1>3, InsertedRows DEF IInv, Types
<1>5. /\ IsDatabase(base') /\ DOMAIN base'.trades = DOMAIN base.trades \cup new
      /\ base'.collected = base.collected
  BY <1>2, <1>3, InsertedRows DEF IInv, Types
<1>6. Types' /\ Transactions'
  BY <1>1, <1>2, <1>4, <1>5 DEF IInv, Types, Transactions, IsDatabase, IsJob
<1>7. Keeps(db, db') /\ Keeps(db, work)'
  BY <1>2, <1>4 DEF Keeps
<1>8. AllMatch(db)' /\ AllMatch(work)'
  BY <1>2, <1>3, <1>4 DEF IInv, AllMatch, Matches
<1>9. Pending' /\ CommittedRowsAudited'
  BY <1>1, <1>2, <1>3, <1>4 DEF IInv, Pending, CommittedRowsAudited
<1>10. NoFreshRowOutlivesRollback'
  BY <1>2, <1>4, <1>5 DEF IInv, NoFreshRowOutlivesRollback
<1> QED
  BY <1>6, <1>7, <1>8, <1>9, <1>10 DEF IInv

\* The cohort stages its rows; without one to insert nothing is staged.
LEMMA WriteRowsStep ==
    ASSUME IInv, WriteRows
    PROVE  IInv' /\ Keeps(db, db')
<1> DEFINE new == job.fresh \ DOMAIN work.trades
           rows == [r \in new |-> [meta |-> InitialMetadata(job.cache[TradeOf(r).market]),
                                   prov |-> NoRow]]
<1>1. /\ work' = Inserted(work, rows)
      /\ job' = [job EXCEPT !.pc = "enrich", !.fresh = {}, !.changed = new # {},
                            !.records = @ - Cardinality(new)]
      /\ tx' = (tx \/ job.fresh # {})
      /\ job.pc = "write" /\ UNCHANGED <<db, base, imported, jobs>>
  BY DEF WriteRows, OpensTransaction
<1>2. /\ rows \in [DOMAIN rows -> Rows] /\ DOMAIN rows = new /\ new \cap DOMAIN work.trades = {}
      /\ \A r \in new : rows[r].prov = NoRow
  BY InitialMetadataType DEF Rows
<1>3. new \subseteq job.rows
  BY <1>1 DEF IInv, Pending
<1>4. IsJob(job') /\ job'.pc = "enrich" /\ job'.rows = job.rows
  BY <1>1 DEF IInv, Types, IsJob
<1>5. (job.fresh = {} => new = {}) /\ job.fresh \subseteq DOMAIN work.trades \cup new
  OBVIOUS
<1> HIDE DEF new, rows
<1>6. /\ IsDatabase(work') /\ DOMAIN work'.trades = DOMAIN work.trades \cup new
      /\ work'.collected = work.collected
      /\ \A r \in DOMAIN work.trades : work'.trades[r] = work.trades[r]
      /\ \A r \in new : work'.trades[r] = rows[r]
  BY <1>1, <1>2, InsertedRows DEF IInv, Types
<1>7. new = {} => work' = work
  BY <1>6 DEF IInv, Types, IsDatabase
<1>8. Types' /\ Transactions'
  BY <1>1, <1>4, <1>5, <1>6, <1>7 DEF IInv, Types, Transactions, IsDatabase
<1>9. Keeps(db, work)' /\ Keeps(db, db')
  BY <1>1, <1>6 DEF IInv, Keeps
<1>10. AllMatch(db)' /\ AllMatch(work)'
  BY <1>1, <1>2, <1>6 DEF IInv, AllMatch, Matches
<1>11. Pending'
  <2>1. job'.rows \subseteq DOMAIN work'.trades
    BY <1>1, <1>4, <1>5, <1>6 DEF IInv, Pending
  <2>2. ASSUME NEW r \in DOMAIN work'.trades, work'.trades[r].prov = NoRow
        PROVE  r \in imported' \/ r \in job'.rows
    BY <1>1, <1>3, <1>4, <1>6, <2>2 DEF IInv, Pending
  <2> QED
    BY <1>4, <2>1, <2>2 DEF Pending
<1>12. CommittedRowsAudited' /\ NoFreshRowOutlivesRollback'
  BY <1>1, <1>4 DEF IInv, CommittedRowsAudited, NoFreshRowOutlivesRollback
<1> QED
  BY <1>8, <1>9, <1>10, <1>11, <1>12 DEF IInv

\* One row is enriched, in the open transaction or in a commit of its own.
LEMMA EnrichRowStep ==
    ASSUME IInv, NEW r \in job.rows, EnrichRow(r)
    PROVE  IInv' /\ Keeps(db, db')
<1> DEFINE row == Enriched(work.trades[r], job.cache[TradeOf(r).market])
<1>1. IsDatabase(work) /\ r \in DOMAIN work.trades /\ work.trades[r] \in Rows
  BY DEF IInv, Types, IsDatabase, Pending, EnrichRow
<1>2. /\ row \in Rows /\ row.prov # NoRow /\ Matches(row)
      /\ work.trades[r].meta.category # None => row.meta.category = work.trades[r].meta.category
  BY <1>1, EnrichedRow
<1>3. /\ work' = WithRow(work, r, row)
      /\ job' = [job EXCEPT !.rows = @ \ {r}, !.changed = @ \/ Reported(row, work.trades[r])]
      /\ db' = IF tx THEN db ELSE work'
      /\ job.pc = "enrich" /\ UNCHANGED <<base, imported, tx, jobs>>
  BY DEF EnrichRow
<1>4. IsJob(job') /\ job'.pc = "enrich" /\ job'.rows = job.rows \ {r}
  BY <1>3 DEF IInv, Types, IsJob
<1> HIDE DEF row
<1>5. /\ IsDatabase(work') /\ DOMAIN work'.trades = DOMAIN work.trades
      /\ work'.collected = work.collected
      /\ \A q \in DOMAIN work.trades : work'.trades[q] = IF q = r THEN row ELSE work.trades[q]
  BY <1>1, <1>2, <1>3, UpdatedRow
<1>6. ~tx => work = db
  BY DEF IInv, Transactions
<1>7. Types' /\ Transactions'
  BY <1>3, <1>4, <1>5 DEF IInv, Types, Transactions, IsDatabase
<1>8. Keeps(work, work') /\ Keeps(db, work') /\ Keeps(work', work') /\ Keeps(db, db)
  BY <1>2, <1>5 DEF IInv, Keeps
<1>9. Keeps(db, work)' /\ Keeps(db, db')
  BY <1>3, <1>8 DEF Keeps
<1>10. AllMatch(work)' /\ AllMatch(db)'
  BY <1>2, <1>3, <1>5 DEF IInv, AllMatch
<1>11. Pending'
  BY <1>2, <1>3, <1>4, <1>5 DEF IInv, Pending
<1>12. CommittedRowsAudited'
  BY <1>2, <1>3, <1>5, <1>6 DEF IInv, CommittedRowsAudited
<1>13. NoFreshRowOutlivesRollback'
  BY <1>3, <1>4, <1>5, <1>6 DEF IInv, NoFreshRowOutlivesRollback
<1> QED
  BY <1>7, <1>9, <1>10, <1>11, <1>12, <1>13 DEF IInv

\* A watch is done; its stamp opens a transaction if there is none.
LEMMA FinishWatchStep ==
    ASSUME IInv, FinishWatch
    PROVE  IInv'
<1>1. /\ job.pc = "enrich" /\ job.rows = {}
      /\ work' = IF job.changed THEN [work EXCEPT !.collected[job.watch] = jobs] ELSE work
      /\ tx' = (tx \/ job.changed)
      /\ job' = [job EXCEPT !.pc = "next", !.watch = None, !.changed = FALSE]
      /\ UNCHANGED <<db, base, imported, jobs>>
  BY DEF FinishWatch
<1>2. IsJob(job') /\ job'.pc = "next"
  BY <1>1 DEF IInv, Types, IsJob
<1>3. IsDatabase(work') /\ work'.trades = work.trades
  <2> DEFINE stamped == [work.collected EXCEPT ![job.watch] = jobs]
  <2>1. [work EXCEPT !.collected[job.watch] = jobs] = [trades |-> work.trades, collected |-> stamped]
    BY DEF IInv, Types, IsDatabase
  <2> HIDE DEF stamped
  <2> QED
    BY <1>1, <2>1 DEF IInv, Types, IsDatabase
<1>4. Types' /\ Transactions'
  BY <1>1, <1>2, <1>3 DEF IInv, Types, Transactions, IsDatabase
<1>5. Keeps(db, work)' /\ AllMatch(db)' /\ AllMatch(work)'
  BY <1>1, <1>3 DEF IInv, Keeps, AllMatch
<1>6. Pending'
  BY <1>1, <1>2, <1>3 DEF IInv, Pending
<1>7. CommittedRowsAudited' /\ NoFreshRowOutlivesRollback'
  BY <1>1, <1>2 DEF IInv, CommittedRowsAudited, NoFreshRowOutlivesRollback
<1> QED
  BY <1>4, <1>5, <1>6, <1>7 DEF IInv

\* The cohort commits: every row it staged has its audit row by then.
LEMMA CommitStep ==
    ASSUME IInv, Commit
    PROVE  IInv' /\ Keeps(db, db')
<1>1. /\ job.pc = "next" /\ db' = work /\ base' = work /\ tx' = FALSE
      /\ job' = [IdleJob EXCEPT !.outcome = "committed"]
      /\ UNCHANGED <<work, imported, jobs>>
  BY DEF Commit, Done
<1>2. IsJob(job') /\ job'.pc = "idle"
  BY <1>1 DEF IdleJob, IsJob
<1>3. Types' /\ Transactions' /\ AllMatch(db)' /\ AllMatch(work)'
  BY <1>1, <1>2 DEF IInv, Types, Transactions, IsDatabase, AllMatch
<1>4. Keeps(db, work)' /\ Keeps(db, db')
  BY <1>1 DEF IInv, Keeps
<1>5. Pending' /\ CommittedRowsAudited'
  BY <1>1, <1>2 DEF IInv, Pending, CommittedRowsAudited
<1>6. NoFreshRowOutlivesRollback'
  BY <1>1 DEF NoFreshRowOutlivesRollback
<1> QED
  BY <1>3, <1>4, <1>5, <1>6 DEF IInv

\* The cohort rolls back to what is committed.
LEMMA FailStep ==
    ASSUME IInv, Fail
    PROVE  IInv'
<1>1. /\ job.pc # "idle" /\ work' = db /\ tx' = FALSE
      /\ job' = [IdleJob EXCEPT !.outcome = "rolled_back"]
      /\ UNCHANGED <<db, base, imported, jobs>>
  BY DEF Fail
<1>2. IsJob(job') /\ job'.pc = "idle"
  BY <1>1 DEF IdleJob, IsJob
<1>3. Types' /\ Transactions' /\ AllMatch(db)' /\ AllMatch(work)'
  BY <1>1, <1>2 DEF IInv, Types, Transactions, IsDatabase, AllMatch
<1>4. Keeps(db, work)'
  BY <1>1 DEF Keeps
<1>5. Pending' /\ CommittedRowsAudited'
  BY <1>1, <1>2 DEF IInv, Pending, CommittedRowsAudited
<1>6. NoFreshRowOutlivesRollback'
  BY <1>1 DEF IInv, NoFreshRowOutlivesRollback
<1> QED
  BY <1>3, <1>4, <1>5, <1>6 DEF IInv

\* A cohort starts on what is committed.
LEMMA StartCohortStep ==
    ASSUME IInv, NEW chosen, NEW limit, NEW resolve, StartCohort(chosen, limit, resolve)
    PROVE  IInv'
<1>1. /\ job.pc = "idle" /\ base' = db /\ UNCHANGED <<db, work, imported, tx>>
      /\ job' = [IdleJob EXCEPT !.pc = "next", !.resolve = resolve, !.todo = chosen,
                                !.records = limit]
  BY DEF StartCohort
<1>2. IsJob(job') /\ job'.pc = "next"
  BY <1>1 DEF IdleJob, IsJob
<1>3. Types' /\ Transactions'
  BY <1>1, <1>2 DEF IInv, Types, Transactions, IsDatabase
<1>4. Keeps(db, work)' /\ AllMatch(db)' /\ AllMatch(work)' /\ CommittedRowsAudited'
  BY <1>1 DEF IInv, Keeps, AllMatch, CommittedRowsAudited
<1>5. Pending' /\ NoFreshRowOutlivesRollback'
  BY <1>1, <1>2 DEF IInv, Pending, NoFreshRowOutlivesRollback
<1> QED
  BY <1>3, <1>4, <1>5 DEF IInv

\* Every step keeps the invariant, and the committed trades with their categories.
LEMMA StepInvariant ==
    ASSUME IInv, [Next]_vars
    PROVE  IInv' /\ Keeps(db, db')
<1>1. CASE UNCHANGED <<store, tx, job>>
  <2>1. UNCHANGED db /\ Keeps(db, db')
    BY <1>1 DEF store, Keeps
  <2>2. IInv'
    BY <1>1, QuietStep DEF IInv, Types, Pending, store
  <2> QED
    BY <2>1, <2>2
<1>2. ASSUME NEW w \in Watches,
             WalletTrades(w) \/ PauseWatch(w) \/ RetireWatch(w) \/ ResumeWatch(w)
      PROVE  IInv' /\ Keeps(db, db')
  BY <1>1, <1>2 DEF WalletTrades, PauseWatch, RetireWatch, ResumeWatch, SetStatus
<1>3. ASSUME NEW w \in Watches, IngestHistory(w)
      PROVE  IInv' /\ Keeps(db, db')
  BY <1>3, IngestHistoryStep
<1>4. ASSUME NEW w \in Watches, Fetch(w)
      PROVE  IInv' /\ Keeps(db, db')
  <2>1. /\ UNCHANGED <<store, tx>> /\ IsJob(job') /\ job.pc = "next" /\ job'.pc = "ingest"
    BY <1>4 DEF Fetch, IInv, Types, IsJob
  <2> QED
    BY <2>1, QuietStep DEF store, Keeps
<1>5. ASSUME NEW m \in Markets, GammaMoves(m)
      PROVE  IInv' /\ Keeps(db, db')
  BY <1>1, <1>5 DEF GammaMoves
<1>6. ASSUME NEW m \in Markets, Lookup(m)
      PROVE  IInv' /\ Keeps(db, db')
  <2>1. /\ UNCHANGED <<store, tx>> /\ IsJob(job') /\ job.pc = "ingest" /\ job'.pc = "ingest"
    BY <1>6 DEF Lookup, IInv, Types, IsJob
  <2> QED
    BY <2>1, QuietStep DEF store, Keeps
<1>7. ASSUME NEW r, EnrichOne(r)
      PROVE  IInv' /\ Keeps(db, db')
  BY <1>7, EnrichOneStep
<1>8. ASSUME NEW chosen, NEW limit, NEW resolve, StartCohort(chosen, limit, resolve)
      PROVE  IInv' /\ Keeps(db, db')
  <2>1. UNCHANGED db
    BY <1>8 DEF StartCohort
  <2> QED
    BY <1>8, <2>1, StartCohortStep DEF Keeps
<1>9. ASSUME NEW r \in job.rows, EnrichRow(r)
      PROVE  IInv' /\ Keeps(db, db')
  BY <1>9, EnrichRowStep
<1>10. ASSUME Preflight
       PROVE  IInv' /\ Keeps(db, db')
  <2>1. /\ UNCHANGED <<store, tx>> /\ IsJob(job') /\ job.pc = "ingest" /\ job'.pc = "write"
        /\ job'.rows = Buys(job.page) /\ job'.fresh = Buys(job.page) \ DOMAIN work.trades
    BY <1>10 DEF Preflight, IInv, Types, IsJob
  <2>2. /\ job'.fresh \subseteq job'.rows
        /\ job'.rows \subseteq DOMAIN work.trades \cup job'.fresh
    BY <2>1
  <2> QED
    BY <2>1, <2>2, QuietStep DEF store, Keeps
<1>11. ASSUME WriteRows
       PROVE  IInv' /\ Keeps(db, db')
  BY <1>11, WriteRowsStep
<1>12. ASSUME FinishWatch
       PROVE  IInv' /\ Keeps(db, db')
  BY <1>12, FinishWatchStep DEF FinishWatch, Keeps
<1>13. ASSUME Commit
       PROVE  IInv' /\ Keeps(db, db')
  BY <1>13, CommitStep
<1>14. ASSUME Fail
       PROVE  IInv' /\ Keeps(db, db')
  BY <1>14, FailStep DEF Fail, Keeps
<1>15. CASE UNCHANGED vars
  BY <1>1, <1>15 DEF vars
<1> QED
  BY <1>2, <1>3, <1>4, <1>5, <1>6, <1>7, <1>8, <1>9, <1>10, <1>11, <1>12, <1>13, <1>14,
     <1>15 DEF Next

\* The strengthening holds in every state.
LEMMA Invariant == Spec => []IInv
BY InitInvariant, StepInvariant, PTL DEF Spec

-----------------------------------------------------------------------------
(* Results.                                                                 *)

\* run_cohort's rollback takes every inserted trade and every stamp back, and
\* before its commit none is visible, savepoints notwithstanding.
THEOREM RollbackTakesRowsBack == Spec => []NoFreshRowOutlivesRollback
<1>1. IInv => NoFreshRowOutlivesRollback
  BY DEF IInv
<1> QED
  BY <1>1, Invariant, PTL

\* Whatever fails in whichever watch, a trade the cohort committed has its
\* audit row.
THEOREM AuditedWhenCommitted == Spec => []CommittedRowsAudited
<1>1. IInv => CommittedRowsAudited
  BY DEF IInv
<1> QED
  BY <1>1, Invariant, PTL

\* The audit row the dispatcher reads and the metadata the scorer reads never
\* name different categories.
THEOREM AuditAgreesWithMetadata == Spec => []CompleteMatchesCategory
<1>1. IInv => CompleteMatchesCategory
  BY DEF IInv, AllMatch, Matches, CompleteMatchesCategory
<1> QED
  BY <1>1, Invariant, PTL

\* merge_canonical_metadata and its callers never take a category back.
THEOREM CategoriesStay == Spec => CategoryIsFinal
<1>1. Keeps(db, db') => \A r \in DOMAIN db.trades :
         /\ r \in DOMAIN db'.trades
         /\ db.trades[r].meta.category # None =>
               db'.trades[r].meta.category = db.trades[r].meta.category
  BY DEF Keeps
<1> QED
  BY <1>1, StepInvariant, Invariant, PTL DEF Spec, CategoryIsFinal
=============================================================================
