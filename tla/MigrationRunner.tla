--------------------------- MODULE MigrationRunner ---------------------------
(***************************************************************************)
(* Processes that open one SQLite database and bring its schema up to date  *)
(* (db/database.py): every command of the system begins this way.           *)
(*                                                                         *)
(* A statement that changes the schema takes effect at once, unless the     *)
(* process has a transaction open; a statement that changes rows opens one, *)
(* and writing the version commits it (the legacy transaction control of    *)
(* Python's sqlite3 module).  One process at a time may write: another one  *)
(* waits, and raises when its busy timeout runs out.  A process that dies   *)
(* or raises loses its open transaction.  The reads that decide whether a   *)
(* schema is complete are one step: between them only tables and indexes    *)
(* they do not look for can disappear.                                      *)
(***************************************************************************)
EXTENDS SchemaStatements

CONSTANTS
    Runners,
    NoWork,      \* no transaction is open
    Starts       \* the database found, and who opens it: the version it
                 \* records, the version its schema was built to, indexes
                 \* it lacks, the processes, and a bound on the kills

ASSUME RunnerAssumption ==
    \A s \in Starts : /\ s.version \in 0..s.built /\ s.built <= Target
                      /\ s.runners \subseteq Runners /\ s.kills \in Nat

VARIABLES
    version,     \* the committed schema version
    schema,      \* the committed schema
    work,        \* the schema in each process's open transaction
    phase,       \* what each process is doing
    at, next,    \* the migration it applies and the next statement of it
    missing,     \* the indexes it adds after a reconciliation
    ordered,     \* paper orders refer to the risk decisions
    kills        \* kills that may still happen

vars == <<version, schema, work, phase, at, next, missing, ordered, kills>>

-----------------------------------------------------------------------------
(* Reading and writing.                                                    *)

Seen(r) == IF work[r] = NoWork THEN schema ELSE work[r]

MayWrite(r) == \A q \in Runners \ {r} : work[q] = NoWork

FaultyOpensTransaction(stmt) == stmt.op = "write"

OpensTransaction(stmt) == stmt.op \in {"copy", "write"}

\* The process sees s from here on; the others do once it is committed.
Apply(r, s, open) ==
    IF open \/ work[r] # NoWork
    THEN work' = [work EXCEPT ![r] = s] /\ UNCHANGED schema
    ELSE schema' = s /\ UNCHANGED work

SetVersion(r, v) ==
    /\ MayWrite(r)
    /\ version' = v
    /\ schema' = Seen(r)
    /\ work' = [work EXCEPT ![r] = NoWork]

\* v21's objects forgotten when the version was raised.
FaultyPhysicalSchemaAtTarget(s) ==
    /\ RequiredTables \ {"specialist_evidence_watchlist",
                         "specialist_market_refresh_state"} \subseteq s.tables
    /\ RequiredIndexes \ {"ux_evidence_watchlist_active", "idx_market_refresh_next"}
           \subseteq IndexNames(s)
    /\ RequiredColumns \subseteq s.columns

PhysicalSchemaAtTarget(s) ==
    /\ RequiredTables \subseteq s.tables
    /\ RequiredIndexes \subseteq IndexNames(s)
    /\ RequiredColumns \subseteq s.columns

MissingV13Indexes(s) ==
    {"idx_wsa_category_score", "idx_wsa_sample", "idx_wsa_computed_at"}
        \ IndexNames(s)

\* Migration 5 asks first whether its table may be dropped at all.
FirstStatement(v) == IF v = 5 THEN 0 ELSE 1

-----------------------------------------------------------------------------
(* Opening the database.                                                   *)

OpenDatabase(r) ==
    /\ phase[r] = "down"
    /\ IF version = Target
       THEN phase' = [phase EXCEPT ![r] = "done"] /\ UNCHANGED at
       ELSE phase' = [phase EXCEPT ![r] = "preflight"]
            /\ at' = [at EXCEPT ![r] = version + 1]
    /\ UNCHANGED <<version, schema, work, next, missing, ordered, kills>>

Preflight(r) ==
    /\ phase[r] = "preflight"
    /\ IF PhysicalSchemaAtTarget(schema)
       THEN /\ phase' = [phase EXCEPT ![r] = "reconcile"]
            /\ missing' = [missing EXCEPT ![r] = MissingV13Indexes(schema)]
            /\ UNCHANGED next
       ELSE /\ phase' = [phase EXCEPT ![r] = "migrate"]
            /\ next' = [next EXCEPT ![r] = FirstStatement(at[r])]
            /\ UNCHANGED missing
    /\ UNCHANGED <<version, schema, work, at, ordered, kills>>

Reconcile(r) ==
    /\ phase[r] = "reconcile"
    /\ SetVersion(r, Target)
    /\ phase' = [phase EXCEPT ![r] = IF missing[r] = {} THEN "done" ELSE "indexes"]
    /\ UNCHANGED <<at, next, missing, ordered, kills>>

\* The missing indexes are created one by one, in the order of v13.
AddMissingIndex(r) ==
    /\ phase[r] = "indexes" /\ MayWrite(r)
    /\ LET left == SelectSeq(V13, LAMBDA stmt : stmt.name \in missing[r]) IN
       /\ schema' = After(Head(left), schema)
       /\ missing' = [missing EXCEPT ![r] = @ \ {Head(left).name}]
       /\ phase' = [phase EXCEPT ![r] = IF Len(left) = 1 THEN "done" ELSE "indexes"]
    /\ UNCHANGED <<version, work, at, next, ordered, kills>>

-----------------------------------------------------------------------------
(* Applying a migration.                                                   *)

Statement(r) == Migrations[at[r]][next[r]]

IsAt(r, ph) ==
    phase[r] = ph /\ next[r] \in DOMAIN Migrations[at[r]]

\* The process ends: what it had read or not committed is gone.
Ends(r, ph) ==
    /\ phase' = [phase EXCEPT ![r] = ph]
    /\ work' = [work EXCEPT ![r] = NoWork]
    /\ at' = [at EXCEPT ![r] = 1]
    /\ next' = [next EXCEPT ![r] = 1]
    /\ missing' = [missing EXCEPT ![r] = {}]

Raise(r) == Ends(r, "failed") /\ UNCHANGED <<version, schema, ordered, kills>>

Blocked == Referring("source_trades") \cap schema.tables # {}

GuardV5(r) ==
    /\ phase[r] = "migrate" /\ next[r] = 0
    /\ IF Blocked
       THEN Raise(r)
       ELSE /\ next' = [next EXCEPT ![r] = 1]
            /\ UNCHANGED <<version, schema, work, phase, at, missing, ordered,
                           kills>>

\* A column is added when the table does not have it: the process looks
\* first, and adds it in a statement of its own.
LookForColumn(r) ==
    /\ IsAt(r, "migrate") /\ Statement(r).op = "column"
    /\ IF <<Statement(r).on, Statement(r).name>> \in Seen(r).columns
       THEN next' = [next EXCEPT ![r] = @ + 1] /\ UNCHANGED phase
       ELSE phase' = [phase EXCEPT ![r] = "alter"] /\ UNCHANGED next
    /\ UNCHANGED <<version, schema, work, at, missing, ordered, kills>>

ExecuteStatement(r) ==
    /\ \/ IsAt(r, "migrate") /\ Statement(r).op # "column"
       \/ IsAt(r, "alter")
    /\ MayWrite(r)
    /\ IF Executable(Statement(r), Seen(r), ordered)
       THEN /\ Apply(r, After(Statement(r), Seen(r)), OpensTransaction(Statement(r)))
            /\ next' = [next EXCEPT ![r] = @ + 1]
            /\ phase' = [phase EXCEPT ![r] = "migrate"]
            /\ UNCHANGED <<version, at, missing, ordered, kills>>
       ELSE Raise(r)

\* Migration 5 sets its version itself, and the runner once more.
FinishVersion(r) ==
    /\ phase[r] = "migrate" /\ next[r] > Len(Migrations[at[r]])
    /\ SetVersion(r, at[r])
    /\ IF at[r] = 5 /\ next[r] = Len(V5) + 1
       THEN next' = [next EXCEPT ![r] = @ + 1] /\ UNCHANGED <<phase, at>>
       ELSE IF at[r] = Target
       THEN /\ phase' = [phase EXCEPT ![r] = "done"]
            /\ at' = [at EXCEPT ![r] = 1]
            /\ next' = [next EXCEPT ![r] = 1]
       ELSE /\ at' = [at EXCEPT ![r] = @ + 1]
            /\ next' = [next EXCEPT ![r] = FirstStatement(at[r] + 1)]
            /\ UNCHANGED phase
    /\ UNCHANGED <<missing, ordered, kills>>

-----------------------------------------------------------------------------
(* Failure.                                                                *)

Writing(r) == phase[r] \in {"reconcile", "indexes", "migrate", "alter"}

BusyTimeout(r) ==
    /\ Writing(r) /\ ~MayWrite(r)
    /\ Raise(r)

Crash(r) ==
    /\ phase[r] \notin {"down", "done", "failed"} /\ kills > 0
    /\ Ends(r, "down")
    /\ kills' = kills - 1
    /\ UNCHANGED <<version, schema, ordered>>

\* A command that raised is run again, by its timer or its operator.
Retry(r) ==
    /\ phase[r] = "failed"
    /\ phase' = [phase EXCEPT ![r] = "down"]
    /\ UNCHANGED <<version, schema, work, at, next, missing, ordered, kills>>

-----------------------------------------------------------------------------
Init ==
    \E s \in Starts :
        /\ version = s.version
        /\ schema = [Built[s.built] EXCEPT
                       !.indexes = {i \in @ : i[2] \notin s.lacking}]
        /\ work = [r \in Runners |-> NoWork]
        /\ phase = [r \in Runners |-> IF r \in s.runners THEN "down" ELSE "done"]
        /\ at = [r \in Runners |-> 1]
        /\ next = [r \in Runners |-> 1]
        /\ missing = [r \in Runners |-> {}]
        /\ ordered \in (IF s.version >= 18 THEN BOOLEAN ELSE {FALSE})
        /\ kills = s.kills

RunMigrations(r) ==
    \/ OpenDatabase(r) \/ Preflight(r) \/ Reconcile(r) \/ AddMissingIndex(r)
    \/ GuardV5(r) \/ LookForColumn(r) \/ ExecuteStatement(r) \/ FinishVersion(r)
    \/ Retry(r)

Next == \E r \in Runners : RunMigrations(r) \/ BusyTimeout(r) \/ Crash(r)

Spec == Init /\ [][Next]_vars /\ \A r \in Runners : WF_vars(RunMigrations(r))

-----------------------------------------------------------------------------
(* Properties.                                                             *)

\* A database of version v has the tables and the columns that the first v
\* migrations build, whoever wrote the version, by migrating or by
\* reconciling, and whatever crashed before: the code reads and writes them
\* without asking.
TablesMatchVersion ==
    /\ Built[version].tables \subseteq schema.tables
    /\ Built[version].columns \subseteq schema.columns

\* Wherever a process was killed, and however two of them overlapped, a
\* later start takes the migration up again and brings the database to the
\* target version, unless a table to be rebuilt is held by rows of others:
\* no half-applied statement list is a dead end.
Held == (version < 20 /\ ordered) \/ (version < 5 /\ Blocked)

MigrationCompletes == ~Held ~> (version = Target)

\* What schema_v20 promises of a database with paper orders: the orders keep
\* their reference and the migration is applied.
OrdersSurviveRebuild == \A r \in Runners : phase[r] # "failed"
=============================================================================
