-------------------------- MODULE SchemaStatements --------------------------
(***************************************************************************)
(* The statements of the twenty-one schema migrations, in the order they    *)
(* are executed (db/schema.py and db/schema_v10.py to schema_v21.py), what  *)
(* each does to a schema, and the objects the runner requires before it     *)
(* believes that a schema is complete (db/database.py).                     *)
(*                                                                         *)
(* A schema is the set of its tables, of the columns added to them later    *)
(* and of their indexes.  The columns a table is created with, types and    *)
(* constraints are left out, and so are the temporary table of v6 and the   *)
(* foreign_key_check of v5 and v6, which change no object; the one column   *)
(* that is both created with its table and added later is kept.             *)
(***************************************************************************)
EXTENDS Integers, SequencesExt

Table(t) == [op |-> "table", name |-> t, columns |-> {}]
TableWith(t, cs) == [op |-> "table", name |-> t, columns |-> {t} \X cs]
Index(t, i) == [op |-> "index", name |-> i, on |-> t]
Column(t, c) == [op |-> "column", name |-> c, on |-> t]
Copy(old, new) == [op |-> "copy", name |-> old, to |-> new]
Drop(t) == [op |-> "drop", name |-> t]
Rename(old, new) == [op |-> "rename", name |-> old, to |-> new]
Write(t) == [op |-> "write", name |-> t]

Tables(ts) == [i \in DOMAIN ts |-> Table(ts[i])]
Indexes(t, is) == [i \in DOMAIN is |-> Index(t, is[i])]
Columns(t, cs) == [i \in DOMAIN cs |-> Column(t, cs[i])]
Writes(ts) == [i \in DOMAIN ts |-> Write(ts[i])]

\* The rebuild of a table: its rows are copied to a new one that takes its
\* name.
ReplacedBy(old, new) == <<Copy(old, new), Drop(old), Rename(new, old)>>

-----------------------------------------------------------------------------
(* The migrations.                                                         *)

V1Tables ==
    Tables(<<
         "_meta", "wallets", "wallet_balances", "markets",
         "market_outcomes", "signals", "orders", "positions",
         "source_trades", "decision_log", "experiment_runs",
         "raw_snapshots", "performance_summaries">>)

V1Indexes ==
    Indexes("orders", <<
         "idx_orders_market", "idx_orders_wallet", "idx_orders_status">>)
    \o Indexes("positions", <<"idx_positions_wallet", "idx_positions_market">>)
    \o Indexes("signals", <<"idx_signals_market">>)
    \o Indexes("source_trades", <<
         "idx_source_trades_market", "idx_source_trades_timestamp">>)
    \o Indexes("decision_log", <<"idx_decision_log_wallet">>)
    \o Indexes("raw_snapshots", <<
         "idx_snapshots_source", "idx_snapshots_fetched">>)

V1 == V1Tables \o V1Indexes

V2 ==
    Tables(<<"provider_health">>)
    \o Indexes("provider_health", <<"idx_provider_health_provider">>)

V3 ==
    Tables(<<"positions_new">>)
    \o ReplacedBy("positions", "positions_new")
    \o Indexes("positions", <<"idx_positions_wallet", "idx_positions_market">>)

V4 ==
    Tables(<<"capability_flags">>)
    \o Indexes("capability_flags", <<"idx_capability_flags_capability">>)

V5 ==
    Tables(<<"source_trades_new">>)
    \o ReplacedBy("source_trades", "source_trades_new")
    \o Indexes("source_trades", <<
         "idx_source_trades_market", "idx_source_trades_timestamp">>)
    \o Writes(<<
         "decision_log", "decision_log", "wallet_balances",
         "performance_summaries", "positions", "orders", "wallets">>)

V6 ==
    Columns("wallets", <<"canonical_address">>)
    \o Writes(<<
         "wallets", "decision_log", "decision_log", "wallet_balances",
         "performance_summaries", "positions", "orders", "wallets",
         "wallets", "wallets", "wallet_balances", "positions", "orders",
         "decision_log", "performance_summaries", "wallets">>)
    \o Indexes("wallets", <<"ux_wallets_canonical_address">>)

V7 ==
    Columns("market_outcomes", <<"clob_token_id">>)
    \o Columns("source_trades", <<"token_id">>)
    \o Indexes("market_outcomes", <<"idx_market_outcomes_token">>)

V8 ==
    Tables(<<"copy_candidates">>)
    \o Indexes("copy_candidates", <<
         "idx_copy_candidates_status", "idx_copy_candidates_wallet",
         "idx_copy_candidates_source_trade_internal",
         "idx_copy_candidates_market_outcome">>)

V9 ==
    Tables(<<"candidate_price_snapshots">>)
    \o Indexes("candidate_price_snapshots", <<
         "idx_cps_candidate_fetched", "idx_cps_status", "idx_cps_run">>)

V10Scores ==
    Tables(<<
         "wallet_score_decisions", "category_wallet_score_decisions",
         "trade_copyability_decisions">>)

V10Decisions ==
    <<TableWith("shadow_decisions", {"slippage"})>>
    \o Tables(<<"decision_verdicts", "paper_signal_decisions">>)

V10Inputs ==
    Tables(<<
         "exit_experiment_registrations", "score_component_inputs",
         "candidate_price_snapshot_levels">>)
    \o Indexes("wallet_score_decisions", <<
         "idx_wallet_score_wallet", "idx_wallet_score_verdict">>)
    \o Indexes("category_wallet_score_decisions", <<
         "idx_category_score_wallet">>)
    \o Indexes("trade_copyability_decisions", <<
         "idx_trade_score_wallet", "idx_trade_score_verdict">>)
    \o Indexes("shadow_decisions", <<
         "idx_shadow_decision_wallet", "idx_shadow_decision_verdict">>)
    \o Indexes("paper_signal_decisions", <<
         "idx_paper_signal_candidate", "idx_paper_signal_approved",
         "idx_paper_signal_wallet">>)
    \o Indexes("exit_experiment_registrations", <<
         "idx_exit_experiment_signal">>)
    \o Indexes("score_component_inputs", <<"idx_score_inputs_decision">>)
    \o Indexes("candidate_price_snapshot_levels", <<
         "idx_cpsl_snapshot", "idx_cpsl_snapshot_side",
         "idx_cpsl_snapshot_side_level">>)

V10 == V10Scores \o V10Decisions \o V10Inputs

V11Columns ==
    <<"source_price", "delayed_copy_price", "slippage", "spread",
      "intended_stake", "executable_depth",
      "wallet_skill_persistence_input", "copied_realized_performance_input",
      "concentration_correlation_input", "measured_delay_seconds",
      "missing_forward_reasons_json", "price_snapshot_id", "depth_hash">>

V11 ==
    Columns("shadow_decisions", V11Columns)

V12 ==
    Columns("paper_signal_decisions", <<
         "decision_input_json", "wallet_score_decision_id",
         "category_score_decision_id", "trade_score_decision_id">>)
    \o Columns("shadow_decisions", <<
         "target_delay_seconds", "actual_observed_delay_seconds",
         "delay_error_seconds">>)

V13 ==
    Tables(<<"wallet_specialist_aggregations">>)
    \o Indexes("wallet_specialist_aggregations", <<
         "idx_wsa_wallet", "idx_wsa_category", "idx_wsa_quality",
         "idx_wsa_wallet_category", "idx_wsa_category_score",
         "idx_wsa_sample", "idx_wsa_computed_at">>)

V14 ==
    Columns("market_outcomes", <<"is_winner">>)
    \o Columns("markets", <<
         "winning_token_id", "resolution_checked_at", "resolution_source">>)
    \o Columns("source_trades", <<
         "resolution_status", "resolved_at", "winning_token_id",
         "is_winning_trade", "realized_pnl", "settlement_source">>)
    \o Indexes("market_outcomes", <<"idx_market_outcomes_winner">>)
    \o Indexes("source_trades", <<
         "idx_source_trades_resolution_status",
         "idx_source_trades_winning_token">>)

V15 ==
    Tables(<<"settlement_accounting_ledger">>)
    \o Indexes("settlement_accounting_ledger", <<
         "idx_settlement_ledger_wallet", "idx_settlement_ledger_trader",
         "idx_settlement_ledger_market", "idx_settlement_ledger_status",
         "idx_settlement_ledger_source_trade">>)

V16 ==
    Columns("trade_copyability_decisions", <<
         "source_entry_price", "current_copy_price",
         "estimated_fill_price", "source_trade_timestamp",
         "price_snapshot_fetched_at", "evaluation_timestamp">>)

V17 ==
    Columns("source_trades", <<"metadata_json">>)
    \o Indexes("source_trades", <<"idx_source_trades_wallet_timestamp">>)

V18Approvals ==
    Tables(<<"specialist_approvals">>)
    \o Indexes("specialist_approvals", <<
         "idx_specialist_approvals_wallet",
         "idx_specialist_approvals_wallet_category",
         "ux_specialist_approvals_active">>)
    \o Tables(<<"paper_signal_execution_authorizations">>)
    \o Indexes("paper_signal_execution_authorizations", <<
         "idx_paper_signal_exec_authz_signal">>)
    \o Tables(<<"execution_risk_decisions">>)
    \o Indexes("execution_risk_decisions", <<
         "idx_execution_risk_signal", "idx_execution_risk_approval">>)

V18Orders ==
    Tables(<<"paper_orders">>)
    \o Indexes("paper_orders", <<
         "idx_paper_orders_signal", "idx_paper_orders_approval",
         "idx_paper_orders_source_trade", "idx_paper_orders_risk">>)
    \o Tables(<<"paper_fills">>)
    \o Indexes("paper_fills", <<"idx_paper_fills_order">>)
    \o Tables(<<"paper_positions">>)
    \o Indexes("paper_positions", <<
         "idx_paper_positions_order", "idx_paper_positions_wallet",
         "idx_paper_positions_market", "idx_paper_positions_source_trade">>)
    \o Tables(<<"paper_position_lots">>)
    \o Indexes("paper_position_lots", <<"idx_paper_position_lots_position">>)
    \o Tables(<<"paper_position_marks">>)
    \o Indexes("paper_position_marks", <<"idx_paper_position_marks_position">>)
    \o Tables(<<"paper_position_settlements">>)
    \o Indexes("paper_position_settlements", <<
         "idx_paper_position_settlements_position",
         "idx_paper_position_settlements_status">>)

V18 == V18Approvals \o V18Orders

V19 ==
    Tables(<<
         "source_trade_enrichments", "approved_specialist_trade_dispatches">>)
    \o Indexes("source_trade_enrichments", <<
         "idx_source_trade_enrichments_internal",
         "idx_source_trade_enrichments_status">>)
    \o Indexes("approved_specialist_trade_dispatches", <<
         "idx_astd_approval", "idx_astd_source_trade", "idx_astd_status">>)

V20 ==
    Tables(<<"execution_risk_decisions_new">>)
    \o ReplacedBy("execution_risk_decisions", "execution_risk_decisions_new")
    \o Indexes("execution_risk_decisions", <<
         "idx_execution_risk_signal", "idx_execution_risk_authz",
         "idx_execution_risk_attempt">>)

V21Approvals ==
    Tables(<<"specialist_approvals">>)
    \o Indexes("specialist_approvals", <<
         "idx_specialist_approvals_wallet",
         "idx_specialist_approvals_wallet_category",
         "ux_specialist_approvals_active">>)
    \o Tables(<<"paper_signal_execution_authorizations">>)
    \o Indexes("paper_signal_execution_authorizations", <<
         "idx_paper_signal_exec_authz_signal">>)
    \o Tables(<<"execution_risk_decisions">>)
    \o Indexes("execution_risk_decisions", <<
         "idx_execution_risk_signal", "idx_execution_risk_approval",
         "idx_execution_risk_attempt">>)

V21Orders ==
    Tables(<<"paper_orders">>)
    \o Indexes("paper_orders", <<
         "idx_paper_orders_signal", "idx_paper_orders_approval",
         "idx_paper_orders_source_trade", "idx_paper_orders_risk">>)
    \o Tables(<<"paper_fills">>)
    \o Indexes("paper_fills", <<"idx_paper_fills_order">>)
    \o Tables(<<"paper_positions">>)
    \o Indexes("paper_positions", <<
         "idx_paper_positions_order", "idx_paper_positions_wallet",
         "idx_paper_positions_market", "idx_paper_positions_source_trade">>)
    \o Tables(<<"paper_position_lots">>)
    \o Indexes("paper_position_lots", <<"idx_paper_position_lots_position">>)
    \o Tables(<<"paper_position_marks">>)
    \o Indexes("paper_position_marks", <<"idx_paper_position_marks_position">>)
    \o Tables(<<"paper_position_settlements">>)
    \o Indexes("paper_position_settlements", <<
         "idx_paper_position_settlements_position",
         "idx_paper_position_settlements_status">>)

V21Dispatch ==
    Tables(<<
         "source_trade_enrichments", "approved_specialist_trade_dispatches">>)
    \o Indexes("source_trade_enrichments", <<
         "idx_source_trade_enrichments_internal",
         "idx_source_trade_enrichments_status">>)
    \o Indexes("approved_specialist_trade_dispatches", <<
         "idx_astd_approval", "idx_astd_source_trade", "idx_astd_status">>)

V21Research ==
    Tables(<<"specialist_evidence_watchlist">>)
    \o Indexes("specialist_evidence_watchlist", <<
         "idx_evidence_watchlist_wallet", "idx_evidence_watchlist_status",
         "ux_evidence_watchlist_active">>)
    \o Tables(<<"specialist_market_refresh_state">>)
    \o Indexes("specialist_market_refresh_state", <<
         "idx_market_refresh_next", "idx_market_refresh_status">>)

V21 == V21Approvals \o V21Orders \o V21Dispatch \o V21Research

Migrations ==
    <<V1, V2, V3, V4, V5, V6, V7, V8, V9, V10, V11, V12, V13, V14, V15, V16,
      V17, V18, V19, V20, V21>>

Target == Len(Migrations)

\* The tables whose rows refer to a row of t.
Referring(t) ==
    CASE t = "source_trades" ->
            {"copy_candidates", "settlement_accounting_ledger", "paper_orders",
             "paper_positions", "source_trade_enrichments",
             "approved_specialist_trade_dispatches"}
      [] t = "execution_risk_decisions" -> {"paper_orders", "paper_positions"}
      [] OTHER -> {}

-----------------------------------------------------------------------------
(* What the runner requires of a complete schema.                          *)

RequiredTables ==
    {"wallets", "markets", "source_trades", "wallet_score_decisions",
     "decision_verdicts", "score_component_inputs", "copy_candidates",
     "paper_signal_decisions", "category_wallet_score_decisions",
     "trade_copyability_decisions", "shadow_decisions",
     "exit_experiment_registrations", "wallet_specialist_aggregations",
     "orders", "positions", "settlement_accounting_ledger",
     "specialist_approvals", "paper_signal_execution_authorizations",
     "execution_risk_decisions", "paper_orders", "paper_fills",
     "paper_positions", "paper_position_marks", "paper_position_settlements",
     "source_trade_enrichments", "approved_specialist_trade_dispatches",
     "paper_position_lots", "specialist_evidence_watchlist",
     "specialist_market_refresh_state"}

RequiredIndexes ==
    {"idx_wsa_wallet", "idx_wsa_category", "idx_wsa_quality",
     "idx_wsa_wallet_category", "idx_settlement_ledger_wallet",
     "idx_settlement_ledger_trader", "idx_settlement_ledger_market",
     "idx_settlement_ledger_status", "idx_settlement_ledger_source_trade",
     "idx_source_trades_wallet_timestamp", "ux_specialist_approvals_active",
     "idx_paper_signal_exec_authz_signal", "idx_execution_risk_signal",
     "idx_paper_orders_signal", "idx_paper_fills_order",
     "idx_paper_positions_order", "idx_paper_position_marks_position",
     "idx_paper_position_settlements_position",
     "idx_source_trade_enrichments_internal",
     "idx_source_trade_enrichments_status", "idx_astd_approval",
     "idx_astd_source_trade", "idx_astd_status", "idx_execution_risk_authz",
     "idx_execution_risk_attempt", "ux_evidence_watchlist_active",
     "idx_market_refresh_next"}

RequiredColumns ==
    ({"market_outcomes"} \X {"is_winner"})
    \union ({"markets"} \X {"winning_token_id", "resolution_checked_at",
                            "resolution_source"})
    \union ({"source_trades"} \X {"resolution_status", "resolved_at",
                                  "winning_token_id", "is_winning_trade",
                                  "realized_pnl", "settlement_source",
                                  "metadata_json"})
    \union ({"trade_copyability_decisions"} \X
                {"source_entry_price", "current_copy_price",
                 "estimated_fill_price", "source_trade_timestamp",
                 "price_snapshot_fetched_at", "evaluation_timestamp"})

-----------------------------------------------------------------------------
(* Schemas.                                                                *)

IndexNames(s) == {i[2] : i \in s.indexes}

\* The database executes stmt on schema s: what an index, a column or a row
\* belongs to must be there.  `referred` holds when rows of other tables
\* refer to the risk decisions, whose table cannot be dropped then.
Executable(stmt, s, referred) ==
    CASE stmt.op = "table" -> TRUE
      [] stmt.op = "index" -> stmt.name \in IndexNames(s) \/ stmt.on \in s.tables
      [] stmt.op = "column" ->
            stmt.on \in s.tables /\ <<stmt.on, stmt.name>> \notin s.columns
      [] stmt.op = "copy" -> {stmt.name, stmt.to} \subseteq s.tables
      [] stmt.op = "drop" ->
            /\ stmt.name \in s.tables
            /\ ~(referred /\ stmt.name = "execution_risk_decisions")
      [] stmt.op = "rename" -> stmt.name \in s.tables /\ stmt.to \notin s.tables
      [] stmt.op = "write" -> stmt.name \in s.tables

\* CREATE ... IF NOT EXISTS does nothing when the object is there; a dropped
\* table takes its columns and indexes along, a renamed one keeps them.
After(stmt, s) ==
    CASE stmt.op = "table" /\ stmt.name \notin s.tables ->
            [s EXCEPT !.tables = @ \union {stmt.name},
                      !.columns = @ \union stmt.columns]
      [] stmt.op = "index" /\ stmt.name \notin IndexNames(s) ->
            [s EXCEPT !.indexes = @ \union {<<stmt.on, stmt.name>>}]
      [] stmt.op = "column" ->
            [s EXCEPT !.columns = @ \union {<<stmt.on, stmt.name>>}]
      [] stmt.op = "drop" ->
            [tables |-> s.tables \ {stmt.name},
             columns |-> {c \in s.columns : c[1] # stmt.name},
             indexes |-> {i \in s.indexes : i[1] # stmt.name}]
      [] stmt.op = "rename" ->
            LET named(t) == IF t = stmt.name THEN stmt.to ELSE t IN
            [tables |-> {named(t) : t \in s.tables},
             columns |-> {<<named(c[1]), c[2]>> : c \in s.columns},
             indexes |-> {<<named(i[1]), i[2]>> : i \in s.indexes}]
      [] OTHER -> s

\* The schema the first v migrations build from nothing: every table, but
\* for those that took another's name, and the columns and indexes put on it
\* since it was last dropped.
Built == [v \in 0..Target |->
    LET places == UNION {{m} \X DOMAIN Migrations[m] : m \in 1..v}
        stmt(p) == Migrations[p[1]][p[2]]
        all(op) == {p \in places : stmt(p).op = op}
        follows(q, p) == q[1] > p[1] \/ (q[1] = p[1] /\ q[2] > p[2])
        kept(p) == \A q \in all("drop") :
                       follows(q, p) => stmt(q).name # stmt(p).on
        put(op) == {<<stmt(p).on, stmt(p).name>> : p \in {x \in all(op) : kept(x)}}
    IN [tables  |-> {stmt(p).name : p \in all("table")}
                        \ {stmt(p).name : p \in all("rename")},
        columns |-> put("column") \union
                        UNION {stmt(p).columns : p \in all("table")},
        indexes |-> put("index")]]
=============================================================================
