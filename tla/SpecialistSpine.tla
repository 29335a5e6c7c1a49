--------------------------- MODULE SpecialistSpine ---------------------------
(***************************************************************************)
(* The specialist paper execution spine: from a manual approval and an     *)
(* eligible paper signal, through an explicit execution authorization, to  *)
(* at most one paper order per signal, its position and its settlement.    *)
(*                                                                         *)
(* Three commands share one SQLite database: the reviewer's                *)
(* (scripts/manage_paper_signal_authorizations.py), the executor's         *)
(* (scripts/execute_authorized_specialist_signals.py, which drives         *)
(* consume_eligible_signal of execution/specialist_spine.py) and the       *)
(* settler's (SpecialistSettlement).  None of them takes the operational   *)
(* lock, so their steps interleave: every SELECT reads what is committed   *)
(* then, outside any transaction; the first INSERT or UPDATE takes the     *)
(* database's single write lock (`writer'), which lasts until the process  *)
(* commits, rolls back, closes its connection or dies.                     *)
(***************************************************************************)
EXTENDS SpecialistApproval, SpecialistSettlement, FiniteSets

CONSTANTS
    Signals,     \* paper_signal_decisions rows
    WalletOf,    \* wallet_id of each signal
    MarketOf,    \* market_source_id of its source trade
    Cost,        \* quantity (capped) times the quoted fill price
    Thin,        \* signals whose depth cannot fill the quantity in full
    Matches,     \* <<s, a>>: the trade of s was dispatched under approval a
    Volatile,    \* bound: signals whose evidence may change during a behaviour
    Reviewers,   \* processes that run the authorization command
    MaxOrder,    \* --max-order-size
    MaxExposure, \* --max-per-wallet, --max-per-market and --max-global
    NoSignal

Scopes == {"wallet", "market", "global"}

ASSUME SpineAssumption ==
    /\ Cost \in [Signals -> Nat \ {0}]
    /\ Thin \subseteq Signals
    /\ Matches \subseteq Signals \X Approvals
    /\ Volatile \subseteq Signals
    /\ MaxOrder \in Nat
    /\ MaxExposure \in [Scopes -> Nat]
    /\ NoSignal \notin Signals

VARIABLES
    auth,        \* paper_signal_execution_authorizations, one row per signal
    evidence,    \* what the other stages say of each signal now
    reviewer,    \* what each reviewer process has read, and its last exit
    exec,        \* what each execution has read and decided
    decisions    \* committed execution_risk_decisions: <<run, decision>>

vars == <<approval, orders, settlementVars, writer, auth, evidence,
          reviewer, exec, decisions>>

NoAuth == [status |-> "none", approval |-> NoApproval]

AuthRow == [status: {"none", "active", "used", "revoked"},
            approval: Approvals \cup {NoApproval}]

\* "current": every stored fact the gate checks is as it must be.  "stale": the
\* scores are, but the snapshot is too old or the market has resolved.
EvidenceState == {"current", "stale", "ineligible"}

ReviewerState ==
    [pc: {"idle", "select", "insert", "revoke"},
     signal: Signals \cup {NoSignal},
     approval: Approvals \cup {NoApproval},
     exit: {"none", "ok", "failed"}]

Exited(code) ==
    [pc |-> "idle", signal |-> NoSignal, approval |-> NoApproval, exit |-> code]

ExecState ==
    [pc: {"idle", "auth", "approval", "evidence", "existing", "exposure",
          "persist", "write", "close", "done"},
     dry: BOOLEAN,                           \* --dry-run
     signal: Signals \cup {NoSignal},
     approval: Approvals \cup {NoApproval},  \* from the authorization it read
     clear: BOOLEAN,                         \* no reason to block so far
     read: SUBSET Scopes,                    \* exposure sums read so far
     seen: [Scopes -> SUBSET Executions],    \* the positions each sum counted
     staged: {"none", "allow", "block"},     \* uncommitted risk decision
     status: {"none", "blocked", "dry_run_allowed", "executed",
              "already_executed", "crashed"}]

FreshExec ==
    [pc |-> "idle", dry |-> FALSE, signal |-> NoSignal, approval |-> NoApproval,
     clear |-> TRUE,
     read |-> {}, seen |-> [k \in Scopes |-> {}], staged |-> "none", status |-> "none"]

SpineInit ==
    /\ ApprovalInit
    /\ SettlementInit
    /\ orders = {}
    /\ writer = NoOne
    /\ auth = [s \in Signals |-> NoAuth]
    /\ evidence = [s \in Signals |-> "current"]
    /\ reviewer = [r \in Reviewers |-> Exited("none")]
    /\ exec = [e \in Executions |-> FreshExec]
    /\ decisions = {}

-----------------------------------------------------------------------------
(* Helpers.                                                                *)

OrdersOf(s) == {o \in orders : exec[o].signal = s}

Unsettled == {o \in orders : ledger[o] = <<>>}

\* The WHERE clauses of _current_exposure.  The market sum also asks for the
\* wallet of the signal.
Counts(k, s, o) ==
    LET t == exec[o].signal
    IN  CASE k = "wallet" -> WalletOf[t] = WalletOf[s]
          [] k = "market" -> WalletOf[t] = WalletOf[s] /\ MarketOf[t] = MarketOf[s]
          [] k = "global" -> TRUE

\* The sum of the notionals of a set of positions, unit by unit: a position of
\* cost 3 has the units <<o, 1>>, <<o, 2>> and <<o, 3>>.
Units(positions) == UNION {{o} \X (1 .. Cost[exec[o].signal]) : o \in positions}

Notional(positions) == Cardinality(Units(positions))

FaultyExposureAfter(e, k) == Notional(exec[e].seen[k])

ExposureAfter(e, k) == Notional(exec[e].seen[k]) + Cost[exec[e].signal]

WithinLimits(e) ==
    /\ Cost[exec[e].signal] <= MaxOrder
    /\ \A k \in Scopes : ExposureAfter(e, k) <= MaxExposure[k]

\* step 9 of consume_eligible_signal: unset limits block.
LimitsConfigured == MaxOrder > 0 /\ \A k \in Scopes : MaxExposure[k] > 0

\* A signal that no authorization was ever issued for; one that was used or
\* revoked is not such a signal.
FaultyNeverAuthorized(s) == auth[s].status # "active"

NeverAuthorized(s) == auth[s].status = "none"

\* consume_authorization: the UPDATE names the row and not the status it had.
FaultyConsumed(row) == row

Consumed(row) == [row EXCEPT !.status = "used"]

\* UNIQUE(paper_signal_decision_id) of paper_orders.
FaultyOrderIndexAdmits(s) == TRUE

OrderIndexAdmits(s) == OrdersOf(s) = {}

\* _cmd_execute commits for these two statuses; closing the connection rolls
\* back whatever else was begun.
FaultyCommitsFor(status) == TRUE

CommitsFor(status) == status \in {"executed", "already_executed"}

\* SQLite drops the transaction of a connection that is gone, and its lock.
FaultyLockAfter(e) == writer

LockAfter(e) == IF writer = e THEN NoOne ELSE writer

-----------------------------------------------------------------------------
(* The other stages and the operator.                                      *)

\* Scoring appends a new verdict, the snapshot ages, the market resolves.  A
\* signal keeps its snapshot, so a stale one never becomes current again.
EvidenceChanges(s) ==
    /\ \E new \in EvidenceState \ {evidence[s]} :
         /\ evidence[s] = "stale" => new # "current"
         /\ evidence' = [evidence EXCEPT ![s] = new]
    /\ UNCHANGED <<approval, orders, settlementVars, writer, auth,
                   reviewer, exec, decisions>>

\* The approval command writes, so it waits for the write lock.
ApprovalStep ==
    /\ writer = NoOne
    /\ ManageApprovals
    /\ UNCHANGED <<orders, settlementVars, writer, auth, evidence,
                   reviewer, exec, decisions>>

-----------------------------------------------------------------------------
(* The reviewer's command.                                                 *)

spineRest == <<approval, orders, settlementVars, writer, evidence, exec, decisions>>

\* _validate_authorization_inputs: every rule but the freshness of the
\* snapshot, which only the executor asks for.
ValidateAuthorization(r) ==
    /\ reviewer[r].pc = "idle"
    /\ \E s \in Signals, a \in Approvals :
         LET valid == IsActive(a) /\ evidence[s] # "ineligible" /\ <<s, a>> \in Matches
         IN  reviewer' = [reviewer EXCEPT ![r] =
                 IF valid THEN [pc |-> "select", signal |-> s, approval |-> a, exit |-> "none"]
                 ELSE Exited("failed")]
    /\ UNCHANGED <<auth, spineRest>>

\* The SELECT of create_execution_authorization: an active row is returned as
\* it is, a used or revoked one is never brought back.
SelectAuthorization(r) ==
    LET s == reviewer[r].signal
    IN  /\ reviewer[r].pc = "select"
        /\ reviewer' = [reviewer EXCEPT ![r] =
             CASE NeverAuthorized(s)         -> [@ EXCEPT !.pc = "insert"]
               [] auth[s].status = "active"  -> Exited("ok")
               [] OTHER                      -> Exited("failed")]
        /\ UNCHANGED <<auth, spineRest>>

\* Its INSERT and the command's COMMIT.  UNIQUE(paper_signal_decision_id)
\* stops a row that another reviewer inserted meanwhile from being doubled.
InsertAuthorization(r) ==
    LET s == reviewer[r].signal
    IN  /\ reviewer[r].pc = "insert"
        /\ writer = NoOne
        /\ \/ /\ NeverAuthorized(s)
              /\ auth' = [auth EXCEPT ![s] =
                   [status |-> "active", approval |-> reviewer[r].approval]]
              /\ reviewer' = [reviewer EXCEPT ![r] = Exited("ok")]
           \/ /\ ~NeverAuthorized(s)
              /\ reviewer' = [reviewer EXCEPT ![r] = Exited("failed")]
              /\ UNCHANGED auth
        /\ UNCHANGED spineRest

\* _cmd_revoke reads the row and refuses one that is used or revoked.
ReadForRevocation(r) ==
    /\ reviewer[r].pc = "idle"
    /\ \E s \in Signals :
         /\ auth[s].status # "none"
         /\ reviewer' = [reviewer EXCEPT ![r] =
              IF auth[s].status = "active"
              THEN [pc |-> "revoke", signal |-> s, approval |-> NoApproval, exit |-> "none"]
              ELSE Exited("failed")]
    /\ UNCHANGED <<auth, spineRest>>

\* Its UPDATE sets revoked_by and revocation_reason, which the table does not
\* have: the statement does not compile and the command dies of the exception.
RevokeAuthorization(r) ==
    /\ reviewer[r].pc = "revoke"
    /\ reviewer' = [reviewer EXCEPT ![r] = Exited("failed")]
    /\ UNCHANGED <<auth, spineRest>>

CrashReviewer(r) ==
    /\ reviewer[r].pc # "idle"
    /\ reviewer' = [reviewer EXCEPT ![r] = Exited("none")]
    /\ UNCHANGED <<auth, spineRest>>

Review(r) ==
    \/ ValidateAuthorization(r)
    \/ SelectAuthorization(r)
    \/ InsertAuthorization(r)
    \/ ReadForRevocation(r)
    \/ RevokeAuthorization(r)
    \/ CrashReviewer(r)

-----------------------------------------------------------------------------
(* The executor's command: one run handles one signal.                     *)

stored == <<approval, orders, settlementVars, auth, evidence, reviewer, decisions>>

\* _cmd_execute up to the call: a signal that has an order is reported at once.
StartExecution(e) ==
    /\ exec[e].pc = "idle"
    /\ \E s \in Signals, dry \in BOOLEAN :
         exec' = [exec EXCEPT ![e] = [@ EXCEPT
             !.signal = s,
             !.dry = dry,
             !.pc = IF OrdersOf(s) = {} THEN "auth" ELSE "done",
             !.status = IF OrdersOf(s) = {} THEN "none" ELSE "already_executed"]]
    /\ UNCHANGED <<stored, writer>>

\* Step 3: get_active_authorization.
ReadAuthorization(e) ==
    LET row == auth[exec[e].signal]
    IN  /\ exec[e].pc = "auth"
        /\ \/ /\ row.status = "active"
              /\ exec' = [exec EXCEPT ![e] = [@ EXCEPT !.pc = "approval", !.approval = row.approval]]
           \/ /\ row.status # "active"
              /\ exec' = [exec EXCEPT ![e] = [@ EXCEPT !.pc = "evidence", !.clear = FALSE]]
        /\ UNCHANGED <<stored, writer>>

\* Step 3, continued: the approval behind the authorization is read again.
ReadApproval(e) ==
    /\ exec[e].pc = "approval"
    /\ exec' = [exec EXCEPT ![e] = [@ EXCEPT
         !.pc = "evidence",
         !.clear = IF IsActive(exec[e].approval) THEN exec[e].clear ELSE FALSE]]
    /\ UNCHANGED <<stored, writer>>

\* Steps 2 and 4 to 9: verdicts, source trade, snapshot, depth, market, limits.
ReadEvidence(e) ==
    /\ exec[e].pc = "evidence"
    /\ exec' = [exec EXCEPT ![e] = [@ EXCEPT
         !.pc = "existing",
         !.clear = IF evidence[exec[e].signal] = "current" /\ LimitsConfigured
                   THEN exec[e].clear ELSE FALSE]]
    /\ UNCHANGED <<stored, writer>>

\* Step 10: an order of the signal ends the run, before any reason to block.
CheckExisting(e) ==
    /\ exec[e].pc = "existing"
    /\ \/ /\ OrdersOf(exec[e].signal) = {}
          /\ exec' = [exec EXCEPT ![e] = [@ EXCEPT !.pc = "exposure"]]
       \/ /\ OrdersOf(exec[e].signal) # {}
          /\ exec' = [exec EXCEPT ![e] = [@ EXCEPT !.pc = "close", !.status = "already_executed"]]
    /\ UNCHANGED <<stored, writer>>

\* _current_exposure: three SELECTs, wallet, market, then global.
NextScope(e) ==
    CASE exec[e].read = {}         -> "wallet"
      [] exec[e].read = {"wallet"} -> "market"
      [] OTHER                     -> "global"

ReadExposure(e) ==
    LET k       == NextScope(e)
        counted == {o \in Unsettled : Counts(k, exec[e].signal, o)}
    IN  /\ exec[e].pc = "exposure"
        /\ exec' = [exec EXCEPT ![e] = [@ EXCEPT
             !.read = exec[e].read \cup {k},
             !.seen = [exec[e].seen EXCEPT ![k] = counted],
             !.pc = IF k = "global" THEN "persist" ELSE "exposure"]]
        /\ UNCHANGED <<stored, writer>>

\* _persist_risk_decision, in the branch the checks select.  The INSERT opens
\* the transaction; it is the only statement of the block and dry-run branches.
Allowed(e) ==
    /\ exec[e].clear
    /\ exec[e].dry \/ (exec[e].signal \notin Thin /\ WithinLimits(e))

PersistDecision(e) ==
    /\ exec[e].pc = "persist"
    /\ writer = NoOne
    /\ writer' = e
    /\ exec' = [exec EXCEPT ![e] = [@ EXCEPT
         !.staged = IF Allowed(e) THEN "allow" ELSE "block",
         !.pc = IF Allowed(e) /\ ~exec[e].dry THEN "write" ELSE "close",
         !.status = CASE ~Allowed(e)               -> "blocked"
                      [] Allowed(e) /\ exec[e].dry -> "dry_run_allowed"
                      [] OTHER                     -> "none"]]
    /\ UNCHANGED stored

\* The rest of the transaction: order, fill, position and lot are inserted, the
\* authorization is consumed (whatever its status is by now) and all of it is
\* committed.  UNIQUE(paper_signal_decision_id) rejects a second order; the
\* handler then rolls back, the staged decision included.
WriteExecution(e) ==
    LET s == exec[e].signal
    IN  /\ exec[e].pc = "write"
        /\ writer' = NoOne
        /\ \/ /\ OrderIndexAdmits(s)
              /\ orders' = orders \cup {e}
              /\ decisions' = decisions \cup {<<e, "allow">>}
              /\ auth' = [auth EXCEPT ![s] = Consumed(@)]
              /\ exec' = [exec EXCEPT ![e] = [@ EXCEPT
                   !.pc = "done", !.staged = "none", !.status = "executed"]]
           \/ /\ ~OrderIndexAdmits(s)
              /\ exec' = [exec EXCEPT ![e] = [@ EXCEPT
                   !.pc = "done", !.staged = "none", !.status = "blocked"]]
              /\ UNCHANGED <<orders, decisions, auth>>
        /\ UNCHANGED <<approval, settlementVars, evidence, reviewer>>

\* The end of _cmd_execute, and the close of its connection in main.
CloseConnection(e) ==
    /\ exec[e].pc = "close"
    /\ exec' = [exec EXCEPT ![e] = [@ EXCEPT !.pc = "done", !.staged = "none"]]
    /\ decisions' = IF exec[e].staged # "none" /\ CommitsFor(exec[e].status)
                    THEN decisions \cup {<<e, exec[e].staged>>} ELSE decisions
    /\ writer' = LockAfter(e)
    /\ UNCHANGED <<approval, orders, settlementVars, auth, evidence, reviewer>>

\* The process dies, or gives up waiting for the write lock: SQLite drops its
\* transaction and releases the lock.
CrashExecution(e) ==
    /\ exec[e].pc \notin {"idle", "done"}
    /\ exec' = [exec EXCEPT ![e] = [@ EXCEPT
         !.pc = "done", !.staged = "none", !.status = "crashed"]]
    /\ writer' = LockAfter(e)
    /\ UNCHANGED stored

ProceedExecution(e) ==
    \/ ReadAuthorization(e)
    \/ ReadApproval(e)
    \/ ReadEvidence(e)
    \/ CheckExisting(e)
    \/ ReadExposure(e)
    \/ PersistDecision(e)
    \/ WriteExecution(e)
    \/ CloseConnection(e)

Execute(e) ==
    \/ StartExecution(e)
    \/ ProceedExecution(e)
    \/ CrashExecution(e)

SettleStep(t) ==
    /\ Settle(t)
    /\ UNCHANGED <<approval, orders, writer, auth, evidence, reviewer, exec, decisions>>

Next ==
    \/ ApprovalStep
    \/ \E s \in Volatile : EvidenceChanges(s)
    \/ \E r \in Reviewers : Review(r)
    \/ \E e \in Executions : Execute(e)
    \/ \E t \in Settlers : SettleStep(t)

Spec == SpineInit /\ [][Next]_vars

\* A started command keeps running: the interpreter executes its next
\* statement, and a waiter for the write lock polls until it is free.  Nothing
\* makes an operator start a command or an approval change.
Fairness ==
    /\ \A e \in Executions : WF_vars(ProceedExecution(e))
    /\ \A r \in Reviewers :
         WF_vars(SelectAuthorization(r) \/ InsertAuthorization(r) \/ RevokeAuthorization(r))
    /\ \A t \in Settlers : WF_vars((LookupSettlement(t) \/ InsertSettlement(t))
                                   /\ UNCHANGED <<orders, writer, exec>>
                                   /\ UNCHANGED <<approval, auth, evidence, reviewer, decisions>>)

LiveSpec == Spec /\ Fairness

-----------------------------------------------------------------------------
(* Properties.                                                             *)

SpineTypeOK ==
    /\ ApprovalTypeOK
    /\ SettlementTypeOK
    /\ auth \in [Signals -> AuthRow]
    /\ evidence \in [Signals -> EvidenceState]
    /\ reviewer \in [Reviewers -> ReviewerState]
    /\ exec \in [Executions -> ExecState]
    /\ decisions \subseteq Executions \X {"allow", "block"}

\* Exactly-once (module docstring of specialist_spine.py): two runs never leave
\* two orders for one signal, although each looks for an order long before it
\* writes.
OneOrderPerSignal ==
    \A o1, o2 \in orders : exec[o1].signal = exec[o2].signal => o1 = o2

\* An authorization is used exactly when its signal has an order: a crash or a
\* rejected write never burns one, an order never leaves one behind that could
\* admit another, and the order was made under that authorization's approval.
UsedIffOrdered ==
    \A s \in Signals :
        /\ auth[s].status = "used" <=> OrdersOf(s) # {}
        /\ \A o \in OrdersOf(s) : exec[o].approval = auth[s].approval

\* An order is only ever committed under an authorization that is active at
\* that moment, though it was read many steps before; used is final.
AuthorityAtCommit ==
    [][\A s \in Signals :
         /\ auth[s].status = "used" => auth'[s] = auth[s]
         /\ \A e \in orders' \ orders :
              exec[e].signal = s => auth[s].status = "active"]_vars

\* The interleaved commands, with their old reads, rollbacks and crashes, do to
\* authorizations, positions and settlements only what the commands would do
\* one after the other.
Lifecycle == INSTANCE SignalLifecycle WITH
    Positions <- Executions,
    authorization <- auth,
    position <- [s \in Signals |-> OrdersOf(s)],
    settled <- settledFlag

ImplementsLifecycle == Lifecycle!Spec

\* The audit trail of what was executed: a decision to allow is on record
\* exactly for the runs that placed an order, so no dry run, rejected write or
\* crash leaves one.
AllowedIffOrdered ==
    \A e \in Executions : <<e, "allow">> \in decisions <=> e \in orders

\* Positions of one scope, each of which was counted by the later of any two
\* runs, or was the later one itself: these runs did not overlap.
Serial(k, positions) ==
    \A a, b \in positions : a = b \/ a \in exec[b].seen[k] \/ b \in exec[a].seen[k]

ScopeOf(k, s) == {o \in Unsettled : Counts(k, s, o)}

\* The exposure limits hold of the positions of runs that did not overlap,
\* whatever settlements, crashes and refusals came between.
LimitsHoldWithoutOverlap ==
    \A k \in Scopes, s \in Signals :
        Serial(k, ScopeOf(k, s)) => Notional(ScopeOf(k, s)) <= MaxExposure[k]

\* settings.py says of max_per_market: "exposure per market".  The exposure of
\* a market counts the positions of every wallet in it.
MarketLimitHolds ==
    \A s \in Signals :
        LET inMarket == {o \in Unsettled : MarketOf[exec[o].signal] = MarketOf[s]}
        IN  Serial("global", inMarket) => Notional(inMarket) <= MaxExposure["market"]

\* Module docstring: every revalidation failure persists a blocked decision.
BlockedIsOnRecord ==
    \A e \in Executions :
        exec[e].pc = "done" /\ exec[e].status = "blocked" => <<e, "block">> \in decisions

\* manage_paper_signal_authorizations.py: an authorization may be revoked
\* before it is used.  A revocation that was not refused and did not crash
\* leaves the authorization unusable.
RevocationTakesEffect ==
    [][\A r \in Reviewers :
         reviewer[r].pc = "revoke" /\ reviewer'[r].pc = "idle" /\ reviewer'[r].exit # "none"
         => auth'[reviewer[r].signal].status \in {"revoked", "used"}]_vars

\* Every command that was started ends, those that wait for the write lock
\* included: a reviewer behind an execution's transaction gets its turn.
CommandsFinish ==
    /\ \A e \in Executions : exec[e].pc # "idle" ~> exec[e].pc = "done"
    /\ \A r \in Reviewers : reviewer[r].pc # "idle" ~> reviewer[r].pc = "idle"
    /\ \A t \in Settlers : settler[t].pc # "idle" ~> settler[t].pc = "idle"
=============================================================================
