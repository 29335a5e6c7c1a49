-------------------------- MODULE SpecialistDispatch --------------------------
(***************************************************************************)
(* The dispatcher: an approved wallet's source trade is enriched, checked  *)
(* against the approval's category and handed to the bridge, which leaves  *)
(* a candidate and a paper signal (engine/approved_specialist_dispatcher.py *)
(* with enrich_source_trade and process_approved_wallet_trades).           *)
(*                                                                         *)
(* One invocation of dispatch_one is a run.  Each of its steps ends in a   *)
(* commit of its own, and between two of them it waits for the network, so *)
(* other runs, the approval command and a crash come between.  Production  *)
(* writes hold the operational lock, a run on any other database does not; *)
(* nothing here relies on it.  attempt_count, which no code reads, is left *)
(* out.                                                                    *)
(***************************************************************************)
EXTENDS SpecialistApproval

CONSTANTS
    Trades,      \* BUY rows of source_trades for the approved wallet
    Categories,
    CategoryOf,  \* specialist_category of each approval
    Versions,    \* score decisions an evaluation may rest on
    Runs,        \* invocations of dispatch_one
    NoTrade, NoDecision, NoCategory

ASSUME DispatchAssumption ==
    /\ CategoryOf \in [Approvals -> Categories]
    /\ \A a, b \in Approvals : SlotOf[a] = SlotOf[b] => CategoryOf[a] = CategoryOf[b]
    /\ NoTrade \notin Trades
    /\ NoCategory \notin Categories

Verdicts == {"copy_candidate", "watchlist", "skip", "incomplete"}

Signal == [trade: Trades, version: Versions, verdict: Verdicts]

ASSUME SignalAssumption == NoDecision \notin Signal

VARIABLES
    enriched,    \* the trade's source_trade_enrichments row: its category, or
                 \* NoCategory when there is none or it is not complete
    dispatch,    \* approved_specialist_trade_dispatches, at most one row a pair
    candidates,  \* trades with a copy_candidates row
    signals,     \* paper_signal_decisions, by candidate and evidence
    run          \* what each run has read and is about to write

dispatchVars == <<approval, enriched, dispatch, candidates, signals, run>>

Statuses == {"none", "pending", "enrichment_incomplete", "ready_for_bridge",
             "bridge_complete", "execution_pending", "failed"}

Ended == {"enrichment_incomplete", "bridge_complete", "execution_pending", "failed"}

DispatchRow == [status: Statuses, candidate: BOOLEAN, signal: Signal \cup {NoDecision}]

NoRow == [status |-> "none", candidate |-> FALSE, signal |-> NoDecision]

RunState ==
    [pc: {"idle", "find", "create", "enrich", "enriched", "category", "inputs",
          "evaluate", "record", "done", "crashed"},
     approval: Approvals \cup {NoApproval},
     trade: Trades \cup {NoTrade},
     owns: BOOLEAN,                          \* it inserted the dispatch row
     category: Categories \cup {NoCategory}, \* what its own enrichment found
     candidate: BOOLEAN,
     signal: Signal \cup {NoDecision}]

FreshRun ==
    [pc |-> "idle", approval |-> NoApproval, trade |-> NoTrade, owns |-> FALSE,
     category |-> NoCategory, candidate |-> FALSE, signal |-> NoDecision]

DispatchInit ==
    /\ ApprovalInit
    /\ enriched = [t \in Trades |-> NoCategory]
    /\ dispatch = [x \in Approvals \X Trades |-> NoRow]
    /\ candidates = {}
    /\ signals = {}
    /\ run = [r \in Runs |-> FreshRun]

Pair(r) == <<run[r].approval, run[r].trade>>

FaultyDispatchIndexAdmits(x) == TRUE

\* UNIQUE(specialist_approval_id, source_trade_internal_id).
DispatchIndexAdmits(x) == dispatch[x].status = "none"

FaultyCategoryMatches(r) == TRUE

\* The category guard of dispatch_one.
CategoryMatches(r) == run[r].category = CategoryOf[run[r].approval]

\* How the bridge's report ends the dispatch.
FinalStatus(r) ==
    CASE run[r].signal = NoDecision -> "failed"
      [] run[r].signal # NoDecision /\ run[r].signal.verdict = "copy_candidate" -> "execution_pending"
      [] OTHER -> "bridge_complete"

At(r, pc) == run[r].pc = pc

Goto(r, pc) == run' = [run EXCEPT ![r] = [@ EXCEPT !.pc = pc]]

\* _set_dispatch: the UPDATE and its COMMIT.
SetDispatch(r, status) ==
    dispatch' = [dispatch EXCEPT ![Pair(r)] = [@ EXCEPT
        !.status = status,
        !.candidate = run[r].candidate,
        !.signal = run[r].signal]]

-----------------------------------------------------------------------------

\* _resolve_approval, and the trade: an exact one or the next undispatched one.
ResolveApproval(r) ==
    /\ At(r, "idle")
    /\ \E a \in Approvals, t \in Trades :
         run' = [run EXCEPT ![r] = [@ EXCEPT
             !.pc = IF IsActive(a) THEN "find" ELSE "done",
             !.approval = a,
             !.trade = t]]
    /\ UNCHANGED <<approval, enriched, dispatch, candidates, signals>>

\* A replay that resumes the row it finds.
FaultyFindDispatch(r) ==
    /\ At(r, "find")
    /\ Goto(r, IF DispatchIndexAdmits(Pair(r)) THEN "create" ELSE "enrich")
    /\ UNCHANGED <<approval, enriched, dispatch, candidates, signals>>

\* A row of the pair is returned as it stands, whatever its status; a dry run
\* or one without the write capability ends here too.
FindDispatch(r) ==
    /\ At(r, "find")
    /\ \/ Goto(r, "done")
       \/ DispatchIndexAdmits(Pair(r)) /\ Goto(r, "create")
    /\ UNCHANGED <<approval, enriched, dispatch, candidates, signals>>

\* _create_dispatch; an INSERT the index rejects raises out of the run.
CreateDispatch(r) ==
    /\ At(r, "create")
    /\ \/ /\ DispatchIndexAdmits(Pair(r))
          /\ dispatch' = [dispatch EXCEPT ![Pair(r)] = [NoRow EXCEPT !.status = "pending"]]
          /\ run' = [run EXCEPT ![r] = [@ EXCEPT !.pc = "enrich", !.owns = TRUE]]
       \/ /\ ~DispatchIndexAdmits(Pair(r))
          /\ Goto(r, "done")
          /\ UNCHANGED dispatch
    /\ UNCHANGED <<approval, enriched, candidates, signals>>

\* enrich_source_trade: one savepoint writes or updates the trade's row.  A
\* refused, failed or replayed enrichment leaves the row alone, whatever the
\* run makes of it.
EnrichTrade(r) ==
    LET t == run[r].trade
    IN  /\ At(r, "enrich")
        /\ \E found \in Categories \cup {NoCategory} :
             /\ run' = [run EXCEPT ![r] = [@ EXCEPT !.pc = "enriched", !.category = found]]
             /\ \/ enriched' = [enriched EXCEPT ![t] = found]
                \/ found = NoCategory /\ UNCHANGED enriched
        /\ UNCHANGED <<approval, dispatch, candidates, signals>>

\* enrichment_status_allows_dispatch decides between the two statuses.
RecordEnrichment(r) ==
    /\ At(r, "enriched")
    /\ \/ /\ run[r].category = NoCategory
          /\ SetDispatch(r, "enrichment_incomplete")
          /\ Goto(r, "done")
       \/ /\ run[r].category # NoCategory
          /\ SetDispatch(r, "ready_for_bridge")
          /\ Goto(r, "category")
    /\ UNCHANGED <<approval, enriched, candidates, signals>>

CheckCategory(r) ==
    /\ At(r, "category")
    /\ \/ /\ CategoryMatches(r)
          /\ Goto(r, "inputs")
          /\ UNCHANGED dispatch
       \/ /\ ~CategoryMatches(r)
          /\ SetDispatch(r, "failed")
          /\ Goto(r, "done")
    /\ UNCHANGED <<approval, enriched, candidates, signals>>

\* Phase A of process_approved_wallet_trades: the market, the book and the
\* checks on them, then one transaction with candidate, snapshot and levels.
\* Anything wrong on the way, and the row is skipped with nothing written.
PersistInputs(r) ==
    /\ At(r, "inputs")
    /\ \/ /\ candidates' = candidates \cup {run[r].trade}
          /\ run' = [run EXCEPT ![r] = [@ EXCEPT !.pc = "evaluate", !.candidate = TRUE]]
       \/ /\ Goto(r, "record")
          /\ UNCHANGED candidates
    /\ UNCHANGED <<approval, enriched, dispatch, signals>>

\* Phase B: the evaluator inserts the signal, or finds the one that rests on
\* the same evidence (UNIQUE(candidate_id, idempotency_key)); or it fails.
EvaluateCandidate(r) ==
    /\ At(r, "evaluate")
    /\ \/ \E s \in Signal :
             /\ s.trade = run[r].trade
             /\ signals' = signals \cup {s}
             /\ run' = [run EXCEPT ![r] = [@ EXCEPT !.pc = "record", !.signal = s]]
       \/ /\ Goto(r, "record")
          /\ UNCHANGED signals
    /\ UNCHANGED <<approval, enriched, dispatch, candidates>>

RecordBridge(r) ==
    /\ At(r, "record")
    /\ SetDispatch(r, FinalStatus(r))
    /\ Goto(r, "done")
    /\ UNCHANGED <<approval, enriched, candidates, signals>>

\* The process dies, or an exception leaves dispatch_one; every commit stays.
CrashRun(r) ==
    /\ run[r].pc \notin {"idle", "done", "crashed"}
    /\ Goto(r, "crashed")
    /\ UNCHANGED <<approval, enriched, dispatch, candidates, signals>>

Dispatch(r) ==
    \/ ResolveApproval(r)
    \/ FindDispatch(r)
    \/ CreateDispatch(r)
    \/ EnrichTrade(r)
    \/ RecordEnrichment(r)
    \/ CheckCategory(r)
    \/ PersistInputs(r)
    \/ EvaluateCandidate(r)
    \/ RecordBridge(r)
    \/ CrashRun(r)

DispatchNext ==
    \/ ManageApprovals /\ UNCHANGED <<enriched, dispatch, candidates, signals, run>>
    \/ \E r \in Runs : Dispatch(r)

DispatchSpec == DispatchInit /\ [][DispatchNext]_dispatchVars

-----------------------------------------------------------------------------

DispatchTypeOK ==
    /\ ApprovalTypeOK
    /\ enriched \in [Trades -> Categories \cup {NoCategory}]
    /\ dispatch \in [Approvals \X Trades -> DispatchRow]
    /\ candidates \subseteq Trades
    /\ signals \subseteq Signal
    /\ run \in [Runs -> RunState]

\* A pair is dispatched once: its row belongs to a single run, is open exactly
\* while that run is under way or after it crashed, and replays resume nothing.
OpenOnlyUnderItsRun ==
    \A x \in Approvals \X Trades :
        LET owners == {r \in Runs : run[r].owns /\ Pair(r) = x}
        IN  /\ \A p, q \in owners : p = q
            /\ dispatch[x].status # "none" <=> owners # {}
            /\ dispatch[x].status \in {"pending", "ready_for_bridge"} <=>
                  \E r \in owners : run[r].pc # "done"

\* Module docstring: replay never duplicates or reopens.  A row that reached an
\* end keeps it, and with it the signal the execution command resolves.
EndedDispatchIsFinal ==
    [][\A x \in Approvals \X Trades :
         dispatch[x].status \in Ended => dispatch'[x] = dispatch[x]]_dispatchVars

\* Every signal was minted by a run that owns its dispatch row and found the
\* approval's category by an enrichment of its own; no row names it only as
\* long as that run has not come to its end.
SignalsAccountedFor ==
    \A s \in signals : \E r \in Runs :
        /\ run[r].signal = s
        /\ run[r].owns
        /\ run[r].category = CategoryOf[run[r].approval]
        /\ dispatch[Pair(r)].signal = s \/ run[r].pc \in {"record", "crashed"}

\* Comment in _resolve_approval: a disabled or revoked approval "can never mint
\* a signal".
NoStaleSignal ==
    [][\A r \in Runs :
         run[r].signal = NoDecision /\ run'[r].signal # NoDecision
           => IsActive(run[r].approval)]_dispatchVars
=============================================================================
