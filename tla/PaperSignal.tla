----------------------------- MODULE PaperSignal -----------------------------
(***************************************************************************)
(* The evaluator of paper signals (scoring/paper_signal.py) over the       *)
(* database it shares with ingestion and resolution.  Two evaluators run   *)
(* it: the scan of the timer, which also stores shadow rows and registers  *)
(* exit tracks, and the decision-only evaluator of the approved-wallet     *)
(* bridge and the scoring pipeline.                                        *)
(*                                                                         *)
(* An evaluation is a sequence of separate SELECTs and of rows committed   *)
(* one by one, so trades settle and arrive between any two of its steps,   *)
(* the other evaluator writes in between, and a crash keeps the rows       *)
(* already committed.  A row's id stands for its unique key: a table is a  *)
(* set of rows with one row to a key.                                      *)
(***************************************************************************)
EXTENDS ScoringRules

CONSTANTS
    Evaluators,      \* {Scan} or {Scan, Bridge}
    Scan,            \* the evaluator with the default policy
    Candidates,      \* the candidates an instance may evaluate
    Scenarios,       \* the delay scenarios of a shadow row
    ExitTracks,      \* the canonical exit tracks
    Starts,          \* the statuses the trades may have at the start
    MaxChanges,      \* bound: trades that arrive or settle
    MaxExtra,        \* bound: evaluations other than the scan's
    MaxCrashes       \* bound

ASSUME ScanIsEvaluator == Scan \in Evaluators

VARIABLES
    candidate,       \* the one candidate in status PENDING_PRICE_CHECK
    status,          \* trade -> "absent", "open", "won", "lost"
    walletRows, categoryRows, tradeRows,   \* the score decision tables
    signals,         \* paper_signal_decisions
    shadows,         \* shadow rows, by scenario
    tracks,          \* <<signal key, exit track>> registrations
    ev,              \* evaluator -> its program counter and locals
    changes, extra, crashes

tables == <<walletRows, categoryRows, tradeRows, signals, shadows, tracks>>
vars == <<candidate, status, tables, ev, changes, extra, crashes>>

\* No evaluation: every local is still to be read.
Idle ==
    [pc |-> "idle", behavior |-> None, rows |-> None, label |-> None,
     walletKey |-> None, wallet |-> None, categoryKey |-> None,
     category |-> None, verdict |-> None, signal |-> None]

Init ==
    /\ candidate \in Candidates
    /\ status \in Starts
    /\ candidate.trade # None => status[candidate.trade] # "absent"
    /\ walletRows = {} /\ categoryRows = {} /\ tradeRows = {}
    /\ signals = {} /\ shadows = {} /\ tracks = {}
    /\ ev = [e \in Evaluators |-> Idle]
    /\ changes = 0 /\ extra = 0 /\ crashes = 0

-----------------------------------------------------------------------------
(* Rows and keys.                                                           *)

\* INSERT OR IGNORE ... RETURNING id, with the lookup of the existing row.
InsertOrIgnore(table, row) ==
    IF \E r \in table : r.key = row.key THEN table ELSE table \cup {row}

\* What a SELECT over the wallet's source trades returns: the stored trades
\* that are no later than the snapshot.
VisibleRows ==
    [t \in {u \in Trades : /\ status[u] # "absent"
                           /\ Trade[u].at <= candidate.cutoff} |-> status[t]]

\* A fingerprint that forgets how the trades ended.
FaultyWalletKey(rows) == DOMAIN rows

\* The fingerprint covers every fact of every row the evidence was read from.
WalletKey(rows) == rows

CategoryKey(label, rows) == <<label, rows>>

TradeKey == candidate.trade

\* An identity without the verdict and its reason.
FaultySignalKey(wallet, category, trade, verdict, reason) ==
    [wallet |-> wallet, category |-> category, trade |-> trade,
     verdict |-> None, reason |-> None]

\* The identity persist_paper_signal derives from the typed input.
SignalKey(wallet, category, trade, verdict, reason) ==
    [wallet |-> wallet, category |-> category, trade |-> trade,
     verdict |-> verdict, reason |-> reason]

SignalRow(wallet, category, trade, verdict, reason) ==
    [key |-> SignalKey(wallet, category, trade, verdict, reason),
     wallet |-> wallet, category |-> category, trade |-> trade,
     verdict |-> verdict]

CandidateLabel == Trade[candidate.trade].category

-----------------------------------------------------------------------------
(* The environment: ingestion and resolution of source trades.              *)

IngestTrade(t) ==
    /\ status[t] = "absent" /\ changes < MaxChanges
    /\ changes' = changes + 1
    /\ status' = [status EXCEPT ![t] = "open"]
    /\ UNCHANGED <<candidate, tables, ev, extra, crashes>>

SettleTrade(t) ==
    /\ status[t] = "open" /\ changes < MaxChanges
    /\ changes' = changes + 1
    /\ Trade[t].side = "BUY"
    /\ \E result \in {"won", "lost"} :
          status' = [status EXCEPT ![t] = result]
    /\ UNCHANGED <<candidate, tables, ev, extra, crashes>>

-----------------------------------------------------------------------------
(* One evaluation.                                                          *)

At(e, pc) == ev[e].pc = pc

\* The scan is started by its timer for ever, the others MaxExtra times.
Begin(e) ==
    /\ At(e, "idle")
    /\ e = Scan \/ extra < MaxExtra
    /\ extra' = IF e = Scan THEN extra ELSE extra + 1

\* Candidate, snapshot and trade are loaded; without a snapshot or a trade
\* an INCOMPLETE signal that names no decision is the whole evaluation.
MissingInput ==
    IF ~candidate.snapshot THEN "no_snapshot"
    ELSE IF candidate.trade = None THEN "no_source_trade" ELSE None

RejectIncomplete(e) ==
    LET row == SignalRow(None, None, None, "incomplete", MissingInput)
    IN  /\ Begin(e) /\ MissingInput # None
        /\ signals' = InsertOrIgnore(signals, row)
        /\ ev' = [ev EXCEPT ![e].pc = "report", ![e].signal = row.key,
                             ![e].verdict = "incomplete"]
        /\ UNCHANGED <<candidate, status, walletRows, categoryRows, tradeRows,
                       shadows, tracks, changes, crashes>>

\* Classify the behaviour from the trades up to the snapshot.
ReadBehavior(e) ==
    /\ Begin(e) /\ MissingInput = None
    /\ ev' = [ev EXCEPT ![e].pc = "wallet",
                         ![e].behavior = Behavior[DOMAIN VisibleRows]]
    /\ UNCHANGED <<candidate, status, tables, changes, crashes>>

\* resolve_wallet_score_v1 reads the trades three times: for the evidence,
\* for the dominant category, and for the evidence of that category.
ReadWalletEvidence(e) ==
    /\ At(e, "wallet")
    /\ ev' = [ev EXCEPT ![e].pc = "dominant", ![e].rows = VisibleRows]
    /\ UNCHANGED <<candidate, status, tables, changes, extra, crashes>>

ReadDominantCategory(e) ==
    /\ At(e, "dominant")
    /\ ev' = [ev EXCEPT ![e].pc = "persist wallet",
                         ![e].label = Dominant[VisibleRows]]
    /\ UNCHANGED <<candidate, status, tables, changes, extra, crashes>>

\* What the three reads amount to.
WalletOutcome(rows, label, categorySource) ==
    WalletResult(Evidence[rows],
                 IF label = None THEN None
                 ELSE Evidence[InCategory(categorySource, label)])

\* The third read, the score and the row, which is reused when its key is
\* already there: the result in hand is the new one either way.
PersistWallet(e) ==
    /\ At(e, "persist wallet")
    /\ \E result \in {WalletOutcome(ev[e].rows, ev[e].label, VisibleRows)},
          key \in {WalletKey(ev[e].rows)} :
          /\ walletRows' = InsertOrIgnore(walletRows,
                 [key |-> key, verdict |-> result.verdict, rows |-> ev[e].rows])
          /\ ev' = [ev EXCEPT ![e].pc = "category",
                               ![e].walletKey = key, ![e].wallet = result]
    /\ UNCHANGED <<candidate, status, categoryRows, tradeRows, signals,
                   shadows, tracks, changes, extra, crashes>>

\* No usable taxonomy: no category decision.
SkipCategory(e) ==
    /\ At(e, "category") /\ CandidateLabel = None
    /\ ev' = [ev EXCEPT ![e].pc = "trade"]
    /\ UNCHANGED <<candidate, status, tables, changes, extra, crashes>>

ReadCategoryEvidence(e) ==
    /\ At(e, "category") /\ CandidateLabel # None
    /\ ev' = [ev EXCEPT ![e].pc = "persist category",
                         ![e].rows = InCategory(VisibleRows, CandidateLabel)]
    /\ UNCHANGED <<candidate, status, tables, changes, extra, crashes>>

\* The wallet's overall count is one more read.  The row is guarded, the
\* result the evaluation goes on with is not.
PersistCategory(e) ==
    /\ At(e, "persist category")
    /\ \E evidence \in {Evidence[ev[e].rows]} :
       \E result \in {CategoryResult(evidence, Cardinality(Buys(VisibleRows)))} :
       \E key \in {CategoryKey(CandidateLabel, ev[e].rows)} :
          /\ categoryRows' = InsertOrIgnore(categoryRows,
                 [key |-> key, rows |-> ev[e].rows,
                  verdict |-> GuardCategory(result.verdict, evidence)])
          /\ ev' = [ev EXCEPT ![e].pc = "trade", ![e].categoryKey = key,
                               ![e].category = result]
    /\ UNCHANGED <<candidate, status, walletRows, tradeRows, signals,
                   shadows, tracks, changes, extra, crashes>>

PersistTrade(e) ==
    /\ At(e, "trade")
    /\ tradeRows' = InsertOrIgnore(tradeRows,
           [key |-> TradeKey, verdict |-> TradeResult(candidate).verdict])
    /\ ev' = [ev EXCEPT ![e].pc = IF e = Scan THEN "shadow" ELSE "signal",
                         ![e].rows = None]
    /\ UNCHANGED <<candidate, status, walletRows, categoryRows, signals,
                   shadows, tracks, changes, extra, crashes>>

\* One committed row per delay scenario; shadow scores never enter the verdict.
PersistShadow(e) ==
    /\ At(e, "shadow")
    /\ \/ Scenarios \subseteq shadows /\ UNCHANGED shadows
       \/ \E s \in Scenarios \ shadows : shadows' = shadows \cup {s}
    /\ ev' = [ev EXCEPT ![e].pc =
                 IF Scenarios \subseteq shadows' THEN "signal" ELSE "shadow"]
    /\ UNCHANGED <<candidate, status, walletRows, categoryRows, tradeRows,
                   signals, tracks, changes, extra, crashes>>

\* Exit tracks are for a COPY_CANDIDATE under the default policy.
NeedsTracks(e, verdict) == e = Scan /\ verdict = "copy_candidate"

PersistSignal(e) ==
    /\ At(e, "signal")
    /\ \E verdict \in {SignalVerdict(ev[e].wallet, ev[e].category,
                                     TradeResult(candidate), ev[e].behavior)} :
       \E row \in {SignalRow(ev[e].walletKey, ev[e].categoryKey, TradeKey,
                             verdict, IF ev[e].wallet.verdict = "incomplete"
                                      THEN "wallet_incomplete" ELSE "ok")} :
          /\ signals' = InsertOrIgnore(signals, row)
          /\ ev' = [ev EXCEPT ![e] =
                [Idle EXCEPT
                    !.pc = IF NeedsTracks(e, verdict) THEN "tracks" ELSE "report",
                    !.verdict = verdict, !.signal = row.key]]
    /\ UNCHANGED <<candidate, status, walletRows, categoryRows, tradeRows,
                   shadows, tracks, changes, extra, crashes>>

Registered(key) == {x \in ExitTracks : <<key, x>> \in tracks}

\* Registration that takes a signal with one track for a finished one.
FaultyTracksLeft(key) == IF Registered(key) = {} THEN ExitTracks ELSE {}

\* Every track is tried again on a signal that was there before: a crash may
\* have cut the earlier registration short.
TracksLeft(key) == ExitTracks \ Registered(key)

RegisterTrack(e) ==
    LET key == ev[e].signal
    IN  /\ At(e, "tracks")
        /\ \/ TracksLeft(key) = {} /\ UNCHANGED tracks
           \/ \E x \in TracksLeft(key) : tracks' = tracks \cup {<<key, x>>}
        /\ ev' = [ev EXCEPT ![e].pc =
                     IF \A x \in TracksLeft(key) : <<key, x>> \in tracks'
                     THEN "report" ELSE "tracks"]
        /\ UNCHANGED <<candidate, status, walletRows, categoryRows, tradeRows,
                       signals, shadows, changes, extra, crashes>>

Report(e) ==
    /\ At(e, "report")
    /\ ev' = [ev EXCEPT ![e] = Idle]
    /\ UNCHANGED <<candidate, status, tables, changes, extra, crashes>>

Crash(e) ==
    /\ ~At(e, "idle") /\ crashes < MaxCrashes
    /\ crashes' = crashes + 1
    /\ ev' = [ev EXCEPT ![e] = Idle]
    /\ UNCHANGED <<candidate, status, tables, changes, extra>>

Evaluate(e) ==
    \/ RejectIncomplete(e) \/ ReadBehavior(e) \/ ReadWalletEvidence(e)
    \/ ReadDominantCategory(e) \/ PersistWallet(e) \/ SkipCategory(e)
    \/ ReadCategoryEvidence(e) \/ PersistCategory(e) \/ PersistTrade(e)
    \/ PersistShadow(e) \/ PersistSignal(e) \/ RegisterTrack(e) \/ Report(e)

Next ==
    \/ \E t \in Trades : IngestTrade(t) \/ SettleTrade(t)
    \/ \E e \in Evaluators : Evaluate(e) \/ Crash(e)

\* The timer starts the scan again and again and a started scan proceeds.
Spec == Init /\ [][Next]_vars /\ WF_vars(Evaluate(Scan))

-----------------------------------------------------------------------------
(* Properties.                                                              *)

\* The verdict an evaluation reports, and on which it registers exit tracks,
\* is the verdict of the signal row it names, even when the row was there
\* before and trades changed between the reads of the evaluation.
ReportedVerdictStored ==
    \A e \in Evaluators : ev[e].pc \in {"tracks", "report"} =>
        \E s \in signals : s.key = ev[e].signal /\ s.verdict = ev[e].verdict

\* A COPY_CANDIDATE signal names a wallet decision whose own evidence passes
\* every wallet gate, a category decision whose own evidence passes every
\* category gate, and a trade decision that is not incomplete: no number
\* overrides missing evidence, and no row of older evidence stands in.
CopyRestsOnGates ==
    \A s \in signals : s.verdict = "copy_candidate" =>
        /\ \E w \in walletRows : /\ w.key = s.wallet
                                 /\ WalletEvidenceGates(Evidence[w.rows])
        /\ \E k \in categoryRows : /\ k.key = s.category
                                   /\ CategoryEvidenceGates(Evidence[k.rows])
        /\ \E t \in tradeRows : t.key = s.trade /\ t.verdict # "incomplete"

\* What an evaluation of the evidence as it stands would decide.
CurrentVerdict ==
    LET rows  == VisibleRows
        label == Dominant[rows]
        cat   == IF label = None THEN None ELSE Evidence[InCategory(rows, label)]
        own   == IF CandidateLabel = None THEN None
                 ELSE CategoryResult(Evidence[InCategory(rows, CandidateLabel)],
                                     Cardinality(Buys(rows)))
    IN  SignalVerdict(WalletResult(Evidence[rows], cat), own,
                      TradeResult(candidate), Behavior[DOMAIN rows])

\* A signal with the verdict of the evidence as it stands is stored, under
\* the wallet decision of that evidence, and a COPY_CANDIDATE has its tracks.
Settled ==
    IF MissingInput # None
    THEN \E s \in signals : s.verdict = "incomplete" /\ s.wallet = None
    ELSE LET rows == VisibleRows
             verdict == CurrentVerdict
         IN  \E s \in signals :
                /\ \E w \in walletRows : w.key = s.wallet /\ w.rows = rows
                /\ s.verdict = verdict
                /\ verdict = "copy_candidate" => Registered(s.key) = ExitTracks

\* Whatever arrives or settles while it runs, whatever crashes, and whoever
\* stored the signal first, the scan in the end stores the signal of the
\* final evidence and completes the exit tracks of a COPY_CANDIDATE.
EvaluationSettles == <>[]Settled

\* A signal with a verdict names no decision that is stored as INCOMPLETE.
NamedDecisionsComplete ==
    \A s \in signals : s.verdict # "incomplete" =>
        /\ \A w \in walletRows : w.key = s.wallet => w.verdict # "incomplete"
        /\ \A k \in categoryRows : k.key = s.category => k.verdict # "incomplete"

=============================================================================
