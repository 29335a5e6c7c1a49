-------------------------- MODULE PaperSignalProofs --------------------------
(***************************************************************************)
(* What the evaluator of paper signals guarantees for every set of trades, *)
(* evaluators and candidates, whatever thresholds the rules hold and       *)
(* whatever scores the weighted formulas give.  The reads of an evaluation *)
(* are of different moments, so the invariant never speaks of the trades   *)
(* as they are: it ties what an evaluation has in hand to the row it has   *)
(* committed, and a row to the evidence in its key.                        *)
(***************************************************************************)
EXTENDS PaperSignal, TLAPS

-----------------------------------------------------------------------------
(* The invariant.                                                          *)

\* Every evaluation has the same locals.
EvFits == DOMAIN ev = Evaluators /\ \A e \in Evaluators : DOMAIN ev[e] = DOMAIN Idle

\* A row's key tells its contents: that is why the row found in place of a new
\* one says the same.
KeysTell ==
    /\ \A w \in walletRows : w.key = WalletKey(w.rows)
    /\ \A k \in categoryRows : k.key[2] = k.rows
    /\ \A t \in tradeRows : t.key = TradeKey /\ t.verdict = TradeResult(candidate).verdict
    /\ \A s \in signals : s.key.verdict = s.verdict

\* The wallet decision an evaluation goes on with is stored, and its evidence
\* passes the gates when the result is a verdict.
WalletHeld(e) ==
    \E w \in walletRows :
        /\ w.key = ev[e].walletKey
        /\ ev[e].wallet.verdict # "incomplete" => WalletEvidenceGates(Evidence[w.rows])

\* The same of the category decision, when there is one.
CategoryHeld(e) ==
    \/ ev[e].category = None
    \/ \E k \in categoryRows :
          /\ k.key = ev[e].categoryKey
          /\ ev[e].category.verdict # "incomplete" =>
                CategoryEvidenceGates(Evidence[k.rows])

TradeHeld == \E t \in tradeRows : t.key = TradeKey

\* The signal row it names says what an evaluation is about to report.
SignalHeld(e) ==
    \E s \in signals : s.key = ev[e].signal /\ s.verdict = ev[e].verdict

\* What an evaluation has in hand at each of its steps.
HandFits(e) ==
    /\ ev[e].pc \in {"idle", "wallet", "dominant", "persist wallet", "category",
                     "persist category"} => ev[e].category = None
    /\ ev[e].pc \in {"category", "persist category", "trade", "shadow", "signal"}
         => WalletHeld(e)
    /\ ev[e].pc \in {"trade", "shadow", "signal"} => CategoryHeld(e)
    /\ ev[e].pc \in {"shadow", "signal"} => TradeHeld
    /\ ev[e].pc \in {"tracks", "report"} => SignalHeld(e)

SignalInv ==
    /\ EvFits
    /\ KeysTell
    /\ \A e \in Evaluators : HandFits(e)
    /\ CopyRestsOnGates

-----------------------------------------------------------------------------
(* Rows and results.                                                       *)

\* INSERT OR IGNORE loses no row, adds none but the given one, and leaves a row
\* of its key.
LEMMA InsertFacts ==
    ASSUME NEW table, NEW row
    PROVE  /\ table \subseteq InsertOrIgnore(table, row)
           /\ \A r \in InsertOrIgnore(table, row) : r \in table \/ r = row
           /\ \E r \in InsertOrIgnore(table, row) : r.key = row.key
BY DEF InsertOrIgnore

\* A wallet result that is not INCOMPLETE passed the wallet's gates.
LEMMA WalletResultGated ==
    ASSUME NEW evidence, NEW cat, WalletResult(evidence, cat).verdict # "incomplete"
    PROVE  WalletEvidenceGates(evidence)
BY DEF WalletResult, GuardWallet, Result

\* A category result that is not INCOMPLETE passed the category's gates.
LEMMA CategoryResultGated ==
    ASSUME NEW evidence, NEW overall, CategoryResult(evidence, overall).verdict # "incomplete"
    PROVE  CategoryEvidenceGates(evidence)
BY DEF CategoryResult, Result

\* The decision table gives COPY_CANDIDATE to complete decisions only.
LEMMA CopyNeedsAll ==
    ASSUME NEW wallet, NEW category, NEW trade, NEW behavior,
           SignalVerdict(wallet, category, trade, behavior) = "copy_candidate"
    PROVE  /\ wallet.verdict # "incomplete"
           /\ category # None /\ category.verdict # "incomplete"
           /\ trade.verdict # "incomplete"
BY DEF SignalVerdict

-----------------------------------------------------------------------------
(* What a step keeps.                                                      *)

\* No row of a table is lost and the candidate stays.
RowsStay ==
    /\ walletRows \subseteq walletRows' /\ categoryRows \subseteq categoryRows'
    /\ tradeRows \subseteq tradeRows' /\ signals \subseteq signals'
    /\ candidate' = candidate

\* While rows stay, an evaluation that does not step keeps what it has in hand.
LEMMA OthersKeepHands ==
    ASSUME NEW e, HandFits(e), RowsStay, ev'[e] = ev[e]
    PROVE  HandFits(e)'
BY DEF HandFits, WalletHeld, CategoryHeld, TradeHeld, SignalHeld, RowsStay, TradeKey

\* Of an old signal nothing that a copy rests on is lost; a new one has to show
\* its own.
LEMMA CopiesKeepGates ==
    ASSUME CopyRestsOnGates, RowsStay,
           \A s \in signals' \ signals : s.verdict = "copy_candidate" =>
              /\ \E w \in walletRows' : w.key = s.wallet /\ WalletEvidenceGates(Evidence[w.rows])
              /\ \E k \in categoryRows' :
                    k.key = s.category /\ CategoryEvidenceGates(Evidence[k.rows])
              /\ \E t \in tradeRows' : t.key = s.trade /\ t.verdict # "incomplete"
    PROVE  CopyRestsOnGates'
BY DEF CopyRestsOnGates, RowsStay, WalletEvidenceGates, CategoryEvidenceGates

\* One evaluator steps: its hands and the keys are what is left to show.
LEMMA OneSteps ==
    ASSUME SignalInv, NEW e \in Evaluators, RowsStay, KeysTell', EvFits',
           \A f \in Evaluators : f # e => ev'[f] = ev[f],
           HandFits(e)', CopyRestsOnGates'
    PROVE  SignalInv'
<1>1. \A f \in Evaluators : HandFits(f)'
  BY OthersKeepHands DEF SignalInv
<1> QED
  BY <1>1 DEF SignalInv


-----------------------------------------------------------------------------
(* The steps.                                                              *)

\* A step of one evaluator's own locals, tables untouched.
LEMMA HandsOnly ==
    ASSUME SignalInv, NEW e \in Evaluators, EvFits', HandFits(e)',
           \A f \in Evaluators : f # e => ev'[f] = ev[f],
           UNCHANGED <<candidate, tables>>
    PROVE  SignalInv'
<1>1. RowsStay /\ KeysTell' /\ CopyRestsOnGates'
  BY DEF SignalInv, RowsStay, KeysTell, TradeKey, CopyRestsOnGates, tables, WalletKey
<1> QED
  BY <1>1, OneSteps

\* Ingestion and resolution of trades change no row and no evaluation.
LEMMA EnvironmentKeeps ==
    ASSUME SignalInv, UNCHANGED <<candidate, tables, ev>>
    PROVE  SignalInv'
<1>1. RowsStay /\ KeysTell' /\ CopyRestsOnGates' /\ EvFits'
  BY DEF SignalInv, RowsStay, KeysTell, TradeKey, CopyRestsOnGates, tables, WalletKey, EvFits
<1>2. \A e \in Evaluators : HandFits(e)'
  BY <1>1, OthersKeepHands DEF SignalInv
<1> QED
  BY <1>1, <1>2 DEF SignalInv

\* An evaluation without its input leaves an INCOMPLETE signal, which it names.
LEMMA RejectIncompleteKeeps ==
    ASSUME SignalInv, NEW e \in Evaluators, RejectIncomplete(e)
    PROVE  SignalInv'
<1> DEFINE row == SignalRow(None, None, None, "incomplete", MissingInput)
<1>1. /\ signals' = InsertOrIgnore(signals, row)
      /\ UNCHANGED <<candidate, walletRows, categoryRows, tradeRows>>
      /\ ev' = [ev EXCEPT ![e].pc = "report", ![e].signal = row.key,
                          ![e].verdict = "incomplete"]
  BY DEF RejectIncomplete
<1>2. row.verdict = "incomplete" /\ row.key.verdict = "incomplete"
  BY DEF SignalRow, SignalKey
<1> HIDE DEF row
<1>3. /\ EvFits' /\ \A f \in Evaluators : f # e => ev'[f] = ev[f]
      /\ ev'[e].pc = "report" /\ ev'[e].signal = row.key /\ ev'[e].verdict = "incomplete"
  BY <1>1 DEF SignalInv, EvFits, Idle
<1>4. RowsStay /\ KeysTell'
  BY <1>1, <1>2, InsertFacts DEF SignalInv, RowsStay, KeysTell, TradeKey, WalletKey
<1>5. HandFits(e)'
  <2>1. PICK s \in signals' : s.key = row.key
    BY <1>1, InsertFacts
  <2>2. s.verdict = "incomplete"
    BY <1>2, <1>4, <2>1 DEF KeysTell
  <2>3. SignalHeld(e)'
    BY <1>3, <2>1, <2>2 DEF SignalHeld
  <2> QED
    BY <1>3, <2>3 DEF HandFits
<1>6. CopyRestsOnGates'
  <2>1. \A s \in signals' \ signals : s.verdict # "copy_candidate"
    BY <1>1, <1>2, InsertFacts
  <2> QED
    BY <1>4, <2>1, CopiesKeepGates DEF SignalInv
<1> QED
  BY <1>3, <1>4, <1>5, <1>6, OneSteps

\* The reads that come before any row.
LEMMA ReadsKeep ==
    ASSUME SignalInv, NEW e \in Evaluators,
           \/ ReadBehavior(e) \/ ReadWalletEvidence(e) \/ ReadDominantCategory(e)
           \/ ReadCategoryEvidence(e)
    PROVE  SignalInv'
<1> USE DEF SignalInv
<1>1. UNCHANGED <<candidate, tables>>
  BY DEF ReadBehavior, ReadWalletEvidence, ReadDominantCategory, ReadCategoryEvidence
<1>2. CASE ReadBehavior(e) \/ ReadWalletEvidence(e) \/ ReadDominantCategory(e)
  <2>1. /\ EvFits' /\ \A f \in Evaluators : f # e => ev'[f] = ev[f]
        /\ ev'[e].pc \in {"wallet", "dominant", "persist wallet"}
        /\ ev'[e].category = ev[e].category
        /\ ev[e].pc \in {"idle", "wallet", "dominant"}
    <3>1. CASE ReadBehavior(e)
      BY <3>1 DEF ReadBehavior, Begin, At, EvFits, Idle
    <3>2. CASE ReadWalletEvidence(e)
      BY <3>2 DEF ReadWalletEvidence, At, EvFits, Idle
    <3>3. CASE ReadDominantCategory(e)
      BY <3>3 DEF ReadDominantCategory, At, EvFits, Idle
    <3> QED
      BY <1>2, <3>1, <3>2, <3>3
  <2>2. HandFits(e)'
    BY <2>1 DEF HandFits
  <2> QED
    BY <1>1, <2>1, <2>2, HandsOnly
<1>3. CASE ReadCategoryEvidence(e)
  <2>1. /\ EvFits' /\ \A f \in Evaluators : f # e => ev'[f] = ev[f]
        /\ ev'[e].pc = "persist category" /\ ev[e].pc = "category"
        /\ ev'[e].category = ev[e].category
        /\ ev'[e].wallet = ev[e].wallet /\ ev'[e].walletKey = ev[e].walletKey
    BY <1>3 DEF ReadCategoryEvidence, At, EvFits, Idle
  <2>2. HandFits(e)'
    BY <1>1, <2>1 DEF HandFits, WalletHeld, tables
  <2> QED
    BY <1>1, <2>1, <2>2, HandsOnly
<1> QED
  BY <1>2, <1>3

\* The wallet row, new or found, has the evidence the result was computed from.
LEMMA PersistWalletKeeps ==
    ASSUME SignalInv, NEW e \in Evaluators, PersistWallet(e)
    PROVE  SignalInv'
<1> DEFINE result == WalletOutcome(ev[e].rows, ev[e].label, VisibleRows)
           key == WalletKey(ev[e].rows)
           row == [key |-> key, verdict |-> result.verdict, rows |-> ev[e].rows]
<1>1. /\ walletRows' = InsertOrIgnore(walletRows, row)
      /\ UNCHANGED <<candidate, categoryRows, tradeRows, signals>>
      /\ ev[e].pc = "persist wallet"
      /\ ev' = [ev EXCEPT ![e].pc = "category",
                          ![e].walletKey = key, ![e].wallet = result]
  BY DEF PersistWallet, At
<1>2. result.verdict # "incomplete" => WalletEvidenceGates(Evidence[ev[e].rows])
  BY WalletResultGated DEF WalletOutcome
<1>3. row.key = WalletKey(row.rows) /\ row.rows = ev[e].rows /\ row.key = key
  OBVIOUS
<1> HIDE DEF result, row
<1>4. /\ EvFits' /\ \A f \in Evaluators : f # e => ev'[f] = ev[f]
      /\ ev'[e].pc = "category" /\ ev'[e].walletKey = key /\ ev'[e].wallet = result
      /\ ev'[e].category = ev[e].category
  BY <1>1 DEF SignalInv, EvFits, Idle
<1>5. RowsStay /\ KeysTell'
  BY <1>1, <1>3, InsertFacts DEF SignalInv, RowsStay, KeysTell, TradeKey
<1>6. WalletHeld(e)'
  <2>1. PICK w \in walletRows' : w.key = row.key
    BY <1>1, InsertFacts
  <2>2. w.rows = ev[e].rows
    BY <1>3, <1>5, <2>1 DEF KeysTell, WalletKey
  <2> QED
    BY <1>2, <1>3, <1>4, <2>1, <2>2 DEF WalletHeld, WalletEvidenceGates
<1>7. HandFits(e)'
  BY <1>1, <1>4, <1>6 DEF SignalInv, HandFits
<1>8. CopyRestsOnGates'
  BY <1>1, <1>5, CopiesKeepGates DEF SignalInv
<1> QED
  BY <1>4, <1>5, <1>7, <1>8, OneSteps

\* Without a usable category there is no category decision.
LEMMA SkipCategoryKeeps ==
    ASSUME SignalInv, NEW e \in Evaluators, SkipCategory(e)
    PROVE  SignalInv'
<1>1. /\ EvFits' /\ \A f \in Evaluators : f # e => ev'[f] = ev[f]
      /\ ev'[e].pc = "trade" /\ ev[e].pc = "category"
      /\ ev'[e].category = ev[e].category
      /\ ev'[e].wallet = ev[e].wallet /\ ev'[e].walletKey = ev[e].walletKey
      /\ UNCHANGED <<candidate, tables>>
  BY DEF SkipCategory, At, SignalInv, EvFits, Idle
<1>2. HandFits(e)'
  BY <1>1 DEF SignalInv, HandFits, WalletHeld, CategoryHeld, tables
<1> QED
  BY <1>1, <1>2, HandsOnly

\* The category row, new or found, has the evidence the result was computed
\* from; the guard only changes the verdict that is stored.
LEMMA PersistCategoryKeeps ==
    ASSUME SignalInv, NEW e \in Evaluators, PersistCategory(e)
    PROVE  SignalInv'
<1> DEFINE evidence == Evidence[ev[e].rows]
           result == CategoryResult(evidence, Cardinality(Buys(VisibleRows)))
           key == CategoryKey(CandidateLabel, ev[e].rows)
           row == [key |-> key, rows |-> ev[e].rows,
                   verdict |-> GuardCategory(result.verdict, evidence)]
<1>1. /\ categoryRows' = InsertOrIgnore(categoryRows, row)
      /\ UNCHANGED <<candidate, walletRows, tradeRows, signals>>
      /\ ev[e].pc = "persist category"
      /\ ev' = [ev EXCEPT ![e].pc = "trade", ![e].categoryKey = key,
                          ![e].category = result]
  BY DEF PersistCategory, At
<1>2. result.verdict # "incomplete" => CategoryEvidenceGates(evidence)
  BY CategoryResultGated
<1>3. row.key[2] = ev[e].rows /\ row.rows = ev[e].rows /\ row.key = key
  BY DEF CategoryKey
<1> HIDE DEF result, row, key
<1>4. /\ EvFits' /\ \A f \in Evaluators : f # e => ev'[f] = ev[f]
      /\ ev'[e].pc = "trade" /\ ev'[e].categoryKey = key /\ ev'[e].category = result
      /\ ev'[e].wallet = ev[e].wallet /\ ev'[e].walletKey = ev[e].walletKey
  BY <1>1 DEF SignalInv, EvFits, Idle
<1>5. RowsStay /\ KeysTell'
  BY <1>1, <1>3, InsertFacts DEF SignalInv, RowsStay, KeysTell, TradeKey
<1>6. CategoryHeld(e)'
  <2>1. PICK k \in categoryRows' : k.key = row.key
    BY <1>1, InsertFacts
  <2>2. k.rows = ev[e].rows
    BY <1>3, <1>5, <2>1 DEF KeysTell
  <2> QED
    BY <1>2, <1>3, <1>4, <2>1, <2>2 DEF CategoryHeld, CategoryEvidenceGates
<1>7. HandFits(e)'
  BY <1>1, <1>4, <1>6 DEF SignalInv, HandFits, WalletHeld
<1>8. CopyRestsOnGates'
  BY <1>1, <1>5, CopiesKeepGates DEF SignalInv
<1> QED
  BY <1>4, <1>5, <1>7, <1>8, OneSteps

\* The trade row is the one its candidate has.
LEMMA PersistTradeKeeps ==
    ASSUME SignalInv, NEW e \in Evaluators, PersistTrade(e)
    PROVE  SignalInv'
<1> DEFINE row == [key |-> TradeKey, verdict |-> TradeResult(candidate).verdict]
<1>1. /\ tradeRows' = InsertOrIgnore(tradeRows, row)
      /\ UNCHANGED <<candidate, walletRows, categoryRows, signals>>
      /\ ev[e].pc = "trade"
      /\ ev' = [ev EXCEPT ![e].pc = IF e = Scan THEN "shadow" ELSE "signal",
                          ![e].rows = None]
  BY DEF PersistTrade, At
<1>2. row.key = TradeKey /\ row.verdict = TradeResult(candidate).verdict
  OBVIOUS
<1> HIDE DEF row
<1>3. /\ EvFits' /\ \A f \in Evaluators : f # e => ev'[f] = ev[f]
      /\ ev'[e].pc \in {"shadow", "signal"}
      /\ ev'[e].category = ev[e].category /\ ev'[e].categoryKey = ev[e].categoryKey
      /\ ev'[e].wallet = ev[e].wallet /\ ev'[e].walletKey = ev[e].walletKey
  BY <1>1 DEF SignalInv, EvFits, Idle
<1>4. TradeKey' = TradeKey /\ TradeResult(candidate)' = TradeResult(candidate)
  BY <1>1 DEF TradeKey
<1>5. RowsStay /\ KeysTell'
  BY <1>1, <1>2, <1>4, InsertFacts DEF SignalInv, RowsStay, KeysTell, WalletKey
<1>6. HandFits(e)'
  <2>1. TradeHeld'
    <3>1. \E t \in tradeRows' : t.key = row.key
      BY <1>1, InsertFacts
    <3> QED
      BY <1>2, <1>4, <3>1 DEF TradeHeld
  <2>2. WalletHeld(e) /\ CategoryHeld(e)
    BY <1>1 DEF SignalInv, HandFits, CategoryHeld
  <2>3. WalletHeld(e)' /\ CategoryHeld(e)'
    BY <1>1, <1>3, <2>2 DEF WalletHeld, CategoryHeld
  <2> QED
    BY <1>3, <2>1, <2>3 DEF HandFits
<1>7. CopyRestsOnGates'
  BY <1>1, <1>5, CopiesKeepGates DEF SignalInv
<1> QED
  BY <1>3, <1>5, <1>6, <1>7, OneSteps

\* Shadow rows enter nothing.
LEMMA PersistShadowKeeps ==
    ASSUME SignalInv, NEW e \in Evaluators, PersistShadow(e)
    PROVE  SignalInv'
<1>1. /\ EvFits' /\ \A f \in Evaluators : f # e => ev'[f] = ev[f]
      /\ ev'[e].pc \in {"shadow", "signal"} /\ ev[e].pc = "shadow"
      /\ ev'[e].category = ev[e].category /\ ev'[e].categoryKey = ev[e].categoryKey
      /\ ev'[e].wallet = ev[e].wallet /\ ev'[e].walletKey = ev[e].walletKey
      /\ UNCHANGED <<candidate, walletRows, categoryRows, tradeRows, signals>>
  BY DEF PersistShadow, At, SignalInv, EvFits, Idle
<1>2. RowsStay /\ KeysTell' /\ CopyRestsOnGates'
  BY <1>1 DEF SignalInv, RowsStay, KeysTell, TradeKey, CopyRestsOnGates, WalletKey
<1>3. HandFits(e)'
  BY <1>1 DEF SignalInv, HandFits, WalletHeld, CategoryHeld, TradeHeld, TradeKey
<1> QED
  BY <1>1, <1>2, <1>3, OneSteps

\* A signal names the rows in hand; the row found in its place has its key, and
\* with the key its verdict.
LEMMA PersistSignalKeeps ==
    ASSUME SignalInv, NEW e \in Evaluators, PersistSignal(e)
    PROVE  SignalInv'
<1> DEFINE verdict == SignalVerdict(ev[e].wallet, ev[e].category,
                                    TradeResult(candidate), ev[e].behavior)
           row == SignalRow(ev[e].walletKey, ev[e].categoryKey, TradeKey, verdict,
                            IF ev[e].wallet.verdict = "incomplete"
                            THEN "wallet_incomplete" ELSE "ok")
<1>1. /\ signals' = InsertOrIgnore(signals, row)
      /\ UNCHANGED <<candidate, walletRows, categoryRows, tradeRows>>
      /\ ev[e].pc = "signal"
      /\ ev' = [ev EXCEPT ![e] =
                   [Idle EXCEPT
                       !.pc = IF NeedsTracks(e, verdict) THEN "tracks" ELSE "report",
                       !.verdict = verdict, !.signal = row.key]]
  BY DEF PersistSignal, At
<1>2. /\ row.verdict = verdict /\ row.key.verdict = verdict
      /\ row.wallet = ev[e].walletKey /\ row.category = ev[e].categoryKey
      /\ row.trade = TradeKey
  BY DEF SignalRow, SignalKey
<1>3. verdict = "copy_candidate" =>
         /\ ev[e].wallet.verdict # "incomplete"
         /\ ev[e].category # None /\ ev[e].category.verdict # "incomplete"
         /\ TradeResult(candidate).verdict # "incomplete"
  BY CopyNeedsAll
<1> HIDE DEF verdict, row
<1>4. /\ EvFits' /\ \A f \in Evaluators : f # e => ev'[f] = ev[f]
      /\ ev'[e].pc \in {"tracks", "report"} /\ ev'[e].signal = row.key
      /\ ev'[e].verdict = verdict
  BY <1>1 DEF SignalInv, EvFits, Idle
<1>5. RowsStay /\ KeysTell'
  BY <1>1, <1>2, InsertFacts DEF SignalInv, RowsStay, KeysTell, TradeKey, WalletKey
<1>6. HandFits(e)'
  <2>1. PICK s \in signals' : s.key = row.key
    BY <1>1, InsertFacts
  <2>2. s.verdict = verdict
    BY <1>2, <1>5, <2>1 DEF KeysTell
  <2> QED
    BY <1>4, <2>1, <2>2 DEF HandFits, SignalHeld
<1>7. CopyRestsOnGates'
  <2>1. ASSUME verdict = "copy_candidate"
        PROVE  /\ \E w \in walletRows' :
                     w.key = row.wallet /\ WalletEvidenceGates(Evidence[w.rows])
               /\ \E k \in categoryRows' :
                     k.key = row.category /\ CategoryEvidenceGates(Evidence[k.rows])
               /\ \E t \in tradeRows' : t.key = row.trade /\ t.verdict # "incomplete"
    <3>1. WalletHeld(e) /\ CategoryHeld(e) /\ TradeHeld
      BY <1>1 DEF SignalInv, HandFits
    <3>2. \A t \in tradeRows : t.verdict = TradeResult(candidate).verdict
      BY DEF SignalInv, KeysTell
    <3> QED
      BY <1>1, <1>2, <1>3, <2>1, <3>1, <3>2 DEF WalletHeld, CategoryHeld, TradeHeld
  <2>2. \A s \in signals' \ signals : s = row
    BY <1>1, InsertFacts
  <2> QED
    BY <1>2, <1>5, <2>1, <2>2, CopiesKeepGates DEF SignalInv
<1> QED
  BY <1>4, <1>5, <1>6, <1>7, OneSteps

\* Registering tracks leaves the signal that is reported.
LEMMA RegisterTrackKeeps ==
    ASSUME SignalInv, NEW e \in Evaluators, RegisterTrack(e)
    PROVE  SignalInv'
<1>1. /\ EvFits' /\ \A f \in Evaluators : f # e => ev'[f] = ev[f]
      /\ ev'[e].pc \in {"tracks", "report"} /\ ev[e].pc = "tracks"
      /\ ev'[e].signal = ev[e].signal /\ ev'[e].verdict = ev[e].verdict
      /\ UNCHANGED <<candidate, walletRows, categoryRows, tradeRows, signals>>
  BY DEF RegisterTrack, At, SignalInv, EvFits, Idle
<1>2. RowsStay /\ KeysTell' /\ CopyRestsOnGates'
  BY <1>1 DEF SignalInv, RowsStay, KeysTell, TradeKey, CopyRestsOnGates, WalletKey
<1>3. HandFits(e)'
  BY <1>1 DEF SignalInv, HandFits, SignalHeld
<1> QED
  BY <1>1, <1>2, <1>3, OneSteps

\* The end of an evaluation, and a crash, leave rows and no hands.
LEMMA EndKeeps ==
    ASSUME SignalInv, NEW e \in Evaluators, Report(e) \/ Crash(e)
    PROVE  SignalInv'
<1>1. /\ EvFits' /\ \A f \in Evaluators : f # e => ev'[f] = ev[f]
      /\ ev'[e].pc = "idle" /\ ev'[e].category = None
      /\ UNCHANGED <<candidate, tables>>
  BY DEF Report, Crash, SignalInv, EvFits, Idle
<1>2. HandFits(e)'
  BY <1>1 DEF HandFits
<1> QED
  BY <1>1, <1>2, HandsOnly

-----------------------------------------------------------------------------
(* The results.                                                            *)

\* Keys tell contents and evaluations hold what they have committed: the
\* invariant behind the two results.
THEOREM SignalInvariant == Spec => []SignalInv
<1>1. Init => SignalInv
  <2> SUFFICES ASSUME Init PROVE SignalInv
    OBVIOUS
  <2>1. EvFits /\ \A e \in Evaluators : ev[e].pc = "idle" /\ ev[e].category = None
    BY DEF Init, EvFits, Idle
  <2>2. \A e \in Evaluators : HandFits(e)
    BY <2>1 DEF HandFits
  <2>3. KeysTell /\ CopyRestsOnGates
    BY DEF Init, KeysTell, CopyRestsOnGates
  <2> QED
    BY <2>1, <2>2, <2>3 DEF SignalInv
<1>2. SignalInv /\ [Next]_vars => SignalInv'
  <2> SUFFICES ASSUME SignalInv, [Next]_vars PROVE SignalInv'
    OBVIOUS
  <2>1. ASSUME NEW t \in Trades, IngestTrade(t) \/ SettleTrade(t) PROVE SignalInv'
    BY <2>1, EnvironmentKeeps DEF IngestTrade, SettleTrade
  <2>2. ASSUME NEW e \in Evaluators, Evaluate(e) PROVE SignalInv'
    BY <2>2, RejectIncompleteKeeps, ReadsKeep, PersistWalletKeeps, SkipCategoryKeeps,
       PersistCategoryKeeps, PersistTradeKeeps, PersistShadowKeeps, PersistSignalKeeps,
       RegisterTrackKeeps, EndKeeps
       DEF Evaluate
  <2>3. ASSUME NEW e \in Evaluators, Crash(e) PROVE SignalInv'
    BY <2>3, EndKeeps
  <2>4. CASE UNCHANGED vars
    BY <2>4, EnvironmentKeeps DEF vars
  <2> QED
    BY <2>1, <2>2, <2>3, <2>4 DEF Next
<1> QED
  BY <1>1, <1>2, PTL DEF Spec

\* The verdict an evaluation reports is the one of the row it names, also when
\* the row was another evaluator's.
THEOREM ReportsStoredVerdict == Spec => []ReportedVerdictStored
<1>1. SignalInv => ReportedVerdictStored
  BY DEF SignalInv, HandFits, SignalHeld, ReportedVerdictStored
<1> QED
  BY <1>1, SignalInvariant, PTL

\* A COPY_CANDIDATE rests on rows whose own evidence passes every gate.
THEOREM CopiesRestOnGates == Spec => []CopyRestsOnGates
<1>1. SignalInv => CopyRestsOnGates
  BY DEF SignalInv
<1> QED
  BY <1>1, SignalInvariant, PTL
=============================================================================
