--------------------------- MODULE MarketTruthProofs ---------------------------
(***************************************************************************)
(* What the outcome of a source trade is worth, for every number of trades *)
(* and markets, every run of corrections by Gamma and every interleaving   *)
(* of the three commands with the ingestion.  The invariant follows the    *)
(* connection of the running command ahead of the database: it never       *)
(* rewrites a verdict, it gives the trades of one market one winner, and   *)
(* what it holds back of a market is that market's whole settlement.       *)
(***************************************************************************)
EXTENDS MarketTruth, FiniteSetTheorems, TLAPS

USE TruthAssumption

-----------------------------------------------------------------------------
(* Types.                                                                  *)

Statuses == {"unresolved", "missing_winning_token", "ambiguous", "resolved"} \cup Failures

Winners == {None} \cup UNION {{Outcomes[m][i].token : i \in DOMAIN Outcomes[m]} : m \in Markets}

Verdict ==
    [status: {"unresolved", "won", "lost", "unknown", "ambiguous"},
     winner: Winners,
     by: {None, "refresh", "resolver", "backfill"}]

StateRow ==
    [status: Statuses \cup {None}, conflict: BOOLEAN, attempts: Nat, wait: Nat \cup {Never}]

MarketRow == [resolved: BOOLEAN, label: STRING \cup {None}, winner: Winners]

Database ==
    [trades: UNION {[S -> Verdict] : S \in SUBSET Trades},
     state: [Markets -> StateRow],
     before: SUBSET (Markets \X Markets),
     market: [Markets -> MarketRow]]

Answer == [status: Statuses, winner: Winners]

JobState ==
    [kind: {"idle", "refresh", "resolver", "backfill"},
     pc: {"idle", "ask", "settle", "conflict", "book", "truth", "trades"},
     todo: SUBSET Markets,
     market: Markets \cup {None},
     rows: SUBSET Trades,
     answer: Answer \cup {None},
     plan: SUBSET (Trades \X Verdict),
     read: [Markets -> SUBSET Trades]]

TruthTypeOK ==
    /\ declared \in [Markets -> Nat] /\ \A m \in Markets : declared[m] <= Len(Declares[m])
    /\ db \in Database /\ work \in Database
    /\ tx \in BOOLEAN
    /\ job \in JobState
    /\ commands \in Nat /\ faults \in Nat

-----------------------------------------------------------------------------
(* The invariant.                                                          *)

\* The trades of market m that the running refresh has settled, as long as
\* they are not committed.
HeldBack(m) == {t \in RowsOf(db, m) \cap Unsettled(db) : work.trades[t].by = "refresh"}

\* Only the refresh signs a verdict as its own, for trades it may settle.
Signed(d) ==
    \A t \in DOMAIN d.trades :
        d.trades[t].by = "refresh" => d.trades[t].status # "unresolved" /\ t \in Eligible

\* The refresh has settled the trades of one market to one winner.
OneWinner(d) ==
    \A t, u \in DOMAIN d.trades :
        MarketOf[t] = MarketOf[u] /\ d.trades[t].by = "refresh" /\ d.trades[u].by = "refresh"
        => d.trades[t].winner = d.trades[u].winner

\* The running command knows every trade, and has left the settled ones alone.
WorkExtends ==
    /\ DOMAIN work.trades = DOMAIN db.trades
    /\ \A t \in DOMAIN db.trades :
         db.trades[t].status # "unresolved" => work.trades[t] = db.trades[t]

\* What the refresh has still to do for the market it is at, or has done.
RefreshFits ==
    /\ job.pc \in {"settle", "conflict", "book"} => job.kind = "refresh"
    /\ job.kind = "refresh" => job.pc \in {"ask", "settle", "conflict", "book"}
    /\ job.pc = "ask" => job.market = None
    /\ job.pc \in {"settle", "conflict", "book"} => job.market \in job.todo
    /\ job.pc \in {"conflict", "book"} => HeldBack(job.market) = {}
    /\ job.pc = "book" => job.answer \in Answer /\ job.answer.status # "resolved"
    /\ job.pc = "settle" =>
         /\ job.answer \in Answer
         /\ job.rows \subseteq RowsOf(work, job.market) \cap Eligible \cap Unsettled(work)
         /\ \A t \in job.read[job.market] \ job.rows :
              t \in DOMAIN work.trades /\ work.trades[t].status # "unresolved"
         /\ \A t \in RowsOf(work, job.market) :
              work.trades[t].by = "refresh" => work.trades[t].winner = job.answer.winner

\* A market the refresh has not come to is untouched; one it has left behind
\* is untouched, or settled and marked as done together.
MarketsWhole ==
    \A m \in Markets :
        /\ m \in job.todo \/ job.kind # "refresh" => work.state[m] = db.state[m]
        /\ (m \in job.todo /\ m # job.market) \/ job.kind # "refresh" => HeldBack(m) = {}
        /\ m \notin job.todo /\ (HeldBack(m) # {} \/ (Clean(work.state[m]) /\ ~Clean(db.state[m]))) =>
             /\ Clean(work.state[m])
             /\ \A t \in job.read[m] :
                  t \in DOMAIN work.trades /\ work.trades[t].status # "unresolved"

\* What the resolver and the backfill plan to write is not signed by the
\* refresh, and the backfill writes what it has just read.
PlanFits ==
    /\ \A x \in job.plan : x[2].by # "refresh"
    /\ job.pc = "trades" =>
         /\ job.kind = "backfill"
         /\ \A x \in job.plan : x[1] \in Unsettled(work)

MarketInv ==
    /\ TruthTypeOK
    /\ Signed(db) /\ Signed(work)
    /\ OneWinner(db) /\ OneWinner(work)
    /\ WorkExtends
    /\ RefreshFits
    /\ MarketsWhole
    /\ PlanFits

-----------------------------------------------------------------------------
(* What the model's operators return.                                      *)

\* The trades of a database are a function into verdicts.
LEMMA TradesTyped ==
    ASSUME NEW d \in Database
    PROVE  d.trades \in [DOMAIN d.trades -> Verdict] /\ DOMAIN d.trades \subseteq Trades
<1>1. PICK S \in SUBSET Trades : d.trades \in [S -> Verdict]
    BY DEF Database
<1> QED BY <1>1

\* A settlement is a final verdict with the given winner and source.
LEMMA SettlementIsVerdict ==
    ASSUME NEW t, NEW winner \in Winners, NEW by \in {"refresh", "resolver", "backfill"}
    PROVE  /\ Settlement(t, winner, by) \in Verdict
           /\ Settlement(t, winner, by).status # "unresolved"
           /\ Settlement(t, winner, by).winner = winner
           /\ Settlement(t, winner, by).by = by
BY DEF Settlement, Verdict

\* A stored trade starts without a verdict.
LEMMA OpenIsUnsigned ==
    Open \in Verdict /\ Open.status = "unresolved" /\ Open.by # "refresh"
BY DEF Open, Verdict, Winners

\* Gamma shows a label or none.
LEMMA GammaTyped ==
    ASSUME TruthTypeOK, NEW m \in Markets
    PROVE  Gamma(m) \in STRING \cup {None}
<1>1. declared[m] \in Nat /\ declared[m] <= Len(Declares[m]) /\ Declares[m] \in Seq(STRING)
    BY DEF TruthTypeOK
<1>2. CASE declared[m] = 0
    BY <1>2 DEF Gamma
<1>3. CASE declared[m] # 0
    <2>1. declared[m] \in 1 .. Len(Declares[m])
        BY <1>1, <1>3
    <2>2. Declares[m][declared[m]] \in STRING
        BY <1>1, <2>1
    <2> QED BY <1>3, <2>2 DEF Gamma
<1> QED BY <1>2, <1>3

\* An answer has a status and, if it is resolved, one of the market's tokens.
LEMMA AnswersTyped ==
    ASSUME TruthTypeOK, NEW m \in Markets, NEW answer \in Answers(m)
    PROVE  answer \in Answer
<1>1. CASE \E s \in Failures : answer = [status |-> s, winner |-> None]
    BY <1>1 DEF Answer, Statuses, Winners
<1>2. CASE answer = TruthOf(m, Gamma(m))
    <2> DEFINE named == LabelledBy(m, Gamma(m))
    <2>1. named \subseteq DOMAIN Outcomes[m]
        BY DEF LabelledBy
    <2>2. named # {} => (CHOOSE i \in named : TRUE) \in named
        OBVIOUS
    <2>3. named # {} => Outcomes[m][CHOOSE i \in named : TRUE].token \in Winners
        <3>1. \A i \in DOMAIN Outcomes[m] : Outcomes[m][i].token \in Winners
            BY DEF Winners
        <3> HIDE DEF named
        <3> QED BY <2>1, <2>2, <3>1
    <2>4. None \in Winners
        BY DEF Winners
    <2> HIDE DEF named
    <2> QED BY <1>2, <2>3, <2>4 DEF TruthOf, Answer, Statuses, named
<1> QED BY <1>1, <1>2 DEF Answers

\* The bookkeeping changes the state of its market, to the given status.
LEMMA BookedFits ==
    ASSUME NEW d \in Database, NEW m \in Markets, NEW status \in Statuses,
           NEW conflict \in BOOLEAN
    PROVE  /\ Booked(d, m, status, conflict) \in Database
           /\ Booked(d, m, status, conflict).trades = d.trades
           /\ \A k \in Markets \ {m} : Booked(d, m, status, conflict).state[k] = d.state[k]
           /\ Clean(Booked(d, m, status, conflict).state[m]) <=> status = "resolved" /\ ~conflict
<1> DEFINE prior == d.state[m]
           now == [status |-> status, conflict |-> conflict]
           attempts == Attempts(prior, now)
           wait == IF Clean(now) \/ (Failure(now) /\ attempts = MaxAttempts) THEN Never
                   ELSE IF status = "unavailable" THEN UnavailableDays ELSE RetryDays
           row == [status |-> status, conflict |-> conflict, attempts |-> attempts,
                   wait |-> wait]
           before == (d.before \ ({m} \X Markets)) \cup ((Markets \ {m}) \X {m})
<1>1. prior \in StateRow /\ d.state \in [Markets -> StateRow]
        /\ d.before \in SUBSET (Markets \X Markets)
    BY DEF Database
<1>2. attempts \in Nat
    <2>1. prior.attempts \in Nat
        BY <1>1 DEF StateRow
    <2> HIDE DEF prior, now
    <2> QED BY <2>1 DEF Attempts
<1>3. wait \in Nat \cup {Never}
    OBVIOUS
<1>4. Booked(d, m, status, conflict) = [d EXCEPT !.state = [d.state EXCEPT ![m] = row],
                                                 !.before = before]
    BY DEF Booked, Database
<1> HIDE DEF prior, now, attempts, wait
<1>5. row \in StateRow
    BY <1>2, <1>3 DEF StateRow
<1>6. before \in SUBSET (Markets \X Markets)
    BY <1>1
<1>7. [d.state EXCEPT ![m] = row] \in [Markets -> StateRow]
    BY <1>1, <1>5
<1>8. Clean(row) <=> status = "resolved" /\ ~conflict
    BY DEF Clean
<1> HIDE DEF row, before
<1> QED BY <1>1, <1>4, <1>5, <1>6, <1>7, <1>8 DEF Database

\* A plan reaches the trades it names and no others.
LEMMA AppliedFits ==
    ASSUME NEW d \in Database, NEW plan \in SUBSET (Trades \X Verdict)
    PROVE  /\ Applied(d, plan) \in Database
           /\ Applied(d, plan).state = d.state
           /\ DOMAIN Applied(d, plan).trades = DOMAIN d.trades
           /\ \A t \in DOMAIN d.trades :
                \/ /\ Applied(d, plan).trades[t] = d.trades[t]
                   /\ \A p \in plan : p[1] # t
                \/ \E p \in plan : p[1] = t /\ Applied(d, plan).trades[t] = p[2]
<1> DEFINE of(t) == {p \in plan : p[1] = t}
           new == [t \in DOMAIN d.trades |->
                     IF \E p \in plan : p[1] = t THEN (CHOOSE p \in plan : p[1] = t)[2]
                     ELSE d.trades[t]]
<1>1. d.trades \in [DOMAIN d.trades -> Verdict] /\ DOMAIN d.trades \subseteq Trades
    BY TradesTyped
<1>2. Applied(d, plan) = [d EXCEPT !.trades = new]
    BY DEF Applied
<1>3. \A t \in DOMAIN d.trades :
        \/ new[t] = d.trades[t] /\ \A p \in plan : p[1] # t
        \/ \E p \in plan : p[1] = t /\ new[t] = p[2]
    <2> TAKE t \in DOMAIN d.trades
    <2>1. CASE \E p \in plan : p[1] = t
        <3>1. (CHOOSE p \in plan : p[1] = t) \in plan /\ (CHOOSE p \in plan : p[1] = t)[1] = t
            BY <2>1
        <3> QED BY <2>1, <3>1
    <2>2. CASE ~\E p \in plan : p[1] = t
        BY <2>2
    <2> QED BY <2>1, <2>2
<1>4. \A t \in DOMAIN d.trades : new[t] \in Verdict
    BY <1>1, <1>3
<1>5. new \in [DOMAIN d.trades -> Verdict]
    BY <1>4
<1> HIDE DEF new
<1>6. new \in UNION {[S -> Verdict] : S \in SUBSET Trades} /\ DOMAIN new = DOMAIN d.trades
    BY <1>1, <1>5
<1>7. /\ Applied(d, plan) \in Database /\ Applied(d, plan).trades = new
      /\ Applied(d, plan).state = d.state
    BY <1>2, <1>6 DEF Database
<1> QED BY <1>3, <1>6, <1>7

-----------------------------------------------------------------------------
(* What a step that commits, and one that does not, owes to the properties. *)

\* The step of SettledStays.
VerdictsKept ==
    \A t \in DOMAIN db.trades :
        /\ t \in DOMAIN db'.trades
        /\ db.trades[t].status # "unresolved" => db'.trades[t] = db.trades[t]

\* The step of RefreshLandsWhole.
MarketsLand ==
    \A m \in Markets :
        LET settled == {t \in RowsOf(db, m) \cap Unsettled(db) :
                           db'.trades[t].by = "refresh"}
            marked == Clean(db'.state[m]) /\ ~Clean(db.state[m])
        IN  settled # {} \/ marked =>
              /\ Clean(db'.state[m])
              /\ \A t \in job.read[m] : db'.trades[t].status # "unresolved"

Kept == MarketInv' /\ VerdictsKept /\ MarketsLand

\* A connection that has caught up with the database holds nothing back.
LEMMA CaughtUp ==
    ASSUME work' = db', Signed(db)'
    PROVE  WorkExtends' /\ MarketsWhole' /\ \A m : HeldBack(m)' = {}
<1>1. ASSUME NEW m PROVE HeldBack(m)' = {}
    BY DEF HeldBack, RowsOf, Unsettled, Signed
<1>2. WorkExtends'
    BY DEF WorkExtends
<1>3. MarketsWhole'
    BY <1>1 DEF MarketsWhole
<1> QED BY <1>1, <1>2, <1>3

\* A step that leaves the database alone keeps its verdicts and lands nothing.
LEMMA NothingCommitted ==
    ASSUME MarketInv, db' = db
    PROVE  VerdictsKept /\ MarketsLand
<1>1. Signed(db)
    BY DEF MarketInv
<1>2. VerdictsKept
    BY DEF VerdictsKept
<1>3. MarketsLand
    BY <1>1 DEF MarketsLand, Signed, RowsOf, Unsettled
<1> QED BY <1>2, <1>3

\* Nor does one that commits neither a verdict of the refresh nor a market's
\* state of done.
LEMMA NothingLanded ==
    ASSUME MarketInv, VerdictsKept,
           \A t \in DOMAIN db.trades :
             db'.trades[t].by = "refresh" => db.trades[t].by = "refresh",
           \A m \in Markets : Clean(db'.state[m]) => Clean(db.state[m])
    PROVE  MarketsLand
<1>1. Signed(db)
    BY DEF MarketInv
<1> QED BY <1>1 DEF MarketsLand, Signed, RowsOf, Unsettled

\* When the connection is committed as it is, its verdicts are kept, and what a
\* refresh between two markets has held back lands whole.
LEMMA CommitKeepsVerdicts ==
    ASSUME MarketInv, db'.trades = work.trades
    PROVE  VerdictsKept
BY DEF MarketInv, WorkExtends, VerdictsKept

\* No market is held back by a command other than the refresh.
LEMMA OthersHoldNothing ==
    ASSUME MarketInv, job.kind # "refresh"
    PROVE  /\ \A m \in Markets : HeldBack(m) = {} /\ work.state[m] = db.state[m]
           /\ \A t \in DOMAIN db.trades :
                work.trades[t].by = "refresh" => db.trades[t].by = "refresh"
<1>1. \A m \in Markets : HeldBack(m) = {} /\ work.state[m] = db.state[m]
    BY DEF MarketInv, MarketsWhole
<1>2. ASSUME NEW t \in DOMAIN db.trades, work.trades[t].by = "refresh"
      PROVE  db.trades[t].by = "refresh"
    <2>1. MarketOf[t] \in Markets
        BY TradesTyped DEF MarketInv, TruthTypeOK
    <2>2. t \notin HeldBack(MarketOf[t])
        BY <1>1, <2>1
    <2>3. t \notin Unsettled(db)
        BY <1>2, <2>2 DEF HeldBack, RowsOf
    <2> QED BY <1>2, <2>3 DEF Unsettled, MarketInv, WorkExtends
<1> QED BY <1>1, <1>2

-----------------------------------------------------------------------------
(* The initial state and the world.                                         *)

\* No command runs.
LEMMA IdleFits ==
    ASSUME job = IdleJob
    PROVE  job \in JobState /\ RefreshFits /\ PlanFits
BY DEF IdleJob, JobState, RefreshFits, PlanFits

LEMMA InitFits == Init => MarketInv
<1> SUFFICES ASSUME Init PROVE MarketInv
    OBVIOUS
<1> USE DEF Init
<1>1. job \in JobState /\ RefreshFits /\ PlanFits
    BY IdleFits
<1>2. db \in Database
    <2>1. NoState \in StateRow
        BY DEF NoState, StateRow
    <2>2. Open \in Verdict
        BY OpenIsUnsigned
    <2>3. [t \in Stored |-> Open] \in UNION {[S -> Verdict] : S \in SUBSET Trades}
        BY <2>2
    <2>4. [resolved |-> FALSE, label |-> None, winner |-> None] \in MarketRow
        BY DEF MarketRow, Winners
    <2>5. /\ [m \in Markets |-> NoState] \in [Markets -> StateRow]
          /\ [m \in Markets |-> [resolved |-> FALSE, label |-> None, winner |-> None]]
                \in [Markets -> MarketRow]
        BY <2>1, <2>4
    <2> QED BY <2>3, <2>5 DEF Database
<1>3. TruthTypeOK
    <2>1. ASSUME NEW m \in Markets PROVE declared[m] <= Len(Declares[m])
        <3>1. Declares[m] \in Seq(STRING) /\ declared[m] = 0
            OBVIOUS
        <3>2. Len(Declares[m]) \in Nat
            BY <3>1
        <3> QED BY <3>1, <3>2
    <2>2. declared \in [Markets -> Nat]
        OBVIOUS
    <2> QED BY <1>1, <1>2, <2>1, <2>2 DEF TruthTypeOK
<1>4. Signed(db) /\ OneWinner(db)
    <2>1. \A t \in DOMAIN db.trades : db.trades[t].by # "refresh"
        BY OpenIsUnsigned
    <2> QED BY <2>1 DEF Signed, OneWinner
<1>5. WorkExtends
    BY DEF WorkExtends
<1>6. MarketsWhole
    BY <1>4 DEF MarketsWhole, HeldBack, Signed, RowsOf, Unsettled
<1> QED BY <1>1, <1>3, <1>4, <1>5, <1>6 DEF MarketInv

LEMMA GammaDeclaresKeeps ==
    ASSUME MarketInv, NEW m \in Markets, GammaDeclares(m)
    PROVE  Kept
<1> USE DEF MarketInv
<1>1. db' = db /\ work' = work /\ tx' = tx /\ job' = job /\ commands' = commands
        /\ faults' = faults
    BY DEF GammaDeclares, store
<1>2. declared' \in [Markets -> Nat] /\ \A k \in Markets : declared'[k] <= Len(Declares[k])
    <2>1. Len(Declares[m]) \in Nat
        OBVIOUS
    <2> QED BY <2>1 DEF GammaDeclares, TruthTypeOK
<1>3. TruthTypeOK'
    BY <1>1, <1>2 DEF TruthTypeOK
<1>4. (Signed(db) /\ Signed(work) /\ OneWinner(db) /\ OneWinner(work) /\ WorkExtends)'
    BY <1>1 DEF Signed, OneWinner, WorkExtends
<1>5. (RefreshFits /\ MarketsWhole /\ PlanFits)'
    BY <1>1 DEF RefreshFits, MarketsWhole, PlanFits, HeldBack
<1> QED BY <1>1, <1>3, <1>4, <1>5, NothingCommitted DEF Kept

\* The new trade is unsettled, and no transaction is open beside the insert.
LEMMA StoreTradeKeeps ==
    ASSUME MarketInv, NEW t \in Trades, StoreTrade(t)
    PROVE  Kept
<1> USE DEF MarketInv
<1> DEFINE new == [u \in DOMAIN db.trades \cup {t} |-> IF u = t THEN Open ELSE db.trades[u]]
<1>1. /\ work = db /\ t \notin DOMAIN db.trades
      /\ db' = [db EXCEPT !.trades = new] /\ work' = db'
      /\ declared' = declared /\ tx' = tx /\ job' = job /\ commands' = commands
      /\ faults' = faults
    BY DEF StoreTrade, Writing
<1>2. db.trades \in [DOMAIN db.trades -> Verdict] /\ DOMAIN db.trades \subseteq Trades
    BY TradesTyped DEF TruthTypeOK
<1>3. Open \in Verdict /\ Open.status = "unresolved" /\ Open.by # "refresh"
    BY OpenIsUnsigned
<1>4. new \in [DOMAIN db.trades \cup {t} -> Verdict] /\ new[t] = Open
        /\ DOMAIN new = DOMAIN db.trades \cup {t}
        /\ \A u \in DOMAIN db.trades : new[u] = db.trades[u]
    BY <1>1, <1>2, <1>3
<1> HIDE DEF new
<1>5. new \in UNION {[S -> Verdict] : S \in SUBSET Trades}
    BY <1>2, <1>4
<1>6. db' \in Database /\ db'.trades = new /\ db'.state = db.state
    BY <1>1, <1>5 DEF TruthTypeOK, Database
<1>7. TruthTypeOK'
    BY <1>1, <1>6 DEF TruthTypeOK
<1>8. Signed(db)' /\ OneWinner(db)'
    BY <1>3, <1>4, <1>6 DEF Signed, OneWinner
<1>9. WorkExtends' /\ MarketsWhole' /\ \A m : HeldBack(m)' = {}
    BY <1>1, <1>8, CaughtUp
<1>10. RefreshFits'
    <2>1. job.pc = "settle" => job.rows \subseteq RowsOf(work', job.market) \cap Unsettled(work')
        BY <1>1, <1>4, <1>6 DEF RefreshFits, RowsOf, Unsettled
    <2>2. job.pc = "settle" =>
            \A u \in job.read[job.market] \ job.rows :
              u \in DOMAIN work'.trades /\ work'.trades[u].status # "unresolved"
        BY <1>1, <1>4, <1>6 DEF RefreshFits
    <2>3. job.pc = "settle" =>
            \A u \in RowsOf(work', job.market) :
              work'.trades[u].by = "refresh" => work'.trades[u].winner = job.answer.winner
        <3> SUFFICES ASSUME job.pc = "settle", NEW u \in RowsOf(work', job.market),
                            work'.trades[u].by = "refresh"
                     PROVE  work'.trades[u].winner = job.answer.winner
            OBVIOUS
        <3>1. u # t
            BY <1>1, <1>3, <1>4, <1>6
        <3>2. u \in RowsOf(work, job.market) /\ work'.trades[u] = work.trades[u]
            BY <1>1, <1>4, <1>6, <3>1 DEF RowsOf
        <3> QED BY <3>2 DEF RefreshFits
    <2> QED BY <1>1, <1>9, <2>1, <2>2, <2>3 DEF RefreshFits
<1>11. PlanFits'
    BY <1>1, <1>4, <1>6 DEF PlanFits, Unsettled
<1>12. VerdictsKept
    BY <1>4, <1>6 DEF VerdictsKept
<1>13. MarketsLand
    BY <1>4, <1>6, <1>12, NothingLanded
<1> QED BY <1>1, <1>7, <1>8, <1>9, <1>10, <1>11, <1>12, <1>13 DEF Kept

\* Between two commands a day passes.
LEMMA DayKeeps ==
    ASSUME MarketInv, Day
    PROVE  Kept
<1> USE DEF MarketInv
<1> DEFINE state == [m \in Markets |-> [db.state[m] EXCEPT !.wait = Sooner(db.state[m].wait)]]
<1>1. /\ job = IdleJob
      /\ db' = [db EXCEPT !.state = state] /\ work' = db'
      /\ declared' = declared /\ tx' = tx /\ job' = job /\ commands' = commands
      /\ faults' = faults
    BY DEF Day
<1>2. db.state \in [Markets -> StateRow]
    BY DEF TruthTypeOK, Database
<1>3. \A wait \in Nat \cup {Never} : Sooner(wait) \in Nat \cup {Never}
    BY DEF Sooner
<1>4. ASSUME NEW m \in Markets
      PROVE  state[m] \in StateRow /\ (Clean(state[m]) <=> Clean(db.state[m]))
    <2>1. db.state[m] \in StateRow
        BY <1>2
    <2>2. db.state[m].wait \in Nat \cup {Never}
        BY <2>1 DEF StateRow
    <2>3. Sooner(db.state[m].wait) \in Nat \cup {Never}
        BY <1>3, <2>2
    <2> QED BY <2>1, <2>3 DEF StateRow, Clean
<1>5. state \in [Markets -> StateRow]
    BY <1>4
<1> HIDE DEF state
<1>6. db' \in Database /\ db'.trades = db.trades /\ db'.state = state
    BY <1>1, <1>5 DEF TruthTypeOK, Database
<1>7. TruthTypeOK'
    BY <1>1, <1>6 DEF TruthTypeOK
<1>8. Signed(db)' /\ OneWinner(db)'
    BY <1>6 DEF Signed, OneWinner
<1>9. WorkExtends' /\ MarketsWhole'
    BY <1>1, <1>8, CaughtUp
<1>10. RefreshFits' /\ PlanFits'
    BY <1>1 DEF IdleJob, RefreshFits, PlanFits
<1>11. VerdictsKept
    BY <1>6 DEF VerdictsKept
<1>12. MarketsLand
    BY <1>4, <1>6, <1>11, NothingLanded
<1> QED BY <1>1, <1>7, <1>8, <1>9, <1>10, <1>11, <1>12 DEF Kept

\* A scan between two commands stores a market anew.
LEMMA PersistMarketKeeps ==
    ASSUME MarketInv, NEW m \in Markets, PersistMarket(m)
    PROVE  Kept
<1> USE DEF MarketInv
<1> DEFINE row == [db.market[m] EXCEPT !.resolved = Gamma(m) # None, !.label = Gamma(m)]
           market == [db.market EXCEPT ![m] = row]
<1>1. /\ job = IdleJob
      /\ db' = [db EXCEPT !.market[m] = row] /\ work' = db'
      /\ declared' = declared /\ tx' = tx /\ job' = job /\ commands' = commands
      /\ faults' = faults
    BY DEF PersistMarket
<1>2. db.market \in [Markets -> MarketRow]
    BY DEF TruthTypeOK, Database
<1>3. Gamma(m) \in STRING \cup {None}
    BY GammaTyped
<1>4. row \in MarketRow
    BY <1>2, <1>3 DEF MarketRow
<1> HIDE DEF row
<1>5. market \in [Markets -> MarketRow]
    BY <1>2, <1>4
<1>6. db' = [db EXCEPT !.market = market]
    BY <1>1 DEF TruthTypeOK, Database
<1> HIDE DEF market
<1>7. db' \in Database /\ db'.trades = db.trades /\ db'.state = db.state
    BY <1>5, <1>6 DEF TruthTypeOK, Database
<1>8. TruthTypeOK'
    BY <1>1, <1>7 DEF TruthTypeOK
<1>9. Signed(db)' /\ OneWinner(db)'
    BY <1>7 DEF Signed, OneWinner
<1>10. WorkExtends' /\ MarketsWhole'
    BY <1>1, <1>9, CaughtUp
<1>11. RefreshFits' /\ PlanFits'
    BY <1>1 DEF IdleJob, RefreshFits, PlanFits
<1>12. VerdictsKept
    BY <1>7 DEF VerdictsKept
<1>13. MarketsLand
    BY <1>7, <1>12, NothingLanded
<1> QED BY <1>1, <1>8, <1>9, <1>10, <1>11, <1>12, <1>13 DEF Kept

-----------------------------------------------------------------------------
(* The refresh.                                                             *)

\* A step of the command alone, which writes nothing.
LEMMA JobStepKeeps ==
    ASSUME MarketInv, declared' = declared, UNCHANGED store,
           job' \in JobState, commands' \in Nat, faults' \in Nat,
           RefreshFits', MarketsWhole', PlanFits'
    PROVE  Kept
<1>1. db' = db /\ work' = work /\ tx' = tx
    BY DEF store
<1>2. TruthTypeOK'
    BY <1>1 DEF MarketInv, TruthTypeOK
<1>3. (Signed(db) /\ Signed(work) /\ OneWinner(db) /\ OneWinner(work) /\ WorkExtends)'
    BY <1>1 DEF MarketInv, Signed, OneWinner, WorkExtends
<1> QED BY <1>1, <1>2, <1>3, NothingCommitted DEF Kept, MarketInv

\* No command has begun to write.
LEMMA StartKeeps ==
    ASSUME MarketInv, job = IdleJob, declared' = declared, UNCHANGED store,
           job' \in JobState, commands' \in Nat, faults' \in Nat,
           job'.market = None, job'.pc \in {"ask", "truth"}, job'.plan = {},
           job'.kind = "refresh" => job'.pc = "ask"
    PROVE  Kept
<1>1. db' = db /\ work' = work /\ job.kind # "refresh"
    BY DEF store, IdleJob
<1>2. \A m \in Markets : HeldBack(m)' = {} /\ work'.state[m] = db'.state[m]
    BY <1>1, OthersHoldNothing DEF HeldBack
<1>3. MarketsWhole'
    BY <1>2 DEF MarketsWhole
<1>4. RefreshFits' /\ PlanFits'
    BY DEF RefreshFits, PlanFits
<1> QED BY <1>3, <1>4, JobStepKeeps

LEMMA StartRefreshKeeps ==
    ASSUME MarketInv, NEW limit \in Nat, StartRefresh(limit)
    PROVE  Kept
<1>1. /\ job = IdleJob
      /\ job' = [IdleJob EXCEPT !.kind = "refresh", !.pc = "ask", !.todo = Selected(limit)]
      /\ declared' = declared /\ UNCHANGED store /\ commands' = commands /\ faults' = faults
    BY DEF StartRefresh
<1>2. Selected(limit) \subseteq Markets
    BY DEF Selected
<1>3. /\ job' \in JobState /\ job'.market = None /\ job'.pc = "ask" /\ job'.plan = {}
    BY <1>1, <1>2 DEF JobState, IdleJob
<1> QED BY <1>1, <1>3, StartKeeps DEF MarketInv, TruthTypeOK

LEMMA RecheckMarketKeeps ==
    ASSUME MarketInv, NEW m \in Markets, RecheckMarket(m)
    PROVE  Kept
<1>1. /\ job = IdleJob
      /\ job' = [IdleJob EXCEPT !.kind = "refresh", !.pc = "ask", !.todo = {m}]
      /\ declared' = declared /\ UNCHANGED store /\ commands' = commands + 1
      /\ faults' = faults
    BY DEF RecheckMarket, OperatorStarts
<1>2. /\ job' \in JobState /\ job'.market = None /\ job'.pc = "ask" /\ job'.plan = {}
    BY <1>1 DEF JobState, IdleJob
<1> QED BY <1>1, <1>2, StartKeeps DEF MarketInv, TruthTypeOK

\* A trade the refresh has signed is eligible, so a winner that conflicts with
\* none of the eligible trades agrees with it.
LEMMA AskMarketKeeps ==
    ASSUME MarketInv, NEW m \in Markets, AskMarket(m)
    PROVE  Kept
<1> USE DEF MarketInv
<1>1. /\ job.kind = "refresh" /\ job.pc = "ask" /\ m \in job.todo
      /\ declared' = declared /\ UNCHANGED store /\ commands' = commands /\ faults' = faults
      /\ db' = db /\ work' = work
    BY DEF AskMarket, Asking, store
<1>2. PICK answer \in Answers(m) :
        LET rows == IF answer.status = "resolved" THEN RowsOf(work, m) \cap Eligible ELSE {}
            conflict == Conflicting(rows, answer.winner)
        IN  job' = [job EXCEPT !.pc = IF answer.status # "resolved" THEN "book"
                                      ELSE IF conflict THEN "conflict" ELSE "settle",
                               !.market = m,
                               !.answer = answer,
                               !.rows = IF conflict THEN {} ELSE rows \cap Unsettled(work),
                               !.read[m] = rows]
    BY DEF AskMarket
<1> DEFINE rows == IF answer.status = "resolved" THEN RowsOf(work, m) \cap Eligible ELSE {}
           conflict == Conflicting(rows, answer.winner)
           left == IF conflict THEN {} ELSE rows \cap Unsettled(work)
           read == [job.read EXCEPT ![m] = rows]
           pc == IF answer.status # "resolved" THEN "book"
                 ELSE IF conflict THEN "conflict" ELSE "settle"
<1>3. job \in JobState /\ answer \in Answer
    BY AnswersTyped DEF TruthTypeOK
<1>4. rows \subseteq Trades /\ left \subseteq rows
    BY TradesTyped DEF TruthTypeOK, RowsOf
<1>5. job' = [job EXCEPT !.pc = pc, !.market = m, !.answer = answer, !.rows = left,
                         !.read = read]
    BY <1>2, <1>3 DEF JobState
<1>6. ~conflict /\ answer.status = "resolved" =>
        /\ left \subseteq RowsOf(work, m) \cap Eligible \cap Unsettled(work)
        /\ \A t \in rows \ left : t \in DOMAIN work.trades /\ work.trades[t].status # "unresolved"
    BY DEF RowsOf, Unsettled
<1>7. ASSUME ~conflict, answer.status = "resolved", NEW t \in RowsOf(work, m),
             work.trades[t].by = "refresh"
      PROVE  work.trades[t].winner = answer.winner
    <2>1. t \in DOMAIN work.trades /\ t \in Eligible /\ work.trades[t].status # "unresolved"
        BY <1>7 DEF Signed, RowsOf
    <2>2. t \in rows \ Unsettled(work)
        BY <1>7, <2>1 DEF Unsettled
    <2>3. work.trades[t] = Settlement(t, answer.winner, "refresh")
        BY <1>7, <2>2 DEF Conflicting
    <2> QED BY <2>3 DEF Settlement
<1>8. read \in [Markets -> SUBSET Trades] /\ read[m] = rows
        /\ \A k \in Markets \ {m} : read[k] = job.read[k]
    BY <1>3, <1>4 DEF JobState
<1>9. /\ pc \in {"book", "conflict", "settle"}
      /\ pc = "book" => answer.status # "resolved"
      /\ pc = "settle" => answer.status = "resolved" /\ ~conflict
    OBVIOUS
<1> HIDE DEF rows, conflict, left, read, pc
<1>10. /\ job' \in JobState
       /\ job'.kind = "refresh" /\ job'.pc = pc /\ job'.todo = job.todo /\ job'.market = m
       /\ job'.answer = answer /\ job'.rows = left /\ job'.plan = job.plan /\ job'.read = read
    BY <1>1, <1>3, <1>4, <1>5, <1>8, <1>9 DEF JobState
<1>11. \A k : HeldBack(k)' = HeldBack(k)
    BY <1>1 DEF HeldBack
<1>12. job.market = None /\ HeldBack(m) = {}
    BY <1>1 DEF RefreshFits, MarketsWhole
<1>13. RefreshFits'
    BY <1>1, <1>3, <1>6, <1>7, <1>8, <1>9, <1>10, <1>11, <1>12 DEF RefreshFits
<1>14. MarketsWhole'
    <2> SUFFICES ASSUME NEW k \in Markets
                 PROVE  /\ k \in job.todo => work.state[k] = db.state[k] /\ HeldBack(k) = {}
                        /\ k \notin job.todo /\ (HeldBack(k) # {}
                              \/ (Clean(work.state[k]) /\ ~Clean(db.state[k]))) =>
                             /\ Clean(work.state[k])
                             /\ \A t \in read[k] :
                                  t \in DOMAIN work.trades
                                  /\ work.trades[t].status # "unresolved"
        BY <1>1, <1>10, <1>11 DEF MarketsWhole
    <2>1. k \in job.todo => work.state[k] = db.state[k] /\ HeldBack(k) = {}
        BY <1>12 DEF MarketsWhole
    <2>2. k \notin job.todo => read[k] = job.read[k]
        BY <1>1, <1>8
    <2> QED BY <2>1, <2>2 DEF MarketsWhole
<1>15. PlanFits'
    BY <1>9, <1>10 DEF PlanFits
<1> QED BY <1>1, <1>10, <1>13, <1>14, <1>15, JobStepKeeps DEF TruthTypeOK

\* The trade was unsettled, and its market's other trades, as far as the refresh
\* has settled them, name the same winner.
LEMMA SettleTradeKeeps ==
    ASSUME MarketInv, NEW t \in job.rows, SettleTrade(t)
    PROVE  Kept
<1> USE DEF MarketInv
<1> DEFINE m == job.market
           verdict == Settlement(t, job.answer.winner, "refresh")
           new == [work.trades EXCEPT ![t] = verdict]
           left == job.rows \ {t}
<1>1. /\ job.pc = "settle" /\ job.kind = "refresh" /\ m \in job.todo /\ job.answer \in Answer
      /\ work' = [work EXCEPT !.trades[t] = verdict]
      /\ job' = [job EXCEPT !.rows = left]
      /\ declared' = declared /\ db' = db /\ tx' = tx /\ commands' = commands
      /\ faults' = faults
    BY DEF SettleTrade, RefreshFits
<1>2. work.trades \in [DOMAIN work.trades -> Verdict] /\ DOMAIN work.trades \subseteq Trades
    BY TradesTyped DEF TruthTypeOK
<1>3. /\ t \in DOMAIN work.trades /\ MarketOf[t] = m /\ t \in Eligible
      /\ work.trades[t].status = "unresolved"
    BY <1>1 DEF RefreshFits, RowsOf, Unsettled
<1>4. /\ verdict \in Verdict /\ verdict.status # "unresolved"
      /\ verdict.winner = job.answer.winner /\ verdict.by = "refresh"
    BY <1>1, SettlementIsVerdict DEF Answer
<1> HIDE DEF verdict
<1>5. /\ new \in [DOMAIN work.trades -> Verdict] /\ DOMAIN new = DOMAIN work.trades
      /\ new[t] = verdict
      /\ \A u \in DOMAIN work.trades \ {t} : new[u] = work.trades[u]
    BY <1>2, <1>3, <1>4
<1>6. work' = [work EXCEPT !.trades = new]
    BY <1>1 DEF TruthTypeOK, Database
<1> HIDE DEF new
<1>7. new \in UNION {[S -> Verdict] : S \in SUBSET Trades}
    BY <1>2, <1>5
<1>8. work' \in Database /\ work'.trades = new /\ work'.state = work.state
    BY <1>6, <1>7 DEF TruthTypeOK, Database
<1>9. /\ job' \in JobState /\ job'.rows = left
      /\ job'.kind = job.kind /\ job'.pc = job.pc /\ job'.todo = job.todo /\ job'.market = m
      /\ job'.answer = job.answer /\ job'.plan = job.plan /\ job'.read = job.read
    BY <1>1 DEF TruthTypeOK, JobState
<1>10. TruthTypeOK'
    BY <1>1, <1>8, <1>9 DEF TruthTypeOK
<1>11. Signed(db)' /\ Signed(work)' /\ OneWinner(db)'
    BY <1>1, <1>3, <1>4, <1>5, <1>8 DEF Signed, OneWinner
<1>12. \A u \in DOMAIN new : MarketOf[u] = m /\ new[u].by = "refresh"
                                => new[u].winner = job.answer.winner
    BY <1>1, <1>4, <1>5 DEF RefreshFits, RowsOf
<1>13. OneWinner(work)'
    BY <1>3, <1>5, <1>8, <1>12 DEF OneWinner
<1>14. WorkExtends'
    BY <1>1, <1>3, <1>5, <1>8 DEF WorkExtends
<1>15. RefreshFits'
    <2>1. left \subseteq RowsOf(work', m) \cap Eligible \cap Unsettled(work')
        BY <1>1, <1>5, <1>8 DEF RefreshFits, RowsOf, Unsettled
    <2>2. \A u \in job.read[m] \ left :
            u \in DOMAIN work'.trades /\ work'.trades[u].status # "unresolved"
        BY <1>1, <1>3, <1>4, <1>5, <1>8 DEF RefreshFits
    <2>3. \A u \in RowsOf(work', m) :
            work'.trades[u].by = "refresh" => work'.trades[u].winner = job.answer.winner
        BY <1>8, <1>12 DEF RowsOf
    <2> HIDE DEF m, left
    <2>4. job'.pc = "settle" /\ job'.kind = "refresh" /\ job'.market = m /\ job'.rows = left
            /\ m \in job'.todo /\ job'.answer \in Answer /\ job'.read = job.read
            /\ job'.answer = job.answer
        BY <1>1, <1>9
    <2> QED BY <2>1, <2>2, <2>3, <2>4 DEF RefreshFits
<1>16. \A k \in Markets \ {m} : HeldBack(k)' = HeldBack(k)
    <2>1. \A k \in Markets \ {m} : \A u \in RowsOf(db, k) : work'.trades[u] = work.trades[u]
        BY <1>3, <1>5, <1>8 DEF RowsOf, WorkExtends
    <2> QED BY <1>1, <2>1 DEF HeldBack
<1>17. MarketsWhole'
    <2> SUFFICES ASSUME NEW k \in Markets
                 PROVE  /\ k \in job.todo => work'.state[k] = db.state[k]
                        /\ k \in job.todo /\ k # m => HeldBack(k)' = {}
                        /\ k \notin job.todo /\ (HeldBack(k)' # {}
                              \/ (Clean(work'.state[k]) /\ ~Clean(db.state[k]))) =>
                             /\ Clean(work'.state[k])
                             /\ \A u \in job.read[k] :
                                  u \in DOMAIN work'.trades
                                  /\ work'.trades[u].status # "unresolved"
        BY <1>1, <1>9 DEF MarketsWhole
    <2>1. \A u \in DOMAIN work.trades :
            work.trades[u].status # "unresolved" => work'.trades[u] = work.trades[u]
        BY <1>3, <1>5, <1>8
    <2> QED BY <1>1, <1>5, <1>8, <1>16, <2>1 DEF MarketsWhole
<1>18. PlanFits'
    BY <1>1, <1>9 DEF PlanFits
<1> QED BY <1>1, <1>10, <1>11, <1>13, <1>14, <1>15, <1>17, <1>18, NothingCommitted DEF Kept

\* The refresh leaves a market.
LEMMA NextMarketFits ==
    ASSUME MarketInv, job' = NextMarket
    PROVE  /\ job' \in JobState
           /\ job'.kind = job.kind /\ job'.pc = "ask" /\ job'.todo = job.todo \ {job.market}
           /\ job'.market = None /\ job'.plan = job.plan /\ job'.read = job.read
           /\ RefreshFits' /\ PlanFits'
<1>1. job \in JobState
    BY DEF MarketInv, TruthTypeOK
<1>2. /\ job' \in JobState
      /\ job'.kind = job.kind /\ job'.pc = "ask" /\ job'.todo = job.todo \ {job.market}
      /\ job'.market = None /\ job'.plan = job.plan /\ job'.read = job.read
    BY <1>1 DEF JobState, NextMarket
<1>3. RefreshFits' /\ PlanFits'
    BY <1>2 DEF RefreshFits, PlanFits, MarketInv
<1> QED BY <1>2, <1>3

\* The settlement of the market is complete: what the commit makes durable of it,
\* or the open transaction holds back of it, is all of it.
LEMMA BookSettledKeeps ==
    ASSUME MarketInv, BookSettled
    PROVE  Kept
<1> USE DEF MarketInv
<1> DEFINE m == job.market
           conflict == job.pc = "conflict"
           new == Booked(work, m, "resolved", conflict)
<1>1. /\ job.pc \in {"settle", "conflict"} /\ job.rows = {}
      /\ job.kind = "refresh" /\ m \in job.todo /\ m \in Markets
      /\ work' = new /\ db' = IF tx THEN db ELSE work'
      /\ job' = NextMarket
      /\ declared' = declared /\ tx' = tx /\ commands' = commands /\ faults' = faults
    BY DEF BookSettled, RefreshFits, TruthTypeOK, JobState
<1>2. /\ new \in Database /\ new.trades = work.trades
      /\ \A k \in Markets \ {m} : new.state[k] = work.state[k]
      /\ Clean(new.state[m]) <=> ~conflict
    <2>1. work \in Database /\ "resolved" \in Statuses /\ conflict \in BOOLEAN
        BY DEF TruthTypeOK, Statuses
    <2> HIDE DEF conflict, m
    <2>2. /\ new \in Database /\ new.trades = work.trades
          /\ \A k \in Markets \ {m} : new.state[k] = work.state[k]
          /\ Clean(new.state[m]) <=> "resolved" = "resolved" /\ ~conflict
        BY <1>1, <2>1, BookedFits
    <2> QED BY <2>2
<1> HIDE DEF new
<1>3. /\ job' \in JobState
      /\ job'.kind = job.kind /\ job'.pc = "ask" /\ job'.todo = job.todo \ {m}
      /\ job'.market = None /\ job'.plan = job.plan /\ job'.read = job.read
      /\ RefreshFits' /\ PlanFits'
    BY <1>1, NextMarketFits
<1>4. TruthTypeOK'
    BY <1>1, <1>2, <1>3 DEF TruthTypeOK
<1>5. (Signed(db) /\ Signed(work) /\ OneWinner(db) /\ OneWinner(work))'
    BY <1>1, <1>2 DEF Signed, OneWinner
<1>6. WorkExtends'
    BY <1>1, <1>2 DEF WorkExtends
<1>7. /\ conflict => HeldBack(m) = {}
      /\ ~conflict => \A t \in job.read[m] :
                        t \in DOMAIN work.trades /\ work.trades[t].status # "unresolved"
    BY <1>1 DEF RefreshFits
<1>8. ASSUME NEW k \in Markets
      PROVE  /\ k \in job.todo /\ k # m => HeldBack(k) = {} /\ new.state[k] = db.state[k]
             /\ k \notin job.todo \/ k = m =>
                  (HeldBack(k) # {} \/ (Clean(new.state[k]) /\ ~Clean(db.state[k])) =>
                     /\ Clean(new.state[k])
                     /\ \A t \in job.read[k] :
                          t \in DOMAIN work.trades /\ work.trades[t].status # "unresolved")
    <2>1. CASE k = m
        BY <1>2, <1>7, <2>1
    <2>2. CASE k # m
        BY <1>1, <1>2, <2>2 DEF MarketsWhole
    <2> QED BY <2>1, <2>2
<1>9. CASE tx
    <2>1. db' = db
        BY <1>1, <1>9
    <2>2. \A k : HeldBack(k)' = HeldBack(k)
        BY <1>1, <1>2, <2>1 DEF HeldBack
    <2>3. MarketsWhole'
        BY <1>1, <1>2, <1>3, <1>8, <2>1, <2>2 DEF MarketsWhole
    <2> QED BY <1>3, <1>4, <1>5, <1>6, <2>1, <2>3, NothingCommitted DEF Kept
<1>10. CASE ~tx
    <2>1. db' = new /\ work' = db'
        BY <1>1, <1>10
    <2>2. MarketsWhole'
        BY <1>5, <2>1, CaughtUp
    <2>3. VerdictsKept
        BY <1>2, <2>1, CommitKeepsVerdicts
    <2>4. MarketsLand
        <3> SUFFICES ASSUME NEW k \in Markets,
                            {t \in RowsOf(db, k) \cap Unsettled(db) :
                               db'.trades[t].by = "refresh"} # {}
                            \/ (Clean(db'.state[k]) /\ ~Clean(db.state[k]))
                     PROVE  /\ Clean(db'.state[k])
                            /\ \A t \in job.read[k] : db'.trades[t].status # "unresolved"
            BY DEF MarketsLand
        <3>1. HeldBack(k) # {} \/ (Clean(new.state[k]) /\ ~Clean(db.state[k]))
            BY <1>2, <2>1 DEF HeldBack
        <3> QED BY <1>2, <1>8, <2>1, <3>1
    <2> QED BY <1>3, <1>4, <1>5, <1>6, <2>2, <2>3, <2>4 DEF Kept
<1> QED BY <1>1, <1>9, <1>10 DEF TruthTypeOK

\* Without a winner nothing of the market was settled, and its state stays open.
LEMMA BookUnsettledKeeps ==
    ASSUME MarketInv, BookUnsettled
    PROVE  Kept
<1> USE DEF MarketInv
<1> DEFINE m == job.market
           new == Booked(work, m, job.answer.status, FALSE)
<1>1. /\ job.pc = "book" /\ job.kind = "refresh" /\ m \in job.todo /\ m \in Markets
      /\ job.answer \in Answer /\ job.answer.status # "resolved" /\ HeldBack(m) = {}
      /\ work' = new /\ db' = db /\ tx' = TRUE
      /\ job' = NextMarket
      /\ declared' = declared /\ commands' = commands /\ faults' = faults
    BY DEF BookUnsettled, RefreshFits, TruthTypeOK, JobState
<1>2. /\ new \in Database /\ new.trades = work.trades
      /\ \A k \in Markets \ {m} : new.state[k] = work.state[k]
      /\ ~Clean(new.state[m])
    <2>1. work \in Database /\ job.answer.status \in Statuses /\ FALSE \in BOOLEAN
        BY <1>1 DEF TruthTypeOK, Answer
    <2> HIDE DEF m
    <2> DEFINE booked(conflict) == Booked(work, m, job.answer.status, conflict)
    <2>2. ASSUME NEW conflict \in BOOLEAN
          PROVE  /\ booked(conflict) \in Database /\ booked(conflict).trades = work.trades
                 /\ \A k \in Markets \ {m} : booked(conflict).state[k] = work.state[k]
                 /\ Clean(booked(conflict).state[m]) <=>
                      job.answer.status = "resolved" /\ ~conflict
        BY <1>1, <2>1, BookedFits
    <2>3. new = booked(FALSE)
        BY DEF new, m
    <2> HIDE DEF booked
    <2> QED BY <1>1, <2>2, <2>3
<1> HIDE DEF new
<1>3. /\ job' \in JobState
      /\ job'.kind = job.kind /\ job'.pc = "ask" /\ job'.todo = job.todo \ {m}
      /\ job'.market = None /\ job'.plan = job.plan /\ job'.read = job.read
      /\ RefreshFits' /\ PlanFits'
    BY <1>1, NextMarketFits
<1>4. TruthTypeOK'
    BY <1>1, <1>2, <1>3 DEF TruthTypeOK
<1>5. (Signed(db) /\ Signed(work) /\ OneWinner(db) /\ OneWinner(work) /\ WorkExtends)'
    BY <1>1, <1>2 DEF Signed, OneWinner, WorkExtends
<1>6. \A k : HeldBack(k)' = HeldBack(k)
    BY <1>1, <1>2 DEF HeldBack
<1>7. MarketsWhole'
    <2> SUFFICES ASSUME NEW k \in Markets
                 PROVE  /\ k \in job.todo \ {m} => new.state[k] = db.state[k] /\ HeldBack(k) = {}
                        /\ k \notin job.todo \ {m} /\ (HeldBack(k) # {}
                              \/ (Clean(new.state[k]) /\ ~Clean(db.state[k]))) =>
                             /\ Clean(new.state[k])
                             /\ \A t \in job.read[k] :
                                  t \in DOMAIN work.trades
                                  /\ work.trades[t].status # "unresolved"
        BY <1>1, <1>2, <1>3, <1>6 DEF MarketsWhole
    <2>1. CASE k = m
        BY <1>1, <1>2, <2>1
    <2>2. CASE k # m
        BY <1>1, <1>2, <2>2 DEF MarketsWhole
    <2> QED BY <2>1, <2>2
<1> QED BY <1>1, <1>3, <1>4, <1>5, <1>7, NothingCommitted DEF Kept

\* The command commits what its connection sees and ends.
LEMMA FinishKeepsInvariant ==
    ASSUME MarketInv, Finish
    PROVE  MarketInv' /\ VerdictsKept
<1> USE DEF MarketInv
<1>1. /\ db' = work /\ work' = work /\ tx' = FALSE /\ job' = IdleJob
      /\ declared' = declared /\ commands' = commands /\ faults' = faults
    BY DEF Finish
<1>2. job' \in JobState /\ RefreshFits' /\ PlanFits'
    BY <1>1 DEF IdleJob, JobState, RefreshFits, PlanFits
<1>3. TruthTypeOK'
    BY <1>1, <1>2 DEF TruthTypeOK
<1>4. (Signed(db) /\ Signed(work) /\ OneWinner(db) /\ OneWinner(work))'
    BY <1>1 DEF Signed, OneWinner
<1>5. WorkExtends' /\ MarketsWhole'
    BY <1>1, <1>4, CaughtUp
<1>6. VerdictsKept
    BY <1>1, CommitKeepsVerdicts
<1> QED BY <1>2, <1>3, <1>4, <1>5, <1>6

LEMMA FinishRefreshKeeps ==
    ASSUME MarketInv, FinishRefresh
    PROVE  Kept
<1>1. job.kind = "refresh" /\ job.todo = {} /\ Finish /\ db' = work
    BY DEF FinishRefresh, Finish
<1>2. MarketInv' /\ VerdictsKept
    BY <1>1, FinishKeepsInvariant
<1>3. MarketsLand
    <2> SUFFICES ASSUME NEW m \in Markets,
                        {t \in RowsOf(db, m) \cap Unsettled(db) : work.trades[t].by = "refresh"} # {}
                        \/ (Clean(work.state[m]) /\ ~Clean(db.state[m]))
                 PROVE  /\ Clean(work.state[m])
                        /\ \A t \in job.read[m] : work.trades[t].status # "unresolved"
        BY <1>1 DEF MarketsLand
    <2>1. HeldBack(m) # {} \/ (Clean(work.state[m]) /\ ~Clean(db.state[m]))
        BY DEF HeldBack
    <2> QED BY <1>1, <2>1 DEF MarketInv, MarketsWhole
<1> QED BY <1>2, <1>3 DEF Kept

-----------------------------------------------------------------------------
(* The resolver.                                                            *)

LEMMA StartResolverKeeps ==
    ASSUME MarketInv, StartResolver
    PROVE  Kept
<1>1. /\ job = IdleJob
      /\ job' = [IdleJob EXCEPT !.kind = "resolver", !.pc = "ask", !.rows = Unsettled(db)]
      /\ declared' = declared /\ UNCHANGED store /\ commands' = commands + 1
      /\ faults' = faults
    BY DEF StartResolver, OperatorStarts
<1>2. Unsettled(db) \subseteq Trades
    BY TradesTyped DEF MarketInv, TruthTypeOK, Unsettled
<1>3. /\ job' \in JobState /\ job'.market = None /\ job'.pc = "ask" /\ job'.plan = {}
    BY <1>1, <1>2 DEF JobState, IdleJob
<1> QED BY <1>1, <1>3, StartKeeps DEF MarketInv, TruthTypeOK

LEMMA ResolveMarketKeeps ==
    ASSUME MarketInv, NEW m \in Markets, ResolveMarket(m)
    PROVE  Kept
<1> USE DEF MarketInv
<1> DEFINE rows == {t \in job.rows : MarketOf[t] = m}
           added(answer) == {<<t, Settlement(t, answer.winner, "resolver")>> : t \in rows}
<1>1. /\ job.kind = "resolver"
      /\ declared' = declared /\ UNCHANGED store /\ commands' = commands /\ faults' = faults
      /\ db' = db /\ work' = work
    BY DEF ResolveMarket, store
<1>2. PICK answer \in Answers(m) :
        job' = [job EXCEPT !.rows = @ \ rows,
                           !.plan = IF answer.status # "resolved" THEN @
                                    ELSE @ \cup added(answer)]
    BY DEF ResolveMarket
<1>3. job \in JobState /\ answer \in Answer
    BY AnswersTyped DEF TruthTypeOK
<1> DEFINE plan == IF answer.status # "resolved" THEN job.plan ELSE job.plan \cup added(answer)
           left == job.rows \ rows
<1>4. rows \subseteq Trades /\ left \subseteq Trades
    BY <1>3 DEF JobState
<1>5. \A x \in added(answer) : x \in Trades \X Verdict /\ x[2].by = "resolver"
    <2> TAKE x \in added(answer)
    <2>1. PICK t \in rows : x = <<t, Settlement(t, answer.winner, "resolver")>>
        OBVIOUS
    <2>2. /\ Settlement(t, answer.winner, "resolver") \in Verdict
          /\ Settlement(t, answer.winner, "resolver").by = "resolver"
        BY <1>3, SettlementIsVerdict DEF Answer
    <2> QED BY <1>4, <2>1, <2>2
<1>6. job' = [job EXCEPT !.rows = left, !.plan = plan]
    BY <1>2
<1> HIDE DEF rows, added, left
<1>7. plan \in SUBSET (Trades \X Verdict) /\ \A x \in plan : x[2].by # "refresh"
    <2>1. job.plan \in SUBSET (Trades \X Verdict) /\ \A x \in job.plan : x[2].by # "refresh"
        BY <1>3 DEF JobState, PlanFits
    <2> QED BY <1>5, <2>1
<1> HIDE DEF plan
<1>8. /\ job' \in JobState /\ job'.kind = job.kind /\ job'.pc = job.pc
      /\ job'.market = job.market /\ job'.plan = plan
    BY <1>3, <1>4, <1>6, <1>7 DEF JobState
<1>9. job.pc \notin {"settle", "conflict", "book", "trades"}
    BY <1>1 DEF RefreshFits, PlanFits
<1>10. RefreshFits' /\ PlanFits'
    BY <1>1, <1>7, <1>8, <1>9 DEF RefreshFits, PlanFits
<1>11. \A k \in Markets : HeldBack(k)' = {} /\ work'.state[k] = db'.state[k]
    BY <1>1, OthersHoldNothing DEF HeldBack
<1>12. MarketsWhole'
    BY <1>11 DEF MarketsWhole
<1> QED BY <1>1, <1>8, <1>10, <1>12, JobStepKeeps DEF TruthTypeOK

\* A plan of verdicts not signed by the refresh, for unsettled trades.
LEMMA PlanApplied ==
    ASSUME MarketInv, job.kind # "refresh",
           NEW plan \in SUBSET (Trades \X Verdict),
           \A x \in plan : x[2].by # "refresh" /\ x[1] \in Unsettled(work)
    PROVE  LET new == Applied(work, plan)
           IN  /\ new \in Database /\ new.state = work.state
               /\ DOMAIN new.trades = DOMAIN db.trades
               /\ Signed(new) /\ OneWinner(new)
               /\ \A t \in DOMAIN db.trades :
                    /\ db.trades[t].status # "unresolved" => new.trades[t] = db.trades[t]
                    /\ new.trades[t].by = "refresh" => db.trades[t].by = "refresh"
<1> USE DEF MarketInv
<1> DEFINE new == Applied(work, plan)
<1>1. /\ new \in Database /\ new.state = work.state
      /\ DOMAIN new.trades = DOMAIN work.trades
      /\ \A t \in DOMAIN work.trades :
           \/ new.trades[t] = work.trades[t] /\ \A x \in plan : x[1] # t
           \/ \E x \in plan : x[1] = t /\ new.trades[t] = x[2]
    BY AppliedFits DEF TruthTypeOK
<1> HIDE DEF new
<1>2. DOMAIN new.trades = DOMAIN db.trades
    BY <1>1 DEF WorkExtends
<1>3. \A t \in DOMAIN new.trades :
        new.trades[t].by = "refresh" => new.trades[t] = work.trades[t]
    BY <1>1
<1>4. Signed(new) /\ OneWinner(new)
    BY <1>1, <1>3 DEF Signed, OneWinner
<1>5. ASSUME NEW t \in DOMAIN db.trades, db.trades[t].status # "unresolved"
      PROVE  new.trades[t] = db.trades[t]
    <2>1. work.trades[t] = db.trades[t] /\ t \notin Unsettled(work)
        BY <1>5 DEF WorkExtends, Unsettled
    <2> QED BY <1>1, <1>2, <2>1
<1>6. \A t \in DOMAIN db.trades : new.trades[t].by = "refresh" => db.trades[t].by = "refresh"
    BY <1>2, <1>3, OthersHoldNothing
<1> QED BY <1>1, <1>2, <1>4, <1>5, <1>6 DEF new

\* What others have settled since the plan was made is left out of it.
LEMMA FinishResolverKeeps ==
    ASSUME MarketInv, FinishResolver
    PROVE  Kept
<1> USE DEF MarketInv
<1> DEFINE plan == {p \in job.plan : p[1] \in Unsettled(work)}
           new == Applied(work, plan)
<1>1. /\ job.kind = "resolver"
      /\ db' = new /\ work' = db' /\ job' = IdleJob
      /\ declared' = declared /\ tx' = tx /\ commands' = commands /\ faults' = faults
    BY DEF FinishResolver
<1>2. plan \in SUBSET (Trades \X Verdict)
        /\ \A x \in plan : x[2].by # "refresh" /\ x[1] \in Unsettled(work)
    BY DEF TruthTypeOK, JobState, PlanFits
<1> HIDE DEF plan
<1>3. /\ new \in Database /\ new.state = work.state
      /\ DOMAIN new.trades = DOMAIN db.trades
      /\ Signed(new) /\ OneWinner(new)
      /\ \A t \in DOMAIN db.trades :
           /\ db.trades[t].status # "unresolved" => new.trades[t] = db.trades[t]
           /\ new.trades[t].by = "refresh" => db.trades[t].by = "refresh"
    BY <1>1, <1>2, PlanApplied
<1> HIDE DEF new
<1>4. job' \in JobState /\ RefreshFits' /\ PlanFits'
    BY <1>1 DEF IdleJob, JobState, RefreshFits, PlanFits
<1>5. TruthTypeOK'
    BY <1>1, <1>3, <1>4 DEF TruthTypeOK
<1>6. (Signed(db) /\ Signed(work) /\ OneWinner(db) /\ OneWinner(work))'
    BY <1>1, <1>3 DEF Signed, OneWinner
<1>7. WorkExtends' /\ MarketsWhole'
    BY <1>1, <1>6, CaughtUp
<1>8. VerdictsKept
    BY <1>1, <1>3 DEF VerdictsKept
<1>9. \A m \in Markets : work.state[m] = db.state[m]
    BY <1>1, OthersHoldNothing
<1>10. MarketsLand
    BY <1>1, <1>3, <1>8, <1>9, NothingLanded
<1> QED BY <1>4, <1>5, <1>6, <1>7, <1>8, <1>10 DEF Kept

-----------------------------------------------------------------------------
(* The backfill, and failures.                                              *)

LEMMA StartBackfillKeeps ==
    ASSUME MarketInv, StartBackfill
    PROVE  Kept
<1> DEFINE resolved == {m \in Markets : db.market[m].resolved}
<1>1. /\ job = IdleJob
      /\ job' = [IdleJob EXCEPT !.kind = "backfill", !.pc = "truth", !.todo = resolved]
      /\ declared' = declared /\ UNCHANGED store /\ commands' = commands + 1
      /\ faults' = faults
    BY DEF StartBackfill, OperatorStarts
<1>2. resolved \subseteq Markets
    OBVIOUS
<1> HIDE DEF resolved
<1>3. /\ job' \in JobState /\ job'.market = None /\ job'.pc = "truth" /\ job'.plan = {}
      /\ job'.kind = "backfill"
    BY <1>1, <1>2 DEF JobState, IdleJob
<1> QED BY <1>1, <1>3, StartKeeps DEF MarketInv, TruthTypeOK

LEMMA StoredWinnerTyped ==
    ASSUME MarketInv, NEW m \in Markets
    PROVE  StoredWinner(m) \in Winners
<1> DEFINE named == {Outcomes[m][i].token : i \in LabelledBy(m, work.market[m].label)}
<1>1. work.market[m].winner \in Winners /\ None \in Winners
    BY DEF MarketInv, TruthTypeOK, Database, MarketRow, Winners
<1>2. named \subseteq Winners
    BY DEF LabelledBy, Winners
<1>3. ASSUME Cardinality(named) = 1 PROVE (CHOOSE k \in named : TRUE) \in Winners
    <2>1. named # {}
        <3> HIDE DEF named
        <3>1. named = {} => Cardinality(named) = 0
            BY FS_EmptySet, Zenon
        <3> QED BY <1>3, <3>1
    <2>2. (CHOOSE k \in named : TRUE) \in named
        BY <2>1
    <2> QED BY <1>2, <2>2
<1> HIDE DEF named
<1> QED BY <1>1, <1>3 DEF StoredWinner, named

\* The markets table alone is written, the trades are only planned.
LEMMA WriteTruthKeeps ==
    ASSUME MarketInv, NEW m \in Markets, WriteTruth(m)
    PROVE  Kept
<1> USE DEF MarketInv
<1> DEFINE winner == StoredWinner(m)
           won == {i \in DOMAIN Outcomes[m] : winner # None /\ Outcomes[m][i].token = winner}
           ambiguous == Cardinality(won) > 1
           verdict(t) == IF ambiguous
                         THEN [status |-> "ambiguous", winner |-> winner, by |-> "backfill"]
                         ELSE Settlement(t, winner, "backfill")
           plan == IF winner = None THEN {} ELSE {<<t, verdict(t)>> : t \in ToBackfill(m)}
           todo == job.todo \ {m}
<1>1. /\ job.kind = "backfill" /\ job.pc = "truth"
      /\ work' = CASE ambiguous -> work
                    [] ~ambiguous /\ winner = None -> [work EXCEPT !.market[m].resolved = FALSE]
                    [] OTHER -> [work EXCEPT !.market[m].winner = winner]
      /\ job' = [job EXCEPT !.pc = "trades", !.todo = todo, !.plan = plan]
      /\ db' = IF tx THEN db ELSE work'
      /\ declared' = declared /\ tx' = tx /\ commands' = commands /\ faults' = faults
    BY DEF WriteTruth
<1>2. winner \in Winners
    BY StoredWinnerTyped
<1>3. ASSUME NEW t \in ToBackfill(m)
      PROVE  /\ t \in Trades /\ t \in Unsettled(work)
             /\ verdict(t) \in Verdict /\ verdict(t).by = "backfill"
    <2>1. t \in Trades /\ t \in Unsettled(work)
        BY TradesTyped DEF TruthTypeOK, ToBackfill, Unsettled
    <2>2. /\ Settlement(t, winner, "backfill") \in Verdict
          /\ Settlement(t, winner, "backfill").by = "backfill"
        BY <1>2, SettlementIsVerdict
    <2>3. [status |-> "ambiguous", winner |-> winner, by |-> "backfill"] \in Verdict
        BY <1>2 DEF Verdict
    <2> HIDE DEF winner, ambiguous
    <2> QED BY <2>1, <2>2, <2>3
<1> HIDE DEF winner, ambiguous, verdict
<1>4. /\ plan \in SUBSET (Trades \X Verdict)
      /\ \A x \in plan : x[2].by # "refresh" /\ x[1] \in Unsettled(work)
    <2> SUFFICES ASSUME NEW x \in plan
                 PROVE  /\ x \in Trades \X Verdict
                        /\ x[2].by # "refresh" /\ x[1] \in Unsettled(work)
        OBVIOUS
    <2>1. PICK t \in ToBackfill(m) : x = <<t, verdict(t)>>
        OBVIOUS
    <2> QED BY <1>3, <2>1
<1> HIDE DEF plan
<1>5. work' \in Database /\ work'.trades = work.trades /\ work'.state = work.state
    <2>1. work.market \in [Markets -> MarketRow] /\ work \in Database
        BY DEF TruthTypeOK, Database
    <2>2. work.market[m] \in MarketRow
        BY <2>1
    <2> DEFINE open == [work.market EXCEPT ![m] = [work.market[m] EXCEPT !.resolved = FALSE]]
               closed == [work.market EXCEPT ![m] = [work.market[m] EXCEPT !.winner = winner]]
    <2>3. open \in [Markets -> MarketRow] /\ closed \in [Markets -> MarketRow]
        BY <1>2, <2>1, <2>2 DEF MarketRow
    <2>4. /\ [work EXCEPT !.market[m].resolved = FALSE] = [work EXCEPT !.market = open]
          /\ [work EXCEPT !.market[m].winner = winner] = [work EXCEPT !.market = closed]
        BY <2>1 DEF Database
    <2> HIDE DEF open, closed
    <2>5. \A market \in [Markets -> MarketRow] :
            /\ [work EXCEPT !.market = market] \in Database
            /\ [work EXCEPT !.market = market].trades = work.trades
            /\ [work EXCEPT !.market = market].state = work.state
        BY <2>1 DEF Database
    <2>6. work' = work \/ work' = [work EXCEPT !.market = open]
                      \/ work' = [work EXCEPT !.market = closed]
        BY <1>1, <2>4
    <2>7. CASE work' = work
        BY <2>1, <2>7
    <2>8. CASE work' = [work EXCEPT !.market = open]
        BY <2>3, <2>5, <2>8
    <2>9. CASE work' = [work EXCEPT !.market = closed]
        BY <2>3, <2>5, <2>9
    <2> QED BY <2>6, <2>7, <2>8, <2>9
<1>6. /\ job' \in JobState /\ job'.kind = "backfill" /\ job'.pc = "trades"
      /\ job'.market = job.market /\ job'.plan = plan
    BY <1>1, <1>4 DEF TruthTypeOK, JobState
<1>7. TruthTypeOK'
    BY <1>1, <1>5, <1>6 DEF TruthTypeOK
<1>8. (Signed(db) /\ Signed(work) /\ OneWinner(db) /\ OneWinner(work))'
    BY <1>1, <1>5 DEF Signed, OneWinner
<1>9. WorkExtends'
    BY <1>1, <1>5 DEF WorkExtends
<1>10. RefreshFits' /\ PlanFits'
    BY <1>4, <1>5, <1>6 DEF RefreshFits, PlanFits, Unsettled
<1>11. /\ \A k \in Markets : HeldBack(k) = {} /\ work.state[k] = db.state[k]
       /\ \A t \in DOMAIN db.trades :
            work.trades[t].by = "refresh" => db.trades[t].by = "refresh"
    BY <1>1, OthersHoldNothing
<1>12. CASE tx
    <2>1. db' = db
        BY <1>1, <1>12
    <2>2. \A k \in Markets : HeldBack(k)' = {} /\ work'.state[k] = db'.state[k]
        BY <1>5, <1>11, <2>1 DEF HeldBack
    <2>3. MarketsWhole'
        BY <2>2 DEF MarketsWhole
    <2> QED BY <1>7, <1>8, <1>9, <1>10, <2>1, <2>3, NothingCommitted DEF Kept
<1>13. CASE ~tx
    <2>1. db' = work'
        BY <1>1, <1>13
    <2>2. MarketsWhole'
        BY <1>8, <2>1, CaughtUp
    <2>3. VerdictsKept
        BY <1>5, <2>1, CommitKeepsVerdicts
    <2>4. MarketsLand
        BY <1>5, <1>11, <2>1, <2>3, NothingLanded
    <2> QED BY <1>7, <1>8, <1>9, <1>10, <2>2, <2>3, <2>4 DEF Kept
<1> QED BY <1>12, <1>13 DEF TruthTypeOK

LEMMA WriteTradesKeeps ==
    ASSUME MarketInv, WriteTrades
    PROVE  Kept
<1> USE DEF MarketInv
<1> DEFINE new == Applied(work, job.plan)
<1>1. /\ job.kind = "backfill" /\ job.pc = "trades"
      /\ work' = new /\ tx' = (tx \/ job.plan # {})
      /\ job' = [job EXCEPT !.pc = "truth", !.plan = {}]
      /\ declared' = declared /\ db' = db /\ commands' = commands /\ faults' = faults
    BY DEF WriteTrades
<1>2. /\ job.plan \in SUBSET (Trades \X Verdict)
      /\ \A x \in job.plan : x[2].by # "refresh" /\ x[1] \in Unsettled(work)
    BY <1>1 DEF TruthTypeOK, JobState, PlanFits
<1>3. /\ new \in Database /\ new.state = work.state
      /\ DOMAIN new.trades = DOMAIN db.trades
      /\ Signed(new) /\ OneWinner(new)
      /\ \A t \in DOMAIN db.trades :
           /\ db.trades[t].status # "unresolved" => new.trades[t] = db.trades[t]
           /\ new.trades[t].by = "refresh" => db.trades[t].by = "refresh"
    BY <1>1, <1>2, PlanApplied
<1> HIDE DEF new
<1>4. /\ job' \in JobState /\ job'.kind = "backfill" /\ job'.pc = "truth" /\ job'.plan = {}
    BY <1>1 DEF TruthTypeOK, JobState
<1>5. TruthTypeOK'
    <2>1. tx' \in BOOLEAN
        BY <1>1, Zenon
    <2>2. work' = new /\ declared' = declared /\ db' = db /\ commands' = commands
            /\ faults' = faults
        BY <1>1
    <2> QED BY <1>3, <1>4, <2>1, <2>2 DEF TruthTypeOK
<1>6. (Signed(db) /\ Signed(work) /\ OneWinner(db) /\ OneWinner(work))'
    BY <1>1, <1>3 DEF Signed, OneWinner
<1>7. WorkExtends'
    BY <1>1, <1>3 DEF WorkExtends
<1>8. RefreshFits' /\ PlanFits'
    BY <1>4 DEF RefreshFits, PlanFits
<1>9. \A k \in Markets : HeldBack(k)' = {} /\ work'.state[k] = db'.state[k]
    <2>1. \A k \in Markets : work.state[k] = db.state[k]
        BY <1>1, OthersHoldNothing
    <2>2. \A t \in Unsettled(db) : work'.trades[t].by # "refresh"
        BY <1>1, <1>3 DEF Signed, Unsettled
    <2> QED BY <1>1, <1>3, <2>1, <2>2 DEF HeldBack
<1>10. MarketsWhole'
    BY <1>4, <1>9 DEF MarketsWhole
<1> QED BY <1>1, <1>5, <1>6, <1>7, <1>8, <1>10, NothingCommitted DEF Kept

LEMMA FinishBackfillKeeps ==
    ASSUME MarketInv, FinishBackfill
    PROVE  Kept
<1>1. job.kind = "backfill" /\ Finish /\ db' = work
    BY DEF FinishBackfill, Finish
<1>2. MarketInv' /\ VerdictsKept
    BY <1>1, FinishKeepsInvariant
<1>3. MarketsLand
    BY <1>1, <1>2, OthersHoldNothing, NothingLanded
<1> QED BY <1>2, <1>3 DEF Kept

\* What was not committed is gone.
LEMMA FailKeeps ==
    ASSUME MarketInv, Fail
    PROVE  Kept
<1> USE DEF MarketInv
<1>1. /\ db' = db /\ work' = db' /\ tx' = FALSE /\ job' = IdleJob
      /\ declared' = declared /\ commands' = commands /\ faults' = faults + 1
    BY DEF Fail
<1>2. job' \in JobState /\ RefreshFits' /\ PlanFits'
    BY <1>1 DEF IdleJob, JobState, RefreshFits, PlanFits
<1>3. TruthTypeOK'
    <2>1. faults' \in Nat
        BY <1>1 DEF TruthTypeOK
    <2>2. db' \in Database /\ work' \in Database
        BY <1>1 DEF TruthTypeOK
    <2> QED BY <1>1, <1>2, <2>1, <2>2 DEF TruthTypeOK
<1>4. (Signed(db) /\ Signed(work) /\ OneWinner(db) /\ OneWinner(work))'
    BY <1>1 DEF Signed, OneWinner
<1>5. WorkExtends' /\ MarketsWhole'
    BY <1>1, <1>4, CaughtUp
<1> QED BY <1>1, <1>2, <1>3, <1>4, <1>5, NothingCommitted DEF Kept

-----------------------------------------------------------------------------
(* The theorems.                                                            *)

LEMMA StepKeeps ==
    ASSUME MarketInv, [Next]_vars
    PROVE  Kept
<1>1. CASE UNCHANGED vars
    <2>1. /\ declared' = declared /\ UNCHANGED store /\ db' = db /\ work' = work
          /\ job' = job /\ commands' = commands /\ faults' = faults
        BY <1>1 DEF vars, store
    <2>2. RefreshFits' /\ MarketsWhole' /\ PlanFits'
        BY <2>1 DEF MarketInv, RefreshFits, MarketsWhole, PlanFits, HeldBack
    <2> QED BY <2>1, <2>2, JobStepKeeps DEF MarketInv, TruthTypeOK
<1>2. CASE Step
    <2>1. CASE \E m \in Markets : AskMarket(m) \/ ResolveMarket(m) \/ WriteTruth(m)
        BY <2>1, AskMarketKeeps, ResolveMarketKeeps, WriteTruthKeeps
    <2>2. CASE \E t \in job.rows : SettleTrade(t)
        BY <2>2, SettleTradeKeeps
    <2>3. CASE BookSettled \/ BookUnsettled \/ FinishRefresh
        BY <2>3, BookSettledKeeps, BookUnsettledKeeps, FinishRefreshKeeps
    <2>4. CASE FinishResolver
        BY <2>4, FinishResolverKeeps
    <2>5. CASE WriteTrades \/ FinishBackfill
        BY <2>5, WriteTradesKeeps, FinishBackfillKeeps
    <2> QED BY <1>2, <2>1, <2>2, <2>3, <2>4, <2>5 DEF Step
<1>3. CASE \E m \in Markets : GammaDeclares(m) \/ PersistMarket(m) \/ RecheckMarket(m)
    BY <1>3, GammaDeclaresKeeps, PersistMarketKeeps, RecheckMarketKeeps
<1>4. CASE \E t \in Trades : StoreTrade(t)
    BY <1>4, StoreTradeKeeps
<1>5. CASE \E limit \in 1 .. LimitMarkets : StartRefresh(limit)
    BY <1>5, StartRefreshKeeps
<1>6. CASE Day \/ StartResolver \/ StartBackfill \/ Fail
    BY <1>6, DayKeeps, StartResolverKeeps, StartBackfillKeeps, FailKeeps
<1> QED BY <1>1, <1>2, <1>3, <1>4, <1>5, <1>6 DEF Next

\* In every state the running command has rewritten no verdict, the refresh has
\* given the trades of a market one winner, and what is held back of a market is
\* its whole settlement.
THEOREM MarketInvariant == Spec => []MarketInv
<1>1. MarketInv /\ [Next]_vars => MarketInv'
    BY StepKeeps DEF Kept
<1> QED BY <1>1, InitFits, PTL DEF Spec

\* A verdict is final, whichever command gave it and however often Gamma corrects
\* the outcome.
THEOREM VerdictsAreFinal == Spec => SettledStays
<1>1. MarketInv /\ [Next]_vars =>
        [\A t \in DOMAIN db.trades :
           /\ t \in DOMAIN db'.trades
           /\ db.trades[t].status # "unresolved" => db'.trades[t] = db.trades[t]]_vars
    BY StepKeeps DEF Kept, VerdictsKept
<1> QED BY <1>1, MarketInvariant, PTL DEF Spec, SettledStays

\* All trades of a market that the refresh settled, on whatever days, name one
\* winner.
THEOREM OneWinnerPerMarket == Spec => []RefreshNamesOneWinner
<1>1. MarketInv => RefreshNamesOneWinner
    BY DEF MarketInv, OneWinner, RefreshNamesOneWinner
<1> QED BY <1>1, MarketInvariant, PTL

\* What the refresh makes durable of a market is the settlement of every trade it
\* has read together with the mark that it is done.
THEOREM SettlementLandsWhole == Spec => RefreshLandsWhole
<1>1. MarketInv /\ [Next]_vars =>
        [\A m \in Markets :
           LET settled == {t \in RowsOf(db, m) \cap Unsettled(db) :
                              db'.trades[t].by = "refresh"}
               marked == Clean(db'.state[m]) /\ ~Clean(db.state[m])
           IN  settled # {} \/ marked =>
                 /\ Clean(db'.state[m])
                 /\ \A t \in job.read[m] : db'.trades[t].status # "unresolved"]_vars
    BY StepKeeps DEF Kept, MarketsLand
<1> QED BY <1>1, MarketInvariant, PTL DEF Spec, RefreshLandsWhole
=============================================================================
