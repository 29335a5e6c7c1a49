------------------------ MODULE SpecialistSettlement ------------------------
(***************************************************************************)
(* Settlement of specialist paper positions: settle_specialist_position of *)
(* execution/specialist_spine.py as driven by                              *)
(* scripts/settle_specialist_paper_positions.py.  Each settler is a        *)
(* process with a connection of its own, and the look-up of an existing    *)
(* settlement is a SELECT outside the transaction that inserts one, so     *)
(* settlers interleave between the two.                                    *)
(*                                                                         *)
(* An order, its fill, its position and its lot are written by one         *)
(* transaction of one run of the execution command; that run names them.   *)
(***************************************************************************)
EXTENDS Sequences, Naturals

CONSTANTS
    Executions,  \* runs of the execution command
    Settlers,    \* processes that run the settlement command
    Sources,     \* evidence_source together with the raw evidence
    Labels,      \* resolution outcomes, trimmed and in upper case
    NoOne        \* no writer holds the database's write lock

ASSUME SettlementAssumption ==
    /\ NoOne \notin Executions
    /\ Executions # {} /\ Sources # {} /\ Labels # {}

VARIABLES
    orders,      \* runs whose paper_orders row and its companions are committed
    ledger,      \* paper_position_settlements rows of each position, by id
    settledFlag, \* positions whose status column says 'settled'
    settler,     \* what each settler process has read, and its last report
    writer       \* the execution run inside a write transaction, or NoOne

settlementVars == <<ledger, settledFlag, settler>>

Evidence == [source: Sources, outcome: Labels]

\* _norm: the replay comparison folds synonyms before comparing.
Norm(label) ==
    CASE label \in {"YES", "Y", "WIN", "WON"}  -> "YES"
      [] label \in {"NO", "N", "LOSS", "LOST"} -> "NO"
      [] OTHER -> label

SettlerState ==
    [pc: {"idle", "lookup", "insert"},
     position: Executions,
     evidence: Evidence,
     report: {"none", "blocked", "already_settled", "conflict", "settled"}]

Unstarted == CHOOSE st \in SettlerState : st.pc = "idle" /\ st.report = "none"

\* UNIQUE(position_id, evidence_hash).
FaultyHasEvidence(p, v) == FALSE

HasEvidence(p, v) == \E i \in DOMAIN ledger[p] : ledger[p][i] = v

\* The SELECT on paper_positions.
FaultyPositionExists(p) == TRUE

PositionExists(p) == p \in orders

\* The INSERT adds a row with the next id and touches no other.
FaultyRowAdded(rows, v) == <<v>>

RowAdded(rows, v) == Append(rows, v)

LatestRow(p) == ledger[p][Len(ledger[p])]

SettlementInit ==
    /\ ledger = [p \in Executions |-> <<>>]
    /\ settledFlag = {}
    /\ settler = [t \in Settlers |-> Unstarted]

\* The command starts: position_not_found ends it.
FindPosition(t) ==
    /\ settler[t].pc = "idle"
    /\ \E p \in Executions, v \in Evidence :
         settler' = [settler EXCEPT ![t] =
             IF PositionExists(p)
             THEN [pc |-> "lookup", position |-> p, evidence |-> v, report |-> "none"]
             ELSE [Unstarted EXCEPT !.report = "blocked"]]
    /\ UNCHANGED <<ledger, settledFlag>>

\* The latest settlement of the position decides between replay and conflict.
LookupSettlement(t) ==
    LET p == settler[t].position
        v == settler[t].evidence
    IN  /\ settler[t].pc = "lookup"
        /\ \/ /\ ledger[p] = <<>>
              /\ settler' = [settler EXCEPT ![t] = [@ EXCEPT !.pc = "insert"]]
           \/ /\ ledger[p] # <<>>
              /\ settler' = [settler EXCEPT ![t] = [@ EXCEPT
                   !.pc = "idle",
                   !.report = IF Norm(LatestRow(p).outcome) = Norm(v.outcome)
                              THEN "already_settled" ELSE "conflict"]]
        /\ UNCHANGED <<ledger, settledFlag>>

\* INSERT, status UPDATE and COMMIT: one transaction.  A row with the same
\* evidence hash makes the INSERT fail and the handler goes on with that row.
InsertSettlement(t) ==
    LET p == settler[t].position
        v == settler[t].evidence
    IN  /\ settler[t].pc = "insert"
        /\ writer = NoOne
        /\ ledger' = IF HasEvidence(p, v) THEN ledger
                     ELSE [ledger EXCEPT ![p] = RowAdded(@, v)]
        /\ settledFlag' = settledFlag \cup {p}
        /\ settler' = [settler EXCEPT ![t] = [@ EXCEPT !.pc = "idle", !.report = "settled"]]

\* The process dies before its commit: nothing it did is kept.
CrashSettler(t) ==
    /\ settler[t].pc # "idle"
    /\ settler' = [settler EXCEPT ![t] = Unstarted]
    /\ UNCHANGED <<ledger, settledFlag>>

Settle(t) ==
    \/ FindPosition(t)
    \/ LookupSettlement(t)
    \/ InsertSettlement(t)
    \/ CrashSettler(t)

-----------------------------------------------------------------------------

SettlementTypeOK ==
    /\ orders \subseteq Executions
    /\ ledger \in [Executions -> Seq(Evidence)]
    /\ settledFlag \subseteq Executions
    /\ settler \in [Settlers -> SettlerState]
    /\ writer \in Executions \cup {NoOne}

\* A position is marked settled exactly when it has a settlement row, and only
\* a position that exists has either: exposure (which counts positions without
\* a row) and the status column never disagree, whoever crashes when.
SettledFlagMatchesLedger ==
    \A p \in Executions :
        /\ p \in settledFlag <=> ledger[p] # <<>>
        /\ p \in settledFlag => p \in orders

\* The same evidence is recorded once, however many settlers replay it.
EvidenceRecordedOnce ==
    \A p \in Executions : \A i, j \in DOMAIN ledger[p] :
        ledger[p][i] = ledger[p][j] => i = j

\* What a settler reported stays true of the ledger: "settled" names evidence
\* that is there, "already_settled" an equivalent outcome, "conflict" a
\* different one.
ReportsMatchLedger ==
    \A t \in Settlers :
        LET rows == ledger[settler[t].position]
            v    == settler[t].evidence
        IN  /\ settler[t].report = "settled" => HasEvidence(settler[t].position, v)
            /\ settler[t].report = "already_settled" =>
                  \E i \in DOMAIN rows : Norm(rows[i].outcome) = Norm(v.outcome)
            /\ settler[t].report = "conflict" =>
                  \E i \in DOMAIN rows : Norm(rows[i].outcome) # Norm(v.outcome)

\* Docstring of settle_specialist_position: "Settle one specialist paper
\* position exactly once."
SettledAtMostOnce == \A p \in Executions : Len(ledger[p]) <= 1
=============================================================================
