---------------------------- MODULE SpecialistProofs ----------------------------
(***************************************************************************)
(* What the specialist path guarantees for every number of approvals,      *)
(* trades, signals and processes: the approval table by itself, the        *)
(* dispatcher that mints signals under it, and the execution spine that    *)
(* turns an authorized signal into an order, its position and its          *)
(* settlement.                                                             *)
(***************************************************************************)
EXTENDS SpecialistSpine, SpecialistDispatch, FiniteSetTheorems, TLAPS

USE SlotAssumption

-----------------------------------------------------------------------------
(***************************************************************************)
(* The approval table by itself: one active approval per slot, and a       *)
(* revoked one is never revived, in every order of issuing, enabling,      *)
(* disabling and revoking.                                                 *)
(***************************************************************************)

\* Revoked rows are disabled or not, but they exist: that is what makes
\* revocation final.
RevokedExist == \A a \in Approvals : approval[a].revoked => approval[a].exists

ApprovalInv == ApprovalTypeOK /\ OneActivePerSlot /\ RevokedExist

\* What each call does to the rows, field by field.
LEMMA CreateFacts ==
    ASSUME ApprovalTypeOK, NEW a \in Approvals, CreateApproval(a)
    PROVE  /\ \A b \in Approvals : b # a => approval'[b] = approval[b]
           /\ approval'[a] \in ApprovalRow
           /\ approval'[a].exists
           /\ ~approval'[a].revoked
           /\ ~approval[a].exists
           /\ ActiveIndexAdmits(a)
<1>1. approval'[a] = [exists |-> TRUE, enabled |-> TRUE, revoked |-> FALSE]
  BY DEF CreateApproval, ApprovalTypeOK
<1> QED
  BY <1>1 DEF CreateApproval, ApprovalTypeOK, ApprovalRow

\* set_enabled touches one row, never its revocation, and meets the index when
\* it makes the row active.
LEMMA EnableFacts ==
    ASSUME ApprovalTypeOK, NEW a \in Approvals, NEW flag \in BOOLEAN, SetEnabled(a, flag)
    PROVE  /\ \A b \in Approvals : b # a => approval'[b] = approval[b]
           /\ approval'[a] \in ApprovalRow
           /\ approval'[a].exists
           /\ approval'[a].revoked = approval[a].revoked
           /\ approval'[a].enabled = flag
           /\ (flag /\ ~approval[a].revoked) => ActiveIndexAdmits(a)
<1>1. approval[a] \in ApprovalRow
  BY DEF ApprovalTypeOK
<1>2. approval'[a] = [approval[a] EXCEPT !.enabled = flag]
  BY DEF SetEnabled, ApprovalTypeOK
<1>3. \A b \in Approvals : b # a => approval'[b] = approval[b]
  BY DEF SetEnabled, ApprovalTypeOK
<1>4. approval[a].exists /\ ((flag /\ ~approval[a].revoked) => ActiveIndexAdmits(a))
  BY DEF SetEnabled
<1> QED
  BY <1>1, <1>2, <1>3, <1>4 DEF ApprovalRow

\* revoke_approval touches one row and leaves it revoked.
LEMMA RevokeFacts ==
    ASSUME ApprovalTypeOK, NEW a \in Approvals, RevokeApproval(a)
    PROVE  /\ \A b \in Approvals : b # a => approval'[b] = approval[b]
           /\ approval'[a] \in ApprovalRow
           /\ approval'[a].exists
           /\ approval'[a].revoked
<1>1. approval[a] \in ApprovalRow
  BY DEF ApprovalTypeOK
<1>2. approval'[a] = [approval[a] EXCEPT !.enabled = FALSE, !.revoked = TRUE]
  BY DEF RevokeApproval, ApprovalTypeOK
<1>3. \A b \in Approvals : b # a => approval'[b] = approval[b]
  BY DEF RevokeApproval, ApprovalTypeOK
<1>4. approval[a].exists
  BY DEF RevokeApproval
<1> QED
  BY <1>1, <1>2, <1>3, <1>4 DEF ApprovalRow

\* A step that activates at most an approval the index admits keeps slots
\* apart.
LEMMA IndexKeepsSlots ==
    ASSUME ApprovalTypeOK, OneActivePerSlot, NEW a \in Approvals,
           \A b \in Approvals : b # a => approval'[b] = approval[b],
           IsActive(a)' => IsActive(a) \/ ActiveIndexAdmits(a)
    PROVE  OneActivePerSlot'
<1>1. \A b \in Approvals : b # a => (IsActive(b)' <=> IsActive(b))
  BY DEF IsActive
<1> QED
  BY <1>1 DEF OneActivePerSlot, ActiveApprovals, ActiveIndexAdmits

\* The approval table is well formed, no slot has two active rows, and a revoked
\* row is never one that does not exist: the invariant behind the two results.
THEOREM ApprovalInvariant == ApprovalSpec => []ApprovalInv
<1>1. ApprovalInit => ApprovalInv
  BY DEF ApprovalInit, Unissued, ApprovalInv, ApprovalTypeOK, ApprovalRow, OneActivePerSlot,
     ActiveApprovals, IsActive, RevokedExist
<1>2. ApprovalInv /\ [ManageApprovals]_approval => ApprovalInv'
  <2> SUFFICES ASSUME ApprovalInv, [ManageApprovals]_approval PROVE ApprovalInv'
    OBVIOUS
  <2> USE DEF ApprovalInv
  <2>1. ASSUME NEW a \in Approvals, CreateApproval(a) PROVE ApprovalInv'
    <3>1. ApprovalTypeOK'
      BY <2>1, CreateFacts DEF ApprovalTypeOK, CreateApproval
    <3>2. OneActivePerSlot'
      BY <2>1, CreateFacts, IndexKeepsSlots
    <3>3. RevokedExist'
      BY <2>1, CreateFacts DEF RevokedExist
    <3> QED
      BY <3>1, <3>2, <3>3
  <2>2. ASSUME NEW a \in Approvals, NEW flag \in BOOLEAN, SetEnabled(a, flag)
        PROVE  ApprovalInv'
    <3>1. ApprovalTypeOK'
      BY <2>2, EnableFacts DEF ApprovalTypeOK, SetEnabled
    <3>2. IsActive(a)' => ActiveIndexAdmits(a)
      BY <2>2, EnableFacts DEF IsActive
    <3>3. OneActivePerSlot'
      BY <2>2, <3>2, EnableFacts, IndexKeepsSlots
    <3>4. RevokedExist'
      BY <2>2, EnableFacts DEF RevokedExist
    <3> QED
      BY <3>1, <3>3, <3>4
  <2>3. ASSUME NEW a \in Approvals, RevokeApproval(a) PROVE ApprovalInv'
    <3>1. ApprovalTypeOK'
      BY <2>3, RevokeFacts DEF ApprovalTypeOK, RevokeApproval
    <3>2. ~IsActive(a)'
      BY <2>3, RevokeFacts DEF IsActive
    <3>3. OneActivePerSlot'
      BY <2>3, <3>2, RevokeFacts, IndexKeepsSlots
    <3>4. RevokedExist'
      BY <2>3, RevokeFacts DEF RevokedExist
    <3> QED
      BY <3>1, <3>3, <3>4
  <2>4. CASE UNCHANGED approval
    BY <2>4 DEF ApprovalTypeOK, OneActivePerSlot, ActiveApprovals, IsActive, RevokedExist
  <2> QED
    BY <2>1, <2>2, <2>3, <2>4 DEF ManageApprovals
<1> QED
  BY <1>1, <1>2, PTL DEF ApprovalSpec

\* One active approval per slot, at all times (ux_specialist_approvals_active).
THEOREM OneActive == ApprovalSpec => []OneActivePerSlot
<1>1. ApprovalInv => OneActivePerSlot
  BY DEF ApprovalInv
<1> QED
  BY <1>1, ApprovalInvariant, PTL

\* A revoked approval never becomes active again (set_enabled included).
THEOREM RevokedForGood == ApprovalSpec => RevocationIsFinal
<1> DEFINE Final ==
      \A a \in Approvals :
         approval[a].revoked => approval'[a].revoked /\ approval'[a].exists
<1>1. ApprovalInv /\ [ManageApprovals]_approval => [Final]_approval
  <2> SUFFICES ASSUME ApprovalInv, ManageApprovals PROVE Final
    OBVIOUS
  <2> USE DEF ApprovalInv
  <2>1. ASSUME NEW a \in Approvals, CreateApproval(a) PROVE Final
    BY <2>1, CreateFacts DEF RevokedExist
  <2>2. ASSUME NEW a \in Approvals, NEW flag \in BOOLEAN, SetEnabled(a, flag) PROVE Final
    BY <2>2, EnableFacts DEF RevokedExist
  <2>3. ASSUME NEW a \in Approvals, RevokeApproval(a) PROVE Final
    BY <2>3, RevokeFacts DEF RevokedExist
  <2> QED
    BY <2>1, <2>2, <2>3 DEF ManageApprovals
<1> QED
  BY <1>1, ApprovalInvariant, PTL DEF ApprovalSpec, RevocationIsFinal

-----------------------------------------------------------------------------
(***************************************************************************)
(* The dispatcher over that table.  A run is many commits long, so the     *)
(* invariant ties the row of a pair to the step its one owner has reached: *)
(* the unique index makes the owner unique, nothing but a step of the      *)
(* owner writes the row, and an owner that is done or has crashed never    *)
(* steps again.                                                            *)
(***************************************************************************)

\* The steps only a run that inserted the dispatch row comes to.
Working == {"enrich", "enriched", "category", "inputs", "evaluate", "record"}

\* A run knows its pair from the step that resolves the approval.
PairKnown(r) == run[r].approval \in Approvals /\ run[r].trade \in Trades

\* What the step a run has reached says of what the run holds.
RunFits(r) ==
    /\ run[r].pc # "idle" => PairKnown(r)
    /\ run[r].pc \in {"idle", "find", "create"} => ~run[r].owns
    /\ run[r].pc \in Working => run[r].owns
    /\ run[r].pc \in {"inputs", "evaluate", "record"} => CategoryMatches(r)
    /\ run[r].signal # NoDecision =>
         /\ run[r].owns
         /\ CategoryMatches(r)
         /\ run[r].pc \in {"record", "done", "crashed"}

\* What it says of the row that it owns.
RowFits(r) ==
    LET row == dispatch[Pair(r)]
    IN  /\ run[r].pc \in {"enrich", "enriched"} => row.status = "pending"
        /\ run[r].pc \in {"category", "inputs", "evaluate", "record"} =>
              row.status = "ready_for_bridge"
        /\ run[r].pc = "crashed" => row.status \in {"pending", "ready_for_bridge"}
        /\ run[r].pc = "done" => row.status \in Ended /\ row.signal = run[r].signal

\* One run owns the row of a pair, and a row belongs to some run.
RowsOwned ==
    /\ \A p, q \in Runs : run[p].owns /\ run[q].owns /\ Pair(p) = Pair(q) => p = q
    /\ \A x \in Approvals \X Trades :
         dispatch[x].status # "none" => \E r \in Runs : run[r].owns /\ Pair(r) = x

\* A signal that was stored is in the hands of the run that stored it.
SignalsHeld == \A s \in signals : \E r \in Runs : run[r].signal = s

DispatchInv ==
    /\ DispatchTypeOK
    /\ \A r \in Runs : RunFits(r) /\ (run[r].owns => RowFits(r))
    /\ RowsOwned
    /\ SignalsHeld

-----------------------------------------------------------------------------
(* What the steps do, field by field.                                      *)

Steps == {"idle", "find", "create", "enrich", "enriched", "category", "inputs",
          "evaluate", "record", "done", "crashed"}

OnlyRun(r) == \A u \in Runs : u # r => run'[u] = run[u]

OnlyRow(r) == \A x \in Approvals \X Trades : x # Pair(r) => dispatch'[x] = dispatch[x]

SamePair(r) == run'[r].approval = run[r].approval /\ run'[r].trade = run[r].trade

\* A step that only moves on leaves the rest of the run as it was.
LEMMA GotoFacts ==
    ASSUME DispatchTypeOK, NEW r \in Runs, NEW pc \in Steps, Goto(r, pc)
    PROVE  /\ run' \in [Runs -> RunState] /\ OnlyRun(r) /\ SamePair(r)
           /\ run'[r].pc = pc /\ run'[r].owns = run[r].owns
           /\ run'[r].category = run[r].category
           /\ run'[r].signal = run[r].signal
<1>1. run \in [Runs -> RunState] /\ run[r] \in RunState
  BY DEF DispatchTypeOK
<1>2. run' = [run EXCEPT ![r] = [run[r] EXCEPT !.pc = pc]]
  BY DEF Goto
<1>3. [run[r] EXCEPT !.pc = pc] \in RunState
  BY <1>1 DEF RunState, Steps
<1>4. run'[r] = [run[r] EXCEPT !.pc = pc]
  BY <1>1, <1>2
<1>5. run' \in [Runs -> RunState] /\ OnlyRun(r)
  BY <1>1, <1>2, <1>3 DEF OnlyRun
<1> QED
  BY <1>1, <1>4, <1>5 DEF RunState, SamePair

\* _set_dispatch writes the status and the run's signal into the row of its pair.
LEMMA SetDispatchFacts ==
    ASSUME DispatchTypeOK, NEW r \in Runs, PairKnown(r), NEW status \in Statuses,
           SetDispatch(r, status)
    PROVE  /\ dispatch' \in [Approvals \X Trades -> DispatchRow] /\ OnlyRow(r)
           /\ dispatch'[Pair(r)].status = status
           /\ dispatch'[Pair(r)].signal = run[r].signal
<1>1. /\ Pair(r) \in Approvals \X Trades
      /\ run[r].candidate \in BOOLEAN /\ run[r].signal \in Signal \cup {NoDecision}
  BY DEF DispatchTypeOK, PairKnown, Pair, RunState
<1>2. dispatch[Pair(r)] \in DispatchRow
  BY <1>1 DEF DispatchTypeOK
<1> DEFINE row == [dispatch[Pair(r)] EXCEPT !.status = status,
                     !.candidate = run[r].candidate, !.signal = run[r].signal]
<1>3. row \in DispatchRow /\ row.status = status /\ row.signal = run[r].signal
  BY <1>1, <1>2 DEF DispatchRow
<1>4. dispatch' = [dispatch EXCEPT ![Pair(r)] = row]
  BY DEF SetDispatch
<1> HIDE DEF row
<1> QED
  BY <1>1, <1>3, <1>4 DEF DispatchTypeOK, OnlyRow

\* An owner is past its insert: what it owns is not an empty row.
LEMMA OwnedRowExists ==
    ASSUME DispatchInv, NEW u \in Runs, run[u].owns
    PROVE  PairKnown(u) /\ Pair(u) \in Approvals \X Trades /\ dispatch[Pair(u)].status # "none"
<1>1. run[u].pc \in Working \cup {"done", "crashed"} /\ RowFits(u)
  BY DEF DispatchInv, DispatchTypeOK, RunFits, RunState, Working
<1>2. PairKnown(u)
  BY <1>1 DEF DispatchInv, RunFits, Working
<1> QED
  BY <1>1, <1>2 DEF RowFits, Working, Ended, PairKnown, Pair

-----------------------------------------------------------------------------
(* The step of one run, given what it does to itself and to its own row.   *)

\* What a step of run r may do to the tables that runs share.
StepOf(r) ==
    /\ OnlyRun(r) /\ OnlyRow(r)
    /\ SamePair(r) \/ (~run[r].owns /\ ~run'[r].owns /\ UNCHANGED dispatch)
    /\ run[r].owns => run'[r].owns
    /\ run'[r].owns /\ ~run[r].owns => dispatch[Pair(r)].status = "none"
    /\ run'[r].owns \/ UNCHANGED dispatch
    /\ \A s \in signals' \ signals : run'[r].signal = s
    /\ run[r].signal # NoDecision => run'[r].signal = run[r].signal

\* Whoever else owns a row finds it as it was: the row of the stepping run is
\* another, for the index lets no second run own a pair.
LEMMA OthersKeepTheirRow ==
    ASSUME DispatchInv, NEW r \in Runs, StepOf(r), NEW u \in Runs, u # r, run[u].owns
    PROVE  /\ run'[u] = run[u] /\ dispatch'[Pair(u)] = dispatch[Pair(u)]
           /\ run'[r].owns => Pair(r)' # Pair(u)
<1>1. run'[u] = run[u] /\ Pair(u) \in Approvals \X Trades /\ dispatch[Pair(u)].status # "none"
  BY OwnedRowExists DEF StepOf, OnlyRun
<1>2. CASE run[r].owns
  <2>1. Pair(u) # Pair(r)
    BY <1>2 DEF DispatchInv, RowsOwned
  <2>2. Pair(r)' = Pair(r)
    BY <1>2 DEF StepOf, SamePair, Pair
  <2> QED
    BY <1>1, <2>1, <2>2 DEF StepOf, OnlyRow
<1>3. CASE ~run[r].owns /\ run'[r].owns
  <2>1. Pair(r)' = Pair(r) /\ dispatch[Pair(r)].status = "none"
    BY <1>3 DEF StepOf, SamePair, Pair
  <2> QED
    BY <1>1, <2>1 DEF StepOf, OnlyRow
<1>4. CASE ~run[r].owns /\ ~run'[r].owns
  BY <1>1, <1>4 DEF StepOf
<1> QED
  BY <1>2, <1>3, <1>4

\* It is enough that the stepping run itself fits afterwards.
LEMMA StepKeepsInvariant ==
    ASSUME DispatchInv, DispatchTypeOK', NEW r \in Runs, StepOf(r),
           RunFits(r)', run'[r].owns => RowFits(r)'
    PROVE  DispatchInv'
<1>1. ASSUME NEW u \in Runs PROVE RunFits(u)' /\ (run'[u].owns => RowFits(u)')
  <2>1. CASE u = r
    BY <2>1
  <2>2. CASE u # r
    <3>1. run'[u] = run[u] /\ RunFits(u)
      BY <2>2 DEF StepOf, OnlyRun, DispatchInv
    <3>2. RunFits(u)'
      BY <3>1 DEF RunFits, PairKnown, CategoryMatches
    <3>3. ASSUME run[u].owns PROVE RowFits(u)'
      <4>1. RowFits(u) /\ dispatch'[Pair(u)] = dispatch[Pair(u)]
        BY <2>2, <3>3, OthersKeepTheirRow DEF DispatchInv
      <4> QED
        BY <3>1, <4>1 DEF RowFits, Pair
    <3> QED
      BY <3>1, <3>2, <3>3
  <2> QED
    BY <2>1, <2>2
<1>2. ASSUME NEW p \in Runs, NEW q \in Runs, run'[p].owns, run'[q].owns, Pair(p)' = Pair(q)'
      PROVE  p = q
  <2>1. CASE p # r /\ q # r
    <3>1. run'[p] = run[p] /\ run'[q] = run[q]
      BY <2>1 DEF StepOf, OnlyRun
    <3> QED
      BY <1>2, <3>1 DEF DispatchInv, RowsOwned, Pair
  <2>2. CASE p = r /\ q # r
    <3>1. run'[q] = run[q]
      BY <2>2 DEF StepOf, OnlyRun
    <3>2. run[q].owns /\ Pair(q) = Pair(r)' /\ run'[r].owns
      BY <1>2, <2>2, <3>1 DEF Pair
    <3> QED
      BY <2>2, <3>2, OthersKeepTheirRow
  <2>3. CASE p # r /\ q = r
    <3>1. run'[p] = run[p]
      BY <2>3 DEF StepOf, OnlyRun
    <3>2. run[p].owns /\ Pair(p) = Pair(r)' /\ run'[r].owns
      BY <1>2, <2>3, <3>1 DEF Pair
    <3> QED
      BY <2>3, <3>2, OthersKeepTheirRow
  <2> QED
    BY <2>1, <2>2, <2>3
<1>3. ASSUME NEW x \in Approvals \X Trades, dispatch'[x].status # "none"
      PROVE  \E u \in Runs : run'[u].owns /\ Pair(u)' = x
  <2>1. CASE dispatch'[x] = dispatch[x]
    <3>1. PICK u \in Runs : run[u].owns /\ Pair(u) = x
      BY <1>3, <2>1 DEF DispatchInv, RowsOwned
    <3>2. CASE u = r
      BY <3>1, <3>2 DEF StepOf, SamePair, Pair
    <3>3. CASE u # r
      BY <3>1, <3>3 DEF StepOf, OnlyRun, Pair
    <3> QED
      BY <3>2, <3>3
  <2>2. CASE dispatch'[x] # dispatch[x]
    BY <2>2 DEF StepOf, OnlyRow, SamePair, Pair
  <2> QED
    BY <2>1, <2>2
<1>4. ASSUME NEW s \in signals' PROVE \E u \in Runs : run'[u].signal = s
  <2>1. CASE s \in signals
    <3>1. PICK u \in Runs : run[u].signal = s
      BY <2>1 DEF DispatchInv, SignalsHeld
    <3>2. s # NoDecision
      BY <2>1, SignalAssumption DEF DispatchInv, DispatchTypeOK
    <3> QED
      BY <3>1, <3>2 DEF StepOf, OnlyRun
  <2>2. CASE s \notin signals
    BY <2>2 DEF StepOf
  <2> QED
    BY <2>1, <2>2
<1>5. RowsOwned' /\ SignalsHeld'
  BY <1>2, <1>3, <1>4 DEF RowsOwned, SignalsHeld
<1> QED
  BY <1>1, <1>5 DEF DispatchInv

-----------------------------------------------------------------------------
(* The steps of a run, one by one.                                         *)

\* A step that moves a run on within its life, and writes no table but
\* possibly the candidates.
LEMMA MoveKeepsInvariant ==
    ASSUME DispatchInv, NEW r \in Runs, NEW pc \in Steps, Goto(r, pc),
           UNCHANGED <<approval, enriched, dispatch, signals>>,
           candidates' \subseteq Trades,
           RunFits(r)', run[r].owns => RowFits(r)'
    PROVE  DispatchInv'
<1>1. DispatchTypeOK
  BY DEF DispatchInv
<1>2. /\ run' \in [Runs -> RunState] /\ OnlyRun(r) /\ SamePair(r)
      /\ run'[r].owns = run[r].owns /\ run'[r].signal = run[r].signal
  BY <1>1, GotoFacts
<1>3. DispatchTypeOK'
  BY <1>1, <1>2 DEF DispatchTypeOK, ApprovalTypeOK
<1>4. StepOf(r)
  BY <1>2 DEF StepOf, OnlyRow
<1> QED
  BY <1>2, <1>3, <1>4, StepKeepsInvariant

\* A step that ends in _set_dispatch: only the owner takes it.
LEMMA RecordKeepsInvariant ==
    ASSUME DispatchInv, NEW r \in Runs, run[r].owns, NEW pc \in Steps, NEW status \in Statuses,
           SetDispatch(r, status), Goto(r, pc),
           UNCHANGED <<approval, enriched, candidates, signals>>,
           \/ pc = "done" /\ status \in Ended
           \/ pc = "category" /\ status = "ready_for_bridge" /\ run[r].signal = NoDecision
    PROVE  DispatchInv'
<1>1. DispatchTypeOK /\ RunFits(r) /\ PairKnown(r)
  BY OwnedRowExists DEF DispatchInv
<1>2. /\ run' \in [Runs -> RunState] /\ OnlyRun(r) /\ SamePair(r)
      /\ run'[r].pc = pc /\ run'[r].owns = run[r].owns
      /\ run'[r].category = run[r].category /\ run'[r].signal = run[r].signal
  BY <1>1, GotoFacts
<1>3. /\ dispatch' \in [Approvals \X Trades -> DispatchRow] /\ OnlyRow(r)
      /\ dispatch'[Pair(r)].status = status
      /\ dispatch'[Pair(r)].signal = run[r].signal
  BY <1>1, SetDispatchFacts
<1>4. DispatchTypeOK'
  BY <1>1, <1>2, <1>3 DEF DispatchTypeOK, ApprovalTypeOK
<1>5. StepOf(r)
  BY <1>2, <1>3 DEF StepOf
<1>6. RunFits(r)'
  BY <1>1, <1>2 DEF RunFits, PairKnown, CategoryMatches, SamePair, Working
<1>7. RowFits(r)'
  <2>1. Pair(r)' = Pair(r)
    BY <1>2 DEF SamePair, Pair
  <2> QED
    BY <1>2, <1>3, <2>1 DEF RowFits, Ended
<1> QED
  BY <1>4, <1>5, <1>6, <1>7, StepKeepsInvariant

\* The approval is resolved: the run takes a pair, and owns nothing yet.
LEMMA ResolveKeepsInvariant ==
    ASSUME DispatchInv, NEW r \in Runs, ResolveApproval(r)
    PROVE  DispatchInv'
<1>1. DispatchTypeOK /\ RunFits(r) /\ run[r] \in RunState /\ run[r].pc = "idle"
  BY DEF DispatchInv, DispatchTypeOK, ResolveApproval, At
<1>2. PICK a \in Approvals, t \in Trades :
        run' = [run EXCEPT ![r] = [@ EXCEPT
             !.pc = IF IsActive(a) THEN "find" ELSE "done",
             !.approval = a,
             !.trade = t]]
  BY DEF ResolveApproval
<1> DEFINE pc == IF IsActive(a) THEN "find" ELSE "done"
           new == [run[r] EXCEPT !.pc = pc, !.approval = a, !.trade = t]
<1>3. /\ new \in RunState /\ new.pc = pc /\ new.approval = a /\ new.trade = t
      /\ new.owns = run[r].owns /\ new.signal = run[r].signal
  BY <1>1 DEF RunState
<1>4. run' = [run EXCEPT ![r] = new]
  BY <1>2
<1> HIDE DEF new
<1>5. run' \in [Runs -> RunState] /\ run'[r] = new /\ OnlyRun(r)
  BY <1>1, <1>3, <1>4 DEF DispatchTypeOK, OnlyRun
<1>6. ~run[r].owns /\ run[r].signal = NoDecision
  BY <1>1 DEF RunFits
<1>7. DispatchTypeOK'
  BY <1>1, <1>5 DEF DispatchTypeOK, ApprovalTypeOK, ResolveApproval
<1>8. StepOf(r)
  BY <1>3, <1>5, <1>6 DEF StepOf, OnlyRow, ResolveApproval
<1>9. RunFits(r)'
  BY <1>3, <1>5, <1>6 DEF RunFits, PairKnown, Working
<1> QED
  BY <1>3, <1>5, <1>6, <1>7, <1>8, <1>9, StepKeepsInvariant

\* The row is found, or the run goes on to insert it.
LEMMA FindKeepsInvariant ==
    ASSUME DispatchInv, NEW r \in Runs, FindDispatch(r)
    PROVE  DispatchInv'
<1>1. DispatchTypeOK /\ RunFits(r) /\ run[r].pc = "find"
  BY DEF DispatchInv, FindDispatch, At
<1>2. PICK pc \in {"done", "create"} : Goto(r, pc)
  BY DEF FindDispatch
<1>3. pc \in Steps
  BY DEF Steps
<1>4. RunFits(r)'
  BY <1>1, <1>2, <1>3, GotoFacts DEF RunFits, PairKnown, SamePair, CategoryMatches, Working
<1>5. ~run[r].owns
  BY <1>1 DEF RunFits
<1> QED
  BY <1>1, <1>2, <1>3, <1>4, <1>5, MoveKeepsInvariant DEF FindDispatch, DispatchTypeOK

\* The INSERT makes the run the owner of a row that did not exist.
LEMMA CreateKeepsInvariant ==
    ASSUME DispatchInv, NEW r \in Runs, CreateDispatch(r)
    PROVE  DispatchInv'
<1>1. /\ DispatchTypeOK /\ RunFits(r) /\ run[r] \in RunState /\ run[r].pc = "create"
      /\ UNCHANGED <<approval, enriched, candidates, signals>>
  BY DEF DispatchInv, DispatchTypeOK, CreateDispatch, At
<1>2. ~run[r].owns /\ run[r].signal = NoDecision /\ PairKnown(r)
  BY <1>1 DEF RunFits
<1>3. CASE /\ DispatchIndexAdmits(Pair(r))
           /\ dispatch' = [dispatch EXCEPT ![Pair(r)] = [NoRow EXCEPT !.status = "pending"]]
           /\ run' = [run EXCEPT ![r] = [@ EXCEPT !.pc = "enrich", !.owns = TRUE]]
  <2> DEFINE new == [run[r] EXCEPT !.pc = "enrich", !.owns = TRUE]
             row == [NoRow EXCEPT !.status = "pending"]
  <2>1. /\ new \in RunState /\ new.pc = "enrich" /\ new.owns /\ new.signal = run[r].signal
        /\ new.approval = run[r].approval /\ new.trade = run[r].trade
    BY <1>1 DEF RunState
  <2>2. row \in DispatchRow /\ row.status = "pending" /\ Pair(r) \in Approvals \X Trades
    BY <1>2 DEF DispatchRow, NoRow, Statuses, PairKnown, Pair
  <2>3. run' = [run EXCEPT ![r] = new] /\ dispatch' = [dispatch EXCEPT ![Pair(r)] = row]
    BY <1>3
  <2> HIDE DEF new, row
  <2>4. run' \in [Runs -> RunState] /\ run'[r] = new /\ OnlyRun(r) /\ SamePair(r)
    BY <1>1, <2>1, <2>3 DEF DispatchTypeOK, OnlyRun, SamePair
  <2>5. /\ dispatch' \in [Approvals \X Trades -> DispatchRow] /\ OnlyRow(r)
        /\ dispatch'[Pair(r)] = row
    BY <1>1, <2>2, <2>3 DEF DispatchTypeOK, OnlyRow
  <2>6. DispatchTypeOK'
    BY <1>1, <2>4, <2>5 DEF DispatchTypeOK, ApprovalTypeOK
  <2>7. StepOf(r)
    BY <1>1, <1>2, <1>3, <2>1, <2>4, <2>5 DEF StepOf, DispatchIndexAdmits
  <2>8. RunFits(r)'
    BY <1>2, <2>1, <2>4 DEF RunFits, PairKnown, Working, SamePair
  <2>9. RowFits(r)'
    <3>1. Pair(r)' = Pair(r)
      BY <2>4 DEF SamePair, Pair
    <3> QED
      BY <2>1, <2>2, <2>4, <2>5, <3>1 DEF RowFits
  <2> QED
    BY <2>6, <2>7, <2>8, <2>9, StepKeepsInvariant
<1>4. CASE Goto(r, "done") /\ UNCHANGED dispatch
  <2>1. "done" \in Steps
    BY DEF Steps
  <2>2. RunFits(r)'
    BY <1>1, <1>2, <1>4, <2>1, GotoFacts DEF RunFits, PairKnown, SamePair, Working
  <2> QED
    BY <1>1, <1>2, <1>4, <2>1, <2>2, MoveKeepsInvariant DEF DispatchTypeOK
<1> QED
  BY <1>3, <1>4 DEF CreateDispatch

\* The enrichment is kept by the run; the dispatch row waits.
LEMMA EnrichKeepsInvariant ==
    ASSUME DispatchInv, NEW r \in Runs, EnrichTrade(r)
    PROVE  DispatchInv'
<1>1. /\ DispatchTypeOK /\ RunFits(r) /\ run[r] \in RunState /\ run[r].pc = "enrich"
      /\ UNCHANGED <<approval, dispatch, candidates, signals>>
  BY DEF DispatchInv, DispatchTypeOK, EnrichTrade, At
<1>2. run[r].owns /\ run[r].signal = NoDecision /\ PairKnown(r) /\ RowFits(r)
  BY <1>1 DEF RunFits, Working, DispatchInv
<1>3. PICK found \in Categories \cup {NoCategory} :
        /\ run' = [run EXCEPT ![r] = [@ EXCEPT !.pc = "enriched", !.category = found]]
        /\ \/ enriched' = [enriched EXCEPT ![run[r].trade] = found]
           \/ found = NoCategory /\ UNCHANGED enriched
  BY DEF EnrichTrade
<1> DEFINE new == [run[r] EXCEPT !.pc = "enriched", !.category = found]
<1>4. /\ new \in RunState /\ new.pc = "enriched" /\ new.owns = run[r].owns
      /\ new.signal = run[r].signal
      /\ new.approval = run[r].approval /\ new.trade = run[r].trade
  BY <1>1 DEF RunState
<1>5. run' = [run EXCEPT ![r] = new]
  BY <1>3
<1> HIDE DEF new
<1>6. run' \in [Runs -> RunState] /\ run'[r] = new /\ OnlyRun(r) /\ SamePair(r)
  BY <1>1, <1>4, <1>5 DEF DispatchTypeOK, OnlyRun, SamePair
<1>7. enriched' \in [Trades -> Categories \cup {NoCategory}]
  BY <1>1, <1>3 DEF DispatchTypeOK
<1>8. DispatchTypeOK'
  BY <1>1, <1>6, <1>7 DEF DispatchTypeOK, ApprovalTypeOK
<1>9. StepOf(r)
  BY <1>1, <1>2, <1>4, <1>6 DEF StepOf, OnlyRow
<1>10. RunFits(r)'
  BY <1>2, <1>4, <1>6 DEF RunFits, PairKnown, Working, SamePair
<1>11. RowFits(r)'
  <2>1. Pair(r)' = Pair(r)
    BY <1>6 DEF SamePair, Pair
  <2> QED
    BY <1>1, <1>2, <1>4, <1>6, <2>1 DEF RowFits
<1> QED
  BY <1>8, <1>9, <1>10, <1>11, StepKeepsInvariant

\* The result of the enrichment ends the dispatch or readies it for the bridge.
LEMMA RecordEnrichmentKeepsInvariant ==
    ASSUME DispatchInv, NEW r \in Runs, RecordEnrichment(r)
    PROVE  DispatchInv'
<1>1. RunFits(r) /\ run[r].pc = "enriched"
  BY DEF DispatchInv, RecordEnrichment, At
<1>2. run[r].owns /\ run[r].signal = NoDecision
  BY <1>1 DEF RunFits, Working
<1> QED
  BY <1>2, RecordKeepsInvariant DEF RecordEnrichment, Steps, Statuses, Ended

\* Only a run whose category matches goes on to the bridge.
LEMMA CheckCategoryKeepsInvariant ==
    ASSUME DispatchInv, NEW r \in Runs, CheckCategory(r)
    PROVE  DispatchInv'
<1>1. DispatchTypeOK /\ RunFits(r) /\ run[r].pc = "category"
  BY DEF DispatchInv, CheckCategory, At
<1>2. run[r].owns /\ run[r].signal = NoDecision /\ RowFits(r) /\ PairKnown(r)
  BY <1>1 DEF RunFits, Working, DispatchInv
<1>3. CASE CategoryMatches(r) /\ Goto(r, "inputs") /\ UNCHANGED dispatch
  <2>1. "inputs" \in Steps
    BY DEF Steps
  <2>2. /\ run'[r].pc = "inputs" /\ run'[r].owns /\ SamePair(r)
        /\ run'[r].signal = NoDecision /\ run'[r].category = run[r].category
    BY <1>1, <1>2, <1>3, <2>1, GotoFacts
  <2>3. RunFits(r)'
    BY <1>2, <1>3, <2>2 DEF RunFits, PairKnown, CategoryMatches, SamePair, Working
  <2>4. RowFits(r)'
    <3>1. Pair(r)' = Pair(r)
      BY <2>2 DEF SamePair, Pair
    <3> QED
      BY <1>1, <1>2, <1>3, <2>2, <3>1 DEF RowFits
  <2> QED
    BY <1>1, <1>3, <2>1, <2>3, <2>4, MoveKeepsInvariant DEF CheckCategory, DispatchTypeOK
<1>4. CASE SetDispatch(r, "failed") /\ Goto(r, "done")
  BY <1>2, <1>4, RecordKeepsInvariant DEF CheckCategory, Steps, Statuses, Ended
<1> QED
  BY <1>3, <1>4 DEF CheckCategory

\* Candidate and inputs are stored, or the row is skipped.
LEMMA PersistInputsKeepsInvariant ==
    ASSUME DispatchInv, NEW r \in Runs, PersistInputs(r)
    PROVE  DispatchInv'
<1>1. /\ DispatchTypeOK /\ RunFits(r) /\ run[r] \in RunState /\ run[r].pc = "inputs"
      /\ UNCHANGED <<approval, enriched, dispatch, signals>>
  BY DEF DispatchInv, DispatchTypeOK, PersistInputs, At
<1>2. /\ run[r].owns /\ run[r].signal = NoDecision /\ RowFits(r) /\ PairKnown(r)
      /\ CategoryMatches(r)
  BY <1>1 DEF RunFits, Working, DispatchInv
<1>3. CASE /\ candidates' = candidates \cup {run[r].trade}
           /\ run' = [run EXCEPT ![r] = [@ EXCEPT !.pc = "evaluate", !.candidate = TRUE]]
  <2> DEFINE new == [run[r] EXCEPT !.pc = "evaluate", !.candidate = TRUE]
  <2>1. /\ new \in RunState /\ new.pc = "evaluate" /\ new.owns = run[r].owns
        /\ new.signal = run[r].signal /\ new.category = run[r].category
        /\ new.approval = run[r].approval /\ new.trade = run[r].trade
    BY <1>1 DEF RunState
  <2>2. run' = [run EXCEPT ![r] = new]
    BY <1>3
  <2> HIDE DEF new
  <2>3. run' \in [Runs -> RunState] /\ run'[r] = new /\ OnlyRun(r) /\ SamePair(r)
    BY <1>1, <2>1, <2>2 DEF DispatchTypeOK, OnlyRun, SamePair
  <2>4. DispatchTypeOK'
    BY <1>1, <1>2, <1>3, <2>3 DEF DispatchTypeOK, ApprovalTypeOK, PairKnown
  <2>5. StepOf(r)
    BY <1>1, <1>2, <2>1, <2>3 DEF StepOf, OnlyRow
  <2>6. RunFits(r)'
    BY <1>2, <2>1, <2>3 DEF RunFits, PairKnown, CategoryMatches, SamePair, Working
  <2>7. RowFits(r)'
    <3>1. Pair(r)' = Pair(r)
      BY <2>3 DEF SamePair, Pair
    <3> QED
      BY <1>1, <1>2, <2>1, <2>3, <3>1 DEF RowFits
  <2> QED
    BY <2>4, <2>5, <2>6, <2>7, StepKeepsInvariant
<1>4. CASE Goto(r, "record") /\ UNCHANGED candidates
  <2>1. "record" \in Steps
    BY DEF Steps
  <2>2. /\ run'[r].pc = "record" /\ run'[r].owns /\ SamePair(r)
        /\ run'[r].signal = NoDecision /\ run'[r].category = run[r].category
    BY <1>1, <1>2, <1>4, <2>1, GotoFacts
  <2>3. RunFits(r)'
    BY <1>2, <2>2 DEF RunFits, PairKnown, CategoryMatches, SamePair, Working
  <2>4. RowFits(r)'
    <3>1. Pair(r)' = Pair(r)
      BY <2>2 DEF SamePair, Pair
    <3> QED
      BY <1>1, <1>2, <2>2, <3>1 DEF RowFits
  <2> QED
    BY <1>1, <1>4, <2>1, <2>3, <2>4, MoveKeepsInvariant DEF DispatchTypeOK
<1> QED
  BY <1>3, <1>4 DEF PersistInputs

\* The signal is stored and held by the run, or the evaluation fails.
LEMMA EvaluateKeepsInvariant ==
    ASSUME DispatchInv, NEW r \in Runs, EvaluateCandidate(r)
    PROVE  DispatchInv'
<1>1. /\ DispatchTypeOK /\ RunFits(r) /\ run[r] \in RunState /\ run[r].pc = "evaluate"
      /\ UNCHANGED <<approval, enriched, dispatch, candidates>>
  BY DEF DispatchInv, DispatchTypeOK, EvaluateCandidate, At
<1>2. /\ run[r].owns /\ run[r].signal = NoDecision /\ RowFits(r) /\ PairKnown(r)
      /\ CategoryMatches(r)
  BY <1>1 DEF RunFits, Working, DispatchInv
<1>3. ASSUME NEW s \in Signal, signals' = signals \cup {s},
             run' = [run EXCEPT ![r] = [@ EXCEPT !.pc = "record", !.signal = s]]
      PROVE  DispatchInv'
  <2> DEFINE new == [run[r] EXCEPT !.pc = "record", !.signal = s]
  <2>1. /\ new \in RunState /\ new.pc = "record" /\ new.owns = run[r].owns
        /\ new.signal = s /\ new.category = run[r].category
        /\ new.approval = run[r].approval /\ new.trade = run[r].trade
    BY <1>1 DEF RunState
  <2>2. run' = [run EXCEPT ![r] = new]
    BY <1>3
  <2> HIDE DEF new
  <2>3. run' \in [Runs -> RunState] /\ run'[r] = new /\ OnlyRun(r) /\ SamePair(r)
    BY <1>1, <2>1, <2>2 DEF DispatchTypeOK, OnlyRun, SamePair
  <2>4. DispatchTypeOK'
    BY <1>1, <1>3, <2>3 DEF DispatchTypeOK, ApprovalTypeOK
  <2>5. StepOf(r)
    BY <1>1, <1>2, <1>3, <2>1, <2>3 DEF StepOf, OnlyRow
  <2>6. RunFits(r)'
    BY <1>2, <2>1, <2>3 DEF RunFits, PairKnown, CategoryMatches, SamePair, Working
  <2>7. RowFits(r)'
    <3>1. Pair(r)' = Pair(r)
      BY <2>3 DEF SamePair, Pair
    <3> QED
      BY <1>1, <1>2, <2>1, <2>3, <3>1 DEF RowFits
  <2> QED
    BY <2>4, <2>5, <2>6, <2>7, StepKeepsInvariant
<1>4. CASE Goto(r, "record") /\ UNCHANGED signals
  <2>1. "record" \in Steps
    BY DEF Steps
  <2>2. /\ run'[r].pc = "record" /\ run'[r].owns /\ SamePair(r)
        /\ run'[r].signal = NoDecision /\ run'[r].category = run[r].category
    BY <1>1, <1>2, <1>4, <2>1, GotoFacts
  <2>3. RunFits(r)'
    BY <1>2, <2>2 DEF RunFits, PairKnown, CategoryMatches, SamePair, Working
  <2>4. RowFits(r)'
    <3>1. Pair(r)' = Pair(r)
      BY <2>2 DEF SamePair, Pair
    <3> QED
      BY <1>1, <1>2, <2>2, <3>1 DEF RowFits
  <2> QED
    BY <1>1, <1>4, <2>1, <2>3, <2>4, MoveKeepsInvariant DEF DispatchTypeOK
<1> QED
  BY <1>3, <1>4 DEF EvaluateCandidate

\* The bridge's report ends the dispatch.
LEMMA RecordBridgeKeepsInvariant ==
    ASSUME DispatchInv, NEW r \in Runs, RecordBridge(r)
    PROVE  DispatchInv'
<1>1. RunFits(r) /\ run[r].pc = "record"
  BY DEF DispatchInv, RecordBridge, At
<1>2. run[r].owns
  BY <1>1 DEF RunFits, Working
<1>3. FinalStatus(r) \in {"failed", "execution_pending", "bridge_complete"}
  BY DEF FinalStatus
<1> QED
  BY <1>2, <1>3, RecordKeepsInvariant DEF RecordBridge, Steps, Statuses, Ended

\* A crash leaves the row open, and nobody resumes it.
LEMMA CrashKeepsInvariant ==
    ASSUME DispatchInv, NEW r \in Runs, CrashRun(r)
    PROVE  DispatchInv'
<1>1. /\ DispatchTypeOK /\ RunFits(r) /\ run[r] \in RunState
      /\ run[r].pc \notin {"idle", "done", "crashed"} /\ Goto(r, "crashed")
      /\ UNCHANGED <<approval, enriched, dispatch, candidates, signals>>
  BY DEF DispatchInv, DispatchTypeOK, CrashRun
<1>2. "crashed" \in Steps
  BY DEF Steps
<1>3. /\ run'[r].pc = "crashed" /\ run'[r].owns = run[r].owns /\ SamePair(r)
      /\ run'[r].signal = run[r].signal /\ run'[r].category = run[r].category
  BY <1>1, <1>2, GotoFacts
<1>4. RunFits(r)'
  BY <1>1, <1>3 DEF RunFits, PairKnown, CategoryMatches, SamePair, Working
<1>5. ASSUME run[r].owns PROVE RowFits(r)'
  <2>1. Pair(r)' = Pair(r)
    BY <1>3 DEF SamePair, Pair
  <2>2. RowFits(r) /\ run[r].pc \in Working
    BY <1>1, <1>5 DEF DispatchInv, RunFits, RunState, Working
  <2> QED
    BY <1>1, <1>3, <2>1, <2>2 DEF RowFits, Working
<1> QED
  BY <1>1, <1>2, <1>4, <1>5, MoveKeepsInvariant DEF DispatchTypeOK

-----------------------------------------------------------------------------

\* The dispatcher never writes the approval table: as far as that goes it is
\* the approval command at work, whose guarantees it therefore inherits.
THEOREM DispatchKeepsApprovals == DispatchSpec => ApprovalSpec
<1>1. DispatchInit => ApprovalInit
  BY DEF DispatchInit
<1>2. [DispatchNext]_dispatchVars => [ManageApprovals]_approval
  BY DEF DispatchNext, dispatchVars, Dispatch, ResolveApproval, FindDispatch, CreateDispatch,
     EnrichTrade, RecordEnrichment, CheckCategory, PersistInputs, EvaluateCandidate,
     RecordBridge, CrashRun
<1> QED
  BY <1>1, <1>2, PTL DEF DispatchSpec, ApprovalSpec

\* One active approval per slot, whatever the dispatcher does beside.
THEOREM DispatchOneActive == DispatchSpec => []OneActivePerSlot
  BY DispatchKeepsApprovals, OneActive, PTL

\* The approval command leaves the dispatcher's tables and runs alone.
LEMMA OthersKeepDispatch ==
    ASSUME DispatchInv, ApprovalTypeOK', UNCHANGED <<enriched, dispatch, candidates, signals, run>>
    PROVE  DispatchInv'
<1>1. DispatchTypeOK'
  BY DEF DispatchInv, DispatchTypeOK
<1>2. \A r \in Runs : RunFits(r)' /\ (run'[r].owns => RowFits(r)')
  BY DEF DispatchInv, RunFits, RowFits, PairKnown, CategoryMatches, Pair
<1>3. RowsOwned' /\ SignalsHeld'
  BY DEF DispatchInv, RowsOwned, SignalsHeld, Pair
<1> QED
  BY <1>1, <1>2, <1>3 DEF DispatchInv

\* The invariant that ties every dispatch row to the step of its owner.
THEOREM DispatchInvariant == DispatchSpec => []DispatchInv
<1>1. DispatchInit => DispatchInv
  <2> SUFFICES ASSUME DispatchInit PROVE DispatchInv
    OBVIOUS
  <2>1. /\ FreshRun \in RunState /\ FreshRun.pc = "idle" /\ ~FreshRun.owns
        /\ FreshRun.signal = NoDecision
    BY DEF FreshRun, RunState
  <2>2. NoRow \in DispatchRow /\ NoRow.status = "none"
    BY DEF NoRow, DispatchRow, Statuses
  <2>3. ApprovalTypeOK
    BY DEF DispatchInit, ApprovalInit, ApprovalTypeOK, Unissued, ApprovalRow
  <2>4. DispatchTypeOK
    BY <2>1, <2>2, <2>3 DEF DispatchInit, DispatchTypeOK
  <2>5. \A r \in Runs : run[r] = FreshRun
    BY DEF DispatchInit
  <2>6. \A x \in Approvals \X Trades : dispatch[x].status = "none"
    BY <2>2 DEF DispatchInit
  <2> QED
    BY <2>1, <2>4, <2>5, <2>6 DEF DispatchInit, DispatchInv, RunFits, Working, RowsOwned, SignalsHeld
<1>2. DispatchInv /\ ApprovalTypeOK' /\ [DispatchNext]_dispatchVars => DispatchInv'
  <2> SUFFICES ASSUME DispatchInv, ApprovalTypeOK', [DispatchNext]_dispatchVars PROVE DispatchInv'
    OBVIOUS
  <2>1. CASE UNCHANGED <<enriched, dispatch, candidates, signals, run>>
    BY <2>1, OthersKeepDispatch
  <2>2. ASSUME NEW r \in Runs, Dispatch(r) PROVE DispatchInv'
    BY <2>2, ResolveKeepsInvariant, FindKeepsInvariant, CreateKeepsInvariant,
       EnrichKeepsInvariant, RecordEnrichmentKeepsInvariant, CheckCategoryKeepsInvariant,
       PersistInputsKeepsInvariant, EvaluateKeepsInvariant, RecordBridgeKeepsInvariant,
       CrashKeepsInvariant DEF Dispatch
  <2> QED
    BY <2>1, <2>2 DEF DispatchNext, dispatchVars
<1>3. ApprovalInv => ApprovalTypeOK
  BY DEF ApprovalInv
<1> QED
  BY <1>1, <1>2, <1>3, DispatchKeepsApprovals, ApprovalInvariant, PTL DEF DispatchSpec

\* A pair is dispatched once, by one run, and its row is open exactly as long
\* as that run has not come to an end of dispatch_one.
THEOREM OneRunPerPair == DispatchSpec => []OpenOnlyUnderItsRun
<1>1. DispatchInv => OpenOnlyUnderItsRun
  <2> SUFFICES ASSUME DispatchInv, NEW x \in Approvals \X Trades
               PROVE  LET owners == {r \in Runs : run[r].owns /\ Pair(r) = x}
                      IN  /\ \A p, q \in owners : p = q
                          /\ dispatch[x].status # "none" <=> owners # {}
                          /\ dispatch[x].status \in {"pending", "ready_for_bridge"} <=>
                                \E r \in owners : run[r].pc # "done"
    BY DEF OpenOnlyUnderItsRun
  <2> DEFINE owners == {r \in Runs : run[r].owns /\ Pair(r) = x}
  <2>1. \A p, q \in owners : p = q
    BY DEF DispatchInv, RowsOwned
  <2>2. dispatch[x].status # "none" <=> owners # {}
    BY OwnedRowExists DEF DispatchInv, RowsOwned
  <2>3. \A r \in owners : dispatch[x].status \in {"pending", "ready_for_bridge"} <=> run[r].pc # "done"
    BY DEF DispatchInv, DispatchTypeOK, RunFits, RowFits, RunState, Working, Ended
  <2> QED
    BY <2>1, <2>2, <2>3
<1> QED
  BY <1>1, DispatchInvariant, PTL

\* Every stored signal was minted by an owner that had found the approval's
\* category, and its row names it once that run has come to its end.
THEOREM NoOrphanSignal == DispatchSpec => []SignalsAccountedFor
<1>1. DispatchInv => SignalsAccountedFor
  <2> SUFFICES ASSUME DispatchInv, NEW s \in signals
               PROVE  \E r \in Runs :
                        /\ run[r].signal = s
                        /\ run[r].owns
                        /\ run[r].category = CategoryOf[run[r].approval]
                        /\ dispatch[Pair(r)].signal = s \/ run[r].pc \in {"record", "crashed"}
    BY DEF SignalsAccountedFor
  <2>1. s # NoDecision
    BY SignalAssumption DEF DispatchInv, DispatchTypeOK
  <2>2. PICK r \in Runs : run[r].signal = s
    BY DEF DispatchInv, SignalsHeld
  <2>3. /\ run[r].owns /\ CategoryMatches(r)
        /\ run[r].pc \in {"record", "done", "crashed"} /\ RowFits(r)
    BY <2>1, <2>2 DEF DispatchInv, RunFits
  <2> QED
    BY <2>2, <2>3 DEF CategoryMatches, RowFits
<1> QED
  BY <1>1, DispatchInvariant, PTL

\* A row that reached an end is never written again, by a replay or by a run
\* that was already past its look-up.
THEOREM EndedForGood == DispatchSpec => EndedDispatchIsFinal
<1> DEFINE Final == \A x \in Approvals \X Trades :
                      dispatch[x].status \in Ended => dispatch'[x] = dispatch[x]
<1>1. DispatchInv /\ [DispatchNext]_dispatchVars => [Final]_dispatchVars
  <2> SUFFICES ASSUME DispatchInv, DispatchNext PROVE Final
    OBVIOUS
  <2>0. ASSUME UNCHANGED dispatch PROVE Final
    BY <2>0
  <2>1. ASSUME NEW r \in Runs, CreateDispatch(r) PROVE Final
    <3>1. CASE UNCHANGED dispatch
      BY <2>0, <3>1
    <3>2. CASE /\ DispatchIndexAdmits(Pair(r))
               /\ dispatch' = [dispatch EXCEPT ![Pair(r)] = [NoRow EXCEPT !.status = "pending"]]
      <4>1. dispatch[Pair(r)].status \notin Ended
        BY <3>2 DEF DispatchIndexAdmits, Ended
      <4> QED
        BY <3>2, <4>1 DEF DispatchInv, DispatchTypeOK
    <3> QED
      BY <2>1, <3>1, <3>2 DEF CreateDispatch
  <2>2. ASSUME NEW r \in Runs, NEW status, SetDispatch(r, status),
               run[r].pc \in {"enriched", "category", "record"}
        PROVE  Final
    <3>1. dispatch[Pair(r)].status \notin Ended
      BY <2>2 DEF DispatchInv, RunFits, RowFits, Working, Ended
    <3> QED
      BY <2>2, <3>1 DEF SetDispatch, DispatchInv, DispatchTypeOK
  <2>3. ASSUME NEW r \in Runs, Dispatch(r) PROVE Final
    BY <2>0, <2>1, <2>2, <2>3 DEF Dispatch, ResolveApproval, FindDispatch, EnrichTrade,
       RecordEnrichment, CheckCategory, PersistInputs, EvaluateCandidate, RecordBridge,
       CrashRun, At
  <2> QED
    BY <2>0, <2>3 DEF DispatchNext
<1> QED
  BY <1>1, DispatchInvariant, PTL DEF DispatchSpec, EndedDispatchIsFinal

USE SettlementAssumption, SpineAssumption

-----------------------------------------------------------------------------
(***************************************************************************)
(* The execution spine.  A run decides on reads that are many steps        *)
(* old by the time it writes; the inductive invariant says what survives:  *)
(* an authorization only moves from active to used and keeps its approval, *)
(* a run inside a transaction holds the write lock, and the unique index   *)
(* ties orders to signals.  On it rest the settlements of the positions    *)
(* and the exposure limits, each with an invariant of its own.             *)
(***************************************************************************)

(* Type correctness.                                                       *)

\* There is an unstarted settler state to choose.
LEMMA UnstartedType ==
    /\ Unstarted \in SettlerState
    /\ Unstarted.pc = "idle"
    /\ Unstarted.report = "none"
<1>1. PICK p \in Executions, s \in Sources, l \in Labels : TRUE
  OBVIOUS
<1> DEFINE st == [pc |-> "idle", position |-> p, evidence |-> [source |-> s, outcome |-> l],
                  report |-> "none"]
<1>2. st \in SettlerState /\ st.pc = "idle" /\ st.report = "none"
  BY <1>1 DEF SettlerState, Evidence
<1> QED
  BY <1>2 DEF Unstarted

\* The approval command keeps the shape of its table.
LEMMA ApprovalStepType ==
    ASSUME ApprovalTypeOK, ManageApprovals
    PROVE  ApprovalTypeOK'
<1> USE DEF ApprovalTypeOK
<1>1. ASSUME NEW a \in Approvals, CreateApproval(a) PROVE ApprovalTypeOK'
  <2>1. [exists |-> TRUE, enabled |-> TRUE, revoked |-> FALSE] \in ApprovalRow
    BY DEF ApprovalRow
  <2> QED
    BY <1>1, <2>1 DEF CreateApproval
<1>2. ASSUME NEW a \in Approvals, NEW flag \in BOOLEAN, SetEnabled(a, flag)
      PROVE  ApprovalTypeOK'
  <2>1. [approval[a] EXCEPT !.enabled = flag] \in ApprovalRow
    BY DEF ApprovalRow
  <2> QED
    BY <1>2, <2>1 DEF SetEnabled
<1>3. ASSUME NEW a \in Approvals, RevokeApproval(a) PROVE ApprovalTypeOK'
  <2>1. [approval[a] EXCEPT !.enabled = FALSE, !.revoked = TRUE] \in ApprovalRow
    BY DEF ApprovalRow
  <2> QED
    BY <1>3, <2>1 DEF RevokeApproval
<1> QED
  BY <1>1, <1>2, <1>3 DEF ManageApprovals

\* The settlement command keeps the shape of its tables.
LEMMA SettleType ==
    ASSUME SettlementTypeOK, NEW t \in Settlers, Settle(t), UNCHANGED <<orders, writer>>
    PROVE  SettlementTypeOK'
<1> USE DEF SettlementTypeOK
<1>0. settler[t] \in SettlerState
  OBVIOUS
<1>1. CASE FindPosition(t)
  <2>1. PICK p \in Executions, v \in Evidence :
          settler' = [settler EXCEPT ![t] =
             IF PositionExists(p)
             THEN [pc |-> "lookup", position |-> p, evidence |-> v, report |-> "none"]
             ELSE [Unstarted EXCEPT !.report = "blocked"]]
    BY <1>1 DEF FindPosition
  <2>2. [pc |-> "lookup", position |-> p, evidence |-> v, report |-> "none"] \in SettlerState
    BY DEF SettlerState
  <2>3. [Unstarted EXCEPT !.report = "blocked"] \in SettlerState
    BY UnstartedType DEF SettlerState
  <2> QED
    BY <1>1, <2>1, <2>2, <2>3 DEF FindPosition
<1>2. CASE LookupSettlement(t)
  <2>1. [settler[t] EXCEPT !.pc = "insert"] \in SettlerState
    BY <1>0 DEF SettlerState
  <2>2. \A x \in {"already_settled", "conflict"} :
          [settler[t] EXCEPT !.pc = "idle", !.report = x] \in SettlerState
    BY <1>0 DEF SettlerState
  <2> QED
    BY ZenonT(40), <1>2, <2>1, <2>2 DEF LookupSettlement
<1>3. CASE InsertSettlement(t)
  <2>1. settler[t].position \in Executions /\ settler[t].evidence \in Evidence
    BY DEF SettlerState
  <2>2. settledFlag' \subseteq Executions
    BY <1>3, <2>1 DEF InsertSettlement
  <2>3. [settler[t] EXCEPT !.pc = "idle", !.report = "settled"] \in SettlerState
    BY <1>0 DEF SettlerState
  <2>4. ledger' \in [Executions -> Seq(Evidence)]
    <3>1. Append(ledger[settler[t].position], settler[t].evidence) \in Seq(Evidence)
      BY <2>1
    <3> QED
      BY <1>3, <2>1, <3>1 DEF InsertSettlement, RowAdded
  <2> QED
    BY <1>3, <2>2, <2>3, <2>4 DEF InsertSettlement
<1>4. CASE CrashSettler(t)
  BY <1>4, UnstartedType DEF CrashSettler
<1> QED
  BY <1>1, <1>2, <1>3, <1>4 DEF Settle

\* A reviewer's step keeps the shape of the authorizations and of its state.
LEMMA ReviewType ==
    ASSUME SpineTypeOK, NEW r \in Reviewers, Review(r)
    PROVE  auth' \in [Signals -> AuthRow] /\ reviewer' \in [Reviewers -> ReviewerState]
<1> USE DEF SpineTypeOK
<1>1. \A code \in {"none", "ok", "failed"} : Exited(code) \in ReviewerState
  BY DEF Exited, ReviewerState
<1>2. CASE ValidateAuthorization(r)
  <2>1. PICK s \in Signals, a \in Approvals :
          reviewer' = [reviewer EXCEPT ![r] =
            IF IsActive(a) /\ evidence[s] # "ineligible" /\ <<s, a>> \in Matches
            THEN [pc |-> "select", signal |-> s, approval |-> a, exit |-> "none"]
            ELSE Exited("failed")]
    BY <1>2 DEF ValidateAuthorization
  <2>2. [pc |-> "select", signal |-> s, approval |-> a, exit |-> "none"] \in ReviewerState
    BY DEF ReviewerState
  <2> QED
    BY <1>1, <1>2, <2>1, <2>2 DEF ValidateAuthorization
<1>3. CASE SelectAuthorization(r)
  <2>1. [reviewer[r] EXCEPT !.pc = "insert"] \in ReviewerState
    BY DEF ReviewerState
  <2> QED
    BY <1>1, <1>3, <2>1 DEF SelectAuthorization
<1>4. CASE InsertAuthorization(r)
  <2>1. [status |-> "active", approval |-> reviewer[r].approval] \in AuthRow
    BY DEF ReviewerState, AuthRow
  <2> QED
    BY <1>1, <1>4, <2>1 DEF InsertAuthorization
<1>5. CASE ReadForRevocation(r)
  <2>1. \A s \in Signals :
          [pc |-> "revoke", signal |-> s, approval |-> NoApproval, exit |-> "none"] \in ReviewerState
    BY DEF ReviewerState
  <2> QED
    BY <1>1, <1>5, <2>1 DEF ReadForRevocation
<1>6. CASE RevokeAuthorization(r) \/ CrashReviewer(r)
  BY <1>1, <1>6 DEF RevokeAuthorization, CrashReviewer
<1> QED
  BY <1>2, <1>3, <1>4, <1>5, <1>6 DEF Review
\* A process that has started knows its signal, and a reviewer about to issue
\* an authorization knows the approval; the types alone do not say so.
SubjectsKnown ==
    /\ \A e \in Executions : exec[e].pc # "idle" => exec[e].signal \in Signals
    /\ \A r \in Reviewers : reviewer[r].pc \in {"select", "insert"} =>
          reviewer[r].signal \in Signals /\ reviewer[r].approval \in Approvals

\* A step of a run keeps the shape of its state.
LEMMA ExecType ==
    ASSUME SpineTypeOK, SubjectsKnown, NEW e \in Executions, Execute(e)
    PROVE  exec' \in [Executions -> ExecState]
<1>0. exec \in [Executions -> ExecState] /\ exec[e] \in ExecState
  BY DEF SpineTypeOK
<1>1. CASE StartExecution(e)
  <2>1. PICK s \in Signals, dry \in BOOLEAN :
          exec' = [exec EXCEPT ![e] = [@ EXCEPT
             !.signal = s,
             !.dry = dry,
             !.pc = IF OrdersOf(s) = {} THEN "auth" ELSE "done",
             !.status = IF OrdersOf(s) = {} THEN "none" ELSE "already_executed"]]
    BY <1>1 DEF StartExecution
  <2>2. \A p \in {"auth", "done"}, u \in {"none", "already_executed"} :
          [exec[e] EXCEPT !.signal = s, !.dry = dry, !.pc = p, !.status = u] \in ExecState
    BY <1>0 DEF ExecState
  <2> QED
    BY <1>0, <2>1, <2>2
<1>2. CASE ReadAuthorization(e)
  <2>1. auth[exec[e].signal].approval \in Approvals \cup {NoApproval}
    BY <1>2 DEF ReadAuthorization, SubjectsKnown, SpineTypeOK, AuthRow
  <2>2. [exec[e] EXCEPT !.pc = "approval", !.approval = auth[exec[e].signal].approval] \in ExecState
    BY <1>0, <2>1 DEF ExecState
  <2>3. [exec[e] EXCEPT !.pc = "evidence", !.clear = FALSE] \in ExecState
    BY <1>0 DEF ExecState
  <2> QED
    BY <1>0, <1>2, <2>2, <2>3 DEF ReadAuthorization
<1>3. CASE ReadApproval(e)
  <2>1. /\ [exec[e] EXCEPT !.pc = "evidence", !.clear = exec[e].clear] \in ExecState
        /\ [exec[e] EXCEPT !.pc = "evidence", !.clear = FALSE] \in ExecState
    BY <1>0 DEF ExecState
  <2> QED
    BY <1>0, <1>3, <2>1 DEF ReadApproval
<1>4. CASE ReadEvidence(e)
  <2>1. /\ [exec[e] EXCEPT !.pc = "existing", !.clear = exec[e].clear] \in ExecState
        /\ [exec[e] EXCEPT !.pc = "existing", !.clear = FALSE] \in ExecState
    BY <1>0 DEF ExecState
  <2> QED
    BY <1>0, <1>4, <2>1 DEF ReadEvidence
<1>5. CASE CheckExisting(e)
  <2>1. /\ [exec[e] EXCEPT !.pc = "exposure"] \in ExecState
        /\ [exec[e] EXCEPT !.pc = "close", !.status = "already_executed"] \in ExecState
    BY <1>0 DEF ExecState
  <2> QED
    BY <1>0, <1>5, <2>1 DEF CheckExisting
<1>6. CASE ReadExposure(e)
  <2> DEFINE k == NextScope(e)
             counted == {o \in Unsettled : Counts(k, exec[e].signal, o)}
  <2>1. k \in Scopes
    BY DEF NextScope, Scopes
  <2>2. counted \in SUBSET Executions
    BY DEF Unsettled, SpineTypeOK, SettlementTypeOK
  <2> HIDE DEF k, counted
  <2>3. [exec[e].seen EXCEPT ![k] = counted] \in [Scopes -> SUBSET Executions]
    BY <1>0, <2>1, <2>2 DEF ExecState
  <2>4. exec[e].read \cup {k} \in SUBSET Scopes
    BY <1>0, <2>1 DEF ExecState
  <2> DEFINE rec == [exec[e] EXCEPT !.read = exec[e].read \cup {k},
                                    !.seen = [exec[e].seen EXCEPT ![k] = counted],
                                    !.pc = IF k = "global" THEN "persist" ELSE "exposure"]
  <2>5. rec \in ExecState
    BY <1>0, <2>3, <2>4 DEF ExecState
  <2>6. exec' = [exec EXCEPT ![e] = rec]
    BY <1>6 DEF ReadExposure, k, counted
  <2> HIDE DEF rec
  <2> QED
    BY <1>0, <2>5, <2>6
<1>7. CASE PersistDecision(e)
  <2>1. \A d \in {"allow", "block"}, p \in {"write", "close"},
           u \in {"blocked", "dry_run_allowed", "none"} :
          [exec[e] EXCEPT !.staged = d, !.pc = p, !.status = u] \in ExecState
    BY ZenonT(40), <1>0 DEF ExecState
  <2> QED
    BY <1>0, <1>7, <2>1 DEF PersistDecision
<1>8. CASE WriteExecution(e) \/ CloseConnection(e) \/ CrashExecution(e)
  <2>1. \A u \in {"executed", "blocked", "crashed"} :
          [exec[e] EXCEPT !.pc = "done", !.staged = "none", !.status = u] \in ExecState
    BY <1>0 DEF ExecState
  <2>2. [exec[e] EXCEPT !.pc = "done", !.staged = "none"] \in ExecState
    BY <1>0 DEF ExecState
  <2>3. CASE WriteExecution(e)
    BY <1>0, <2>1, <2>3 DEF WriteExecution
  <2>4. CASE CloseConnection(e)
    BY <1>0, <2>2, <2>4 DEF CloseConnection
  <2>5. CASE CrashExecution(e)
    BY <1>0, <2>1, <2>5 DEF CrashExecution
  <2> QED
    BY <1>8, <2>3, <2>4, <2>5
<1> QED
  BY <1>1, <1>2, <1>3, <1>4, <1>5, <1>6, <1>7, <1>8 DEF Execute, ProceedExecution

\* Nor does it spoil the tables it writes.
LEMMA ExecTables ==
    ASSUME SpineTypeOK, SubjectsKnown, NEW e \in Executions, Execute(e)
    PROVE  /\ orders' \subseteq Executions
           /\ writer' \in Executions \cup {NoOne}
           /\ auth' \in [Signals -> AuthRow]
           /\ decisions' \subseteq Executions \X {"allow", "block"}
           /\ UNCHANGED <<approval, ledger, settledFlag, settler, evidence, reviewer>>
<1> USE DEF SpineTypeOK, SettlementTypeOK, stored, settlementVars
<1>1. CASE StartExecution(e)
  BY <1>1 DEF StartExecution
<1>2. CASE ReadAuthorization(e) \/ ReadApproval(e) \/ ReadEvidence(e)
  BY <1>2 DEF ReadAuthorization, ReadApproval, ReadEvidence
<1>3. CASE CheckExisting(e) \/ ReadExposure(e)
  BY <1>3 DEF CheckExisting, ReadExposure
<1>4. CASE PersistDecision(e)
  BY <1>4 DEF PersistDecision
<1>5. CASE WriteExecution(e)
  <2>1. exec[e].signal \in Signals
    BY <1>5 DEF WriteExecution, SubjectsKnown
  <2>2. Consumed(auth[exec[e].signal]) \in AuthRow
    <3>1. auth[exec[e].signal] \in AuthRow
      BY <2>1
    <3> QED
      BY <3>1 DEF Consumed, AuthRow
  <2>3. auth' = auth \/ auth' = [auth EXCEPT ![exec[e].signal] = Consumed(@)]
    BY <1>5 DEF WriteExecution
  <2>4. orders' \subseteq Executions /\ decisions' \subseteq Executions \X {"allow", "block"}
    BY <1>5 DEF WriteExecution
  <2>5. auth' \in [Signals -> AuthRow]
    BY <2>1, <2>2, <2>3
  <2> QED
    BY <1>5, <2>4, <2>5 DEF WriteExecution
<1>6. CASE CloseConnection(e)
  <2>1. exec[e].staged # "none" => exec[e].staged \in {"allow", "block"}
    BY DEF ExecState
  <2>2. decisions' \subseteq Executions \X {"allow", "block"}
    BY <1>6, <2>1 DEF CloseConnection
  <2>3. writer' \in Executions \cup {NoOne}
    BY <1>6 DEF CloseConnection, LockAfter
  <2> QED
    BY <1>6, <2>2, <2>3 DEF CloseConnection
<1>7. CASE CrashExecution(e)
  BY <1>7 DEF CrashExecution, LockAfter
<1> QED
  BY <1>1, <1>2, <1>3, <1>4, <1>5, <1>6, <1>7 DEF Execute, ProceedExecution
-----------------------------------------------------------------------------
(* The steps of a run, field by field.                                     *)

\* A step of one run leaves the others alone.
LEMMA OthersUnmoved ==
    ASSUME NEW e \in Executions, exec \in [Executions -> ExecState], Execute(e),
           NEW d \in Executions, d # e
    PROVE  exec'[d] = exec[d]
  BY DEF Execute, ProceedExecution, StartExecution, ReadAuthorization, ReadApproval,
     ReadEvidence, CheckExisting, ReadExposure, PersistDecision, WriteExecution,
     CloseConnection, CrashExecution

\* What each step of a run does to the parts of its state the proofs look at.
LEMMA StartFacts ==
    ASSUME NEW e \in Executions, exec \in [Executions -> ExecState], StartExecution(e)
    PROVE  /\ exec[e].pc = "idle"
           /\ exec'[e].pc \in {"auth", "done"}
           /\ exec'[e].signal \in Signals
           /\ exec'[e].approval = exec[e].approval
           /\ exec'[e].staged = exec[e].staged
<1>1. exec[e] \in ExecState
  OBVIOUS
<1>2. PICK s \in Signals, dry \in BOOLEAN, p \in {"auth", "done"}, u \in {"none", "already_executed"} :
        exec'[e] = [exec[e] EXCEPT !.signal = s, !.dry = dry, !.pc = p, !.status = u]
  BY ZenonT(40) DEF StartExecution
<1> QED
  BY <1>1, <1>2 DEF StartExecution, ExecState

\* Step 3: the run takes the approval of an active authorization, or is no
\* longer clear.
LEMMA ReadAuthorizationFacts ==
    ASSUME NEW e \in Executions, exec \in [Executions -> ExecState], ReadAuthorization(e)
    PROVE  /\ exec[e].pc = "auth"
           /\ exec'[e].signal = exec[e].signal
           /\ exec'[e].staged = exec[e].staged
           /\ \/ /\ auth[exec[e].signal].status = "active"
                 /\ exec'[e].pc = "approval"
                 /\ exec'[e].approval = auth[exec[e].signal].approval
              \/ /\ exec'[e].pc = "evidence"
                 /\ exec'[e].approval = exec[e].approval
                 /\ exec'[e].clear = FALSE
<1>1. exec[e] \in ExecState
  OBVIOUS
<1>2. CASE auth[exec[e].signal].status = "active"
  <2>1. exec'[e] = [exec[e] EXCEPT !.pc = "approval", !.approval = auth[exec[e].signal].approval]
    BY <1>2 DEF ReadAuthorization
  <2> QED
    BY <1>1, <1>2, <2>1 DEF ReadAuthorization, ExecState
<1>3. CASE auth[exec[e].signal].status # "active"
  <2>1. exec'[e] = [exec[e] EXCEPT !.pc = "evidence", !.clear = FALSE]
    BY <1>3 DEF ReadAuthorization
  <2> QED
    BY <1>1, <2>1 DEF ReadAuthorization, ExecState
<1> QED
  BY <1>2, <1>3

\* The other reads change neither what the run is about nor what it staged, and
\* never clear a reason to block.
LEMMA ReadFacts ==
    ASSUME NEW e \in Executions, exec \in [Executions -> ExecState],
           ReadApproval(e) \/ ReadEvidence(e) \/ CheckExisting(e) \/ ReadExposure(e)
    PROVE  /\ exec[e].pc \in {"approval", "evidence", "existing", "exposure"}
           /\ exec'[e].pc \in {"evidence", "existing", "exposure", "persist", "close"}
           /\ exec'[e].signal = exec[e].signal
           /\ exec'[e].approval = exec[e].approval
           /\ exec'[e].staged = exec[e].staged
           /\ exec'[e].clear => exec[e].clear
<1>1. exec[e] \in ExecState
  OBVIOUS
<1>2. CASE ReadApproval(e)
  <2>1. /\ exec[e].pc = "approval"
        /\ \/ exec'[e] = [exec[e] EXCEPT !.pc = "evidence", !.clear = exec[e].clear]
           \/ exec'[e] = [exec[e] EXCEPT !.pc = "evidence", !.clear = FALSE]
    <3>1. CASE IsActive(exec[e].approval)
      BY <1>1, <1>2, <3>1 DEF ReadApproval
    <3>2. CASE ~IsActive(exec[e].approval)
      BY <1>1, <1>2, <3>2 DEF ReadApproval
    <3> QED
      BY <3>1, <3>2
  <2> QED
    BY ZenonT(40), <1>1, <2>1 DEF ExecState
<1>3. CASE ReadEvidence(e)
  <2>1. /\ exec[e].pc = "evidence"
        /\ \/ exec'[e] = [exec[e] EXCEPT !.pc = "existing", !.clear = exec[e].clear]
           \/ exec'[e] = [exec[e] EXCEPT !.pc = "existing", !.clear = FALSE]
    <3>1. CASE evidence[exec[e].signal] = "current" /\ LimitsConfigured
      BY <1>1, <1>3, <3>1 DEF ReadEvidence
    <3>2. CASE ~(evidence[exec[e].signal] = "current" /\ LimitsConfigured)
      BY <1>1, <1>3, <3>2 DEF ReadEvidence
    <3> QED
      BY <3>1, <3>2
  <2> QED
    BY ZenonT(40), <1>1, <2>1 DEF ExecState
<1>4. CASE CheckExisting(e)
  <2>1. /\ exec[e].pc = "existing"
        /\ \/ exec'[e] = [exec[e] EXCEPT !.pc = "exposure"]
           \/ exec'[e] = [exec[e] EXCEPT !.pc = "close", !.status = "already_executed"]
    BY <1>1, <1>4 DEF CheckExisting
  <2> QED
    BY ZenonT(40), <1>1, <2>1 DEF ExecState
<1>5. CASE ReadExposure(e)
  <2> DEFINE k == NextScope(e)
             kinds == exec[e].read \cup {k}
             seen == [exec[e].seen EXCEPT ![k] = {o \in Unsettled : Counts(k, exec[e].signal, o)}]
  <2>1. exec[e].pc = "exposure"
    BY <1>5 DEF ReadExposure
  <2>2. exec'[e] = [exec[e] EXCEPT !.read = kinds, !.seen = seen,
                                   !.pc = IF k = "global" THEN "persist" ELSE "exposure"]
    BY <1>5 DEF ReadExposure
  <2> HIDE DEF k, kinds, seen
  <2> QED
    BY <1>1, <2>1, <2>2 DEF ExecState
<1> QED
  BY <1>2, <1>3, <1>4, <1>5

\* A decision is staged; only a run that is still clear goes on to write.
LEMMA PersistFacts ==
    ASSUME NEW e \in Executions, exec \in [Executions -> ExecState], PersistDecision(e)
    PROVE  /\ exec[e].pc = "persist"
           /\ exec'[e].signal = exec[e].signal
           /\ exec'[e].approval = exec[e].approval
           /\ exec'[e].staged # "none"
           /\ \/ exec'[e].pc = "write" /\ exec'[e].staged = "allow" /\ exec[e].clear
              \/ exec'[e].pc = "close" /\ exec'[e].status \in {"blocked", "dry_run_allowed"}
<1>1. exec[e] \in ExecState
  OBVIOUS
<1>2. CASE Allowed(e) /\ ~exec[e].dry
  <2>1. exec'[e] = [exec[e] EXCEPT !.staged = "allow", !.pc = "write", !.status = "none"]
    BY <1>2 DEF PersistDecision
  <2> QED
    BY <1>1, <1>2, <2>1 DEF PersistDecision, ExecState, Allowed
<1>3. CASE Allowed(e) /\ exec[e].dry
  <2>1. exec'[e] = [exec[e] EXCEPT !.staged = "allow", !.pc = "close",
                                   !.status = "dry_run_allowed"]
    BY <1>3 DEF PersistDecision
  <2>2. exec[e].pc = "persist"
    BY DEF PersistDecision
  <2> QED
    BY <1>1, <2>1, <2>2 DEF ExecState
<1>4. CASE ~Allowed(e)
  <2>1. exec'[e] = [exec[e] EXCEPT !.staged = "block", !.pc = "close", !.status = "blocked"]
    BY <1>4 DEF PersistDecision
  <2> QED
    BY <1>1, <1>4, <2>1 DEF PersistDecision, ExecState
<1> QED
  BY <1>2, <1>3, <1>4

\* However a run ends, it has nothing staged any more.
LEMMA EndFacts ==
    ASSUME NEW e \in Executions, exec \in [Executions -> ExecState],
           WriteExecution(e) \/ CloseConnection(e) \/ CrashExecution(e)
    PROVE  /\ exec[e].pc \notin {"idle", "done"}
           /\ exec'[e].pc = "done"
           /\ exec'[e].staged = "none"
           /\ exec'[e].signal = exec[e].signal
           /\ exec'[e].approval = exec[e].approval
<1>1. exec[e] \in ExecState
  OBVIOUS
<1>2. CASE WriteExecution(e)
  <2>1. PICK u : exec'[e] = [exec[e] EXCEPT !.pc = "done", !.staged = "none", !.status = u]
    BY <1>2 DEF WriteExecution
  <2> QED
    BY <1>1, <1>2, <2>1 DEF WriteExecution, ExecState
<1>3. CASE CloseConnection(e)
  BY <1>1, <1>3 DEF CloseConnection, ExecState
<1>4. CASE CrashExecution(e)
  BY <1>1, <1>4 DEF CrashExecution, ExecState
<1> QED
  BY <1>2, <1>3, <1>4
-----------------------------------------------------------------------------

\* What a started process knows it keeps.
LEMMA SubjectsStayKnown ==
    ASSUME SpineTypeOK, SubjectsKnown, [Next]_vars
    PROVE  SubjectsKnown'
<1> USE DEF SubjectsKnown, SpineTypeOK
<1>1. ASSUME NEW e \in Executions, Execute(e) PROVE SubjectsKnown'
  <2>1. \A d \in Executions : d # e => exec'[d] = exec[d]
    BY <1>1, OthersUnmoved
  <2>2. exec'[e].signal \in Signals
    <3>1. CASE StartExecution(e)
      BY <3>1, StartFacts
    <3>2. CASE ReadAuthorization(e)
      BY <3>2, ReadAuthorizationFacts
    <3>3. CASE ReadApproval(e) \/ ReadEvidence(e) \/ CheckExisting(e) \/ ReadExposure(e)
      BY <3>3, ReadFacts
    <3>4. CASE PersistDecision(e)
      BY <3>4, PersistFacts
    <3>5. CASE WriteExecution(e) \/ CloseConnection(e) \/ CrashExecution(e)
      BY <3>5, EndFacts
    <3> QED
      BY <1>1, <3>1, <3>2, <3>3, <3>4, <3>5 DEF Execute, ProceedExecution
  <2> QED
    BY <1>1, <2>1, <2>2, ExecTables
<1>2. ASSUME NEW r \in Reviewers, Review(r) PROVE SubjectsKnown'
  <2>1. \A q \in Reviewers : q # r => reviewer'[q] = reviewer[q]
    BY <1>2 DEF Review, ValidateAuthorization, SelectAuthorization, InsertAuthorization,
         ReadForRevocation, RevokeAuthorization, CrashReviewer
  <2>2. \A code : Exited(code).pc = "idle"
    BY DEF Exited
  <2>3. reviewer'[r].pc \in {"select", "insert"} =>
          reviewer'[r].signal \in Signals /\ reviewer'[r].approval \in Approvals
    <3>1. CASE ValidateAuthorization(r)
      BY <2>2, <3>1 DEF ValidateAuthorization
    <3>2. CASE SelectAuthorization(r)
      BY <2>2, <3>2 DEF SelectAuthorization, ReviewerState
    <3>3. CASE InsertAuthorization(r) \/ RevokeAuthorization(r) \/ CrashReviewer(r)
      BY <2>2, <3>3 DEF InsertAuthorization, RevokeAuthorization, CrashReviewer
    <3>4. CASE ReadForRevocation(r)
      BY <2>2, <3>4 DEF ReadForRevocation
    <3> QED
      BY <1>2, <3>1, <3>2, <3>3, <3>4 DEF Review
  <2>4. exec' = exec
    BY <1>2 DEF Review, ValidateAuthorization, SelectAuthorization, InsertAuthorization,
       ReadForRevocation, RevokeAuthorization, CrashReviewer, spineRest
  <2> QED
    BY <2>1, <2>3, <2>4
<1>3. CASE ApprovalStep
  BY <1>3 DEF ApprovalStep
<1>4. ASSUME NEW s \in Volatile, EvidenceChanges(s) PROVE SubjectsKnown'
  BY <1>4 DEF EvidenceChanges
<1>5. ASSUME NEW t \in Settlers, SettleStep(t) PROVE SubjectsKnown'
  BY <1>5 DEF SettleStep
<1>6. CASE UNCHANGED vars
  BY <1>6 DEF vars
<1> QED
  BY <1>1, <1>2, <1>3, <1>4, <1>5, <1>6 DEF Next

\* Type correctness of the spine with all its actors.
THEOREM TypeCorrect == Spec => [](SpineTypeOK /\ SubjectsKnown)
<1>1. SpineInit => SpineTypeOK /\ SubjectsKnown
  <2> SUFFICES ASSUME SpineInit PROVE SpineTypeOK /\ SubjectsKnown
    OBVIOUS
  <2>1. ApprovalTypeOK
    BY DEF SpineInit, ApprovalInit, Unissued, ApprovalTypeOK, ApprovalRow
  <2>2. SettlementTypeOK
    BY UnstartedType DEF SpineInit, SettlementInit, SettlementTypeOK
  <2>3. FreshExec \in ExecState /\ FreshExec.pc = "idle"
    BY DEF FreshExec, ExecState
  <2>4. Exited("none") \in ReviewerState /\ Exited("none").pc = "idle"
    BY DEF Exited, ReviewerState
  <2>5. NoAuth \in AuthRow
    BY DEF NoAuth, AuthRow
  <2> QED
    BY <2>1, <2>2, <2>3, <2>4, <2>5 DEF SpineInit, SpineTypeOK, EvidenceState, SubjectsKnown
<1>2. SpineTypeOK /\ SubjectsKnown /\ [Next]_vars => SpineTypeOK' /\ SubjectsKnown'
  <2> SUFFICES ASSUME SpineTypeOK, SubjectsKnown, [Next]_vars PROVE SpineTypeOK'
    BY SubjectsStayKnown
  <2>1. ASSUME NEW e \in Executions, Execute(e) PROVE SpineTypeOK'
    BY <2>1, ExecType, ExecTables DEF SpineTypeOK, ApprovalTypeOK, SettlementTypeOK
  <2>2. ASSUME NEW r \in Reviewers, Review(r) PROVE SpineTypeOK'
    <3>1. UNCHANGED spineRest
      BY <2>2 DEF Review, ValidateAuthorization, SelectAuthorization, InsertAuthorization,
         ReadForRevocation, RevokeAuthorization, CrashReviewer
    <3> QED
      BY <2>2, <3>1, ReviewType
         DEF SpineTypeOK, ApprovalTypeOK, SettlementTypeOK, spineRest, settlementVars
  <2>3. CASE ApprovalStep
    BY <2>3, ApprovalStepType DEF ApprovalStep, SpineTypeOK, SettlementTypeOK, settlementVars
  <2>4. ASSUME NEW s \in Volatile, EvidenceChanges(s) PROVE SpineTypeOK'
    BY <2>4 DEF EvidenceChanges, SpineTypeOK, ApprovalTypeOK, SettlementTypeOK, settlementVars
  <2>5. ASSUME NEW t \in Settlers, SettleStep(t) PROVE SpineTypeOK'
    BY <2>5, SettleType DEF SettleStep, SpineTypeOK, ApprovalTypeOK
  <2>6. CASE UNCHANGED vars
    BY <2>6 DEF vars, SpineTypeOK, ApprovalTypeOK, SettlementTypeOK, settlementVars
  <2> QED
    BY <2>1, <2>2, <2>3, <2>4, <2>5, <2>6 DEF Next
<1> QED
  BY <1>1, <1>2, PTL DEF Spec
-----------------------------------------------------------------------------
(* The inductive invariant.                                                *)

\* Rows of the authorization table are active or used, and name an approval.
IssuedRows ==
    \A s \in Signals : auth[s].status # "none" =>
        auth[s].status \in {"active", "used"} /\ auth[s].approval \in Approvals

\* The approval a run read is still the one its signal's authorization names,
\* and a run that may yet write has read one.
AuthorityRead ==
    \A e \in Executions :
        /\ exec[e].pc \in {"idle", "auth"} => exec[e].approval = NoApproval
        /\ exec[e].approval # NoApproval =>
              /\ auth[exec[e].signal].status \in {"active", "used"}
              /\ auth[exec[e].signal].approval = exec[e].approval
        /\ exec[e].pc \in {"approval", "write"} => exec[e].approval # NoApproval
        /\ exec[e].pc \in {"evidence", "existing", "exposure", "persist"} /\ exec[e].clear
              => exec[e].approval # NoApproval

\* A run has uncommitted writes exactly while it holds the write lock, and the
\* transactions that end by closing the connection are never committed.
Transactions ==
    \A e \in Executions :
        /\ exec[e].staged # "none" => exec[e].pc \in {"write", "close"}
        /\ exec[e].pc = "write" => exec[e].staged = "allow"
        /\ exec[e].pc = "close" /\ exec[e].staged # "none" =>
              exec[e].status \in {"blocked", "dry_run_allowed"}
        /\ exec[e].staged # "none" <=> writer = e

\* A run that placed an order is over.
OrdersDone == \A o \in orders : exec[o].pc = "done"

TypeInv == SpineTypeOK /\ SubjectsKnown

IInv ==
    /\ TypeInv
    /\ IssuedRows
    /\ AuthorityRead
    /\ Transactions
    /\ OrdersDone
    /\ OneOrderPerSignal
    /\ UsedIffOrdered
    /\ AllowedIffOrdered

\* The signal of a started run, and all of a finished one, never change.
LEMMA RunsKeepSignal ==
    ASSUME TypeInv, NEW e \in Executions, Execute(e), NEW d \in Executions
    PROVE  /\ exec[d].pc # "idle" => exec'[d].signal = exec[d].signal
           /\ exec[d].pc = "done" => exec'[d] = exec[d]
<1>0. exec \in [Executions -> ExecState]
  BY DEF TypeInv, SpineTypeOK
<1>1. CASE d # e
  BY <1>0, <1>1, OthersUnmoved
<1>2. CASE d = e
  <2>1. CASE StartExecution(e)
    BY <1>0, <1>2, <2>1, StartFacts
  <2>2. CASE ReadAuthorization(e)
    BY <1>0, <1>2, <2>2, ReadAuthorizationFacts
  <2>3. CASE ReadApproval(e) \/ ReadEvidence(e) \/ CheckExisting(e) \/ ReadExposure(e)
    BY <1>0, <1>2, <2>3, ReadFacts
  <2>4. CASE PersistDecision(e)
    BY <1>0, <1>2, <2>4, PersistFacts
  <2>5. CASE WriteExecution(e) \/ CloseConnection(e) \/ CrashExecution(e)
    BY <1>0, <1>2, <2>5, EndFacts
  <2> QED
    BY <2>1, <2>2, <2>3, <2>4, <2>5 DEF Execute, ProceedExecution
<1> QED
  BY <1>1, <1>2

\* A run changes orders, decisions and authorizations in one step or not at
\* all, and it writes under an authorization that is active.
LEMMA WriteFacts ==
    ASSUME IInv, NEW e \in Executions, WriteExecution(e)
    PROVE  /\ exec[e].pc = "write" /\ exec[e].signal \in Signals /\ writer' = NoOne
           /\ \/ /\ OrdersOf(exec[e].signal) = {}
                 /\ auth[exec[e].signal].status = "active"
                 /\ auth[exec[e].signal].approval = exec[e].approval
                 /\ orders' = orders \cup {e}
                 /\ decisions' = decisions \cup {<<e, "allow">>}
                 /\ auth'[exec[e].signal].status = "used"
                 /\ auth'[exec[e].signal].approval = exec[e].approval
                 /\ \A s \in Signals : s # exec[e].signal => auth'[s] = auth[s]
              \/ UNCHANGED <<orders, decisions, auth>>
<1> DEFINE s == exec[e].signal
<1>1. exec[e].pc = "write" /\ s \in Signals /\ writer' = NoOne
  BY DEF WriteExecution, IInv, TypeInv, SubjectsKnown
<1>2. CASE OrdersOf(s) # {}
  BY <1>1, <1>2 DEF WriteExecution, OrderIndexAdmits
<1>3. CASE OrdersOf(s) = {}
  <2>1. auth[s].status # "used"
    BY <1>1, <1>3 DEF IInv, UsedIffOrdered
  <2>2. auth[s].status = "active" /\ auth[s].approval = exec[e].approval
    BY <1>1, <2>1 DEF IInv, AuthorityRead
  <2>3. /\ orders' = orders \cup {e}
        /\ decisions' = decisions \cup {<<e, "allow">>}
        /\ auth' = [auth EXCEPT ![s] = Consumed(@)]
    BY <1>3 DEF WriteExecution, OrderIndexAdmits
  <2>4. auth \in [Signals -> AuthRow] /\ auth[s] \in AuthRow
    BY <1>1 DEF IInv, TypeInv, SpineTypeOK
  <2>5. Consumed(auth[s]).status = "used" /\ Consumed(auth[s]).approval = auth[s].approval
    BY <2>4 DEF Consumed, AuthRow
  <2>6. auth'[s] = Consumed(auth[s]) /\ \A r \in Signals : r # s => auth'[r] = auth[r]
    BY <1>1, <2>3, <2>4
  <2> QED
    BY <1>1, <1>3, <2>2, <2>3, <2>5, <2>6
<1> QED
  BY <1>1, <1>2, <1>3

\* Every other step of a run leaves the tables it writes alone.
LEMMA OnlyWritesWrite ==
    ASSUME IInv, NEW e \in Executions, Execute(e), ~WriteExecution(e)
    PROVE  UNCHANGED <<orders, decisions, auth>>
<1>1. CASE CloseConnection(e)
  BY <1>1 DEF CloseConnection, IInv, Transactions, CommitsFor
<1>2. CASE ~CloseConnection(e)
  BY <1>2 DEF Execute, ProceedExecution, StartExecution, ReadAuthorization, ReadApproval,
     ReadEvidence, CheckExisting, ReadExposure, PersistDecision, CrashExecution, stored
<1> QED
  BY <1>1, <1>2
-----------------------------------------------------------------------------
(* Each part of the invariant under a step of a run.                       *)

\* A run never returns an authorization to "none".
LEMMA ExecuteKeepsIssuedRows ==
    ASSUME IInv, NEW e \in Executions, Execute(e)
    PROVE  IssuedRows'
<1>1. CASE WriteExecution(e)
  BY <1>1, WriteFacts DEF IInv, IssuedRows
<1>2. CASE ~WriteExecution(e)
  BY <1>2, OnlyWritesWrite DEF IInv, IssuedRows
<1> QED
  BY <1>1, <1>2

\* An authorization that is used stays so, and none changes its approval.
LEMMA ExecuteKeepsApprovals ==
    ASSUME IInv, NEW e \in Executions, Execute(e), NEW s \in Signals,
           auth[s].status \in {"active", "used"}
    PROVE  auth'[s].status \in {"active", "used"} /\ auth'[s].approval = auth[s].approval
<1>1. CASE WriteExecution(e)
  BY <1>1, WriteFacts
<1>2. CASE ~WriteExecution(e)
  BY <1>2, OnlyWritesWrite
<1> QED
  BY <1>1, <1>2

\* A run keeps the link between the approval it read and its authorization.
LEMMA ExecuteKeepsAuthorityRead ==
    ASSUME IInv, NEW e \in Executions, Execute(e)
    PROVE  AuthorityRead'
<1> DEFINE Good(d) ==
      /\ exec[d].pc \in {"idle", "auth"} => exec[d].approval = NoApproval
      /\ exec[d].approval # NoApproval =>
            /\ auth[exec[d].signal].status \in {"active", "used"}
            /\ auth[exec[d].signal].approval = exec[d].approval
      /\ exec[d].pc \in {"approval", "write"} => exec[d].approval # NoApproval
      /\ exec[d].pc \in {"evidence", "existing", "exposure", "persist"} /\ exec[d].clear
            => exec[d].approval # NoApproval
<1>0. exec \in [Executions -> ExecState]
  BY DEF IInv, TypeInv, SpineTypeOK
<1>1. \A d \in Executions : exec[d].approval # NoApproval => exec[d].signal \in Signals
  BY DEF IInv, TypeInv, SubjectsKnown, AuthorityRead
<1>2. \A d \in Executions : Good(d)
  BY DEF IInv, AuthorityRead
<1>3. ASSUME NEW d \in Executions, d # e PROVE Good(d)'
  <2>1. exec'[d] = exec[d]
    BY <1>0, <1>3, OthersUnmoved
  <2>2. exec[d].approval # NoApproval =>
          /\ auth'[exec[d].signal].status \in {"active", "used"}
          /\ auth'[exec[d].signal].approval = exec[d].approval
    BY <1>1, <1>2, ExecuteKeepsApprovals
  <2> QED
    BY <1>2, <2>1, <2>2
<1>4. Good(e)'
  <2>0. Good(e)
    BY <1>2
  <2>1. CASE StartExecution(e)
    BY <1>0, <2>0, <2>1, StartFacts
  <2>2. CASE ReadAuthorization(e)
    <3>1. exec[e].signal \in Signals /\ auth' = auth /\ exec[e].approval = NoApproval
      BY <2>0, <2>2 DEF ReadAuthorization, stored, IInv, TypeInv, SubjectsKnown
    <3>2. auth[exec[e].signal].status = "active" => auth[exec[e].signal].approval # NoApproval
      BY <3>1 DEF IInv, IssuedRows
    <3> QED
      BY <1>0, <2>0, <2>2, <3>1, <3>2, ReadAuthorizationFacts
  <2>3. CASE ReadApproval(e) \/ ReadEvidence(e) \/ CheckExisting(e) \/ ReadExposure(e)
    <3>1. auth' = auth
      BY <2>3 DEF ReadApproval, ReadEvidence, CheckExisting, ReadExposure, stored
    <3> QED
      BY <1>0, <2>0, <2>3, <3>1, ReadFacts
  <2>4. CASE PersistDecision(e)
    <3>1. auth' = auth
      BY <2>4 DEF PersistDecision, stored
    <3> QED
      BY <1>0, <2>0, <2>4, <3>1, PersistFacts
  <2>5. CASE WriteExecution(e) \/ CloseConnection(e) \/ CrashExecution(e)
    <3>1. exec[e].approval # NoApproval =>
            /\ auth'[exec[e].signal].status \in {"active", "used"}
            /\ auth'[exec[e].signal].approval = exec[e].approval
      BY <1>1, <2>0, ExecuteKeepsApprovals
    <3> QED
      BY <1>0, <2>0, <2>5, <3>1, EndFacts
  <2> QED
    BY <2>1, <2>2, <2>3, <2>4, <2>5 DEF Execute, ProceedExecution
<1> QED
  BY <1>3, <1>4 DEF AuthorityRead

\* A run keeps the discipline of the write lock: who has staged something holds
\* it, and the other way round.
LEMMA ExecuteKeepsTransactions ==
    ASSUME IInv, NEW e \in Executions, Execute(e)
    PROVE  Transactions'
<1> DEFINE Good(d) ==
      /\ exec[d].staged # "none" => exec[d].pc \in {"write", "close"}
      /\ exec[d].pc = "write" => exec[d].staged = "allow"
      /\ exec[d].pc = "close" /\ exec[d].staged # "none" =>
            exec[d].status \in {"blocked", "dry_run_allowed"}
      /\ exec[d].staged # "none" <=> writer = d
<1>0. exec \in [Executions -> ExecState] /\ e # NoOne
  BY DEF IInv, TypeInv, SpineTypeOK
<1>1. \A d \in Executions : Good(d)
  BY DEF IInv, Transactions
<1>2. writer' = writer \/ (writer = NoOne /\ writer' = e) \/ (writer = e /\ writer' = NoOne)
  <2>1. CASE WriteExecution(e)
    <3>1. exec[e].pc = "write" /\ exec[e].staged = "allow"
      BY <1>1, <2>1 DEF WriteExecution
    <3>2. writer = e
      BY <1>1, <3>1
    <3> QED
      BY <2>1, <3>2 DEF WriteExecution
  <2>2. CASE ~WriteExecution(e)
    BY <2>2 DEF Execute, ProceedExecution, StartExecution, ReadAuthorization, ReadApproval,
       ReadEvidence, CheckExisting, ReadExposure, PersistDecision, CloseConnection,
       CrashExecution, LockAfter
  <2> QED
    BY <2>1, <2>2
<1>3. ASSUME NEW d \in Executions, d # e PROVE Good(d)'
  <2>1. exec'[d] = exec[d]
    BY <1>0, <1>3, OthersUnmoved
  <2>2. writer' = d <=> writer = d
    BY <1>2, <1>3, SettlementAssumption
  <2> QED
    BY <1>1, <2>1, <2>2
<1>4. Good(e)'
  <2>0. Good(e)
    BY <1>1
  <2>1. CASE StartExecution(e)
    BY <1>0, <2>0, <2>1, StartFacts DEF StartExecution
  <2>2. CASE ReadAuthorization(e)
    BY <1>0, <2>0, <2>2, ReadAuthorizationFacts DEF ReadAuthorization
  <2>3. CASE ReadApproval(e) \/ ReadEvidence(e) \/ CheckExisting(e) \/ ReadExposure(e)
    <3>1. writer' = writer
      BY <2>3 DEF ReadApproval, ReadEvidence, CheckExisting, ReadExposure
    <3> QED
      BY <1>0, <2>0, <2>3, <3>1, ReadFacts
  <2>4. CASE PersistDecision(e)
    <3>1. writer' = e
      BY <2>4 DEF PersistDecision
    <3> QED
      BY <1>0, <2>0, <2>4, <3>1, PersistFacts
  <2>5. CASE WriteExecution(e) \/ CloseConnection(e) \/ CrashExecution(e)
    <3>1. writer' # e
      BY <1>0, <2>5 DEF WriteExecution, CloseConnection, CrashExecution, LockAfter
    <3> QED
      BY <1>0, <2>0, <2>5, <3>1, EndFacts
  <2> QED
    BY <2>1, <2>2, <2>3, <2>4, <2>5 DEF Execute, ProceedExecution
<1> QED
  BY <1>3, <1>4 DEF Transactions
\* The orders of each signal before and after a step of a run.
LEMMA OrdersAfter ==
    ASSUME IInv, NEW e \in Executions, Execute(e)
    PROVE  /\ orders \subseteq Executions
           /\ \A o \in orders : exec'[o] = exec[o] /\ exec[o].signal \in Signals
           /\ exec[e].pc # "idle" => exec'[e].signal = exec[e].signal
<1>1. orders \subseteq Executions
  BY DEF IInv, TypeInv, SpineTypeOK, SettlementTypeOK
<1>2. \A o \in orders : exec[o].pc = "done"
  BY DEF IInv, OrdersDone
<1>3. \A o \in orders : exec[o].signal \in Signals
  BY <1>1, <1>2 DEF IInv, TypeInv, SubjectsKnown
<1> QED
  BY <1>1, <1>2, <1>3, RunsKeepSignal DEF IInv

\* A run keeps the link between orders, authorizations and decisions: they
\* change together, in one commit.
LEMMA ExecuteKeepsOrders ==
    ASSUME IInv, NEW e \in Executions, Execute(e)
    PROVE  OrdersDone' /\ OneOrderPerSignal' /\ UsedIffOrdered' /\ AllowedIffOrdered'
<1>0. exec \in [Executions -> ExecState]
  BY DEF IInv, TypeInv, SpineTypeOK
<1>1. CASE UNCHANGED <<orders, decisions, auth>>
  <2>1. OrdersDone'
    BY <1>1, OrdersAfter DEF IInv, OrdersDone
  <2>2. OneOrderPerSignal'
    BY <1>1, OrdersAfter DEF IInv, OneOrderPerSignal
  <2>3. \A s \in Signals : OrdersOf(s)' = OrdersOf(s)
    BY <1>1, OrdersAfter DEF OrdersOf
  <2>4. \A s \in Signals : \A o \in OrdersOf(s) : exec'[o] = exec[o]
    BY OrdersAfter DEF OrdersOf
  <2>5. UsedIffOrdered'
    BY <1>1, <2>3, <2>4 DEF IInv, UsedIffOrdered
  <2>6. AllowedIffOrdered'
    BY <1>1 DEF IInv, AllowedIffOrdered
  <2> QED
    BY <2>1, <2>2, <2>5, <2>6
<1>2. CASE WriteExecution(e) /\ ~UNCHANGED <<orders, decisions, auth>>
  <2> DEFINE s == exec[e].signal
  <2>1. /\ exec[e].pc = "write" /\ s \in Signals
        /\ OrdersOf(s) = {}
        /\ orders' = orders \cup {e}
        /\ decisions' = decisions \cup {<<e, "allow">>}
        /\ auth'[s].status = "used" /\ auth'[s].approval = exec[e].approval
        /\ \A r \in Signals : r # s => auth'[r] = auth[r]
    BY <1>2, WriteFacts
  <2>2. exec'[e].pc = "done" /\ exec'[e].signal = s /\ exec'[e].approval = exec[e].approval
    BY <1>0, <1>2, EndFacts
  <2>3. \A o \in orders : exec[o].signal # s
    BY <2>1 DEF OrdersOf
  <2>4. OrdersDone'
    BY <2>1, <2>2, OrdersAfter DEF IInv, OrdersDone
  <2>5. OneOrderPerSignal'
    BY <2>1, <2>2, <2>3, OrdersAfter DEF IInv, OneOrderPerSignal
  <2>6. OrdersOf(s)' = {e}
    BY <2>1, <2>2, <2>3, OrdersAfter DEF OrdersOf
  <2>7. \A r \in Signals : r # s => OrdersOf(r)' = OrdersOf(r)
    BY <2>1, <2>2, OrdersAfter DEF OrdersOf
  <2>8. \A r \in Signals : \A o \in OrdersOf(r) : exec'[o] = exec[o]
    BY OrdersAfter DEF OrdersOf
  <2>9. UsedIffOrdered'
    <3> SUFFICES ASSUME NEW r \in Signals
                 PROVE  /\ auth'[r].status = "used" <=> OrdersOf(r)' # {}
                        /\ \A o \in OrdersOf(r)' : exec'[o].approval = auth'[r].approval
      BY DEF UsedIffOrdered
    <3>1. CASE r = s
      BY <2>1, <2>2, <2>6, <3>1
    <3>2. CASE r # s
      BY <2>1, <2>7, <2>8, <3>2 DEF IInv, UsedIffOrdered
    <3> QED
      BY <3>1, <3>2
  <2>10. AllowedIffOrdered'
    BY <2>1 DEF IInv, AllowedIffOrdered
  <2> QED
    BY <2>4, <2>5, <2>9, <2>10
<1> QED
  BY <1>1, <1>2, OnlyWritesWrite

-----------------------------------------------------------------------------

\* A reviewer only ever touches a signal that has no authorization yet.
LEMMA ReviewFacts ==
    ASSUME IInv, NEW r \in Reviewers, Review(r)
    PROVE  /\ UNCHANGED spineRest
           /\ \A s \in Signals :
                 \/ auth'[s] = auth[s]
                 \/ /\ auth[s].status = "none"
                    /\ auth'[s].status = "active"
                    /\ auth'[s].approval \in Approvals
<1>1. UNCHANGED spineRest
  BY DEF Review, ValidateAuthorization, SelectAuthorization, InsertAuthorization,
     ReadForRevocation, RevokeAuthorization, CrashReviewer
<1>2. CASE InsertAuthorization(r) /\ auth' # auth
  <2> DEFINE s == reviewer[r].signal
             row == [status |-> "active", approval |-> reviewer[r].approval]
  <2>1. auth[s].status = "none" /\ auth' = [auth EXCEPT ![s] = row]
    BY <1>2 DEF InsertAuthorization, NeverAuthorized
  <2>2. reviewer[r].approval \in Approvals
    BY <1>2 DEF InsertAuthorization, IInv, TypeInv, SubjectsKnown
  <2>3. row.status = "active" /\ row.approval \in Approvals
    BY <2>2
  <2>4. auth \in [Signals -> AuthRow]
    BY DEF IInv, TypeInv, SpineTypeOK
  <2> HIDE DEF row
  <2> QED
    BY <1>1, <2>1, <2>3, <2>4
<1>3. CASE auth' = auth
  BY <1>1, <1>3
<1>4. ~InsertAuthorization(r) => auth' = auth
  BY DEF Review, ValidateAuthorization, SelectAuthorization,
     ReadForRevocation, RevokeAuthorization, CrashReviewer
<1> QED
  BY <1>2, <1>3, <1>4

\* A reviewer inserts an authorization only where there is none, so no order and
\* no run depends on the row it changes.
LEMMA ReviewKeepsInvariant ==
    ASSUME IInv, TypeInv', NEW r \in Reviewers, Review(r)
    PROVE  IInv'
<1>1. UNCHANGED <<orders, exec, decisions, writer>>
  BY ReviewFacts DEF spineRest
<1>2. IssuedRows'
  BY ReviewFacts DEF IInv, IssuedRows
<1>3. AuthorityRead'
  <2>1. \A e \in Executions : exec[e].approval # NoApproval => exec[e].signal \in Signals
    BY DEF IInv, TypeInv, SubjectsKnown, AuthorityRead
  <2>2. \A s \in Signals : auth[s].status \in {"active", "used"} => auth'[s] = auth[s]
    BY ReviewFacts
  <2> QED
    BY <1>1, <2>1, <2>2 DEF IInv, AuthorityRead
<1>4. Transactions' /\ OrdersDone' /\ OneOrderPerSignal' /\ AllowedIffOrdered'
  BY <1>1 DEF IInv, Transactions, OrdersDone, OneOrderPerSignal, AllowedIffOrdered
<1>5. UsedIffOrdered'
  <2>1. \A s \in Signals : OrdersOf(s)' = OrdersOf(s)
    BY <1>1 DEF OrdersOf
  <2> QED
    BY <1>1, <2>1, ReviewFacts DEF IInv, UsedIffOrdered
<1> QED
  BY <1>2, <1>3, <1>4, <1>5 DEF IInv
\* The other actors touch nothing the invariant speaks of.
LEMMA OthersKeepInvariant ==
    ASSUME IInv, TypeInv', UNCHANGED <<orders, exec, auth, decisions, writer>>
    PROVE  IInv'
<1>1. IssuedRows' /\ AuthorityRead' /\ Transactions'
  BY DEF IInv, IssuedRows, AuthorityRead, Transactions
<1>2. OrdersDone' /\ OneOrderPerSignal' /\ AllowedIffOrdered'
  BY DEF IInv, OrdersDone, OneOrderPerSignal, AllowedIffOrdered
<1>3. \A s : OrdersOf(s)' = OrdersOf(s)
  BY DEF OrdersOf
<1>4. UsedIffOrdered'
  BY <1>3 DEF IInv, UsedIffOrdered
<1> QED
  BY <1>1, <1>2, <1>4 DEF IInv

\* The invariant holds throughout, whatever interleaves with whatever.
THEOREM InvariantHolds == Spec => []IInv
<1>1. SpineInit /\ TypeInv => IInv
  <2> SUFFICES ASSUME SpineInit, TypeInv PROVE IInv
    OBVIOUS
  <2>1. \A e \in Executions : /\ exec[e] = FreshExec
                              /\ FreshExec.pc = "idle"
                              /\ FreshExec.approval = NoApproval
                              /\ FreshExec.staged = "none"
    BY DEF SpineInit, FreshExec
  <2>2. \A s \in Signals : auth[s].status = "none"
    BY DEF SpineInit, NoAuth
  <2>3. orders = {} /\ decisions = {} /\ writer = NoOne
    BY DEF SpineInit
  <2>4. IssuedRows /\ AuthorityRead /\ Transactions
    BY <2>1, <2>2, <2>3 DEF IssuedRows, AuthorityRead, Transactions
  <2>5. OrdersDone /\ OneOrderPerSignal /\ UsedIffOrdered /\ AllowedIffOrdered
    BY <2>2, <2>3 DEF OrdersDone, OneOrderPerSignal, UsedIffOrdered, AllowedIffOrdered, OrdersOf
  <2> QED
    BY <2>4, <2>5 DEF IInv
<1>2. IInv /\ TypeInv' /\ [Next]_vars => IInv'
  <2> SUFFICES ASSUME IInv, TypeInv', [Next]_vars PROVE IInv'
    OBVIOUS
  <2>1. ASSUME NEW e \in Executions, Execute(e) PROVE IInv'
    BY <2>1, ExecuteKeepsIssuedRows, ExecuteKeepsAuthorityRead, ExecuteKeepsTransactions,
       ExecuteKeepsOrders DEF IInv
  <2>2. ASSUME NEW r \in Reviewers, Review(r) PROVE IInv'
    BY <2>2, ReviewKeepsInvariant
  <2>3. CASE ApprovalStep
    BY <2>3, OthersKeepInvariant DEF ApprovalStep
  <2>4. ASSUME NEW s \in Volatile, EvidenceChanges(s) PROVE IInv'
    BY <2>4, OthersKeepInvariant DEF EvidenceChanges
  <2>5. ASSUME NEW t \in Settlers, SettleStep(t) PROVE IInv'
    BY <2>5, OthersKeepInvariant DEF SettleStep
  <2>6. CASE UNCHANGED vars
    BY <2>6, OthersKeepInvariant DEF vars
  <2> QED
    BY <2>1, <2>2, <2>3, <2>4, <2>5, <2>6 DEF Next
<1>3. Spec => []TypeInv
  BY TypeCorrect, PTL DEF TypeInv
<1> QED
  BY <1>1, <1>2, <1>3, PTL DEF Spec

-----------------------------------------------------------------------------
(* The results.                                                            *)

\* Two runs never leave two orders for one signal (consume_eligible_signal).
THEOREM ExactlyOnce == Spec => []OneOrderPerSignal
<1>1. IInv => OneOrderPerSignal
  BY DEF IInv
<1> QED
  BY <1>1, InvariantHolds, PTL

\* An authorization is used exactly when its signal has an order, and that
\* order was made under its approval (consume_authorization).
THEOREM AuthorizationSpent == Spec => []UsedIffOrdered
<1>1. IInv => UsedIffOrdered
  BY DEF IInv
<1> QED
  BY <1>1, InvariantHolds, PTL

\* The decisions to allow on record are those of the orders (_cmd_execute).
THEOREM AuditComplete == Spec => []AllowedIffOrdered
<1>1. IInv => AllowedIffOrdered
  BY DEF IInv
<1> QED
  BY <1>1, InvariantHolds, PTL

\* An order is committed only under an authorization that is active at that
\* moment, and a used one never changes again.
THEOREM AuthorityHolds == Spec => AuthorityAtCommit
<1> DEFINE Kept ==
      \A s \in Signals :
         /\ auth[s].status = "used" => auth'[s] = auth[s]
         /\ \A e \in orders' \ orders :
              exec[e].signal = s => auth[s].status = "active"
<1>1. IInv /\ [Next]_vars => [Kept]_vars
  <2> SUFFICES ASSUME IInv, [Next]_vars PROVE Kept \/ UNCHANGED vars
    OBVIOUS
  <2>1. ASSUME NEW e \in Executions, Execute(e) PROVE Kept
    <3>1. CASE WriteExecution(e)
      BY <3>1, WriteFacts
    <3>2. CASE ~WriteExecution(e)
      BY <2>1, <3>2, OnlyWritesWrite
    <3> QED
      BY <3>1, <3>2
  <2>2. ASSUME NEW r \in Reviewers, Review(r) PROVE Kept
    BY <2>2, ReviewFacts DEF spineRest
  <2>3. CASE ApprovalStep
    BY <2>3 DEF ApprovalStep
  <2>4. ASSUME NEW s \in Volatile, EvidenceChanges(s) PROVE Kept
    BY <2>4 DEF EvidenceChanges
  <2>5. ASSUME NEW t \in Settlers, SettleStep(t) PROVE Kept
    BY <2>5 DEF SettleStep
  <2> QED
    BY <2>1, <2>2, <2>3, <2>4, <2>5 DEF Next
<1> QED
  BY <1>1, InvariantHolds, PTL DEF Spec, AuthorityAtCommit

-----------------------------------------------------------------------------
(***************************************************************************)
(* Settlement inside the spine, for every number of settlers and positions *)
(* and every mix of outcomes.  Rows are only ever appended, in the step    *)
(* that sets the status; a settler that is past its first look works on a  *)
(* position that exists; and the unique index looks at the rows at the     *)
(* moment of the insert.                                                   *)
(***************************************************************************)

\* A settler that looks up or inserts does so for a position that exists.
SettlersKnowPosition ==
    \A t \in Settlers : settler[t].pc \in {"lookup", "insert"} => settler[t].position \in orders

SettlementInv ==
    /\ SettlersKnowPosition
    /\ SettledFlagMatchesLedger
    /\ EvidenceRecordedOnce
    /\ ReportsMatchLedger

-----------------------------------------------------------------------------

\* A settler's step, as far as its position and its rows go.
LEMMA SettleFacts ==
    ASSUME SettlementTypeOK, NEW t \in Settlers, Settle(t)
    PROVE  /\ \A u \in Settlers : u # t => settler'[u] = settler[u]
           /\ settler'[t].pc \in {"lookup", "insert"} =>
                 \/ settler'[t].position \in orders
                 \/ /\ settler[t].pc \in {"lookup", "insert"}
                    /\ settler'[t].position = settler[t].position
           /\ InsertSettlement(t) \/ UNCHANGED <<ledger, settledFlag>>
<1> USE DEF SettlementTypeOK
<1>0. settler[t] \in SettlerState /\ Unstarted.pc = "idle" /\ Unstarted \in SettlerState
  BY UnstartedType
<1>1. CASE FindPosition(t)
  <2>1. PICK p \in Executions, v \in Evidence :
          settler' = [settler EXCEPT ![t] =
             IF PositionExists(p)
             THEN [pc |-> "lookup", position |-> p, evidence |-> v, report |-> "none"]
             ELSE [Unstarted EXCEPT !.report = "blocked"]]
    BY <1>1 DEF FindPosition
  <2>2. [Unstarted EXCEPT !.report = "blocked"].pc = "idle"
    BY <1>0 DEF SettlerState
  <2>3. CASE p \in orders
    BY <1>1, <2>1, <2>3 DEF FindPosition, PositionExists
  <2>4. CASE p \notin orders
    BY <1>1, <2>1, <2>2, <2>4 DEF FindPosition, PositionExists
  <2> QED
    BY <2>3, <2>4
<1>2. CASE LookupSettlement(t)
  <2>1. CASE ledger[settler[t].position] = <<>>
    <3>1. settler'[t] = [settler[t] EXCEPT !.pc = "insert"]
      BY <1>2, <2>1 DEF LookupSettlement
    <3> QED
      BY <1>0, <1>2, <3>1 DEF LookupSettlement, SettlerState
  <2>2. CASE ledger[settler[t].position] # <<>>
    <3>1. PICK x \in {"already_settled", "conflict"} :
            settler'[t] = [settler[t] EXCEPT !.pc = "idle", !.report = x]
      BY <1>2, <2>2 DEF LookupSettlement
    <3>2. settler'[t].pc = "idle"
      BY <1>0, <3>1 DEF SettlerState
    <3> QED
      BY <1>2, <3>2 DEF LookupSettlement
  <2> QED
    BY <2>1, <2>2
<1>3. CASE InsertSettlement(t)
  <2>1. settler'[t] = [settler[t] EXCEPT !.pc = "idle", !.report = "settled"]
    BY <1>3 DEF InsertSettlement
  <2>2. settler'[t].pc = "idle"
    BY <1>0, <2>1 DEF SettlerState
  <2> QED
    BY <1>3, <2>2 DEF InsertSettlement
<1>4. CASE CrashSettler(t)
  BY <1>0, <1>4 DEF CrashSettler
<1> QED
  BY <1>1, <1>2, <1>3, <1>4 DEF Settle

\* An insert adds at most one row, and only if its evidence is new.
LEMMA InsertFacts ==
    ASSUME SettlementTypeOK, NEW t \in Settlers, InsertSettlement(t)
    PROVE  LET p == settler[t].position
               v == settler[t].evidence
           IN  /\ p \in Executions /\ v \in Evidence
               /\ settledFlag' = settledFlag \cup {p}
               /\ \A q \in Executions : q # p => ledger'[q] = ledger[q]
               /\ \/ ledger'[p] = ledger[p] /\ HasEvidence(p, v)
                  \/ ledger'[p] = Append(ledger[p], v) /\ ~HasEvidence(p, v)
<1>1. settler[t].position \in Executions /\ settler[t].evidence \in Evidence
  BY DEF SettlementTypeOK, SettlerState
<1> QED
  BY <1>1 DEF InsertSettlement, SettlementTypeOK, RowAdded

\* Appending evidence that is not there yet keeps the rows distinct.
LEMMA DistinctAppend ==
    ASSUME NEW S, NEW rows \in Seq(S), NEW v \in S,
           \A i \in DOMAIN rows : rows[i] # v,
           \A i, j \in DOMAIN rows : rows[i] = rows[j] => i = j
    PROVE  /\ Append(rows, v) # <<>>
           /\ \A i, j \in DOMAIN Append(rows, v) :
                Append(rows, v)[i] = Append(rows, v)[j] => i = j
  OBVIOUS

\* Rows are only ever appended: what a settler has seen stays where it was.
LEMMA RowsStay ==
    ASSUME SettlementTypeOK, NEW t \in Settlers, Settle(t),
           NEW p \in Executions, NEW i \in DOMAIN ledger[p]
    PROVE  i \in DOMAIN ledger'[p] /\ ledger'[p][i] = ledger[p][i]
<1>1. CASE UNCHANGED <<ledger, settledFlag>>
  BY <1>1
<1>2. CASE InsertSettlement(t)
  <2>1. ledger[p] \in Seq(Evidence) /\ settler[t].evidence \in Evidence
    BY <1>2, InsertFacts DEF SettlementTypeOK
  <2>2. CASE ledger'[p] = ledger[p]
    BY <2>2
  <2>3. CASE ledger'[p] = Append(ledger[p], settler[t].evidence)
    BY <2>1, <2>3
  <2> QED
    BY <1>2, <2>2, <2>3, InsertFacts
<1> QED
  BY <1>1, <1>2, SettleFacts

\* What one settler's report says of the ledger.
ReportMatches(t) ==
    LET rows == ledger[settler[t].position]
        v    == settler[t].evidence
    IN  /\ settler[t].report = "settled" => \E i \in DOMAIN rows : rows[i] = v
        /\ settler[t].report = "already_settled" =>
              \E i \in DOMAIN rows : Norm(rows[i].outcome) = Norm(v.outcome)
        /\ settler[t].report = "conflict" =>
              \E i \in DOMAIN rows : Norm(rows[i].outcome) # Norm(v.outcome)

\* A settler that steps either leaves with no claim about the ledger, or keeps
\* what it claimed, or reports what it has just read or written.
LEMMA ReporterMatches ==
    ASSUME SettlementTypeOK, NEW t \in Settlers, Settle(t), ReportMatches(t)
    PROVE  ReportMatches(t)'
<1> DEFINE p == settler[t].position
           v == settler[t].evidence
<1> USE DEF ReportMatches
<1>0. /\ settler[t] \in SettlerState /\ p \in Executions /\ v \in Evidence
      /\ ledger[p] \in Seq(Evidence)
      /\ Unstarted \in SettlerState /\ Unstarted.report = "none"
  BY UnstartedType DEF SettlementTypeOK, SettlerState
<1>1. CASE FindPosition(t)
  <2>1. settler'[t].report \in {"none", "blocked"}
    <3>1. PICK q \in Executions, w \in Evidence :
            settler' = [settler EXCEPT ![t] =
               IF PositionExists(q)
               THEN [pc |-> "lookup", position |-> q, evidence |-> w, report |-> "none"]
               ELSE [Unstarted EXCEPT !.report = "blocked"]]
      BY <1>1 DEF FindPosition
    <3>2. [Unstarted EXCEPT !.report = "blocked"].report = "blocked"
      BY <1>0 DEF SettlerState
    <3> QED
      BY <3>1, <3>2 DEF SettlementTypeOK
  <2> QED
    BY <2>1
<1>2. CASE LookupSettlement(t)
  <2>0. UNCHANGED ledger
    BY <1>2 DEF LookupSettlement
  <2>1. CASE ledger[p] = <<>>
    <3>1. settler'[t] = [settler[t] EXCEPT !.pc = "insert"]
      BY <1>2, <2>1 DEF LookupSettlement, SettlementTypeOK
    <3>2. settler'[t].position = p /\ settler'[t].evidence = v
          /\ settler'[t].report = settler[t].report
      BY <1>0, <3>1 DEF SettlerState
    <3> QED
      BY <2>0, <3>2
  <2>2. CASE ledger[p] # <<>>
    <3>1. settler'[t] = [settler[t] EXCEPT !.pc = "idle", !.report =
                           IF Norm(LatestRow(p).outcome) = Norm(v.outcome)
                           THEN "already_settled" ELSE "conflict"]
      BY <1>2, <2>2 DEF LookupSettlement, SettlementTypeOK
    <3>2. /\ settler'[t].position = p /\ settler'[t].evidence = v
          /\ settler'[t].report = IF Norm(LatestRow(p).outcome) = Norm(v.outcome)
                                  THEN "already_settled" ELSE "conflict"
      BY <1>0, <3>1 DEF SettlerState
    <3>3. Len(ledger[p]) \in DOMAIN ledger[p] /\ LatestRow(p) = ledger[p][Len(ledger[p])]
      BY <1>0, <2>2 DEF LatestRow
    <3> QED
      BY <2>0, <3>2, <3>3
  <2> QED
    BY <2>1, <2>2
<1>3. CASE InsertSettlement(t)
  <2>1. settler'[t] = [settler[t] EXCEPT !.pc = "idle", !.report = "settled"]
    BY <1>3 DEF InsertSettlement, SettlementTypeOK
  <2>2. settler'[t].position = p /\ settler'[t].evidence = v /\ settler'[t].report = "settled"
    BY <1>0, <2>1 DEF SettlerState
  <2>3. \E i \in DOMAIN ledger'[p] : ledger'[p][i] = v
    <3>1. CASE ledger'[p] = ledger[p] /\ HasEvidence(p, v)
      BY <3>1 DEF HasEvidence
    <3>2. CASE ledger'[p] = Append(ledger[p], v)
      <4>1. Len(ledger[p]) + 1 \in DOMAIN ledger'[p] /\ ledger'[p][Len(ledger[p]) + 1] = v
        BY <1>0, <3>2
      <4> QED
        BY <4>1
    <3> QED
      BY <1>3, <3>1, <3>2, InsertFacts
  <2> QED
    BY <2>2, <2>3
<1>4. CASE CrashSettler(t)
  <2>1. settler'[t].report = "none"
    BY <1>0, <1>4 DEF CrashSettler, SettlementTypeOK
  <2> QED
    BY <2>1
<1> QED
  BY <1>1, <1>2, <1>3, <1>4 DEF Settle

\* No settler's step makes a report false, its own or another's.
LEMMA SettleKeepsReports ==
    ASSUME SettlementTypeOK, ReportsMatchLedger, NEW t \in Settlers, Settle(t)
    PROVE  ReportsMatchLedger'
<1>1. \A u \in Settlers : ReportMatches(u)
  BY DEF ReportsMatchLedger, ReportMatches, HasEvidence
<1>2. ASSUME NEW u \in Settlers PROVE ReportMatches(u)'
  <2>1. CASE u = t
    BY <1>1, <2>1, ReporterMatches
  <2>2. CASE u # t
    <3>1. settler'[u] = settler[u] /\ settler[u].position \in Executions
      BY <2>2, SettleFacts DEF SettlementTypeOK, SettlerState
    <3>2. \A i \in DOMAIN ledger[settler[u].position] :
            /\ i \in DOMAIN ledger'[settler[u].position]
            /\ ledger'[settler[u].position][i] = ledger[settler[u].position][i]
      BY <3>1, RowsStay
    <3> QED
      BY <1>1, <3>1, <3>2 DEF ReportMatches
  <2> QED
    BY <2>1, <2>2
<1> QED
  BY <1>2 DEF ReportsMatchLedger, ReportMatches, HasEvidence

\* A step of a settler, crash included, keeps the invariant.
LEMMA SettleKeepsInvariant ==
    ASSUME TypeInv, SettlementInv, NEW t \in Settlers, Settle(t), orders' = orders
    PROVE  SettlementInv'
<1> USE DEF SettlementInv
<1>0. SettlementTypeOK
  BY DEF TypeInv, SpineTypeOK
<1>1. SettlersKnowPosition' /\ ReportsMatchLedger'
  BY <1>0, SettleFacts, SettleKeepsReports DEF SettlersKnowPosition
<1>2. CASE UNCHANGED <<ledger, settledFlag>>
  BY <1>1, <1>2 DEF SettledFlagMatchesLedger, EvidenceRecordedOnce
<1>3. CASE InsertSettlement(t)
  <2> DEFINE p == settler[t].position
             v == settler[t].evidence
  <2>1. p \in Executions /\ v \in Evidence /\ p \in orders /\ ledger[p] \in Seq(Evidence)
    BY <1>0, <1>3, InsertFacts DEF SettlementTypeOK, InsertSettlement, SettlersKnowPosition
  <2>2. /\ settledFlag' = settledFlag \cup {p}
        /\ \A q \in Executions : q # p => ledger'[q] = ledger[q]
        /\ \/ ledger'[p] = ledger[p] /\ HasEvidence(p, v)
           \/ ledger'[p] = Append(ledger[p], v) /\ ~HasEvidence(p, v)
    BY <1>0, <1>3, InsertFacts
  <2>3. /\ ledger'[p] # <<>>
        /\ \A i, j \in DOMAIN ledger'[p] : ledger'[p][i] = ledger'[p][j] => i = j
    <3>1. CASE ledger'[p] = ledger[p] /\ HasEvidence(p, v)
      BY <2>1, <3>1 DEF HasEvidence, EvidenceRecordedOnce
    <3>2. CASE ledger'[p] = Append(ledger[p], v) /\ ~HasEvidence(p, v)
      <4>1. /\ \A i \in DOMAIN ledger[p] : ledger[p][i] # v
            /\ \A i, j \in DOMAIN ledger[p] : ledger[p][i] = ledger[p][j] => i = j
        BY <2>1, <3>2 DEF HasEvidence, EvidenceRecordedOnce
      <4> HIDE DEF p, v, SettlementInv
      <4>2. /\ Append(ledger[p], v) # <<>>
            /\ \A i, j \in DOMAIN Append(ledger[p], v) :
                  Append(ledger[p], v)[i] = Append(ledger[p], v)[j] => i = j
        BY <2>1, <4>1, DistinctAppend
      <4> QED
        BY <3>2, <4>2
    <3> QED
      BY <2>2, <3>1, <3>2
  <2>4. SettledFlagMatchesLedger'
    BY <2>1, <2>2, <2>3 DEF SettledFlagMatchesLedger
  <2>5. EvidenceRecordedOnce'
    BY <2>1, <2>2, <2>3 DEF EvidenceRecordedOnce
  <2> QED
    BY <1>1, <2>4, <2>5
<1> QED
  BY <1>0, <1>2, <1>3, SettleFacts

\* Everything else leaves the settlements alone and never takes an order back.
LEMMA OthersKeepSettlement ==
    ASSUME SettlementInv, UNCHANGED <<ledger, settledFlag, settler>>, orders \subseteq orders'
    PROVE  SettlementInv'
  BY DEF SettlementInv, SettlersKnowPosition, SettledFlagMatchesLedger, EvidenceRecordedOnce,
     ReportsMatchLedger, HasEvidence

\* The settlement invariant holds of the whole spine: the other commands only
\* add orders, and a settler only settles a position that it found.
THEOREM SettlementHolds == Spec => []SettlementInv
<1>1. SpineInit => SettlementInv
  BY UnstartedType DEF SpineInit, SettlementInit, SettlementInv, SettlersKnowPosition,
     SettledFlagMatchesLedger, EvidenceRecordedOnce, ReportsMatchLedger
<1>2. TypeInv /\ IInv /\ SettlementInv /\ [Next]_vars => SettlementInv'
  <2> SUFFICES ASSUME TypeInv, IInv, SettlementInv, [Next]_vars PROVE SettlementInv'
    OBVIOUS
  <2>1. ASSUME NEW e \in Executions, Execute(e) PROVE SettlementInv'
    <3>1. orders \subseteq orders'
      BY <2>1, WriteFacts, OnlyWritesWrite
    <3> QED
      BY <2>1, <3>1, ExecTables, OthersKeepSettlement DEF TypeInv
  <2>2. ASSUME NEW r \in Reviewers, Review(r) PROVE SettlementInv'
    BY <2>2, ReviewFacts, OthersKeepSettlement DEF spineRest, settlementVars
  <2>3. CASE ApprovalStep
    BY <2>3, OthersKeepSettlement DEF ApprovalStep, settlementVars
  <2>4. ASSUME NEW s \in Volatile, EvidenceChanges(s) PROVE SettlementInv'
    BY <2>4, OthersKeepSettlement DEF EvidenceChanges, settlementVars
  <2>5. ASSUME NEW t \in Settlers, SettleStep(t) PROVE SettlementInv'
    BY <2>5, SettleKeepsInvariant DEF SettleStep
  <2>6. CASE UNCHANGED vars
    BY <2>6, OthersKeepSettlement DEF vars, settlementVars
  <2> QED
    BY <2>1, <2>2, <2>3, <2>4, <2>5, <2>6 DEF Next
<1>3. IInv => TypeInv
  BY DEF IInv
<1> QED
  BY <1>1, <1>2, <1>3, InvariantHolds, PTL DEF Spec

-----------------------------------------------------------------------------

\* The status column and the settlement rows never disagree, and only
\* positions that exist have either (settle_specialist_position).
THEOREM FlagMatchesLedger == Spec => []SettledFlagMatchesLedger
<1>1. SettlementInv => SettledFlagMatchesLedger
  BY DEF SettlementInv
<1> QED
  BY <1>1, SettlementHolds, PTL

\* No evidence is recorded twice, however many settlers replay it.
THEOREM EvidenceOnce == Spec => []EvidenceRecordedOnce
<1>1. SettlementInv => EvidenceRecordedOnce
  BY DEF SettlementInv
<1> QED
  BY <1>1, SettlementHolds, PTL

\* What a settler reported stays true of the ledger, whatever other settlers
\* do after it has read or written (settle_specialist_position).
THEOREM ReportsStayTrue == Spec => []ReportsMatchLedger
<1>1. SettlementInv => ReportsMatchLedger
  BY DEF SettlementInv
<1> QED
  BY <1>1, SettlementHolds, PTL

-----------------------------------------------------------------------------
(***************************************************************************)
(* The exposure limits.  A run compares its limits with sums it read long  *)
(* before it writes, so the limits hold only of runs that did not overlap. *)
(* What makes them hold of those: a run that has still to write is in no   *)
(* other run's sums, so if it does not overlap with the runs of a set, it  *)
(* has counted every one of them.                                          *)
(***************************************************************************)

CostOf(o) == Cost[exec[o].signal]

\* Every set of non-overlapping positions is within the limits, settled ones
\* included: what a settlement takes out of a set leaves a subset.
SerialSetsWithinLimits ==
    \A k \in Scopes : \A Q \in SUBSET orders :
        Serial(k, Q) => Notional(Q) <= MaxExposure[k]

\* What a run that is about to write found when it compared: no part of what it
\* counted, with its own cost, is over the limit.
WritersWithinLimits ==
    \A e \in Executions : exec[e].pc = "write" =>
        \A k \in Scopes : \A Q \in SUBSET exec[e].seen[k] :
            Notional(Q) + CostOf(e) <= MaxExposure[k]

LimitInv ==
    /\ \A Q \in SUBSET orders : IsFiniteSet(Units(Q))
    /\ \A e \in Executions : \A k \in Scopes : exec[e].seen[k] \subseteq orders
    /\ WritersWithinLimits
    /\ SerialSetsWithinLimits

\* The units of a smaller set are among those of a larger one.
LEMMA UnitsMonotone ==
    ASSUME NEW S, NEW T \in SUBSET S
    PROVE  Units(T) \subseteq Units(S)
BY DEF Units

\* Adding a position adds its cost.
LEMMA UnitsAdd ==
    ASSUME NEW S, NEW e
    PROVE  Units(S \cup {e}) = Units(S) \cup ({e} \X (1 .. CostOf(e)))
BY DEF Units, CostOf

LEMMA NotionalMonotone ==
    ASSUME NEW S, NEW T \in SUBSET S, IsFiniteSet(Units(S))
    PROVE  /\ IsFiniteSet(Units(T))
           /\ Notional(T) \in Nat /\ Notional(S) \in Nat
           /\ Notional(T) <= Notional(S)
BY UnitsMonotone, FS_Subset, FS_CardinalityType DEF Notional

\* A position has as many units as it costs.
LEMMA UnitsOfOne ==
    ASSUME NEW e, NEW c \in Nat
    PROVE  IsFiniteSet({e} \X (1 .. c)) /\ Cardinality({e} \X (1 .. c)) = c
<1> DEFINE one == {e}
           upTo == 1 .. c
<1>1. IsFiniteSet(upTo) /\ Cardinality(upTo) = c
  BY FS_Interval
<1>2. IsFiniteSet(one) /\ Cardinality(one) = 1
  BY FS_Singleton
<1> HIDE DEF one, upTo
<1>3. IsFiniteSet(one \X upTo) /\ Cardinality(one \X upTo) = Cardinality(one) * Cardinality(upTo)
  BY <1>1, <1>2, FS_Product
<1>4. Cardinality(one \X upTo) = c
  BY <1>1, <1>2, <1>3
<1> QED
  BY <1>3, <1>4 DEF one, upTo

LEMMA NotionalAdd ==
    ASSUME NEW S, IsFiniteSet(Units(S)), NEW e, CostOf(e) \in Nat
    PROVE  /\ IsFiniteSet(Units(S \cup {e}))
           /\ Notional(S \cup {e}) \in Nat
           /\ Notional(S \cup {e}) <= Notional(S) + CostOf(e)
<1> DEFINE own == {e} \X (1 .. CostOf(e))
<1>1. IsFiniteSet(own) /\ Cardinality(own) = CostOf(e)
  BY UnitsOfOne
<1>2. Units(S \cup {e}) = Units(S) \cup own
  BY UnitsAdd
<1> HIDE DEF own
<1>3. /\ IsFiniteSet(Units(S) \cup own)
      /\ Cardinality(Units(S) \cup own) =
            Cardinality(Units(S)) + Cardinality(own) - Cardinality(Units(S) \cap own)
  BY <1>1, FS_Union
<1>4. IsFiniteSet(Units(S) \cap own)
  BY <1>1, FS_Intersection
<1>5. /\ Cardinality(Units(S)) \in Nat /\ Cardinality(Units(S) \cap own) \in Nat
      /\ Cardinality(Units(S) \cup own) \in Nat
  BY <1>3, <1>4, FS_CardinalityType
<1>6. /\ Notional(S \cup {e}) = Cardinality(Units(S) \cup own)
      /\ Notional(S) = Cardinality(Units(S))
  BY <1>2 DEF Notional
<1>7. Notional(S \cup {e}) <= Notional(S) + CostOf(e)
  BY <1>1, <1>3, <1>5, <1>6
<1> QED
  BY <1>2, <1>3, <1>5, <1>6, <1>7

\* A sum changes only with the signals of its positions.
LEMMA NotionalStays ==
    ASSUME NEW S, \A o \in S : exec'[o].signal = exec[o].signal
    PROVE  Units(S)' = Units(S) /\ Notional(S)' = Notional(S)
<1>1. \A u : u \in Units(S)' <=> u \in Units(S)
  BY DEF Units
<1> QED
  BY <1>1 DEF Notional

-----------------------------------------------------------------------------

\* A run's sums are read of committed positions, and stay as they were read;
\* one that goes on to write found them within the limits.
LEMMA SeenFacts ==
    ASSUME SpineTypeOK, NEW e \in Executions, Execute(e)
    PROVE  /\ exec[e].pc # "done"
           /\ \A k \in Scopes :
                exec'[e].seen[k] \subseteq exec[e].seen[k] \cup orders
           /\ exec'[e].pc = "write" =>
                /\ exec'[e].seen = exec[e].seen /\ exec'[e].signal = exec[e].signal
                /\ WithinLimits(e)
           /\ WriteExecution(e) =>
                exec'[e].seen = exec[e].seen /\ exec'[e].signal = exec[e].signal
<1>1. exec \in [Executions -> ExecState] /\ exec[e] \in ExecState
  BY DEF SpineTypeOK
<1>0. WriteExecution(e) => exec[e].pc = "write"
  BY DEF WriteExecution
<1>2. CASE StartExecution(e)
  <2>1. exec[e].pc = "idle" /\ exec'[e].pc # "write"
    BY <1>1, <1>2, StartFacts
  <2>2. PICK s \in Signals, dry \in BOOLEAN, p \in {"auth", "done"},
             u \in {"none", "already_executed"} :
          exec'[e] = [exec[e] EXCEPT !.signal = s, !.dry = dry, !.pc = p, !.status = u]
    BY ZenonT(40), <1>1, <1>2 DEF StartExecution
  <2>3. exec'[e].seen = exec[e].seen
    BY <1>1, <2>2 DEF ExecState
  <2> QED
    BY <1>0, <2>1, <2>3
<1>3. CASE ReadAuthorization(e)
  <2>1. exec[e].pc = "auth" /\ exec'[e].pc # "write"
    BY <1>1, <1>3, ReadAuthorizationFacts
  <2>2. \/ exec'[e] = [exec[e] EXCEPT !.pc = "approval",
                                    !.approval = auth[exec[e].signal].approval]
        \/ exec'[e] = [exec[e] EXCEPT !.pc = "evidence", !.clear = FALSE]
    BY <1>1, <1>3 DEF ReadAuthorization
  <2>3. exec'[e].seen = exec[e].seen
    BY <1>1, <2>2 DEF ExecState
  <2> QED
    BY <1>0, <2>1, <2>3
<1>4. CASE ReadApproval(e) \/ ReadEvidence(e) \/ CheckExisting(e)
  <2>1. /\ exec[e].pc \in {"approval", "evidence", "existing"}
        /\ exec'[e].pc \in {"evidence", "existing", "exposure", "persist", "close"}
    BY <1>1, <1>4, ReadFacts DEF ReadApproval, ReadEvidence, CheckExisting
  <2>2. exec'[e].seen = exec[e].seen
    <3>1. CASE ReadApproval(e)
      <4>1. PICK c : exec'[e] = [exec[e] EXCEPT !.pc = "evidence", !.clear = c]
        BY <1>1, <3>1 DEF ReadApproval
      <4> QED
        BY <1>1, <4>1 DEF ExecState
    <3>2. CASE ReadEvidence(e)
      <4>1. PICK c : exec'[e] = [exec[e] EXCEPT !.pc = "existing", !.clear = c]
        BY <1>1, <3>2 DEF ReadEvidence
      <4> QED
        BY <1>1, <4>1 DEF ExecState
    <3>3. CASE CheckExisting(e)
      <4>1. \/ exec'[e] = [exec[e] EXCEPT !.pc = "exposure"]
            \/ exec'[e] = [exec[e] EXCEPT !.pc = "close", !.status = "already_executed"]
        BY <1>1, <3>3 DEF CheckExisting
      <4> QED
        BY <1>1, <4>1 DEF ExecState
    <3> QED
      BY <1>4, <3>1, <3>2, <3>3
  <2> QED
    BY <1>0, <2>1, <2>2
<1>5. CASE ReadExposure(e)
  <2> DEFINE k == NextScope(e)
             kinds == exec[e].read \cup {k}
             seen == [exec[e].seen EXCEPT ![k] = {o \in Unsettled : Counts(k, exec[e].signal, o)}]
  <2>1. exec[e].pc = "exposure" /\ exec'[e].pc # "write"
    BY <1>1, <1>5, ReadFacts DEF ReadExposure
  <2>2. exec'[e] = [exec[e] EXCEPT !.read = kinds, !.seen = seen,
                                   !.pc = IF k = "global" THEN "persist" ELSE "exposure"]
    BY <1>1, <1>5 DEF ReadExposure
  <2>3. \A j \in Scopes : seen[j] \subseteq exec[e].seen[j] \cup orders
    BY <1>1 DEF ExecState, Unsettled
  <2> HIDE DEF k, kinds, seen
  <2>4. exec'[e].seen = seen
    BY <1>1, <2>2 DEF ExecState
  <2> QED
    BY <1>0, <2>1, <2>3, <2>4
<1>6. CASE PersistDecision(e)
  <2>1. exec[e].pc = "persist" /\ exec'[e].signal = exec[e].signal
    BY <1>1, <1>6, PersistFacts
  <2>2. exec'[e].seen = exec[e].seen
    BY <1>1, <1>6 DEF PersistDecision, ExecState
  <2>3. exec'[e].pc = "write" => Allowed(e) /\ ~exec[e].dry
    BY <1>1, <1>6 DEF PersistDecision, ExecState
  <2> QED
    BY <1>0, <2>1, <2>2, <2>3 DEF Allowed
<1>7. CASE WriteExecution(e) \/ CloseConnection(e) \/ CrashExecution(e)
  <2>1. /\ exec[e].pc # "done" /\ exec'[e].pc = "done"
        /\ exec'[e].signal = exec[e].signal
    BY <1>1, <1>7, EndFacts
  <2>2. exec'[e].seen = exec[e].seen
    <3>1. CASE WriteExecution(e)
      <4>1. PICK u : exec'[e] = [exec[e] EXCEPT !.pc = "done", !.staged = "none", !.status = u]
        BY <1>1, <3>1 DEF WriteExecution
      <4> QED
        BY <1>1, <4>1 DEF ExecState
    <3>2. CASE CloseConnection(e)
      <4>1. exec'[e] = [exec[e] EXCEPT !.pc = "done", !.staged = "none"]
        BY <1>1, <3>2 DEF CloseConnection
      <4> QED
        BY <1>1, <4>1 DEF ExecState
    <3>3. CASE CrashExecution(e)
      <4>1. exec'[e] = [exec[e] EXCEPT !.pc = "done", !.staged = "none", !.status = "crashed"]
        BY <1>1, <3>3 DEF CrashExecution
      <4> QED
        BY <1>1, <4>1 DEF ExecState
    <3> QED
      BY <1>7, <3>1, <3>2, <3>3
  <2> QED
    BY <2>1, <2>2
<1> QED
  BY <1>2, <1>3, <1>4, <1>5, <1>6, <1>7 DEF Execute, ProceedExecution

\* The steps of the others read and write none of this.
LEMMA OthersKeepLimits ==
    ASSUME LimitInv, UNCHANGED <<exec, orders>>
    PROVE  LimitInv'
<1>1. \A Q : Units(Q)' = Units(Q) /\ Notional(Q)' = Notional(Q)
  BY NotionalStays
<1>2. \A k, Q : Serial(k, Q)' <=> Serial(k, Q)
  BY DEF Serial
<1>3. \A e : CostOf(e)' = CostOf(e)
  BY DEF CostOf
<1> QED
  BY <1>1, <1>2, <1>3 DEF LimitInv, WritersWithinLimits, SerialSetsWithinLimits

\* A step of a run: only the one that commits its order adds a position, and
\* then every non-overlapping set with it is among what it counted.
LEMMA ExecuteKeepsLimits ==
    ASSUME IInv, LimitInv, NEW e \in Executions, Execute(e)
    PROVE  LimitInv'
<1>1. /\ exec \in [Executions -> ExecState] /\ orders \subseteq Executions
      /\ SpineTypeOK
  BY DEF IInv, TypeInv, SpineTypeOK, SettlementTypeOK
<1>2. e \notin orders /\ \A o \in orders : exec'[o] = exec[o]
  BY <1>1, SeenFacts, OthersUnmoved DEF IInv, OrdersDone
<1>3. /\ orders' \in {orders, orders \cup {e}}
      /\ orders' # orders => /\ WriteExecution(e) /\ exec[e].pc = "write"
                            /\ CostOf(e) \in Nat
  BY WriteFacts, OnlyWritesWrite DEF CostOf
<1>4. \A o \in orders' : exec'[o].signal = exec[o].signal /\ exec'[o].seen = exec[o].seen
  BY <1>1, <1>2, <1>3, SeenFacts
<1>5. ASSUME NEW Q \in SUBSET orders'
      PROVE  Units(Q)' = Units(Q) /\ Notional(Q)' = Notional(Q)
  BY <1>4, <1>5, NotionalStays
<1>6. \A Q \in SUBSET orders' : IsFiniteSet(Units(Q)')
  <2> SUFFICES ASSUME NEW Q \in SUBSET orders' PROVE IsFiniteSet(Units(Q))
    BY <1>5
  <2>1. CASE Q \subseteq orders
    BY <2>1 DEF LimitInv
  <2>2. CASE ~(Q \subseteq orders)
    <3>1. IsFiniteSet(Units(orders)) /\ CostOf(e) \in Nat /\ Q \subseteq orders \cup {e}
      BY <1>3, <2>2 DEF LimitInv
    <3>2. IsFiniteSet(Units(orders \cup {e}))
      BY <3>1, NotionalAdd
    <3> QED
      BY <3>1, <3>2, NotionalMonotone
  <2> QED
    BY <2>1, <2>2
<1>7. \A f \in Executions : \A k \in Scopes : exec'[f].seen[k] \subseteq orders'
  <2>1. \A k \in Scopes : exec'[e].seen[k] \subseteq orders
    BY <1>1, SeenFacts DEF LimitInv
  <2>2. \A f \in Executions : f # e => exec'[f] = exec[f]
    BY <1>1, OthersUnmoved
  <2> QED
    BY <1>3, <2>1, <2>2 DEF LimitInv
<1>8. WritersWithinLimits'
  <2> SUFFICES ASSUME NEW f \in Executions, exec'[f].pc = "write", NEW k \in Scopes,
                      NEW Q \in SUBSET exec'[f].seen[k]
               PROVE  Notional(Q)' + CostOf(f)' <= MaxExposure[k]
    BY DEF WritersWithinLimits
  <2>1. Notional(Q)' = Notional(Q)
    BY <1>5, <1>7
  <2>2. CASE f = e
    <3>1. /\ exec'[e].seen = exec[e].seen /\ CostOf(e)' = CostOf(e)
          /\ Notional(exec[e].seen[k]) + CostOf(e) <= MaxExposure[k]
      BY <1>1, <2>2, SeenFacts DEF WithinLimits, ExposureAfter, CostOf
    <3>2. IsFiniteSet(Units(exec[e].seen[k]))
      BY DEF LimitInv
    <3>3. /\ Notional(Q) <= Notional(exec[e].seen[k])
          /\ Notional(Q) \in Nat /\ Notional(exec[e].seen[k]) \in Nat
      BY <2>2, <3>1, <3>2, NotionalMonotone
    <3>4. CostOf(e) \in Nat /\ MaxExposure[k] \in Nat
      <4>1. SubjectsKnown'
        BY SubjectsStayKnown DEF IInv, TypeInv, Next
      <4>2. exec[e].signal \in Signals
        BY <1>1, <2>2, <4>1, SeenFacts DEF SubjectsKnown
      <4> QED
        BY <4>2 DEF CostOf
    <3> QED
      BY <2>1, <2>2, <3>1, <3>3, <3>4
  <2>3. CASE f # e
    <3>1. exec'[f] = exec[f]
      BY <1>1, <2>3, OthersUnmoved
    <3>2. CostOf(f)' = CostOf(f)
      BY <3>1 DEF CostOf
    <3> QED
      BY <2>1, <3>1, <3>2 DEF LimitInv, WritersWithinLimits
  <2> QED
    BY <2>2, <2>3
<1>9. SerialSetsWithinLimits'
  <2> SUFFICES ASSUME NEW k \in Scopes, NEW Q \in SUBSET orders', Serial(k, Q)'
               PROVE  Notional(Q) <= MaxExposure[k]
    BY <1>5 DEF SerialSetsWithinLimits
  <2>1. Serial(k, Q)
    BY <1>4 DEF Serial
  <2>2. CASE Q \subseteq orders
    BY <2>1, <2>2 DEF LimitInv, SerialSetsWithinLimits
  <2>3. CASE ~(Q \subseteq orders)
    <3> DEFINE earlier == Q \ {e}
    <3>1. /\ e \in Q /\ earlier \subseteq orders /\ Q = earlier \cup {e}
          /\ exec[e].pc = "write" /\ CostOf(e) \in Nat
      BY <1>3, <2>3
    <3>2. earlier \subseteq exec[e].seen[k]
      <4> SUFFICES ASSUME NEW a \in earlier PROVE a \in exec[e].seen[k]
        OBVIOUS
      <4>1. e \notin exec[a].seen[k]
        BY <1>1, <1>2, <3>1 DEF LimitInv
      <4> QED
        BY <2>1, <3>1, <4>1 DEF Serial
    <3> HIDE DEF earlier
    <3>3. Notional(earlier) + CostOf(e) <= MaxExposure[k]
      BY <3>1, <3>2 DEF LimitInv, WritersWithinLimits
    <3>4. IsFiniteSet(Units(earlier))
      BY <3>1 DEF LimitInv
    <3>5. /\ Notional(earlier) \in Nat /\ Notional(Q) \in Nat
          /\ Notional(Q) <= Notional(earlier) + CostOf(e)
      BY <3>1, <3>4, NotionalAdd, NotionalMonotone
    <3> QED
      BY <3>1, <3>3, <3>5
  <2> QED
    BY <2>2, <2>3
<1> QED
  BY <1>6, <1>7, <1>8, <1>9 DEF LimitInv

\* Runs that write have compared, and sets of runs that did not overlap are
\* within the limits: the invariant behind the result.
THEOREM LimitInvariant == Spec => []LimitInv
<1>1. SpineInit => LimitInv
  <2> SUFFICES ASSUME SpineInit PROVE LimitInv
    OBVIOUS
  <2>1. orders = {} /\ \A e \in Executions :
          exec[e].pc = "idle" /\ \A k \in Scopes : exec[e].seen[k] = {}
    BY DEF SpineInit, FreshExec
  <2>2. Units({}) = {}
    BY DEF Units
  <2>3. IsFiniteSet(Units({})) /\ Notional({}) = 0
    BY <2>2, FS_EmptySet DEF Notional
  <2>4. \A Q \in SUBSET orders : Q = {}
    BY <2>1
  <2>5. ASSUME NEW k \in Scopes, NEW Q \in SUBSET orders
        PROVE  Notional(Q) <= MaxExposure[k]
    <3>1. MaxExposure[k] \in Nat
      OBVIOUS
    <3>2. Notional(Q) = 0
      BY <2>3, <2>4
    <3> QED
      BY <3>1, <3>2
  <2> QED
    BY <2>1, <2>3, <2>4, <2>5 DEF LimitInv, WritersWithinLimits, SerialSetsWithinLimits
<1>2. IInv /\ LimitInv /\ [Next]_vars => LimitInv'
  <2> SUFFICES ASSUME IInv, LimitInv, [Next]_vars PROVE LimitInv'
    OBVIOUS
  <2>1. ASSUME NEW e \in Executions, Execute(e) PROVE LimitInv'
    BY <2>1, ExecuteKeepsLimits
  <2>2. ASSUME NEW r \in Reviewers, Review(r) PROVE LimitInv'
    BY <2>2, ReviewFacts, OthersKeepLimits DEF spineRest
  <2>3. CASE ApprovalStep
    BY <2>3, OthersKeepLimits DEF ApprovalStep
  <2>4. ASSUME NEW s \in Volatile, EvidenceChanges(s) PROVE LimitInv'
    BY <2>4, OthersKeepLimits DEF EvidenceChanges
  <2>5. ASSUME NEW t \in Settlers, SettleStep(t) PROVE LimitInv'
    BY <2>5, OthersKeepLimits DEF SettleStep
  <2>6. CASE UNCHANGED vars
    BY <2>6, OthersKeepLimits DEF vars
  <2> QED
    BY <2>1, <2>2, <2>3, <2>4, <2>5, <2>6 DEF Next
<1> QED
  BY <1>1, <1>2, InvariantHolds, PTL DEF Spec

\* The open positions of a scope whose runs did not overlap are within its
\* limit, for any costs, limits, settlements and refusals (_current_exposure).
THEOREM LimitsHold == Spec => []LimitsHoldWithoutOverlap
<1>1. LimitInv => LimitsHoldWithoutOverlap
  BY DEF LimitInv, SerialSetsWithinLimits, LimitsHoldWithoutOverlap, ScopeOf, Unsettled
<1> QED
  BY <1>1, LimitInvariant, PTL
-----------------------------------------------------------------------------
(* The approvals behind the orders.                                        *)

\* Execution, review and settlement never write the approval table: whatever
\* they do, its rows change only as SpecialistApproval says, so what is proved
\* of its slots and of revocation holds beside them.
THEOREM SpineKeepsApprovals == Spec => ApprovalSpec
<1>1. SpineInit => ApprovalInit
  BY DEF SpineInit
<1>2. [Next]_vars => [ManageApprovals]_approval
  <2>1. ASSUME NEW e \in Executions, Execute(e) PROVE UNCHANGED approval
    BY <2>1 DEF Execute, ProceedExecution, StartExecution, ReadAuthorization, ReadApproval,
       ReadEvidence, CheckExisting, ReadExposure, PersistDecision, WriteExecution,
       CloseConnection, CrashExecution, stored
  <2>2. ASSUME NEW r \in Reviewers, Review(r) PROVE UNCHANGED approval
    BY <2>2 DEF Review, ValidateAuthorization, SelectAuthorization, InsertAuthorization,
       ReadForRevocation, RevokeAuthorization, CrashReviewer, spineRest
  <2> QED
    BY <2>1, <2>2 DEF Next, ApprovalStep, EvidenceChanges, SettleStep, vars
<1> QED
  BY <1>1, <1>2, PTL DEF Spec, ApprovalSpec

\* One active approval per slot, whatever runs, reviewers and settlers do beside.
THEOREM SpineOneActive == Spec => []OneActivePerSlot
  BY SpineKeepsApprovals, OneActive, PTL

\* Nor does any of them, or the approval command beside them, take a revocation
\* back: an authority revoked while a run reads stays revoked.
THEOREM SpineRevokedForGood == Spec => RevocationIsFinal
  BY SpineKeepsApprovals, RevokedForGood, PTL

-----------------------------------------------------------------------------
(***************************************************************************)
(* The spine implements SignalLifecycle: of the many steps of a run only   *)
(* its commit is an abstract step, and so is the commit of a reviewer or   *)
(* of a settler; all others stutter.                                       *)
(***************************************************************************)

\* Which positions a signal has depends on the orders and on their signals,
\* and the signal of a run that placed one is fixed.
LEMMA PositionsStay ==
    ASSUME IInv, NEW e \in Executions, Execute(e), UNCHANGED orders, NEW s \in Signals
    PROVE  OrdersOf(s)' = OrdersOf(s)
<1>1. \A o \in orders : o \in Executions /\ exec'[o].signal = exec[o].signal
  BY RunsKeepSignal DEF IInv, OrdersDone, TypeInv, SpineTypeOK, SettlementTypeOK
<1> QED
  BY <1>1 DEF OrdersOf

\* The commit of a run is the abstract order: a fresh position for a signal
\* that has none, and its authorization spent.
LEMMA WriteOrders ==
    ASSUME IInv, NEW e \in Executions, WriteExecution(e), orders' # orders
    PROVE  \E s \in Signals : Lifecycle!Order(s)
<1> DEFINE position == [t \in Signals |-> OrdersOf(t)]
<1>1. PICK s \in Signals :
      /\ s = exec[e].signal /\ exec[e].pc = "write"
      /\ OrdersOf(s) = {}
      /\ auth[s].status = "active" /\ auth[s].approval = exec[e].approval
      /\ orders' = orders \cup {e}
      /\ auth'[s].status = "used" /\ auth'[s].approval = exec[e].approval
      /\ \A t \in Signals : t # s => auth'[t] = auth[t]
  BY WriteFacts
<1>2. auth' = [auth EXCEPT ![s] = [status |-> "used", approval |-> auth[s].approval]]
  <2>1. auth \in [Signals -> AuthRow] /\ auth[s] \in AuthRow
    BY <1>1 DEF IInv, TypeInv, SpineTypeOK
  <2>2. orders' = orders \cup {e} /\ auth' = [auth EXCEPT ![s] = Consumed(@)]
    BY <1>1 DEF WriteExecution, OrderIndexAdmits
  <2>3. Consumed(auth[s]) = [status |-> "used", approval |-> auth[s].approval]
    BY <2>1 DEF Consumed, AuthRow
  <2> QED
    BY <2>1, <2>2, <2>3
<1>3. e \notin orders
  BY <1>1 DEF IInv, OrdersDone
<1>4. \A o \in orders \cup {e} : o \in Executions /\ exec'[o].signal = exec[o].signal
  BY <1>1, RunsKeepSignal DEF IInv, OrdersDone, TypeInv, SpineTypeOK, SettlementTypeOK,
     Execute, ProceedExecution
<1>5. \A t \in Signals : e \notin position[t]
  BY <1>3 DEF OrdersOf
<1>6. position' = [position EXCEPT ![s] = {e}]
  <2>1. OrdersOf(s)' = {e}
    BY <1>1, <1>4 DEF OrdersOf
  <2>2. \A t \in Signals : t # s => OrdersOf(t)' = OrdersOf(t)
    BY <1>1, <1>4 DEF OrdersOf
  <2> QED
    BY <2>1, <2>2
<1>7. UNCHANGED settledFlag
  BY DEF WriteExecution, settlementVars
<1> QED
  BY <1>1, <1>2, <1>5, <1>6, <1>7 DEF Lifecycle!Order

\* The commit of a reviewer authorizes a signal that was never authorized.
LEMMA InsertAuthorizes ==
    ASSUME IInv, NEW r \in Reviewers, Review(r), auth' # auth
    PROVE  \E s \in Signals : Lifecycle!Authorize(s)
<1> DEFINE s == reviewer[r].signal
<1>1. InsertAuthorization(r)
  BY DEF Review, ValidateAuthorization, SelectAuthorization,
     ReadForRevocation, RevokeAuthorization, CrashReviewer
<1>2. s \in Signals /\ reviewer[r].approval \in Approvals
  BY <1>1 DEF InsertAuthorization, IInv, TypeInv, SubjectsKnown
<1>3. /\ auth[s].status = "none"
      /\ auth' = [auth EXCEPT ![s] = [status |-> "active", approval |-> reviewer[r].approval]]
  BY <1>1 DEF InsertAuthorization, NeverAuthorized
<1>4. UNCHANGED <<orders, exec, settledFlag>>
  BY <1>1 DEF InsertAuthorization, spineRest, settlementVars
<1>5. \A t \in Signals : OrdersOf(t)' = OrdersOf(t)
  BY <1>4 DEF OrdersOf
<1> QED
  BY <1>2, <1>3, <1>4, <1>5 DEF Lifecycle!Authorize

\* The commit of a settler settles the one position of some signal.
LEMMA InsertSettles ==
    ASSUME IInv, SettlementInv, NEW t \in Settlers, SettleStep(t), settledFlag' # settledFlag
    PROVE  \E s \in Signals : Lifecycle!Settle(s)
<1> DEFINE p == settler[t].position
           s == exec[p].signal
<1>1. InsertSettlement(t)
  BY DEF SettleStep, Settle, FindPosition, LookupSettlement, CrashSettler
<1>2. p \in orders /\ p \in Executions
  BY <1>1 DEF InsertSettlement, SettlementInv, SettlersKnowPosition, IInv, TypeInv,
     SpineTypeOK, SettlementTypeOK
<1>3. s \in Signals
  BY <1>2 DEF IInv, OrdersDone, TypeInv, SubjectsKnown
<1>4. OrdersOf(s) = {p}
  BY <1>2 DEF IInv, OneOrderPerSignal, OrdersOf
<1>5. settledFlag' = settledFlag \cup {p}
  BY <1>1 DEF InsertSettlement
<1>6. UNCHANGED <<auth, orders, exec>>
  BY DEF SettleStep
<1>7. \A q \in Signals : OrdersOf(q)' = OrdersOf(q)
  BY <1>6 DEF OrdersOf
<1> QED
  BY <1>3, <1>4, <1>5, <1>6, <1>7 DEF Lifecycle!Settle

\* Every behaviour of the spine is one of SignalLifecycle: no interleaving of
\* runs, reviewers, settlers and crashes orders a signal twice, orders it
\* without spending a live authorization, or settles what does not exist.
THEOREM SpineImplements == Spec => ImplementsLifecycle
<1>1. SpineInit => Lifecycle!Init
  BY DEF SpineInit, SettlementInit, NoAuth, OrdersOf, Lifecycle!Init
<1>2. IInv /\ SettlementInv /\ [Next]_vars => [Lifecycle!Next]_(Lifecycle!vars)
  <2> SUFFICES ASSUME IInv, SettlementInv, [Next]_vars
               PROVE  Lifecycle!Next \/ UNCHANGED Lifecycle!vars
    OBVIOUS
  <2>1. ASSUME NEW e \in Executions, Execute(e)
        PROVE  Lifecycle!Next \/ UNCHANGED Lifecycle!vars
    <3>1. CASE WriteExecution(e) /\ orders' # orders
      BY <3>1, WriteOrders DEF Lifecycle!Next
    <3>2. CASE ~WriteExecution(e) \/ orders' = orders
      <4>1. UNCHANGED <<orders, auth>>
        BY <2>1, <3>2, OnlyWritesWrite, WriteFacts DEF OrdersOf
      <4>2. UNCHANGED settledFlag
        BY <2>1, ExecTables DEF IInv, TypeInv
      <4> QED
        BY <2>1, <4>1, <4>2, PositionsStay DEF Lifecycle!vars
    <3> QED
      BY <3>1, <3>2
  <2>2. ASSUME NEW r \in Reviewers, Review(r)
        PROVE  Lifecycle!Next \/ UNCHANGED Lifecycle!vars
    <3>1. CASE auth' # auth
      BY <2>2, <3>1, InsertAuthorizes DEF Lifecycle!Next
    <3>2. CASE auth' = auth
      BY <2>2, <3>2, ReviewFacts DEF spineRest, settlementVars, OrdersOf, Lifecycle!vars
    <3> QED
      BY <3>1, <3>2
  <2>3. CASE ApprovalStep
    BY <2>3 DEF ApprovalStep, settlementVars, OrdersOf, Lifecycle!vars
  <2>4. ASSUME NEW s \in Volatile, EvidenceChanges(s) PROVE UNCHANGED Lifecycle!vars
    BY <2>4 DEF EvidenceChanges, settlementVars, OrdersOf, Lifecycle!vars
  <2>5. ASSUME NEW t \in Settlers, SettleStep(t)
        PROVE  Lifecycle!Next \/ UNCHANGED Lifecycle!vars
    <3>1. CASE settledFlag' # settledFlag
      BY <2>5, <3>1, InsertSettles DEF Lifecycle!Next
    <3>2. CASE settledFlag' = settledFlag
      BY <2>5, <3>2 DEF SettleStep, OrdersOf, Lifecycle!vars
    <3> QED
      BY <3>1, <3>2
  <2>6. CASE UNCHANGED vars
    BY <2>6 DEF vars, settlementVars, OrdersOf, Lifecycle!vars
  <2> QED
    BY <2>1, <2>2, <2>3, <2>4, <2>5, <2>6 DEF Next
<1> QED
  BY <1>1, <1>2, InvariantHolds, SettlementHolds, PTL DEF Spec, ImplementsLifecycle, Lifecycle!Spec

=============================================================================
