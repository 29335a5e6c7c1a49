-------------------------- MODULE ScanPipelineProofs --------------------------
(***************************************************************************)
(* What the rows of a scan rest on, for any wallets, trades and bounds, and *)
(* wherever scans were cut short.                                          *)
(***************************************************************************)
EXTENDS ScanPipeline, FiniteSetTheorems, TLAPS

USE ScanAssumption

-----------------------------------------------------------------------------
(* The invariant.                                                          *)

\* What the scan keeps at each of its steps.
ScanFits ==
    /\ wallets \subseteq Wallets
    /\ \A d \in decisions : d.wallet \in Wallets
    /\ scan.pc \in {"idle", "fetch", "score", "candidates", "audit"}
    /\ At("idle") => scan = Idle
    /\ At("fetch") =>
         scan \in [pc : {"fetch"}, now : {scan.now}, known : SUBSET Wallets,
                   left : SUBSET Markets, fetched : SUBSET Trades, found : SUBSET Wallets]
    /\ At("score") =>
         scan \in [pc : {"score"}, now : {scan.now}, fetched : SUBSET Trades,
                   metrics : {scan.metrics}, left : SUBSET Wallets, fresh : SUBSET Wallets]
    /\ At("candidates") =>
         scan \in [pc : {"candidates"}, now : {scan.now}, tried : SUBSET Trades,
                   metrics : {scan.metrics}, fetched : SUBSET Trades,
                   fresh : SUBSET Wallets, persisted : Nat]
    /\ At("audit") => scan \in [pc : {"audit"}, fresh : SUBSET Wallets]

\* A wallet is judged on these metrics, unless its decision could not be written.
Grounded(w, m) == w \in unsaved \/ HasDecision(w, m)

\* The wallets scored so far have their decisions; the slice is never larger than
\* the budget, so that no wallet of it is passed over for want of budget.
SliceFits ==
    /\ At("score") =>
         /\ DOMAIN scan.metrics \subseteq Wallets /\ Cardinality(DOMAIN scan.metrics) <= Cap
         /\ scan.left \subseteq DOMAIN scan.metrics
         /\ scan.fresh \subseteq DOMAIN scan.metrics \ scan.left
         /\ \A w \in DOMAIN scan.metrics \ scan.left : Grounded(w, scan.metrics[w])
    /\ At("candidates") =>
         \A w \in DOMAIN scan.metrics : Grounded(w, scan.metrics[w])

\* The scan still has to audit the wallet.
InHand(w) == (At("score") \/ At("candidates") \/ At("audit")) /\ w \in scan.fresh

\* Every decision of a scan is audited, or about to be, or was cut off.
AuditFits ==
    /\ \A d \in decisions : d.kind = "scan" /\ d.wallet \notin cut =>
         (d \in components /\ d.wallet \in verdicts) \/ InHand(d.wallet)
    /\ At("audit") => scan.fresh \subseteq verdicts

ScanInv == ScanFits /\ SliceFits /\ AuditFits /\ CandidateRestsOnDecision

-----------------------------------------------------------------------------
(* The slice.                                                              *)

\* The first n of a set are at most n.
LEMMA FirstOfBounded ==
    ASSUME NEW S \in SUBSET Wallets, NEW n \in Nat
    PROVE  /\ FirstOf(n, S) \subseteq S /\ IsFiniteSet(FirstOf(n, S))
           /\ Cardinality(FirstOf(n, S)) <= n
<1> DEFINE F == FirstOf(n, S)
           below(w) == {v \in S : v < w}
           rank == [w \in F |-> Cardinality(below(w))]
<1>1. F \subseteq S /\ S \subseteq Nat /\ IsFiniteSet(S) /\ IsFiniteSet(F)
    <2>1. F \subseteq S
        BY DEF FirstOf
    <2> HIDE DEF F
    <2> QED BY <2>1, FS_Subset
<1>2. ASSUME NEW w \in S
      PROVE  IsFiniteSet(below(w)) /\ Cardinality(below(w)) \in Nat
    BY <1>1, FS_Subset, FS_CardinalityType
<1>3. \A w \in F : rank[w] \in 0 .. n - 1
    <2>1. \A w \in F : w \in S /\ Cardinality(below(w)) < n
        BY DEF FirstOf
    <2>2. \A w \in F : rank[w] = Cardinality(below(w))
        OBVIOUS
    <2> HIDE DEF F, rank
    <2>3. ASSUME NEW w \in F PROVE rank[w] \in 0 .. n - 1
        <3>1. Cardinality(below(w)) \in Nat /\ Cardinality(below(w)) < n
            BY <1>2, <2>1
        <3>2. Cardinality(below(w)) \in 0 .. n - 1
            <4> HIDE DEF below
            <4> QED BY <3>1
        <3> QED BY <2>2, <3>2
    <2> QED BY <2>3
<1>4. ASSUME NEW u \in S, NEW w \in S, u < w
      PROVE  Cardinality(below(u)) < Cardinality(below(w))
    <2>1. below(u) \subseteq below(w) /\ u \in below(w) /\ u \notin below(u)
        <3>1. u \in Nat /\ w \in Nat /\ \A v \in S : v \in Nat
            BY <1>1
        <3> HIDE DEF F, rank
        <3>2. ASSUME NEW v \in S, v < u PROVE v < w
            BY <1>4, <3>1, <3>2
        <3>3. ~(u < u)
            BY <3>1
        <3> QED BY <1>4, <3>2, <3>3
    <2>2. IsFiniteSet(below(w)) /\ Cardinality(below(w)) \in Nat /\ Cardinality(below(u)) \in Nat
        BY <1>2
    <2> HIDE DEF below
    <2>3. /\ Cardinality(below(u)) <= Cardinality(below(w))
          /\ Cardinality(below(w)) = Cardinality(below(u)) => below(w) = below(u)
        BY <2>1, <2>2, FS_Subset
    <2> QED BY <2>1, <2>2, <2>3
<1>5. rank \in Injection(F, 0 .. n - 1)
    <2>1. rank \in [F -> 0 .. n - 1]
        BY <1>3
    <2>2. ASSUME NEW u \in F, NEW w \in F, rank[u] = rank[w]
          PROVE  u = w
        <3>1. u \in Nat /\ w \in Nat /\ u \in S /\ w \in S
            BY <1>1
        <3>2. Cardinality(below(u)) = Cardinality(below(w)) /\ Cardinality(below(u)) \in Nat
            BY <1>2, <2>2, <3>1
        <3> HIDE DEF below, rank, F
        <3>3. ~(u < w) /\ ~(w < u)
            BY <1>4, <3>1, <3>2
        <3> QED BY <3>1, <3>3
    <2> HIDE DEF rank, F
    <2> QED BY <2>1, <2>2 DEF Injection, IsInjective
<1>6. IsFiniteSet(0 .. n - 1) /\ Cardinality(0 .. n - 1) = n
    <2>1. Cardinality(0 .. n - 1) = IF 0 > n - 1 THEN 0 ELSE (n - 1) - 0 + 1
        BY FS_Interval
    <2>2. IsFiniteSet(0 .. n - 1)
        BY FS_Interval
    <2> QED BY <2>1, <2>2
<1> HIDE DEF F, rank
<1>7. Cardinality(F) <= n
    BY <1>5, <1>6, FS_Injection
<1> QED BY <1>1, <1>7 DEF F

\* A slice is never larger than the cap.
LEMMA SliceBounded ==
    ASSUME NEW known \in SUBSET Wallets
    PROVE  /\ Slice(known) \subseteq Wallets /\ IsFiniteSet(Slice(known))
           /\ Cardinality(Slice(known)) <= Cap
<1> DEFINE needs == {w \in known : NeedsWork(w)}
           others == {w \in known : ~NeedsWork(w)}
           work == FirstOf(Cap, needs)
           rest == FirstOf(Cap - Cardinality(work), others)
<1>1. needs \in SUBSET Wallets /\ others \in SUBSET Wallets
    OBVIOUS
<1>2. Slice(known) = work \cup rest
    BY DEF Slice
<1> HIDE DEF needs, others
<1>3. work \subseteq Wallets /\ IsFiniteSet(work) /\ Cardinality(work) <= Cap
    BY <1>1, FirstOfBounded
<1>4. Cardinality(work) \in Nat
    BY <1>3, FS_CardinalityType
<1> HIDE DEF work
<1>5. Cap - Cardinality(work) \in Nat
    BY <1>3, <1>4
<1>6. rest \subseteq Wallets /\ IsFiniteSet(rest)
        /\ Cardinality(rest) <= Cap - Cardinality(work)
    BY <1>1, <1>5, FirstOfBounded
<1> HIDE DEF rest
<1>7. /\ IsFiniteSet(work \cup rest)
      /\ Cardinality(work \cup rest)
           = Cardinality(work) + Cardinality(rest) - Cardinality(work \cap rest)
    BY <1>3, <1>6, FS_Union
<1>8. Cardinality(rest) \in Nat /\ Cardinality(work \cap rest) \in Nat
    BY <1>3, <1>6, FS_CardinalityType, FS_Subset
<1>9. Cardinality(work \cup rest) <= Cap
    BY <1>3, <1>4, <1>6, <1>7, <1>8
<1> QED BY <1>2, <1>3, <1>6, <1>7, <1>9

-----------------------------------------------------------------------------
(* Decisions.                                                              *)

\* No decision is lost by inserting another, which is there afterwards.
LEMMA InsertKeeps ==
    ASSUME NEW d
    PROVE  /\ decisions \subseteq InsertOrIgnore(d) /\ InsertOrIgnore(d) \subseteq decisions \cup {d}
           /\ \E e \in InsertOrIgnore(d) :
                e.wallet = d.wallet /\ e.kind = d.kind /\ e.metrics = d.metrics
BY DEF InsertOrIgnore

\* What a wallet was judged on stays, as long as no decision is removed.
LEMMA GroundedStays ==
    ASSUME decisions \subseteq decisions', unsaved \subseteq unsaved', NEW w, NEW m, Grounded(w, m)
    PROVE  Grounded(w, m)'
BY DEF Grounded, HasDecision, DecisionsOf

\* Nor does a candidate lose its ground.
LEMMA CandidatesStay ==
    ASSUME CandidateRestsOnDecision, candidates' = candidates,
           decisions \subseteq decisions', unsaved \subseteq unsaved'
    PROVE  CandidateRestsOnDecision'
<1> SUFFICES ASSUME NEW c \in candidates PROVE Grounded(c.wallet, c.metrics)'
    BY DEF CandidateRestsOnDecision, Grounded
<1>1. Grounded(c.wallet, c.metrics)
    BY DEF CandidateRestsOnDecision, Grounded
<1> QED BY <1>1, GroundedStays

\* A step that neither adds a decision nor drops a wallet the scan has in hand
\* keeps the audit.
LEMMA AuditStays ==
    ASSUME AuditFits, decisions' = decisions, cut \subseteq cut', verdicts \subseteq verdicts',
           components \subseteq components', \A w \in Wallets : InHand(w) => InHand(w)',
           \A d \in decisions : d.wallet \in Wallets,
           At("audit")' => scan'.fresh \subseteq verdicts'
    PROVE  AuditFits'
BY DEF AuditFits

-----------------------------------------------------------------------------
(* The world, the other jobs and the fetch.                                *)

LEMMA InitFits == Init => ScanInv
BY DEF Init, ScanInv, ScanFits, SliceFits, AuditFits, CandidateRestsOnDecision, Idle, At

\* Whatever happens beside the scan stores no decision of a scan.
LEMMA OutsideKeeps ==
    ASSUME ScanInv, scan' = scan, wallets' \subseteq Wallets, decisions \subseteq decisions',
           \A d \in decisions' \ decisions : d.wallet \in Wallets /\ d.kind # "scan",
           UNCHANGED <<candidates, verdicts, components, cut, unsaved>>
    PROVE  ScanInv'
<1> USE DEF ScanInv
<1>1. /\ candidates' = candidates /\ verdicts' = verdicts /\ components' = components
      /\ cut' = cut /\ unsaved' = unsaved
    OBVIOUS
<1>2. ScanFits'
    BY DEF ScanFits, At
<1>3. \A w, m : Grounded(w, m) => Grounded(w, m)'
    BY <1>1, GroundedStays
<1>4. SliceFits'
    BY <1>1, <1>3 DEF SliceFits, At
<1>5. \A w : InHand(w)' <=> InHand(w)
    BY DEF InHand, At
<1>6. AuditFits'
    BY <1>1, <1>5 DEF AuditFits, At
<1>7. CandidateRestsOnDecision'
    BY <1>1, CandidatesStay
<1> QED BY <1>2, <1>4, <1>6, <1>7

\* A step of a scan that has not scored anything yet.
LEMMA EarlyKeeps ==
    ASSUME ScanInv, At("idle") \/ At("fetch"), scan'.pc \in {"idle", "fetch"},
           ScanFits', decisions' = decisions,
           UNCHANGED <<candidates, verdicts, components, cut, unsaved>>
    PROVE  ScanInv'
<1> USE DEF ScanInv
<1>1. /\ candidates' = candidates /\ verdicts' = verdicts /\ components' = components
      /\ cut' = cut /\ unsaved' = unsaved
    OBVIOUS
<1>2. SliceFits'
    BY DEF SliceFits, At
<1>3. AuditFits'
    BY <1>1 DEF AuditFits, InHand, At
<1>4. CandidateRestsOnDecision'
    BY <1>1, CandidatesStay
<1> QED BY <1>2, <1>3, <1>4

LEMMA BeginKeeps ==
    ASSUME ScanInv, Begin
    PROVE  ScanInv'
<1>1. /\ At("idle") /\ UNCHANGED <<candidates, verdicts, components, cut, unsaved>>
      /\ decisions' = decisions /\ wallets' = wallets
      /\ scan' = [pc |-> "fetch", now |-> clock, known |-> wallets,
                  left |-> Markets, fetched |-> {}, found |-> {}]
    BY DEF Begin, tables, bounds
<1>2. ScanFits' /\ scan'.pc = "fetch"
    BY <1>1 DEF ScanInv, ScanFits, At
<1> QED BY <1>1, <1>2, EarlyKeeps

LEMMA FetchKeeps ==
    ASSUME ScanInv, NEW m \in Markets, FetchComplete(m) \/ FetchIncomplete(m)
    PROVE  ScanInv'
<1> DEFINE Fetching == [pc : {"fetch"}, now : {scan.now}, known : SUBSET Wallets,
                        left : SUBSET Markets, fetched : SUBSET Trades, found : SUBSET Wallets]
<1>1. /\ At("fetch") /\ UNCHANGED <<candidates, verdicts, components, cut, unsaved>>
      /\ decisions' = decisions /\ wallets' = wallets
    BY DEF FetchComplete, FetchIncomplete, tables
<1>2. scan \in Fetching
    BY <1>1 DEF ScanInv, ScanFits
<1>3. scan' \in Fetching /\ scan'.now = scan.now
    <2>1. CASE FetchIncomplete(m)
        BY <1>2, <2>1 DEF FetchIncomplete
    <2>2. CASE FetchComplete(m)
        <3>1. PICK seen \in SUBSET Trades :
                scan' = [scan EXCEPT !.left = @ \ {m}, !.fetched = @ \cup seen,
                                     !.found = {Trade[t].wallet : t \in seen}]
            <4> DEFINE all == {t \in Trades : Trade[t].market = m /\ Trade[t].at <= clock}
            <4>1. PICK lost \in {{}} \cup {{t} : t \in all} :
                    scan' = [scan EXCEPT !.left = @ \ {m}, !.fetched = @ \cup (all \ lost),
                                         !.found = {Trade[t].wallet : t \in all \ lost}]
                BY <2>2 DEF FetchComplete
            <4>2. all \ lost \in SUBSET Trades
                OBVIOUS
            <4> QED BY <4>1, <4>2
        <3>2. {Trade[t].wallet : t \in seen} \subseteq Wallets
            OBVIOUS
        <3> QED BY <1>2, <3>1, <3>2
    <2> QED BY <2>1, <2>2
<1>4. scan'.pc = "fetch"
    BY <1>3
<1>5. ScanFits'
    BY <1>1, <1>3, <1>4 DEF ScanInv, ScanFits, At
<1> QED BY <1>1, <1>4, <1>5, EarlyKeeps

LEMMA DiscoverKeeps ==
    ASSUME ScanInv, NEW w \in Wallets, Discover(w)
    PROVE  ScanInv'
<1> DEFINE Fetching == [pc : {"fetch"}, now : {scan.now}, known : SUBSET Wallets,
                        left : SUBSET Markets, fetched : SUBSET Trades, found : SUBSET Wallets]
<1>1. /\ At("fetch") /\ UNCHANGED <<candidates, verdicts, components, cut, unsaved>>
      /\ decisions' = decisions /\ wallets' \subseteq Wallets
      /\ \/ scan' = [scan EXCEPT !.found = @ \ {w}, !.known = @ \cup {w}]
         \/ scan' = [scan EXCEPT !.found = @ \ {w}]
    BY DEF Discover, ScanInv, ScanFits
<1>2. scan \in Fetching
    BY <1>1 DEF ScanInv, ScanFits
<1>3. scan' \in Fetching /\ scan'.now = scan.now /\ scan'.pc = "fetch"
    <2>1. CASE scan' = [scan EXCEPT !.found = @ \ {w}, !.known = @ \cup {w}]
        <3>1. scan.found \ {w} \in SUBSET Wallets /\ scan.known \cup {w} \in SUBSET Wallets
            BY <1>2
        <3> QED BY <1>2, <2>1, <3>1
    <2>2. CASE scan' = [scan EXCEPT !.found = @ \ {w}]
        BY <1>2, <2>2
    <2> QED BY <1>1, <2>1, <2>2
<1>4. ScanFits'
    BY <1>1, <1>3 DEF ScanInv, ScanFits, At
<1> QED BY <1>1, <1>3, <1>4, EarlyKeeps

-----------------------------------------------------------------------------
(* The slice, its decisions and their audit.                               *)

\* Only a wallet with a trade is measured, and a slice fits the budget.
LEMMA SelectSliceKeeps ==
    ASSUME ScanInv, SelectSlice
    PROVE  ScanInv'
<1> USE DEF ScanInv
<1> DEFINE measured == {w \in Slice(scan.known) : Own(w) # {}}
           metrics == [w \in measured |-> Metrics(w)]
<1>1. /\ At("fetch") /\ candidates' = candidates /\ verdicts' = verdicts
      /\ components' = components /\ cut' = cut /\ unsaved' = unsaved
      /\ decisions' = decisions /\ wallets' = wallets
      /\ scan' = [pc |-> "score", now |-> scan.now, fetched |-> scan.fetched,
                  metrics |-> metrics, left |-> measured, fresh |-> {}]
    BY DEF SelectSlice, tables, bounds
<1>2. scan.known \subseteq Wallets /\ scan.fetched \subseteq Trades
    BY <1>1 DEF ScanFits
<1>3. measured \subseteq Wallets /\ Cardinality(measured) <= Cap
    <2>1. /\ Slice(scan.known) \subseteq Wallets /\ IsFiniteSet(Slice(scan.known))
          /\ Cardinality(Slice(scan.known)) <= Cap
        BY <1>2, SliceBounded
    <2>2. measured \subseteq Slice(scan.known)
        OBVIOUS
    <2> HIDE DEF measured
    <2>3. IsFiniteSet(measured) /\ Cardinality(measured) <= Cardinality(Slice(scan.known))
        BY <2>1, <2>2, FS_Subset
    <2>4. Cardinality(measured) \in Nat /\ Cardinality(Slice(scan.known)) \in Nat
        BY <2>1, <2>3, FS_CardinalityType
    <2> QED BY <2>1, <2>2, <2>3, <2>4
<1>4. DOMAIN metrics = measured
    OBVIOUS
<1> HIDE DEF measured, metrics
<1>5. ScanFits'
    BY <1>1, <1>2, <1>3 DEF ScanFits, At
<1>6. SliceFits'
    BY <1>1, <1>3, <1>4 DEF SliceFits, At
<1>7. AuditFits'
    BY <1>1 DEF AuditFits, InHand, At
<1>8. CandidateRestsOnDecision'
    BY <1>1, CandidatesStay
<1> QED BY <1>5, <1>6, <1>7, <1>8

\* The wallet has its decision afterwards, or the write has failed: the budget is
\* never spent while wallets are left.
LEMMA ScoreKeeps ==
    ASSUME ScanInv, NEW w \in Wallets, Score(w)
    PROVE  ScanInv'
<1> USE DEF ScanInv
<1> DEFINE m == scan.metrics[w]
           d == [wallet |-> w, kind |-> "scan", metrics |-> m, at |-> scan.now]
           Scoring == [pc : {"score"}, now : {scan.now}, fetched : SUBSET Trades,
                       metrics : {scan.metrics}, left : SUBSET Wallets, fresh : SUBSET Wallets]
           skipped == [scan EXCEPT !.left = @ \ {w}]
           scored == [scan EXCEPT !.left = @ \ {w}, !.fresh = @ \cup {w}]
<1>1. /\ At("score") /\ w \in scan.left
      /\ candidates' = candidates /\ verdicts' = verdicts /\ components' = components
      /\ cut' = cut /\ wallets' = wallets
    BY DEF Score, IsFirst
<1>2. \/ /\ HasDecision(w, m) \/ Cardinality(scan.fresh) >= Cap
         /\ scan' = skipped /\ decisions' = decisions /\ unsaved' = unsaved
      \/ scan' = scored /\ decisions' = InsertOrIgnore(d) /\ unsaved' = unsaved
      \/ scan' = skipped /\ decisions' = decisions /\ unsaved' = unsaved \cup {w}
    BY DEF Score, Budget
<1>3. scan \in Scoring
    BY <1>1 DEF ScanFits
<1>4. /\ DOMAIN scan.metrics \subseteq Wallets /\ Cardinality(DOMAIN scan.metrics) <= Cap
      /\ scan.left \subseteq DOMAIN scan.metrics
      /\ scan.fresh \subseteq DOMAIN scan.metrics \ scan.left
      /\ \A v \in DOMAIN scan.metrics \ scan.left : Grounded(v, scan.metrics[v])
    BY <1>1 DEF SliceFits
<1>5. ~(Cardinality(scan.fresh) >= Cap)
    <2>1. /\ IsFiniteSet(DOMAIN scan.metrics) /\ scan.fresh \subseteq DOMAIN scan.metrics
          /\ scan.fresh # DOMAIN scan.metrics
        BY <1>1, <1>4, FS_Subset
    <2>2. /\ IsFiniteSet(scan.fresh) /\ Cardinality(scan.fresh) <= Cardinality(DOMAIN scan.metrics)
          /\ Cardinality(DOMAIN scan.metrics) # Cardinality(scan.fresh)
        BY <2>1, FS_Subset
    <2>3. Cardinality(scan.fresh) \in Nat /\ Cardinality(DOMAIN scan.metrics) \in Nat
        BY <2>1, <2>2, FS_CardinalityType
    <2> QED BY <1>4, <2>2, <2>3
<1>6. /\ skipped \in Scoring /\ skipped.now = scan.now /\ skipped.metrics = scan.metrics
      /\ skipped.left = scan.left \ {w} /\ skipped.fresh = scan.fresh
      /\ skipped.pc = "score"
    BY <1>3
<1>7. /\ scored \in Scoring /\ scored.now = scan.now /\ scored.metrics = scan.metrics
      /\ scored.left = scan.left \ {w} /\ scored.fresh = scan.fresh \cup {w}
      /\ scored.pc = "score"
    <2>1. scan.fresh \cup {w} \in SUBSET Wallets /\ scan.left \ {w} \in SUBSET Wallets
        BY <1>3
    <2> QED BY <1>3, <2>1
<1> HIDE DEF skipped, scored
<1>8. /\ decisions \subseteq decisions' /\ decisions' \subseteq decisions \cup {d}
      /\ unsaved \subseteq unsaved' /\ Grounded(w, m)'
    <2>1. CASE scan' = scored /\ decisions' = InsertOrIgnore(d) /\ unsaved' = unsaved
        <3>1. d.wallet = w /\ d.kind = "scan" /\ d.metrics = m
            OBVIOUS
        <3> HIDE DEF d
        <3>2. /\ decisions \subseteq decisions' /\ decisions' \subseteq decisions \cup {d}
              /\ \E e \in decisions' : e.wallet = w /\ e.kind = "scan" /\ e.metrics = m
            BY <2>1, <3>1, InsertKeeps
        <3>3. HasDecision(w, m)'
            BY <1>1, <1>6, <1>7, <2>1, <3>2 DEF HasDecision, DecisionsOf
        <3> QED BY <2>1, <3>2, <3>3 DEF Grounded
    <2>2. CASE /\ HasDecision(w, m)
               /\ scan' = skipped /\ decisions' = decisions /\ unsaved' = unsaved
        BY <1>6, <2>2 DEF Grounded, HasDecision, DecisionsOf
    <2>3. CASE scan' = skipped /\ decisions' = decisions /\ unsaved' = unsaved \cup {w}
        BY <2>3 DEF Grounded
    <2> QED BY <1>2, <1>5, <2>1, <2>2, <2>3
<1>9. /\ scan' \in Scoring /\ scan'.now = scan.now /\ scan'.metrics = scan.metrics
      /\ scan'.left = scan.left \ {w} /\ scan'.pc = "score"
      /\ \/ scan'.fresh = scan.fresh /\ decisions' = decisions
         \/ scan'.fresh = scan.fresh \cup {w}
    BY <1>2, <1>6, <1>7
<1>10. ScanFits'
    <2>1. \A e \in decisions' : e.wallet \in Wallets
        BY <1>8 DEF ScanFits
    <2> QED BY <1>1, <1>9, <2>1 DEF ScanFits, At
<1>11. SliceFits'
    <2>1. ASSUME NEW v \in DOMAIN scan.metrics, v \notin scan.left \/ v = w
          PROVE  Grounded(v, scan.metrics[v])'
        <3>1. CASE v = w
            BY <1>8, <1>9, <3>1
        <3>2. CASE v # w
            <4>1. Grounded(v, scan.metrics[v])
                BY <1>4, <2>1, <3>2
            <4> QED BY <1>8, <1>9, <4>1 DEF Grounded, HasDecision, DecisionsOf
        <3> QED BY <3>1, <3>2
    <2>2. scan'.fresh \subseteq DOMAIN scan.metrics \ scan'.left
        BY <1>1, <1>4, <1>9
    <2>3. \A v \in DOMAIN scan.metrics \ scan'.left : v \notin scan.left \/ v = w
        BY <1>9
    <2>4. \A v \in DOMAIN scan'.metrics \ scan'.left : Grounded(v, scan.metrics[v])'
        BY <1>9, <2>1, <2>3
    <2> QED BY <1>4, <1>9, <2>2, <2>4 DEF SliceFits, At
<1>12. AuditFits'
    <2>1. \A v : InHand(v) => InHand(v)'
        BY <1>1, <1>9 DEF InHand, At
    <2>2. \A e \in decisions' \ decisions : InHand(e.wallet)'
        BY <1>8, <1>9 DEF InHand, At
    <2> QED BY <1>1, <1>9, <2>1, <2>2 DEF AuditFits, At
<1>13. CandidateRestsOnDecision'
    BY <1>1, <1>8, CandidatesStay
<1> QED BY <1>10, <1>11, <1>12, <1>13

LEMMA BeginCandidatesKeeps ==
    ASSUME ScanInv, BeginCandidates
    PROVE  ScanInv'
<1> USE DEF ScanInv
<1>1. /\ At("score") /\ scan.left = {} /\ candidates' = candidates /\ verdicts' = verdicts
      /\ components' = components /\ cut' = cut /\ unsaved' = unsaved
      /\ decisions' = decisions /\ wallets' = wallets
      /\ scan' = [pc |-> "candidates", now |-> scan.now, tried |-> {},
                  metrics |-> scan.metrics, fetched |-> scan.fetched,
                  fresh |-> scan.fresh, persisted |-> 0]
    BY DEF BeginCandidates, tables, bounds
<1>2. ScanFits'
    BY <1>1 DEF ScanFits, At
<1>3. SliceFits'
    BY <1>1 DEF SliceFits, Grounded, HasDecision, DecisionsOf, At
<1>4. AuditFits'
    BY <1>1 DEF AuditFits, InHand, At
<1>5. CandidateRestsOnDecision'
    BY <1>1, CandidatesStay
<1> QED BY <1>2, <1>3, <1>4, <1>5

\* The metrics of the scan are those of the decision, whatever was stored since.
LEMMA StoreCandidateKeeps ==
    ASSUME ScanInv, NEW t \in Trades, StoreCandidate(t)
    PROVE  ScanInv'
<1> USE DEF ScanInv
<1> DEFINE w == Trade[t].wallet
           m == scan.metrics[w]
           new == [wallet |-> w, trade |-> t, metrics |-> m, status |-> CandidateStatus(w, m, t)]
           Copying == [pc : {"candidates"}, now : {scan.now}, tried : SUBSET Trades,
                       metrics : {scan.metrics}, fetched : SUBSET Trades,
                       fresh : SUBSET Wallets, persisted : Nat]
<1>1. /\ At("candidates") /\ w \in DOMAIN scan.metrics
      /\ verdicts' = verdicts /\ components' = components /\ cut' = cut /\ unsaved' = unsaved
      /\ decisions' = decisions /\ wallets' = wallets
      /\ candidates \subseteq candidates' /\ candidates' \subseteq candidates \cup {new}
      /\ \/ scan' = [scan EXCEPT !.tried = @ \cup {t}, !.persisted = @ + 1]
         \/ scan' = [scan EXCEPT !.tried = @ \cup {t}]
    BY DEF StoreCandidate, IsFirst, Unoffered
<1>2. scan \in Copying
    BY <1>1 DEF ScanFits
<1>3. /\ scan' \in Copying /\ scan'.now = scan.now /\ scan'.metrics = scan.metrics
      /\ scan'.fresh = scan.fresh /\ scan'.pc = "candidates"
    <2>1. scan.tried \cup {t} \in SUBSET Trades /\ scan.persisted + 1 \in Nat
        BY <1>2
    <2>2. CASE scan' = [scan EXCEPT !.tried = @ \cup {t}, !.persisted = @ + 1]
        BY <1>2, <2>1, <2>2
    <2>3. CASE scan' = [scan EXCEPT !.tried = @ \cup {t}]
        BY <1>2, <2>1, <2>3
    <2> QED BY <1>1, <2>2, <2>3
<1>4. ScanFits'
    BY <1>1, <1>3 DEF ScanFits, At
<1>5. SliceFits'
    BY <1>1, <1>3 DEF SliceFits, Grounded, HasDecision, DecisionsOf, At
<1>6. AuditFits'
    BY <1>1, <1>3 DEF AuditFits, InHand, At
<1>7. CandidateRestsOnDecision'
    <2>1. Grounded(w, m)
        BY <1>1 DEF SliceFits
    <2>2. new.wallet = w /\ new.metrics = m
        OBVIOUS
    <2> HIDE DEF new, w, m
    <2> QED BY <1>1, <2>1, <2>2 DEF CandidateRestsOnDecision, Grounded, HasDecision, DecisionsOf
<1> QED BY <1>4, <1>5, <1>6, <1>7

LEMMA AuditVerdictsKeeps ==
    ASSUME ScanInv, AuditVerdicts
    PROVE  ScanInv'
<1> USE DEF ScanInv
<1>1. /\ At("candidates") /\ candidates' = candidates
      /\ verdicts' = verdicts \cup scan.fresh
      /\ components' = components /\ cut' = cut /\ unsaved' = unsaved
      /\ decisions' = decisions /\ wallets' = wallets
      /\ scan' = [pc |-> "audit", fresh |-> scan.fresh]
    BY DEF AuditVerdicts, Audited, bounds
<1>2. ScanFits'
    BY <1>1 DEF ScanFits, At
<1>3. SliceFits'
    BY <1>1 DEF SliceFits, At
<1>4. AuditFits'
    BY <1>1 DEF AuditFits, InHand, At
<1>5. CandidateRestsOnDecision'
    BY <1>1, CandidatesStay
<1> QED BY <1>2, <1>3, <1>4, <1>5

LEMMA AuditComponentsKeeps ==
    ASSUME ScanInv, AuditComponents
    PROVE  ScanInv'
<1> USE DEF ScanInv
<1>1. /\ At("audit") /\ candidates' = candidates /\ verdicts' = verdicts
      /\ components' = components \cup {d \in decisions : d.wallet \in scan.fresh}
      /\ cut' = cut /\ unsaved' = unsaved /\ decisions' = decisions /\ wallets' = wallets
      /\ scan' = Idle
    BY DEF AuditComponents, Audited, bounds
<1>2. ScanFits'
    BY <1>1 DEF ScanFits, Idle, At
<1>3. SliceFits'
    BY <1>1 DEF SliceFits, Idle, At
<1>4. AuditFits'
    BY <1>1 DEF AuditFits, InHand, Idle, At
<1>5. CandidateRestsOnDecision'
    BY <1>1, CandidatesStay
<1> QED BY <1>2, <1>3, <1>4, <1>5

\* The wallets whose audit is cut off are those the scan had in hand.
LEMMA CrashKeeps ==
    ASSUME ScanInv, Crash
    PROVE  ScanInv'
<1> USE DEF ScanInv
<1>1. /\ ~At("idle") /\ candidates' = candidates /\ verdicts' = verdicts
      /\ components' = components /\ cut' = cut \cup (IF At("fetch") THEN {} ELSE scan.fresh)
      /\ unsaved' = unsaved /\ decisions' = decisions /\ wallets' = wallets
      /\ scan' = Idle
    BY DEF Crash, tables
<1>2. ScanFits'
    BY <1>1 DEF ScanFits, Idle, At
<1>3. SliceFits'
    BY <1>1 DEF SliceFits, Idle, At
<1>4. AuditFits'
    BY <1>1 DEF AuditFits, InHand, Idle, At
<1>5. CandidateRestsOnDecision'
    BY <1>1, CandidatesStay
<1> QED BY <1>2, <1>3, <1>4, <1>5

-----------------------------------------------------------------------------
(* The theorems.                                                           *)

LEMMA StepKeepsInvariant == ScanInv /\ [Next]_vars => ScanInv'
<1> SUFFICES ASSUME ScanInv, [Next]_vars PROVE ScanInv'
    OBVIOUS
<1>1. CASE UNCHANGED vars
    BY <1>1, OutsideKeeps DEF vars, tables, bounds, ScanInv, ScanFits
<1>2. CASE Tick \/ \E m \in Markets : CloseMarket(m)
    BY <1>2, OutsideKeeps DEF Tick, CloseMarket, tables, bounds, ScanInv, ScanFits
<1>3. ASSUME NEW t \in Trades, Collect(t) PROVE ScanInv'
    <2>1. wallets' \subseteq Wallets
        BY <1>3 DEF Collect, ScanInv, ScanFits
    <2> QED BY <1>3, <2>1, OutsideKeeps DEF Collect, bounds
<1>4. ASSUME NEW w \in Wallets, DiscoverElsewhere(w) PROVE ScanInv'
    <2>1. wallets' \subseteq Wallets
        BY <1>4 DEF DiscoverElsewhere, ScanInv, ScanFits
    <2> QED BY <1>4, <2>1, OutsideKeeps DEF DiscoverElsewhere, bounds
<1>5. ASSUME NEW w \in Wallets, EvaluateElsewhere(w) PROVE ScanInv'
    <2> DEFINE d == [wallet |-> w, kind |-> "evidence", metrics |-> Metrics(w), at |-> clock]
    <2>1. d.wallet = w /\ d.kind = "evidence"
        OBVIOUS
    <2>2. /\ decisions' = InsertOrIgnore(d) /\ wallets' = wallets /\ scan' = scan
          /\ UNCHANGED <<candidates, verdicts, components, cut, unsaved>>
        BY <1>5 DEF EvaluateElsewhere, bounds
    <2> HIDE DEF d
    <2>3. decisions \subseteq decisions' /\ decisions' \subseteq decisions \cup {d}
        BY <2>2, InsertKeeps
    <2>4. \A e \in decisions' \ decisions : e.wallet \in Wallets /\ e.kind # "scan"
        BY <2>1, <2>3
    <2>5. wallets' \subseteq Wallets
        BY <2>2 DEF ScanInv, ScanFits
    <2> QED BY <2>2, <2>3, <2>4, <2>5, OutsideKeeps
<1>6. CASE Crash
    BY <1>6, CrashKeeps
<1>7. CASE ScanStep
    <2>1. CASE Begin \/ SelectSlice \/ BeginCandidates
        BY <2>1, BeginKeeps, SelectSliceKeeps, BeginCandidatesKeeps
    <2>2. CASE AuditVerdicts \/ AuditComponents
        BY <2>2, AuditVerdictsKeeps, AuditComponentsKeeps
    <2>3. CASE \E m \in Markets : FetchComplete(m) \/ FetchIncomplete(m)
        BY <2>3, FetchKeeps
    <2>4. CASE \E w \in Wallets : Discover(w) \/ Score(w)
        BY <2>4, DiscoverKeeps, ScoreKeeps
    <2>5. CASE \E t \in Trades : StoreCandidate(t)
        BY <2>5, StoreCandidateKeeps
    <2> QED BY <1>7, <2>1, <2>2, <2>3, <2>4, <2>5 DEF ScanStep
<1> QED BY <1>1, <1>2, <1>3, <1>4, <1>5, <1>6, <1>7 DEF Next

\* The scan's slice and budget fit each other, and what it still has to audit is
\* what it has in hand.
THEOREM ScanInvariant == Spec => []ScanInv
BY InitFits, StepKeepsInvariant, PTL DEF Spec

\* Between scans every decision a scan stored has its audit rows, unless a crash
\* cut the audit of its wallet off.
THEOREM EveryDecisionAudited == Spec => []AuditComplete
<1>1. ScanInv => AuditComplete
    BY DEF ScanInv, ScanFits, AuditFits, InHand, AuditComplete, At
<1> QED BY <1>1, ScanInvariant, PTL

\* No candidate is judged on metrics that no stored decision of its wallet holds,
\* unless the write of that decision failed.
THEOREM CandidatesRest == Spec => []CandidateRestsOnDecision
<1>1. ScanInv => CandidateRestsOnDecision
    BY DEF ScanInv
<1> QED BY <1>1, ScanInvariant, PTL
=============================================================================
