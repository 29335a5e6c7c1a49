\* One run of the execution command, real or dry, on one signal whose evidence
\* changes, and two settlers with equal, equivalent or conflicting evidence.
SPECIFICATION LiveSpec
CONSTANTS
    e1 = e1
    e2 = e2
    s1 = s1
    s2 = s2
    a1 = a1
    w1 = w1
    w2 = w2
    m1 = m1
    Executions = {e1}
    Signals = {s1}
    Approvals = {a1}
    Slots = {"slot"}
    SlotOf <- MCSlotOf
    WalletOf <- OneWallet
    MarketOf <- MCMarketOf
    Cost <- MCCost
    Thin = {}
    Matches <- MCMatches
    Volatile = {s1}
    Reviewers = {r1}
    Settlers = {t1, t2}
    Sources = {"gamma"}
    Labels = {"YES", "WON", "NO"}
    MaxOrder = 2
    MaxExposure <- MCMaxExposure
    NoOne = NoOne
    NoSignal = NoSignal
    NoApproval = NoApproval
INVARIANTS
    SettledFlagMatchesLedger
    EvidenceRecordedOnce
    ReportsMatchLedger
PROPERTIES
    CommandsFinish
CHECK_DEADLOCK FALSE
