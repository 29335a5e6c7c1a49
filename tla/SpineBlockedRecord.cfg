\* One run of the execution command on one signal.
SPECIFICATION Spec
CONSTANTS
    e1 = e1
    e2 = e2
    s1 = s1
    s2 = s2
    a1 = a1
    w1 = w1
    w2 = w2
    m1 = m1
    Executions = {e1}
    Signals = {s1}
    Approvals = {a1}
    Slots = {"slot"}
    SlotOf <- MCSlotOf
    WalletOf <- OneWallet
    MarketOf <- MCMarketOf
    Cost <- MCCost
    Thin = {}
    Matches <- MCMatches
    Volatile = {}
    Reviewers = {r1}
    Settlers = {}
    Sources = {"gamma"}
    Labels = {"YES"}
    MaxOrder = 2
    MaxExposure <- MCMaxExposure
    NoOne = NoOne
    NoSignal = NoSignal
    NoApproval = NoApproval
INVARIANT
    BlockedIsOnRecord
CHECK_DEADLOCK FALSE
