\* Two wallets that trade the same market, one run after the other.
SPECIFICATION Spec
CONSTANTS
    e1 = e1
    e2 = e2
    s1 = s1
    s2 = s2
    a1 = a1
    w1 = w1
    w2 = w2
    m1 = m1
    Executions = {e1, e2}
    Signals = {s1, s2}
    Approvals = {a1}
    Slots = {"slot"}
    SlotOf <- MCSlotOf
    WalletOf <- WalletEach
    MarketOf <- MCMarketOf
    Cost <- MCCost
    Thin = {}
    Matches <- MCMatches
    Volatile = {}
    Reviewers = {r1}
    Settlers = {}
    Sources = {"gamma"}
    Labels = {"YES"}
    MaxOrder = 2
    MaxExposure <- RoomForTwo
    NoOne = NoOne
    NoSignal = NoSignal
    NoApproval = NoApproval
INVARIANT
    MarketLimitHolds
CHECK_DEADLOCK FALSE
