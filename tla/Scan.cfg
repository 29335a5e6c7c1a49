SPECIFICATION Spec
CONSTANTS
    t1 = t1
    t2 = t2
    t3 = t3
    m1 = m1
    Wallets = {1, 2, 3}
    Trades = {t1, t2, t3}
    Trade <- MCTrade
    Cap = 2
    MaxCandidates = 2
    MaxPerWallet = 2
    MinTrades = 2
    Evaluated = {2}
    MaxClock = 2
    MaxFaults = 1
INVARIANTS AuditComplete CandidateRestsOnDecision
PROPERTY DueWalletsReached
CHECK_DEADLOCK FALSE
