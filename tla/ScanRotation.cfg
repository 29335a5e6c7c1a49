SPECIFICATION Spec
CONSTANTS
    t1 = t1
    t2 = t2
    t3 = t3
    m1 = m1
    Wallets = {1, 2, 3}
    Trades = {t1, t2, t3}
    Trade <- MCTrade
    Cap = 1
    MaxCandidates = 2
    MaxPerWallet = 2
    MinTrades = 2
    Evaluated = {}
    MaxClock = 2
    MaxFaults = 0
PROPERTY ScanRotates
CHECK_DEADLOCK FALSE
