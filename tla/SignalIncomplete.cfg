SPECIFICATION Spec
CONSTANTS
    None = None
    t1 = t1
    t2 = t2
    t3 = t3
    t4 = t4
    Trades = {t1, t2, t3, t4}
    Trade <- MCTrade
    Rules <- MCRules
    WalletScore <- MCWalletScore
    CategoryScore <- MCCategoryScore
    TradeScore <- MCTradeScore
    Scan = scan
    Evaluators = {scan, bridge}
    Candidates <- MCCandidates
    Scenarios = {immediate}
    ExitTracks = {hold, exit24h}
    Starts <- MCStarts
    MaxChanges = 2
    MaxExtra = 1
    MaxCrashes = 1
INVARIANT NamedDecisionsComplete
CHECK_DEADLOCK FALSE
