SPECIFICATION Spec
CONSTANTS
    t1 = t1
    t2 = t2
    t3 = t3
    yes = yes
    no = no
    Trades = {t1, t2, t3}
    Stored = {t1, t3}
    Eligible = {t1, t2, t3}
    Watched = {t1, t3}
    MarketOf <- MarketOfValue
    TokenOf <- TokenOfValue
    Markets = {1, 2}
    Outcomes <- OutcomesValue
    Declares <- DeclaresValue
    Failures = {"unavailable"}
    None = None
    Never = Never
    LimitMarkets = 2
    MaxAttempts = 2
    RetryDays = 1
    UnavailableDays = 1
    MaxCommands = 1
    MaxFaults = 1
INVARIANT
    RefreshNamesOneWinner
PROPERTIES
    SettledStays
    RefreshLandsWhole
    TruthArrives
CHECK_DEADLOCK FALSE
