SPECIFICATION Spec
CONSTANTS
    m1 = m1
    m2 = m2
    Markets = {m1, m2}
    a = a
    b = b
    Evidence <- EvidenceValue
    None = None
    Missing = Missing
    Unasked = Unasked
    NoRow = NoRow
    Watches <- WatchesValue
    Trades <- NamedTrades
    Made <- MadeValue
    RecordLimit = 2
    PerWatchLimit = 2
    GammaLimit = 1
    HistoryLimit = 2
    MaxJobs = 2
    MaxMoves = 2
INVARIANT CohortAtomic
CHECK_DEADLOCK FALSE
