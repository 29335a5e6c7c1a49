SPECIFICATION BrokerSpec
CONSTANTS
    w1 = w1
    w2 = w2
    Keys <- TwoKeys
    Quantities = {3}
    Prices = {1}
    Books <- SomeBooks
    NoBook = NoBook
    Evidence <- Resolutions
    Upper <- UpperCase
    Modes = {"research_only", "paper_manual", "paper_auto"}
    Limits <- FewLimits
    ReviewDelay = 1
    MaxOrders = 3
    MaxClock = 1
SYMMETRY WalletSymmetry
INVARIANTS
    BookMatchesLots
    CostConserved
PROPERTIES
    GatesHoldWithoutReview
    SettlementKept
CHECK_DEADLOCK FALSE
