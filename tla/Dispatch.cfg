SPECIFICATION DispatchSpec
CONSTANTS
    a1 = a1
    a2 = a2
    c1 = c1
    c2 = c2
    Approvals = {a1, a2}
    Slots = {"slot"}
    SlotOf <- SameSlot
    Trades = {t1}
    Categories = {c1, c2}
    CategoryOf <- OneCategory
    Versions = {1}
    Runs = {r1, r2}
    NoTrade = NoTrade
    NoApproval = NoApproval
    NoDecision = NoDecision
    NoCategory = NoCategory
INVARIANTS
    OneActivePerSlot
    OpenOnlyUnderItsRun
    SignalsAccountedFor
PROPERTY
    EndedDispatchIsFinal
