SPECIFICATION FairSpec
CONSTANTS
    VCs = {0, 1}
    Hops <- UnequalHops
    Sizes = {1, 4, 5}
INVARIANTS
    AssertsHold
    CreditConservation
    PacketsWhole
    IdleMeansForgotten
PROPERTIES
    PacketsPass
CHECK_DEADLOCK FALSE
