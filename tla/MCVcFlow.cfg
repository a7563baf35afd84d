SPECIFICATION FairSpec
CONSTANTS
    VCs = {0, 1}
    VnetOf <- MCVnetOf
    Depth <- MCDepth
    MaxFlits = 3
INVARIANTS
    TypeOK
    CreditConservation
    IdleMeansDrained
    AssertsHold
    InOrder
PROPERTIES
    LeaseSpec
    LeasesEnd
