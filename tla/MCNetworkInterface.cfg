SPECIFICATION FairSpec
CONSTANTS
    NumVnets = 1
    VcPerVnet = 2
    NumPorts = 1
    PortOf <- MCPortOf
    Ordered = {0}
    Depth = 1
    Nodes = {1, 2}
    MaxFlits = 2
    NumMsgs = 3
    NumInPorts = 0
    MaxArrivals = 0
INVARIANTS
    OneCopyEach
    OnePacketPerVc
    StaysAwake
PROPERTIES
    OrderKept
    AllSent
