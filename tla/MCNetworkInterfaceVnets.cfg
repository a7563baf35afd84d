SPECIFICATION Spec
CONSTANTS
    NumVnets = 2
    VcPerVnet = 1
    NumPorts = 2
    PortOf <- MCPortOf
    Ordered = {0}
    Depth = 1
    Nodes = {1, 2}
    MaxFlits = 2
    NumMsgs = 2
    NumInPorts = 1
    MaxArrivals = 2
INVARIANTS
    Exchange
    CreditsMove
