CHECK_DEADLOCK FALSE
SPECIFICATION FairSpec
CONSTANTS
    Descriptions <- Networks
    Infinite = 100
    OrderedVnets = {0}
INVARIANTS
    DistIsLeast
    RoundsAreFinal
    RouteExists
    XYAssertsHold
    NoCyclicWait
    LinksConnect
PROPERTIES
    Arrives
