SPECIFICATION FairSpec
CHECK_DEADLOCK FALSE
CONSTANTS
    Objects <- MCObjects
    NoObject = 0
    Rank <- MCRank
    Window = 2
    Delays = {1, 2}
    SameTick <- MCSameTick
    Injectors = {3}
    LastTick = 3
INVARIANTS
    NothingOverdue
PROPERTIES
    AgendaSpec
    EveryEventFires

