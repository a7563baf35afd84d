SPECIFICATION Spec
CONSTANTS
    NumIn = 2
    NumOut = 1
    NumVnets = 1
    VcPerVnet = 2
    Ordered = {0}
    Depth = 1
    PipeStages = 3
    Flows = {1}
    MaxFlits = 2
INVARIANTS
    OneHolder
    CreditsAddUp
    NoLostWakeup
PROPERTIES
    OrderedFlows
