SPECIFICATION FairSpec
CONSTANTS
    NumIn = 2
    NumOut = 1
    NumVnets = 2
    VcPerVnet = 1
    Ordered = {}
    Depth = 1
    PipeStages = 1
    Flows = {1}
    MaxFlits = 1
PROPERTIES
    PacketsLeave
