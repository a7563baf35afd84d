SPECIFICATION Spec
CONSTANTS
    Descriptions <- Parallel
    Infinite = 100
    OrderedVnets = {0}
INVARIANTS
    LinkSupportsVnet
