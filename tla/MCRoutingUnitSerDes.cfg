SPECIFICATION Spec
CONSTANTS
    Descriptions <- WideNodes
    Infinite = 100
    OrderedVnets = {0}
INVARIANTS
    SerDesConverts
