SPECIFICATION Spec
CONSTANTS
    RequestNodes = 4
    DirectoryNodes = 4
    NumVnets = 3
    FlitSize = 16
    Delay = 2
    Configs <- MCConfigs
INVARIANTS
    Accounting
    DrainSuffices
    ReplayOnTime
    PatternsPermute
    PercentileIsLeast
CHECK_DEADLOCK FALSE
