SPECIFICATION Spec
CONSTANTS
    MaxRebinds = 2
    MaxWork = 1
    MaxFaults = 2
    MaxKeys = 2
INVARIANTS
    WholeBinding
    UncertainIsQuarantined
    ReceiptsCreditable
PROPERTIES
    RebindCompletes
CHECK_DEADLOCK FALSE
