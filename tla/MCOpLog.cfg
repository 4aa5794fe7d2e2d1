SPECIFICATION Spec
CONSTANTS
    Proc = {p1, p2, p3}
    None = None
    Established = TRUE
    LegacyOps = 0
    MaxOps = 2
    MaxPops = 2
    MaxCrashes = 1
    MAX_RETRY_ATTEMPTS = 2
SYMMETRY Symmetry
CHECK_DEADLOCK FALSE
INVARIANTS
    StoreClosed
    HeadsAreTip
PROPERTIES
    EpochGrows
    LogIsAtomic
