SPECIFICATION FairSpec
CONSTANTS
    Proc = {p1, p2}
    None = None
    Established = FALSE
    LegacyOps = 1
    MaxOps = 3
    MaxPops = 1
    MaxCrashes = 1
    MAX_RETRY_ATTEMPTS = 2
CHECK_DEADLOCK FALSE
PROPERTIES
    CallsReturn
