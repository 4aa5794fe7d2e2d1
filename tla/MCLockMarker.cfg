SPECIFICATION RetrySpec
CONSTANTS
    Proc = {p1, p2, p3}
    Foreign = {p3}
    NoFile = NoFile
    NoPid = NoPid
    MaxCrashes = 1
    MaxInterrupts = 1
INVARIANTS
    ExclusionUndisturbed
PROPERTIES
    LockComesFree
