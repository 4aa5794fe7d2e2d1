SPECIFICATION RetrySpec
CONSTANTS
    Proc = {p1, p2}
    NoFile = NoFile
    NoPid = NoPid
    MaxCrashes = 1
    MaxFaults = 1
INVARIANTS
    WriterAlone
    CrashConsistent
PROPERTY UpdateReturns
