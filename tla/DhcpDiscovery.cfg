SPECIFICATION FairSpec
CONSTANTS
    IPs = {i1}
    MACs = {m1, m2}
    NoMac = NoMac
    MaxLeaseChanges = 3
    MaxErrors = 1
    Errors = {"retryable", "fatal"}
    MaxTouches = 1
    MaxRestarts = 1
INVARIANTS
    TypeOK
    NoSilentDivergence
PROPERTIES
    FilledStays
    EventsDrain
