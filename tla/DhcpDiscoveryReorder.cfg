\* One lease and its release, one retryable error of the API server.
SPECIFICATION FairSpec
CONSTANTS
    IPs = {i1}
    MACs = {m1}
    NoMac = NoMac
    MaxLeaseChanges = 2
    MaxErrors = 1
    Errors = {"retryable"}
    MaxTouches = 0
    MaxRestarts = 0
PROPERTY
    ReleasedIsDeleted
