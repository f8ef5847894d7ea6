\* One operation, one host, one failed call of the BMC; the host stays as it is.
SPECIFICATION FairSpec
CONSTANTS
    Ops = {o1}
    Hosts = {x1}
    Foreign = {}
    Systems = {s1}
    MaxFaults = 1
    MaxChanges = 0
CHECK_DEADLOCK FALSE
PROPERTY
    FailedIsReported
