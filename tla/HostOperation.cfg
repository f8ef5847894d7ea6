\* One operation, one host of this agent and one of another; two faults, so that
\* a retry meets one too.  Three changes take a host from one HostStatus through
\* its deletion and blank successor to a full one.  Nothing is left to do once
\* the operation is deleted and the hosts have settled.
SPECIFICATION FairSpec
CONSTANTS
    Ops = {o1}
    Hosts = {x1, x2}
    Foreign = {x2}
    Systems = {s1, s2}
    MaxFaults = 2
    MaxChanges = 3
CHECK_DEADLOCK FALSE
INVARIANTS
    TypeOK
    SuccessIsTrue
    
    NotForgotten
PROPERTIES
    OpsComplete
    ImplementsOperations
