SPECIFICATION Spec
CONSTANTS
    Endpoints = {a, b}
    Leases = {d}
    Hosts = {a, b, d}
    LeaseIP <- MCLeaseIP
    IPs = {1, 2}
    Subnet = {1}
    BindConfigs <- MCBindConfigs
    Macs = {m}
    virtualMac = virtualMac
    NoMac = NoMac
    None = None
    Down = Down
    Spoilt = Spoilt
    Unset = Unset
    Garbage = Garbage
    Absent = Absent
    Empty = Empty
    Blocks <- MCBlocks
    Files <- MCFiles
    Cut <- MCCut
    Self = "agent1"
    AgentSets <- MCAgentSets
    Requests <- MCRequests
    MaxWrites = 2
    MaxTroubles = 1
INVARIANTS
    TypeOK
    LeasesRead
    StatusShowsEndpoint
    AddressHeldOnce
    StaleIsNoticed
PROPERTIES
    ImplementsBindings
    Converges
    FollowsEndpoint
    StaticIsReserved
    ReleasedIsFree
CHECK_DEADLOCK FALSE
