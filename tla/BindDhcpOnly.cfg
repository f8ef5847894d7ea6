\* One DHCP client, no static host, EnableBindDhcpIP without EnableBindStaticIP.
SPECIFICATION Spec
CONSTANTS
    Endpoints = {}
    Leases = {d}
    Hosts = {d}
    LeaseIP <- MCLeaseIP
    IPs = {1, 2}
    Subnet = {1}
    BindConfigs <- DhcpOnly
    Macs = {m}
    virtualMac = virtualMac
    NoMac = NoMac
    None = None
    Down = Down
    Spoilt = Spoilt
    Unset = Unset
    Garbage = Garbage
    Absent = Absent
    Empty = Empty
    Blocks <- MCBlocks
    Files <- MCFiles
    Cut <- MCCut
    Self = "agent1"
    AgentSets <- MCAgentSets
    Requests <- MCRequests
    MaxWrites = 1
    MaxTroubles = 0
PROPERTY
    DhcpIsBound
CHECK_DEADLOCK FALSE
