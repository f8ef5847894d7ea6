\* Two faults, one rebind: every restart path, with and without SIGKILL.
SPECIFICATION FairSpec
CONSTANTS
    MaxStarts = 5
    MaxFaults = 2
    MaxRebinds = 1
    Prompt = TRUE
INVARIANTS
    TypeOK
    OneDhcpd
    NoDoubleClose
    NilOnlyAtExit
PROPERTIES
    StopReaps
    ShutdownCompletes
    DhcpdKeepsRunning
