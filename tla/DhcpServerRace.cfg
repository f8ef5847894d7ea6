\* No fault at all: only the order of the goroutines.
SPECIFICATION Spec
CONSTANTS
    MaxStarts = 4
    MaxFaults = 0
    MaxRebinds = 1
    Prompt = FALSE
INVARIANT
    OneDhcpd
