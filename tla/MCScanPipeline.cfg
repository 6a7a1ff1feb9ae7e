CONSTANTS
    small = small
    large = large
    Items <- MCItems
    Parts <- MCParts
    MaxAttempts = 1
    StreamCap = 6
    MaxScans = 2
    MaxWalks = 3
    MaxFaults = 1
    MaxDisk = 1
    MaxFailures = 1
SPECIFICATION Spec
INVARIANTS
    TypeOK
    CompletionIsLast
    NothingVanishes
PROPERTY SweepExact
CHECK_DEADLOCK FALSE
