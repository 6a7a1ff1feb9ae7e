CONSTANTS
    small = small
    large = large
    Items <- MCItems
    Parts <- MCParts
    MaxAttempts = 1
    StreamCap = 9
    MaxScans = 2
    MaxWalks = 3
    MaxFaults = 0
    MaxDisk = 1
    MaxFailures = 1
SPECIFICATION Spec
PROPERTY SweepKeepsWhatIsOnDisk
CHECK_DEADLOCK FALSE
