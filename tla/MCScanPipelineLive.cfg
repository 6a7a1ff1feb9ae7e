CONSTANTS
    small = small
    large = large
    Items <- MCOneItem
    Parts <- MCTwoParts
    MaxAttempts = 1
    StreamCap = 9
    MaxScans = 2
    MaxWalks = 3
    MaxFaults = 1
    MaxDisk = 0
    MaxFailures = 2
SPECIFICATION LiveSpec
PROPERTIES
    EveryScanAnswered
    EveryMessageSettles
CHECK_DEADLOCK FALSE
