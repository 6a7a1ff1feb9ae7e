CONSTANTS
    p1 = p1
    p2 = p2
    None = None
    Instances = {p1, p2}
    TTL = 5
    Heartbeat = 2
    Startup = 2
    Watch = 1
    MaxQuiet = 7
    MaxMissed = 2
    MaxStalls = 1
SPECIFICATION LiveSpec
INVARIANTS
    TypeOK
    Exclusive
    NoFlicker
    OfflineWithin
PROPERTY GoneIsNoticed
