SPECIFICATION Spec
CONSTANTS
    c1 = c1
    c2 = c2
    a1 = a1
    a2 = a2
    s1 = s1
    Clients = {c1, c2}
    Slugs = {a1}
    Running = {a1}
    Scanners = {s1}
    Types = {"tv"}
    Paths = {"p"}
    NoPath = ""
    Levels = {"info"}
    Info = "info"
    NoLevel = ""
    NoType = ""
    NoOne = NoOne
    NoProjection = NoProjection
    MaxMappings = 1
    MaxCalls = 3
    MaxFailures = 0
    MaxCrashes = 0
INVARIANT ConfiguredHasProjection
