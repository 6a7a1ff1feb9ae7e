SPECIFICATION Spec
CONSTANTS
    Order <- MCOrder
    Graphs <- MCGraphs
    NoNode = ""
    NoData = NoData
    MaxItems = 2
    Segments = {"any", "bool", "number", "string", "datetime", "path", "dir", "file", "media", "tvseries", "movie",
                "agent", "scanner", "slug", "error"}
INVARIANTS TypeOK AvailabilitySound ValueThere SingleToken EndsOutsideLoops WitnessReal TypeSafe
PROPERTY ValidationEndsOnTrees
CHECK_DEADLOCK FALSE
