SPECIFICATION Spec
CONSTANTS
    Order <- MCOrder
    Graphs <- BackEdged
    NoNode = ""
    NoData = NoData
    MaxItems = 2
    Segments = {"any", "bool", "number", "string", "datetime", "path", "dir", "file", "media", "tvseries", "movie",
                "agent", "scanner", "slug", "error"}
PROPERTY ValidationEnds
CHECK_DEADLOCK FALSE
