SPECIFICATION Spec
CONSTANTS
    c1 = c1
    c2 = c2
    NoCall = NoCall
    NoId = NoId
    Calls = {c1, c2}
    Supplied <- MCSupplied
    Slots = 1
    Cap = 2
    Batch = 2
    MaxEntries = 3
    MaxRuns = 2
    MaxPurges = 2
    MaxOps = 4
INVARIANTS
    TypeOK
    AnswersReachCallers
    NewEntriesSurvive
PROPERTIES
    PurgedStaysPurged
    RequestRefinesExchange
CHECK_DEADLOCK FALSE
