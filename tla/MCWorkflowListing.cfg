CONSTANTS
    c1 = c1
    c2 = c2
    d1 = d1
    d2 = d2
    l1 = l1
    name = name
    Clients = {c1, c2}
    Docs = {d1, d2}
    Fields = {name}
    Values = {1}
    MaxVersion = 2
    MaxId = 4
    Listers = {l1}
    PageSize = 1
SPECIFICATION ListLiveSpec
INVARIANTS
    ListTypeOK
    HistoryContiguous
    LatestIsNewest
    ListingComplete
PROPERTIES
    HistoryImmutable
    ListingEnds
