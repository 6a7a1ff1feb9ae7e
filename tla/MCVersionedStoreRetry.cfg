CONSTANTS
    c1 = c1
    d1 = d1
    name = name
    Clients = {c1}
    Docs = {d1}
    Fields = {name}
    Values = {1}
    MaxVersion = 3
    MaxId = 4
SPECIFICATION LiveSpec
PROPERTY RetriedSaveFixesIt
