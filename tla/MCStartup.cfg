SPECIFICATION Spec
CONSTANTS
    b1 = b1
    b2 = b2
    b3 = b3
    x = x
    Builtins <- MCBuiltins
    Custom = {x}
    Types <- MCTypes
    DefaultType <- MCDefaultType
    DefaultOrder <- MCDefaultOrder
    Orders <- MCOrders
    Gap = 1
    MaxOrder = 5
    Absent = Absent
    MaxEdits = 2
    MaxFaults = 1
INVARIANTS
    OrdersUnambiguous
    RegistryFollows
PROPERTY StartupGentle
