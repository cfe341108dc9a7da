SPECIFICATION Spec
CONSTANTS
    r1 = r1
    r2 = r2
    None = None
    Run = {r1, r2}
    Capacity = 2
    MaxTxn = 4
    MaxTry = 2
SYMMETRY Symmetry
INVARIANTS
    TypeOK
    OnlyLatestKeysAreMissing
PROPERTIES
    DeliveredInOrder
CHECK_DEADLOCK FALSE
