SPECIFICATION Spec
CONSTANTS
    r1 = r1
    r2 = r2
    r3 = r3
    x1 = x1
    x2 = x2
    x3 = x3
    None = None
    Run = {r1, r2, r3}
    Change = {x1, x2, x3}
    Capacity = 2
INVARIANTS
    OneLoop
    NoLossNoReorder
    StopReachesTheLoop
CHECK_DEADLOCK FALSE
