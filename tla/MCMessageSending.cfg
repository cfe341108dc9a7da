SPECIFICATION Spec
CONSTANTS
    c1 = c1
    c2 = c2
    u1 = u1
    u2 = u2
    NoCall = NoCall
    Call = {c1, c2}
    User = {u1, u2}
    MaxChanges = 2
SYMMETRY Symmetry
INVARIANTS
    TypeOK
    SteadyMembersCanRead
    NobodyIsMarkedInVain
    ClearOnlyBeforeUpgrade
PROPERTIES
    OnlyStoredMembersCanRead
CHECK_DEADLOCK FALSE
