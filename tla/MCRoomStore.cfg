SPECIFICATION Spec
CONSTANTS
    r1 = r1
    u1 = u1
    u2 = u2
    bob = bob
    None = None
    Dispatcher = Dispatcher
    Room = {r1}
    Member = {u1, u2, bob}
    User = {u1, u2}
    MaxEvents = 2
    MaxSilent = 1
    MaxDrops = 1
SYMMETRY Symmetry
INVARIANTS
    TypeOK
    MembersCovered
    EncryptionCovered
    TrackedCovered
PROPERTIES
    NeverDowngraded
CHECK_DEADLOCK FALSE
