SPECIFICATION Spec
CONSTANTS
    h1 = h1
    h2 = h2
    d1 = d1
    d2 = d2
    Decrypt = Decrypt
    Handler = {h1, h2}
    Device = {d1, d2}
    MaxEvent = 3
    Encrypted = {1, 3}
    MaxDrops = 1
SYMMETRY Symmetry
INVARIANTS
    TypeOK
    InOrderOnceEach
    NobodyMissesReadableEvents
    DecryptedFirst
CHECK_DEADLOCK FALSE
