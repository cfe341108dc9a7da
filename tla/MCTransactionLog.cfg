SPECIFICATION FairSpec
CONSTANTS
    c1 = c1
    c2 = c2
    c3 = c3
    t1 = t1
    d1 = d1
    d2 = d2
    NoConn = NoConn
    Conn = {c1, c2, c3}
    Txn = {t1}
    Device = {d1, d2}
    Counted <- MCCounted
    Events <- MCEvents
    MaxDrops = 2
INVARIANTS
    OneAttemptAtATime
    AcknowledgedMeansDone
    KeysBeforeEventsInOrder
    RepeatsOnlyAfterDrops
PROPERTIES
    OnceResponseSpec
    EveryRequestEnds
