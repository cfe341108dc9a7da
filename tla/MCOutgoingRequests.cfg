SPECIFICATION FairOutgoingSpec
CONSTANTS
    Requests = 5
    KindOf <- MCKindOf
    Hopeless = {2, 4}
INVARIANTS
    MarkedWasTaken
PROPERTIES
    EverythingElseGoesOut
CHECK_DEADLOCK FALSE
