SPECIFICATION FairReaderSpec
CONSTANTS
    MaxEvent = 5
    Shown = {1, 2, 5}
INVARIANTS
    ReaderTypeOK
    NothingTwiceNothingMissed
PROPERTIES
    ReaderEnds
CHECK_DEADLOCK FALSE
