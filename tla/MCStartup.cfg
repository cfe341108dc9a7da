SPECIFICATION FairSpec
CONSTANTS
    MaxFaults = 3
INVARIANTS
    RunningMeansSetUp
PROPERTIES
    ServiceComesUp
