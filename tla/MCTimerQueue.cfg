SPECIFICATION FairSpec
CONSTANTS
    Timer = {1, 2, 3}
    Interval = {1}
    MinDelay = 1
    MaxTime = 2
INVARIANTS
    TypeOK
    OwnedOnce
    Armed
PROPERTIES
    ServiceSpec
    DueIsRun
