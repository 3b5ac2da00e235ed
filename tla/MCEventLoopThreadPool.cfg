SPECIFICATION FairSpec
CONSTANTS
    MaxThreads = 3
    UserQuits = TRUE
    MaxGiven = 2
INVARIANTS
    TypeOK
    LoopsAreReady
    Balanced
PROPERTIES
    StartReturns
    DestructionEnds
