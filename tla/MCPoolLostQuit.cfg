SPECIFICATION FairSpec
CONSTANTS
    MaxThreads = 1
    UserQuits = FALSE
    MaxGiven = 0
PROPERTY
    AlwaysEnds
