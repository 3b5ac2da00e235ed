SPECIFICATION Spec
CONSTANTS
    MaxThreads = 1
    UserQuits = TRUE
    MaxGiven = 0
INVARIANT
    UsedLoopsExist
