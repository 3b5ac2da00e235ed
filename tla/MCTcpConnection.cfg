SPECIFICATION FairSpec
CONSTANTS
    Thread = {t1}
    Message = {m1, m2}
    Size = 2
INVARIANTS
    TypeOK
    StreamIntact
    WritingMatchesData
    RemovedOnce
    RegisteredIsOwned
PROPERTIES
    LifeSpec
    FinAfterData
    CompleteWhenEmpty
    PeerCloseIsHandled
    ShutdownIsDone
