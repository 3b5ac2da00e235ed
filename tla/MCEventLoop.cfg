SPECIFICATION FairSpec
CONSTANTS
    Thread = {t1, t2}
    Id = {i}
    Channel = {c}
    wakeupChannel = wakeupChannel
    EventfdMax = 2
INVARIANTS
    TypeOK
    NoLostWakeup
PROPERTIES
    ExecutorSpec
    EventuallyRun
    QuitStops
    ReturnsToPoll
