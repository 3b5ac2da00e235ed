SPECIFICATION FairSpec
CONSTANTS
    Conn = {1, 2}
    IoLoop = {io}
    base = base
    Thread = {t1}
    nobody = nobody
    MaxOpen = 3
    MaxPending = 1
INVARIANTS
    TypeOK
    TouchesTheLiving
PROPERTIES
    LifeSpec
    Released
    Served
