SPECIFICATION Spec
CONSTANTS
    Byte = {0, 1}
    kCheapPrepend = 2
    kInitialSize = 2
    ExtraSize = 2
    MaxBytes = 3
INVARIANTS
    TypeOK
    RoomIsMade
PROPERTY
    QueueSpec
