SPECIFICATION Spec
CONSTANTS
    Thread = {t1}
    Message = {m1}
    Size = 2
INVARIANT
    ChannelIsKnown
