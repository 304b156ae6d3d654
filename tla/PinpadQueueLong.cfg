SPECIFICATION PoliteSpec
CONSTANTS
    Slots = 4
    key = key
    stat = stat
    vf = vf
    Messages <- AllMessages
    LongMessages <- OnlyVf
INVARIANT
    QueuedIsIntact
