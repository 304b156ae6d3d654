SPECIFICATION FairPollSpec
CONSTANTS
    Slots = 4
    key = key
    stat = stat
    open = open
    Messages <- OneMessage
    LongMessages <- NoMessages
    MasterPass <- Jitter
    Pause = 5
    PacketTime = 1
    PingAt = 50
    AfterUdp = 35
    Stalls <- NoStall
    DoorTime = 100
    BootTime = 200
    OpenMessage = open
    MaxMessages = 1
    MaxUdp = 0
    MaxLosses = 0
    MaxStalls = 0
    MaxRestarts = 1
INVARIANTS
    CountMatchesIndices
PROPERTIES
    Drained
