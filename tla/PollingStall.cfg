SPECIFICATION FairPollSpec
CONSTANTS
    Slots = 4
    key = key
    stat = stat
    open = open
    Messages <- OneMessage
    LongMessages <- NoMessages
    MasterPass <- Jitter
    Pause = 5
    PacketTime = 1
    PingAt = 50
    AfterUdp = 35
    Stalls <- LongStall
    DoorTime = 100
    BootTime = 200
    OpenMessage = open
    MaxMessages = 3
    MaxUdp = 0
    MaxLosses = 0
    MaxStalls = 1
    MaxRestarts = 0
PROPERTIES
    EveryMessageForwarded
    RequestsArePolite
