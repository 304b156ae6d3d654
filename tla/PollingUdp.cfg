SPECIFICATION FairPollSpec
CONSTANTS
    Slots = 4
    key = key
    stat = stat
    open = open
    Messages <- ThreeMessages
    LongMessages <- NoMessages
    MasterPass <- Steady
    Pause = 5
    PacketTime = 1
    PingAt = 50
    AfterUdp = 35
    Stalls <- NoStall
    DoorTime = 100
    BootTime = 200
    OpenMessage = open
    MaxMessages = 2
    MaxUdp = 2
    MaxLosses = 1
    MaxStalls = 0
    MaxRestarts = 0
INVARIANTS
    ForwardedInOrder
    MasterKeepsUp
PROPERTIES
    RequestsArePolite
