SPECIFICATION MCSpec
CONSTANTS
    Words = 6
    MaxSize = 2
    Sizes = {1, 2, 3}
    Timeout = 2
    MaxFrames = 4
    MaxTransmits = 2
    Nodes = {0, 1}
    Payload = {5}
    EchoLengths = {20}
    SolicitationLengths = {24, 32}
    UdpGap = 16
    MaxAnswers = 2
    BYTE = 4
    Addresses = 4
    MaxLength = 5
    Lengths = {3, 5}
    MaxCalls = 3
INVARIANTS
    FramesInStep
    BankIsRight
    SpoiltOnlyIfBusy
    FramesAreWellFormed
    ReceiverAccepts
    PacketIsWhole
    DriverCoversFrames
PROPERTIES
    PingsContinueWhenFrames
    LineIsReleased
CHECK_DEADLOCK FALSE
