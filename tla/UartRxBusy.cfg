SPECIFICATION FairSpec

CONSTANTS
    UARTBUF = 16
    MyAddress = 1
    IsBusmaster = FALSE
    BadHeader = "skip"
    DisablesWatchdog = TRUE
    Packets <- OwnPackets
    MaxSent = 4
    Noise = {}
    MaxFaults = 0
    Paced = FALSE
    Prompt = TRUE

INVARIANTS
    MessageIsWhole
    ReadStaysBehindWrite
    HandledWasSent

PROPERTIES
    OverflowRecovers
