SPECIFICATION FairSpec

CONSTANTS
    UARTBUF = 32
    MyAddress = 1
    IsBusmaster = FALSE
    BadHeader = "skip"
    DisablesWatchdog = TRUE
    Packets <- MixedPackets
    MaxSent = 5
    Noise = {}
    MaxFaults = 1
    Paced = TRUE
    Prompt = TRUE

INVARIANTS
    NeverHung
    CompleteIsReported

PROPERTIES
    LossIsBounded
