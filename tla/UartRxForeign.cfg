SPECIFICATION Spec

CONSTANTS
    UARTBUF = 16
    MyAddress = 1
    IsBusmaster = FALSE
    BadHeader = "skip"
    DisablesWatchdog = TRUE
    Packets <- MixedPackets
    MaxSent = 4
    Noise = {}
    MaxFaults = 0
    Paced = TRUE
    Prompt = TRUE

INVARIANTS
    OnlyOwnPackets
