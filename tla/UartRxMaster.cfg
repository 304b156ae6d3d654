SPECIFICATION TraceSpec

CONSTANTS
    UARTBUF = 16
    MyAddress = 0
    IsBusmaster = TRUE
    BadHeader = "report"
    DisablesWatchdog = FALSE
    Packets <- ToMaster
    MaxSent = 3
    Noise = {111}
    MaxFaults = 1
    Paced = FALSE
    Prompt = FALSE

INVARIANTS
    UartInv
    HandledOnce
