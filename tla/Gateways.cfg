SPECIFICATION MCSpec
CONSTANTS
    BufferEnd = 13
    Room = 2
    Payloads <- SomePayloads
    MaxCommands = 3
    MaxDropped = 1
    Length = 2
    TooLong = 11
    MaxBusPackets = 4
    MaxBytesLost = 3
    Destinations = {"participant", "group"}
    Clients = {1, 2}
    MaxLines = 4
    Image <- SampleImage
    BYTE = 16
    delta = 31161
    xkey <- LowKey
    Chunks = 2
    Fillings <- SomeFillings
INVARIANTS
    SentWasGiven
    LostForAReason
    FaultsAreBounded
    AnswersAreTrue
    CrcTellsFlips
    DecipherUndoesEncipher
CHECK_DEADLOCK FALSE
