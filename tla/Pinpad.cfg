SPECIFICATION MCSpec
CONSTANTS
    MaxTyped = 5
    MaxLost = 1
    CRC32_SIZE = 2
    PIN_SIZE = 1
    PINS_PER_BLOCK = 2
    MaxChecksummed = 2
    Images <- SomeImages
    PacketBytes = 6
    TrivialBlocks <- ATrivialBlock
    MaxImages = 2
    MaxLosses = 1
    Digits = {1}
    PinChars = 4
    FallbackCode <- Code1
    LockCode <- Code1
    ResetCode <- Code111
    Payloads <- SomePayloads
    Sources = {0, 7}
    MemorySize = 6
    MaxReceived = 3
    Samples = 3
    Levels = {0, 1, 4}
    Multiples = {6, 16}
    Jitter <- SomeJitter
    Starts = {0, 40000}
    Slots = 4
    key = key
    stat = stat
    Messages <- ShortMessages
    LongMessages <- NoMessages
INVARIANTS
    KeysArrive
    AcceptedIfWhole
    BroadcastTellsImage
    DoesWhatItSays
    ChangesAreAnnounced
    ReportIsOldOrNew
    CountIsPending
PROPERTIES
    DoorObeysKeys
    IsMessageQueue
CHECK_DEADLOCK FALSE
