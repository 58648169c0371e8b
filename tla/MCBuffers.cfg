SPECIFICATION MCSpec
CONSTANTS
    kCheapPrepend = 2
    kInitialSize = 2
    ExtraSize = 2
    ByteBase = 2
    IntWidths = {1, 2}
    MaxLen = 2
    MaxReadable = 2
    FirstSize = 2
    MAX_BUFFER_SIZE = 9
INVARIANTS
    TypeOK
    AssertsHold
    IntsRoundTrip
    ReplyTypeOK
    ReplyAssertsHold
PROPERTIES
    BytesKept
    ReplyBytesKept
CHECK_DEADLOCK FALSE
