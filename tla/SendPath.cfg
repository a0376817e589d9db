CONSTANTS
    AppSizes = {2, 5}
    StreamBytes = 5
    MaxBuffer = 6
    SegSize = 4
    MaxStreamData = 7
    HeaderSize = 1
    Modulus = 64
    TxBufferSize = 6
    MaxZero = 2
    MaxAcks = 1
    MaxLeft = 1
SPECIFICATION PathSpec
INVARIANTS PathTypeOK ByteStream SentListCounted Conserved FramesIntact RoomKept NewDataInOrder
CHECK_DEADLOCK FALSE
