SPECIFICATION PathSpec
CONSTANTS
    StreamBytes = 5
    FrameSizes = {1, 2}
    MaxBuffer = 2
    MaxStreamData = 4
    MaxDataInterval = 1
    ReadSizes = {1, 3}
    SocketBuffer = 3
    Modulus = 64
INVARIANTS PathTypeOK InOrderUnlessStale NothingHeldBack Fifo CountedIfUniform
PROPERTY DropsOnlyWhenFull EverythingRead
CHECK_DEADLOCK FALSE
