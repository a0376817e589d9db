CONSTANTS
    Client = Client
    Server = Server
    ClientFrames = 1
    ServerFrames = 0
    HandshakePns = 1
    MaxPn = 5
    ServerMaxPn = 3
    ReorderingThreshold = 3
    MaxTLPs = 0
    MaxTrackedGaps = 6
    SegSize = 1460
    MaxStale = 1
SPECIFICATION Spec
INVARIANTS NoDataLost OneCopyOutstanding
CHECK_DEADLOCK FALSE
