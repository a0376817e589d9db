CONSTANTS
    Client = Client
    Server = Server
    ClientFrames = 3
    ServerFrames = 0
    HandshakePns = 1
    MaxPn = 5
    ServerMaxPn = 2
    ReorderingThreshold = 2
    MaxTLPs = 1
    MaxTrackedGaps = 6
    SegSize = 1460
    MaxStale = 0
SPECIFICATION Spec
INVARIANTS TypeOK NoDataLost AcksAreTrue OneCopyOutstanding
CHECK_DEADLOCK FALSE
