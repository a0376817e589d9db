CONSTANTS
    Client = Client
    Server = Server
    ClientFrames = 3
    ServerFrames = 0
    HandshakePns = 1
    MaxPn = 7
    ServerMaxPn = 3
    ReorderingThreshold = 2
    MaxTLPs = 1
    MaxTrackedGaps = 1
    SegSize = 1460
    MaxStale = 0
SPECIFICATION Spec
INVARIANT NoDataLost
CHECK_DEADLOCK FALSE
