CONSTANTS
    Client = Client
    Server = Server
    ClientFrames = 2
    ServerFrames = 0
    HandshakePns = 1
    MaxPn = 5
    ServerMaxPn = 3
    ReorderingThreshold = 2
    MaxTLPs = 2
    MaxTrackedGaps = 6
    SegSize = 1460
    MaxStale = 0
SPECIFICATION Spec
INVARIANT RtoFollowsProbes
CHECK_DEADLOCK FALSE
