CONSTANTS
    MaxPn = 5
    SegSize = 2
    Sizes = {1, 2}
    InitialThresh = 9
    LossNum = 1
    LossDen = 2
SPECIFICATION Spec
INVARIANTS OneCutPerFlight CongestionInv
PROPERTY NoGrowthFromFlight
CHECK_DEADLOCK FALSE
