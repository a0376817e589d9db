CONSTANTS
    StreamBytes = 5
    FrameSizes = {1, 2, 3}
    MaxBuffer = 4
    MaxStreamData = 5
    MaxDataInterval = 1
SPECIFICATION Spec
INVARIANT InOrder
CHECK_DEADLOCK FALSE
