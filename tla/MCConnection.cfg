SPECIFICATION FairSpec
CONSTANTS
    MaxData <- MCMaxData
    MaxFaults = 1
    MaxWire = 1
    Starts <- MCStarts
INVARIANT TypeOK ClientOpensFirst   StopsOnlyDisturbed
PROPERTY ClosedWhenAcknowledged HandshakeCompletes Released
CHECK_DEADLOCK FALSE
