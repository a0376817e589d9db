\* Two endpoints, four data packets each, queues of three packets.
CONSTANTS
    Client = client
    Server = server
    MaxBeforeAck = 3
    Capacity = 3
    MaxData = 4
SPECIFICATION FairSpec
INVARIANTS AckScheduled DecimationBound AckInv
PROPERTY ImplementsDuty
\* Once the data budget is spent and the last packets are lost, nothing is left to do.
CHECK_DEADLOCK FALSE
