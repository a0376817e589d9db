SPECIFICATION FairSpec
CONSTANTS
    Conns = {1, 2}
    Setups <- MCTwoNodes
    MaxFaults = 0
PROPERTY ListeningAnswers
CHECK_DEADLOCK FALSE
