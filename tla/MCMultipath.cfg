SPECIFICATION FairSpec
CONSTANTS
    Conns = {1, 2}
    Setups <- MCSetups
    MaxFaults = 1
INVARIANT IndexIsPathId ActiveAtBoth SendsOnActive StopsOnlyShared
PROPERTY PathsValidated
CHECK_DEADLOCK FALSE
