CONSTANTS
    Requests = {r1, r2, r3}
SPECIFICATION FairSpec
PROPERTY CreationCallsBack
CHECK_DEADLOCK FALSE
