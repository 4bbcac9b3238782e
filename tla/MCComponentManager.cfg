CONSTANTS
    Requests = {r1, r2, r3}
SPECIFICATION Spec
INVARIANT TypeOK
INVARIANT CallbackAtMostOnce
CHECK_DEADLOCK FALSE
