CONSTANTS
    Requests = {r1, r2}
SPECIFICATION Spec
INVARIANT EraseInRange
CHECK_DEADLOCK FALSE
