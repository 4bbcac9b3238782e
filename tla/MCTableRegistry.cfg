CONSTANTS
    Drafts = {d1}
    Reals = {r1, r2}
    MaxTables = 4
INVARIANT TypeOK
INVARIANT RegisteredTableServesItsGroup
INVARIANT SizeFieldFollowsGroup
SPECIFICATION Spec
CHECK_DEADLOCK FALSE
