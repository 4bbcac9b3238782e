CONSTANTS
    Threads = {t1, t2}
    Tasks = {a, b}
    MaxLogs = 2
    NoTask = NoTask
    Hash <- MCHash
SPECIFICATION Spec
INVARIANT ResolvesOwnTask
CHECK_DEADLOCK FALSE
