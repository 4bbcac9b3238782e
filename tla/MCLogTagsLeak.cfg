CONSTANTS
    Threads = {t1, t2}
    Tasks = {a, b}
    MaxLogs = 2
    NoTask = NoTask
    Hash <- MCHash
SPECIFICATION Spec
INVARIANT EntriesBelongToLines
CHECK_DEADLOCK FALSE
