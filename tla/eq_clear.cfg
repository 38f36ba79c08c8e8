\* clear and shutdown while batches, retries and file operations are in flight; the disk may fail.
SPECIFICATION Spec
CONSTANTS
    e1 = e1
    e2 = e2
    e3 = e3
    Events = {e1, e2}
    Change <- Changes
    PriorityLevels = 5
    MaxQueueSize = 1
    BatchSize = 1
    MaxRetries = 1
    Batches = 2
    Copies = 2
    ListenersThrow = TRUE
    DiskMayFail = TRUE
    SlowDisk = TRUE
    Budgets <- OneClear
INVARIANTS NeverIdle Bounded ClearTakesOut
CHECK_DEADLOCK FALSE
