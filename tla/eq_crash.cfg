\* Two events through a crash and a restart, or through one retryFailedEvents; listeners may throw.
SPECIFICATION FairSpec
CONSTANTS
    e1 = e1
    e2 = e2
    e3 = e3
    Events = {e1, e2}
    Change <- Changes
    PriorityLevels = 5
    MaxQueueSize = 2
    BatchSize = 2
    MaxRetries = 1
    Batches = 1
    Copies = 2
    ListenersThrow = TRUE
    DiskMayFail = FALSE
    SlowDisk = FALSE
    Budgets <- OneCrashOrRetry
INVARIANTS Kept AtMostOnce EntryHasFuture
PROPERTIES PriorityRespected EventuallyHandled
CHECK_DEADLOCK FALSE
