\* One account, every kind of process, and a shutdown at any point.
SPECIFICATION Spec
CONSTANTS
    Accounts = {1}
    Procs <- MCProcs
    LockIds <- MCLocks
    NoLock = NoLock
    Slots = 1
    MaxRetries = 1
    SeenBatch = 1
    MaxFaults = 1
    MaxRequests = 1
INVARIANTS StatusHonest DatabaseOutlivesOwners
PROPERTIES ImplementsMutex SyncCatchesUp ShutdownEnds
CHECK_DEADLOCK FALSE
