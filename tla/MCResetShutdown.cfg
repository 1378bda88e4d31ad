SPECIFICATION Spec
CONSTANTS
    MaxProcs = 4
    MaxRequests = 2
    MaxFailures = 1
INVARIANTS
    ClearsStopped
    WorkingOwnsLock
    PageIsTold
    ReopensAtRest
PROPERTIES
    KillsOnlyParent
CHECK_DEADLOCK FALSE
