CONSTANTS
    FreshTail = 1
    MaxQueued = 2
    MaxTracked = 0
    MaxReconnects = 2
    MaxTransform = 3
    MaxMessages = 4
    MaxFaults = 2
SPECIFICATION FairSpec
INVARIANTS TypeOK StoredInOrder Accounted DrainedBeforePlan ElisionExcused
PROPERTIES HookReturns
CHECK_DEADLOCK FALSE
