CONSTANTS
    FreshTail = 1
    MaxQueued = 2
    MaxTracked = 0
    MaxReconnects = 2
    MaxTransform = 3
    MaxMessages = 4
    MaxFaults = 1
SPECIFICATION Spec
INVARIANTS ElidedRepresented
CHECK_DEADLOCK FALSE
