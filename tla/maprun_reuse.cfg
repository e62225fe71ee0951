CONSTANTS
    Items = 2
    Inputs = {in1}
    Keys = {k1, k2}
    Workers = {w1}
    MaxAttempts = 1
    MaxCalls = 0
    MaxFaults = 1
SPECIFICATION Spec
INVARIANTS
    StateNeverReused
