CONSTANTS
    Items = 2
    Inputs = {in1, in2}
    Keys = {k1, k2}
    Workers = {w1, w2}
    MaxAttempts = 2
    MaxCalls = 4
    MaxFaults = 2
SPECIFICATION Spec
SYMMETRY Symmetry
INVARIANTS
    TypeOK
    CallsWithinBudget
    AssemblyReady
    OutputMatchesJob
PROPERTIES
    PromiseSpec
