CONSTANTS
    Items = 3
    Inputs = {in1}
    Keys = {k1}
    Workers = {w1}
    MaxAttempts = 2
    MaxCalls = 0
    MaxFaults = 2
SPECIFICATION FairSpec
PROPERTIES
    RunEnds
    JobPublished
