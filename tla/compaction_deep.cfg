CONSTANTS
    Compactors = {c1}
    MessageTokens = {1, 2}
    SummaryTokens = {1}
    MaxMessages = 5
    MaxFailures = 1
    SoftLimit = 2
    FreshTailMessages = 1
    FreshTailTokens = 2
    LeafChunkTokens = 2
    CondenseFanout = 2
    CondenseChunkTokens = 3
    MaxDepth = 2
    MaxIterations = 12
SPECIFICATION Spec
INVARIANTS
    LineageExact
    ExpansionExact
    FoldsLinear
