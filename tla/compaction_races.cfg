CONSTANTS
    Compactors = {c1, c2}
    MessageTokens = {1}
    SummaryTokens = {1}
    MaxMessages = 3
    MaxFailures = 1
    SoftLimit = 1
    FreshTailMessages = 1
    FreshTailTokens = 2
    LeafChunkTokens = 1
    CondenseFanout = 2
    CondenseChunkTokens = 4
    MaxDepth = 1
    MaxIterations = 6
SPECIFICATION FairSpec
INVARIANTS
    TypeOK
    AssembledWindowTiles
    FreshTailRaw
    SummariesUnique
PROPERTIES
    LosslessSpec
    CompactionConverges
