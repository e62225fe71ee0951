CONSTANTS
    Installers = {i1, i2}
    MaxInstalls = 3
    MaxEdits = 1
    MaxAborts = 1
    MaxTools = 1
    MaxTurns = 2
    EventBudget = 3
    PipeCapacity = 2
    MaxEmits = 4
    Texts <- SpokenTexts
    Answers <- ModelAnswers
    MaxSources = 3
    Limits = {16}
    RecallMessages <- StoredMessages
    RecallSummaries <- StoredSummaries
    MaxStored = 3
    RecallLimit = 2
    FreshTailCount = 1
    FreshTailSize = 3
    MaxFreshTailRows = 2
    MaxRecallItems = 2
    MaxRecallCandidates = 10
    MaxSummaryCandidates = 2
    MaxSummaryResults = 1
    CandidatesPerResult = 5
SPECIFICATION Spec
INVARIANT NeverLarger
CHECK_DEADLOCK FALSE
