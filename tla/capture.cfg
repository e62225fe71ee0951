CONSTANTS
    Agents = {"codex", "claude-code"}
    Modes = {"capture", "stateless"}
    Processes = {p1, p2}
    Turns = 2
    MaxTexts = 2
    MaxStarts = 3
    MaxFaults = 1
    Excluded <- ExcludedContents
    Secrets <- SecretContents
SPECIFICATION Spec
SYMMETRY Symmetry
INVARIANTS TypeOK OneRowPerEvent RepliesFinal PolicyHolds SuccessStored RolloutFound
CHECK_DEADLOCK FALSE
