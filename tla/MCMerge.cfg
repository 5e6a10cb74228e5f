SPECIFICATION MergeSpec
CONSTANTS
    MaxItems = 3
    MergeWorkers = 3
    Hashes = {0, 3}
    Scores = {1, 2}
INVARIANTS
    MergedRight
    MergeInv
PROPERTY MergeEnds
CHECK_DEADLOCK FALSE
