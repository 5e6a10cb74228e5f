SPECIFICATION Spec
CONSTANTS
    MaxItems = 3
    MergeWorkers = 2
    Hashes = {1, 2}
    Scores = {0, 1}
INVARIANT DuplicatesAppearLast
CHECK_DEADLOCK FALSE
