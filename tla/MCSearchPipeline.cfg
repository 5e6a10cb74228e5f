SPECIFICATION FairSpec
CONSTANTS
    s1 = s1
    s2 = s2
    MaxEvent = 3
    Shard = {s1, s2}
    Matching <- SomeSelections
    MergeThreads = 2
INVARIANTS
    CompleteAnswers
    OnlyLateTouches
PROPERTIES
    ImplementsContract
    SearchIsAnswered
    NoLeak
CHECK_DEADLOCK FALSE
