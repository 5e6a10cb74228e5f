SPECIFICATION Spec
CONSTANTS
    files = files
    clock = clock
    empty = empty
    a = a
    None = None
    NoSearch = NoSearch
    MaxEvent = 6
    MaxJobs = 1
    Query = {empty, a}
    Empty = empty
    Plugins <- TwoPlugins
    Refreshing = {clock}
    PluginLists <- SomePlugins
    SourceLists <- SomeSources
    ActionLists <- SomeActions
INVARIANTS
    ChoicesMatch
    DisplayedAnswersQuery
    InitialStateIsClean
    JobIsWhole
    PanesInv
PROPERTY ImplementsContract
CHECK_DEADLOCK FALSE
