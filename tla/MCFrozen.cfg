SPECIFICATION Spec
CONSTANTS
    files = files
    clock = clock
    empty = empty
    a = a
    None = None
    NoSearch = NoSearch
    MaxEvent = 5
    MaxJobs = 1
    Query = {empty, a}
    Empty = empty
    Plugins <- TwoPlugins
    Refreshing = {clock}
    PluginLists <- SomePlugins
    SourceLists <- SomeSources
    ActionLists <- SomeActions
PROPERTY FrozenWhileExecuting
CHECK_DEADLOCK FALSE
