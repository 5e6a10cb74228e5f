SPECIFICATION Spec
CONSTANTS
    Name = {n1, n2}
    Owner = {o1, o2}
    MaxChanges = 3
    None = None
    a1 = a1
    a2 = a2
    a3 = a3
    App = {a1, a2, a3}
    DisplayName <- SomeNames
    TextApp = a1
    OnBus = {a1}
    MaxItems = 2
    p1 = p1
    p2 = p2
    v1 = v1
    v2 = v2
    v3 = v3
    Plugin <- TwoPlugins
    Arrays <- SomeArrays
    ShardCounts = {1, 2}
    Entry = {i1, i2}
    MaxVersion = 3
    Tails <- SomeTails
    Composed <- SomeComposed
    Typed = {1}
    MaxLen = 4
    MaxCursor = 5
    BoxSizes = {2, 4}
    MaxSize = 6
    MaxEvent = 3
    Needles <- SomeNeedles
    Texts <- SomeTexts
    Ends <- SomeEnds
    MaxText = 5
INVARIANTS
    Types
    TableMirrorsBus
    OneLaunchPerName
    OffersAreListed
    StaleIsPending
    CursorInText
    RowsShowTheWindow
    ScoresAreBest
    HighlightsAreWhole
PROPERTY EditsWhereDrawn
CHECK_DEADLOCK FALSE
