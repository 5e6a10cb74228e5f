SPECIFICATION MemorySpec
CONSTANTS
    t1 = t1
    t2 = t2
    t3 = t3
    p1 = p1
    p2 = p2
    p3 = p3
    Free = Free
    Thread = {t1, t2, t3}
    Pair = {p1, p2, p3}
    Slots = 2
    Shard = {t1, t2, t3}
    MaxSheets = 2
    SheetSize = 3
    MaxInserts = 7
    None = none
    HashSet = {p1, p2, p3}
    Destroyer = {d1, d2}
    Places = 2
    Null = none
SYMMETRY Symmetry
INVARIANTS
    ExitMeansTooMany
    FuncPairsInv
    SheetsInv
    SetsHaveOneHolder
PROPERTY SlotsAreFinal
CHECK_DEADLOCK FALSE
