SPECIFICATION MCSpec
CONSTANTS
    StackMax = 3
    GlobalLen = 1
    CellLen = 8
    GcThreshold = 8
    Ints = {0}
    Caps = {1, 2}
    LocalLens = {1}
    MaxArgs = 1
    MaxArray = 4
    MaxEnv = 2
    MaxMap = 1
    MaxCommands = 6
INVARIANT RangesDisjoint
CHECK_DEADLOCK FALSE
