SPECIFICATION MCFairSpec
CONSTANTS
    StackMax = 3
    GlobalLen = 1
    CellLen = 9
    GcThreshold = 3
    Ints = {0}
    Caps = {1, 2}
    LocalLens = {1}
    MaxArgs = 1
    MaxArray = 4
    MaxEnv = 2
    MaxMap = 1
    MaxCommands = 7
INVARIANTS GcTypeOK MarkInvariant MarkExact MoveSafe ContentsKept NothingDeadLeft
PROPERTIES GcProgress GcTerminates
CHECK_DEADLOCK FALSE
