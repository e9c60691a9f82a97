SPECIFICATION LogSpec
CONSTANTS
    NULL = NULL
    HeadNode = HeadNode
    TailNode = TailNode
    Cells = {c1, c2, c3}
    LogSizes = {2}
    MaxPrints = 4
    MaxPasses = 2
INVARIANTS
    KeepsAtMostN
CHECK_DEADLOCK FALSE
