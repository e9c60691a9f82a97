SPECIFICATION Spec
CONSTANTS
    a = a
    b = b
    Handles = {a, b}
    Callers = {a, b}
    Apis = {f}
    Timeouts = {2}
    Forever = Forever
    Sizes = {"fits"}
    MayUnregister = FALSE
    MaxCalls = 2
    MaxFaults = 1
INVARIANTS
    TypeOK
    OneAnswerToCome
PROPERTIES
    RpcKept
SYMMETRY MCSymmetry
CHECK_DEADLOCK FALSE
