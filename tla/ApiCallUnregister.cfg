SPECIFICATION Spec
CONSTANTS
    a = a
    b = b
    Handles = {a, b}
    Callers = {a, b}
    Apis = {f}
    Timeouts = {1}
    Forever = Forever
    Sizes = {"fits"}
    MayUnregister = TRUE
    MaxCalls = 2
    MaxFaults = 0
INVARIANT
    AckAnswersOwnCall
CHECK_DEADLOCK FALSE
