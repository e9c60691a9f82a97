SPECIFICATION FairSpec
CONSTANTS
    a = a
    b = b
    Handles = {a, b}
    Callers = {a}
    Apis = {f}
    Timeouts <- MCTimeouts
    Forever = Forever
    Sizes = {"fits"}
    MayUnregister = TRUE
    MaxCalls = 1
    MaxFaults = 2
INVARIANTS
    AnswerToCome
    HandlerRunsOnce
PROPERTIES
    CallWithTimeoutReturns
CHECK_DEADLOCK FALSE
