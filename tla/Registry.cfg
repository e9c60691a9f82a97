SPECIFICATION Spec
CONSTANTS
    p1 = p1
    p2 = p2
    p3 = p3
    app1 = app1
    app2 = app2
    Pids <- MCPids
    Names <- MCNames
    Requests <- MCRequests
    Topics = {f}
    LiveTimeoutNum = 1
    MaxMembers = 3
    NoJoin = NoJoin
    NoReply = NoReply
INVARIANTS
    TypeOK
    UniqueIds
    RegisteredOnce
    SuspendedWasSilent
PROPERTIES
    ActiveIsKept
    JoinAnswerIsTrue
CHECK_DEADLOCK TRUE
