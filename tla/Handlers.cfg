SPECIFICATION Spec
CONSTANTS
    f = f
    g = g
    e = e
    MsgNames = {m, n}
    AnyMsg = AnyMsg
    ApiNames = {x}
    Funs = {f, g}
    ExtFuns = {e}
    NoDispatch = NoDispatch
    Crashed = Crashed
    MaxMsgs = 3
    MaxApis = 1
SYMMETRY MCSymmetry
INVARIANTS
    TypeOK
    EachHandlerIsCalledOnce
    TablesAgree
CHECK_DEADLOCK FALSE
