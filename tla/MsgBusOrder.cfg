SPECIFICATION Spec
CONSTANTS
    a = a
    b = b
    Handles = {a, b}
    Senders = {a, b}
    Subscribers = {a, b}
    Topics = {t}
    Registered = {t}
    AnyMsg = AnyMsg
    MayUnregister = FALSE
    MayLose = TRUE
    MaxMsgs = 1
    MaxPackets = 2
    MaxFaults = 1
PROPERTIES
    BusKept
CHECK_DEADLOCK FALSE
