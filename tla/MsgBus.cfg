SPECIFICATION FairSpec
CONSTANTS
    a = a
    b = b
    Handles = {a, b}
    Senders = {a}
    Subscribers = {b}
    Topics = {t}
    Registered = {t, AnyMsg}
    AnyMsg = AnyMsg
    MayUnregister = TRUE
    MayLose = FALSE
    MaxMsgs = 2
    MaxPackets = 2
    MaxFaults = 1
INVARIANTS
    TypeOK
    EarlyBirdsAreServed
    ViewsAgree
PROPERTIES
    DueIsHeard
CHECK_DEADLOCK FALSE
