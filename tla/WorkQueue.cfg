SPECIFICATION FairSpec
CONSTANTS
    p1 = p1
    p2 = p2
    c = c
    Producers = {p1, p2}
    Free = Free
    Consumer = c
    MaxItems = 3
INVARIANTS
    TypeOK
    NeverBroken
    NoEntryStranded
    InOrder
PROPERTIES
    EveryEntryIsPulled
CHECK_DEADLOCK FALSE
