SPECIFICATION MCSpec
CONSTANTS
    mlist_mutex = mlist_mutex
    msg_list_mutex = msg_list_mutex
    api_list_mutex = api_list_mutex
    api_ack_list_mutex = api_ack_list_mutex
    debug_print_mutex = debug_print_mutex
    debug_save_mutex = debug_save_mutex
    NoOne = NoOne
    Threads <- DaemonThreads
    Mutexes <- DaemonMutexes
    Data <- DaemonData
    Guard <- DaemonGuard
    Rank <- DaemonRank
    MaxRank <- MCMaxRank
    Turns <- DaemonTurns
    c1 = c1
    c2 = c2
    c3 = c3
    NULL = NULL
    HeadNode = HeadNode
    TailNode = TailNode
    Cells <- MCCells
    LogSizes <- MCLogSizes
    MaxPrints = 4
    MaxPasses = 2
    f1 = f1
    f2 = f2
    f3 = f3
    a = a
    b = b
    along = along
    blong = blong
    app = app
    Files <- MCFiles
    Documents <- MCDocuments
    Listings <- MCListings
    CutNames <- MCCutNames
    CutUnits <- MCCutUnits
    CutPaths <- MCCutPaths
    Names = {app, other}
    NoList = NoList
    Unusable = Unusable
    NoConfig = NoConfig
    Star = Star
    MaxRequests = 4
    MaxMembers = 1
INVARIANTS
    RaceFree
    NoWaitCycle
    NothingLeftLocked
    LogTypeOK
    MemoryHoldsLatest
    FilesInOrder
    ShownIsInForce
    NothingTwice
    NoFileNoTrace
PROPERTIES
    PassIsSnapshot
