SPECIFICATION FairSpec
CONSTANTS
    h1 = h1
    h2 = h2
    app = app
    Handles = {h1, h2}
    Names = {app}
    NameOf <- MCOneName
    Ports = {1, 2}
    NoPort = NoPort
    LiveTimeoutNum = 0
    TicksPerRetry = 1
    MaxSockets <- MCSockets
    JoinsNeeded = 13
    NoEntry = NoEntry
    MaxPackets = 2
    MaxFaults = 1
INVARIANTS
    TypeOK
    ReturnedIsListed
PROPERTIES
    CreateReturns
