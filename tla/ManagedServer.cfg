SPECIFICATION FairSpec
CONSTANTS
    Clients = {c1, c2}
    WorkerCount = 1
    ShmSupported = TRUE
    MaxIds = 3
CHECK_DEADLOCK FALSE
INVARIANTS RegionsMatchSessions
PROPERTIES StopReturns BaselineSlotIsFreed
