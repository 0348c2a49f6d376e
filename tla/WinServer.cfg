SPECIFICATION FairSpec
CONSTANTS
    Conns = {c1, c2}
    Hellos <- MCHellos
    ServerConfigs <- MCServerConfigs
    WorkerCount = 1
    MaxIds = 3
    MaxServers = 2
    MaxMishaps = 1
CHECK_DEADLOCK FALSE
INVARIANTS NoObjectLeak AckIsBacked RegionsApart ReadyIsEntitled
PROPERTIES StopReturns ConnectEnds
