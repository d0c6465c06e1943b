SPECIFICATION FairSpec
CONSTANTS
    k1 = k1
    k2 = k2
    Component <- Components
    Name <- DrainNames
    InterestName <- DrainNames
    Nonce = {k1}
    Lifetime = {1, 2}
    Data <- NoData
    CmdPrefix <- rib
    Command <- DrainCmds
    ResponseSize = 1
    CacheLimit = 2
    StaticFaces = 1
    StaticRoute <- BroadcastRoute
    MaxFaceId = 4
    IntValues = 16
    MaxCredit = 3
PROPERTY PitDrains
CHECK_DEADLOCK FALSE
