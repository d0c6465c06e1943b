SPECIFICATION Spec
CONSTANTS
    k1 = k1
    k2 = k2
    Component <- Components
    Name <- AllNames
    InterestName <- AskedNames
    Nonce = {k1, k2}
    Lifetime = {1}
    Data <- MoreData
    CmdPrefix <- rib
    Command <- AllCmds
    ResponseSize = 1
    CacheLimit = 2
    StaticFaces = 1
    StaticRoute <- BroadcastRoute
    MaxFaceId = 4
    IntValues = 16
    MaxCredit = 4
VIEW FlowState
SYMMETRY NonceSymmetry
INVARIANTS TypeOK FlowBalance PendingNotCached CacheAccounting RoutesAreLive NewFaceIsClean
CHECK_DEADLOCK FALSE
