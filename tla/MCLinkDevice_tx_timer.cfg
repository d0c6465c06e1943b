SPECIFICATION Spec
CONSTANTS
    d1 = d1
    d2 = d2
    d3 = d3
    nodeA = nodeA
    nodeB = nodeB
    pk1 = pk1
    pk2 = pk2
    Dev = {d1, d2}
    Bcast = Bcast
    None = None
    Packet = {pk1, pk2}
    NodeOf <- OwnNode
    Conn <- PairConn
    Lossy <- NoPairs
    TooBig <- NoPairs
    OutLists <- PairOuts
    TxQueueLimit = 2
    MAX_CSMA_BACKOFFS = 1
INVARIANT TxEndsByItsTimer
CHECK_DEADLOCK FALSE
