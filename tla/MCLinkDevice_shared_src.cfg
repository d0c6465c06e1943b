SPECIFICATION Spec
CONSTANTS
    d1 = d1
    d2 = d2
    d3 = d3
    nodeA = nodeA
    nodeB = nodeB
    pk1 = pk1
    pk2 = pk2
    Dev = {d1, d2, d3}
    Bcast = Bcast
    None = None
    Packet = {pk1, pk2}
    NodeOf <- RouterNode
    Conn <- RouterConn
    Lossy <- NoPairs
    TooBig <- NoPairs
    OutLists <- RouterOuts
    TxQueueLimit = 1
    MAX_CSMA_BACKOFFS = 0
INVARIANT SrcIsTransmitter
CHECK_DEADLOCK FALSE
