SPECIFICATION FairSpec
CONSTANTS
    d1 = d1
    d2 = d2
    d3 = d3
    nodeA = nodeA
    nodeB = nodeB
    pk1 = pk1
    pk2 = pk2
    Dev = {d1, d2}
    Bcast = Bcast
    None = None
    Packet = {pk1, pk2}
    NodeOf <- OwnNode
    Conn <- PairConn
    Lossy <- PairLossy
    TooBig <- BigPacket
    OutLists <- PairOuts
    TxQueueLimit = 2
    MAX_CSMA_BACKOFFS = 1
INVARIANTS TypeOK CsmaAssertion NoStrandedPacket NoDeafDevice TransmitBeforeTxEnd
PROPERTIES TxQueueDrains ImplementsMedium
CHECK_DEADLOCK FALSE
