SPECIFICATION FairSpec
CONSTANTS
    MAX_NDN_PACKET_SIZE = 4
    ClientPacket <- StreamPackets
    MaxPackets = 3
    SendSize = {2}
    SockRoom = 1
    MaxSends = 2
INVARIANTS TypeOK OnlyBadPacketsStop ReceiveHasRoom
PROPERTY ImplementsStream
CHECK_DEADLOCK FALSE
