SPECIFICATION FairSpec
CONSTANTS
    a = a
    b = b
    c = c
    d = d
    asker = asker
    source = source
    Node <- Four
    Dev <- Four
    NodeOf <- Own
    Bcast = Bcast
    Conn <- Square
    Nexthops <- Mixed
    Consumer = {asker}
    Producer = {source}
    At <- Ends
    Caching <- Four
    MaxInterests = 3
    MaxLosses = 1
INVARIANTS TypeOK ForwardOnce Answered
PROPERTY LoopsEnd
CHECK_DEADLOCK FALSE
