SPECIFICATION Spec
CONSTANTS
    a = a
    b = b
    c = c
    d = d
    asker = asker
    source = source
    Node <- Two
    Dev <- Two
    NodeOf <- Own
    Bcast = Bcast
    Conn <- Pair
    Nexthops <- Pair
    Consumer = {asker}
    Producer = {source}
    At <- Ends
    Caching <- Two
    MaxInterests = 1
    MaxLosses = 0
INVARIANT NotSentBack
CHECK_DEADLOCK FALSE
