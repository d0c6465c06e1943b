SPECIFICATION Spec
CONSTANTS
    l1 = l1
    l2 = l2
    n1 = n1
    n2 = n2
    d1 = d1
    d2 = d2
    root = root
    LinkId = {l1, l2}
    NodeId = {n1, n2}
    DevId = {d1, d2}
    Prefix = {root}
    None = None
    MaxRoutes = 2
SYMMETRY Symmetry
INVARIANTS TypeOK FramesStayOnLink RoutesLead OneBroadcast LatestAttached
CHECK_DEADLOCK FALSE
