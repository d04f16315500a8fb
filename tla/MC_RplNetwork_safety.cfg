CONSTANTS
    nr = nr
    na = na
    nb = nb
    nx = nx
    Root = nr
    Intruder = Intruder
    NoPeer = NoPeer
    Unspec = Unspec
    Node = {nr, na, nx}
    Link <- TriangleLink
    IflaAddrLen <- NxEthLen
    LlinfoLost = {}
    DestPrefixLen = 64
    NetlinkFaults = FALSE
    Lossy = TRUE
    AllocFails = FALSE
    MaxInFlight = 2
    ForgedRank = {0}
    ForgedTargets = {}
SPECIFICATION Spec
INVARIANTS
    TypeOK
    ParentsAcyclic
    RoutesFollowTree
PROPERTIES
    JoinRefinement
