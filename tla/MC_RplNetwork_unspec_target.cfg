CONSTANTS
    nr = nr
    na = na
    nb = nb
    nx = nx
    Root = nr
    Intruder = Intruder
    NoPeer = NoPeer
    Unspec = Unspec
    Node = {nr, na, nx}
    Link <- TriangleLink
    IflaAddrLen <- EuiLen
    LlinfoLost = {nx}
    DestPrefixLen = 64
    NetlinkFaults = FALSE
    Lossy = FALSE
    AllocFails = FALSE
    MaxInFlight = 2
    ForgedRank = {}
    ForgedTargets = {}
SPECIFICATION Spec
INVARIANT
    NoUnspecTarget
