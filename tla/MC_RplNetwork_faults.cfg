CONSTANTS
    nr = nr
    na = na
    nb = nb
    nx = nx
    Root = nr
    Intruder = Intruder
    NoPeer = NoPeer
    Unspec = Unspec
    Node = {nr, na}
    Link <- PairLink
    IflaAddrLen <- EuiLen
    LlinfoLost = {}
    DestPrefixLen = 64
    NetlinkFaults = TRUE
    Lossy = FALSE
    AllocFails = TRUE
    MaxInFlight = 2
    ForgedRank = {}
    ForgedTargets = {{na}}
SPECIFICATION Spec
INVARIANTS
    NoOnlinkRouteOnceSelf
