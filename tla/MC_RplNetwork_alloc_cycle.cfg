CONSTANTS
    nr = nr
    na = na
    nb = nb
    nx = nx
    Root = nr
    Intruder = Intruder
    NoPeer = NoPeer
    Unspec = Unspec
    Node = {nr, na, nx}
    Link <- LineLink
    IflaAddrLen <- EuiLen
    LlinfoLost = {}
    DestPrefixLen = 64
    NetlinkFaults = FALSE
    Lossy = FALSE
    AllocFails = TRUE
    MaxInFlight = 2
    ForgedRank = {}
    ForgedTargets = {}
SPECIFICATION Spec
INVARIANT
    ParentsAcyclic
