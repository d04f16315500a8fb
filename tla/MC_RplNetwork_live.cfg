CONSTANTS
    nr = nr
    na = na
    nb = nb
    nx = nx
    Root = nr
    Intruder = Intruder
    NoPeer = NoPeer
    Unspec = Unspec
    Node = {nr, na}
    Link <- PairLink
    IflaAddrLen <- NxEthLen
    LlinfoLost = {}
    DestPrefixLen = 64
    NetlinkFaults = FALSE
    Lossy = TRUE
    AllocFails = FALSE
    MaxInFlight = 2
    ForgedRank = {}
    ForgedTargets = {}
SPECIFICATION FairSpec
PROPERTIES
    EveryNodeReachable
