CONSTANTS
    i1 = i1
    i2 = i2
    g1 = g1
    g2 = g2
    InstanceIds = {i1, i2}
    DodagIds = {g1, g2}
    Configs <- MCConfigs
    AllocFails = TRUE
    MaxAllocs = 5
    MaxBuilds = 1
    c1 = c1
    c2 = c2
    ChildAddrs = {c1, c2}
    TargetLists <- MCTargetLists
    PrefixLens <- MCPrefixLens
    IfaceLists <- MCIfaceLists
    SysFails = TRUE
SPECIFICATION Spec
\* main exits or returns: every behaviour ends.
CHECK_DEADLOCK FALSE
INVARIANTS
    LookupFindsEveryDag
    DaoListsChildrenOnce
    SentWithinBuffer
    ShutdownReleasesAll
