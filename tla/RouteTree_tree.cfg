CONSTANTS
    Addr = {a1, a2}
    MaxNodes = 5
    AllocFails = TRUE
SPECIFICATION Spec
INVARIANTS
    TypeOK
    ChildListsMatchParents
    InsertFollowsPreorder
    PathIsAncestorChain
PROPERTIES
    FreeReleasesChildrenFirst
