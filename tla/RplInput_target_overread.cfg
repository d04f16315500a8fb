CONSTANTS
    MaxSize = 64
    OptLens = {0, 1, 18, 200}
    PrefixLens = {64}
    OptTypes = {3, 5}
    DestLens = {64}
    MaxTargets = 2
SPECIFICATION Spec
INVARIANT TargetWithinDatagram
