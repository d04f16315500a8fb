CONSTANTS
    MaxSize = 64
    OptLens = {0, 1, 18, 200}
    PrefixLens = {0, 64, 136}
    OptTypes = {3, 5}
    DestLens = {64, 255}
    MaxTargets = 2
SPECIFICATION Spec
INVARIANT PrefixCopyFits
