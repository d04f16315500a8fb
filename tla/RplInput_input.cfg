CONSTANTS
    MaxSize = 64
    OptLens = {0, 1, 18, 200}
    PrefixLens = {0, 64, 128}
    OptTypes = {3, 5}
    DestLens = {0, 64, 128}
    MaxTargets = 2
SPECIFICATION Spec
INVARIANTS
    HeadersWithinDatagram
    PrefixWithinDatagram
    BuiltAccepted
