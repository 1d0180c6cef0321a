CONSTANTS
    u1 = u1
    v1 = v1
    Unions <- MCUnions
    Views <- MCViews
    SharedFrom <- MCSharedFrom
    MaxCalls = 1
    MaxMounts = 2
    MaxGens = 1
    MaxConnections = 1
    FaultKinds = {}
    MaxFaults = 0
SPECIFICATION Spec
INVARIANTS
    ReadOnlyIsKept
CHECK_DEADLOCK FALSE
