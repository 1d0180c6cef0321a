CONSTANTS
    u1 = u1
    v1 = v1
    p1 = p1
    Unions <- OneUnions
    Views <- OneViews
    SharedFrom <- OneSharedFrom
    Pods <- OnePods
    PodOf <- OnePodOf
    MaxDaemons = 3
    HostSystemd = TRUE
    SealControl = TRUE
    FaultKinds = {"crash"}
    MaxFaults = 1
SPECIFICATION Spec
INVARIANTS
    ViewIsSealedUnion
