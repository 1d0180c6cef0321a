CONSTANTS
    u1 = u1
    v1 = v1
    Unions <- MCUnions
    Views <- MCViews
    SharedFrom <- MCSharedFrom
    MaxCalls = 2
    MaxMounts = 4
    MaxGens = 3
    MaxConnections = 2
    FaultKinds = {"outlive", "kill", "forget", "reboot", "change", "signal", "listen", "wait", "open", "create", "attach", "bind", "remount", "umount"}
    MaxFaults = 1
SPECIFICATION FairSpec
INVARIANTS
    TypeOK
    NoSharedUpper
    OneWorkspace
    PublishedIsReadOnly
PROPERTIES
    KeepsContract
    StopCutsNoCall
    ReachableAgain
    UnpublishCompletes
    PublishCompletes
    ProxyEnds
    PairEnds
CHECK_DEADLOCK FALSE
